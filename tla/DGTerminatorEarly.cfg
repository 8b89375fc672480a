SPECIFICATION DistSpec
CONSTANTS
  Hosts = {1, 2}
  Sources = {1}
  MaxUpdates = 1
  FirstItrs = {TRUE}
  HandCounted = TRUE
INVARIANT HaltTogetherAfterFirstItr
CHECK_DEADLOCK FALSE
