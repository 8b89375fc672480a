SPECIFICATION DetectorsSpec
CONSTANTS
  N = 3
  MaxItems = 2
  UseBasicPolicy = FALSE
  Leader <- SomeLeader
  ParentLeader <- SomeParentLeader
  Hosts = {1, 2}
  Sources = {1}
  MaxUpdates = 2
  FirstItrs = {TRUE, FALSE}
  HandCounted = TRUE
INVARIANTS RingSafe  
PROPERTIES Refinement 
CHECK_DEADLOCK FALSE
