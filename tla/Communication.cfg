SPECIFICATION CommunicationSpec
CONSTANTS
  N = 3
  Operations <- Program
  Mirrors <- SomeMirrors
  MaxPhase = 4
  Ends = 2
  Tags = {1, 2}
  MaxSends = 2
  Senders = {0}
  Issend = TRUE
INVARIANTS OperationsMatch FenceHolds NoMessageUncounted FlushNotForgotten
PROPERTIES InOrderExactlyOnce Drains ProgramsFinish
