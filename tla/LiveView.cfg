\* Two rounds or a stop, a lost stream, a full outbox: what the stream carries and the tab shows.
SPECIFICATION Spec
CONSTANTS
  BufferSize = 2
  QueueMax = 2
  MaxSteps = 2
  MaxCalls = 1
  MaxConnects = 2
  MaxGets = 2
INVARIANTS
  TypeOK
  StreamIsSound
  ViewSettles
PROPERTIES
  StepsStay
CHECK_DEADLOCK FALSE
