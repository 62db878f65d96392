SPECIFICATION Spec
CONSTANTS
  s1 = s1
  s2 = s2
  c1 = c1
  Process = {s1, s2, c1}
  Service = {s1, s2}
  Client = {c1, s2}
  c2 = c2
  Name <- MCName
  Slot <- MCSlots
  Depth = 2
  MaxEndpoints = 2
  HandleCapacity = 2
  CpuCount = 1
  Event = Event
  Transients = FALSE
  None = None
  HeapSleeps = FALSE
INVARIANTS TypeOK ClientNotStranded ReceiverNotStranded EntriesBelong
CHECK_DEADLOCK FALSE
