SPECIFICATION Spec
CONSTANTS
  s1 = s1
  s2 = s2
  c1 = c1
  Process = {s1, c1, c2}
  Service = {s1}
  Client = {c1, c2}
  c2 = c2
  Name <- MCName
  Slot <- MCSlots
  Depth = 1
  MaxEndpoints = 1
  HandleCapacity = 2
  CpuCount = 2
  Event = Event
  Transients = FALSE
  None = None
  HeapSleeps = FALSE
INVARIANT ClientNotStranded
CHECK_DEADLOCK FALSE
