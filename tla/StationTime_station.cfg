CONSTANTS
  t1 = t1  m1 = m1  iA = iA  iB = iB
  sA = sA  sB = sB
  shift = shift
  pause = pause  fault = fault  note = note
  None = None
  Threads = {t1}
  Machines = {m1}
  Items = {iA, iB}
  Stations = {sA, sB}
  StationOf <- Stands
  Shifts = {shift}
  StartTime <- Starts
  EndTime <- Ends
  CrossesMidnight <- Crosses
  DayLength = 4
  StopTypes = {pause, fault, note}
  IsPlannedStop <- Planned
  CountsAsUnavailability <- Counts
SPECIFICATION Spec
CONSTANTS
  Forms <- OtherItem
  MaxStops = 2
INVARIANTS StopStaysAtStation
