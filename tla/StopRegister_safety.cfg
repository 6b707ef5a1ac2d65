CONSTANTS
  t1 = t1  t2 = t2
  m1 = m1  m2 = m2  i1 = i1
  sA = sA  sB = sB
  day = day  night = night
  fault = fault
  None = None
  Machines = {m1, m2}
  Items = {i1}
  Stations = {sA, sB}
  StationOf <- Stands
  Shifts = {day, night}
  StartTime <- Starts
  EndTime <- Ends
  CrossesMidnight <- Crosses
  DayLength = 4
  StopTypes = {fault}
SPECIFICATION Spec
CONSTANTS
  Threads <- TwoThreads
  Forms <- MixedForms
  MaxStops = 3
SYMMETRY Symmetry
INVARIANTS TypeOK StopsFit OverlapBounded
