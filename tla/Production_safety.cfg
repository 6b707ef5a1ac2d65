CONSTANTS
  t1 = t1  t2 = t2  t3 = t3
  ann = ann  ben = ben
  sat = sat  sun = sun
  am = am  pm = pm  station = station  nut = nut  cup = cup
  None = None
  Admins <- TwoAdmins
  Threads <- TwoThreads
  Days <- TwoDays
  MaxPlan = 2
  MaxItem = 2
  WorkDays = {1}
  Shifts = {am, pm}
  Stations = {station}
  Products = {nut, cup}
  Items <- FourItems
  ItemRow <- FourRows
  Cycle <- KnownCycle
  PlannedTimes = {3}
  Lost <- MinutesLost
  MaxQuantity = 1
  MaxCalendar = 2
SPECIFICATION MCSpec
SYMMETRY Symmetry3
INVARIANTS TypesOK RecordsBelong ReportsAgree FilterOnlySelects
PROPERTIES ApprovalIsFinal ApprovedPlanClosesOut
