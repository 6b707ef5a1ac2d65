SPECIFICATION Spec
CONSTANTS
  w1 = w1  w2 = w2
  first = first  farsi = farsi  north_dash = north_dash  north_space = north_space
  a1 = a1  a2 = a2
  repair = repair  repair_2 = repair_2
  repair_north = repair_north  repair_north_2 = repair_north_2
  None = None
  free = free  y2027 = y2027
  Workers = {w1, w2}
  Names = {first, farsi, north_dash, north_space}
  Admins = {a1, a2}
  Plans = {free}
  Dates = {y2027}
  Databases = {repair, repair_2, repair_north, repair_north_2}
  FirstName = first
  FirstDb = repair
  FirstPlan = free
  FirstUsers = {a1}
  Candidate <- Suffixed
  MaxTries = 2
SYMMETRY Symmetry
INVARIANTS TypeOK OwnDatabase
PROPERTIES StrandedForEver RegistrySpec
