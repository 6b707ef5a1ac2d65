CONSTANTS
  t1 = t1  t2 = t2  t3 = t3
  ann = ann  ben = ben
  sat = sat  sun = sun
  None = None
  Admins <- TwoAdmins
  Threads <- TwoThreads
  Days <- OneDay
  MaxPlan = 1
  MaxItem = 2
SPECIFICATION Spec
INVARIANT DateRuleIsUniform
