CONSTANTS
  t1 = t1  t2 = t2  t3 = t3
  admin = admin  reviewer = reviewer
  f1 = f1  f2 = f2  d1 = d1  d2 = d2
  None = None
  Admins <- MCAdmins
  Reviewers <- MCReviewers
  Requesters <- MCRequesters
  Threads <- TwoThreads
  Forms <- OneForm
  Devices <- OneDevice
  MaxId = 2
SPECIFICATION Spec
INVARIANT DeletionIsComplete
