CONSTANTS
  t1 = t1  t2 = t2  t3 = t3
  admin = admin  reviewer = reviewer
  f1 = f1  f2 = f2  d1 = d1  d2 = d2
  None = None
  Admins <- MCAdmins
  Reviewers <- MCReviewers
  Requesters <- MCRequesters
  Threads <- TwoThreads
  Forms <- TwoForms
  Devices <- TwoDevices
  MaxId = 2
SPECIFICATION Spec
SYMMETRY Symmetry2
INVARIANTS TypeOK CompletionOwnsItsRow PagesBelongToOwner WorkMatchesReport
PROPERTY BoardSpec
