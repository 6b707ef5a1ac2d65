SPECIFICATION MCSpec
CONSTANTS
  t1 = t1  t2 = t2  b1 = b1  b2 = b2  tab = tab  c1 = c1  c2 = c2
  sara = sara  omid = omid  mina = mina  admin = admin  reviewer = reviewer
  None = None
  SecretKey = TRUE
  Threads = {t1, t2}
  Browsers = {b1, b2}
  Names = {sara, omid, mina}
  First = sara
  Forms <- AccountForms
  Limit = 2
  MaxId = 4
  Clients = {tab}
  Admins = {admin}
  Reviewers = {reviewer}
  MaxAttempts = 2
  MaxFailures = 5
  Companies = {c1, c2}
SYMMETRY Symmetry
INVARIANTS TypesOK AdminRemains UsersBounded HoldersBounded SessionIsItsAccount UserOfCompany VisitsMarked CompletedByPassword
PROPERTIES StrandedVisitor  LockoutHolds
