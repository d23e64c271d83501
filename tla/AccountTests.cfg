\* One account with credentials and one without; two test jobs and a request that
\* renews a token beside one event from outside, whatever the operator, Clerk, a
\* cancel or the database does.
SPECIFICATION Spec
CONSTANTS
  admin = admin
  other = other
  a1 = a1
  a2 = a2
  t1 = t1
  t2 = t2
  r1 = r1
  Key = {admin, other}
  AdminKey = admin
  Account = {a1, a2}
  Imported <- TwoAccounts
  Caller = {t1, t2, r1}
  Tester = {t1, t2}
  Fault = {"mail", "store"}
  MaxSignIns = 3
  Orders <- Actives
  Operator = {"discard", "restore", "remove", "import", "create", "rotate", "delete", "toggle", "restart", "second server"}
  MaxEvents = 1
CHECK_DEADLOCK FALSE
INVARIANTS
  TypeOK
  RunningIsBacked
  NoCancelledResults
  RetiredRightly
  OwnSession
PROPERTIES
  LoneJobIsExact
  JobsEnd
