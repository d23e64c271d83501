\* One test job of a healthy account: Clerk may refuse its token with a 403 whose
\* body says "forbidden", and the sign-in by mail may fail.
SPECIFICATION Spec
CONSTANTS
  admin = admin
  other = other
  a1 = a1
  a2 = a2
  t1 = t1
  t2 = t2
  r1 = r1
  Key = {admin}
  AdminKey = admin
  Account = {a1, a2}
  Imported <- TwoAccounts
  Caller = {t1}
  Tester = {t1}
  Fault = {"mail", "forbidden"}
  MaxSignIns = 1
  Orders <- Actives
  Operator = {}
  MaxEvents = 1
CHECK_DEADLOCK FALSE
INVARIANT RetiredRightly
