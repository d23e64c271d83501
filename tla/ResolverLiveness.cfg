\* A client and the keep-alive tour over two accounts whose logins fail, every
\* goroutine running.
SPECIFICATION RFairSpec
CONSTANTS
  NoAccount = NoAccount
  a1 = a1
  a2 = a2
  r1 = r1
  r2 = r2
  r3 = r3
  k = k
  Account <- TwoAccounts
  Listed <- BothAccounts
  Banned = {a1}
  Request <- ClientAndKeeper
  Keeper = k
  Targets <- SomeTargets
  Fault <- LoginFaults
  ClientAttempts = 1
  KeeperAttempts = 1
  Snapshot = {}
  Wish = {}
  MaxInflight = 1
  GlobalMaxInflight = 0
  MaxQueue = 1
PROPERTIES
  ImplementsLeaseTable
  RequestsEnd
  CallsReturn
