\* One client; the first account is banned, the second is not.
SPECIFICATION RSpec
CONSTANTS
  NoAccount = NoAccount
  a1 = a1
  a2 = a2
  r1 = r1
  r2 = r2
  r3 = r3
  k = k
  Account <- TwoAccounts
  Listed <- BothAccounts
  Banned = {a1}
  Request <- OneClient
  Keeper = k
  Targets <- NoTarget
  Fault <- FailoverFaults
  ClientAttempts = 2
  KeeperAttempts = 1
  Snapshot = {}
  Wish = {}
  MaxInflight = 1
  GlobalMaxInflight = 0
  MaxQueue = 1
INVARIANT
  OnlyBannedDiscarded
