\* Three clients over one account whose logins fail.
SPECIFICATION RSpec
CONSTANTS
  NoAccount = NoAccount
  a1 = a1
  a2 = a2
  r1 = r1
  r2 = r2
  r3 = r3
  k = k
  Account <- OneAccount
  Listed <- JustA1
  Banned = {}
  Request <- ThreeClients
  Keeper = k
  Targets <- NoTarget
  Fault <- LoginFaults
  ClientAttempts = 1
  KeeperAttempts = 1
  Snapshot = {}
  Wish = {}
  MaxInflight = 1
  GlobalMaxInflight = 0
  MaxQueue = 2
INVARIANT
  LimitsKept
