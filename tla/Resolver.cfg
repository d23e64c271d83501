\* Two clients over two accounts, and an operator who discards and restores them.
SPECIFICATION RSpec
CONSTANTS
  NoAccount = NoAccount
  a1 = a1
  a2 = a2
  r1 = r1
  r2 = r2
  r3 = r3
  k = k
  Account <- TwoAccounts
  Listed <- BothAccounts
  Banned = {a1}
  Request <- TwoClients
  Keeper = k
  Targets <- NoTarget
  Fault <- SwitchFaults
  ClientAttempts = 1
  KeeperAttempts = 1
  Snapshot = {}
  Wish = {}
  MaxInflight = 1
  GlobalMaxInflight = 0
  MaxQueue = 1
SYMMETRY ClientSymmetry
INVARIANTS
  RTypeOK
  EveryExitReleases
  SendsUnderLease
  NoLeakedSlot
PROPERTY
  NeverRetried
