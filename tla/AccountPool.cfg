\* Three accounts with two leases each under a global limit of two, three
\* requests and a waiting list of two.
SPECIFICATION RotationSpec
CONSTANTS
  NoAccount = NoAccount
  a1 = a1
  a2 = a2
  a3 = a3
  r1 = r1
  r2 = r2
  r3 = r3
  Account <- Accounts
  Request <- Requests
  Snapshot <- Snapshots
  Wish <- Wishes
  MaxInflight = 2
  GlobalMaxInflight = 2
  MaxQueue = 2
SYMMETRY RequestSymmetry
INVARIANTS
  TypeOK
  NoLeakedSlot
  CountExact
  LimitsKept
  TurnsAreFair
  PatientAreWoken
PROPERTY
  ImplementsLeaseTable
