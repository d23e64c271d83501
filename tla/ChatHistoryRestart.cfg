\* Three entries under limits of one and two, the process stopping between saves only.
SPECIFICATION CalmSpec
CONSTANTS
  NoEntry = NoEntry
  e1 = e1
  e2 = e2
  e3 = e3
  Id <- Entries
  Limit <- Limits
  Legacy <- Legacies
  StartClock = 1
  DefaultLimit = 2
  Tick = 2
  MaxClock = 5
SYMMETRY EntrySymmetry
INVARIANT
  NeverLatched
