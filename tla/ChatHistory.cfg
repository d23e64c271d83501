\* Three entries for two requests under limits of one and two, every file
\* operation failing or not, the process stopping anywhere.
SPECIFICATION HSpec
CONSTANTS
  NoEntry = NoEntry
  Nobody = Nobody
  e1 = e1
  e2 = e2
  e3 = e3
  s1 = s1
  s2 = s2
  Id <- Entries
  Session <- Sessions
  Limit <- Limits
  Legacy <- Legacies
  StartClock = 1
  DefaultLimit = 2
  Tick = 2
  MaxClock = 5
SYMMETRY Symmetry
INVARIANTS
  TypeOK
  PendingCovers
  Durable
  OncePerRequest
  EndingIsShown
