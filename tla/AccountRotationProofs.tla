------------------------- MODULE AccountRotationProofs -------------------------
(***************************************************************************)
(* Proofs about AccountRotation: the rotation is fair, and one wake-up per *)
(* lease given back is enough for callers that take what they get.         *)
(***************************************************************************)
EXTENDS AccountRotation, AccountPoolProofs

--------------------------------------------------------------------------------
(* Fair turns *)

(* An account that stands at or before another has not been leased since   *)
(* the other one was: the rotation is the history, read from its front.    *)
RotationKept ==
  /\ since \in [Account -> SUBSET Account]
  /\ \A b \in Account \ Range(queue) : since[b] = {}
  /\ \A a, b \in Account : NotAfter(queue, a, b) => a \notin since[b]

(* A step that gives no caller a lease. *)
LEMMA NothingLeased ==
  ASSUME TypeOK, UNCHANGED held \/ \E r \in Request : held' = [held EXCEPT ![r] = NoAccount]
  PROVE  Leased = {}
BY DEF Leased, TypeOK

LEMMA OneLeased ==
  ASSUME TypeOK, NEW r \in Request, NEW a \in Account,
         held[r] = NoAccount, held' = [held EXCEPT ![r] = a]
  PROVE  Leased = {a}
<1>1. \A s \in Request : held[s] = NoAccount /\ held'[s] # NoAccount <=> s = r
  BY AccountAssumption DEF TypeOK
<1>2. held'[r] = a /\ a # NoAccount
  BY AccountAssumption DEF TypeOK
<1> QED BY <1>1, <1>2 DEF Leased

(* Entries of the rotation are accounts. *)
LEMMA QueueEntries ==
  ASSUME TypeOK
  PROVE  /\ DOMAIN queue = 1 .. Len(queue) /\ Len(queue) \in Nat
         /\ Range(queue) \subseteq Account
         /\ \A i \in DOMAIN queue : queue[i] \in Account
         /\ \A a, b : NotAfter(queue, a, b) => a \in Range(queue) /\ b \in Range(queue)
<1>1. DOMAIN queue = 1 .. Len(queue) /\ Len(queue) \in Nat
  BY LenProperties DEF TypeOK
<1>2. \A i \in DOMAIN queue : queue[i] \in Account
  BY <1>1, ElementOfSeq DEF TypeOK
<1> QED BY <1>1, <1>2 DEF Range, NotAfter

(* Without a lease the rotation may lose entries, keep the order of those  *)
(* that stay, and take in new ones behind them.                            *)
LEMMA TurnsKept ==
  ASSUME TypeOK, RotationKept, RecordTurns, Leased = {},
         \A a, b \in Account :
           NotAfter(queue', a, b) => NotAfter(queue, a, b) \/ b \notin Range(queue)
  PROVE  RotationKept'
<1>1. since' = [b \in Account |-> IF b \notin Range(queue') THEN {} ELSE since[b]]
  BY DEF RecordTurns, RotationKept
<1>2. \A b \in Account : since'[b] = since[b] \/ since'[b] = {}
  BY <1>1
<1>3. since' \in [Account -> SUBSET Account]
  BY <1>1 DEF RotationKept
<1>4. \A b \in Account \ Range(queue') : since'[b] = {}
  BY <1>1
<1>5. ASSUME NEW a \in Account, NEW b \in Account, NotAfter(queue', a, b)
      PROVE  a \notin since'[b]
  BY <1>2, <1>5 DEF RotationKept
<1>6. \A a, b \in Account : NotAfter(queue, a, b)' <=> NotAfter(queue', a, b)
  BY DEF NotAfter
<1> QED BY <1>3, <1>4, <1>5, <1>6 DEF RotationKept

(* bumpQueue sends the leased account behind all the others. *)
LEMMA BumpOrder ==
  ASSUME TypeOK, NEW a \in Account, Bump(a), NEW x, NEW y, NotAfter(queue', x, y)
  PROVE  y = a \/ (NotAfter(queue, x, y) /\ x # a)
<1>1. CASE a \notin Range(queue) /\ UNCHANGED queue
  BY <1>1, QueueEntries
<1>2. CASE \E i \in DOMAIN queue :
             queue[i] = a /\ queue' = Append(RemoveAt(queue, i), a)
  <2>1. PICK i \in DOMAIN queue :
               queue[i] = a /\ queue' = Append(RemoveAt(queue, i), a)
    BY <1>2
  <2>2. i \in 1 .. Len(queue) /\ queue \in Seq(Account) /\ IsInjective(queue)
    BY QueueEntries DEF TypeOK
  <2>3. /\ RemoveAt(queue, i) \in Seq(Account)
        /\ Range(RemoveAt(queue, i)) = Range(queue) \ {a}
    BY <2>1, <2>2, RemoveAtDistinct
  <2>4. y = a \/ (NotAfter(RemoveAt(queue, i), x, y) /\ x \in Range(RemoveAt(queue, i)))
    BY <2>1, <2>3, AppendOrder
  <2>5. NotAfter(RemoveAt(queue, i), x, y) => NotAfter(queue, x, y)
    BY <2>2, RemoveAtOrder
  <2> QED BY <2>3, <2>4, <2>5
<1> QED BY <1>1, <1>2 DEF Bump

LEMMA LeaseKeepsTurns ==
  ASSUME TypeOK, RotationKept, RecordTurns,
         NEW r \in Request, NEW a \in Account, LeaseStep(r, a)
  PROVE  RotationKept'
<1>1. Leased = {a}
  BY OneLeased DEF LeaseStep, Lease
<1>2. Range(queue') = Range(queue) /\ Bump(a)
  BY BumpFacts DEF LeaseStep, Lease
<1>3. since' = [b \in Account |->
                  IF b = a \/ b \notin Range(queue) THEN {} ELSE since[b] \cup {a}]
  BY <1>1, <1>2 DEF RecordTurns
<1>4. since' \in [Account -> SUBSET Account]
  BY <1>3 DEF RotationKept
<1>5. \A b \in Account \ Range(queue') : since'[b] = {}
  BY <1>2, <1>3
<1>6. ASSUME NEW x \in Account, NEW y \in Account, NotAfter(queue', x, y)
      PROVE  x \notin since'[y]
  <2>1. y = a \/ (NotAfter(queue, x, y) /\ x # a)
    BY <1>2, <1>6, BumpOrder
  <2> QED BY <1>3, <2>1 DEF RotationKept
<1>7. \A x, y \in Account : NotAfter(queue, x, y)' <=> NotAfter(queue', x, y)
  BY DEF NotAfter
<1> QED BY <1>4, <1>5, <1>6, <1>7 DEF RotationKept

(* SyncAccounts keeps the accounts of the rotation in their order, and the *)
(* others join behind them.                                                *)
LEMMA SyncOrder ==
  ASSUME TypeOK, NEW snap \in Snapshot, SyncAccounts(snap),
         NEW a, NEW b, NotAfter(queue', a, b), b \in Range(queue)
  PROVE  NotAfter(queue, a, b)
<1>1. /\ queue' \in Seq(Account) /\ IsInjective(queue')
      /\ queue' \in [1 .. Cardinality(Range(snap)) -> Range(snap)]
      /\ Merged(queue', snap)
  BY SyncFacts DEF SyncAccounts, SetToSeqs
<1>2. PICK i, j \in DOMAIN queue' : i <= j /\ queue'[i] = a /\ queue'[j] = b
  BY DEF NotAfter
<1>3. /\ a \in Range(snap) /\ b \in Range(snap)
      /\ i \in Nat /\ j \in Nat
  BY <1>1, <1>2, LenProperties
<1>4. CASE i = j
  <2>1. a = b
    BY <1>2, <1>4
  <2> QED BY <2>1, QueueEntries DEF NotAfter, Range
<1>5. CASE i # j
  <2>1. Before(queue', a, b)
    BY <1>2, <1>3, <1>5 DEF Before
  <2>2. Before(queue, a, b)
    BY <1>1, <1>3, <2>1 DEF Merged
  <2> QED BY <2>2, QueueEntries DEF Before, NotAfter
<1> QED BY <1>4, <1>5

LEMMA RemoveOrder ==
  ASSUME TypeOK, NEW c \in Account, RemoveAccount(c),
         NEW a, NEW b, NotAfter(queue', a, b)
  PROVE  NotAfter(queue, a, b)
<1>1. CASE UNCHANGED queue
  BY <1>1
<1>2. CASE \E i \in DOMAIN queue : queue[i] = c /\ queue' = RemoveAt(queue, i)
  BY <1>2, RemoveAtOrder, QueueEntries DEF TypeOK
<1> QED BY <1>1, <1>2 DEF RemoveAccount

LEMMA TurnsStep ==
  TypeOK /\ CallsSound /\ RotationKept /\ [RotationNext]_<<vars, since, patient>>
    => RotationKept'
<1> SUFFICES ASSUME TypeOK, CallsSound, RotationKept,
                    [RotationNext]_<<vars, since, patient>>
             PROVE  RotationKept'
  OBVIOUS
<1>1. CASE UNCHANGED <<vars, since, patient>>
  BY <1>1 DEF vars, pool, RotationKept, NotAfter
<1>2. CASE Next /\ RecordTurns
  <2>1. CASE UNCHANGED <<queue, lookup, inUse, held, forgotten>>
    BY <1>2, <2>1, NothingLeased, TurnsKept
  <2>2. ASSUME NEW r \in Request, NEW a \in Account, LeaseStep(r, a) PROVE RotationKept'
    BY <1>2, <2>2, LeaseKeepsTurns
  <2>3. ASSUME NEW r \in Request, GiveBack(r) PROVE RotationKept'
    <3>1. queue' = queue
      BY <2>3, ReleaseFacts DEF GiveBack, TypeOK
    <3>2. Leased = {}
      BY <2>3, NothingLeased DEF GiveBack
    <3> QED BY <1>2, <3>1, <3>2, TurnsKept
  <2>4. ASSUME NEW snap \in Snapshot, SyncAccounts(snap) PROVE RotationKept'
    <3>1. Leased = {}
      BY <2>4, NothingLeased DEF SyncAccounts
    <3> QED BY <1>2, <2>4, <3>1, SyncOrder, TurnsKept
  <2>5. ASSUME NEW a \in Account, RemoveAccount(a) PROVE RotationKept'
    <3>1. Leased = {}
      BY <2>5, NothingLeased DEF RemoveAccount
    <3> QED BY <1>2, <2>5, <3>1, RemoveOrder, TurnsKept
  <2> QED BY <1>2, <2>1, <2>2, <2>3, <2>4, <2>5, StepShapes
<1> QED BY <1>1, <1>2 DEF RotationNext

(* The first eligible account of the rotation stands before every other. *)
LEMMA ChoiceIsFirst ==
  ASSUME TypeOK, NEW x, NEW a \in Choice(NoAccount, x),
         NEW b \in Range(queue), Eligible(b, x)
  PROVE  NotAfter(queue, a, b)
<1>1. PICK i \in DOMAIN queue :
             a = queue[i] /\ \A k \in 1 .. (i - 1) : ~Eligible(queue[k], x)
  BY DEF Choice
<1>2. PICK j \in DOMAIN queue : b = queue[j]
  BY DEF Range
<1>3. j \notin 1 .. (i - 1)
  BY <1>1, <1>2
<1>4. i <= j
  BY <1>3, QueueEntries
<1> QED BY <1>1, <1>2, <1>4 DEF NotAfter

(* RotationNext only adds histories to the pool: its steps are steps of the *)
(* pool, and what holds of every behaviour of the pool holds of its own.   *)
LEMMA RotationIsPool == RotationSpec => Spec
<1>1. RotationInit => Init
  BY DEF RotationInit
<1>2. [RotationNext]_<<vars, since, patient>> => [Next]_vars
  BY DEF RotationNext
<1> QED BY <1>1, <1>2, PTL DEF RotationSpec, Spec

(* No account is handed out a second time while another one that could     *)
(* serve the request has waited in the rotation since before the first.    *)
THEOREM TurnsStayFair == RotationSpec => []TurnsAreFair
<1>1. RotationInit => RotationKept
  <2> SUFFICES ASSUME RotationInit PROVE RotationKept
    OBVIOUS
  <2> QED BY DEF RotationInit, RotationKept
<1>2. TypeOK /\ CallsSound /\ RotationKept /\ [RotationNext]_<<vars, since, patient>>
        => RotationKept'
  BY TurnsStep
<1>3. TypeOK /\ RotationKept => TurnsAreFair
  <2> SUFFICES ASSUME TypeOK, RotationKept, NEW x \in SUBSET Account,
                      NEW a \in Choice(NoAccount, x), NEW b \in Range(queue), Eligible(b, x)
               PROVE  a \notin since[b]
    BY DEF TurnsAreFair
  <2>1. NotAfter(queue, a, b)
    BY ChoiceIsFirst
  <2>2. a \in Account /\ b \in Account
    BY <2>1, QueueEntries
  <2> QED BY <2>1, <2>2 DEF RotationKept
<1> QED BY <1>1, <1>2, <1>3, RotationIsPool, TypeCorrect, PTL DEF RotationSpec

--------------------------------------------------------------------------------
(* Wake-ups *)

(* The callers on their way to the lock, and the leases the accounts of the *)
(* rotation have room for.                                                  *)
Awake == {r \in Request : call[r] = "trying" \/ Woken(r)}
Room == {s \in Range(queue) \X (1 .. MaxInflight) : s[2] > inUse[s[1]]}

(* As long as anyone sleeps, as many callers are awake as leases can be    *)
(* granted, by the limits of the accounts or by the global one.            *)
EnoughAwake ==
  waiters # << >> =>
    \/ Cardinality(Room) <= Cardinality(Awake)
    \/ GlobalLimit <= CurrentInUse + Cardinality(Awake)

AllPatient ==
  \A r \in Request : args[r] = NoArgs /\ ~late[r] /\ call[r] # "expired"

PatienceKept == patient => AllPatient /\ EnoughAwake

LEMMA CountsAreNat ==
  ASSUME TypeOK
  PROVE  /\ IsFiniteSet(Room) /\ Cardinality(Room) \in Nat
         /\ IsFiniteSet(Awake) /\ Cardinality(Awake) \in Nat
         /\ CurrentInUse \in Nat /\ GlobalLimit \in Nat
<1>1. IsFiniteSet(Range(queue) \X (1 .. MaxInflight))
  <2>1. IsFiniteSet(Range(queue))
    BY QueueEntries, AccountAssumption, FS_Subset
  <2>2. IsFiniteSet(1 .. MaxInflight)
    BY LimitAssumption, FS_Interval
  <2> QED BY <2>1, <2>2, FS_Product
<1>2. IsFiniteSet(Room)
  BY <1>1, FS_Subset DEF Room
<1>3. IsFiniteSet(Awake)
  BY RequestAssumption, FS_Subset DEF Awake
<1>4. CurrentInUse \in Nat /\ GlobalLimit \in Nat
  BY SlotsFinite, LimitIsNat DEF CurrentInUse, TypeOK
<1> QED BY <1>2, <1>3, <1>4, FS_CardinalityType

(* A caller without a wish is refused only when nothing is left to grant. *)
LEMMA RefusedMeansFull ==
  ASSUME TypeOK, MembersOnly, Refused(NoAccount, {})
  PROVE  Cardinality(Room) = 0 \/ GlobalLimit <= CurrentInUse
<1> SUFFICES ASSUME Room # {}, ~(GlobalLimit <= CurrentInUse) PROVE FALSE
  BY FS_EmptySet
<1>1. PICK j \in DOMAIN queue : inUse[queue[j]] < MaxInflight
  <2>1. PICK s \in Room : TRUE
    OBVIOUS
  <2>2. PICK j \in DOMAIN queue : s[1] = queue[j]
    BY <2>1 DEF Room, Range
  <2>3. s[2] > inUse[s[1]] /\ s[2] \in 1 .. MaxInflight /\ inUse[s[1]] \in Nat
    BY <2>1, <2>2, QueueEntries, LimitAssumption DEF Room, TypeOK
  <2> QED BY <2>2, <2>3, LimitAssumption
<1>2. Eligible(queue[j], {})
  <2>1. queue[j] \in Account /\ queue[j] \in Range(queue) /\ queue[j] \in lookup
    BY QueueEntries DEF MembersOnly, Range
  <2> QED BY <1>1, <2>1, AccountAssumption, CountsAreNat DEF Eligible, CanAcquire
<1> DEFINE T == {k \in DOMAIN queue : Eligible(queue[k], {})}
<1>3. T \in SUBSET Nat /\ T # {}
  BY <1>2, QueueEntries
<1>4. PICK i \in T : \A m \in T : i <= m
  <2> HIDE DEF T
  <2> QED BY <1>3, NatLeast
<1>5. i \in DOMAIN queue /\ Eligible(queue[i], {})
  BY <1>4
<1>6. \A k \in 1 .. (i - 1) : ~Eligible(queue[k], {})
  <2> SUFFICES ASSUME NEW k \in 1 .. (i - 1), Eligible(queue[k], {}) PROVE FALSE
    OBVIOUS
  <2>1. k \in DOMAIN queue /\ ~(i <= k)
    BY <1>5, QueueEntries
  <2> QED BY <2>1, <1>4
<1>7. queue[i] \in Choice(NoAccount, {})
  BY <1>5, <1>6 DEF Choice
<1> QED BY <1>7 DEF Refused

(* A lease fills a slot, whoever asked for it; one of an account of the    *)
(* rotation takes up room there.                                           *)
LEMMA LeaseTakesRoom ==
  ASSUME TypeOK, NEW r \in Request, NEW a \in Account, LeaseStep(r, a)
  PROVE  /\ GlobalLimit' = GlobalLimit
         /\ CurrentInUse' = CurrentInUse + 1
         /\ Cardinality(Room') <= Cardinality(Room)
         /\ a \in Range(queue) => Cardinality(Room') = Cardinality(Room) - 1
<1> DEFINE slot == <<a, inUse[a] + 1>>
<1>1. /\ inUse[a] < MaxInflight /\ inUse[a] \in Nat
      /\ inUse' = [inUse EXCEPT ![a] = @ + 1] /\ lookup' = lookup
      /\ Range(queue') = Range(queue)
  BY BumpFacts, LimitAssumption DEF LeaseStep, CanAcquire, Lease, TypeOK
<1>2. Room' = Room \ {slot}
  <2>1. ASSUME NEW s \in Range(queue) \X (1 .. MaxInflight)
        PROVE  s[2] > inUse'[s[1]] <=> s[2] > inUse[s[1]] /\ s # slot
    <3>1. /\ s[1] \in Account /\ s[2] \in Nat /\ inUse[s[1]] \in Nat
          /\ s = <<s[1], s[2]>>
      BY QueueEntries, LimitAssumption DEF TypeOK
    <3>2. CASE s[1] = a
      <4>1. inUse'[s[1]] = inUse[a] + 1
        BY <1>1, <3>1, <3>2 DEF TypeOK
      <4>2. s = slot <=> s[2] = inUse[a] + 1
        BY <3>1, <3>2
      <4> QED BY <3>1, <3>2, <4>1, <4>2
    <3>3. CASE s[1] # a
      <4>1. inUse'[s[1]] = inUse[s[1]] /\ s # slot
        BY <1>1, <3>1, <3>3 DEF TypeOK
      <4> QED BY <4>1
    <3> QED BY <3>2, <3>3
  <2> QED BY <1>1, <2>1 DEF Room
<1>3. a \in Range(queue) => slot \in Room
  BY <1>1, LimitAssumption DEF Room
<1> HIDE DEF slot
<1>4. GlobalLimit' = GlobalLimit
  BY <1>1 DEF GlobalLimit
<1>5. CurrentInUse' = CurrentInUse + 1
  BY <1>1, SlotsGain DEF CurrentInUse, Slots
<1>6. Cardinality(Room') <= Cardinality(Room)
  BY <1>2, CountsAreNat, FS_Subset
<1>7. a \in Range(queue) => Cardinality(Room') = Cardinality(Room) - 1
  BY <1>2, <1>3, CountsAreNat, FS_RemoveElement
<1> QED BY <1>4, <1>5, <1>6, <1>7

(* A lease given back frees one slot and makes room for one lease at most. *)
LEMMA ReleaseMakesRoom ==
  ASSUME TypeOK, NEW a \in Account, inUse[a] # 0,
         inUse' = [inUse EXCEPT ![a] = @ - 1], UNCHANGED <<queue, lookup>>
  PROVE  /\ GlobalLimit' = GlobalLimit
         /\ CurrentInUse <= CurrentInUse' + 1
         /\ Cardinality(Room') <= Cardinality(Room) + 1
<1> DEFINE slot == <<a, inUse[a]>>
           old == Slots(inUse)
           new == Slots(inUse')
<1>1. ASSUME NEW s \in Account \X (1 .. MaxInflight)
      PROVE  /\ s[2] <= inUse[s[1]] => s[2] <= inUse'[s[1]] \/ s = slot
             /\ s[2] > inUse'[s[1]] => s[2] > inUse[s[1]] \/ s = slot
  <2>1. /\ s[1] \in Account /\ s[2] \in Nat /\ inUse[s[1]] \in Nat
        /\ s = <<s[1], s[2]>>
    BY LimitAssumption DEF TypeOK
  <2>2. CASE s[1] = a
    <3>1. inUse'[s[1]] = inUse[a] - 1
      BY <2>1, <2>2 DEF TypeOK
    <3>2. s = slot <=> s[2] = inUse[a]
      BY <2>1, <2>2
    <3> QED BY <2>1, <2>2, <3>1, <3>2
  <2>3. CASE s[1] # a
    <3>1. inUse'[s[1]] = inUse[s[1]]
      BY <2>1, <2>3 DEF TypeOK
    <3> QED BY <2>1, <3>1
  <2> QED BY <2>2, <2>3
<1>2. old \subseteq new \cup {slot}
  BY <1>1 DEF Slots
<1>3. Room' \subseteq Room \cup {slot}
  <2>1. Range(queue) \X (1 .. MaxInflight) \subseteq Account \X (1 .. MaxInflight)
    BY QueueEntries
  <2> QED BY <1>1, <2>1 DEF Room
<1> HIDE DEF slot
<1>4. ASSUME NEW S, IsFiniteSet(S), NEW T, T \subseteq S \cup {slot}
      PROVE  Cardinality(T) <= Cardinality(S) + 1
  <2>1. IsFiniteSet(S \cup {slot}) /\ Cardinality(S \cup {slot}) <= Cardinality(S) + 1
    BY <1>4, FS_AddElement, FS_CardinalityType
  <2>2. Cardinality(T) <= Cardinality(S \cup {slot})
    BY <1>4, <2>1, FS_Subset
  <2>3. /\ Cardinality(S) \in Nat /\ Cardinality(S \cup {slot}) \in Nat
        /\ Cardinality(T) \in Nat
    BY <1>4, <2>1, FS_Subset, FS_CardinalityType
  <2> QED BY <2>1, <2>2, <2>3
<1>5. Cardinality(old) <= Cardinality(new) + 1
  BY <1>2, <1>4, SlotsFinite
<1>6. Cardinality(Room') <= Cardinality(Room) + 1
  BY <1>3, <1>4, CountsAreNat
<1>7. CurrentInUse' = Cardinality(new)
  BY DEF CurrentInUse, Slots
<1> QED BY <1>5, <1>6, <1>7 DEF CurrentInUse, GlobalLimit

(* A caller that leaves the lock without having slept. *)
LEMMA AwakeLose ==
  ASSUME TypeOK, NEW r \in Request, call[r] = "trying",
         \A s \in Request \ {r} : call'[s] = call[s],
         call'[r] = "idle" \/ (call'[r] = "waiting" /\ r \in Range(waiters')),
         \A s \in Request \ {r} : s \in Range(waiters') <=> s \in Range(waiters)
  PROVE  Cardinality(Awake') = Cardinality(Awake) - 1
<1>1. Awake' = Awake \ {r}
  BY DEF Awake, Woken
<1>2. r \in Awake
  BY DEF Awake
<1> QED BY <1>1, <1>2, CountsAreNat, FS_RemoveElement

(* The oldest sleeper is woken. *)
LEMMA AwakeGain ==
  ASSUME TypeOK, CallsSound, AllPatient, waiters # << >>, NotifyOne, UNCHANGED call
  PROVE  Cardinality(Awake') = Cardinality(Awake) + 1
<1>1. Head(waiters) \in Range(waiters) /\ Head(waiters) \in Request
  <2>1. /\ Head(waiters) = waiters[1] /\ DOMAIN waiters = 1 .. Len(waiters)
        /\ Len(waiters) \in Nat \ {0}
    BY EmptySeq, LenProperties, HeadTailProperties DEF TypeOK
  <2>2. 1 \in DOMAIN waiters
    BY <2>1
  <2>3. waiters[1] \in Request
    BY <2>1, <2>2, ElementOfSeq DEF TypeOK
  <2> QED BY <2>1, <2>2, <2>3 DEF Range
<1>2. call[Head(waiters)] = "waiting"
  BY <1>1 DEF CallsSound, AllPatient
<1>3. Range(waiters') = Range(waiters) \ {Head(waiters)}
  BY TailDistinct DEF NotifyOne, TypeOK
<1>4. Awake' = Awake \cup {Head(waiters)} /\ Head(waiters) \notin Awake
  BY <1>1, <1>2, <1>3 DEF Awake, Woken
<1> QED BY <1>4, CountsAreNat, FS_AddElement

LEMMA CountsStayNat ==
  ASSUME TypeOK'
  PROVE  /\ Cardinality(Room') \in Nat /\ Cardinality(Awake') \in Nat
         /\ CurrentInUse' \in Nat /\ GlobalLimit' \in Nat
<1>1. IsFiniteSet(Awake')
  BY RequestAssumption, FS_Subset DEF Awake
<1>2. IsFiniteSet(Room')
  <2>1. IsFiniteSet(Account \X (1 .. MaxInflight))
    <3>1. IsFiniteSet(1 .. MaxInflight)
      BY LimitAssumption, FS_Interval
    <3> QED BY <3>1, AccountAssumption, FS_Product
  <2>2. Range(queue') \subseteq Account
    BY LenProperties, ElementOfSeq DEF Range, TypeOK
  <2>3. Room' \subseteq Account \X (1 .. MaxInflight)
    BY <2>2 DEF Room
  <2> QED BY <2>1, <2>3, FS_Subset
<1>3. CurrentInUse' \in Nat
  <2>1. CurrentInUse' = Cardinality(Slots(inUse'))
    BY DEF CurrentInUse, Slots
  <2> QED BY <2>1, SlotsFinite
<1>4. GlobalLimit' \in Nat
  <2>1. Cardinality(lookup') \in Nat
    BY AccountAssumption, FS_Subset, FS_CardinalityType DEF TypeOK
  <2>2. Cardinality(lookup') * MaxInflight \in Nat
    BY <2>1, LimitAssumption
  <2> QED BY <2>2, LimitAssumption DEF GlobalLimit
<1> QED BY <1>1, <1>2, <1>3, <1>4, FS_CardinalityType

(* What each kind of step does to the bound, by arithmetic alone. *)
LEMMA WakeArithmetic ==
  ASSUME TypeOK, TypeOK', EnoughAwake, waiters # << >>,
         GlobalLimit' = GlobalLimit,
         \/ /\ Cardinality(Room') <= Cardinality(Room)
            /\ CurrentInUse' >= CurrentInUse
            /\ Cardinality(Awake') >= Cardinality(Awake)
         \/ /\ Cardinality(Room') = Cardinality(Room) - 1
            /\ CurrentInUse' = CurrentInUse + 1
            /\ Cardinality(Awake') = Cardinality(Awake) - 1
         \/ /\ Cardinality(Room') <= Cardinality(Room) + 1
            /\ CurrentInUse <= CurrentInUse' + 1
            /\ Cardinality(Awake') = Cardinality(Awake) + 1
  PROVE  EnoughAwake'
<1> DEFINE m == Cardinality(Room)  m1 == Cardinality(Room')
           w == Cardinality(Awake) w1 == Cardinality(Awake')
           u == CurrentInUse       u1 == CurrentInUse'
<1>1. /\ m \in Nat /\ m1 \in Nat /\ w \in Nat /\ w1 \in Nat
      /\ u \in Nat /\ u1 \in Nat /\ GlobalLimit \in Nat
  BY CountsAreNat, CountsStayNat
<1>2. m <= w \/ GlobalLimit <= u + w
  BY DEF EnoughAwake
<1>3. m1 <= w1 \/ GlobalLimit <= u1 + w1
  <2> HIDE DEF m, m1, w, w1, u, u1
  <2> SUFFICES ASSUME \/ m1 <= m /\ u1 >= u /\ w1 >= w
                      \/ m1 = m - 1 /\ u1 = u + 1 /\ w1 = w - 1
                      \/ m1 <= m + 1 /\ u <= u1 + 1 /\ w1 = w + 1
               PROVE  m1 <= w1 \/ GlobalLimit <= u1 + w1
    BY DEF m, m1, w, w1, u, u1
  <2> QED BY <1>1, <1>2
<1> QED BY <1>3 DEF EnoughAwake

LEMMA PatienceStep ==
  PoolInv /\ TypeOK' /\ PatienceKept /\ [RotationNext]_<<vars, since, patient>>
    => PatienceKept'
<1> SUFFICES ASSUME PoolInv, TypeOK', PatienceKept, patient',
                    [RotationNext]_<<vars, since, patient>>
             PROVE  AllPatient' /\ EnoughAwake'
  BY DEF PatienceKept
<1> USE DEF PoolInv
<1>1. CASE UNCHANGED <<vars, since, patient>>
  BY <1>1 DEF vars, pool, calls, PatienceKept, AllPatient, EnoughAwake, Room, Awake,
              Woken, CurrentInUse, Slots, GlobalLimit
<1>2. CASE Next /\ RecordPatience
  <2>1. /\ patient /\ AllPatient /\ EnoughAwake
        /\ \A r \in Request : args'[r] = NoArgs /\ ~late'[r]
    BY <1>2 DEF RecordPatience, PatienceKept
  <2>2. ASSUME NEW r \in Request,
               Deadline(r) \/ GiveUp(r) \/ Expire(r) \/ Leave(r)
        PROVE  FALSE
    BY <2>1, <2>2 DEF Deadline, GiveUp, Expire, Leave, AllPatient, TypeOK
  <2>3. ASSUME call' = call \/ \E r \in Request, v \in {"idle", "trying", "waiting"} :
                                 call' = [call EXCEPT ![r] = v]
        PROVE  AllPatient'
    BY <2>1, <2>3 DEF AllPatient, TypeOK
  <2>4. ASSUME waiters' = << >> PROVE EnoughAwake'
    BY <2>4 DEF EnoughAwake
  <2>5. ASSUME waiters = << >>, UNCHANGED waiters PROVE EnoughAwake'
    BY <2>5 DEF EnoughAwake
  <2>6. ASSUME UNCHANGED <<queue, lookup, inUse>>
        PROVE  /\ Room' = Room /\ CurrentInUse' = CurrentInUse /\ GlobalLimit' = GlobalLimit
    BY <2>6 DEF Room, CurrentInUse, Slots, GlobalLimit
  <2>7. ASSUME NEW r \in Request, Start(r) PROVE AllPatient' /\ EnoughAwake'
    <3>1. call[r] = "idle" /\ held[r] = NoAccount
      BY <2>7 DEF Start, Free
    <3>2. PICK w \in Wish :
                 \/ BeginWait(r, w.target, w.exclude) /\ UNCHANGED <<pool, held, forgotten>>
                 \/ Acquire(r, w.target, w.exclude)
      BY <2>7 DEF Start
    <3>3. CASE BeginWait(r, w.target, w.exclude) /\ UNCHANGED <<pool, held, forgotten>>
      <4>1. /\ call' = [call EXCEPT ![r] = "trying"]
            /\ UNCHANGED <<queue, lookup, inUse, waiters>>
        BY <3>3 DEF BeginWait, pool
      <4>2. Awake \subseteq Awake'
        BY <3>1, <4>1 DEF Awake, Woken, TypeOK
      <4>3. Cardinality(Awake) <= Cardinality(Awake')
        <5>1. IsFiniteSet(Awake')
          BY RequestAssumption, FS_Subset DEF Awake
        <5> QED BY <4>2, <5>1, FS_Subset
      <4>4. AllPatient'
        BY <2>3, <4>1
      <4>5. CASE waiters # << >>
        <5>1. /\ Cardinality(Room') <= Cardinality(Room)
              /\ CurrentInUse' >= CurrentInUse /\ GlobalLimit' = GlobalLimit
              /\ Cardinality(Awake') >= Cardinality(Awake)
          BY <2>6, <4>1, <4>3, CountsAreNat, CountsStayNat
        <5> QED BY <2>1, <4>4, <4>5, <5>1, WakeArithmetic
      <4> QED BY <2>5, <4>1, <4>4, <4>5
    <3>4. CASE Acquire(r, w.target, w.exclude)
      <4>1. PICK a \in Account : LeaseStep(r, a)
        BY <3>1, <3>4, ChoiceFacts DEF Acquire, LeaseStep
      <4>2. UNCHANGED <<waiters, call>>
        BY <3>4 DEF Acquire, calls
      <4>3. Awake' = Awake
        BY <4>2 DEF Awake, Woken
      <4>4. /\ Cardinality(Room') <= Cardinality(Room)
            /\ CurrentInUse' >= CurrentInUse /\ GlobalLimit' = GlobalLimit
        BY <4>1, LeaseTakesRoom, CountsAreNat
      <4> QED BY <2>1, <2>3, <2>5, <4>2, <4>3, <4>4, CountsAreNat, WakeArithmetic
    <3> QED BY <3>2, <3>3, <3>4
  <2>8. ASSUME NEW r \in Request, Granted(r) PROVE AllPatient' /\ EnoughAwake'
    <3>1. call[r] = "trying" /\ held[r] = NoAccount /\ args[r] = NoArgs
      BY <2>1, <2>8 DEF Granted, CallsSound, AllPatient
    <3>2. PICK a \in Choice(NoAccount, {}) : Lease(r, a)
      BY <2>8, <3>1 DEF Granted, NoArgs
    <3>3. a \in Range(queue) /\ LeaseStep(r, a) /\ a \in Account
      BY <3>1, <3>2, ChoiceFacts DEF Choice, LeaseStep, Range
    <3>4. call' = [call EXCEPT ![r] = "idle"] /\ UNCHANGED waiters
      BY <2>8 DEF Granted, Return
    <3>5. Cardinality(Awake') = Cardinality(Awake) - 1
      BY <3>1, <3>4, AwakeLose DEF TypeOK
    <3>6. /\ Cardinality(Room') = Cardinality(Room) - 1
          /\ CurrentInUse' = CurrentInUse + 1 /\ GlobalLimit' = GlobalLimit
      BY <3>3, LeaseTakesRoom
    <3> QED BY <2>1, <2>3, <2>5, <3>4, <3>5, <3>6, WakeArithmetic
  <2>9. ASSUME NEW r \in Request, TurnedAway(r) \/ Enqueue(r)
        PROVE  AllPatient' /\ EnoughAwake'
    <3>1. Refused(NoAccount, {})
      <4>1. args[r] = NoArgs
        BY <2>1 DEF AllPatient
      <4>2. args[r].target = NoAccount /\ args[r].exclude = {}
        BY <4>1 DEF NoArgs
      <4>3. Refused(args[r].target, args[r].exclude)
        BY <2>9 DEF TurnedAway, Enqueue
      <4> QED BY <4>2, <4>3
    <3>2. Cardinality(Room) = 0 \/ GlobalLimit <= CurrentInUse
      BY <3>1, RefusedMeansFull
    <3>3. UNCHANGED <<queue, lookup, inUse>>
      BY <2>9 DEF TurnedAway, Enqueue, pool
    <3>4. /\ \E v \in {"idle", "waiting"} : call' = [call EXCEPT ![r] = v]
      BY <2>9 DEF TurnedAway, Enqueue, Return
    <3>5. EnoughAwake'
      <4>1. /\ Cardinality(Awake') \in Nat /\ CurrentInUse \in Nat /\ GlobalLimit \in Nat
        BY CountsAreNat, CountsStayNat
      <4>2. \/ Cardinality(Room') <= Cardinality(Awake')
            \/ GlobalLimit' <= CurrentInUse' + Cardinality(Awake')
        BY <2>6, <3>2, <3>3, <4>1
      <4> QED BY <4>2 DEF EnoughAwake
    <3> QED BY <2>3, <3>4, <3>5
  <2>10. ASSUME NEW r \in Request, Resume(r) PROVE AllPatient' /\ EnoughAwake'
    <3>1. /\ call' = [call EXCEPT ![r] = "trying"] /\ Woken(r)
          /\ UNCHANGED <<queue, lookup, inUse, waiters>>
      BY <2>10 DEF Resume, pool
    <3>2. Awake' = Awake
      BY <3>1 DEF Awake, Woken, TypeOK
    <3>3. CASE waiters # << >>
      <4>1. /\ Cardinality(Room') <= Cardinality(Room)
            /\ CurrentInUse' >= CurrentInUse /\ GlobalLimit' = GlobalLimit
            /\ Cardinality(Awake') >= Cardinality(Awake)
        BY <2>6, <3>1, <3>2, CountsAreNat
      <4> QED BY <2>1, <2>3, <3>1, <3>3, <4>1, WakeArithmetic
    <3> QED BY <2>3, <2>5, <3>1, <3>3
  <2>11. ASSUME NEW r \in Request, GiveBack(r) PROVE AllPatient' /\ EnoughAwake'
    <3>1. held[r] \in Account /\ Release(held[r]) /\ UNCHANGED call
      BY <2>11 DEF GiveBack, TypeOK, calls
    <3>2. CASE inUse[held[r]] = 0
      <4>1. UNCHANGED <<queue, lookup, inUse, waiters>>
        BY <3>1, <3>2 DEF Release, pool
      <4>2. Awake' = Awake
        BY <3>1, <4>1 DEF Awake, Woken
      <4> QED BY <2>1, <2>3, <2>5, <2>6, <3>1, <4>1, <4>2, CountsAreNat, WakeArithmetic
    <3>3. CASE inUse[held[r]] # 0
      <4>1. /\ inUse' = [inUse EXCEPT ![held[r]] = @ - 1] /\ NotifyOne
            /\ UNCHANGED <<queue, lookup>>
        BY <3>1, <3>3 DEF Release
      <4>2. CASE waiters = << >>
        BY <2>3, <2>4, <3>1, <4>1, <4>2 DEF NotifyOne
      <4>3. CASE waiters # << >>
        <5>1. Cardinality(Awake') = Cardinality(Awake) + 1
          BY <2>1, <3>1, <4>1, <4>3, AwakeGain
        <5>2. /\ GlobalLimit' = GlobalLimit /\ CurrentInUse <= CurrentInUse' + 1
              /\ Cardinality(Room') <= Cardinality(Room) + 1
          BY <3>1, <3>3, <4>1, ReleaseMakesRoom
        <5> QED BY <2>1, <2>3, <3>1, <4>3, <5>1, <5>2, WakeArithmetic
      <4> QED BY <4>2, <4>3
    <3> QED BY <3>2, <3>3
  <2>12. CASE Sync \/ Withdraw
    <3>1. waiters' = << >> /\ call' = call
      BY <2>12 DEF Sync, Withdraw, SyncAccounts, RemoveAccount, Drain, calls
    <3> QED BY <2>3, <2>4, <3>1
  <2> QED BY <1>2, <2>2, <2>7, <2>8, <2>9, <2>10, <2>11, <2>12 DEF Next, Attempt
<1> QED BY <1>1, <1>2 DEF RotationNext

(* Whoever could be served while asleep finds room, and room has a caller  *)
(* awake for it.                                                           *)
LEMMA PatienceSuffices == PoolInv /\ PatienceKept => PatientAreWoken
<1> SUFFICES ASSUME PoolInv, PatienceKept, patient, NEW r \in Range(waiters),
                    NEW a \in Choice(args[r].target, args[r].exclude)
             PROVE  \E s \in Request : call[s] = "trying" \/ Woken(s)
  BY DEF PatientAreWoken, NoLostWakeup
<1> USE DEF PoolInv
<1>1. r \in Request /\ waiters # << >>
  BY LenProperties, ElementOfSeq, EmptySeq DEF TypeOK, Range
<1>2. a \in Choice(NoAccount, {})
  <2>1. args[r] = NoArgs
    BY <1>1 DEF PatienceKept, AllPatient
  <2>2. args[r].target = NoAccount /\ args[r].exclude = {}
    BY <2>1 DEF NoArgs
  <2> QED BY <2>2
<1>3. a \in Range(queue) /\ a \in Account /\ CanAcquire(a) /\ a \in lookup
  BY <1>2, ChoiceFacts DEF Choice, Range
<1>4. Cardinality(Room) # 0
  <2>1. inUse[a] \in Nat /\ inUse[a] < MaxInflight
    BY <1>3, LimitAssumption DEF CanAcquire, TypeOK
  <2>2. <<a, inUse[a] + 1>> \in Room
    BY <1>3, <2>1, LimitAssumption DEF Room
  <2> QED BY <2>2, CountsAreNat, FS_EmptySet
<1>5. ~(GlobalLimit <= CurrentInUse)
  <2>1. GlobalLimit > 0
    <3>1. Cardinality(lookup) \in Nat \ {0}
      BY <1>3, AccountAssumption, FS_Subset, FS_CardinalityType, FS_EmptySet DEF TypeOK
    <3>2. Cardinality(lookup) * MaxInflight \in Nat \ {0}
      BY <3>1, LimitAssumption
    <3> QED BY <3>2, LimitAssumption DEF GlobalLimit
  <2> QED BY <1>3, <2>1, CountsAreNat DEF CanAcquire
<1>6. Cardinality(Awake) # 0
  BY <1>1, <1>4, <1>5, CountsAreNat DEF PatienceKept, EnoughAwake
<1>7. Awake # {}
  BY <1>6, FS_EmptySet
<1> QED BY <1>7 DEF Awake

(* One wake-up for each lease given back is enough, as long as no caller   *)
(* names an account, excludes one or gives up.                             *)
THEOREM NoPatientCallerIsForgotten == RotationSpec => []PatientAreWoken
<1>1. RotationInit => PatienceKept
  BY DEF RotationInit, Init, PatienceKept, AllPatient, EnoughAwake
<1>2. /\ PoolInv /\ TypeOK' /\ PatienceKept /\ [RotationNext]_<<vars, since, patient>>
        => PatienceKept'
  BY PatienceStep
<1>3. PoolInv => TypeOK
  BY DEF PoolInv
<1>4. PoolInv /\ PatienceKept => PatientAreWoken
  BY PatienceSuffices
<1> QED
  BY <1>1, <1>2, <1>3, <1>4, RotationIsPool, PoolInvariant, PTL DEF RotationSpec

================================================================================
