--------------------------- MODULE AccountPoolProofs ---------------------------
(***************************************************************************)
(* Proofs about AccountPool, for every number of accounts and requests and *)
(* every limit.                                                            *)
(***************************************************************************)
EXTENDS AccountPool, SequenceLemmas, FiniteSetTheorems

--------------------------------------------------------------------------------
(* What the building blocks of the actions do *)

(* acquireLocked returns members of the pool with room, if anything. *)
LEMMA ChoiceFacts ==
  ASSUME TypeOK, NEW t, NEW x, NEW a \in Choice(t, x)
  PROVE  a \in Account /\ a \in lookup /\ CanAcquire(a) /\ a # NoAccount
BY DEF Choice, Eligible, CanAcquire, TypeOK

(* bumpQueue reorders the rotation and nothing else. *)
LEMMA BumpFacts ==
  ASSUME TypeOK, NEW a \in Account, Bump(a)
  PROVE  queue' \in Seq(Account) /\ IsInjective(queue') /\ Range(queue') = Range(queue)
<1>1. CASE a \notin Range(queue) /\ UNCHANGED queue
  BY <1>1 DEF TypeOK
<1>2. CASE \E i \in DOMAIN queue :
             queue[i] = a /\ queue' = Append(RemoveAt(queue, i), a)
  <2>1. PICK i \in DOMAIN queue :
               queue[i] = a /\ queue' = Append(RemoveAt(queue, i), a)
    BY <1>2
  <2>2. i \in 1 .. Len(queue) /\ a \in Range(queue)
    BY <2>1, LenProperties DEF TypeOK, Range
  <2>3. /\ RemoveAt(queue, i) \in Seq(Account)
        /\ IsInjective(RemoveAt(queue, i))
        /\ Range(RemoveAt(queue, i)) = Range(queue) \ {a}
    BY <2>1, <2>2, RemoveAtDistinct DEF TypeOK
  <2>4. /\ queue' \in Seq(Account) /\ IsInjective(queue')
        /\ Range(queue') = (Range(queue) \ {a}) \cup {a}
    BY <2>1, <2>3, AppendDistinct
  <2> QED BY <2>2, <2>4
<1> QED BY <1>1, <1>2 DEF Bump

(* A caller that leaves the list is no longer in it, and the others still are. *)
LEMMA RemoveWaiterFacts ==
  ASSUME TypeOK, NEW r \in Request, RemoveWaiter(r)
  PROVE  /\ waiters' \in Seq(Request) /\ IsInjective(waiters')
         /\ Range(waiters') = Range(waiters) \ {r}
<1>1. CASE r \notin Range(waiters) /\ UNCHANGED waiters
  BY <1>1 DEF TypeOK
<1>2. CASE \E i \in DOMAIN waiters : waiters[i] = r /\ waiters' = RemoveAt(waiters, i)
  <2>1. PICK i \in DOMAIN waiters : waiters[i] = r /\ waiters' = RemoveAt(waiters, i)
    BY <1>2
  <2>2. i \in 1 .. Len(waiters)
    BY LenProperties DEF TypeOK
  <2> QED BY <2>1, <2>2, RemoveAtDistinct DEF TypeOK
<1> QED BY <1>1, <1>2 DEF RemoveWaiter

(* Waking one caller or all of them only shortens the list. *)
LEMMA WakeFacts ==
  ASSUME TypeOK, NotifyOne \/ Drain \/ UNCHANGED waiters
  PROVE  /\ waiters' \in Seq(Request) /\ IsInjective(waiters')
         /\ Range(waiters') \subseteq Range(waiters)
<1>0. << >> \in Seq(Request) /\ IsInjective(<< >>) /\ Range(<< >>) = {}
  BY EmptySeq DEF IsInjective, Range
<1>1. CASE NotifyOne
  BY <1>0, <1>1, TailDistinct DEF NotifyOne, TypeOK
<1>2. CASE Drain
  BY <1>0, <1>2 DEF Drain
<1>3. CASE UNCHANGED waiters
  BY <1>3 DEF TypeOK
<1> QED BY <1>1, <1>2, <1>3

(* Release touches at most one count and wakes at most one caller. *)
LEMMA ReleaseFacts ==
  ASSUME TypeOK, NEW a \in Account, Release(a)
  PROVE  /\ inUse' \in [Account -> 0 .. MaxInflight]
         /\ inUse' = [inUse EXCEPT ![a] = IF @ = 0 THEN 0 ELSE @ - 1]
         /\ NotifyOne \/ UNCHANGED waiters
         /\ UNCHANGED <<queue, lookup>>
BY LimitAssumption DEF Release, TypeOK, pool

(* After a synchronisation the rotation holds accounts of the snapshot only. *)
LEMMA ListFacts ==
  ASSUME TypeOK, NEW snap \in Seq(Account), SyncAccounts(snap)
  PROVE  /\ queue' \in Seq(Account) /\ IsInjective(queue')
         /\ lookup' = Range(snap) /\ Range(snap) \subseteq Account
         /\ Range(queue') \subseteq lookup'
         /\ inUse' \in [Account -> 0 .. MaxInflight]
<1>1. Range(snap) \subseteq Account
  BY LenProperties, ElementOfSeq DEF Range
<1>2. Cardinality(Range(snap)) \in Nat
  BY <1>1, AccountAssumption, FS_Subset, FS_CardinalityType
<1>3. queue' \in [1 .. Cardinality(Range(snap)) -> Range(snap)] /\ IsInjective(queue')
  BY DEF SyncAccounts, SetToSeqs, IsInjective
<1>4. queue' \in Seq(Account)
  BY <1>1, <1>2, <1>3, SeqDef
<1>5. Range(queue') \subseteq Range(snap)
  BY <1>3 DEF Range
<1> QED BY <1>1, <1>3, <1>4, <1>5, LimitAssumption DEF SyncAccounts, TypeOK

LEMMA SyncFacts ==
  ASSUME TypeOK, NEW snap \in Snapshot, SyncAccounts(snap)
  PROVE  /\ queue' \in Seq(Account) /\ IsInjective(queue')
         /\ lookup' = Range(snap) /\ Range(snap) \subseteq Account
         /\ Range(queue') \subseteq lookup'
         /\ inUse' \in [Account -> 0 .. MaxInflight]
BY ListFacts, SnapshotAssumption

LEMMA RemoveFacts ==
  ASSUME TypeOK, NEW a \in Account, RemoveAccount(a)
  PROVE  /\ queue' \in Seq(Account) /\ IsInjective(queue')
         /\ Range(queue') \subseteq Range(queue)
         /\ inUse' \in [Account -> 0 .. MaxInflight]
<1>1. inUse' \in [Account -> 0 .. MaxInflight]
  BY LimitAssumption DEF RemoveAccount, TypeOK
<1>2. CASE a \notin Range(queue) /\ UNCHANGED queue
  BY <1>1, <1>2 DEF TypeOK
<1>3. CASE \E i \in DOMAIN queue : queue[i] = a /\ queue' = RemoveAt(queue, i)
  <2>1. PICK i \in DOMAIN queue : queue[i] = a /\ queue' = RemoveAt(queue, i)
    BY <1>3
  <2>2. i \in 1 .. Len(queue)
    BY LenProperties DEF TypeOK
  <2> QED BY <1>1, <2>1, <2>2, RemoveAtDistinct DEF TypeOK
<1> QED BY <1>2, <1>3 DEF RemoveAccount
--------------------------------------------------------------------------------
(* How a step can change the lease table *)

(* Of all the steps of the pool and its callers only these touch a lease. *)
LeaseStep(r, a) ==
  /\ Lease(r, a)
  /\ held[r] = NoAccount
  /\ a \in Account /\ a \in lookup /\ CanAcquire(a)

LEMMA StepShapes ==
  ASSUME TypeOK, CallsSound, [Next]_vars
  PROVE  \/ UNCHANGED <<queue, lookup, inUse, held, forgotten>>
         \/ \E r \in Request, a \in Account : LeaseStep(r, a)
         \/ \E r \in Request : GiveBack(r)
         \/ \E snap \in Snapshot : SyncAccounts(snap)
         \/ \E a \in Account : RemoveAccount(a)
<1>1. ASSUME NEW r \in Request, Start(r)
      PROVE  \/ UNCHANGED <<queue, lookup, inUse, held, forgotten>>
             \/ \E a \in Account : LeaseStep(r, a)
  <2>1. PICK w \in Wish :
               \/ BeginWait(r, w.target, w.exclude) /\ UNCHANGED <<pool, held, forgotten>>
               \/ Acquire(r, w.target, w.exclude)
    BY <1>1 DEF Start
  <2>2. CASE UNCHANGED <<pool, held, forgotten>>
    BY <2>2 DEF pool
  <2>3. CASE Acquire(r, w.target, w.exclude)
    BY <1>1, <2>3, ChoiceFacts DEF Acquire, Start, Free, LeaseStep
  <2> QED BY <2>1, <2>2, <2>3
<1>2. ASSUME NEW r \in Request, Attempt(r)
      PROVE  \/ UNCHANGED <<queue, lookup, inUse, held, forgotten>>
             \/ \E a \in Account : LeaseStep(r, a)
  <2>1. CASE Granted(r)
    BY <2>1, ChoiceFacts DEF Granted, LeaseStep, CallsSound
  <2>2. CASE GiveUp(r) \/ TurnedAway(r) \/ Enqueue(r)
    BY <2>2 DEF GiveUp, TurnedAway, Enqueue, pool
  <2> QED BY <1>2, <2>1, <2>2 DEF Attempt
<1>3. ASSUME NEW r \in Request, Deadline(r) \/ Resume(r) \/ Expire(r) \/ Leave(r)
      PROVE  UNCHANGED <<queue, lookup, inUse, held, forgotten>>
  BY <1>3 DEF Deadline, Resume, Expire, Leave, pool
<1>4. CASE UNCHANGED vars
  BY <1>4 DEF vars, pool
<1> QED BY <1>1, <1>2, <1>3, <1>4 DEF Next, Sync, Withdraw

(* A lease granted to a caller without one adds exactly that caller. *)
LEMMA HoldersGain ==
  ASSUME TypeOK, NEW r \in Request, NEW a \in Account,
         held[r] = NoAccount, held' = [held EXCEPT ![r] = a]
  PROVE  /\ Cardinality(Holders(a)') = Cardinality(Holders(a)) + 1
         /\ \A b \in Account \ {a} : Holders(b)' = Holders(b)
<1>1. Holders(a)' = Holders(a) \cup {r} /\ r \notin Holders(a)
  BY AccountAssumption DEF Holders, TypeOK
<1>2. IsFiniteSet(Holders(a))
  BY RequestAssumption, FS_Subset DEF Holders
<1>3. \A b \in Account \ {a} : Holders(b)' = Holders(b)
  BY AccountAssumption DEF Holders, TypeOK
<1> QED BY <1>1, <1>2, <1>3, FS_AddElement

(* A lease given back removes exactly its holder. *)
LEMMA HoldersLose ==
  ASSUME TypeOK, NEW r \in Request, held[r] # NoAccount,
         held' = [held EXCEPT ![r] = NoAccount]
  PROVE  /\ Cardinality(Holders(held[r])) \in Nat \ {0}
         /\ Cardinality({s \in Request : held'[s] = held[r]}) =
              Cardinality(Holders(held[r])) - 1
         /\ \A b \in Account \ {held[r]} : Holders(b)' = Holders(b)
<1> DEFINE a == held[r]
<1>1. /\ {s \in Request : held'[s] = a} = Holders(a) \ {r}
      /\ r \in Holders(a)
  BY AccountAssumption DEF Holders, TypeOK
<1>2. IsFiniteSet(Holders(a))
  BY RequestAssumption, FS_Subset DEF Holders
<1>3. \A b \in Account \ {a} : Holders(b)' = Holders(b)
  BY AccountAssumption DEF Holders, TypeOK
<1>4. Cardinality(Holders(a)) \in Nat /\ Cardinality(Holders(a)) # 0
  BY <1>1, <1>2, FS_CardinalityType, FS_EmptySet
<1> QED BY <1>1, <1>2, <1>3, <1>4, FS_RemoveElement
--------------------------------------------------------------------------------
(* Type correctness *)

LEMMA TypeInit == Init => TypeOK
<1> SUFFICES ASSUME Init PROVE TypeOK
  OBVIOUS
<1>1. queue \in Seq(Account) /\ IsInjective(queue)
  BY SnapshotAssumption DEF Init
<1>2. lookup \subseteq Account
  BY <1>1, LenProperties, ElementOfSeq DEF Init, Range
<1>3. waiters \in Seq(Request) /\ IsInjective(waiters)
  BY EmptySeq DEF Init, IsInjective
<1>4. /\ inUse \in [Account -> 0 .. MaxInflight]
      /\ call \in [Request -> CallState]
      /\ args \in [Request -> [target : Account \cup {NoAccount}, exclude : SUBSET Account]]
      /\ late \in [Request -> BOOLEAN]
      /\ held \in [Request -> Account \cup {NoAccount}]
      /\ forgotten \subseteq Account
  BY LimitAssumption DEF Init, CallState, NoArgs
<1> QED BY <1>1, <1>2, <1>3, <1>4 DEF TypeOK

LEMMA TypeStep == TypeOK /\ CallsSound /\ [Next]_vars => TypeOK'
<1> SUFFICES ASSUME TypeOK, CallsSound, [Next]_vars PROVE TypeOK'
  OBVIOUS
<1> USE DEF CallState, NoArgs
<1>1. ASSUME NEW r \in Request, Start(r) PROVE TypeOK'
  <2>1. PICK w \in Wish :
               \/ BeginWait(r, w.target, w.exclude) /\ UNCHANGED <<pool, held, forgotten>>
               \/ Acquire(r, w.target, w.exclude)
    BY <1>1 DEF Start
  <2>2. CASE BeginWait(r, w.target, w.exclude) /\ UNCHANGED <<pool, held, forgotten>>
    BY <2>2, WishAssumption DEF BeginWait, TypeOK, pool
  <2>3. CASE Acquire(r, w.target, w.exclude)
    <3>1. PICK a \in Choice(w.target, w.exclude) : Lease(r, a)
      BY <2>3 DEF Acquire
    <3>2. a \in Account /\ inUse[a] < MaxInflight
      BY <3>1, ChoiceFacts DEF CanAcquire
    <3>3. queue' \in Seq(Account) /\ IsInjective(queue')
      BY <3>1, <3>2, BumpFacts DEF Lease
    <3> QED BY <2>3, <3>1, <3>2, <3>3, LimitAssumption DEF Acquire, Lease, TypeOK, calls
  <2> QED BY <2>1, <2>2, <2>3
<1>2. ASSUME NEW r \in Request, Granted(r) PROVE TypeOK'
  <2>1. PICK a \in Choice(args[r].target, args[r].exclude) : Lease(r, a)
    BY <1>2 DEF Granted
  <2>2. a \in Account /\ inUse[a] < MaxInflight
    BY <2>1, ChoiceFacts DEF CanAcquire
  <2>3. queue' \in Seq(Account) /\ IsInjective(queue')
    BY <2>1, <2>2, BumpFacts DEF Lease
  <2> QED BY <1>2, <2>1, <2>2, <2>3, LimitAssumption DEF Granted, Lease, Return, TypeOK
<1>3. ASSUME NEW r \in Request, GiveUp(r) \/ TurnedAway(r) PROVE TypeOK'
  <2>1. UNCHANGED <<queue, lookup, inUse, waiters, held, forgotten>> /\ Return(r)
    BY <1>3 DEF GiveUp, TurnedAway, pool
  <2> QED BY <2>1 DEF Return, TypeOK
<1>4. ASSUME NEW r \in Request, Enqueue(r) PROVE TypeOK'
  <2>1. r \notin Range(waiters)
    BY <1>4 DEF Enqueue, CallsSound
  <2>2. waiters' \in Seq(Request) /\ IsInjective(waiters')
    BY <1>4, <2>1, AppendDistinct DEF Enqueue, TypeOK
  <2> QED BY <1>4, <2>2 DEF Enqueue, TypeOK
<1>5. ASSUME NEW r \in Request, Deadline(r) \/ Resume(r) \/ Expire(r) PROVE TypeOK'
  BY <1>5 DEF Deadline, Resume, Expire, TypeOK, pool
<1>6. ASSUME NEW r \in Request, Leave(r) PROVE TypeOK'
  BY <1>6, RemoveWaiterFacts DEF Leave, Return, TypeOK
<1>7. ASSUME NEW r \in Request, GiveBack(r) PROVE TypeOK'
  <2>1. held[r] \in Account
    BY <1>7 DEF GiveBack, TypeOK
  <2>2. /\ inUse' \in [Account -> 0 .. MaxInflight]
        /\ waiters' \in Seq(Request) /\ IsInjective(waiters')
        /\ UNCHANGED <<queue, lookup>>
    BY <1>7, <2>1, ReleaseFacts, WakeFacts DEF GiveBack
  <2>3. forgotten' \subseteq Account
    BY <1>7 DEF GiveBack, Forget, TypeOK
  <2> QED BY <1>7, <2>2, <2>3 DEF GiveBack, TypeOK, calls
<1>8. ASSUME NEW snap \in Snapshot, SyncAccounts(snap) /\ UNCHANGED calls PROVE TypeOK'
  <2>1. waiters' \in Seq(Request) /\ IsInjective(waiters')
    BY <1>8, WakeFacts DEF SyncAccounts
  <2>2. forgotten' \subseteq Account
    BY <1>8 DEF SyncAccounts, Forget, TypeOK
  <2> QED BY <1>8, <2>1, <2>2, SyncFacts DEF SyncAccounts, TypeOK, calls
<1>9. ASSUME NEW a \in Account, RemoveAccount(a) /\ UNCHANGED calls PROVE TypeOK'
  <2>1. waiters' \in Seq(Request) /\ IsInjective(waiters')
    BY <1>9, WakeFacts DEF RemoveAccount
  <2>2. forgotten' \subseteq Account
    BY <1>9 DEF RemoveAccount, Forget, TypeOK
  <2> QED BY <1>9, <2>1, <2>2, RemoveFacts DEF RemoveAccount, TypeOK, calls
<1>10. CASE UNCHANGED vars
  BY <1>10 DEF vars, pool, calls, TypeOK
<1> QED
  BY <1>1, <1>2, <1>3, <1>4, <1>5, <1>6, <1>7, <1>8, <1>9, <1>10
     DEF Next, Attempt, Sync, Withdraw
--------------------------------------------------------------------------------
(* Callers inside AcquireWait *)

LEMMA CallsStep == TypeOK /\ CallsSound /\ [Next]_vars => CallsSound'
<1> SUFFICES ASSUME TypeOK, CallsSound, [Next]_vars PROVE CallsSound'
  OBVIOUS
<1> USE DEF CallsSound, TypeOK
<1>1. ASSUME NEW r \in Request, Start(r) PROVE CallsSound'
  <2>1. PICK w \in Wish :
               \/ BeginWait(r, w.target, w.exclude) /\ UNCHANGED <<pool, held, forgotten>>
               \/ Acquire(r, w.target, w.exclude)
    BY <1>1 DEF Start
  <2>2. r \notin Range(waiters) /\ call[r] = "idle" /\ held[r] = NoAccount
    BY <1>1 DEF Start, Free
  <2>3. CASE BeginWait(r, w.target, w.exclude) /\ UNCHANGED <<pool, held, forgotten>>
    BY <2>2, <2>3 DEF BeginWait, pool
  <2>4. CASE Acquire(r, w.target, w.exclude)
    BY <2>2, <2>4 DEF Acquire, Lease, calls
  <2> QED BY <2>1, <2>3, <2>4
<1>2. ASSUME NEW r \in Request, Attempt(r) PROVE CallsSound'
  <2>1. call[r] = "trying" /\ r \notin Range(waiters) /\ held[r] = NoAccount
    BY <1>2 DEF Attempt, GiveUp, Granted, TurnedAway, Enqueue
  <2>2. CASE Granted(r)
    BY <2>1, <2>2 DEF Granted, Lease, Return
  <2>3. CASE GiveUp(r) \/ TurnedAway(r)
    <3>1. UNCHANGED <<waiters, held>> /\ Return(r)
      BY <2>3 DEF GiveUp, TurnedAway, pool
    <3> QED BY <2>1, <3>1 DEF Return
  <2>4. CASE Enqueue(r)
    <3>1. Range(waiters') = Range(waiters) \cup {r}
      BY <2>1, <2>4, AppendDistinct DEF Enqueue
    <3> QED BY <2>1, <2>4, <3>1 DEF Enqueue
  <2> QED BY <1>2, <2>2, <2>3, <2>4 DEF Attempt
<1>3. ASSUME NEW r \in Request, Deadline(r) \/ Resume(r) \/ Expire(r) PROVE CallsSound'
  <2>1. UNCHANGED <<waiters, held>>
    BY <1>3 DEF Deadline, Resume, Expire, pool
  <2>2. CASE Deadline(r)
    BY <2>1, <2>2 DEF Deadline
  <2>3. CASE Resume(r)
    BY <2>1, <2>3 DEF Resume, Woken
  <2>4. CASE Expire(r)
    BY <2>1, <2>4 DEF Expire
  <2> QED BY <1>3, <2>2, <2>3, <2>4
<1>4. ASSUME NEW r \in Request, Leave(r) PROVE CallsSound'
  BY <1>4, RemoveWaiterFacts DEF Leave, Return
<1>5. ASSUME NEW r \in Request, GiveBack(r) PROVE CallsSound'
  <2>1. Range(waiters') \subseteq Range(waiters)
    BY <1>5, ReleaseFacts, WakeFacts DEF GiveBack
  <2> QED BY <1>5, <2>1 DEF GiveBack, calls
<1>6. ASSUME NEW snap \in Snapshot, SyncAccounts(snap) /\ UNCHANGED calls
      PROVE  CallsSound'
  <2>1. Range(waiters') \subseteq Range(waiters)
    BY <1>6, WakeFacts DEF SyncAccounts
  <2> QED BY <1>6, <2>1 DEF SyncAccounts, calls
<1>7. ASSUME NEW a \in Account, RemoveAccount(a) /\ UNCHANGED calls PROVE CallsSound'
  <2>1. Range(waiters') \subseteq Range(waiters)
    BY <1>7, WakeFacts DEF RemoveAccount
  <2> QED BY <1>7, <2>1 DEF RemoveAccount, calls
<1>8. CASE UNCHANGED vars
  BY <1>8 DEF vars, pool, calls
<1> QED BY <1>1, <1>2, <1>3, <1>4, <1>5, <1>6, <1>7, <1>8 DEF Next, Sync, Withdraw

LEMMA CallsInit == Init => CallsSound
BY DEF Init, CallsSound, Range

(* TypeOK needs CallsSound: a caller enters the waiting list at most once. *)
THEOREM TypeCorrect == Spec => [](TypeOK /\ CallsSound)
<1>1. Init => TypeOK /\ CallsSound
  BY TypeInit, CallsInit
<1>2. TypeOK /\ CallsSound /\ [Next]_vars => (TypeOK /\ CallsSound)'
  BY TypeStep, CallsStep
<1> QED BY <1>1, <1>2, PTL DEF Spec

--------------------------------------------------------------------------------
(* Members *)

LEMMA MembersStep ==
  TypeOK /\ CallsSound /\ MembersOnly /\ [Next]_vars => MembersOnly'
<1> SUFFICES ASSUME TypeOK, CallsSound, MembersOnly, [Next]_vars PROVE MembersOnly'
  OBVIOUS
<1>1. CASE UNCHANGED <<queue, lookup, inUse, held, forgotten>>
  BY <1>1 DEF MembersOnly
<1>2. ASSUME NEW r \in Request, NEW a \in Account, LeaseStep(r, a) PROVE MembersOnly'
  BY <1>2, BumpFacts DEF LeaseStep, Lease, MembersOnly, TypeOK
<1>3. ASSUME NEW r \in Request, GiveBack(r) PROVE MembersOnly'
  <2>1. held[r] \in Account
    BY <1>3 DEF GiveBack, TypeOK
  <2>2. /\ inUse' = [inUse EXCEPT ![held[r]] = IF @ = 0 THEN 0 ELSE @ - 1]
        /\ UNCHANGED <<queue, lookup>>
    BY <1>3, <2>1, ReleaseFacts DEF GiveBack
  <2> QED BY <2>1, <2>2 DEF MembersOnly, TypeOK
<1>4. ASSUME NEW snap \in Snapshot, SyncAccounts(snap) PROVE MembersOnly'
  BY <1>4, SyncFacts DEF SyncAccounts, MembersOnly
<1>5. ASSUME NEW a \in Account, RemoveAccount(a) PROVE MembersOnly'
  <2>1. Range(queue') \subseteq lookup'
    BY <1>5, RemoveFacts DEF RemoveAccount, MembersOnly
  <2>2. \A b \in Account : inUse'[b] > 0 => b \in lookup'
    BY <1>5 DEF RemoveAccount, MembersOnly, TypeOK
  <2> QED BY <2>1, <2>2 DEF MembersOnly
<1> QED BY <1>1, <1>2, <1>3, <1>4, <1>5, StepShapes
--------------------------------------------------------------------------------
(* The counts and the leases they count *)

LEMMA LeasesStep ==
  TypeOK /\ CallsSound /\ NoLeakedSlot /\ CountExact /\ [Next]_vars
    => NoLeakedSlot' /\ CountExact'
<1> SUFFICES ASSUME TypeOK, CallsSound, NoLeakedSlot, CountExact, [Next]_vars
             PROVE  NoLeakedSlot' /\ CountExact'
  OBVIOUS
<1>0. \A b \in Account :
        /\ IsFiniteSet(Holders(b)) /\ Cardinality(Holders(b)) \in Nat
        /\ inUse[b] \in Nat
  BY RequestAssumption, LimitAssumption, FS_Subset, FS_CardinalityType
     DEF Holders, TypeOK
<1>1. CASE UNCHANGED <<queue, lookup, inUse, held, forgotten>>
  BY <1>1 DEF NoLeakedSlot, CountExact, Holders
<1>2. ASSUME NEW r \in Request, NEW a \in Account, LeaseStep(r, a)
      PROVE  NoLeakedSlot' /\ CountExact'
  <2>1. /\ Cardinality(Holders(a)') = Cardinality(Holders(a)) + 1
        /\ \A b \in Account \ {a} : Holders(b)' = Holders(b)
    BY <1>2, HoldersGain DEF LeaseStep, Lease
  <2>2. /\ inUse'[a] = inUse[a] + 1
        /\ \A b \in Account \ {a} : inUse'[b] = inUse[b]
        /\ forgotten' = forgotten
    BY <1>2 DEF LeaseStep, Lease, TypeOK
  <2> QED BY <1>0, <2>1, <2>2 DEF NoLeakedSlot, CountExact
<1>3. ASSUME NEW r \in Request, GiveBack(r) PROVE NoLeakedSlot' /\ CountExact'
  <2> DEFINE a == held[r]
  <2>1. /\ a \in Account /\ a # NoAccount
        /\ held' = [held EXCEPT ![r] = NoAccount]
    BY <1>3 DEF GiveBack, TypeOK
  <2>2. /\ Cardinality(Holders(a)) \in Nat \ {0}
        /\ Cardinality({s \in Request : held'[s] = a}) = Cardinality(Holders(a)) - 1
        /\ \A b \in Account \ {a} : Holders(b)' = Holders(b)
    BY <2>1, HoldersLose
  <2>3. /\ inUse'[a] = IF inUse[a] = 0 THEN 0 ELSE inUse[a] - 1
        /\ \A b \in Account \ {a} : inUse'[b] = inUse[b]
    BY <1>3, <2>1, ReleaseFacts DEF GiveBack, TypeOK
  <2>4. \A b \in Account : b \notin forgotten' =>
          b \notin forgotten \/ {s \in Request : held'[s] = b} = {}
    BY <1>3 DEF GiveBack, Forget
  <2> HIDE DEF a
  <2>5. ASSUME NEW b \in Account
        PROVE  inUse'[b] <= Cardinality({s \in Request : held'[s] = b})
    <3>1. inUse[b] <= Cardinality(Holders(b))
      BY DEF NoLeakedSlot
    <3>2. CASE b = a
      <4>1. /\ inUse'[a] = IF inUse[a] = 0 THEN 0 ELSE inUse[a] - 1
            /\ inUse[a] \in Nat
        BY <1>0, <2>1, <2>3
      <4> QED BY <2>2, <3>1, <3>2, <4>1
    <3>3. CASE b # a
      <4>1. inUse'[b] = inUse[b] /\ Holders(b)' = Holders(b)
        BY <2>2, <2>3, <3>3
      <4> QED BY <3>1, <4>1 DEF Holders
    <3> QED BY <3>2, <3>3
  <2>6. ASSUME NEW b \in Account, b \notin forgotten'
        PROVE  inUse'[b] = Cardinality({s \in Request : held'[s] = b})
    <3>1. CASE b \notin forgotten
      BY <1>0, <2>1, <2>2, <2>3, <3>1 DEF CountExact, Holders
    <3>2. CASE {s \in Request : held'[s] = b} = {}
      <4>1. inUse'[b] >= 0
        BY <1>0, <2>1, <2>3
      <4> QED BY <3>2, <4>1, <2>5, FS_EmptySet, <1>0, <2>3
    <3> QED BY <2>4, <2>6, <3>1, <3>2
  <2> QED BY <2>5, <2>6 DEF NoLeakedSlot, CountExact, Holders
<1>4. ASSUME NEW dropped \in SUBSET Account,
             inUse' = [b \in Account |-> IF b \in dropped THEN 0 ELSE inUse[b]],
             held' = held, Forget(dropped)
      PROVE  NoLeakedSlot' /\ CountExact'
  <2>1. \A b \in Account : Holders(b)' = Holders(b)
    BY <1>4 DEF Holders
  <2>2. NoLeakedSlot'
    BY <1>0, <1>4, <2>1 DEF NoLeakedSlot
  <2>3. ASSUME NEW b \in Account, b \notin forgotten'
        PROVE  inUse'[b] = Cardinality(Holders(b))
    <3>1. \/ b \notin forgotten /\ (b \notin dropped \/ ~(inUse[b] > 0))
          \/ Holders(b) = {}
      BY <1>4, <2>3 DEF Forget, Holders
    <3>2. CASE b \notin forgotten /\ (b \notin dropped \/ ~(inUse[b] > 0))
      BY <1>0, <1>4, <3>2 DEF CountExact
    <3>3. CASE Holders(b) = {}
      <4>1. inUse[b] <= 0
        BY <3>3, FS_EmptySet DEF NoLeakedSlot
      <4> QED BY <1>0, <1>4, <3>3, <4>1, FS_EmptySet
    <3> QED BY <3>1, <3>2, <3>3
  <2> QED BY <2>1, <2>2, <2>3 DEF CountExact
<1>5. ASSUME NEW snap \in Snapshot, SyncAccounts(snap)
      PROVE  NoLeakedSlot' /\ CountExact'
  <2>1. inUse' = [b \in Account |->
                    IF b \in Account \ Range(snap) THEN 0 ELSE inUse[b]]
    BY <1>5 DEF SyncAccounts
  <2> QED BY <1>4, <1>5, <2>1 DEF SyncAccounts
<1>6. ASSUME NEW a \in Account, RemoveAccount(a) PROVE NoLeakedSlot' /\ CountExact'
  <2>1. inUse' = [b \in Account |-> IF b \in {a} THEN 0 ELSE inUse[b]]
    BY <1>6 DEF RemoveAccount, TypeOK
  <2> QED BY <1>4, <1>6, <2>1 DEF RemoveAccount
<1> QED BY <1>1, <1>2, <1>3, <1>5, <1>6, StepShapes

LEMMA LeasesInit == Init => NoLeakedSlot /\ CountExact
<1> SUFFICES ASSUME Init PROVE \A a \in Account : inUse[a] = Cardinality(Holders(a))
  BY DEF NoLeakedSlot, CountExact, Init
<1>1. \A a \in Account : Holders(a) = {}
  BY AccountAssumption DEF Init, Holders
<1> QED BY <1>1, FS_EmptySet DEF Init
--------------------------------------------------------------------------------
(* The global limit *)

LEMMA SlotsFinite ==
  ASSUME NEW count
  PROVE  /\ IsFiniteSet(Slots(count)) /\ Cardinality(Slots(count)) \in Nat
         /\ Slots(count) \subseteq Account \X (1 .. MaxInflight)
<1>1. IsFiniteSet(1 .. MaxInflight)
  BY LimitAssumption, FS_Interval
<1>2. IsFiniteSet(Account \X (1 .. MaxInflight))
  BY <1>1, AccountAssumption, FS_Product
<1>3. Slots(count) \subseteq Account \X (1 .. MaxInflight)
  BY DEF Slots
<1> QED BY <1>2, <1>3, FS_Subset, FS_CardinalityType

(* Smaller counts make a smaller sum. *)
LEMMA SlotsMonotonic ==
  ASSUME NEW f \in [Account -> Nat], NEW g \in [Account -> Nat],
         \A a \in Account : f[a] <= g[a]
  PROVE  Cardinality(Slots(f)) <= Cardinality(Slots(g))
<1>1. Slots(f) \subseteq Slots(g)
  <2> SUFFICES ASSUME NEW s \in Account \X (1 .. MaxInflight), s[2] <= f[s[1]]
               PROVE  s[2] <= g[s[1]]
    BY DEF Slots
  <2>1. s[1] \in Account /\ s[2] \in Nat
    OBVIOUS
  <2> QED BY <2>1
<1> QED BY <1>1, SlotsFinite, FS_Subset

(* One more lease adds one to the sum. *)
LEMMA SlotsGain ==
  ASSUME TypeOK, NEW a \in Account, inUse[a] < MaxInflight,
         inUse' = [inUse EXCEPT ![a] = @ + 1]
  PROVE  Cardinality(Slots(inUse')) = Cardinality(Slots(inUse)) + 1
<1> DEFINE new == <<a, inUse[a] + 1>>
<1>1. inUse[a] \in Nat /\ inUse[a] + 1 \in 1 .. MaxInflight
  BY LimitAssumption DEF TypeOK
<1>2. new \notin Slots(inUse)
  BY <1>1 DEF Slots
<1>3. ASSUME NEW s \in Account \X (1 .. MaxInflight)
      PROVE  s[2] <= inUse'[s[1]] <=> s[2] <= inUse[s[1]] \/ s = new
  <2>1. /\ s[1] \in Account /\ s[2] \in 1 .. MaxInflight /\ s = <<s[1], s[2]>>
        /\ inUse[s[1]] \in Nat
    BY LimitAssumption DEF TypeOK
  <2>2. CASE s[1] = a
    <3>1. inUse'[s[1]] = inUse[a] + 1
      BY <2>1, <2>2 DEF TypeOK
    <3>2. s = new <=> s[2] = inUse[a] + 1
      BY <2>1, <2>2
    <3> QED BY <1>1, <2>1, <2>2, <3>1, <3>2
  <2>3. CASE s[1] # a
    <3>1. inUse'[s[1]] = inUse[s[1]]
      BY <2>1, <2>3 DEF TypeOK
    <3>2. s # new
      BY <2>1, <2>3
    <3> QED BY <3>1, <3>2
  <2> QED BY <2>2, <2>3
<1>4. Slots(inUse') = Slots(inUse) \cup {new}
  BY <1>1, <1>3 DEF Slots
<1> QED BY <1>2, <1>4, SlotsFinite, FS_AddElement

LEMMA LimitIsNat == lookup \subseteq Account => Cardinality(lookup) \in Nat /\ GlobalLimit \in Nat
<1> SUFFICES ASSUME lookup \subseteq Account
             PROVE  Cardinality(lookup) \in Nat /\ GlobalLimit \in Nat
  OBVIOUS
<1>1. Cardinality(lookup) \in Nat
  BY AccountAssumption, FS_Subset, FS_CardinalityType
<1>2. Cardinality(lookup) * MaxInflight \in Nat
  BY <1>1, LimitAssumption
<1> QED BY <1>1, <1>2, LimitAssumption DEF GlobalLimit

LEMMA TotalStep ==
  TypeOK /\ CallsSound /\ TotalBounded /\ [Next]_vars => TotalBounded'
<1> SUFFICES ASSUME TypeOK, CallsSound, TotalBounded, [Next]_vars PROVE TotalBounded'
  OBVIOUS
<1> USE DEF TotalBounded, CurrentInUse
<1>0. /\ inUse \in [Account -> Nat]
      /\ GlobalLimit \in Nat /\ Cardinality(Slots(inUse)) \in Nat
  BY LimitIsNat, SlotsFinite, LimitAssumption DEF TypeOK
<1>1. CASE UNCHANGED <<queue, lookup, inUse, held, forgotten>>
  BY <1>1 DEF GlobalLimit, Slots
<1>2. ASSUME NEW r \in Request, NEW a \in Account, LeaseStep(r, a) PROVE TotalBounded'
  <2>1. /\ inUse[a] < MaxInflight /\ inUse' = [inUse EXCEPT ![a] = @ + 1]
        /\ lookup' = lookup
    BY <1>2 DEF LeaseStep, CanAcquire, Lease
  <2>2. GlobalLimit > 0
    <3>1. IsFiniteSet(lookup) /\ Cardinality(lookup) # 0
      BY <1>2, AccountAssumption, FS_Subset, FS_EmptySet DEF LeaseStep, TypeOK
    <3>2. Cardinality(lookup) \in Nat \ {0}
      BY <3>1, FS_CardinalityType
    <3>3. Cardinality(lookup) * MaxInflight \in Nat \ {0}
      BY <3>2, LimitAssumption
    <3> QED BY <3>3, LimitAssumption DEF GlobalLimit
  <2>3. Cardinality(Slots(inUse)) < GlobalLimit
    BY <1>2, <2>2 DEF LeaseStep, CanAcquire
  <2>4. Cardinality(Slots(inUse')) = Cardinality(Slots(inUse)) + 1
    BY <2>1, SlotsGain
  <2>5. GlobalLimit' = GlobalLimit
    BY <2>1 DEF GlobalLimit
  <2>6. Cardinality(Slots(inUse))' = Cardinality(Slots(inUse'))
    BY DEF Slots
  <2> QED BY <1>0, <2>3, <2>4, <2>5, <2>6
<1>3. ASSUME inUse' \in [Account -> Nat], \A b \in Account : inUse'[b] <= inUse[b],
             GlobalLimit' = GlobalLimit
      PROVE  TotalBounded'
  <2>1. Cardinality(Slots(inUse')) <= Cardinality(Slots(inUse))
    BY <1>0, <1>3, SlotsMonotonic
  <2>2. Cardinality(Slots(inUse)) \in Nat /\ Cardinality(Slots(inUse')) \in Nat
    BY SlotsFinite
  <2>3. Cardinality(Slots(inUse))' = Cardinality(Slots(inUse'))
    BY DEF Slots
  <2> QED BY <1>0, <1>3, <2>1, <2>2, <2>3
<1>4. ASSUME NEW r \in Request, GiveBack(r) PROVE TotalBounded'
  <2>1. held[r] \in Account
    BY <1>4 DEF GiveBack, TypeOK
  <2>2. /\ inUse' = [inUse EXCEPT ![held[r]] = IF @ = 0 THEN 0 ELSE @ - 1]
        /\ inUse' \in [Account -> Nat] /\ lookup' = lookup
    BY <1>4, <2>1, ReleaseFacts, LimitAssumption DEF GiveBack
  <2>3. GlobalLimit' = GlobalLimit
    BY <2>2 DEF GlobalLimit
  <2>4. \A b \in Account : inUse'[b] <= inUse[b]
    BY <1>0, <2>1, <2>2
  <2> QED BY <1>3, <2>2, <2>3, <2>4
<1>5. ASSUME NEW a \in Account, RemoveAccount(a) PROVE TotalBounded'
  <2>1. inUse' = [inUse EXCEPT ![a] = 0] /\ lookup' = lookup
    BY <1>5 DEF RemoveAccount
  <2>2. GlobalLimit' = GlobalLimit
    BY <2>1 DEF GlobalLimit
  <2>3. inUse' \in [Account -> Nat] /\ \A b \in Account : inUse'[b] <= inUse[b]
    BY <1>0, <2>1
  <2> QED BY <1>3, <2>2, <2>3
<1>6. ASSUME NEW snap \in Snapshot, SyncAccounts(snap) PROVE TotalBounded'
  <2>1. /\ lookup' = Range(snap) /\ Range(snap) \subseteq Account
        /\ inUse' \in [Account -> Nat]
    BY <1>6, SyncFacts, LimitAssumption
  <2>2. inUse' = [a \in Account |-> IF a \in Range(snap) THEN inUse[a] ELSE 0]
    BY <1>6 DEF SyncAccounts
  <2>3. CASE GlobalMaxInflight > 0
    <3>1. GlobalLimit' = GlobalLimit
      BY <2>3 DEF GlobalLimit
    <3>2. \A b \in Account : inUse'[b] <= inUse[b]
      BY <1>0, <2>2
    <3> QED BY <1>3, <2>1, <3>1, <3>2
  <2>4. CASE ~(GlobalMaxInflight > 0)
    <3>1. Slots(inUse') \subseteq Range(snap) \X (1 .. MaxInflight)
      <4> SUFFICES ASSUME NEW s \in Account \X (1 .. MaxInflight),
                          s[2] <= inUse'[s[1]], s[1] \notin Range(snap)
                   PROVE  FALSE
        BY DEF Slots
      <4>1. s[1] \in Account /\ s[2] \in 1 .. MaxInflight
        OBVIOUS
      <4>2. inUse'[s[1]] = 0
        BY <2>2, <4>1
      <4> QED BY <4>1, <4>2
    <3>2. IsFiniteSet(Range(snap)) /\ IsFiniteSet(1 .. MaxInflight)
          /\ Cardinality(1 .. MaxInflight) = MaxInflight
      BY <2>1, AccountAssumption, LimitAssumption, FS_Subset, FS_Interval
    <3>3. /\ IsFiniteSet(Range(snap) \X (1 .. MaxInflight))
          /\ Cardinality(Range(snap) \X (1 .. MaxInflight))
               = Cardinality(Range(snap)) * MaxInflight
      BY <3>2, FS_Product
    <3>4. Cardinality(Slots(inUse')) <= Cardinality(Range(snap)) * MaxInflight
      BY <3>1, <3>3, FS_Subset
    <3>5. GlobalLimit' = Cardinality(Range(snap)) * MaxInflight
      BY <2>1, <2>4 DEF GlobalLimit
    <3>6. Cardinality(Slots(inUse))' = Cardinality(Slots(inUse'))
      BY DEF Slots
    <3> QED BY <3>4, <3>5, <3>6
  <2> QED BY <2>3, <2>4
<1> QED BY <1>1, <1>2, <1>4, <1>5, <1>6, StepShapes

LEMMA TotalInit == Init => TotalBounded
<1> SUFFICES ASSUME Init PROVE TotalBounded
  OBVIOUS
<1>1. Slots(inUse) = {}
  <2> SUFFICES ASSUME NEW s \in Account \X (1 .. MaxInflight), s[2] <= inUse[s[1]]
               PROVE  FALSE
    BY DEF Slots
  <2>1. s[1] \in Account /\ s[2] \in 1 .. MaxInflight
    OBVIOUS
  <2> QED BY <2>1 DEF Init
<1>2. GlobalLimit \in Nat
  BY TypeInit, LimitIsNat DEF TypeOK
<1> QED BY <1>1, <1>2, FS_EmptySet DEF TotalBounded, CurrentInUse
--------------------------------------------------------------------------------
(* The inductive invariant and the theorems *)

PoolInv ==
  /\ TypeOK
  /\ CallsSound
  /\ MembersOnly
  /\ NoLeakedSlot
  /\ CountExact
  /\ TotalBounded

THEOREM PoolInvariant == Spec => []PoolInv
<1>1. Init => PoolInv
  <2>1. Init => MembersOnly
    BY DEF Init, MembersOnly
  <2> QED BY <2>1, TypeInit, CallsInit, LeasesInit, TotalInit DEF PoolInv
<1>2. PoolInv /\ [Next]_vars => PoolInv'
  BY TypeStep, CallsStep, MembersStep, LeasesStep, TotalStep DEF PoolInv
<1> QED BY <1>1, <1>2, PTL DEF Spec

(* Exact counts turn the limits on counts into limits on leases: number the *)
(* holders of each account, and every lease has a counted slot of its own. *)
LEMMA ExactCountsKeepLimits == PoolInv => LimitsKept
<1> SUFFICES ASSUME PoolInv PROVE LimitsKept
  OBVIOUS
<1> USE DEF PoolInv
<1>1. ASSUME NEW a \in Account \ forgotten PROVE Cardinality(Holders(a)) <= MaxInflight
  BY LimitAssumption DEF CountExact, TypeOK
<1>2. ASSUME forgotten = {}
      PROVE  Cardinality({r \in Request : held[r] # NoAccount}) <= GlobalLimit
  <2> DEFINE L == {r \in Request : held[r] # NoAccount}
             number == [a \in Account |->
                          CHOOSE f : f \in Injection(Holders(a), 1 .. inUse[a])]
             slot == [r \in L |-> <<held[r], number[held[r]][r]>>]
  <2>0. ASSUME NEW S, NEW n \in Nat, IsFiniteSet(S), Cardinality(S) = n
        PROVE  ExistsBijection(S, 1 .. n)
    <3>1. IsFiniteSet(1 .. n) /\ Cardinality(1 .. n) = n
      BY FS_Interval
    <3> QED BY <2>0, <3>1, FS_SameCardinalityBij
  <2>1. ASSUME NEW a \in Account
        PROVE  number[a] \in Injection(Holders(a), 1 .. inUse[a])
    <3>1. inUse[a] \in Nat /\ Cardinality(Holders(a)) = inUse[a]
      BY <1>2, LimitAssumption DEF CountExact, TypeOK
    <3>2. IsFiniteSet(Holders(a))
      BY RequestAssumption, FS_Subset DEF Holders
    <3>3. ExistsBijection(Holders(a), 1 .. inUse[a])
      BY <2>0, <3>1, <3>2
    <3>4. PICK f : f \in Injection(Holders(a), 1 .. inUse[a])
      BY <3>3 DEF ExistsBijection, Bijection
    <3> QED BY <3>4
  <2>2. ASSUME NEW r \in L
        PROVE  /\ held[r] \in Account /\ r \in Holders(held[r])
               /\ number[held[r]][r] \in 1 .. inUse[held[r]]
    <3>1. held[r] \in Account /\ r \in Holders(held[r])
      BY DEF TypeOK, Holders
    <3> QED BY <3>1, <2>1 DEF Injection
  <2> HIDE DEF number
  <2>3. slot \in [L -> Slots(inUse)]
    <3> SUFFICES ASSUME NEW r \in L PROVE slot[r] \in Slots(inUse)
      OBVIOUS
    <3>1. /\ number[held[r]][r] \in 1 .. MaxInflight
          /\ number[held[r]][r] <= inUse[held[r]]
      BY <2>2, LimitAssumption DEF TypeOK
    <3> QED BY <2>2, <3>1 DEF Slots
  <2>4. ASSUME NEW p \in L, NEW q \in L, slot[p] = slot[q] PROVE p = q
    <3>1. held[p] = held[q] /\ number[held[p]][p] = number[held[q]][q]
      BY <2>4
    <3> QED BY <3>1, <2>1, <2>2 DEF Injection, IsInjective
  <2>5. slot \in Injection(L, Slots(inUse))
    BY <2>3, <2>4 DEF Injection, IsInjective
  <2>6. Cardinality(L) <= Cardinality(Slots(inUse))
    <3> HIDE DEF slot, L
    <3> QED BY <2>5, SlotsFinite, FS_Injection
  <2>7. /\ Cardinality(L) \in Nat /\ Cardinality(Slots(inUse)) \in Nat
        /\ GlobalLimit \in Nat
    BY RequestAssumption, SlotsFinite, LimitIsNat, FS_Subset, FS_CardinalityType DEF TypeOK
  <2> QED BY <2>6, <2>7 DEF TotalBounded, CurrentInUse
<1> QED BY <1>1, <1>2 DEF LimitsKept

(* Neither limit is exceeded by the leases that are out, unless a count was *)
(* deleted under a live lease.                                             *)
THEOREM LimitsAreKept == Spec => []LimitsKept
BY PoolInvariant, ExactCountsKeepLimits, PTL

(* No slot is ever lost to a lease that nobody holds. *)
THEOREM NoSlotLeaks == Spec => []NoLeakedSlot
<1>1. PoolInv => NoLeakedSlot
  BY DEF PoolInv
<1> QED BY <1>1, PoolInvariant, PTL

(* Counts are exact except while a forgotten lease is out. *)
THEOREM CountsAreExact == Spec => []CountExact
<1>1. PoolInv => CountExact
  BY DEF PoolInv
<1> QED BY <1>1, PoolInvariant, PTL

--------------------------------------------------------------------------------
(* Refinement: whatever callers do, the pool changes its counts only as a  *)
(* lease table does.                                                       *)

(* The two limits of CanAcquire are those of the table. *)
LEMMA LeaseGrants ==
  ASSUME NEW r \in Request, NEW a \in Account, LeaseStep(r, a)
  PROVE  Table!TableNext
<1>1. Table!Limit = GlobalLimit
  BY DEF Table!Limit, GlobalLimit, Table!Cardinality, Cardinality
<1>2. Table!Total = CurrentInUse
  BY DEF Table!Total, CurrentInUse, Slots, Table!Cardinality, Cardinality
<1>3. Table!Grant(a)
  BY <1>1, <1>2 DEF LeaseStep, Lease, CanAcquire, Table!Grant
<1> QED BY <1>3 DEF Table!TableNext

(* A release too many is no step of the table. *)
LEMMA ReleaseGivesUp ==
  ASSUME TypeOK, NEW a \in Account, Release(a)
  PROVE  Table!TableNext \/ UNCHANGED Table!table
<1>1. CASE inUse[a] = 0
  BY <1>1 DEF Release, pool, Table!table
<1>2. CASE inUse[a] # 0
  <2>1. inUse[a] > 0
    BY <1>2, LimitAssumption DEF TypeOK
  <2>2. Table!GiveUp(a)
    BY <1>2, <2>1 DEF Release, Table!GiveUp
  <2> QED BY <2>2 DEF Table!TableNext
<1> QED BY <1>1, <1>2

LEMMA SyncReplaces ==
  ASSUME TypeOK, NEW snap \in Seq(Account), SyncAccounts(snap)
  PROVE  Table!TableNext
<1>1. Table!Replace(Range(snap)) /\ Range(snap) \in SUBSET Account
  BY ListFacts DEF SyncAccounts, Table!Replace
<1> QED BY <1>1 DEF Table!TableNext

LEMMA TableStep == TypeOK /\ CallsSound /\ [Next]_vars => [Table!TableNext]_(Table!table)
<1> SUFFICES ASSUME TypeOK, CallsSound, [Next]_vars
             PROVE  [Table!TableNext]_(Table!table)
  OBVIOUS
<1>1. CASE UNCHANGED <<queue, lookup, inUse, held, forgotten>>
  BY <1>1 DEF Table!table
<1>2. ASSUME NEW r \in Request, GiveBack(r)
      PROVE  Table!TableNext \/ UNCHANGED Table!table
  <2>1. held[r] \in Account /\ Release(held[r])
    BY <1>2 DEF GiveBack, TypeOK
  <2> QED BY <2>1, ReleaseGivesUp
<1>3. ASSUME NEW snap \in Snapshot, SyncAccounts(snap) PROVE Table!TableNext
  BY <1>3, SyncReplaces, SnapshotAssumption
<1>4. ASSUME NEW a \in Account, RemoveAccount(a) PROVE Table!TableNext
  BY <1>4 DEF RemoveAccount, Table!Withdraw, Table!TableNext
<1> QED BY <1>1, <1>2, <1>3, <1>4, LeaseGrants, StepShapes DEF Table!TableNext

THEOREM PoolImplementsLeaseTable == Spec => ImplementsLeaseTable
<1>1. Init => Table!TableInit
  BY TypeInit DEF Init, TypeOK, Table!TableInit
<1>2. TypeOK /\ CallsSound /\ [Next]_vars => [Table!TableNext]_(Table!table)
  BY TableStep
<1> QED BY <1>1, <1>2, TypeCorrect, PTL DEF Spec, ImplementsLeaseTable, Table!TableSpec

================================================================================
