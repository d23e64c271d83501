------------------------------ MODULE AccountPool ------------------------------
(***************************************************************************)
(* The shared account pool of internal/account: a rotation queue of        *)
(* upstream accounts, a count of the leases each account carries, and a    *)
(* list of the callers that wait for a lease.  Every operation of the pool *)
(* runs under Pool.mu, so each is one action; a caller of AcquireWait      *)
(* gives the lock up between two attempts, so that call is a small state   *)
(* machine of its own (`call').                                            *)
(***************************************************************************)
EXTENDS Integers, FiniteSets, SequencesExt

CONSTANTS
  Account,            \* identifiers of upstream accounts
  Request,            \* goroutines that take leases: API requests, the keep-alive loop
  NoAccount,          \* the empty identifier
  Snapshot,           \* account lists a caller may synchronise the pool with
  Wish,               \* arguments a caller may pass: a target and excluded accounts
  MaxInflight,        \* leases per account: RuntimeAccountMaxInflight
  GlobalMaxInflight,  \* leases in all, 0 when the operator sets no limit
  MaxQueue            \* callers that may wait, or Unlimited

Unlimited == -1  \* unlimitedQueueSize

ASSUME AccountAssumption == IsFiniteSet(Account) /\ NoAccount \notin Account
ASSUME RequestAssumption == IsFiniteSet(Request)
ASSUME SnapshotAssumption ==
  \A s \in Snapshot : s \in Seq(Account) /\ s # << >> /\ IsInjective(s)
ASSUME WishAssumption ==
  Wish \subseteq [target : Account \cup {NoAccount}, exclude : SUBSET Account]
ASSUME LimitAssumption ==
  /\ MaxInflight \in Nat \ {0}
  /\ GlobalMaxInflight \in Nat
  /\ MaxQueue \in Nat \cup {Unlimited}

VARIABLES
  queue,      \* Pool.queue: identifiers in rotation order, next one first
  lookup,     \* Pool.lookup: identifiers of the last snapshot
  inUse,      \* Pool.inUse: leases counted per account, 0 for an absent key
  waiters,    \* Pool.waiters: callers whose channel is not closed, oldest first
  call,       \* where each caller stands in AcquireWait
  args,       \* the target and the excluded accounts of that call
  late,       \* whether the context of that call is done
  held,       \* the account whose lease the caller has and must give back
  forgotten   \* history: accounts whose count was deleted while they were leased

pool == <<queue, lookup, inUse, waiters>>
calls == <<call, args, late>>
vars == <<pool, calls, held, forgotten>>

NoArgs == [target |-> NoAccount, exclude |-> {}]
CallState == {"idle", "trying", "waiting", "expired"}

(* The callers that hold a lease of account a, whatever the pool counts. *)
Holders(a) == {r \in Request : held[r] = a}

(* The limit Reset and SyncAccounts derive from the size of the snapshot   *)
(* when the operator sets none: defaultRecommendedConcurrency.             *)
GlobalLimit ==
  IF GlobalMaxInflight > 0 THEN GlobalMaxInflight
                           ELSE Cardinality(lookup) * MaxInflight

(* currentInUseLocked: the sum of all counts, one pair per counted lease. *)
Slots(count) == {s \in Account \X (1 .. MaxInflight) : s[2] <= count[s[1]]}
CurrentInUse == Cardinality(Slots(inUse))

--------------------------------------------------------------------------------
(* Choosing an account *)

CanAcquireOneMore(a) ==  \* mutant: `<=' for `<' in the global limit
  /\ a # NoAccount
  /\ inUse[a] < MaxInflight
  /\ GlobalLimit > 0 => CurrentInUse <= GlobalLimit

CanAcquireUncapped(a) ==  \* mutant: no global limit
  a # NoAccount /\ inUse[a] < MaxInflight

CanAcquire(a) ==
  /\ a # NoAccount
  /\ inUse[a] < MaxInflight
  /\ GlobalLimit > 0 => CurrentInUse < GlobalLimit

EligibleUnlisted(a, x) ==  \* mutant: the account list is not consulted
  a \notin x /\ CanAcquire(a)

Eligible(a, x) == a \notin x /\ CanAcquire(a) /\ a \in lookup

(* What acquireLocked returns, as a set of at most one account: the target *)
(* when it has room, otherwise the first eligible account of the rotation. *)
Choice(t, x) ==
  IF t # NoAccount
  THEN {a \in {t} : Eligible(a, x)}
  ELSE {queue[i] : i \in {j \in DOMAIN queue :
          /\ Eligible(queue[j], x)
          /\ \A k \in 1 .. (j - 1) : ~Eligible(queue[k], x)}}

CanQueueOneMore(t, x) ==  \* mutant: one caller too many
  /\ t # NoAccount => t \notin x /\ t \in lookup
  /\ MaxQueue = Unlimited \/ Len(waiters) <= MaxQueue

(* canQueueLocked *)
CanQueue(t, x) ==
  /\ t # NoAccount => t \notin x /\ t \in lookup
  /\ MaxQueue = Unlimited \/ Len(waiters) < MaxQueue

BumpNot(a) == UNCHANGED queue  \* mutant: no rotation

(* bumpQueue: the account moves to the end, if the rotation still has it. *)
Bump(a) ==
  \/ a \notin Range(queue) /\ UNCHANGED queue
  \/ \E i \in DOMAIN queue :
       /\ queue[i] = a
       /\ queue' = Append(RemoveAt(queue, i), a)

--------------------------------------------------------------------------------
(* Waking callers: closing a channel is leaving `waiters' *)

NotifyOne == waiters' = IF waiters = << >> THEN << >> ELSE Tail(waiters)
Drain == waiters' = << >>
RemoveWaiter(r) ==
  \/ r \notin Range(waiters) /\ UNCHANGED waiters
  \/ \E i \in DOMAIN waiters :
       waiters[i] = r /\ waiters' = RemoveAt(waiters, i)

--------------------------------------------------------------------------------
(* Leases *)

Lease(r, a) ==
  /\ inUse' = [inUse EXCEPT ![a] = @ + 1]
  /\ Bump(a)
  /\ held' = [held EXCEPT ![r] = a]
  /\ UNCHANGED <<lookup, forgotten>>

(* Acquire: one attempt that never waits. *)
Acquire(r, t, x) ==
  /\ \E a \in Choice(t, x) : Lease(r, a)
  /\ UNCHANGED <<waiters, calls>>

Refused(t, x) == Choice(t, x) = {}

ReleaseUnchecked(a) ==  \* mutant: a count may fall below zero
  /\ inUse' = [inUse EXCEPT ![a] = @ - 1]
  /\ NotifyOne
  /\ UNCHANGED <<queue, lookup>>

ReleaseSilent(a) ==  \* mutant: nobody is woken
  IF inUse[a] = 0
  THEN UNCHANGED pool
  ELSE inUse' = [inUse EXCEPT ![a] = @ - 1] /\ UNCHANGED <<queue, lookup, waiters>>

(* Release: a count that is already zero is left alone, and wakes nobody. *)
Release(a) ==
  IF inUse[a] = 0
  THEN UNCHANGED pool
  ELSE /\ inUse' = [inUse EXCEPT ![a] = @ - 1]
       /\ NotifyOne
       /\ UNCHANGED <<queue, lookup>>

(* History.  An account is forgotten from the moment its count is deleted  *)
(* under a live lease until no lease of it is left.                        *)
Forget(dropped) ==
  forgotten' = {a \in forgotten \cup {d \in dropped : inUse[d] > 0} :
                  \E r \in Request : held'[r] = a}

(* The caller gives its lease back, once. *)
GiveBack(r) ==
  /\ held[r] # NoAccount
  /\ Release(held[r])
  /\ held' = [held EXCEPT ![r] = NoAccount]
  /\ Forget({})
  /\ UNCHANGED calls

--------------------------------------------------------------------------------
(* AcquireWait *)

BeginWait(r, t, x) ==
  /\ call[r] = "idle"
  /\ call' = [call EXCEPT ![r] = "trying"]
  /\ args' = [args EXCEPT ![r] = [target |-> t, exclude |-> x]]
  /\ UNCHANGED late

Return(r) ==
  /\ call' = [call EXCEPT ![r] = "idle"]
  /\ args' = [args EXCEPT ![r] = NoArgs]
  /\ late' = [late EXCEPT ![r] = FALSE]

(* The context of the call is cancelled or reaches its deadline. *)
Deadline(r) ==
  /\ call[r] \in {"trying", "waiting"}
  /\ ~late[r]
  /\ late' = [late EXCEPT ![r] = TRUE]
  /\ UNCHANGED <<pool, call, args, held, forgotten>>

(* The head of the loop: a done context ends the call. *)
GiveUp(r) ==
  /\ call[r] = "trying" /\ late[r]
  /\ Return(r)
  /\ UNCHANGED <<pool, held, forgotten>>

(* The locked part of one iteration: a lease, a refusal or a place in the queue. *)
GrantedTooLate(r) ==  \* mutant: the lease is dropped if the deadline passes meanwhile
  /\ call[r] = "trying"
  /\ \E a \in Choice(args[r].target, args[r].exclude) :
       IF late[r] THEN /\ inUse' = [inUse EXCEPT ![a] = @ + 1]
                       /\ Bump(a)
                       /\ UNCHANGED <<lookup, held, forgotten>>
                  ELSE Lease(r, a)
  /\ Return(r)
  /\ UNCHANGED waiters

Granted(r) ==
  /\ call[r] = "trying" /\ ~late[r]
  /\ \E a \in Choice(args[r].target, args[r].exclude) : Lease(r, a)
  /\ Return(r)
  /\ UNCHANGED waiters

TurnedAway(r) ==
  /\ call[r] = "trying" /\ ~late[r]
  /\ Refused(args[r].target, args[r].exclude)
  /\ ~CanQueue(args[r].target, args[r].exclude)
  /\ Return(r)
  /\ UNCHANGED <<pool, held, forgotten>>

Enqueue(r) ==
  /\ call[r] = "trying" /\ ~late[r]
  /\ Refused(args[r].target, args[r].exclude)
  /\ CanQueue(args[r].target, args[r].exclude)
  /\ waiters' = Append(waiters, r)
  /\ call' = [call EXCEPT ![r] = "waiting"]
  /\ UNCHANGED <<queue, lookup, inUse, args, late, held, forgotten>>

(* The select: a closed channel resumes the loop, a done context leaves it. *)
(* When both are ready either may be taken.                                 *)
Woken(r) == call[r] = "waiting" /\ r \notin Range(waiters)

Resume(r) ==
  /\ Woken(r)
  /\ call' = [call EXCEPT ![r] = "trying"]
  /\ UNCHANGED <<pool, args, late, held, forgotten>>

ExpireAwake(r) ==  \* mutant: a sleeping caller does not notice its deadline
  /\ Woken(r) /\ late[r]
  /\ call' = [call EXCEPT ![r] = "expired"]
  /\ UNCHANGED <<pool, args, late, held, forgotten>>

Expire(r) ==
  /\ call[r] = "waiting" /\ late[r]
  /\ call' = [call EXCEPT ![r] = "expired"]
  /\ UNCHANGED <<pool, args, late, held, forgotten>>

LeaveQueued(r) ==  \* mutant: the entry stays in the waiting list
  call[r] = "expired" /\ Return(r) /\ UNCHANGED <<pool, held, forgotten>>

(* The context won: the caller takes the lock again to leave the queue. *)
Leave(r) ==
  /\ call[r] = "expired"
  /\ RemoveWaiter(r)
  /\ Return(r)
  /\ UNCHANGED <<queue, lookup, inUse, held, forgotten>>

--------------------------------------------------------------------------------
(* Changing the set of accounts *)

(* `a' is before `b' in the sequence s. *)
Before(s, a, b) == \E i, j \in DOMAIN s : i < j /\ s[i] = a /\ s[j] = b

(* The rotation after a synchronisation: the accounts already in it keep   *)
(* their order, the others follow in the order of the snapshot.            *)
Merged(q, snap) ==
  \A a, b \in Range(snap) :
    Before(q, a, b) <=>
      \/ Before(queue, a, b)
      \/ a \in Range(queue) /\ b \notin Range(queue)
      \/ a \notin Range(queue) /\ b \notin Range(queue) /\ Before(snap, a, b)

SyncKeepsCounts(snap) ==  \* mutant: counts of absent accounts survive
  /\ \E q \in SetToSeqs(Range(snap)) : Merged(q, snap) /\ queue' = q
  /\ lookup' = Range(snap)
  /\ UNCHANGED <<held, inUse, forgotten>>
  /\ Drain

SyncResets(snap) ==  \* mutant: a new snapshot resets the pool
  /\ queue' = snap /\ lookup' = Range(snap)
  /\ UNCHANGED held
  /\ inUse' = [a \in Account |-> 0]
  /\ Drain
  /\ Forget(Account \ Range(snap))

SyncAccounts(snap) ==
  /\ \E q \in SetToSeqs(Range(snap)) : Merged(q, snap) /\ queue' = q
  /\ lookup' = Range(snap)
  /\ UNCHANGED held
  /\ inUse' = [a \in Account |-> IF a \in Range(snap) THEN inUse[a] ELSE 0]
  /\ Drain
  /\ Forget(Account \ Range(snap))

RemoveAccount(a) ==
  /\ a # NoAccount
  /\ UNCHANGED <<lookup, held>>
  /\ \/ a \notin Range(queue) /\ UNCHANGED queue
     \/ \E i \in DOMAIN queue : queue[i] = a /\ queue' = RemoveAt(queue, i)
  /\ inUse' = [inUse EXCEPT ![a] = 0]
  /\ Drain
  /\ Forget({a})

--------------------------------------------------------------------------------
(* Behaviours *)

Init ==
  /\ queue \in Snapshot
  /\ lookup = Range(queue)
  /\ inUse = [a \in Account |-> 0]
  /\ waiters = << >>
  /\ call = [r \in Request |-> "idle"]
  /\ args = [r \in Request |-> NoArgs]
  /\ late = [r \in Request |-> FALSE]
  /\ held = [r \in Request |-> NoAccount]
  /\ forgotten = {}

(* A caller asks for one lease at a time and gives each back once. *)
Free(r) == call[r] = "idle" /\ held[r] = NoAccount

Start(r) ==
  /\ Free(r)
  /\ \E w \in Wish :
       \/ BeginWait(r, w.target, w.exclude) /\ UNCHANGED <<pool, held, forgotten>>
       \/ Acquire(r, w.target, w.exclude)

Attempt(r) ==
  GiveUp(r) \/ Granted(r) \/ TurnedAway(r) \/ Enqueue(r)

Sync == \E snap \in Snapshot : SyncAccounts(snap) /\ UNCHANGED calls

Withdraw == \E a \in Account : RemoveAccount(a) /\ UNCHANGED calls

Next ==
  \/ \E r \in Request :
       \/ Start(r) \/ Attempt(r) \/ Deadline(r) \/ Resume(r)
       \/ Expire(r) \/ Leave(r) \/ GiveBack(r)
  \/ Sync
  \/ Withdraw

Spec == Init /\ [][Next]_vars

--------------------------------------------------------------------------------
(* Properties *)

(* Every variable keeps its shape; the rotation and the waiting list never *)
(* hold an entry twice (SyncAccounts, bumpQueue and removeWaiterLocked     *)
(* splice them in place).                                                  *)
TypeOK ==
  /\ queue \in Seq(Account) /\ IsInjective(queue)
  /\ lookup \subseteq Account
  /\ inUse \in [Account -> 0 .. MaxInflight]
  /\ waiters \in Seq(Request) /\ IsInjective(waiters)
  /\ call \in [Request -> CallState]
  /\ args \in [Request -> [target : Account \cup {NoAccount}, exclude : SUBSET Account]]
  /\ late \in [Request -> BOOLEAN]
  /\ held \in [Request -> Account \cup {NoAccount}]
  /\ forgotten \subseteq Account

(* The rotation and the counts only name accounts of the last snapshot: an *)
(* account the database no longer lists is neither handed out nor counted. *)
MembersOnly ==
  /\ Range(queue) \subseteq lookup
  /\ \A a \in Account : inUse[a] > 0 => a \in lookup

(* Whoever is in the waiting list is asleep in AcquireWait or about to take *)
(* itself off it, so that no wake-up goes to a caller that has left; and a *)
(* caller inside AcquireWait holds no lease it could lose there.           *)
CallsSound ==
  /\ \A r \in Range(waiters) : call[r] \in {"waiting", "expired"}
  /\ \A r \in Request : call[r] # "idle" => held[r] = NoAccount

(* Capacity is never lost: the pool counts no lease that nobody holds.     *)
(* (A leaked count would shrink the pool until it is restarted.)           *)
NoLeakedSlot == \A a \in Account : inUse[a] <= Cardinality(Holders(a))

(* The count of an account is exact unless it was deleted, by RemoveAccount *)
(* or by a snapshot without the account, while leases of it were out; and   *)
(* it is exact again once those leases have come back.                      *)
CountExact ==
  \A a \in Account \ forgotten : inUse[a] = Cardinality(Holders(a))

(* The sum of the counts respects the global limit, also when a snapshot   *)
(* changes the limit derived from its size.                                *)
TotalBounded == CurrentInUse <= GlobalLimit

(* What the limits promise the upstream: no account carries more requests  *)
(* than its limit, nor the pool more than the global one, as long as no    *)
(* count has been deleted under a live lease.                              *)
LimitsKept ==
  /\ \A a \in Account \ forgotten : Cardinality(Holders(a)) <= MaxInflight
  /\ forgotten = {} =>
       Cardinality({r \in Request : held[r] # NoAccount}) <= GlobalLimit

(* The waiting list respects AccountMaxQueue. *)
QueueBounded == MaxQueue # Unlimited => Len(waiters) <= MaxQueue

(* A caller asleep while it could be served has another one awake on its   *)
(* way to the lock.  Release wakes one caller only, so this needs callers  *)
(* that take what they are woken for; AccountRotation says which.          *)
NoLostWakeup ==
  \A r \in Range(waiters) :
    Choice(args[r].target, args[r].exclude) # {} =>
      \E s \in Request : call[s] = "trying" \/ Woken(s)

(* The pool is a lease table: no operation changes counts in another way. *)
Table == INSTANCE LeaseTable WITH members <- lookup, leases <- inUse
ImplementsLeaseTable == Table!TableSpec

(* Every AcquireWait returns: its deadline ends it, whether it sleeps, has *)
(* been woken, or loops back and forth because others win the lock.        *)
CallsReturn == \A r \in Request : call[r] # "idle" ~> call[r] = "idle"

================================================================================
