---------------------------- MODULE ResolverProofs ----------------------------
(***************************************************************************)
(* Requests give back what they take, for any accounts, requests, faults   *)
(* and numbers of attempts.                                                *)
(***************************************************************************)
EXTENDS Resolver, AccountPoolProofs

--------------------------------------------------------------------------------
(* What a request knows *)

Fields == {"pc", "next", "target", "list", "acct", "tried", "past", "left", "strikes", "resp"}

(* Steps at which a request has no lease, and at which it has one. *)
Bare == {"idle", "loaded", "filtered", "entering", "acquiring", "picking", "touring"}
Covered == {"determining", "ready", "sending", "refreshing", "streaming", "switched",
            "touching", "condemning", "cooling", "switching"}

(* What a request at job j knows of its lease h and of its call c: a switch *)
(* that is still to come needs the lease, a way out does not.               *)
JobOk(j, h, c) ==
  /\ DOMAIN j = Fields
  /\ j.pc \in Bare \cup Covered \cup {"discarding", "evicting", "leaving"}
  /\ c = "idle" <=> j.pc # "acquiring"
  /\ j.pc \in Bare => h = NoAccount
  /\ j.pc \in Covered => h = j.acct /\ h # NoAccount
  /\ j.pc \in {"discarding", "evicting"} /\ j.next = "switching" =>
       h = j.acct /\ h # NoAccount
  /\ j.pc \in {"discarding", "evicting", "leaving"} => h \in {NoAccount, j.acct}
  /\ j.pc \in {"discarding", "evicting"} => j.next \in {"switching", "leaving"}
  /\ j.pc \in {"condemning", "cooling"} => j.next = "switching"

LeaseInv ==
  /\ DOMAIN job = Request /\ DOMAIN held = Request /\ DOMAIN call = Request
  /\ \A r \in Request : JobOk(job[r], held[r], call[r])

--------------------------------------------------------------------------------
(* Steps of one request *)

LEMMA PrivateStep ==
  ASSUME LeaseInv, NEW r \in Request, NEW j, Become(r, j), UNCHANGED <<held, call>>,
         JobOk(j, held[r], call[r])
  PROVE  LeaseInv'
<1>1. /\ job' = [job EXCEPT ![r] = j] /\ held' = held /\ call' = call
      /\ DOMAIN job = Request
  BY DEF Become, LeaseInv
<1>2. ASSUME NEW s \in Request PROVE JobOk(job'[s], held'[s], call'[s])
  BY <1>1, <1>2 DEF LeaseInv
<1> QED BY <1>1, <1>2 DEF LeaseInv

LEMMA LeaseChange ==
  ASSUME LeaseInv, NEW r \in Request, NEW j, NEW h, Become(r, j), UNCHANGED call,
         held' = [held EXCEPT ![r] = h], JobOk(j, h, call[r])
  PROVE  LeaseInv'
<1>1. /\ job' = [job EXCEPT ![r] = j] /\ call' = call
      /\ DOMAIN job = Request /\ DOMAIN held = Request
  BY DEF Become, LeaseInv
<1>2. ASSUME NEW s \in Request PROVE JobOk(job'[s], held'[s], call'[s])
  BY <1>1, <1>2 DEF LeaseInv
<1> QED BY <1>1, <1>2 DEF LeaseInv

LEMMA CallChange ==
  ASSUME LeaseInv, NEW r \in Request, NEW j, NEW h, NEW c, Become(r, j),
         call' = [call EXCEPT ![r] = c], held' = [held EXCEPT ![r] = h], JobOk(j, h, c)
  PROVE  LeaseInv'
<1>1. /\ job' = [job EXCEPT ![r] = j]
      /\ DOMAIN job = Request /\ DOMAIN held = Request /\ DOMAIN call = Request
  BY DEF Become, LeaseInv
<1>2. ASSUME NEW s \in Request PROVE JobOk(job'[s], held'[s], call'[s])
  BY <1>1, <1>2 DEF LeaseInv
<1> QED BY <1>1, <1>2 DEF LeaseInv

LEMMA CallStep ==
  ASSUME LeaseInv, NEW r \in Request, NEW j, NEW c, Become(r, j), UNCHANGED held,
         call' = [call EXCEPT ![r] = c], JobOk(j, held[r], c)
  PROVE  LeaseInv'
<1>1. /\ job' = [job EXCEPT ![r] = j] /\ held' = held
      /\ DOMAIN job = Request /\ DOMAIN call = Request
  BY DEF Become, LeaseInv
<1>2. ASSUME NEW s \in Request PROVE JobOk(job'[s], held'[s], call'[s])
  BY <1>1, <1>2 DEF LeaseInv
<1> QED BY <1>1, <1>2 DEF LeaseInv

(* A caller that waits on moves within AcquireWait only. *)
LEMMA WaitStep ==
  ASSUME LeaseInv, NEW r \in Request, NEW c, UNCHANGED <<job, held>>,
         call' = [call EXCEPT ![r] = c], JobOk(job[r], held[r], c)
  PROVE  LeaseInv'
<1>1. job' = job /\ held' = held /\ DOMAIN call = Request
  BY DEF LeaseInv
<1>2. ASSUME NEW s \in Request PROVE JobOk(job'[s], held'[s], call'[s])
  BY <1>1, <1>2 DEF LeaseInv
<1> QED BY <1>1, <1>2 DEF LeaseInv

(* Only one field changes. *)
LEMMA GoToStep ==
  ASSUME LeaseInv, NEW r \in Request, NEW step, GoTo(r, step), UNCHANGED <<held, call>>,
         JobOk([job[r] EXCEPT !.pc = step], held[r], call[r])
  PROVE  LeaseInv'
<1>1. Become(r, [job[r] EXCEPT !.pc = step])
  BY DEF GoTo, Become
<1> QED BY <1>1, PrivateStep

(* A lease is always of an account. *)
LEMMA LeaseFacts ==
  ASSUME LeaseInv, NEW r \in Request, NEW t, NEW x, NEW a \in Choice(t, x), Lease(r, a)
  PROVE  a # NoAccount /\ held' = [held EXCEPT ![r] = a] /\ held'[r] = a
BY DEF Choice, Eligible, CanAcquire, Lease, LeaseInv

--------------------------------------------------------------------------------
(* The actions, in the order of the module *)

LEMMA DeterminingStep ==
  ASSUME LeaseInv, NEW r \in Request, Determining(r) \/ Load(r)
  PROVE  LeaseInv'
<1> USE DEF JobOk, Bare, Covered, Fields
<1>0. JobOk(job[r], held[r], call[r])
  BY DEF LeaseInv
<1>1. CASE Load(r)
  <2>1. CASE UNCHANGED job
    BY <1>1, <2>1 DEF Load, Private, vars, calls, LeaseInv
  <2>2. CASE ~ UNCHANGED job
    <3>1. PICK l, t : Become(r, [NoJob EXCEPT !.pc = "loaded", !.list = l, !.target = t])
      BY <1>1, <2>2 DEF Load
    <3> QED BY <1>0, <1>1, <3>1, PrivateStep DEF Load, At, Private, vars, calls, NoJob
  <2> QED BY <2>1, <2>2
<1>2. CASE Filter(r)
  <2>1. PICK l : Become(r, [job[r] EXCEPT !.pc = "filtered", !.list = l])
    BY <1>2 DEF Filter
  <2> QED BY <1>0, <1>2, <2>1, PrivateStep DEF Filter, At, Private, vars, calls
<1>3. CASE Join(r)
  <2>1. UNCHANGED <<held, call>>
    BY <1>3 DEF Join, SyncAccounts, calls
  <2>2. CASE GoTo(r, "touring")
    BY <1>0, <1>3, <2>1, <2>2, GoToStep DEF Join, At
  <2>3. CASE Become(r, [job[r] EXCEPT !.pc = "entering", !.list = << >>])
    BY <1>0, <1>3, <2>1, <2>3, PrivateStep DEF Join, At
  <2> QED BY <1>3, <2>2, <2>3 DEF Join
<1>4. CASE Enter(r)
  <2>1. CASE Become(r, NoJob) /\ UNCHANGED vars
    BY <1>0, <1>4, <2>1, PrivateStep DEF Enter, At, NoJob, vars, calls
  <2>2. CASE GoTo(r, "acquiring") /\ BeginWait(r, job[r].target, job[r].tried) /\ UNCHANGED held
    <3>1. /\ Become(r, [job[r] EXCEPT !.pc = "acquiring"])
          /\ call' = [call EXCEPT ![r] = "trying"]
      BY <2>2 DEF GoTo, Become, BeginWait
    <3> QED BY <1>0, <1>4, <2>2, <3>1, CallStep DEF Enter, At
  <2> QED BY <1>4, <2>1, <2>2 DEF Enter
<1>5. CASE Admitted(r)
  <2>1. PICK a \in Choice(args[r].target, args[r].exclude) : Lease(r, a)
    BY <1>5 DEF Admitted, Granted
  <2>2. a # NoAccount /\ held' = [held EXCEPT ![r] = a] /\ held'[r] = a
    BY <2>1, LeaseFacts
  <2>3. call' = [call EXCEPT ![r] = "idle"]
    BY <1>5 DEF Admitted, Granted, Return
  <2>4. Become(r, [job[r] EXCEPT !.pc = "determining", !.acct = a, !.past = @ \cup {a}])
    BY <1>5, <2>2 DEF Admitted, Leased
  <2> QED BY <1>0, <1>5, <2>2, <2>3, <2>4, CallChange DEF Admitted, At
<1>6. CASE NotAdmitted(r)
  <2>1. call' = [call EXCEPT ![r] = "idle"] /\ UNCHANGED held
    BY <1>6 DEF NotAdmitted, GiveUp, TurnedAway, Leave, Return
  <2> QED BY <1>0, <1>6, <2>1, CallStep DEF NotAdmitted, At, NoJob
<1>7. CASE Waiting(r)
  <2>1. PICK c \in {"trying", "waiting", "expired"} : call' = [call EXCEPT ![r] = c]
    BY <1>7 DEF Waiting, Enqueue, Resume, Expire
  <2>2. UNCHANGED <<job, held>>
    BY <1>7 DEF Waiting, Enqueue, Resume, Expire
  <2> QED BY <1>0, <1>7, <2>1, <2>2, WaitStep DEF Waiting, At
<1>8. CASE TokenReady(r)
  BY <1>0, <1>8, GoToStep DEF TokenReady, At, Private, vars, calls
<1>9. CASE TokenFails(r)
  <2>1. held' = [held EXCEPT ![r] = NoAccount] /\ UNCHANGED call
    BY <1>9 DEF TokenFails, ReleaseNamed, calls
  <2>2. CASE Become(r, NoJob)
    BY <1>0, <1>9, <2>1, <2>2, LeaseChange DEF TokenFails, At, NoJob
  <2>3. CASE Become(r, [job[r] EXCEPT !.pc = "entering", !.acct = NoAccount,
                                      !.tried = @ \cup {job[r].acct}])
    BY <1>0, <1>9, <2>1, <2>3, LeaseChange DEF TokenFails, At
  <2> QED BY <1>9, <2>2, <2>3 DEF TokenFails
<1>10. CASE BadRequest(r)
  BY <1>0, <1>10, GoToStep DEF BadRequest, At, Private, vars, calls
<1>11. CASE Begin(r)
  <2>1. PICK n : Become(r, [job[r] EXCEPT !.pc = "sending", !.strikes = 0, !.left = n])
    BY <1>11 DEF Begin
  <2> QED BY <1>0, <1>11, <2>1, PrivateStep DEF Begin, At, Private, vars, calls
<1> QED BY <1>1, <1>2, <1>3, <1>4, <1>5, <1>6, <1>7, <1>8, <1>9, <1>10, <1>11 DEF Determining

(* The next attempt is made under the same lease. *)
LEMMA AgainOk ==
  ASSUME NEW j, NEW h, NEW c, JobOk(j, h, c), j.pc \in Covered
  PROVE  JobOk(Again(j), h, c)
BY DEF JobOk, Again, Bare, Covered, Fields

(* A response that is delivered needs no lease any more. *)
LEMMA DeliverStep ==
  ASSUME LeaseInv, NEW r \in Request, NEW v, Deliver(r, v), UNCHANGED <<held, call>>,
         job[r].pc \in {"sending", "picking"}
  PROVE  LeaseInv'
<1> USE DEF JobOk, Bare, Covered, Fields
<1>0. JobOk(job[r], held[r], call[r])
  BY DEF LeaseInv
<1>1. PICK step \in {"discarding", "leaving"} :
             Become(r, [job[r] EXCEPT !.resp = "none", !.next = "leaving", !.pc = step])
  BY DEF Deliver
<1> QED BY <1>0, <1>1, PrivateStep

(* A failed login leads to the next account, under the lease of this one. *)
LEMMA LoginFailsStep ==
  ASSUME LeaseInv, NEW r \in Request, LoginFails(r), UNCHANGED <<held, call>>,
         job[r].pc \in {"refreshing", "switched"}
  PROVE  LeaseInv'
<1> USE DEF JobOk, Bare, Covered, Fields
<1>0. JobOk(job[r], held[r], call[r])
  BY DEF LeaseInv
<1>1. PICK step \in {"discarding", "switching"} :
             Become(r, [job[r] EXCEPT !.next = "switching", !.pc = step])
  BY DEF LoginFails
<1> QED BY <1>0, <1>1, PrivateStep

LEMMA CompletingStep ==
  ASSUME LeaseInv, NEW r \in Request, Completing(r)
  PROVE  LeaseInv'
<1> USE DEF JobOk, Bare, Covered, Fields
<1>0. JobOk(job[r], held[r], call[r])
  BY DEF LeaseInv
<1>1. UNCHANGED <<held, call>>
  BY DEF Completing, Answered, Unreachable, Unauthorized, Unavailable, Rejected,
         Refreshed, RefreshFails, LoginFails, Private, vars, calls
<1>2. CASE Answered(r)
  BY <1>0, <1>1, <1>2, GoToStep DEF Answered, At
<1>3. CASE Unreachable(r)
  <2> DEFINE j == [job[r] EXCEPT !.strikes = @ + 1]
  <2>1. JobOk(j, held[r], call[r]) /\ j.pc = "sending"
    BY <1>0, <1>3 DEF Unreachable, At
  <2>2. CASE Become(r, [j EXCEPT !.pc = "leaving"])
    BY <1>1, <2>1, <2>2, PrivateStep
  <2>3. CASE Become(r, Again(j))
    BY <1>1, <2>1, <2>3, AgainOk, PrivateStep
  <2> QED BY <1>3, <2>2, <2>3 DEF Unreachable
<1>4. CASE Unauthorized(r)
  BY <1>0, <1>1, <1>4, GoToStep DEF Unauthorized, At
<1>5. CASE Unavailable(r)
  <2>1. PICK v : Become(r, [job[r] EXCEPT !.resp = v, !.next = "switching",
                              !.pc = IF Condemns(r, v) THEN "condemning" ELSE "cooling"])
    BY <1>5 DEF Unavailable
  <2> QED BY <1>0, <1>1, <1>5, <2>1, PrivateStep DEF Unavailable, At
<1>6. CASE Rejected(r)
  BY <1>1, <1>6, DeliverStep DEF Rejected, At
<1>7. CASE Refreshed(r)
  BY <1>0, <1>1, <1>7, AgainOk, PrivateStep DEF Refreshed, At
<1>8. CASE RefreshFails(r)
  BY <1>1, <1>8, LoginFailsStep DEF RefreshFails, At
<1> QED BY <1>2, <1>3, <1>4, <1>5, <1>6, <1>7, <1>8 DEF Completing

(* Whatever a release finds counted, the request holds nothing afterwards. *)
LEMMA ReleaseNamedFacts ==
  ASSUME NEW r \in Request, ReleaseNamed(r)
  PROVE  held' = [held EXCEPT ![r] = NoAccount] /\ UNCHANGED call
BY DEF ReleaseNamed, calls

LEMMA FailoverStep ==
  ASSUME LeaseInv, NEW r \in Request, Failover(r)
  PROVE  LeaseInv'
<1> USE DEF JobOk, Bare, Covered, Fields
<1>0. JobOk(job[r], held[r], call[r])
  BY DEF LeaseInv
<1>1. CASE Discard(r)
  <2>1. Become(r, [job[r] EXCEPT !.pc = "evicting", !.tried = @ \cup {job[r].acct}])
    BY <1>1 DEF Discard
  <2> QED BY <1>0, <1>1, <2>1, PrivateStep DEF Discard, vars, calls
<1>2. CASE DiscardFails(r)
  <2>1. UNCHANGED <<held, call>>
    BY <1>2 DEF DiscardFails, Private, vars, calls
  <2>2. CASE At(r, "condemning") /\ GoTo(r, "cooling")
    BY <1>0, <2>1, <2>2, GoToStep DEF At
  <2>3. CASE At(r, "discarding") /\ GoTo(r, job[r].next)
    BY <1>0, <2>1, <2>3, GoToStep DEF At
  <2> QED BY <1>2, <2>2, <2>3 DEF DiscardFails
<1>3. CASE Cool(r)
  BY <1>0, <1>3, GoToStep DEF Cool, At, vars, calls
<1>4. CASE Evict(r)
  BY <1>0, <1>4, GoToStep DEF Evict, At, RemoveAccount, calls
<1>5. CASE Switch(r)
  <2>1. Become(r, [job[r] EXCEPT !.pc = "picking", !.tried = @ \cup {job[r].acct}])
    BY <1>5 DEF Switch
  <2>2. held' = [held EXCEPT ![r] = NoAccount] /\ UNCHANGED call
    BY <1>5, ReleaseNamedFacts DEF Switch
  <2>3. JobOk([job[r] EXCEPT !.pc = "picking", !.tried = @ \cup {job[r].acct}], NoAccount, call[r])
    BY <1>0, <1>5 DEF Switch, At
  <2> QED BY <2>1, <2>2, <2>3, LeaseChange
<1>6. CASE Pick(r)
  <2>1. PICK a \in Choice(NoAccount, job[r].tried) : Lease(r, a)
    BY <1>6 DEF Pick, Acquire
  <2>2. a # NoAccount /\ held' = [held EXCEPT ![r] = a] /\ held'[r] = a
    BY <2>1, LeaseFacts
  <2>3. Become(r, [job[r] EXCEPT !.pc = "switched", !.acct = a, !.past = @ \cup {a}])
    BY <1>6, <2>2 DEF Pick, Leased
  <2> QED BY <1>0, <1>6, <2>2, <2>3, LeaseChange DEF Pick, At, Acquire, calls
<1>7. CASE NoneLeft(r)
  BY <1>7, DeliverStep DEF NoneLeft, At, Private, vars, calls
<1>8. CASE SwitchReady(r)
  BY <1>0, <1>8, AgainOk, PrivateStep DEF SwitchReady, At, Private, vars, calls
<1>9. CASE SwitchFails(r)
  BY <1>9, LoginFailsStep DEF SwitchFails, At, LoginFails, Private, vars, calls
<1> QED BY <1>1, <1>2, <1>3, <1>4, <1>5, <1>6, <1>7, <1>8, <1>9 DEF Failover

LEMMA LeavingStep ==
  ASSUME LeaseInv, NEW r \in Request, Leaving(r)
  PROVE  LeaseInv'
<1> USE DEF JobOk, Bare, Covered, Fields
<1>0. JobOk(job[r], held[r], call[r])
  BY DEF LeaseInv
<1>1. CASE Streamed(r)
  BY <1>0, <1>1, GoToStep DEF Streamed, At, Private, vars, calls
<1>2. CASE Finish(r)
  <2>0. held' = [held EXCEPT ![r] = NoAccount] /\ UNCHANGED call
    BY <1>2, ReleaseNamedFacts DEF Finish
  <2>1. CASE Become(r, [NoJob EXCEPT !.pc = "touring", !.list = Tail(job[r].list)])
    <3>1. JobOk([NoJob EXCEPT !.pc = "touring", !.list = Tail(job[r].list)], NoAccount, call[r])
      BY <1>0, <1>2 DEF Finish, At, NoJob
    <3> QED BY <2>0, <2>1, <3>1, LeaseChange
  <2>2. CASE Become(r, NoJob)
    BY <1>0, <1>2, <2>0, <2>2, LeaseChange DEF Finish, At, NoJob
  <2>3. CASE r = Keeper
    BY <1>2, <2>1, <2>3 DEF Finish
  <2>4. CASE r # Keeper
    BY <1>2, <2>2, <2>4 DEF Finish
  <2> QED BY <2>3, <2>4
<1> QED BY <1>1, <1>2 DEF Leaving

LEMMA TouringStep ==
  ASSUME LeaseInv, Keeper \in Request, Touring
  PROVE  LeaseInv'
<1> USE DEF JobOk, Bare, Covered, Fields
<1>0. JobOk(job[Keeper], held[Keeper], call[Keeper])
  BY DEF LeaseInv
<1>1. CASE Visit
  <2>1. PICK a \in Choice(Head(job[Keeper].list), {}) : Lease(Keeper, a)
    BY <1>1 DEF Visit, Acquire
  <2>2. a # NoAccount /\ held' = [held EXCEPT ![Keeper] = a] /\ held'[Keeper] = a
    BY <2>1, LeaseFacts
  <2>3. Become(Keeper, [job[Keeper] EXCEPT !.pc = "touching", !.acct = a, !.past = @ \cup {a}])
    BY <1>1, <2>2 DEF Visit, Leased
  <2> QED BY <1>0, <1>1, <2>2, <2>3, LeaseChange DEF Visit, At, Acquire, calls
<1>2. CASE Skip
  <2>1. PICK l : Become(Keeper, [job[Keeper] EXCEPT !.list = l])
    BY <1>2 DEF Skip
  <2> QED BY <1>0, <1>2, <2>1, PrivateStep DEF Skip, At, Private, vars, calls
<1>3. CASE Touch
  <2>1. CASE GoTo(Keeper, "ready")
    BY <1>0, <1>3, <2>1, GoToStep DEF Touch, At, Private, vars, calls
  <2>2. CASE GoTo(Keeper, "leaving")
    BY <1>0, <1>3, <2>2, GoToStep DEF Touch, At, Private, vars, calls
  <2> QED BY <1>3, <2>1, <2>2 DEF Touch
<1>4. CASE EndTour
  BY <1>0, <1>4, PrivateStep DEF EndTour, At, Private, vars, calls, NoJob
<1> QED BY <1>1, <1>2, <1>3, <1>4 DEF Touring

(* Time, the operator and stuttering leave requests alone. *)
LEMMA OutsideStep ==
  ASSUME LeaseInv, UNCHANGED <<job, held, call>>
  PROVE  LeaseInv'
BY DEF LeaseInv, JobOk

LEMMA LeaseInit == RInit => LeaseInv
BY DEF RInit, LeaseInv, JobOk, NoJob, Bare, Covered, Fields

--------------------------------------------------------------------------------
(* Theorems *)

(* A request has a lease exactly at the steps that need one, and the        *)
(* account it names is that of the lease.                                   *)
THEOREM RequestInvariant == RSpec => []LeaseInv
<1>1. RInit => LeaseInv
  BY LeaseInit
<1>2. LeaseInv /\ [RNext]_rvars => LeaseInv'
  <2> SUFFICES ASSUME LeaseInv, [RNext]_rvars PROVE LeaseInv'
    OBVIOUS
  <2>1. CASE Thaw \/ Admin \/ UNCHANGED rvars
    BY <2>1, OutsideStep DEF Thaw, Admin, rvars, vars, calls
  <2>2. ASSUME NEW r \in Request, Load(r) \/ Work(r) PROVE LeaseInv'
    <3>1. CASE Load(r) \/ Determining(r)
      BY <3>1, DeterminingStep
    <3>2. CASE Completing(r)
      BY <3>2, CompletingStep
    <3>3. CASE Failover(r)
      BY <3>3, FailoverStep
    <3>4. CASE Leaving(r)
      BY <3>4, LeavingStep
    <3>5. CASE TimesOut(r)
      BY <3>5, OutsideStep DEF TimesOut, Deadline
    <3>6. CASE r = Keeper /\ Touring
      BY <3>6, TouringStep
    <3> QED BY <2>2, <3>1, <3>2, <3>3, <3>4, <3>5, <3>6 DEF Work
  <2> QED BY <2>1, <2>2 DEF RNext
<1> QED BY <1>1, <1>2, PTL DEF RSpec

(* A request holds no lease but that of the account it names, and none when *)
(* it has returned.                                                         *)
THEOREM ExitsRelease == RSpec => []EveryExitReleases
<1>1. LeaseInv => EveryExitReleases
  BY DEF LeaseInv, JobOk, EveryExitReleases, At, Bare, Covered
<1> QED BY <1>1, RequestInvariant, PTL

(* The upstream is only addressed under a lease of the account in use. *)
THEOREM SendsAreLeased == RSpec => []SendsUnderLease
<1>1. LeaseInv => SendsUnderLease
  BY DEF LeaseInv, JobOk, SendsUnderLease, Bare, Covered
<1> QED BY <1>1, RequestInvariant, PTL

--------------------------------------------------------------------------------
(* Counts and leases.  A release may find that somebody else's lease is     *)
(* counted, or none; so counts can be too low, but never too high.          *)

Counted == inUse \in [Account -> Nat]

(* What a step does to counts and leases. *)
Takes(r, a) ==
  /\ held[r] = NoAccount /\ a # NoAccount
  /\ held' = [held EXCEPT ![r] = a]
  /\ inUse' = [inUse EXCEPT ![a] = @ + 1]

Gives(r, a) ==
  /\ held[r] \in {NoAccount, a}
  /\ held' = [held EXCEPT ![r] = NoAccount]
  /\ IF inUse[a] = 0 THEN UNCHANGED inUse ELSE inUse' = [inUse EXCEPT ![a] = @ - 1]

Drops(S) ==
  /\ UNCHANGED held
  /\ inUse' = [a \in Account |-> IF a \in S THEN 0 ELSE inUse[a]]

LEMMA ReleaseGives ==
  ASSUME LeaseInv, NEW r \in Request, ReleaseNamed(r),
         job[r].pc \in {"determining", "switching", "leaving"}
  PROVE  Gives(r, job[r].acct)
<1>1. held[r] \in {NoAccount, job[r].acct}
  BY DEF LeaseInv, JobOk, Covered
<1> QED BY <1>1 DEF ReleaseNamed, Release, Gives, pool

LEMMA TakingStep ==
  ASSUME LeaseInv, NEW r \in Request, NEW t, NEW x, NEW a \in Choice(t, x), Lease(r, a),
         job[r].pc \in {"acquiring", "picking", "touring"}
  PROVE  Takes(r, a)
<1>1. held[r] = NoAccount
  BY DEF LeaseInv, JobOk, Bare
<1>2. a # NoAccount /\ held' = [held EXCEPT ![r] = a]
  BY LeaseFacts
<1>3. inUse' = [inUse EXCEPT ![a] = @ + 1]
  BY DEF Lease
<1> QED BY <1>1, <1>2, <1>3 DEF Takes

LEMMA CountShapes ==
  ASSUME LeaseInv, Counted, NEW r \in Request, Load(r) \/ Work(r)
  PROVE  \/ UNCHANGED <<inUse, held>>
         \/ \E a : Takes(r, a) \/ Gives(r, a)
         \/ \E S : Drops(S)
<1>1. CASE Join(r)
  <2>1. Drops(Account \ Range(job[r].list))
    BY <1>1 DEF Join, SyncAccounts, Drops
  <2> QED BY <2>1
<1>2. CASE Evict(r)
  <2>1. Drops({job[r].acct})
    BY <1>2 DEF Evict, RemoveAccount, Drops, Counted
  <2> QED BY <2>1
<1>3. CASE Admitted(r)
  <2>1. PICK a \in Choice(args[r].target, args[r].exclude) : Lease(r, a)
    BY <1>3 DEF Admitted, Granted
  <2> QED BY <1>3, <2>1, TakingStep DEF Admitted, At
<1>4. CASE Pick(r)
  <2>1. PICK a \in Choice(NoAccount, job[r].tried) : Lease(r, a)
    BY <1>4 DEF Pick, Acquire
  <2> QED BY <1>4, <2>1, TakingStep DEF Pick, At
<1>5. CASE r = Keeper /\ Visit
  <2>1. PICK a \in Choice(Head(job[r].list), {}) : Lease(r, a)
    BY <1>5 DEF Visit, Acquire
  <2> QED BY <1>5, <2>1, TakingStep DEF Visit, At
<1>6. CASE TokenFails(r)
  BY <1>6, ReleaseGives DEF TokenFails, At
<1>7. CASE Switch(r)
  BY <1>7, ReleaseGives DEF Switch, At
<1>8. CASE Finish(r)
  BY <1>8, ReleaseGives DEF Finish, At
<1>9. CASE Enter(r)
  BY <1>9 DEF Enter, vars, pool
<1>10. CASE NotAdmitted(r) \/ Waiting(r) \/ TimesOut(r)
  BY <1>10 DEF NotAdmitted, Waiting, TimesOut, GiveUp, TurnedAway, Leave, Enqueue, Resume,
               Expire, Deadline, pool
<1>11. CASE Load(r) \/ Filter(r) \/ TokenReady(r) \/ BadRequest(r) \/ Begin(r)
  BY <1>11 DEF Load, Filter, TokenReady, BadRequest, Begin, Private, vars, pool
<1>12. CASE Completing(r)
  BY <1>12 DEF Completing, Answered, Unreachable, Unauthorized, Unavailable, Rejected,
               Refreshed, RefreshFails, LoginFails, Private, vars, pool
<1>13. CASE Discard(r) \/ DiscardFails(r) \/ Cool(r) \/ NoneLeft(r) \/ SwitchReady(r)
            \/ SwitchFails(r) \/ Streamed(r)
  BY <1>13 DEF Discard, DiscardFails, Cool, NoneLeft, SwitchReady, SwitchFails, LoginFails,
               Streamed, Private, vars, pool
<1>14. CASE Skip \/ Touch \/ EndTour
  BY <1>14 DEF Skip, Touch, EndTour, Private, vars, pool
<1> QED
  BY <1>1, <1>2, <1>3, <1>4, <1>5, <1>6, <1>7, <1>8, <1>9, <1>10, <1>11, <1>12, <1>13, <1>14
  DEF Work, Determining, Failover, Leaving, Touring

LEMMA HoldersFinite ==
  ASSUME NEW a
  PROVE  IsFiniteSet(Holders(a)) /\ Cardinality(Holders(a)) \in Nat
BY RequestAssumption, FS_Subset, FS_CardinalityType DEF Holders

LEMMA NoLeakStep ==
  LeaseInv /\ Counted /\ NoLeakedSlot /\ [RNext]_rvars => Counted' /\ NoLeakedSlot'
<1> SUFFICES ASSUME LeaseInv, Counted, NoLeakedSlot, [RNext]_rvars
             PROVE  Counted' /\ NoLeakedSlot'
  OBVIOUS
<1>1. CASE UNCHANGED <<inUse, held>>
  BY <1>1 DEF Counted, NoLeakedSlot, Holders
<1>2. ASSUME NEW r \in Request, NEW a, Takes(r, a) PROVE Counted' /\ NoLeakedSlot'
  <2>1. DOMAIN held = Request
    BY DEF LeaseInv
  <2>2. /\ inUse' = [inUse EXCEPT ![a] = @ + 1]
        /\ inUse \in [Account -> Nat]
    BY <1>2 DEF Takes, Counted
  <2>3. inUse' = [b \in Account |-> IF b = a THEN inUse[b] + 1 ELSE inUse[b]]
    BY <2>2
  <2>4. Counted'
    <3>1. \A b \in Account : (IF b = a THEN inUse[b] + 1 ELSE inUse[b]) \in Nat
      BY <2>2
    <3> QED BY <2>3, <3>1 DEF Counted
  <2>5. ASSUME NEW b \in Account PROVE inUse'[b] <= Cardinality(Holders(b)')
    <3>1. CASE b = a
      <4>1. Holders(b)' = Holders(b) \cup {r} /\ r \notin Holders(b)
        BY <1>2, <2>1, <3>1 DEF Takes, Holders
      <4>2. Cardinality(Holders(b)') = Cardinality(Holders(b)) + 1
        BY <4>1, HoldersFinite, FS_AddElement
      <4>3. inUse[b] <= Cardinality(Holders(b)) /\ inUse[b] \in Nat
        BY DEF NoLeakedSlot, Counted
      <4> QED BY <2>3, <3>1, <4>2, <4>3, HoldersFinite
    <3>2. CASE b # a
      <4>1. Holders(b)' = Holders(b)
        BY <1>2, <2>1, <3>2, AccountAssumption DEF Takes, Holders
      <4> QED BY <2>3, <3>2, <4>1 DEF NoLeakedSlot
    <3> QED BY <3>1, <3>2
  <2> QED BY <2>4, <2>5 DEF NoLeakedSlot
<1>3. ASSUME NEW r \in Request, NEW a, Gives(r, a) PROVE Counted' /\ NoLeakedSlot'
  <2>1. DOMAIN held = Request
    BY DEF LeaseInv
  <2>2. /\ Counted'
        /\ \A b \in Account :
             inUse'[b] = IF b = a /\ inUse[b] # 0 THEN inUse[b] - 1 ELSE inUse[b]
    BY <1>3 DEF Gives, Counted
  <2>3. ASSUME NEW b \in Account PROVE inUse'[b] <= Cardinality(Holders(b)')
    <3>0. /\ inUse[b] <= Cardinality(Holders(b)) /\ inUse[b] \in Nat
          /\ Cardinality(Holders(b)) \in Nat
      BY HoldersFinite DEF NoLeakedSlot, Counted
    <3>1. CASE held[r] = b
      <4>1. Holders(b)' = Holders(b) \ {r} /\ r \in Holders(b) /\ b = a
        BY <1>3, <2>1, <3>1, AccountAssumption DEF Gives, Holders
      <4>2. Cardinality(Holders(b)') = Cardinality(Holders(b)) - 1
        BY <4>1, HoldersFinite, FS_RemoveElement
      <4>3. inUse'[b] = IF inUse[b] # 0 THEN inUse[b] - 1 ELSE inUse[b]
        BY <2>2, <4>1
      <4>4. Cardinality(Holders(b)) # 0
        BY <4>1, HoldersFinite, FS_EmptySet
      <4> QED BY <3>0, <4>2, <4>3, <4>4
    <3>2. CASE held[r] # b
      <4>1. Holders(b)' = Holders(b)
        BY <1>3, <2>1, <3>2, AccountAssumption DEF Gives, Holders
      <4>2. inUse'[b] <= inUse[b]
        BY <2>2, <3>0
      <4>3. inUse'[b] \in Nat
        BY <2>2 DEF Counted
      <4> QED BY <3>0, <4>1, <4>2, <4>3
    <3> QED BY <3>1, <3>2
  <2> QED BY <2>2, <2>3 DEF NoLeakedSlot
<1>4. ASSUME NEW S, Drops(S) PROVE Counted' /\ NoLeakedSlot'
  <2>1. Counted' /\ \A b \in Account : inUse'[b] \in {0, inUse[b]}
    BY <1>4 DEF Drops, Counted
  <2>2. ASSUME NEW b \in Account PROVE inUse'[b] <= Cardinality(Holders(b)')
    <3>1. Holders(b)' = Holders(b)
      BY <1>4 DEF Drops, Holders
    <3> QED BY <2>1, <3>1, HoldersFinite DEF NoLeakedSlot
  <2> QED BY <2>1, <2>2 DEF NoLeakedSlot
<1>5. CASE Thaw \/ Admin \/ UNCHANGED rvars
  BY <1>1, <1>5 DEF Thaw, Admin, rvars, vars, pool
<1>6. ASSUME NEW r \in Request, Load(r) \/ Work(r) PROVE Counted' /\ NoLeakedSlot'
  BY <1>1, <1>2, <1>3, <1>4, <1>6, CountShapes
<1> QED BY <1>5, <1>6 DEF RNext

(* Through logins that fail, switches, evictions and releases too many, the *)
(* pool counts no lease that nobody holds.                                  *)
THEOREM FailoverLeaksNothing == RSpec => []NoLeakedSlot
<1>1. RInit => Counted /\ NoLeakedSlot
  <2>1. ASSUME RInit, NEW a \in Account PROVE inUse[a] <= Cardinality(Holders(a))
    BY <2>1, HoldersFinite DEF RInit
  <2> QED BY <2>1 DEF RInit, Counted, NoLeakedSlot
<1>2. LeaseInv /\ Counted /\ NoLeakedSlot /\ [RNext]_rvars => Counted' /\ NoLeakedSlot'
  BY NoLeakStep
<1> QED BY <1>1, <1>2, RequestInvariant, PTL DEF RSpec

--------------------------------------------------------------------------------
(* Types, and what a request remembers *)

(* Steps at which a request names no account, and those after which an     *)
(* attempt may still come.                                                 *)
Unnamed == {"idle", "loaded", "filtered", "entering", "acquiring", "touring"}
Coming == {"sending", "refreshing", "condemning", "cooling", "switching", "picking", "switched"}

MaxAttempts == ClientAttempts + KeeperAttempts + Cardinality(Account)

(* A request has tried every account it has been given but the one it names; *)
(* while it waits, the pool knows which it has tried.                       *)
JobTyped(j, x) ==
  /\ j.next \in Step
  /\ j.list \in Seq(Account) /\ IsInjective(j.list)
  /\ j.target \in Account \cup {NoAccount} /\ j.acct \in Account \cup {NoAccount}
  /\ j.tried \subseteq Account /\ j.past \subseteq Account
  /\ j.left \in 0 .. MaxAttempts
  /\ j.pc \notin Unnamed => j.acct \in Account
  /\ j.pc \in Coming => j.left > 0
  /\ j.pc \in {"discarding", "evicting"} /\ j.next = "switching" => j.left > 0
  /\ j.pc \in {"idle", "loaded", "filtered", "touring"} => j.past = {}
  /\ j.pc \in {"entering", "acquiring", "picking"} => j.past \subseteq j.tried
  /\ j.past \subseteq j.tried \cup {j.acct}
  /\ j.pc = "acquiring" => x.exclude = j.tried

JobsTyped ==
  /\ \A r \in Request : JobTyped(job[r], args[r])
  /\ discarded \subseteq Account /\ cooling \subseteq Account

RequestInv == TypeOK /\ CallsSound /\ LeaseInv /\ JobsTyped

LEMMA JobChange ==
  ASSUME RequestInv, NEW r \in Request, NEW j, Become(r, j),
         \A s \in Request \ {r} : args'[s] = args[s], JobTyped(j, args'[r]),
         discarded' \subseteq Account, cooling' \subseteq Account
  PROVE  JobsTyped'
<1>1. job' = [job EXCEPT ![r] = j] /\ DOMAIN job = Request
  BY DEF Become, RequestInv, LeaseInv
<1>2. ASSUME NEW s \in Request PROVE JobTyped(job'[s], args'[s])
  BY <1>1, <1>2 DEF RequestInv, JobsTyped
<1> QED BY <1>1, <1>2 DEF JobsTyped

(* The common case: nothing changes but the request's own record. *)
LEMMA JobPrivate ==
  ASSUME RequestInv, NEW r \in Request, NEW j, Become(r, j), JobTyped(j, args[r]),
         UNCHANGED args, UNCHANGED discarded, UNCHANGED cooling
  PROVE  JobsTyped'
BY JobChange DEF RequestInv, JobsTyped

LEMMA JobGoTo ==
  ASSUME RequestInv, NEW r \in Request, NEW step, GoTo(r, step),
         JobTyped([job[r] EXCEPT !.pc = step], args[r]),
         UNCHANGED args, UNCHANGED discarded, UNCHANGED cooling
  PROVE  JobsTyped'
<1>1. Become(r, [job[r] EXCEPT !.pc = step])
  BY DEF GoTo, Become
<1> QED BY <1>1, JobPrivate

(* A request that starts over remembers nothing. *)
LEMMA NoJobTyped ==
  ASSUME NEW x, NEW l \in Seq(Account), IsInjective(l), NEW t \in Account \cup {NoAccount}
  PROVE  /\ JobTyped(NoJob, x)
         /\ JobTyped([NoJob EXCEPT !.pc = "loaded", !.list = l, !.target = t], x)
         /\ JobTyped([NoJob EXCEPT !.pc = "touring", !.list = l], x)
<1>1. << >> \in Seq(Account) /\ IsInjective(<< >>)
  BY EmptySeq DEF IsInjective
<1>2. MaxAttempts \in Nat
  BY AttemptsAssumption, AccountAssumption, FS_CardinalityType DEF MaxAttempts
<1> QED BY <1>1, <1>2 DEF JobTyped, NoJob, Unnamed, Coming, Step

(* A lease goes to an account the request has not had. *)
LEMMA FreshAccount ==
  ASSUME RequestInv, NEW r \in Request, NEW t, NEW x, NEW a \in Choice(t, x), Lease(r, a),
         job[r].past \subseteq x
  PROVE  /\ a \in Account /\ held' = [held EXCEPT ![r] = a] /\ held'[r] = a
         /\ a \notin job[r].past
<1>1. a \notin x
  BY DEF Choice, Eligible
<1>2. a \in Account
  BY ChoiceFacts DEF RequestInv
<1> QED BY <1>1, <1>2, LeaseFacts DEF RequestInv

LEMMA TypesWhileDetermining ==
  ASSUME RequestInv, NEW r \in Request, Determining(r) \/ Load(r)
  PROVE  JobsTyped'
<1> DEFINE j == job[r]
<1>0. /\ JobTyped(j, args[r]) /\ JobOk(j, held[r], call[r])
      /\ discarded \subseteq Account /\ cooling \subseteq Account
      /\ DOMAIN args = Request
  BY DEF RequestInv, JobsTyped, LeaseInv, TypeOK
<1> USE DEF JobTyped, JobOk, Bare, Covered, Fields, Unnamed, Coming, Step
<1>1. CASE Load(r)
  <2>1. CASE UNCHANGED job
    BY <1>0, <1>1, <2>1 DEF Load, Private, vars, calls, JobsTyped, RequestInv
  <2>2. CASE ~ UNCHANGED job
    <3>1. PICK t \in Targets \cup {NoAccount} :
                 Become(r, [NoJob EXCEPT !.pc = "loaded", !.list = Without(Listed, discarded),
                                         !.target = t])
      BY <1>1, <2>2 DEF Load
    <3>2. /\ Without(Listed, discarded) \in Seq(Account)
          /\ IsInjective(Without(Listed, discarded))
      BY WithoutFacts, ListedAssumption
    <3>3. t \in Account \cup {NoAccount}
      BY UpstreamAssumption
    <3>4. JobTyped([NoJob EXCEPT !.pc = "loaded", !.list = Without(Listed, discarded),
                                 !.target = t], args[r])
      BY <3>2, <3>3, NoJobTyped
    <3>5. UNCHANGED <<args, discarded, cooling>>
      BY <1>1 DEF Load, Private, vars, calls
    <3> QED BY <3>1, <3>4, <3>5, JobPrivate
  <2> QED BY <2>1, <2>2
<1>2. CASE Filter(r)
  <2>1. PICK l \in {j.list, Without(j.list, cooling)} :
               Become(r, [j EXCEPT !.pc = "filtered", !.list = l])
    BY <1>2 DEF Filter
  <2>2. l \in Seq(Account) /\ IsInjective(l)
    BY <1>0, WithoutFacts
  <2>3. JobTyped([j EXCEPT !.pc = "filtered", !.list = l], args[r])
    BY <1>0, <1>2, <2>2 DEF Filter, At
  <2> QED BY <1>2, <2>1, <2>3, JobPrivate DEF Filter, Private, vars, calls
<1>3. CASE Join(r)
  <2>1. CASE GoTo(r, "touring")
    <3>1. JobTyped([j EXCEPT !.pc = "touring"], args[r])
      BY <1>0, <1>3 DEF Join, At
    <3> QED BY <1>3, <2>1, <3>1, JobGoTo DEF Join, calls
  <2>2. CASE Become(r, [j EXCEPT !.pc = "entering", !.list = << >>])
    <3>1. << >> \in Seq(Account) /\ IsInjective(<< >>)
      BY EmptySeq DEF IsInjective
    <3>2. JobTyped([j EXCEPT !.pc = "entering", !.list = << >>], args[r])
      BY <1>0, <1>3, <3>1 DEF Join, At
    <3> QED BY <1>3, <2>2, <3>2, JobPrivate DEF Join, calls
  <2> QED BY <1>3, <2>1, <2>2 DEF Join
<1>4. CASE Enter(r)
  <2>1. CASE Become(r, NoJob) /\ UNCHANGED vars
    <3>1. JobTyped(NoJob, args[r])
      BY <1>0, NoJobTyped
    <3> QED BY <1>4, <2>1, <3>1, JobPrivate DEF Enter, vars, calls
  <2>2. CASE GoTo(r, "acquiring") /\ BeginWait(r, j.target, j.tried)
    <3>1. args' = [args EXCEPT ![r] = [target |-> j.target, exclude |-> j.tried]]
      BY <2>2 DEF BeginWait
    <3>2. args'[r].exclude = j.tried
      BY <1>0, <3>1
    <3>3. JobTyped([j EXCEPT !.pc = "acquiring"], args'[r])
      BY <1>0, <1>4, <3>2 DEF Enter, At
    <3> QED BY <1>0, <1>4, <2>2, <3>1, <3>3, JobChange DEF Enter, GoTo, Become
  <2> QED BY <1>4, <2>1, <2>2 DEF Enter
<1>5. CASE Admitted(r)
  <2>1. PICK a \in Choice(args[r].target, args[r].exclude) : Lease(r, a)
    BY <1>5 DEF Admitted, Granted
  <2>2. j.past \subseteq args[r].exclude
    BY <1>0, <1>5 DEF Admitted, At
  <2>3. a \in Account /\ held'[r] = a
    BY <2>1, <2>2, FreshAccount
  <2>4. Become(r, [j EXCEPT !.pc = "determining", !.acct = a, !.past = @ \cup {a}])
    BY <1>5, <2>3 DEF Admitted, Leased
  <2>5. JobTyped([j EXCEPT !.pc = "determining", !.acct = a, !.past = @ \cup {a}], args'[r])
    BY <1>0, <1>5, <2>3 DEF Admitted, At
  <2> QED BY <1>0, <1>5, <2>4, <2>5, JobChange DEF Admitted, Granted, Return
<1>6. CASE NotAdmitted(r)
  <2>1. JobTyped(NoJob, args'[r])
    BY <1>0, NoJobTyped
  <2>2. \A s \in Request \ {r} : args'[s] = args[s]
    BY <1>0, <1>6 DEF NotAdmitted, GiveUp, TurnedAway, Leave, Return
  <2> QED BY <1>0, <1>6, <2>1, <2>2, JobChange DEF NotAdmitted
<1>7. CASE Waiting(r)
  <2>1. UNCHANGED <<job, args, discarded, cooling>>
    BY <1>7 DEF Waiting, Enqueue, Resume, Expire
  <2> QED BY <2>1 DEF RequestInv, JobsTyped
<1>8. CASE TokenReady(r)
  <2>1. JobTyped([j EXCEPT !.pc = "ready"], args[r])
    BY <1>0, <1>8 DEF TokenReady, At
  <2> QED BY <1>8, <2>1, JobGoTo DEF TokenReady, Private, vars, calls
<1>9. CASE TokenFails(r)
  <2>1. UNCHANGED <<args, discarded, cooling>>
    BY <1>9 DEF TokenFails, ReleaseNamed, calls
  <2>2. CASE Become(r, NoJob)
    BY <1>0, <2>1, <2>2, NoJobTyped, JobPrivate
  <2>3. CASE Become(r, [j EXCEPT !.pc = "entering", !.acct = NoAccount, !.tried = @ \cup {j.acct}])
    <3>1. JobTyped([j EXCEPT !.pc = "entering", !.acct = NoAccount, !.tried = @ \cup {j.acct}], args[r])
      BY <1>0, <1>9 DEF TokenFails, At
    <3> QED BY <2>1, <2>3, <3>1, JobPrivate
  <2> QED BY <1>9, <2>2, <2>3 DEF TokenFails
<1>10. CASE BadRequest(r)
  <2>1. JobTyped([j EXCEPT !.pc = "leaving"], args[r])
    BY <1>0, <1>10 DEF BadRequest, At
  <2> QED BY <1>10, <2>1, JobGoTo DEF BadRequest, Private, vars, calls
<1>11. CASE Begin(r)
  <2>1. PICK n \in {Cardinality(lookup), Attempts(r)} :
               /\ n >= Attempts(r)
               /\ Become(r, [j EXCEPT !.pc = "sending", !.strikes = 0, !.left = n])
    <3>1. Cardinality(lookup) \in Nat /\ Attempts(r) \in Nat
      BY LimitIsNat, AttemptsAssumption DEF Attempts, RequestInv, TypeOK
    <3>2. CASE Cardinality(lookup) > Attempts(r)
      BY <1>11, <3>1, <3>2 DEF Begin
    <3>3. CASE ~(Cardinality(lookup) > Attempts(r))
      BY <1>11, <3>1, <3>3 DEF Begin
    <3> QED BY <3>2, <3>3
  <2>2. n \in 1 .. MaxAttempts
    <3>1. /\ Cardinality(lookup) \in Nat /\ Cardinality(Account) \in Nat
          /\ Cardinality(lookup) <= Cardinality(Account)
      BY AccountAssumption, FS_Subset, FS_CardinalityType DEF RequestInv, TypeOK
    <3> QED BY <2>1, <3>1, AttemptsAssumption DEF Attempts, MaxAttempts
  <2>3. JobTyped([j EXCEPT !.pc = "sending", !.strikes = 0, !.left = n], args[r])
    BY <1>0, <1>11, <2>2 DEF Begin, At
  <2> QED BY <1>11, <2>1, <2>3, JobPrivate DEF Begin, Private, vars, calls
<1> QED BY <1>1, <1>2, <1>3, <1>4, <1>5, <1>6, <1>7, <1>8, <1>9, <1>10, <1>11 DEF Determining

LEMMA TypesWhileDelivering ==
  ASSUME RequestInv, NEW r \in Request, NEW v, Deliver(r, v), UNCHANGED <<args, discarded, cooling>>,
         job[r].pc \in {"sending", "picking"}
  PROVE  JobsTyped'
<1>1. PICK step \in {"discarding", "leaving"} :
             Become(r, [job[r] EXCEPT !.resp = "none", !.next = "leaving", !.pc = step])
  BY DEF Deliver
<1>2. JobTyped(job[r], args[r]) /\ DOMAIN job[r] = Fields
  BY DEF RequestInv, JobsTyped, LeaseInv, JobOk
<1>3. JobTyped([job[r] EXCEPT !.resp = "none", !.next = "leaving", !.pc = step], args[r])
  BY <1>2 DEF JobTyped, Fields, Unnamed, Coming, Step
<1> QED BY <1>1, <1>3, JobPrivate

LEMMA TypesAfterLoginFails ==
  ASSUME RequestInv, NEW r \in Request, LoginFails(r), UNCHANGED <<args, discarded, cooling>>,
         job[r].pc \in {"refreshing", "switched"}
  PROVE  JobsTyped'
<1>1. PICK step \in {"discarding", "switching"} :
             Become(r, [job[r] EXCEPT !.next = "switching", !.pc = step])
  BY DEF LoginFails
<1>2. JobTyped(job[r], args[r]) /\ DOMAIN job[r] = Fields
  BY DEF RequestInv, JobsTyped, LeaseInv, JobOk
<1>3. JobTyped([job[r] EXCEPT !.next = "switching", !.pc = step], args[r])
  BY <1>2 DEF JobTyped, Fields, Unnamed, Coming, Step
<1> QED BY <1>1, <1>3, JobPrivate

(* `continue' uses up one of the attempts that are left. *)
LEMMA AgainTyped ==
  ASSUME NEW j, NEW x, JobTyped(j, x), DOMAIN j = Fields, j.pc \in Coming,
         j.pc # "picking"
  PROVE  JobTyped(Again(j), x)
<1>1. j.left \in 1 .. MaxAttempts /\ MaxAttempts \in Nat
  BY AttemptsAssumption, AccountAssumption, FS_CardinalityType
     DEF JobTyped, MaxAttempts
<1>2. j.left - 1 \in 0 .. MaxAttempts /\ (j.left > 1 => j.left - 1 > 0)
  BY <1>1
<1> QED BY <1>1, <1>2 DEF JobTyped, Again, Fields, Unnamed, Coming, Step

LEMMA TypesWhileCompleting ==
  ASSUME RequestInv, NEW r \in Request, Completing(r)
  PROVE  JobsTyped'
<1> DEFINE j == job[r]
<1>0. JobTyped(j, args[r]) /\ DOMAIN j = Fields
  BY DEF RequestInv, JobsTyped, LeaseInv, JobOk
<1>1. UNCHANGED <<args, discarded, cooling>>
  BY DEF Completing, Answered, Unreachable, Unauthorized, Unavailable, Rejected,
         Refreshed, RefreshFails, LoginFails, Private, vars, calls
<1> USE DEF JobTyped, Fields, Unnamed, Coming, Step
<1>2. CASE Answered(r)
  <2>1. JobTyped([j EXCEPT !.pc = "streaming"], args[r])
    BY <1>0, <1>2 DEF Answered, At
  <2> QED BY <1>1, <1>2, <2>1, JobGoTo DEF Answered
<1>3. CASE Unreachable(r)
  <2> DEFINE k == [j EXCEPT !.strikes = @ + 1]
  <2>1. JobTyped(k, args[r]) /\ k.pc = "sending" /\ DOMAIN k = Fields
    BY <1>0, <1>3 DEF Unreachable, At
  <2>2. CASE Become(r, [k EXCEPT !.pc = "leaving"])
    <3>1. JobTyped([k EXCEPT !.pc = "leaving"], args[r])
      BY <2>1
    <3> QED BY <1>1, <2>2, <3>1, JobPrivate
  <2>3. CASE Become(r, Again(k))
    <3> HIDE DEF k, JobTyped, Fields
    <3>1. JobTyped(Again(k), args[r])
      BY <2>1, AgainTyped
    <3> QED BY <1>1, <2>3, <3>1, JobPrivate
  <2> QED BY <1>3, <2>2, <2>3 DEF Unreachable
<1>4. CASE Unauthorized(r)
  <2>1. JobTyped([j EXCEPT !.pc = "refreshing"], args[r])
    BY <1>0, <1>4 DEF Unauthorized, At
  <2> QED BY <1>1, <1>4, <2>1, JobGoTo DEF Unauthorized
<1>5. CASE Unavailable(r)
  <2>1. PICK v \in Verdicts(j.acct) : \E step \in {"condemning", "cooling"} :
               Become(r, [j EXCEPT !.resp = v, !.next = "switching", !.pc = step])
    BY <1>5 DEF Unavailable
  <2>0. PICK step \in {"condemning", "cooling"} :
               Become(r, [j EXCEPT !.resp = v, !.next = "switching", !.pc = step])
    BY <2>1
  <2>2. JobTyped([j EXCEPT !.resp = v, !.next = "switching", !.pc = step], args[r])
    BY <1>0, <1>5 DEF Unavailable, At
  <2> QED BY <1>1, <2>0, <2>2, JobPrivate
<1>6. CASE Rejected(r)
  BY <1>1, <1>6, TypesWhileDelivering DEF Rejected, At
<1>7. CASE Refreshed(r)
  <2> HIDE DEF JobTyped, Fields
  <2>1. JobTyped(Again(j), args[r])
    BY <1>0, <1>7, AgainTyped DEF Refreshed, At
  <2> QED BY <1>1, <1>7, <2>1, JobPrivate DEF Refreshed
<1>8. CASE RefreshFails(r)
  BY <1>1, <1>8, TypesAfterLoginFails DEF RefreshFails, At
<1> QED BY <1>2, <1>3, <1>4, <1>5, <1>6, <1>7, <1>8 DEF Completing

LEMMA TypesWhileFailingOver ==
  ASSUME RequestInv, NEW r \in Request, Failover(r)
  PROVE  JobsTyped'
<1> DEFINE j == job[r]
<1>0. /\ JobTyped(j, args[r]) /\ JobOk(j, held[r], call[r]) /\ DOMAIN j = Fields
      /\ discarded \subseteq Account /\ cooling \subseteq Account
  BY DEF RequestInv, JobsTyped, LeaseInv, JobOk
<1> USE DEF JobTyped, Fields, Unnamed, Coming, Step
<1>1. CASE Discard(r)
  <2>1. JobTyped([j EXCEPT !.pc = "evicting", !.tried = @ \cup {j.acct}], args[r])
    BY <1>0, <1>1 DEF Discard, At, JobOk
  <2>2. discarded' \subseteq Account /\ cooling' \subseteq Account /\ args' = args
    BY <1>0, <1>1 DEF Discard, vars, calls
  <2> QED BY <1>1, <2>1, <2>2, JobChange DEF Discard
<1>2. CASE DiscardFails(r)
  <2>1. UNCHANGED <<args, discarded, cooling>>
    BY <1>2 DEF DiscardFails, Private, vars, calls
  <2>2. CASE At(r, "condemning") /\ GoTo(r, "cooling")
    <3>1. JobTyped([j EXCEPT !.pc = "cooling"], args[r])
      BY <1>0, <2>2 DEF At
    <3> QED BY <2>1, <2>2, <3>1, JobGoTo
  <2>3. CASE At(r, "discarding") /\ GoTo(r, j.next)
    <3>1. JobTyped([j EXCEPT !.pc = j.next], args[r])
      BY <1>0, <2>3 DEF At, JobOk
    <3> QED BY <2>1, <2>3, <3>1, JobGoTo
  <2> QED BY <1>2, <2>2, <2>3 DEF DiscardFails
<1>3. CASE Cool(r)
  <2>1. JobTyped([j EXCEPT !.pc = "evicting"], args[r])
    BY <1>0, <1>3 DEF Cool, At, JobOk
  <2>2. discarded' \subseteq Account /\ cooling' \subseteq Account /\ args' = args
    BY <1>0, <1>3 DEF Cool, At, vars, calls
  <2> QED BY <1>3, <2>1, <2>2, JobChange DEF Cool, GoTo, Become
<1>4. CASE Evict(r)
  <2>1. JobTyped([j EXCEPT !.pc = j.next], args[r])
    BY <1>0, <1>4 DEF Evict, At, JobOk
  <2> QED BY <1>4, <2>1, JobGoTo DEF Evict, calls
<1>5. CASE Switch(r)
  <2>1. JobTyped([j EXCEPT !.pc = "picking", !.tried = @ \cup {j.acct}], args[r])
    BY <1>0, <1>5 DEF Switch, At
  <2> QED BY <1>5, <2>1, JobPrivate DEF Switch, ReleaseNamed, calls
<1>6. CASE Pick(r)
  <2>1. PICK a \in Choice(NoAccount, j.tried) : Lease(r, a)
    BY <1>6 DEF Pick, Acquire
  <2>2. j.past \subseteq j.tried
    BY <1>0, <1>6 DEF Pick, At
  <2>3. a \in Account /\ held'[r] = a
    BY <2>1, <2>2, FreshAccount
  <2>4. Become(r, [j EXCEPT !.pc = "switched", !.acct = a, !.past = @ \cup {a}])
    BY <1>6, <2>3 DEF Pick, Leased
  <2>5. JobTyped([j EXCEPT !.pc = "switched", !.acct = a, !.past = @ \cup {a}], args[r])
    BY <1>0, <1>6, <2>3 DEF Pick, At
  <2> QED BY <1>6, <2>4, <2>5, JobPrivate DEF Pick, Acquire, calls
<1>7. CASE NoneLeft(r)
  BY <1>7, TypesWhileDelivering DEF NoneLeft, At, Private, vars, calls
<1>8. CASE SwitchReady(r)
  <2> HIDE DEF JobTyped, Fields
  <2>1. JobTyped(Again(j), args[r])
    BY <1>0, <1>8, AgainTyped DEF SwitchReady, At
  <2> QED BY <1>8, <2>1, JobPrivate DEF SwitchReady, Private, vars, calls
<1>9. CASE SwitchFails(r)
  BY <1>9, TypesAfterLoginFails DEF SwitchFails, At, LoginFails, Private, vars, calls
<1> QED BY <1>1, <1>2, <1>3, <1>4, <1>5, <1>6, <1>7, <1>8, <1>9 DEF Failover

(* The keep-alive loop only waits for its tour: it has a lease only while   *)
(* the account at the head of its list is being touched.                    *)
KeeperOk(j) ==
  \/ j.pc \in {"idle", "loaded", "filtered", "touring"}
  \/ j.list # << >> /\ j.pc \notin {"entering", "acquiring", "determining"}

KeeperTours == Keeper \in Request => KeeperOk(job[Keeper])

LEMMA KeeperSteps ==
  ASSUME LeaseInv, KeeperTours, Keeper \in Request, Load(Keeper) \/ Work(Keeper)
  PROVE  KeeperOk(job'[Keeper])
<1> DEFINE j == job[Keeper]
<1>0. /\ JobOk(j, held[Keeper], call[Keeper]) /\ DOMAIN j = Fields /\ KeeperOk(j)
      /\ DOMAIN job = Request
  BY DEF LeaseInv, JobOk, KeeperTours
<1> USE DEF KeeperOk, Become, GoTo, At, Fields
<1>1. CASE Load(Keeper) \/ Filter(Keeper) \/ Join(Keeper)
  BY <1>0, <1>1 DEF Load, Filter, Join, NoJob
<1>2. CASE Enter(Keeper) \/ Admitted(Keeper) \/ NotAdmitted(Keeper) \/ Waiting(Keeper)
           \/ TokenReady(Keeper) \/ TokenFails(Keeper)
  BY <1>0, <1>2 DEF Enter, Admitted, NotAdmitted, Waiting, TokenReady, TokenFails
<1>3. CASE BadRequest(Keeper) \/ Begin(Keeper)
  BY <1>0, <1>3 DEF BadRequest, Begin
<1>4. CASE Completing(Keeper)
  <2>1. CASE Answered(Keeper) \/ Unauthorized(Keeper) \/ Refreshed(Keeper)
    BY <1>0, <2>1 DEF Answered, Unauthorized, Refreshed, Again
  <2>2. CASE Unreachable(Keeper)
    BY <1>0, <2>2 DEF Unreachable, Again
  <2>3. CASE Unavailable(Keeper)
    BY <1>0, <2>3 DEF Unavailable
  <2>4. CASE Rejected(Keeper)
    BY <1>0, <2>4 DEF Rejected, Deliver
  <2>5. CASE RefreshFails(Keeper)
    BY <1>0, <2>5 DEF RefreshFails, LoginFails
  <2> QED BY <1>4, <2>1, <2>2, <2>3, <2>4, <2>5 DEF Completing
<1>5. CASE Discard(Keeper) \/ DiscardFails(Keeper) \/ Cool(Keeper) \/ Evict(Keeper)
  BY <1>0, <1>5 DEF Discard, DiscardFails, Cool, Evict, JobOk
<1>6. CASE Switch(Keeper) \/ Pick(Keeper) \/ SwitchReady(Keeper)
  BY <1>0, <1>6 DEF Switch, Pick, Leased, SwitchReady, Again
<1>10. CASE NoneLeft(Keeper)
  BY <1>0, <1>10 DEF NoneLeft, Deliver
<1>11. CASE SwitchFails(Keeper)
  BY <1>0, <1>11 DEF SwitchFails, LoginFails
<1>7. CASE Leaving(Keeper)
  BY <1>0, <1>7 DEF Leaving, Streamed, Finish, NoJob
<1>8. CASE TimesOut(Keeper)
  BY <1>0, <1>8 DEF TimesOut
<1>9. CASE Touring
  <2>1. CASE Visit
    BY <1>0, <2>1 DEF Visit, Leased
  <2>2. CASE Skip \/ EndTour
    BY <1>0, <2>2 DEF Skip, EndTour, NoJob
  <2>3. CASE Touch
    BY <1>0, <2>3 DEF Touch
  <2> QED BY <1>9, <2>1, <2>2, <2>3 DEF Touring
<1> QED
  BY <1>1, <1>2, <1>3, <1>4, <1>5, <1>6, <1>7, <1>8, <1>9, <1>10, <1>11
     DEF Work, Determining, Failover

(* A step of a request changes the record of no other request. *)
LEMMA OwnRecord ==
  ASSUME LeaseInv, NEW r \in Request, Load(r) \/ Work(r), NEW s \in Request \ {r}
  PROVE  job'[s] = job[s]
<1>0. DOMAIN job = Request
  BY DEF LeaseInv
<1> USE DEF Become, GoTo
<1>1. CASE Load(r) \/ Determining(r)
  BY <1>0, <1>1 DEF Load, Determining, Filter, Join, Enter, Admitted, NotAdmitted, Waiting,
                    TokenReady, TokenFails, BadRequest, Begin
<1>2. CASE Completing(r)
  BY <1>0, <1>2 DEF Completing, Answered, Unreachable, Unauthorized, Unavailable, Rejected,
                    Refreshed, RefreshFails, LoginFails, Deliver
<1>3. CASE Failover(r)
  BY <1>0, <1>3 DEF Failover, Discard, DiscardFails, Cool, Evict, Switch, Pick, NoneLeft,
                    SwitchReady, SwitchFails, LoginFails, Deliver
<1>4. CASE Leaving(r) \/ TimesOut(r)
  BY <1>0, <1>4 DEF Leaving, Streamed, Finish, TimesOut
<1>5. CASE r = Keeper /\ Touring
  BY <1>0, <1>5 DEF Touring, Visit, Skip, Touch, EndTour
<1> QED BY <1>1, <1>2, <1>3, <1>4, <1>5 DEF Work

LEMMA KeeperStep == LeaseInv /\ KeeperTours /\ [RNext]_rvars => KeeperTours'
<1> SUFFICES ASSUME LeaseInv, KeeperTours, [RNext]_rvars, Keeper \in Request
             PROVE  KeeperOk(job'[Keeper])
  BY DEF KeeperTours, KeeperOk
<1>1. CASE UNCHANGED job
  BY <1>1 DEF KeeperTours
<1>2. CASE Thaw \/ Admin \/ UNCHANGED rvars
  BY <1>1, <1>2 DEF Thaw, Admin, rvars
<1>3. ASSUME NEW r \in Request, Load(r) \/ Work(r) PROVE KeeperOk(job'[Keeper])
  <2>1. CASE r = Keeper
    BY <1>3, <2>1, KeeperSteps
  <2>2. CASE r # Keeper
    BY <1>3, <2>2, OwnRecord DEF KeeperTours
  <2> QED BY <2>1, <2>2
<1> QED BY <1>2, <1>3 DEF RNext

LEMMA TypesWhileLeaving ==
  ASSUME RequestInv, KeeperTours, NEW r \in Request, Leaving(r)
  PROVE  JobsTyped'
<1> DEFINE j == job[r]
<1>0. JobTyped(j, args[r]) /\ DOMAIN j = Fields
  BY DEF RequestInv, JobsTyped, LeaseInv, JobOk
<1>1. UNCHANGED <<args, discarded, cooling>>
  BY DEF Leaving, Streamed, Finish, ReleaseNamed, Private, vars, calls
<1>2. CASE Streamed(r)
  <2>1. JobTyped([j EXCEPT !.pc = "leaving"], args[r])
    BY <1>0, <1>2 DEF Streamed, At, JobTyped, Fields, Unnamed, Coming
  <2> QED BY <1>1, <1>2, <2>1, JobGoTo DEF Streamed
<1>3. CASE Finish(r) /\ r = Keeper
  <2>1. j.list \in Seq(Account) /\ IsInjective(j.list) /\ j.list # << >>
    BY <1>0, <1>3 DEF Finish, At, KeeperTours, KeeperOk, JobTyped
  <2>2. Tail(j.list) \in Seq(Account) /\ IsInjective(Tail(j.list))
    BY <2>1, TailDistinct
  <2>3. JobTyped([NoJob EXCEPT !.pc = "touring", !.list = Tail(j.list)], args[r])
    BY <2>2, NoJobTyped
  <2> QED BY <1>1, <1>3, <2>3, JobPrivate DEF Finish
<1>4. CASE Finish(r) /\ r # Keeper
  <2>1. JobTyped(NoJob, args[r])
    BY <1>0, NoJobTyped DEF JobTyped
  <2> QED BY <1>1, <1>4, <2>1, JobPrivate DEF Finish
<1> QED BY <1>2, <1>3, <1>4 DEF Leaving

LEMMA TypesWhileTouring ==
  ASSUME RequestInv, Keeper \in Request, Touring
  PROVE  JobsTyped'
<1> DEFINE j == job[Keeper]
<1>0. JobTyped(j, args[Keeper]) /\ DOMAIN j = Fields
  BY DEF RequestInv, JobsTyped, LeaseInv, JobOk
<1>1. UNCHANGED <<args, discarded, cooling>>
  BY DEF Touring, Visit, Skip, Touch, EndTour, Acquire, Private, vars, calls
<1> USE DEF JobTyped, Fields, Unnamed, Coming
<1>2. CASE Visit
  <2>1. PICK a \in Choice(Head(j.list), {}) : Lease(Keeper, a)
    BY <1>2 DEF Visit, Acquire
  <2>2. j.past \subseteq {}
    BY <1>0, <1>2 DEF Visit, At
  <2>3. a \in Account /\ held'[Keeper] = a
    BY <2>1, <2>2, FreshAccount
  <2>4. Become(Keeper, [j EXCEPT !.pc = "touching", !.acct = a, !.past = @ \cup {a}])
    BY <1>2, <2>3 DEF Visit, Leased
  <2>5. JobTyped([j EXCEPT !.pc = "touching", !.acct = a, !.past = @ \cup {a}], args[Keeper])
    BY <1>0, <1>2, <2>2, <2>3 DEF Visit, At
  <2> QED BY <1>1, <2>4, <2>5, JobPrivate
<1>3. CASE Skip
  <2>1. Tail(j.list) \in Seq(Account) /\ IsInjective(Tail(j.list))
    BY <1>0, <1>3, TailDistinct DEF Skip
  <2>2. JobTyped([j EXCEPT !.list = Tail(j.list)], args[Keeper])
    BY <1>0, <1>3, <2>1 DEF Skip, At
  <2> QED BY <1>1, <1>3, <2>2, JobPrivate DEF Skip
<1>4. CASE Touch
  <2>1. PICK step \in {"ready", "leaving"} : GoTo(Keeper, step)
    BY <1>4 DEF Touch
  <2>2. JobTyped([j EXCEPT !.pc = step], args[Keeper])
    BY <1>0, <1>4 DEF Touch, At
  <2> QED BY <1>1, <2>1, <2>2, JobGoTo
<1>5. CASE EndTour
  <2>1. JobTyped(NoJob, args[Keeper])
    BY <1>0, NoJobTyped
  <2> QED BY <1>1, <1>5, <2>1, JobPrivate DEF EndTour
<1> QED BY <1>2, <1>3, <1>4, <1>5 DEF Touring

--------------------------------------------------------------------------------
(* What a step of a request does to the pool: one operation of it *)

Borrows(r) ==
  /\ call[r] = "idle" /\ held[r] = NoAccount
  /\ \E t, x : Acquire(r, t, x)

Asks(r) ==
  /\ held[r] = NoAccount
  /\ \E t \in Account \cup {NoAccount}, x \in SUBSET Account : BeginWait(r, t, x)
  /\ UNCHANGED <<pool, held, forgotten>>

Returns(r, a) ==
  /\ Release(a)
  /\ held' = [held EXCEPT ![r] = NoAccount]
  /\ Forget({})
  /\ UNCHANGED calls

Replaces(l) == SyncAccounts(l) /\ UNCHANGED calls

LEMMA WaitsAreNext ==
  ASSUME NEW r \in Request,
         GiveUp(r) \/ TurnedAway(r) \/ Leave(r) \/ Enqueue(r) \/ Resume(r) \/ Expire(r)
           \/ Deadline(r) \/ Granted(r)
  PROVE  Next
BY DEF Next, Attempt

LEMMA PoolShapes ==
  ASSUME RequestInv, NEW r \in Request, Load(r) \/ Work(r)
  PROVE  \/ [Next]_vars \/ Borrows(r) \/ Asks(r)
         \/ \E a \in Account : Returns(r, a)
         \/ \E l \in Seq(Account) : Replaces(l)
<1>0. JobTyped(job[r], args[r]) /\ JobOk(job[r], held[r], call[r])
  BY DEF RequestInv, JobsTyped, LeaseInv
<1>1. CASE Join(r)
  <2>1. Replaces(job[r].list) /\ job[r].list \in Seq(Account)
    BY <1>0, <1>1 DEF Join, Replaces, JobTyped
  <2> QED BY <2>1
<1>2. CASE Evict(r)
  <2>1. RemoveAccount(job[r].acct) /\ UNCHANGED calls /\ job[r].acct \in Account
    BY <1>0, <1>2 DEF Evict, At, JobTyped, Unnamed
  <2> QED BY <2>1 DEF Next, Withdraw
<1>3. CASE TokenFails(r) \/ Switch(r) \/ Finish(r)
  <2>1. ReleaseNamed(r) /\ job[r].acct \in Account
    BY <1>0, <1>3 DEF TokenFails, Switch, Finish, At, JobTyped, Unnamed
  <2> QED BY <2>1 DEF ReleaseNamed, Returns
<1>4. CASE Pick(r) \/ (r = Keeper /\ Visit)
  BY <1>0, <1>4 DEF Pick, Visit, At, JobOk, Bare, Borrows
<1>5. CASE Enter(r)
  <2>1. CASE UNCHANGED vars
    BY <2>1
  <2>2. CASE BeginWait(r, job[r].target, job[r].tried) /\ UNCHANGED <<pool, held, forgotten>>
    <3>1. held[r] = NoAccount
      BY <1>0, <1>5 DEF Enter, At, JobOk, Bare
    <3>2. job[r].target \in Account \cup {NoAccount} /\ job[r].tried \in SUBSET Account
      BY <1>0 DEF JobTyped
    <3>3. Asks(r)
      BY <2>2, <3>1, <3>2 DEF Asks
    <3> QED BY <3>3
  <2> QED BY <1>5, <2>1, <2>2 DEF Enter
<1>6. CASE Admitted(r) \/ NotAdmitted(r) \/ Waiting(r) \/ TimesOut(r)
  BY <1>6, WaitsAreNext DEF Admitted, NotAdmitted, Waiting, TimesOut
<1>7. CASE Load(r) \/ Filter(r) \/ TokenReady(r) \/ BadRequest(r) \/ Begin(r)
  BY <1>7 DEF Load, Filter, TokenReady, BadRequest, Begin, Private
<1>8. CASE Completing(r)
  BY <1>8 DEF Completing, Answered, Unreachable, Unauthorized, Unavailable, Rejected,
               Refreshed, RefreshFails, LoginFails, Private
<1>9. CASE Discard(r) \/ DiscardFails(r) \/ Cool(r) \/ NoneLeft(r) \/ SwitchReady(r)
            \/ SwitchFails(r) \/ Streamed(r)
  BY <1>9 DEF Discard, DiscardFails, Cool, NoneLeft, SwitchReady, SwitchFails, LoginFails,
               Streamed, Private
<1>10. CASE Skip \/ Touch \/ EndTour
  BY <1>10 DEF Skip, Touch, EndTour, Private
<1> QED
  BY <1>1, <1>2, <1>3, <1>4, <1>5, <1>6, <1>7, <1>8, <1>9, <1>10
  DEF Work, Determining, Failover, Leaving, Touring

LEMMA PoolTypes ==
  ASSUME RequestInv, NEW r \in Request, Load(r) \/ Work(r)
  PROVE  TypeOK' /\ CallsSound'
<1>0. TypeOK /\ CallsSound
  BY DEF RequestInv
<1>1. CASE [Next]_vars
  BY <1>0, <1>1, TypeStep, CallsStep
<1>2. CASE Borrows(r)
  <2>1. PICK t, x : Acquire(r, t, x)
    BY <1>2 DEF Borrows
  <2>2. PICK a \in Choice(t, x) : Lease(r, a)
    BY <2>1 DEF Acquire
  <2>3. a \in Account /\ inUse[a] < MaxInflight
    BY <1>0, <2>2, ChoiceFacts DEF CanAcquire
  <2>4. queue' \in Seq(Account) /\ IsInjective(queue')
    BY <1>0, <2>2, <2>3, BumpFacts DEF Lease
  <2>5. TypeOK'
    BY <1>0, <2>1, <2>2, <2>3, <2>4, LimitAssumption DEF Acquire, Lease, TypeOK, calls
  <2>6. CallsSound'
    BY <1>0, <1>2, <2>1, <2>2 DEF Borrows, Acquire, Lease, CallsSound, TypeOK, calls
  <2> QED BY <2>5, <2>6
<1>3. CASE Asks(r)
  <2>1. PICK t \in Account \cup {NoAccount}, x \in SUBSET Account : BeginWait(r, t, x)
    BY <1>3 DEF Asks
  <2>2. TypeOK'
    BY <1>0, <1>3, <2>1 DEF Asks, BeginWait, TypeOK, pool, CallState
  <2>3. CallsSound'
    BY <1>0, <1>3, <2>1 DEF Asks, BeginWait, CallsSound, TypeOK, pool
  <2> QED BY <2>2, <2>3
<1>4. ASSUME NEW a \in Account, Returns(r, a) PROVE TypeOK' /\ CallsSound'
  <2>1. /\ inUse' \in [Account -> 0 .. MaxInflight]
        /\ waiters' \in Seq(Request) /\ IsInjective(waiters')
        /\ Range(waiters') \subseteq Range(waiters)
        /\ UNCHANGED <<queue, lookup>>
    BY <1>0, <1>4, ReleaseFacts, WakeFacts DEF Returns
  <2>2. forgotten' \subseteq Account
    BY <1>0, <1>4 DEF Returns, Forget, TypeOK
  <2>3. TypeOK'
    BY <1>0, <1>4, <2>1, <2>2 DEF Returns, TypeOK, calls
  <2>4. CallsSound'
    BY <1>0, <1>4, <2>1 DEF Returns, CallsSound, TypeOK, calls
  <2> QED BY <2>3, <2>4
<1>5. ASSUME NEW l \in Seq(Account), Replaces(l) PROVE TypeOK' /\ CallsSound'
  <2>1. waiters' \in Seq(Request) /\ IsInjective(waiters') /\ Range(waiters') \subseteq Range(waiters)
    BY <1>0, <1>5, WakeFacts DEF Replaces, SyncAccounts
  <2>2. forgotten' \subseteq Account
    BY <1>0, <1>5 DEF Replaces, SyncAccounts, Forget, TypeOK
  <2>3. TypeOK'
    BY <1>0, <1>5, <2>1, <2>2, ListFacts DEF Replaces, SyncAccounts, TypeOK, calls
  <2>4. CallsSound'
    BY <1>0, <1>5, <2>1 DEF Replaces, SyncAccounts, CallsSound, calls
  <2> QED BY <2>3, <2>4
<1> QED BY <1>1, <1>2, <1>3, <1>4, <1>5, PoolShapes

--------------------------------------------------------------------------------
(* The invariant of a request and of what it carries between steps *)

LEMMA RequestStep ==
  RequestInv /\ KeeperTours /\ LeaseInv' /\ [RNext]_rvars => RequestInv'
<1> SUFFICES ASSUME RequestInv, KeeperTours, LeaseInv', [RNext]_rvars PROVE RequestInv'
  OBVIOUS
<1>1. ASSUME NEW r \in Request, Load(r) \/ Work(r) PROVE RequestInv'
  <2>1. TypeOK' /\ CallsSound'
    BY <1>1, PoolTypes
  <2>2. JobsTyped'
    <3>1. CASE TimesOut(r)
      <4>1. UNCHANGED <<job, args, discarded, cooling>>
        BY <3>1 DEF TimesOut, Deadline
      <4> QED BY <4>1 DEF RequestInv, JobsTyped
    <3> QED
      BY <1>1, <3>1, TypesWhileDetermining, TypesWhileCompleting, TypesWhileFailingOver,
         TypesWhileLeaving, TypesWhileTouring DEF Work
  <2> QED BY <2>1, <2>2 DEF RequestInv
<1>2. CASE Thaw \/ Admin \/ UNCHANGED rvars
  <2>1. UNCHANGED vars /\ UNCHANGED job
    BY <1>2 DEF Thaw, Admin, rvars
  <2>2. TypeOK' /\ CallsSound'
    BY <2>1, TypeStep, CallsStep DEF RequestInv
  <2>3. discarded' \subseteq Account /\ cooling' \subseteq Account
    BY <1>2 DEF Thaw, Admin, rvars, RequestInv, JobsTyped
  <2>4. JobsTyped'
    BY <2>1, <2>3 DEF RequestInv, JobsTyped, vars, calls
  <2> QED BY <2>2, <2>4 DEF RequestInv
<1> QED BY <1>1, <1>2 DEF RNext

LEMMA RequestInit == RInit => RequestInv /\ KeeperTours
<1> SUFFICES ASSUME RInit PROVE RequestInv /\ KeeperTours
  OBVIOUS
<1>1. << >> \in Seq(Account) /\ << >> \in Seq(Request) /\ IsInjective(<< >>) /\ Range(<< >>) = {}
  BY EmptySeq DEF IsInjective, Range
<1>2. TypeOK
  BY <1>1, LimitAssumption DEF RInit, TypeOK, CallState, NoArgs
<1>3. CallsSound
  BY <1>1 DEF RInit, CallsSound
<1>4. JobsTyped
  BY <1>1, NoJobTyped DEF RInit, JobsTyped
<1>5. KeeperTours
  BY DEF RInit, KeeperTours, KeeperOk, NoJob
<1> QED BY <1>2, <1>3, <1>4, <1>5, LeaseInit DEF RequestInv

(* Pool and requests keep their types, and every request remembers what it  *)
(* has tried, whatever fails and whatever other requests do meanwhile.      *)
THEOREM RequestsAreTyped == RSpec => [](RequestInv /\ KeeperTours)
<1>1. RequestInv /\ KeeperTours /\ LeaseInv' /\ [RNext]_rvars => RequestInv' /\ KeeperTours'
  BY RequestStep, KeeperStep DEF RequestInv
<1> QED BY <1>1, RequestInit, RequestInvariant, PTL DEF RSpec

(* Every variable of the resolver keeps its shape; the attempts left to a   *)
(* request never exceed what its loop may start with.                       *)
THEOREM ResolverTypeCorrect == RSpec => []RTypeOK
<1>1. RequestInv => RTypeOK
  BY DEF RequestInv, JobsTyped, JobTyped, LeaseInv, JobOk, RTypeOK, Step, Bare, Covered, MaxAttempts
<1> QED BY <1>1, RequestsAreTyped, PTL

--------------------------------------------------------------------------------
(* Failover makes progress *)

(* A step of a request gives it an account it has not had, takes the one it *)
(* has, or leaves its lease alone.                                          *)
LEMMA HeldShapes ==
  ASSUME RequestInv, NEW r \in Request, Load(r) \/ Work(r)
  PROVE  \/ UNCHANGED held
         \/ held' = [held EXCEPT ![r] = NoAccount]
         \/ \E a \in Account \ job[r].past : held' = [held EXCEPT ![r] = a]
<1>0. JobTyped(job[r], args[r]) /\ DOMAIN held = Request
  BY DEF RequestInv, JobsTyped, LeaseInv
<1>1. CASE Admitted(r)
  <2>1. PICK a \in Choice(args[r].target, args[r].exclude) : Lease(r, a)
    BY <1>1 DEF Admitted, Granted
  <2>2. job[r].past \subseteq args[r].exclude
    BY <1>0, <1>1 DEF Admitted, At, JobTyped
  <2> QED BY <2>1, <2>2, FreshAccount
<1>2. CASE Pick(r)
  <2>1. PICK a \in Choice(NoAccount, job[r].tried) : Lease(r, a)
    BY <1>2 DEF Pick, Acquire
  <2>2. job[r].past \subseteq job[r].tried
    BY <1>0, <1>2 DEF Pick, At, JobTyped
  <2> QED BY <2>1, <2>2, FreshAccount
<1>3. CASE r = Keeper /\ Visit
  <2>1. PICK a \in Choice(Head(job[r].list), {}) : Lease(r, a)
    BY <1>3 DEF Visit, Acquire
  <2>2. job[r].past \subseteq {}
    BY <1>0, <1>3 DEF Visit, At, JobTyped
  <2> QED BY <2>1, <2>2, FreshAccount
<1>4. CASE TokenFails(r) \/ Switch(r) \/ Finish(r)
  BY <1>4 DEF TokenFails, Switch, Finish, ReleaseNamed
<1>5. CASE Join(r) \/ Evict(r) \/ Enter(r)
  BY <1>5 DEF Join, SyncAccounts, Evict, RemoveAccount, Enter, vars
<1>6. CASE NotAdmitted(r) \/ Waiting(r) \/ TimesOut(r)
  BY <1>6 DEF NotAdmitted, Waiting, TimesOut, GiveUp, TurnedAway, Leave, Enqueue, Resume,
              Expire, Deadline
<1>7. CASE Load(r) \/ Filter(r) \/ TokenReady(r) \/ BadRequest(r) \/ Begin(r)
  BY <1>7 DEF Load, Filter, TokenReady, BadRequest, Begin, Private, vars
<1>8. CASE Completing(r)
  BY <1>8 DEF Completing, Answered, Unreachable, Unauthorized, Unavailable, Rejected,
               Refreshed, RefreshFails, LoginFails, Private, vars
<1>9. CASE Discard(r) \/ DiscardFails(r) \/ Cool(r) \/ NoneLeft(r) \/ SwitchReady(r)
            \/ SwitchFails(r) \/ Streamed(r)
  BY <1>9 DEF Discard, DiscardFails, Cool, NoneLeft, SwitchReady, SwitchFails, LoginFails,
               Streamed, Private, vars
<1>10. CASE Skip \/ Touch \/ EndTour
  BY <1>10 DEF Skip, Touch, EndTour, Private, vars
<1> QED
  BY <1>1, <1>2, <1>3, <1>4, <1>5, <1>6, <1>7, <1>8, <1>9, <1>10
  DEF Work, Determining, Failover, Leaving, Touring

LEMMA FreshStep ==
  ASSUME RequestInv, [RNext]_rvars, NEW r \in Request,
         held'[r] # held[r], held'[r] # NoAccount
  PROVE  held'[r] \notin job[r].past
<1>1. DOMAIN held = Request
  BY DEF RequestInv, LeaseInv
<1>2. ~ UNCHANGED held
  OBVIOUS
<1>3. ~(Thaw \/ Admin \/ UNCHANGED rvars)
  BY <1>2 DEF Thaw, Admin, rvars, vars
<1>4. PICK s \in Request : Load(s) \/ Work(s)
  BY <1>3 DEF RNext
<1>5. \/ held' = [held EXCEPT ![s] = NoAccount]
      \/ \E a \in Account \ job[s].past : held' = [held EXCEPT ![s] = a]
  BY <1>2, <1>4, HeldShapes
<1> QED BY <1>1, <1>5

(* However often accounts fail and are put back by others, no request is    *)
(* given the same account twice.                                            *)
THEOREM FailoverMakesProgress == RSpec => NeverRetried
<1>1. RequestInv /\ [RNext]_rvars =>
        [\A r \in Request :
           held'[r] # held[r] /\ held'[r] # NoAccount => held'[r] \notin job[r].past]_rvars
  BY FreshStep
<1> QED BY <1>1, RequestsAreTyped, PTL DEF RSpec, NeverRetried

--------------------------------------------------------------------------------
(* The pool under its real callers is still a lease table *)

LEMMA TableSteps ==
  ASSUME RequestInv, [RNext]_rvars
  PROVE  [Table!TableNext]_(Table!table)
<1>0. TypeOK /\ CallsSound
  BY DEF RequestInv
<1>1. CASE [Next]_vars
  BY <1>0, <1>1, TableStep
<1>2. CASE Thaw \/ Admin \/ UNCHANGED rvars
  BY <1>1, <1>2 DEF Thaw, Admin, rvars
<1>3. ASSUME NEW r \in Request, Borrows(r) PROVE Table!TableNext
  <2>1. PICK t, x : Acquire(r, t, x)
    BY <1>3 DEF Borrows
  <2>2. PICK a \in Choice(t, x) : Lease(r, a)
    BY <2>1 DEF Acquire
  <2>3. a \in Account /\ LeaseStep(r, a)
    BY <1>0, <1>3, <2>2, ChoiceFacts DEF Borrows, LeaseStep
  <2> QED BY <2>3, LeaseGrants
<1>4. ASSUME NEW r \in Request, Asks(r) PROVE UNCHANGED Table!table
  BY <1>4 DEF Asks, pool, Table!table
<1>5. ASSUME NEW r \in Request, NEW a \in Account, Returns(r, a)
      PROVE  Table!TableNext \/ UNCHANGED Table!table
  BY <1>0, <1>5, ReleaseGivesUp DEF Returns
<1>6. ASSUME NEW l \in Seq(Account), Replaces(l) PROVE Table!TableNext
  BY <1>0, <1>6, SyncReplaces DEF Replaces
<1> QED BY <1>1, <1>2, <1>3, <1>4, <1>5, <1>6, PoolShapes DEF RNext

(* Releases too many, evictions under a live lease and account lists from   *)
(* many requests are all steps of the table: no failover corrupts a count.  *)
THEOREM ResolverImplementsLeaseTable == RSpec => ImplementsLeaseTable
<1>1. RInit => Table!TableInit
  BY DEF RInit, Table!TableInit
<1>2. RequestInv /\ [RNext]_rvars => [Table!TableNext]_(Table!table)
  BY TableSteps
<1> QED BY <1>1, <1>2, RequestsAreTyped, PTL DEF RSpec, ImplementsLeaseTable, Table!TableSpec

================================================================================
