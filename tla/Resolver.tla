-------------------------------- MODULE Resolver --------------------------------
(***************************************************************************)
(* How requests use the account pool: auth.Resolver, the discard flags of  *)
(* the pool database, the cooldown marks, the completion loop of the       *)
(* gateway client with its failover between accounts, and the daily        *)
(* keep-alive tour.  Each access to the pool, the database or the cooldown *)
(* map takes a lock of its own and is one action; requests interleave in   *)
(* between and carry what they read before (`job').                        *)
(***************************************************************************)
EXTENDS AccountPool, Selections

CONSTANTS
  Keeper,          \* the keep-alive loop, if it is one of the requests
  Listed,          \* pool_accounts in the order of their ids
  Banned,          \* accounts the upstream has muted or banned
  Targets,         \* accounts a request may name in its header, NoAccount for none
  Fault,           \* what may go wrong: see FaultAssumption
  ClientAttempts,  \* attempts of a client's completion: StartCompletion
  KeeperAttempts   \* attempts of a keep-alive completion

ASSUME ListedAssumption == Listed \in Seq(Account) /\ IsInjective(Listed)
ASSUME UpstreamAssumption == Banned \subseteq Account /\ Targets \subseteq Account \cup {NoAccount}
ASSUME FaultAssumption ==
  Fault \subseteq {"transport",    \* the upstream cannot be reached
                   "auth",         \* it answers 401 or 403
                   "unavailable",  \* it answers 5xx
                   "rejected",     \* it answers another error
                   "login",        \* a login fails
                   "store",        \* the database refuses a discard
                   "admin"}        \* the operator discards and restores accounts
ASSUME AttemptsAssumption == ClientAttempts \in Nat \ {0} /\ KeeperAttempts \in Nat \ {0}

VARIABLES
  discarded,  \* pool_accounts.discarded
  cooling,    \* Resolver.cooldownUntil: accounts whose cooldown has not ended
  job         \* where each request stands, and its RequestAuth

rvars == <<vars, discarded, cooling, job>>

Step == {"idle", "loaded", "filtered", "entering", "acquiring", "determining", "ready",
         "sending", "refreshing", "condemning", "discarding", "cooling", "evicting",
         "switching", "picking", "switched", "streaming", "leaving", "touring", "touching"}

(* `past' is a history: the accounts leased to the request so far. *)
NoJob == [pc |-> "idle", next |-> "idle", target |-> NoAccount, list |-> << >>,
          acct |-> NoAccount, tried |-> {}, past |-> {}, left |-> 0, strikes |-> 0, resp |-> "none"]

At(r, step) == job[r].pc = step
Become(r, j) == job' = [job EXCEPT ![r] = j]
GoTo(r, step) == job' = [job EXCEPT ![r].pc = step]
Attempts(r) == IF r = Keeper THEN KeeperAttempts ELSE ClientAttempts

(* The rest of the state, for steps that only touch the request itself. *)
Private == UNCHANGED <<vars, discarded, cooling>>

--------------------------------------------------------------------------------
(* Entering the pool: Determine and KeepAliveOnce *)

(* LoadAccountsForAPIKey; an empty list ends the call. *)
Load(r) ==
  LET rows == Without(Listed, discarded) IN
  /\ At(r, "idle")
  /\ \/ rows = << >> /\ UNCHANGED job
     \/ /\ rows # << >>
        /\ \E t \in IF r = Keeper THEN {NoAccount} ELSE Targets :
             Become(r, [NoJob EXCEPT !.pc = "loaded", !.list = rows, !.target = t])
  /\ Private

(* filterCooldownedAccounts: everybody, if nobody is left. *)
Filter(r) ==
  LET healthy == Without(job[r].list, cooling) IN
  /\ At(r, "loaded")
  /\ Become(r, [job[r] EXCEPT !.pc = "filtered",
                              !.list = IF healthy = << >> THEN @ ELSE healthy])
  /\ Private

(* sharedPool; the keep-alive tour keeps the list to walk it. *)
Join(r) ==
  /\ At(r, "filtered")
  /\ SyncAccounts(job[r].list)
  /\ IF r = Keeper THEN GoTo(r, "touring")
                   ELSE Become(r, [job[r] EXCEPT !.pc = "entering", !.list = << >>])
  /\ UNCHANGED <<calls, discarded, cooling>>

(* One round of acquireManagedRequestAuth, which gives up when it has tried *)
(* as many accounts as the pool has.                                        *)
Exhausted(r) == job[r].target = NoAccount /\ Cardinality(job[r].tried) >= Cardinality(lookup)

Enter(r) ==
  /\ At(r, "entering")
  /\ \/ Exhausted(r) /\ Become(r, NoJob) /\ UNCHANGED vars
     \/ /\ ~Exhausted(r)
        /\ BeginWait(r, job[r].target, job[r].tried)
        /\ GoTo(r, "acquiring")
        /\ UNCHANGED <<pool, held, forgotten>>
  /\ UNCHANGED <<discarded, cooling>>

(* The request that has just been given an account. *)
Leased(r, step) ==
  [job[r] EXCEPT !.pc = step, !.acct = held'[r], !.past = @ \cup {held'[r]}]

(* AcquireWait, which leaves with a lease or with nothing. *)
Admitted(r) ==
  /\ At(r, "acquiring") /\ Granted(r)
  /\ Become(r, Leased(r, "determining"))
  /\ UNCHANGED <<discarded, cooling>>

NotAdmitted(r) ==
  /\ At(r, "acquiring") /\ (GiveUp(r) \/ TurnedAway(r) \/ Leave(r))
  /\ Become(r, NoJob)
  /\ UNCHANGED <<discarded, cooling>>

Waiting(r) ==
  /\ At(r, "acquiring") /\ (Enqueue(r) \/ Resume(r) \/ Expire(r))
  /\ UNCHANGED <<discarded, cooling, job>>

TimesOut(r) == Deadline(r) /\ UNCHANGED <<discarded, cooling, job>>

(* Resolver.Release and the releases of the resolver itself: the count of   *)
(* the account the request names goes down, whether it holds a lease or not. *)
ReleaseNamed(r) ==
  /\ Release(job[r].acct)
  /\ held' = [held EXCEPT ![r] = NoAccount]
  /\ Forget({})
  /\ UNCHANGED <<calls, discarded, cooling>>

(* ensureManagedToken, for the account just acquired.  A failure costs the  *)
(* lease; the key is not set yet, so nothing is discarded.                  *)
TokenReady(r) == At(r, "determining") /\ GoTo(r, "ready") /\ Private

TokenFails(r) ==
  /\ At(r, "determining") /\ "login" \in Fault
  /\ Become(r, IF job[r].target # NoAccount THEN NoJob
               ELSE [job[r] EXCEPT !.pc = "entering", !.acct = NoAccount,
                                   !.tried = @ \cup {job[r].acct}])
  /\ ReleaseNamed(r)

--------------------------------------------------------------------------------
(* The completion loop: Client.CallCompletion *)

BadRequestEarly(r) ==  \* mutant: the handler returns before its deferred Release
  At(r, "ready") /\ r # Keeper /\ Become(r, NoJob) /\ Private

(* The request is not well formed: the handler returns through its defer. *)
BadRequest(r) == At(r, "ready") /\ r # Keeper /\ GoTo(r, "leaving") /\ Private

Begin(r) ==
  LET pooled == Cardinality(lookup) IN
  /\ At(r, "ready")
  /\ Become(r, [job[r] EXCEPT !.pc = "sending", !.strikes = 0,
                 !.left = IF pooled > Attempts(r) THEN pooled ELSE Attempts(r)])
  /\ Private

(* `continue': the next attempt, or the error that ends the loop. *)
Again(j) ==
  [j EXCEPT !.left = @ - 1, !.resp = "none",
            !.pc = IF j.left > 1 THEN "sending" ELSE "leaving"]

Answered(r) == At(r, "sending") /\ GoTo(r, "streaming") /\ Private

Unreachable(r) ==
  /\ At(r, "sending") /\ "transport" \in Fault
  /\ LET j == [job[r] EXCEPT !.strikes = @ + 1] IN
     Become(r, IF j.strikes >= Attempts(r) THEN [j EXCEPT !.pc = "leaving"] ELSE Again(j))
  /\ Private

Unauthorized(r) ==
  At(r, "sending") /\ "auth" \in Fault /\ GoTo(r, "refreshing") /\ Private

(* What the body of an error response shows of the account that sent it. *)
Verdicts(a) == IF a \in Banned THEN {"plain", "banned"} ELSE {"plain"}

(* applyAutoDiscard does nothing without a gateway key: the keep-alive loop. *)
Condemns(r, verdict) == verdict = "banned" /\ r # Keeper

Unavailable(r) ==
  /\ At(r, "sending") /\ "unavailable" \in Fault
  /\ \E v \in Verdicts(job[r].acct) :
       Become(r, [job[r] EXCEPT !.resp = v, !.next = "switching",
                                !.pc = IF Condemns(r, v) THEN "condemning" ELSE "cooling"])
  /\ Private

(* The handler reads an error response that is passed on, and classifies it *)
(* for the account the request names by then.                               *)
Deliver(r, verdict) ==
  Become(r, [job[r] EXCEPT !.resp = "none", !.next = "leaving",
                           !.pc = IF Condemns(r, verdict) THEN "discarding" ELSE "leaving"])

Rejected(r) ==
  /\ At(r, "sending") /\ "rejected" \in Fault
  /\ \E v \in Verdicts(job[r].acct) : Deliver(r, v)
  /\ Private

(* A failed login of a banned account says so. *)
LoginFails(r) ==
  /\ "login" \in Fault
  /\ \E v \in Verdicts(job[r].acct) :
       Become(r, [job[r] EXCEPT !.next = "switching",
                                !.pc = IF Condemns(r, v) THEN "discarding" ELSE "switching"])
  /\ Private

(* RefreshToken, after MarkTokenInvalid. *)
Refreshed(r) == At(r, "refreshing") /\ Become(r, Again(job[r])) /\ Private
RefreshFails(r) == At(r, "refreshing") /\ LoginFails(r)

--------------------------------------------------------------------------------
(* Taking an account out of service *)

(* applyAutoDiscard: first the flag in the database, then the pool. *)
Discard(r) ==
  /\ job[r].pc \in {"condemning", "discarding"}
  /\ discarded' = discarded \cup {job[r].acct}
  /\ Become(r, [job[r] EXCEPT !.pc = "evicting", !.tried = @ \cup {job[r].acct}])
  /\ UNCHANGED <<vars, cooling>>

(* The account has no binding in the pool, or the database is busy. *)
DiscardFails(r) ==
  /\ "store" \in Fault
  /\ \/ At(r, "condemning") /\ GoTo(r, "cooling")
     \/ At(r, "discarding") /\ GoTo(r, job[r].next)
  /\ Private

(* MarkAccountCooldown: first the mark, then the pool. *)
Cool(r) ==
  /\ At(r, "cooling")
  /\ cooling' = cooling \cup {job[r].acct}
  /\ GoTo(r, "evicting")
  /\ UNCHANGED <<vars, discarded>>

Evict(r) ==
  /\ At(r, "evicting")
  /\ RemoveAccount(job[r].acct)
  /\ GoTo(r, job[r].next)
  /\ UNCHANGED <<calls, discarded, cooling>>

--------------------------------------------------------------------------------
(* SwitchAccount *)

SwitchForgets(r) ==  \* mutant: the account is not remembered as tried
  At(r, "switching") /\ GoTo(r, "picking") /\ ReleaseNamed(r)

Switch(r) ==
  /\ At(r, "switching")
  /\ Become(r, [job[r] EXCEPT !.pc = "picking", !.tried = @ \cup {job[r].acct}])
  /\ ReleaseNamed(r)

Pick(r) ==
  /\ At(r, "picking")
  /\ Acquire(r, NoAccount, job[r].tried)
  /\ Become(r, Leased(r, "switched"))
  /\ UNCHANGED <<discarded, cooling>>

NoneLeftSends(r) ==  \* mutant: the failed switch is taken for a success
  /\ At(r, "picking")
  /\ Refused(NoAccount, job[r].tried)
  /\ Become(r, Again(job[r]))
  /\ Private

(* No account is left.  The request still names the last one it gave back; *)
(* a 5xx response goes to the client, a failed refresh is an error.        *)
NoneLeft(r) ==
  /\ At(r, "picking")
  /\ Refused(NoAccount, job[r].tried)
  /\ Deliver(r, job[r].resp)
  /\ Private

SwitchReady(r) == At(r, "switched") /\ Become(r, Again(job[r])) /\ Private
SwitchFails(r) == At(r, "switched") /\ LoginFails(r)

--------------------------------------------------------------------------------
(* Leaving *)

Streamed(r) == At(r, "streaming") /\ GoTo(r, "leaving") /\ Private

(* The deferred Release of a handler; that of the keep-alive tour, which    *)
(* goes on to its next account.                                             *)
Finish(r) ==
  /\ At(r, "leaving")
  /\ ReleaseNamed(r)
  /\ Become(r, IF r = Keeper THEN [NoJob EXCEPT !.pc = "touring", !.list = Tail(job[r].list)]
                             ELSE NoJob)

--------------------------------------------------------------------------------
(* KeepAliveOnce: a tour of the accounts that passed the filter *)

Visit ==
  /\ At(Keeper, "touring") /\ job[Keeper].list # << >>
  /\ Acquire(Keeper, Head(job[Keeper].list), {})
  /\ Become(Keeper, Leased(Keeper, "touching"))
  /\ UNCHANGED <<discarded, cooling>>

Skip ==
  /\ At(Keeper, "touring") /\ job[Keeper].list # << >>
  /\ Refused(Head(job[Keeper].list), {})
  /\ Become(Keeper, [job[Keeper] EXCEPT !.list = Tail(@)])
  /\ Private

TouchDrops ==  \* mutant: an account whose login fails is skipped under its lease
  /\ At(Keeper, "touching")
  /\ \/ GoTo(Keeper, "ready")
     \/ "login" \in Fault /\ Become(Keeper, [NoJob EXCEPT !.pc = "touring", !.list = Tail(job[Keeper].list)])
  /\ Private

Touch ==
  /\ At(Keeper, "touching")
  /\ GoTo(Keeper, "ready") \/ ("login" \in Fault /\ GoTo(Keeper, "leaving"))
  /\ Private

(* The list is done, or the 45 minutes of the tour are. *)
EndTour == At(Keeper, "touring") /\ Become(Keeper, NoJob) /\ Private

--------------------------------------------------------------------------------
(* Behaviours *)

(* No pool yet, which acts as an empty one: the first Join creates it. *)
RInit ==
  /\ queue = << >> /\ lookup = {} /\ waiters = << >> /\ forgotten = {}
  /\ inUse = [a \in Account |-> 0]
  /\ call = [r \in Request |-> "idle"]
  /\ args = [r \in Request |-> NoArgs]
  /\ late = [r \in Request |-> FALSE]
  /\ held = [r \in Request |-> NoAccount]
  /\ discarded = {} /\ cooling = {}
  /\ job = [r \in Request |-> NoJob]

(* The steps of a request under way. *)
Determining(r) ==
  \/ Filter(r) \/ Join(r) \/ Enter(r) \/ Admitted(r) \/ NotAdmitted(r) \/ Waiting(r)
  \/ TokenReady(r) \/ TokenFails(r) \/ BadRequest(r) \/ Begin(r)
Completing(r) ==
  \/ Answered(r) \/ Unreachable(r) \/ Unauthorized(r) \/ Unavailable(r) \/ Rejected(r)
  \/ Refreshed(r) \/ RefreshFails(r)
Failover(r) ==
  \/ Discard(r) \/ DiscardFails(r) \/ Cool(r) \/ Evict(r)
  \/ Switch(r) \/ Pick(r) \/ NoneLeft(r) \/ SwitchReady(r) \/ SwitchFails(r)
Touring == Visit \/ Skip \/ Touch \/ EndTour
Leaving(r) == Streamed(r) \/ Finish(r)

Work(r) ==
  \/ Determining(r) \/ Completing(r) \/ Failover(r) \/ Leaving(r) \/ TimesOut(r)
  \/ r = Keeper /\ Touring

(* A cooldown ends after two minutes. *)
Thaw ==
  /\ \E a \in cooling : cooling' = cooling \ {a}
  /\ UNCHANGED <<vars, discarded, job>>

(* The admin UI writes the database and does not know the resolver's pool. *)
Admin ==
  /\ "admin" \in Fault
  /\ \E a \in Account : discarded' \in {discarded \cup {a}, discarded \ {a}}
  /\ UNCHANGED <<vars, cooling, job>>

RNext == Thaw \/ Admin \/ \E r \in Request : Load(r) \/ Work(r)

RSpec == RInit /\ [][RNext]_rvars

(* The scheduler runs every goroutine that can run: a request under way     *)
(* takes its next step sooner or later, and every deadline passes.          *)
RFairSpec ==
  RSpec /\ \A r \in Request : WF_rvars(Work(r)) /\ WF_rvars(TimesOut(r))

--------------------------------------------------------------------------------
(* Properties *)

RTypeOK ==
  /\ TypeOK
  /\ discarded \subseteq Account /\ cooling \subseteq Account
  /\ \A r \in Request :
       /\ job[r].pc \in Step /\ job[r].next \in Step
       /\ job[r].acct \in Account \cup {NoAccount} /\ job[r].tried \cup job[r].past \subseteq Account
       /\ job[r].left \in 0 .. (ClientAttempts + KeeperAttempts + Cardinality(Account))

(* A request holds no lease but that of the account its RequestAuth names,  *)
(* so that the deferred Release of the handler gives it back on every path; *)
(* and one that has returned, with an answer or an error, holds none.       *)
EveryExitReleases ==
  \A r \in Request :
    /\ held[r] # NoAccount => held[r] = job[r].acct
    /\ At(r, "idle") => held[r] = NoAccount /\ call[r] = "idle"

(* The upstream is only ever addressed under a lease of the account whose   *)
(* token is used, through refreshes and switches (CallCompletion).          *)
SendsUnderLease ==
  \A r \in Request :
    job[r].pc \in {"ready", "sending", "refreshing", "streaming"} =>
      held[r] = job[r].acct /\ held[r] # NoAccount

(* Failover makes progress: an account that a request has had and given up  *)
(* is not given to that request again, though others put it back into the   *)
(* pool meanwhile (the TriedAccounts of SwitchAccount and Determine).       *)
NeverRetried ==
  [][\A r \in Request :
       held'[r] # held[r] /\ held'[r] # NoAccount => held'[r] \notin job[r].past]_rvars

(* Every request ends, however many accounts fail: attempts and accounts    *)
(* are finite, and every wait has a deadline.                               *)
RequestsEnd == \A r \in Request : ~At(r, "idle") ~> At(r, "idle")

(* "expected fallback to good account" (request_test.go:317): Determine      *)
(* says that no account is left only when it has tried all of the pool.      *)
FailsOnlyWhenAllTried ==
  [][\A r \in Request :
       At(r, "entering") /\ At(r, "idle")' => lookup \subseteq job[r].tried]_rvars

(* "marks the current pooled account discarded when err indicates mute/ban" *)
(* (discard.go:11): only an account that the upstream banned is discarded.  *)
OnlyBannedDiscarded == discarded \subseteq Banned

================================================================================
