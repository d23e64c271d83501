------------------------------ MODULE AccountTests ------------------------------
(***************************************************************************)
(* Batch tests of pool accounts (internal/poolui) beside requests that     *)
(* refresh their tokens and an operator who changes the pool.  A handler   *)
(* reads the credentials, resets the job row of the key and starts a       *)
(* goroutine; the goroutine waits for the mutex of the key, probes one     *)
(* account after the other and writes what it found.  Every read or write  *)
(* of the database and of the runner is a step of its own.                 *)
(***************************************************************************)
EXTENDS GatewayLogin

CONSTANTS
  Tester,    \* test jobs, each a handler and its goroutine; the other callers are requests
  Orders,    \* what a test may ask for: [named, activeOnly], nobody named for the whole pool
  Operator,  \* what the operator does: see OperatorAssumption
  MaxEvents  \* bound: cancels, refreshes, revocations and operator's changes of one behaviour

Nobody == "nobody"
ASSUME CallerAssumption == Tester \subseteq Caller /\ Nobody \notin Caller
ASSUME OperatorAssumption ==
  Operator \subseteq {"discard", "restore", "remove", "import", "create", "rotate", "delete",
                      "toggle", "restart", "second server"}

VARIABLES
  tester,     \* the test jobs
  holder,     \* the goroutine that holds the mutex of a key, or Nobody
  cancelled,  \* testJobRunner.cancelled
  current,    \* the goroutine whose context testJobRunner.cancel ends, or Nobody
  stopping,   \* keys whose cancel handler is between its two steps
  disturbed,  \* history: jobs whose row others have touched or which failed to write it
  torn,       \* history: keys whose row a job failed to end, until it is written anew
  health,     \* what the upstream answers for an account: "fine", "muted" or "banned"
  events      \* how often something came from outside, up to MaxEvents

runnerVars == <<holder, cancelled, current, stopping>>
vars == <<tables, loginVars, tester, runnerVars, disturbed, torn, health, events>>

Request == Caller \ Tester

Unused == [pc |-> "unused", key |-> AdminKey, creds |-> << >>, at |-> 0,
           done |-> 0, ok |-> 0, failed |-> 0, skipped |-> 0,
           token |-> NoSession, why |-> NoText, cut |-> FALSE]

Ended == [Unused EXCEPT !.pc = "gone"]

Init ==
  /\ DatabaseInit /\ LoginInit
  /\ tester = [t \in Tester |-> Unused]
  /\ holder = [k \in Key |-> Nobody] /\ current = [k \in Key |-> Nobody]
  /\ cancelled = [k \in Key |-> FALSE]
  /\ stopping = {} /\ disturbed = {} /\ torn = {} /\ events = 0
  /\ health = [a \in Account |-> "fine"]

At(t, pc) == tester[t].pc = pc
Become(t, job) == tester' = [tester EXCEPT ![t] = job]
GoTo(t, pc) == Become(t, [tester[t] EXCEPT !.pc = pc])
Cred(t) == tester[t].creds[tester[t].at]

(* Between the reset of the row and the end of the goroutine. *)
Alive(t) == tester[t].pc \notin {"unused", "listed", "gone"}
OthersOf(t, k) == {u \in Tester \ {t} : Alive(u) /\ tester[u].key = k}
Quiet == UNCHANGED <<tables, loginVars, runnerVars, disturbed, torn>>
RunnersQuiet == UNCHANGED <<loginVars, runnerVars, disturbed, torn>>

--------------------------------------------------------------------------------
(* The handlers *)

(* startAccountTestJob and testOneAccount up to the list of credentials. *)
List(t, k, named, activeOnly) ==
  LET creds == ListPoolAccountCredentials(k, named, activeOnly) IN
  /\ At(t, "unused")
  /\ creds # << >>
  /\ Become(t, [Unused EXCEPT !.pc = "listed", !.key = k, !.creds = creds])
  /\ Quiet

(* beginAccountTest: whatever job of this key is under way, its row is reset.   *)
(* A write that is refused is answered; there is no goroutine then.             *)
Begin(t) ==
  LET k == tester[t].key IN
  /\ At(t, "listed")
  /\ \/ /\ Exists(k)
        /\ StartAccountTestJob(k, Len(tester[t].creds))
        /\ GoTo(t, "queued")
        /\ disturbed' = IF OthersOf(t, k) # {} THEN disturbed \cup {t} \cup OthersOf(t, k)
                        ELSE disturbed
        /\ torn' = torn \ {k}
     \/ /\ ~Exists(k) \/ "store" \in Fault
        /\ Become(t, Ended)
        /\ UNCHANGED <<tables, disturbed, torn>>
  /\ UNCHANGED <<loginVars, runnerVars>>

(* cancelAccountTestJob calls testJobRunner.stop, the flag first and the        *)
(* context second, and answers "idle" whatever the job does.                    *)
RaiseFlag(k) ==
  /\ k \notin stopping /\ \E t \in Tester : tester[t].key = k /\ Alive(t)
  /\ stopping' = stopping \cup {k}
  /\ cancelled' = [cancelled EXCEPT ![k] = TRUE]
  /\ UNCHANGED <<tables, loginVars, tester, holder, current, disturbed, torn>>

EndContext(k) ==
  /\ k \in stopping
  /\ stopping' = stopping \ {k}
  /\ gone' = IF current[k] = Nobody THEN gone ELSE gone \cup {current[k]}
  /\ UNCHANGED <<tables, login, live, mails, signIns, tester, holder, cancelled, current, disturbed, torn>>

--------------------------------------------------------------------------------
(* The goroutine: runPersistedAccountTests *)

(* The mutex of the key, then testJobRunner.start: a cancel before it is forgotten. *)
Lock(t) ==
  LET k == tester[t].key IN
  /\ At(t, "queued") /\ holder[k] = Nobody
  /\ GoTo(t, "next")
  /\ holder' = [holder EXCEPT ![k] = t] /\ current' = [current EXCEPT ![k] = t]
  /\ cancelled' = [cancelled EXCEPT ![k] = FALSE]
  /\ UNCHANGED <<tables, loginVars, stopping, disturbed, torn>>

Stopped(t) == t \in gone \/ cancelled[tester[t].key]

(* The loop of runAccountTestsWithProgress. *)
NextAccount(t) ==
  LET i == tester[t].at + 1
      job == [tester[t] EXCEPT !.at = i, !.cut = FALSE, !.why = NoText, !.token = NoSession]
  IN
  /\ At(t, "next")
  /\ IF Stopped(t) \/ i > Len(tester[t].creds) THEN GoTo(t, "ending") /\ UNCHANGED login
     ELSE LET cred == tester[t].creds[i] IN
       IF cred.session = NoSession
       THEN Become(t, [job EXCEPT !.pc = "recording", !.why = "skipped"]) /\ UNCHANGED login
       ELSE IF cred.token # NoSession
       THEN Become(t, [job EXCEPT !.pc = "chatting", !.token = cred.token]) /\ UNCHANGED login
       ELSE Become(t, [job EXCEPT !.pc = "logging"]) /\ BeginLogin(t, cred.acct, cred.session)
  /\ UNCHANGED <<tables, gone, live, mails, signIns, runnerVars, disturbed, torn>>

(* probeGLChat: what the upstream makes of a token.  401 and 403 are told without *)
(* their body, which then names nothing; the body of any other status is told.    *)
ChatAnswers(t) ==
  (IF t \in gone THEN {"cancelled"}
   ELSE {IF tester[t].token \in live THEN health[Cred(t).acct] ELSE "refused"})
  \cup ({"transport"} \cap Fault) \cup (IF "forbidden chat" \in Fault THEN {"forbidden"} ELSE {})

(* The first probe; whatever it fails with, the account is logged in anew. *)
Chat(t) ==
  /\ At(t, "chatting")
  /\ \E answer \in ChatAnswers(t) :
       IF answer = "fine" THEN GoTo(t, "passed") /\ UNCHANGED login
       ELSE GoTo(t, "logging") /\ BeginLogin(t, Cred(t).acct, Cred(t).session)
  /\ UNCHANGED <<tables, gone, live, mails, signIns, runnerVars, disturbed, torn>>

(* Login has come back to the probe. *)
Logged(t) ==
  /\ At(t, "logging") /\ login[t].pc \in {"granted", "failed"}
  /\ Become(t, IF LoginAt(t, "granted")
               THEN [tester[t] EXCEPT !.pc = "rechatting", !.token = login[t].session]
               ELSE [tester[t] EXCEPT !.pc = "failed", !.why = login[t].text,
                                      !.cut = login[t].text = "cancelled"])
  /\ Update(t, NoLogin)
  /\ UNCHANGED <<tables, gone, live, mails, signIns, runnerVars, disturbed, torn>>

Rechat(t) ==
  /\ At(t, "rechatting")
  /\ \E answer \in ChatAnswers(t) :
       Become(t, IF answer = "fine" THEN [tester[t] EXCEPT !.pc = "passed"]
                 ELSE [tester[t] EXCEPT !.pc = "failed", !.why = answer,
                                        !.cut = answer = "cancelled"])
  /\ UNCHANGED tables /\ RunnersQuiet

(* isMutedSignal, isBannedSignal: the words that tell, "forbidden" among them. *)
MutedSignal(why) == why = "muted"
BannedSignal(why) == why \in {"banned", "forbidden"}

(* ClassifyLoginError: a reason to retire the account, or none. *)
ClassifyAny(why) ==  \* mutant: every failure but the network's is a ban
  CASE why = "muted" -> "muted" [] why \in {"transport", "cancelled"} -> NoText [] OTHER -> "banned"
ClassifyLoginError(why) ==
  CASE MutedSignal(why) -> "muted" [] BannedSignal(why) -> "banned" [] OTHER -> NoText

(* SetAccountPoolState under the context of the job. *)
TrySetPoolState(t, discarded, reason) ==
  \/ t \notin gone /\ SetAccountPoolState(tester[t].key, Cred(t).acct, discarded, reason)
  \/ /\ t \in gone \/ ~IsBound(tester[t].key, Cred(t).acct) \/ "store" \in Fault
     /\ UNCHANGED tables

Condemn(t) ==
  LET reason == ClassifyLoginError(tester[t].why) IN
  /\ At(t, "failed")
  /\ IF reason = NoText THEN UNCHANGED tables ELSE TrySetPoolState(t, TRUE, reason)
  /\ GoTo(t, "recording")
  /\ RunnersQuiet

KeepToken(t) ==
  /\ At(t, "passed")
  /\ \/ t \notin gone /\ UpdateAccountToken(Cred(t).acct, tester[t].token)
     \/ (t \in gone \/ "store" \in Fault) /\ UNCHANGED tables
  /\ GoTo(t, "restoring")
  /\ RunnersQuiet

Restore(t) ==
  /\ At(t, "restoring")
  /\ TrySetPoolState(t, FALSE, NoText)
  /\ Become(t, [tester[t] EXCEPT !.pc = "recording", !.why = "fine"])
  /\ RunnersQuiet

(* The tally, and the check at the head of onProgress. *)
Tallied(job) ==
  [job EXCEPT !.done = @ + 1,
              !.ok = IF job.why = "fine" THEN @ + 1 ELSE @,
              !.skipped = IF job.why = "skipped" THEN @ + 1 ELSE @,
              !.failed = IF job.why \in {"fine", "skipped"} THEN @ ELSE @ + 1]

Record(t) ==
  /\ At(t, "recording")
  /\ Become(t, [Tallied(tester[t]) EXCEPT
                  !.pc = IF cancelled[tester[t].key] THEN "next" ELSE "posting"])
  /\ Quiet

Result(t) == [acct |-> Cred(t).acct, why |-> tester[t].why, cut |-> tester[t].cut]

(* The error of a refused write is dropped: the result is lost, the job goes on. *)
Post(t) ==
  /\ At(t, "posting")
  /\ \/ /\ UpdateAccountTestJobProgress(tester[t].key, Result(t), tester[t])
        /\ UNCHANGED disturbed
     \/ /\ "store" \in Fault
        /\ disturbed' = disturbed \cup {t}
        /\ UNCHANGED tables
  /\ GoTo(t, "next")
  /\ UNCHANGED <<loginVars, runnerVars, torn>>

(* The end: cancelled jobs leave an idle row, the others a completed one. *)
EndIf(t, stopped) ==
  /\ At(t, "ending")
  /\ GoTo(t, IF stopped THEN "resetting" ELSE "closing")
  /\ Quiet
EndByFlag(t) == EndIf(t, cancelled[tester[t].key])  \* mutant: the context is not asked
EndBlind(t) ==  \* mutant: a cancelled job leaves its row alone
  /\ At(t, "ending")
  /\ GoTo(t, IF Stopped(t) THEN "leaving" ELSE "closing")
  /\ Quiet
End(t) == EndIf(t, Stopped(t))

(* The last write is refused and its error dropped: the row stays as it is. *)
TearRow(t) ==
  /\ "store" \in Fault
  /\ disturbed' = disturbed \cup {t}
  /\ torn' = torn \cup {tester[t].key}
  /\ UNCHANGED tables

ResetRow(t) ==
  LET k == tester[t].key IN
  /\ At(t, "resetting")
  /\ \/ /\ ResetAccountTestJob(k)
        /\ disturbed' = disturbed \cup OthersOf(t, k)
        /\ torn' = torn \ {k}
     \/ TearRow(t)
  /\ GoTo(t, "leaving")
  /\ UNCHANGED <<loginVars, runnerVars>>

Finish(t) ==
  /\ At(t, "closing")
  /\ \/ /\ FinishAccountTestJob(tester[t].key, tester[t])
        /\ UNCHANGED <<disturbed, torn>>
     \/ TearRow(t)
  /\ GoTo(t, "leaving")
  /\ UNCHANGED <<loginVars, runnerVars>>

(* clear, then the mutex. *)
LeaveLocked(t) ==  \* mutant: the mutex is kept
  /\ At(t, "leaving")
  /\ Become(t, Ended)
  /\ current' = [current EXCEPT ![tester[t].key] = Nobody]
  /\ cancelled' = [cancelled EXCEPT ![tester[t].key] = FALSE]
  /\ UNCHANGED <<tables, loginVars, holder, stopping, disturbed, torn>>
Leave(t) ==
  /\ At(t, "leaving")
  /\ Become(t, Ended)
  /\ holder' = [holder EXCEPT ![tester[t].key] = Nobody]
  /\ current' = [current EXCEPT ![tester[t].key] = Nobody]
  /\ cancelled' = [cancelled EXCEPT ![tester[t].key] = FALSE]
  /\ UNCHANGED <<tables, loginVars, stopping, disturbed, torn>>

TesterStep(t) ==
  \/ Begin(t) \/ Lock(t) \/ NextAccount(t) \/ Chat(t) \/ Logged(t) \/ Rechat(t) \/ Condemn(t)
  \/ KeepToken(t) \/ Restore(t) \/ Record(t) \/ Post(t) \/ End(t) \/ ResetRow(t)
  \/ Finish(t) \/ Leave(t)

--------------------------------------------------------------------------------
(* A request renews the token of its account: Resolver.RefreshToken *)

TestsQuiet == UNCHANGED <<gone, live, mails, signIns, tester, runnerVars, disturbed, torn>>

(* The credentials of the request are those of the moment it was given its account. *)
Load(p) ==
  /\ LoginAt(p, "none")
  /\ \E a \in LoadAccountsForAPIKey(AdminKey) :
       Update(p, [NoLogin EXCEPT !.pc = "holding", !.acct = a, !.held = rows[a].session])
  /\ UNCHANGED tables /\ TestsQuiet

Refresh(p) ==
  /\ LoginAt(p, "holding")
  /\ ClearAccountToken(login[p].acct)
  /\ BeginLogin(p, login[p].acct, login[p].held)
  /\ TestsQuiet

(* The token is stored, or the failure may retire the account. *)
Refreshed(p) ==
  LET l == login[p]
      reason == ClassifyLoginError(l.text)
  IN
  /\ l.pc \in {"granted", "failed"}
  /\ \/ l.pc = "granted" /\ UpdateAccountToken(l.acct, l.session)
     \/ /\ l.pc = "failed"
        /\ IF reason # NoText /\ IsBound(AdminKey, l.acct)
           THEN SetAccountPoolState(AdminKey, l.acct, TRUE, reason) ELSE UNCHANGED tables
  /\ Update(p, [NoLogin EXCEPT !.pc = "holding", !.acct = l.acct, !.held = l.held])
  /\ TestsQuiet

--------------------------------------------------------------------------------
(* The operator, and the processes *)

PoolOnly == UNCHANGED <<loginVars, tester, runnerVars, disturbed, torn>>

SetDiscarded(k, accounts) ==
  /\ \/ "discard" \in Operator /\ SetPoolState(k, accounts, TRUE, "manual")
     \/ "restore" \in Operator /\ SetPoolState(k, accounts, FALSE, NoText)
  /\ PoolOnly

RemoveAccounts(k, accounts) == "remove" \in Operator /\ RemoveFromPool(k, accounts) /\ PoolOnly

(* Rows and items of a file are imported one after the other, each by a call of *)
(* its own.  A JSON item without credentials is refused; the password of a CSV  *)
(* row or a form sets none, unless it is JSON itself, and is then such an item. *)
ImportJSON(k, a, session) ==
  session # NoSession /\ "import" \in Operator /\ AddAccountToPool(k, a, session) /\ PoolOnly
ImportCSV(k, a) == "import" \in Operator /\ AddAccountToPool(k, a, NoSession) /\ PoolOnly

CreateKey(k) == "create" \in Operator /\ CreateGatewayKey(k) /\ PoolOnly

ToggleKey(k) ==
  /\ "toggle" \in Operator
  /\ UpdateGatewayKeyMeta(k, IF keys[k] = "enabled" THEN "disabled" ELSE "enabled")
  /\ PoolOnly

(* The test job of a key that goes or is renamed loses its row. *)
LoseRow(k) ==
  /\ disturbed' = disturbed \cup {t \in Tester : tester[t].key = k}
  /\ torn' = torn \ {k}
  /\ UNCHANGED <<loginVars, tester, runnerVars>>

RotateKey(old, new) == "rotate" \in Operator /\ RotateGatewayAPIKey(old, new) /\ LoseRow(old)
DeleteKey(k) == "delete" \in Operator /\ DeleteGatewayKey(k) /\ LoseRow(k)

(* NewServer: rows left running by an earlier process are reset.  A restart *)
(* ends every goroutine; a pool UI started beside the gateway does not.     *)
Running == {k \in Key : jobs[k].status = "running"}

Restart ==
  /\ "restart" \in Operator
  /\ \E t \in Tester : Alive(t)
  /\ ResetAllRunningAccountTestJobs /\ torn' = torn \ Running
  /\ tester' = [t \in Tester |-> IF At(t, "unused") THEN Unused ELSE Ended]
  /\ login' = [p \in Caller |-> NoLogin]
  /\ holder' = [k \in Key |-> Nobody] /\ current' = [k \in Key |-> Nobody]
  /\ cancelled' = [k \in Key |-> FALSE] /\ stopping' = {}
  /\ UNCHANGED <<gone, live, mails, signIns, disturbed>>

SecondServer ==
  /\ "second server" \in Operator
  /\ ResetAllRunningAccountTestJobs /\ torn' = torn \ Running
  /\ disturbed' = disturbed \cup {t \in Tester : Alive(t)}
  /\ UNCHANGED <<loginVars, tester, runnerVars>>

ManageKeys ==
  \E k \in Key :
    \/ CreateKey(k) \/ ToggleKey(k) \/ DeleteKey(k)
    \/ \E new \in Key : RotateKey(k, new)

ManageAccounts ==
  \E k \in {k \in Key : Exists(k)} :
    \/ \E accounts \in SUBSET Account \ {{}} :
         \/ SetDiscarded(k, accounts)
         \/ RemoveAccounts(k, accounts)
    \/ \E a \in Account : ImportCSV(k, a) \/ \E session \in live : ImportJSON(k, a, session)

(* The upstream mutes or bans an account, for good. *)
Judge(a) ==
  /\ health[a] = "fine"
  /\ \E verdict \in {"muted", "banned"} : health' = [health EXCEPT ![a] = verdict]
  /\ UNCHANGED <<tables, loginVars, tester, runnerVars, disturbed, torn>>

TestLogin(p) == LoginStep(p) /\ UNCHANGED <<tester, runnerVars, disturbed, torn>>

(* What jobs and logins do by themselves, and what comes from outside. *)
Internal ==
  \/ \E t \in Tester :
       \/ \E k \in Key, order \in Orders : List(t, k, order.named, order.activeOnly)
       \/ TesterStep(t)
  \/ \E k \in Key : EndContext(k)
  \/ \E p \in Caller : TestLogin(p)
  \/ \E p \in Request : Load(p) \/ Refreshed(p)
  \/ MailArrives /\ UNCHANGED <<tester, runnerVars, disturbed, torn>>

External ==
  \/ \E k \in Key : RaiseFlag(k)
  \/ \E p \in Request : Refresh(p)
  \/ Revoke /\ UNCHANGED <<tester, runnerVars, disturbed, torn>>
  \/ ManageKeys \/ ManageAccounts
  \/ Restart \/ SecondServer

Next ==
  \/ Internal /\ UNCHANGED <<health, events>>
  \/ /\ (External /\ UNCHANGED health) \/ (\E a \in Account : Judge(a))
     /\ events < MaxEvents /\ events' = events + 1

(* Goroutines run; every call of the HTTP client ends within its timeout and *)
(* the wait for a mail within two minutes.                                   *)
Fairness ==
  /\ \A t \in Tester : WF_vars(TesterStep(t) /\ UNCHANGED <<health, events>>)
  /\ \A p \in Caller : WF_vars(TestLogin(p) /\ UNCHANGED <<health, events>>)

Spec == Init /\ [][Next]_vars /\ Fairness

--------------------------------------------------------------------------------
(* Properties *)

(* Every record keeps its shape: rows of the database, test jobs, logins and *)
(* runners, whatever handlers, goroutines and operator write.                *)
TypeOK ==
  /\ \A k \in Key : keys[k] \in KeyState /\ jobs[k].status \in JobStatus
  /\ \A a \in Account : rows[a].reason \in Reason
  /\ LoginTypeOK
  /\ \A k \in Key : holder[k] \in Tester \cup {Nobody} /\ current[k] \in Tester \cup {Nobody}
  /\ stopping \subseteq Key /\ disturbed \subseteq Tester /\ torn \subseteq Key

(* A row that says "running" has a goroutine behind it that will end it,    *)
(* however jobs overlap, are cancelled, lose their key or die with the      *)
(* process: the pool UI waits for a job that nobody runs only if the last   *)
(* write of a job failed.  Its error is dropped (test_jobs.go:73, 78, 81),  *)
(* and the row stays until the next start of a job or of the process.       *)
RunningIsBacked ==
  \A k \in Key : jobs[k].status = "running" /\ k \notin torn =>
                 \E t \in Tester : Alive(t) /\ tester[t].key = k

(* A probe cut short by a cancel is no result: a completed job never shows   *)
(* an account as failed because somebody pressed "stop".  A cancel may meet  *)
(* the start of the job between its two halves, so that the context ends and *)
(* the flag is down; the end of the job has to ask both.  Only when the      *)
(* reset of a cancelled job failed may a job behind it end the row it left.  *)
NoCancelledResults ==
  \A k \in Key : jobs[k].status = "completed" /\ k \notin torn =>
    \A i \in DOMAIN jobs[k].results : ~jobs[k].results[i].cut

(* The row of a job that nobody disturbed and whose writes all went through *)
(* tells exactly what the job did: one result per account in the order of   *)
(* the pool, and counts that agree.  A write that fails costs the result or *)
(* the end of the job, and nobody is told (test_jobs.go:69, 81).            *)
Of(results, whys) == Cardinality({i \in DOMAIN results : results[i].why \in whys})
LoneJobIsExact ==
  [][\A t \in Tester : At(t, "closing") /\ tester'[t].pc = "leaving" /\ t \notin disturbed' =>
       LET row == jobs'[tester[t].key]  creds == tester[t].creds IN
       /\ row.status = "completed"
       /\ [i \in DOMAIN row.results |-> row.results[i].acct] = [i \in DOMAIN creds |-> creds[i].acct]
       /\ row.total = Len(creds) /\ row.done = Len(creds)
       /\ row.ok = Of(row.results, {"fine"}) /\ row.skipped = Of(row.results, {"skipped"})
       /\ row.ok + row.failed + row.skipped = row.done]_vars

(* An account is retired as muted or banned only if that is what the        *)
(* upstream says of it; a failed login, a lost session or the network never *)
(* does it (probe.go:228, discard.go:11).                                   *)
RetiredRightly == \A a \in Account : rows[a].discarded /\ rows[a].reason \in {"muted", "banned"}
                                       => rows[a].reason = health[a]

(* A sign-in that follows a link comes back with a session of its own, even *)
(* while others sign in to the same account: it never uses up a link that   *)
(* was sent for another one.                                                *)
OwnSession == \A p \in Caller : login[p].text # "no session"

(* Every test job ends, whatever logins, cancels and other jobs do, unless  *)
(* the write that ends it fails: nothing tries it again.                    *)
JobsEnd == \A k \in Key : jobs[k].status = "running" ~> jobs[k].status # "running" \/ k \in torn
================================================================================
