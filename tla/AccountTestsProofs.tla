--------------------------- MODULE AccountTestsProofs ---------------------------
(***************************************************************************)
(* Proofs about account tests, for any keys, accounts, jobs, requests and  *)
(* faults, and any number of cancels, restarts and changes by the operator *)
(* in any order.                                                           *)
(***************************************************************************)
EXTENDS AccountTests, SequenceLemmas

--------------------------------------------------------------------------------
(* Types *)

Row == [here : BOOLEAN, session : Nat, token : Nat, discarded : BOOLEAN, reason : Reason]
Credential == [acct : Account, session : Nat, token : Nat]

(* What a login may say, and what a probe may. *)
Text == {NoText, "missing", "refused", "forbidden", "cancelled", "transport", "lost"}
Why == Text \cup {"fine", "skipped", "muted", "banned"}

Shown == [acct : Account, why : Why, cut : BOOLEAN]
JobRow == [status : JobStatus, total : Nat, done : Nat, ok : Nat, failed : Nat, skipped : Nat,
           results : Seq(Shown)]

LoginPc == {"none", "holding", "asking", "signing", "mailing", "activating", "storing", "granted",
            "failed"}
LoginRecord == [pc : LoginPc, acct : Account \cup {NoText}, session : Nat, sid : Nat, link : Nat,
                text : Text, held : Nat]

(* Where a job has an account in hand, where it holds the mutex of its key, *)
(* and where it is under way.                                               *)
Probing == {"chatting", "logging", "rechatting", "passed", "failed", "restoring", "recording", "posting"}
Locked == Probing \cup {"next", "ending", "resetting", "closing", "leaving"}
Underway == Locked \cup {"queued"}

TestJob == [pc : Underway \cup {"unused", "listed", "gone"}, key : Key, creds : Seq(Credential),
            at : Nat, done : Nat, ok : Nat, failed : Nat, skipped : Nat,
            token : Nat, why : Why, cut : BOOLEAN]

DatabaseTyped ==
  /\ keys \in [Key -> KeyState]
  /\ rows \in [Account -> Row]
  /\ bound \in [Key -> Seq(Account)]
  /\ jobs \in [Key -> JobRow]

(* A job with an account in hand is inside its list. *)
JobTyped(j) == j \in TestJob /\ (j.pc \in Probing => j.at \in 1 .. Len(j.creds))

JobsTyped == tester \in [Tester -> TestJob] /\ \A t \in Tester : JobTyped(tester[t])

RunnersTyped ==
  /\ holder \in [Key -> Tester \cup {Nobody}] /\ current \in [Key -> Tester \cup {Nobody}]
  /\ cancelled \in [Key -> BOOLEAN]
  /\ stopping \subseteq Key /\ disturbed \subseteq Tester /\ torn \subseteq Key
  /\ health \in [Account -> {"fine", "muted", "banned"}]

TestsTyped == JobsTyped /\ RunnersTyped

(* The empty text is none of the others. *)
LEMMA NoTextFacts ==
  NoText \notin {"missing", "refused", "forbidden", "cancelled", "transport", "lost", "fine", "skipped",
                 "manual", "muted", "banned", "no session"}
BY DEF NoText

--------------------------------------------------------------------------------
(* The inductive invariant *)

(* A sign-in has a number of its own from the moment its mail is asked for, *)
(* and only a link of that number is ever followed.                         *)
LoginOk(l, n) ==
  /\ l \in LoginRecord
  /\ l.pc # "none" => l.acct \in Account
  /\ l.sid \in 0 .. n
  /\ l.pc \in {"mailing", "activating", "storing"} => l.sid > 0
  /\ l.pc = "activating" => l.link = l.sid

LoginsSound ==
  /\ login \in [Caller -> LoginRecord]
  /\ \A p \in Caller : LoginOk(login[p], signIns) /\ (login[p].text = "cancelled" => p \in gone)
  /\ \A p, q \in Caller : p # q /\ login[p].sid > 0 => login[p].sid # login[q].sid
  /\ gone \subseteq Caller
  /\ signIns \in 0 .. MaxSignIns /\ live \subseteq 1 .. signIns

(* A key that is gone has no job row, and a row without a job no results. *)
RowsFollowKeys ==
  \A k \in Key :
    /\ ~Exists(k) => jobs[k].status = "missing"
    /\ jobs[k].status \in {"missing", "idle"} => jobs[k].results = << >>

(* The mutex of a key is held by the one job of the key that is past Lock. *)
MutexHeld ==
  /\ \A t \in Tester : tester[t].pc \in Locked => holder[tester[t].key] = t
  /\ \A k \in Key : holder[k] # Nobody =>
       tester[holder[k]].pc \in Locked /\ tester[holder[k]].key = k

(* A probe is cut short by the end of its context only, and what it left in *)
(* the row goes before the job does, unless the job failed to reset it.     *)
HasCut(k) == \E i \in DOMAIN jobs[k].results : jobs[k].results[i].cut
CutsAreReset ==
  /\ \A t \in Tester : tester[t].cut => t \in gone
  /\ \A k \in Key : HasCut(k) /\ k \notin torn =>
       /\ jobs[k].status = "running"
       /\ holder[k] # Nobody /\ holder[k] \in gone
       /\ tester[holder[k]].pc \in Locked \ {"closing", "leaving"}

(* Behind a running row is a job that has not yet ended it, or one failed to. *)
Backed ==
  \A k \in Key : jobs[k].status = "running" /\ k \notin torn =>
    \E t \in Tester : tester[t].pc \in Underway \ {"leaving"} /\ tester[t].key = k

(* A verdict that a job carries is the upstream's, and so is that of a row: *)
(* where no refusal says "forbidden", none is read out of a failed login.   *)
Tells(reason, verdict) == reason \in {"muted", "banned"} => reason = verdict
NothingForbidden ==
  /\ \A p \in Caller : login[p].text # "forbidden"
  /\ \A t \in Tester : tester[t].why # "forbidden"
VerdictsTold ==
  /\ \A t \in Tester : tester[t].pc \in Probing => Tells(tester[t].why, health[Cred(t).acct])
  /\ \A a \in Account : rows[a].discarded => Tells(rows[a].reason, health[a])

(* What the row of an undisturbed job shows: the first n accounts of its list, *)
(* each with its result, and the counts of the job; a result that is not yet   *)
(* posted is counted by the job only.                                          *)
Exact(row, creds, n) ==
  /\ row.status = "running" /\ row.total = Len(creds)
  /\ row.done = n /\ Len(row.results) = n /\ n <= Len(creds)
  /\ \A i \in 1 .. n : row.results[i].acct = creds[i].acct
  /\ row.ok = Of(row.results, {"fine"}) /\ row.skipped = Of(row.results, {"skipped"})
  /\ row.ok + row.failed + row.skipped = n

SameCounts(row, j) ==
  row.done = j.done /\ row.ok = j.ok /\ row.failed = j.failed /\ row.skipped = j.skipped

Counted(row, why, j) ==
  /\ j.done = row.done + 1
  /\ j.ok = IF why = "fine" THEN row.ok + 1 ELSE row.ok
  /\ j.skipped = IF why = "skipped" THEN row.skipped + 1 ELSE row.skipped
  /\ j.failed = IF why \in {"fine", "skipped"} THEN row.failed ELSE row.failed + 1

Shows(row, j) ==
  /\ j.pc = "queued" => j.at = 0 /\ Exact(row, j.creds, 0) /\ SameCounts(row, j)
  /\ j.pc \in Probing \ {"posting"} => Exact(row, j.creds, j.at - 1) /\ SameCounts(row, j)
  /\ j.pc = "posting" => Exact(row, j.creds, j.at - 1) /\ Counted(row, j.why, j)
  /\ j.pc = "closing" => Exact(row, j.creds, Len(j.creds)) /\ SameCounts(row, j)

(* Between two accounts, as long as nobody stops the job. *)
ShowsAll(row, j) ==
  /\ j.pc \in {"next", "ending"} => Exact(row, j.creds, j.at) /\ SameCounts(row, j)
  /\ j.pc = "ending" => j.at = Len(j.creds)

Alone(t) == \A u \in Tester \ {t} : Alive(u) => tester[u].key # tester[t].key

Followed(t) ==
  /\ Exists(tester[t].key) /\ Alone(t)
  /\ Shows(jobs[tester[t].key], tester[t])
  /\ Stopped(t) \/ ShowsAll(jobs[tester[t].key], tester[t])

LoneJobsFollowed ==
  \A t \in Tester :
    /\ tester[t].pc = "listed" => tester[t].at = 0 /\ SameCounts(Unused, tester[t])
    /\ tester[t].pc \in Underway \ {"leaving"} => t \in disturbed \/ Followed(t)

TablesOk == DatabaseTyped /\ RowsFollowKeys

--------------------------------------------------------------------------------
(* The operations of the database *)

LEMMA KeySteps ==
  ASSUME TablesOk, NEW k \in Key, NEW n \in Key, NEW state \in {"enabled", "disabled"},
         CreateGatewayKey(k) \/ UpdateGatewayKeyMeta(k, state) \/ DeleteGatewayKey(k)
           \/ RotateGatewayAPIKey(k, n)
  PROVE  TablesOk'
<1> USE DEF TablesOk, DatabaseTyped, RowsFollowKeys, Exists, KeyState
<1>1. CASE CreateGatewayKey(k) \/ UpdateGatewayKeyMeta(k, state)
  BY <1>1 DEF CreateGatewayKey, UpdateGatewayKeyMeta
<1>2. Job("missing", 0) \in JobRow /\ << >> \in Seq(Account)
  BY EmptySeq DEF Job, JobRow, JobStatus
<1>3. CASE DeleteGatewayKey(k)
  BY <1>2, <1>3 DEF DeleteGatewayKey, Job
<1>4. CASE RotateGatewayAPIKey(k, n)
  BY <1>2, <1>4 DEF RotateGatewayAPIKey, Job
<1> QED BY <1>1, <1>3, <1>4

LEMMA AccountSteps ==
  ASSUME TablesOk, NEW k, NEW a, NEW A, NEW s, NEW d, NEW reason,
         \/ k \in Key /\ a \in Account /\ s \in Nat /\ AddAccountToPool(k, a, s)
         \/ k \in Key /\ RemoveFromPool(k, A)
         \/ d \in BOOLEAN /\ reason \in Reason /\ SetPoolState(k, A, d, reason)
         \/ a \in Account /\ s \in Nat /\ UpdateAccountToken(a, s)
         \/ a \in Account /\ ClearAccountToken(a)
         \/ a \in Account /\ s \in Nat /\ UpdateAccountClerkCredentials(a, s)
  PROVE  TablesOk'
<1>1. CASE k \in Key /\ a \in Account /\ s \in Nat /\ AddAccountToPool(k, a, s)
  <2> DEFINE v == [rows[a] EXCEPT !.here = TRUE, !.discarded = FALSE,
                                  !.session = IF s = NoSession THEN rows[a].session ELSE s]
  <2>1. rows' = [rows EXCEPT ![a] = v] /\ UNCHANGED <<keys, jobs>>
    BY <1>1 DEF AddAccountToPool
  <2>2. rows[a] \in Row
    BY <1>1 DEF TablesOk, DatabaseTyped
  <2>3. v \in Row
    BY <1>1, <2>2 DEF Row
  <2> HIDE DEF v
  <2>4. Append(bound[k], a) \in Seq(Account)
    BY <1>1, AppendProperties DEF TablesOk, DatabaseTyped
  <2>5. bound' \in [Key -> Seq(Account)]
    BY <1>1, <2>4 DEF AddAccountToPool, TablesOk, DatabaseTyped
  <2> QED BY <2>1, <2>3, <2>5 DEF TablesOk, DatabaseTyped, RowsFollowKeys, Exists
<1> USE DEF TablesOk, DatabaseTyped, RowsFollowKeys, Exists
<1>0. a \in Account => rows[a] \in Row
  OBVIOUS
<1>2. CASE k \in Key /\ RemoveFromPool(k, A)
  <2>1. Without(bound[k], A) \in Seq(Account)
    BY <1>2, WithoutFacts
  <2> QED BY <1>2, <2>1 DEF RemoveFromPool
<1>3. CASE d \in BOOLEAN /\ reason \in Reason /\ SetPoolState(k, A, d, reason)
  <2>1. rows' \in [Account -> Row]
    BY <1>3 DEF SetPoolState, Reason, Row
  <2> QED BY <1>3, <2>1 DEF SetPoolState
<1>4. ASSUME a \in Account, NEW v \in Row, rows' = [rows EXCEPT ![a] = v], UNCHANGED <<keys, bound, jobs>>
      PROVE  TablesOk'
  BY <1>4
<1>5. CASE a \in Account /\ ((s \in Nat /\ UpdateAccountToken(a, s)) \/ ClearAccountToken(a))
  <2>1. PICK x \in Nat : rows' = [rows EXCEPT ![a].token = x]
    BY <1>5 DEF UpdateAccountToken, ClearAccountToken, NoSession
  <2>2. rows' = [rows EXCEPT ![a] = [rows[a] EXCEPT !.token = x]]
    BY <2>1
  <2>3. [rows[a] EXCEPT !.token = x] \in Row
    BY <1>0, <1>5 DEF Row
  <2>4. UNCHANGED <<keys, bound, jobs>>
    BY <1>5 DEF UpdateAccountToken, ClearAccountToken
  <2> QED BY <1>4, <1>5, <2>2, <2>3, <2>4
<1>6. CASE a \in Account /\ s \in Nat /\ UpdateAccountClerkCredentials(a, s)
  <2>1. rows' = [rows EXCEPT ![a] = [rows[a] EXCEPT !.session = s]]
    BY <1>6 DEF UpdateAccountClerkCredentials
  <2>2. [rows[a] EXCEPT !.session = s] \in Row
    BY <1>0, <1>6 DEF Row
  <2>3. UNCHANGED <<keys, bound, jobs>>
    BY <1>6 DEF UpdateAccountClerkCredentials
  <2> QED BY <1>4, <1>6, <2>1, <2>2, <2>3
<1> QED BY <1>1, <1>2, <1>3, <1>5, <1>6

(* The counts of a job go into its row as they are. *)
LEMMA RowUpdates ==
  ASSUME NEW row \in JobRow, NEW seq \in Seq(Shown), NEW j \in TestJob, NEW st \in JobStatus
  PROVE  /\ [row EXCEPT !.results = seq, !.done = j.done, !.ok = j.ok,
                         !.failed = j.failed, !.skipped = j.skipped] \in JobRow
         /\ [row EXCEPT !.status = st, !.done = j.done, !.ok = j.ok,
                         !.failed = j.failed, !.skipped = j.skipped] \in JobRow
BY DEF JobRow, TestJob

LEMMA JobSteps ==
  ASSUME TablesOk, NEW k, NEW n, NEW result, NEW j,
         \/ k \in Key /\ n \in Nat /\ StartAccountTestJob(k, n)
         \/ k \in Key /\ ResetAccountTestJob(k)
         \/ /\ k \in Key /\ result \in Shown /\ j \in TestJob
            /\ UpdateAccountTestJobProgress(k, result, j)
         \/ k \in Key /\ j \in TestJob /\ FinishAccountTestJob(k, j)
         \/ ResetAllRunningAccountTestJobs
  PROVE  TablesOk'
<1> DEFINE Start == n \in Nat /\ StartAccountTestJob(k, n)
           Posted == /\ result \in Shown /\ j \in TestJob
                     /\ UpdateAccountTestJobProgress(k, result, j)
           Final == j \in TestJob /\ FinishAccountTestJob(k, j)
<1>1. (n \in Nat => Job("running", n) \in JobRow) /\ Job("idle", 0) \in JobRow
  BY EmptySeq DEF Job, JobRow, JobStatus
<1>0. /\ Job("idle", 0).status = "idle" /\ Job("idle", 0).results = << >>
      /\ Job("running", n).status = "running"
  BY DEF Job
<1>9. k \in Key => jobs[k] \in JobRow
  BY DEF TablesOk, DatabaseTyped
<1>2. ASSUME k \in Key, NEW v \in JobRow, jobs' = [jobs EXCEPT ![k] = v], UNCHANGED <<keys, rows, bound>>,
             Exists(k) \/ jobs[k].status # "missing", v.status # "missing",
             v.status = "idle" => v.results = << >>
      PROVE  TablesOk'
  BY <1>2 DEF TablesOk, DatabaseTyped, RowsFollowKeys, Exists
<1>3. CASE k \in Key /\ (Start \/ ResetAccountTestJob(k)) /\ Exists(k)
  <2>1. CASE Start
    <3>1. jobs' = [jobs EXCEPT ![k] = Job("running", n)] /\ UNCHANGED <<keys, rows, bound>>
      BY <1>3, <2>1 DEF StartAccountTestJob, PutJob
    <3> QED BY <1>0, <1>1, <1>2, <1>3, <2>1, <3>1
  <2>2. CASE ResetAccountTestJob(k)
    <3>1. jobs' = [jobs EXCEPT ![k] = Job("idle", 0)] /\ UNCHANGED <<keys, rows, bound>>
      BY <1>3, <2>2 DEF ResetAccountTestJob, PutJob
    <3> QED BY <1>0, <1>1, <1>2, <1>3, <3>1
  <2> QED BY <1>3, <2>1, <2>2
<1>4. CASE k \in Key /\ Posted /\ jobs[k].status = "running"
  <2> DEFINE v == [jobs[k] EXCEPT !.results = Append(jobs[k].results, result), !.done = j.done,
                                  !.ok = j.ok, !.failed = j.failed, !.skipped = j.skipped]
  <2>1. jobs' = [jobs EXCEPT ![k] = v] /\ UNCHANGED <<keys, rows, bound>>
    BY <1>4 DEF UpdateAccountTestJobProgress
  <2>2. Append(jobs[k].results, result) \in Seq(Shown)
    BY <1>4, <1>9, AppendProperties DEF JobRow
  <2>3. v \in JobRow /\ v.status = "running"
    <3>1. v \in JobRow
      BY <1>4, <1>9, <2>2, RowUpdates DEF JobStatus
    <3>2. v.status = "running"
      BY <1>4, <1>9 DEF JobRow
    <3> QED BY <3>1, <3>2
  <2> HIDE DEF v
  <2> QED BY <1>2, <1>4, <2>1, <2>3
<1>5. CASE k \in Key /\ Final /\ jobs[k].status # "missing"
  <2> DEFINE v == [jobs[k] EXCEPT !.status = "completed", !.done = j.done,
                                  !.ok = j.ok, !.failed = j.failed, !.skipped = j.skipped]
  <2>1. jobs' = [jobs EXCEPT ![k] = v] /\ UNCHANGED <<keys, rows, bound>>
    BY <1>5 DEF FinishAccountTestJob
  <2>2. v \in JobRow /\ v.status = "completed"
    <3>1. v \in JobRow
      BY <1>5, <1>9, RowUpdates, EmptySeq DEF JobStatus
    <3>2. v.status = "completed"
      BY <1>5, <1>9 DEF JobRow
    <3> QED BY <3>1, <3>2
  <2> HIDE DEF v
  <2> QED BY <1>2, <1>5, <2>1, <2>2
<1> USE DEF TablesOk, DatabaseTyped, RowsFollowKeys, Exists
<1>6. CASE ResetAllRunningAccountTestJobs
  <2>1. jobs' \in [Key -> JobRow]
    BY <1>1, <1>6 DEF ResetAllRunningAccountTestJobs
  <2> QED BY <1>0, <1>6, <2>1 DEF ResetAllRunningAccountTestJobs
<1>7. CASE UNCHANGED <<keys, rows, bound, jobs>>
  BY <1>7
<1> QED
  BY <1>3, <1>4, <1>5, <1>6, <1>7
  DEF StartAccountTestJob, ResetAccountTestJob, PutJob, UpdateAccountTestJobProgress,
      FinishAccountTestJob

LEMMA TablesKept ==
  ASSUME TablesOk, UNCHANGED tables
  PROVE  TablesOk'
BY DEF TablesOk, DatabaseTyped, RowsFollowKeys, Exists, tables

--------------------------------------------------------------------------------
(* Types: tables, jobs and logins only make sense together *)

Typed == TablesOk /\ TestsTyped /\ LoginsSound

(* An account in hand is one of the list. *)
LEMMA CredFacts ==
  ASSUME TestsTyped, NEW t \in Tester
  PROVE  /\ tester[t] \in TestJob /\ tester[t].key \in Key
         /\ tester[t].token \in Nat /\ Len(tester[t].creds) \in Nat
         /\ \A i \in 1 .. Len(tester[t].creds) : tester[t].creds[i] \in Credential
         /\ tester[t].pc \in Probing => Cred(t) \in Credential /\ Result(t) \in Shown
<1>1. tester[t] \in TestJob /\ JobTyped(tester[t])
  BY DEF TestsTyped, JobsTyped
<1>2. tester[t].creds \in Seq(Credential)
  BY <1>1 DEF TestJob
<1>3. /\ Len(tester[t].creds) \in Nat
      /\ \A i \in 1 .. Len(tester[t].creds) : tester[t].creds[i] \in Credential
  BY <1>2, LenProperties, ElementOfSeq
<1>4. tester[t].pc \in Probing => Cred(t) \in Credential
  BY <1>1, <1>3 DEF JobTyped, Cred
<1>5. tester[t].pc \in Probing => Result(t) \in Shown
  BY <1>1, <1>4 DEF Result, Shown, Credential, TestJob
<1> QED BY <1>1, <1>3, <1>4, <1>5 DEF TestJob

LEMMA VerdictReason == \A why : ClassifyLoginError(why) \in Reason
BY DEF ClassifyLoginError, MutedSignal, BannedSignal, Reason

LEMMA TablesStep ==
  ASSUME Typed, Next
  PROVE  TablesOk'
<1>0. TablesOk /\ TestsTyped /\ LoginsSound
  BY DEF Typed
<1>1. ASSUME NEW t \in Tester, NEW k, NEW named, NEW active,
             \/ List(t, k, named, active) \/ Lock(t) \/ NextAccount(t) \/ Chat(t) \/ Logged(t)
             \/ Rechat(t) \/ Record(t) \/ End(t) \/ Leave(t)
      PROVE  TablesOk'
  BY <1>0, <1>1, TablesKept
     DEF List, Lock, NextAccount, Chat, Logged, Rechat, Record, End, EndIf, Leave, Quiet
<1>2. ASSUME NEW t \in Tester, Begin(t) \/ ResetRow(t) \/ Finish(t) \/ Post(t)
      PROVE  TablesOk'
  <2>1. tester[t] \in TestJob /\ tester[t].key \in Key /\ Len(tester[t].creds) \in Nat
    BY <1>0, CredFacts
  <2>2. tester[t].pc = "posting" => Result(t) \in Shown
    BY <1>0, CredFacts DEF Probing
  <2>3. CASE UNCHANGED tables
    BY <1>0, <2>3, TablesKept
  <2>4. CASE ~UNCHANGED tables
    BY <1>0, <1>2, <2>1, <2>2, <2>4, JobSteps DEF Begin, ResetRow, Finish, Post, TearRow, At
  <2> QED BY <2>3, <2>4
<1>3. ASSUME NEW t \in Tester, Condemn(t) \/ KeepToken(t) \/ Restore(t)
      PROVE  TablesOk'
  <2>1. Cred(t).acct \in Account /\ tester[t].token \in Nat
    BY <1>0, <1>3, CredFacts DEF Condemn, KeepToken, Restore, At, Probing, Credential
  <2>2. ASSUME NEW d \in BOOLEAN, NEW reason \in Reason, TrySetPoolState(t, d, reason)
        PROVE  TablesOk'
    BY <1>0, <2>2, AccountSteps, TablesKept DEF TrySetPoolState, SetAccountPoolState
  <2>3. CASE Condemn(t)
    BY <1>0, <2>2, <2>3, VerdictReason, TablesKept DEF Condemn
  <2>4. CASE KeepToken(t)
    BY <1>0, <2>1, <2>4, AccountSteps, TablesKept DEF KeepToken
  <2>5. CASE Restore(t)
    BY <2>2, <2>5 DEF Restore, Reason
  <2> QED BY <1>3, <2>3, <2>4, <2>5
<1>4. ASSUME NEW k \in Key, EndContext(k) \/ RaiseFlag(k)
      PROVE  TablesOk'
  BY <1>0, <1>4, TablesKept DEF EndContext, RaiseFlag
<1>5. ASSUME NEW p \in Caller, TestLogin(p)
      PROVE  TablesOk'
  <2>1. CASE UNCHANGED tables
    BY <1>0, <2>1, TablesKept
  <2>2. CASE StoreCredentials(p)
    <3>1. login[p].acct \in Account /\ login[p].session \in Nat
      BY <1>0, <2>2 DEF StoreCredentials, Hears, LoginAt, LoginsSound, LoginOk, LoginRecord
    <3> QED BY <1>0, <2>2, <3>1, AccountSteps DEF StoreCredentials
  <2> QED
    BY <1>5, <2>1, <2>2
    DEF TestLogin, LoginStep, TokenGranted, TokenRefused, AskFails, SignIn, FindLink, Activate,
        SignInFails, StoreFails
<1>6. ASSUME NEW p \in Caller, Load(p) \/ Refreshed(p) \/ Refresh(p)
      PROVE  TablesOk'
  <2>1. /\ login[p].pc # "none" => login[p].acct \in Account
        /\ login[p].session \in Nat
    BY <1>0 DEF LoginsSound, LoginOk, LoginRecord
  <2>2. CASE Load(p)
    BY <1>0, <2>2, TablesKept DEF Load
  <2>3. CASE Refresh(p)
    BY <1>0, <2>1, <2>3, AccountSteps DEF Refresh, LoginAt
  <2>4. CASE Refreshed(p)
    BY <1>0, <2>1, <2>4, AccountSteps, TablesKept, VerdictReason DEF Refreshed, SetAccountPoolState
  <2> QED BY <1>6, <2>2, <2>3, <2>4
<1>7. CASE MailArrives \/ Revoke \/ \E a \in Account : Judge(a)
  BY <1>0, <1>7, TablesKept DEF MailArrives, Revoke, Judge
<1>8. CASE ManageKeys
  <2>1. \A k \in Key : (IF keys[k] = "enabled" THEN "disabled" ELSE "enabled") \in {"enabled", "disabled"}
    OBVIOUS
  <2> QED BY <1>0, <1>8, <2>1, KeySteps DEF ManageKeys, CreateKey, ToggleKey, DeleteKey, RotateKey
<1>9. CASE ManageAccounts
  <2>1. live \subseteq Nat
    BY <1>0 DEF LoginsSound
  <2>2. NoSession \in Nat /\ NoText \in Reason /\ "manual" \in Reason
    BY DEF NoSession, Reason
  <2> QED
    BY <1>0, <1>9, <2>1, <2>2, AccountSteps
    DEF ManageAccounts, SetDiscarded, RemoveAccounts, ImportCSV, ImportJSON
<1>10. CASE Restart \/ SecondServer
  BY <1>0, <1>10, JobSteps DEF Restart, SecondServer
<1> QED
  BY <1>1, <1>2, <1>3, <1>4, <1>5, <1>6, <1>7, <1>8, <1>9, <1>10
  DEF Next, Internal, External, TesterStep, Request

--------------------------------------------------------------------------------
(* Logins *)

(* A caller's login moves on: it keeps the number of its sign-in or loses it. *)
LEMMA LoginReplaced ==
  ASSUME LoginsSound, NEW p \in Caller, NEW l, LoginOk(l, signIns), l.sid \in {0, login[p].sid},
         l.text = "cancelled" => p \in gone,
         Update(p, l), UNCHANGED <<gone, signIns>>, live' \subseteq 1 .. signIns
  PROVE  LoginsSound'
<1>1. l \in LoginRecord
  BY DEF LoginOk
<1>2. login' = [login EXCEPT ![p] = l] /\ login \in [Caller -> LoginRecord]
  BY DEF Update, LoginsSound
<1>3. /\ login' \in [Caller -> LoginRecord] /\ login'[p] = l
      /\ \A q \in Caller \ {p} : login'[q] = login[q]
  BY <1>1, <1>2
<1>4. \A q \in Caller : login'[q].sid \in {0, login[q].sid} /\ login[q].sid \in Nat
  BY <1>2, <1>3 DEF LoginRecord
<1>5. \A q, r \in Caller : q # r /\ login'[q].sid > 0 => login'[q].sid # login'[r].sid
  BY <1>4 DEF LoginsSound
<1>6. \A q \in Caller : LoginOk(login'[q], signIns') /\ (login'[q].text = "cancelled" => q \in gone')
  BY <1>3 DEF LoginsSound, LoginOk
<1> QED BY <1>3, <1>5, <1>6 DEF LoginsSound

LEMMA LoginsKept ==
  ASSUME LoginsSound, UNCHANGED <<login, signIns>>, gone \subseteq gone', gone' \subseteq Caller,
         live' \subseteq 1 .. signIns
  PROVE  LoginsSound'
BY DEF LoginsSound, LoginOk

(* A new login has no number yet. *)
LEMMA LoginBegins ==
  ASSUME LoginsSound, NEW p \in Caller, NEW a \in Account, NEW session \in Nat,
         BeginLogin(p, a, session), UNCHANGED <<gone, signIns, live>>
  PROVE  LoginsSound'
<1> DEFINE l == [NoLogin EXCEPT !.acct = a, !.session = session, !.held = session,
                                !.pc = IF session = NoSession THEN "failed" ELSE "asking",
                                !.text = IF session = NoSession THEN "missing" ELSE NoText]
<1>1. signIns \in Nat /\ live \subseteq 1 .. signIns
  BY DEF LoginsSound
<1>2. l \in LoginRecord /\ l.sid = 0 /\ l.acct = a /\ l.pc \in {"failed", "asking"} /\ l.text # "cancelled"
  BY NoTextFacts DEF NoLogin, NoSession, LoginRecord, LoginPc, Text
<1>3. LoginOk(l, signIns)
  BY <1>1, <1>2 DEF LoginOk
<1>4. Update(p, l)
  BY DEF BeginLogin
<1> HIDE DEF l
<1> QED BY <1>1, <1>2, <1>3, <1>4, LoginReplaced

LEMMA NoLoginTyped ==
  /\ NoLogin \in LoginRecord
  /\ NoLogin.pc = "none" /\ NoLogin.sid = 0 /\ NoLogin.text # "cancelled"
BY NoTextFacts DEF NoLogin, NoSession, LoginRecord, LoginPc, Text

LEMMA LoginEnds ==
  ASSUME LoginsSound, NEW p \in Caller, NEW a \in Account, NEW session \in Nat, NEW l,
         l = NoLogin \/ l = [NoLogin EXCEPT !.pc = "holding", !.acct = a, !.held = session],
         Update(p, l), UNCHANGED <<gone, signIns, live>>
  PROVE  LoginsSound'
<1>1. signIns \in Nat /\ live \subseteq 1 .. signIns
  BY DEF LoginsSound
<1>2. /\ l \in LoginRecord /\ l.sid = 0 /\ l.text # "cancelled"
      /\ l.pc = "none" \/ (l.pc = "holding" /\ l.acct = a)
  <2>1. CASE l = [NoLogin EXCEPT !.pc = "holding", !.acct = a, !.held = session]
    <3>1. "holding" \in LoginPc /\ a \in Account \cup {NoText}
      BY DEF LoginPc
    <3> QED BY <2>1, <3>1, NoLoginTyped DEF LoginRecord
  <2> QED BY <2>1, NoLoginTyped
<1>3. l.pc \in {"none", "holding"} /\ (l.pc # "none" => l.acct \in Account) /\ l.sid \in 0 .. signIns
  BY <1>1, <1>2
<1>4. LoginOk(l, signIns)
  BY <1>2, <1>3 DEF LoginOk
<1> QED BY <1>1, <1>2, <1>4, LoginReplaced

LEMMA LoginStepSound ==
  ASSUME LoginsSound, NEW p \in Caller, LoginStep(p)
  PROVE  LoginsSound'
<1> DEFINE l == login[p]
<1>1. /\ l \in LoginRecord /\ LoginOk(l, signIns) /\ (l.text = "cancelled" => p \in gone)
      /\ signIns \in Nat /\ live \subseteq 1 .. signIns
  BY DEF LoginsSound
<1>2. /\ l.pc \in LoginPc /\ l.acct \in Account \cup {NoText} /\ l.session \in Nat /\ l.sid \in Nat
      /\ l.link \in Nat /\ l.text \in Text /\ l.held \in Nat
  BY <1>1 DEF LoginRecord
<1>3. ASSUME NEW pc \in LoginPc \ {"none", "mailing", "activating", "storing"}, NEW text \in Text,
             l.pc # "none", text = "cancelled" => p \in gone, UNCHANGED <<gone, signIns, live>>,
             Update(p, [l EXCEPT !.pc = pc, !.text = text])
      PROVE  LoginsSound'
  <2> DEFINE m == [l EXCEPT !.pc = pc, !.text = text]
  <2>1. LoginOk(m, signIns) /\ m.sid = l.sid /\ m.text = text
    BY <1>1, <1>2, <1>3 DEF LoginOk, LoginRecord, LoginPc
  <2>2. Update(p, m)
    BY <1>3
  <2> HIDE DEF m
  <2> QED BY <1>1, <1>3, <2>1, <2>2, LoginReplaced
<1>4. ASSUME NEW pc \in LoginPc, Update(p, [l EXCEPT !.pc = pc])
      PROVE  Update(p, [l EXCEPT !.pc = pc, !.text = l.text])
  <2>1. [l EXCEPT !.pc = pc] = [l EXCEPT !.pc = pc, !.text = l.text]
    BY <1>1, <1>4 DEF LoginRecord
  <2> QED BY <1>4, <2>1
<1>5. CASE TokenGranted(p)
  BY <1>1, <1>2, <1>3, <1>4, <1>5 DEF TokenGranted, Hears, LoginAt, World, LoginPc
<1>6. CASE TokenRefused(p)
  <2>1. PICK text \in {"refused", "forbidden"} : Update(p, [l EXCEPT !.pc = "signing", !.text = text])
    BY <1>6 DEF TokenRefused
  <2> QED BY <1>3, <1>6, <2>1 DEF TokenRefused, Hears, LoginAt, World, LoginPc, Text
<1>7. CASE AskFails(p) \/ SignInFails(p) \/ StoreFails(p)
  <2>1. PICK text \in Text : Fails(p, text) /\ (text = "cancelled" => p \in gone)
    BY <1>1, <1>2, <1>7 DEF AskFails, SignInFails, StoreFails, Text
  <2> QED BY <1>3, <1>7, <2>1 DEF AskFails, SignInFails, StoreFails, Fails, LoginAt, World, LoginPc
<1>8. CASE SignIn(p)
  <2> DEFINE m == [l EXCEPT !.pc = "mailing", !.sid = signIns + 1]
  <2>1. /\ login' = [login EXCEPT ![p] = m] /\ signIns' = signIns + 1 /\ UNCHANGED <<gone, live>>
        /\ signIns < MaxSignIns /\ l.pc = "signing"
    BY <1>8 DEF SignIn, Update, Hears, LoginAt
  <2>0. "mailing" \in LoginPc /\ signIns + 1 \in Nat
    BY <1>1 DEF LoginPc
  <2>2. m \in LoginRecord /\ m.sid = signIns + 1 /\ m.pc = "mailing" /\ m.acct = l.acct /\ m.text = l.text
    BY <1>1, <2>0 DEF LoginRecord
  <2>3. LoginOk(m, signIns')
    BY <1>1, <2>1, <2>2 DEF LoginOk
  <2> HIDE DEF m
  <2>4. /\ login' \in [Caller -> LoginRecord] /\ login'[p] = m
        /\ \A q \in Caller \ {p} : login'[q] = login[q]
    BY <2>1, <2>2 DEF LoginsSound
  <2>5. \A q \in Caller : LoginOk(login[q], signIns) /\ login[q].sid \in 0 .. signIns
    BY DEF LoginsSound, LoginOk
  <2>6. \A q \in Caller : LoginOk(login'[q], signIns')
    <3> SUFFICES ASSUME NEW q \in Caller PROVE LoginOk(login'[q], signIns')
      OBVIOUS
    <3>1. CASE q = p
      BY <2>3, <2>4, <3>1
    <3>2. CASE q # p
      BY <1>1, <2>1, <2>4, <2>5, <3>2 DEF LoginOk
    <3> QED BY <3>1, <3>2
  <2>7. signIns' \in 0 .. MaxSignIns /\ live' \subseteq 1 .. signIns'
    BY <2>1, SignInAssumption DEF LoginsSound
  <2>8. \A q, r \in Caller : q # r /\ login'[q].sid > 0 => login'[q].sid # login'[r].sid
    BY <1>1, <2>2, <2>4, <2>5 DEF LoginsSound
  <2>9. \A q \in Caller : login'[q].text = "cancelled" => q \in gone'
    BY <2>1, <2>2, <2>4 DEF LoginsSound
  <2> QED BY <2>1, <2>4, <2>6, <2>7, <2>8, <2>9 DEF LoginsSound
<1>9. CASE FindLink(p)
  <2> DEFINE m == [l EXCEPT !.pc = "activating", !.link = l.sid]
  <2>1. Update(p, m) /\ UNCHANGED <<gone, signIns, live>> /\ l.pc = "mailing"
    BY <1>9 DEF FindLink, Matches, World, Hears, LoginAt
  <2>2. LoginOk(m, signIns) /\ m.sid = l.sid /\ m.text = l.text
    BY <1>1, <1>2, <2>1 DEF LoginOk, LoginRecord, LoginPc
  <2> HIDE DEF m
  <2> QED BY <1>1, <2>1, <2>2, LoginReplaced
<1>10. CASE Activate(p)
  <2> DEFINE m == [l EXCEPT !.pc = "storing", !.session = l.sid]
  <2>1. l.pc = "activating" /\ l.link = l.sid /\ l.sid \in 1 .. signIns
    <3>1. l.pc = "activating"
      BY <1>10 DEF Activate, Hears, LoginAt
    <3> QED BY <1>1, <1>2, <3>1 DEF LoginOk
  <2>2. Update(p, m) /\ UNCHANGED <<gone, signIns>> /\ live' \subseteq 1 .. signIns
    BY <1>1, <1>10, <2>1 DEF Activate
  <2>3. LoginOk(m, signIns) /\ m.sid = l.sid /\ m.text = l.text
    BY <1>1, <1>2, <2>1 DEF LoginOk, LoginRecord, LoginPc
  <2> HIDE DEF m
  <2> QED BY <1>1, <2>2, <2>3, LoginReplaced
<1>11. CASE StoreCredentials(p)
  BY <1>1, <1>2, <1>3, <1>4, <1>11 DEF StoreCredentials, Hears, LoginAt, World, LoginPc
<1> QED BY <1>5, <1>6, <1>7, <1>8, <1>9, <1>10, <1>11 DEF LoginStep

LEMMA LoginsStep ==
  ASSUME Typed, Next
  PROVE  LoginsSound'
<1>0. TablesOk /\ TestsTyped /\ LoginsSound /\ gone \subseteq Caller /\ live \subseteq 1 .. signIns
  BY DEF Typed, LoginsSound
<1>1. ASSUME UNCHANGED loginVars
      PROVE  LoginsSound'
  BY <1>0, <1>1, LoginsKept DEF loginVars
<1>2. ASSUME NEW t \in Tester, NextAccount(t) \/ Chat(t)
      PROVE  LoginsSound'
  <2>1. t \in Caller /\ UNCHANGED <<gone, signIns, live>>
    BY <1>2, CallerAssumption DEF NextAccount, Chat
  <2>2. CASE UNCHANGED login
    BY <1>0, <2>1, <2>2, LoginsKept
  <2>3. ASSUME NEW cred \in Credential, BeginLogin(t, cred.acct, cred.session)
        PROVE  LoginsSound'
    BY <1>0, <2>1, <2>3, LoginBegins DEF Credential
  <2>4. CASE NextAccount(t)
    <3>1. tester[t].at \in Nat /\ Len(tester[t].creds) \in Nat
      BY <1>0, CredFacts DEF TestJob
    <3>2. tester[t].at + 1 <= Len(tester[t].creds) => tester[t].creds[tester[t].at + 1] \in Credential
      BY <1>0, <3>1, CredFacts
    <3> QED BY <2>2, <2>3, <2>4, <3>1, <3>2 DEF NextAccount
  <2>5. CASE Chat(t)
    <3>1. Cred(t) \in Credential
      BY <1>0, <2>5, CredFacts DEF Chat, At, Probing
    <3> QED BY <2>2, <2>3, <2>5, <3>1 DEF Chat
  <2> QED BY <1>2, <2>4, <2>5
<1>3. ASSUME NEW t \in Tester, Logged(t)
      PROVE  LoginsSound'
  <2>1. t \in Caller /\ Cred(t) \in Credential
    BY <1>0, <1>3, CallerAssumption, CredFacts DEF Logged, At, Probing
  <2> QED BY <1>0, <1>3, <2>1, LoginEnds DEF Logged, Credential
<1>4. ASSUME NEW p \in Caller, TestLogin(p)
      PROVE  LoginsSound'
  BY <1>0, <1>4, LoginStepSound DEF TestLogin
<1>5. ASSUME NEW p \in Caller, Load(p) \/ Refresh(p) \/ Refreshed(p)
      PROVE  LoginsSound'
  <2>1. /\ login[p].pc # "none" => login[p].acct \in Account
        /\ login[p].held \in Nat
    BY <1>0 DEF LoginsSound, LoginOk, LoginRecord
  <2>2. UNCHANGED <<gone, signIns, live>>
    BY <1>5 DEF Load, Refresh, Refreshed, TestsQuiet
  <2>3. CASE Load(p)
    <3>1. PICK a \in Account : Update(p, [NoLogin EXCEPT !.pc = "holding", !.acct = a, !.held = rows[a].session])
      BY <2>3 DEF Load, LoadAccountsForAPIKey
    <3>2. rows[a].session \in Nat
      BY <1>0 DEF TablesOk, DatabaseTyped, Row
    <3> QED BY <1>0, <2>2, <3>1, <3>2, LoginEnds
  <2>4. CASE Refresh(p)
    BY <1>0, <2>1, <2>2, <2>4, LoginBegins DEF Refresh, LoginAt
  <2>5. CASE Refreshed(p)
    BY <1>0, <2>1, <2>2, <2>5, LoginEnds DEF Refreshed
  <2> QED BY <1>5, <2>3, <2>4, <2>5
<1>6. CASE MailArrives \/ Revoke
  BY <1>0, <1>6, LoginsKept DEF MailArrives, Revoke
<1>7. ASSUME NEW k \in Key, EndContext(k)
      PROVE  LoginsSound'
  BY <1>0, <1>7, CallerAssumption, LoginsKept DEF EndContext, TestsTyped, RunnersTyped
<1>8. CASE Restart
  <2>1. \A p \in Caller : login'[p] = NoLogin
    BY <1>8 DEF Restart
  <2>2. signIns \in Nat
    BY <1>0 DEF LoginsSound
  <2>3. UNCHANGED <<gone, signIns, live>> /\ login' \in [Caller -> LoginRecord]
    BY <1>8, NoLoginTyped DEF Restart
  <2>4. \A p \in Caller : LoginOk(login'[p], signIns) /\ login'[p].text # "cancelled" /\ login'[p].sid = 0
    BY <2>1, <2>2, NoLoginTyped DEF LoginOk
  <2> QED BY <1>0, <2>3, <2>4 DEF LoginsSound
<1>9. ASSUME NEW t \in Tester, NEW k, NEW named, NEW active,
             \/ List(t, k, named, active) \/ Begin(t) \/ Lock(t) \/ Rechat(t) \/ Condemn(t)
             \/ KeepToken(t) \/ Restore(t) \/ Record(t) \/ Post(t) \/ End(t) \/ ResetRow(t)
             \/ Finish(t) \/ Leave(t)
      PROVE  LoginsSound'
  <2>1. UNCHANGED loginVars
    BY <1>9 DEF List, Begin, Lock, Rechat, Condemn, KeepToken, Restore, Record, Post, End, EndIf, ResetRow,
                Finish, Leave, Quiet, RunnersQuiet
  <2> QED BY <1>1, <2>1
<1>10. CASE ManageKeys \/ ManageAccounts \/ SecondServer \/ \/ \E k \in Key : RaiseFlag(k)
                                                         \/ \E a \in Account : Judge(a)
  <2>1. UNCHANGED loginVars
    BY <1>10 DEF ManageKeys, CreateKey, ToggleKey, DeleteKey, RotateKey, LoseRow, ManageAccounts,
                 SetDiscarded, RemoveAccounts, ImportCSV, ImportJSON, PoolOnly, SecondServer, RaiseFlag, Judge
  <2> QED BY <1>1, <2>1
<1> QED
  BY <1>2, <1>3, <1>4, <1>5, <1>6, <1>7, <1>8, <1>9, <1>10
  DEF Next, Internal, External, TesterStep, Request

--------------------------------------------------------------------------------
(* Jobs *)

LEMMA JobReplaced ==
  ASSUME JobsTyped, NEW t \in Tester, NEW j, JobTyped(j), Become(t, j)
  PROVE  JobsTyped'
<1>1. tester' = [tester EXCEPT ![t] = j] /\ j \in TestJob
  BY DEF Become, JobTyped
<1>2. \A u \in Tester : tester'[u] = IF u = t THEN j ELSE tester[u]
  BY <1>1 DEF JobsTyped
<1>3. \A u \in Tester : JobTyped(tester'[u])
  BY <1>2 DEF JobsTyped
<1> QED BY <1>1, <1>3 DEF JobsTyped

(* A job that goes on with the account it has, or puts it away. *)
LEMMA JobGoesOn ==
  ASSUME NEW j, JobTyped(j), NEW pc \in Underway, pc \in Probing => j.pc \in Probing,
         NEW why \in Why, NEW cut \in BOOLEAN, NEW token \in Nat
  PROVE  /\ JobTyped([j EXCEPT !.pc = pc])
         /\ JobTyped([j EXCEPT !.pc = pc, !.token = token])
         /\ JobTyped([j EXCEPT !.pc = pc, !.why = why])
         /\ JobTyped([j EXCEPT !.pc = pc, !.why = why, !.cut = cut])
<1>1. j \in TestJob /\ (j.pc \in Probing => j.at \in 1 .. Len(j.creds))
  BY DEF JobTyped
<1> DEFINE v == [j EXCEPT !.pc = pc]
           w == [j EXCEPT !.pc = pc, !.token = token]
           x == [j EXCEPT !.pc = pc, !.why = why]
           y == [j EXCEPT !.pc = pc, !.why = why, !.cut = cut]
<1>2. v \in TestJob /\ v.pc = pc /\ v.at = j.at /\ v.creds = j.creds
  BY <1>1 DEF TestJob
<1>3. w \in TestJob /\ w.pc = pc /\ w.at = j.at /\ w.creds = j.creds
  BY <1>1 DEF TestJob
<1>4. x \in TestJob /\ x.pc = pc /\ x.at = j.at /\ x.creds = j.creds
  BY <1>1 DEF TestJob
<1>5. y \in TestJob /\ y.pc = pc /\ y.at = j.at /\ y.creds = j.creds
  BY <1>1 DEF TestJob
<1> HIDE DEF v, w, x, y
<1>6. JobTyped(v) /\ JobTyped(w)
  BY <1>1, <1>2, <1>3 DEF JobTyped
<1>7. JobTyped(x) /\ JobTyped(y)
  BY <1>1, <1>4, <1>5 DEF JobTyped
<1> QED BY <1>6, <1>7 DEF v, w, x, y

LEMMA UnusedTyped ==
  /\ JobTyped(Unused) /\ JobTyped(Ended)
  /\ Unused.pc = "unused" /\ Ended.pc = "gone" /\ Unused.cut = FALSE /\ Ended.cut = FALSE
<1>1. Unused \in TestJob /\ Unused.pc = "unused" /\ Unused.cut = FALSE
  BY AdminKeyAssumption, EmptySeq, NoTextFacts DEF Unused, TestJob, NoSession, Why, Text
<1>2. Ended \in TestJob /\ Ended.pc = "gone" /\ Ended.cut = FALSE
  BY <1>1 DEF Ended, TestJob
<1> QED BY <1>1, <1>2 DEF JobTyped, Probing

(* The credentials of a pool, as a test is handed them. *)
LEMMA CredentialsTyped ==
  ASSUME TablesOk, NEW k \in Key, NEW named, NEW active
  PROVE  ListPoolAccountCredentials(k, named, active) \in Seq(Credential)
<1> DEFINE unwanted == {a \in Account : \/ named # {} /\ a \notin named
                                        \/ active /\ rows[a].discarded}
           listed == Without(bound[k], unwanted)
           creds == [i \in DOMAIN listed |-> [acct |-> listed[i], session |-> rows[listed[i]].session,
                                              token |-> rows[listed[i]].token]]
<1>1. ListPoolAccountCredentials(k, named, active) = creds
  BY DEF ListPoolAccountCredentials
<1>2. bound[k] \in Seq(Account)
  BY DEF TablesOk, DatabaseTyped
<1>3. listed \in Seq(Account)
  BY <1>2, WithoutFacts
<1> HIDE DEF listed
<1>4. Len(listed) \in Nat /\ DOMAIN listed = 1 .. Len(listed)
  BY <1>3, LenProperties
<1>5. \A i \in DOMAIN listed : listed[i] \in Account
  BY <1>3, <1>4, ElementOfSeq
<1>6. \A i \in DOMAIN listed : creds[i] \in Credential
  BY <1>5 DEF TablesOk, DatabaseTyped, Row, Credential
<1>7. creds \in [1 .. Len(listed) -> Credential]
  BY <1>4, <1>6
<1> HIDE DEF creds
<1>8. creds \in Seq(Credential)
  BY <1>4, <1>7, SeqDef
<1> QED BY <1>1, <1>8

LEMMA VerdictsOfUpstream ==
  ASSUME TestsTyped, NEW t \in Tester, tester[t].pc \in Probing, NEW answer \in ChatAnswers(t)
  PROVE  answer \in Why \ {"skipped", NoText, "missing", "lost"}
<1>1. Cred(t).acct \in Account
  BY CredFacts DEF Credential
<1>2. health[Cred(t).acct] \in {"fine", "muted", "banned"}
  BY <1>1 DEF TestsTyped, RunnersTyped
<1> QED BY <1>2, NoTextFacts DEF ChatAnswers, Why, Text

LEMMA JobTurns ==
  ASSUME NEW j \in TestJob, NEW n \in Nat
  PROVE  /\ [j EXCEPT !.at = n, !.cut = FALSE] \in TestJob
         /\ [j EXCEPT !.at = n, !.cut = FALSE].at = n
         /\ [j EXCEPT !.at = n, !.cut = FALSE].creds = j.creds
BY DEF TestJob

(* The counts go on by one, and all three of them add up to it. *)
LEMMA TalliedFacts ==
  ASSUME NEW j \in TestJob
  PROVE  /\ Tallied(j) \in TestJob
         /\ Tallied(j) = [j EXCEPT !.done = j.done + 1,
                                   !.ok = IF j.why = "fine" THEN j.ok + 1 ELSE j.ok,
                                   !.skipped = IF j.why = "skipped" THEN j.skipped + 1 ELSE j.skipped,
                                   !.failed = IF j.why \in {"fine", "skipped"} THEN j.failed
                                              ELSE j.failed + 1]
         /\ Tallied(j).at = j.at /\ Tallied(j).creds = j.creds
<1> DEFINE ok == IF j.why = "fine" THEN j.ok + 1 ELSE j.ok
           skipped == IF j.why = "skipped" THEN j.skipped + 1 ELSE j.skipped
           failed == IF j.why \in {"fine", "skipped"} THEN j.failed ELSE j.failed + 1
<1>1. j.done + 1 \in Nat /\ ok \in Nat /\ skipped \in Nat /\ failed \in Nat
  BY DEF TestJob
<1>2. Tallied(j) = [j EXCEPT !.done = j.done + 1, !.ok = ok, !.skipped = skipped, !.failed = failed]
  BY DEF Tallied
<1> HIDE DEF ok, skipped, failed
<1>3. Tallied(j) \in TestJob /\ Tallied(j).at = j.at /\ Tallied(j).creds = j.creds
  BY <1>1, <1>2 DEF TestJob
<1> QED BY <1>2, <1>3 DEF ok, skipped, failed

LEMMA JobsStep ==
  ASSUME Typed, Next
  PROVE  JobsTyped'
<1>0. TablesOk /\ TestsTyped /\ LoginsSound /\ JobsTyped
  BY DEF Typed, TestsTyped
<1>1. ASSUME UNCHANGED tester
      PROVE  JobsTyped'
  BY <1>0, <1>1 DEF JobsTyped
<1>2. ASSUME NEW t \in Tester, NEW k \in Key, NEW named, NEW active, List(t, k, named, active)
      PROVE  JobsTyped'
  <2> DEFINE creds == ListPoolAccountCredentials(k, named, active)
             v == [Unused EXCEPT !.pc = "listed", !.key = k, !.creds = creds]
  <2>1. creds \in Seq(Credential)
    BY <1>0, CredentialsTyped
  <2>2. Become(t, v)
    BY <1>2 DEF List
  <2> HIDE DEF creds
  <2>3. v \in TestJob /\ v.pc = "listed"
    BY <2>1, UnusedTyped DEF JobTyped, TestJob
  <2>4. JobTyped(v)
    BY <2>3 DEF JobTyped, Probing
  <2> QED BY <1>0, <2>2, <2>4, JobReplaced
<1>3. ASSUME NEW t \in Tester, TesterStep(t)
      PROVE  JobsTyped'
  <2> DEFINE j == tester[t]
  <2>1. JobTyped(j) /\ j \in TestJob
    BY <1>0 DEF JobsTyped
  <2>2. j.at \in Nat /\ Len(j.creds) \in Nat /\ j.token \in Nat /\ j.why \in Why /\ j.cut \in BOOLEAN
    BY <1>0, <2>1, CredFacts DEF TestJob
  <2>3. ASSUME NEW pc \in Underway, pc \in Probing => j.pc \in Probing, GoTo(t, pc)
        PROVE  JobsTyped'
    BY <1>0, <2>1, <2>2, <2>3, JobGoesOn, JobReplaced DEF GoTo
  <2>4. CASE Begin(t)
    <3>1. CASE Become(t, Ended)
      BY <1>0, <3>1, UnusedTyped, JobReplaced
    <3>2. CASE GoTo(t, "queued")
      BY <2>3, <3>2 DEF Underway, Locked, Probing
    <3> QED BY <2>4, <3>1, <3>2 DEF Begin
  <2>5. CASE Lock(t) \/ End(t) \/ ResetRow(t) \/ Finish(t)
    BY <2>3, <2>5 DEF Lock, End, EndIf, ResetRow, Finish, Underway, Locked, Probing
  <2>6. CASE Condemn(t) \/ KeepToken(t) \/ Post(t)
    BY <2>3, <2>6 DEF Condemn, KeepToken, Post, At, Underway, Locked, Probing
  <2>7. CASE Leave(t)
    BY <1>0, <2>7, UnusedTyped, JobReplaced DEF Leave
  <2>8. CASE NextAccount(t)
    <3>1. CASE GoTo(t, "ending")
      BY <2>3, <3>1 DEF Underway, Locked, Probing
    <3> DEFINE i == j.at + 1
               job == [j EXCEPT !.at = i, !.cut = FALSE, !.why = NoText, !.token = NoSession]
    <3>2. ASSUME i <= Len(j.creds), NEW pc \in {"recording", "chatting", "logging"},
                 NEW why \in {NoText, "skipped"}, NEW token \in Nat, NEW v,
                 v = [j EXCEPT !.at = i, !.cut = FALSE, !.why = why, !.token = token, !.pc = pc],
                 Become(t, v)
          PROVE  JobsTyped'
      <4>1. pc \in Underway /\ why \in Why
        BY <3>2 DEF Underway, Locked, Probing, Why, Text
      <4>2. v \in TestJob /\ v.at = i /\ v.creds = j.creds
        <5> DEFINE w == [j EXCEPT !.at = i, !.cut = FALSE]
        <5>1. w \in TestJob /\ w.at = i /\ w.creds = j.creds
          <6>1. j \in TestJob /\ i \in Nat
            BY <2>1, <2>2
          <6> QED BY <6>1, JobTurns
        <5>2. v = [w EXCEPT !.why = why, !.token = token, !.pc = pc]
          BY <2>1, <3>2 DEF TestJob
        <5> HIDE DEF w
        <5> QED BY <3>2, <4>1, <5>1, <5>2 DEF TestJob
      <4>3. JobTyped(v)
        BY <2>2, <3>2, <4>2 DEF JobTyped
      <4> QED BY <1>0, <3>2, <4>3, JobReplaced
    <3> DEFINE cred == j.creds[i]
               skipped == [job EXCEPT !.pc = "recording", !.why = "skipped"]
               chatting == [job EXCEPT !.pc = "chatting", !.token = cred.token]
               logging == [job EXCEPT !.pc = "logging"]
    <3>3. i <= Len(j.creds) => cred.token \in Nat
      BY <1>0, <2>2, CredFacts DEF Credential
    <3>4. CASE i <= Len(j.creds) /\ Become(t, skipped)
      <4>1. skipped = [j EXCEPT !.at = i, !.cut = FALSE, !.why = "skipped", !.token = NoSession,
                                !.pc = "recording"]
        BY <2>1 DEF TestJob
      <4> QED BY <3>2, <3>4, <4>1 DEF NoSession
    <3>5. CASE i <= Len(j.creds) /\ Become(t, chatting)
      <4>1. chatting = [j EXCEPT !.at = i, !.cut = FALSE, !.why = NoText, !.token = cred.token,
                                 !.pc = "chatting"]
        BY <2>1 DEF TestJob
      <4> QED BY <3>2, <3>3, <3>5, <4>1
    <3>6. CASE i <= Len(j.creds) /\ Become(t, logging)
      <4>1. logging = [j EXCEPT !.at = i, !.cut = FALSE, !.why = NoText, !.token = NoSession,
                                !.pc = "logging"]
        BY <2>1 DEF TestJob
      <4> QED BY <3>2, <3>6, <4>1 DEF NoSession
    <3>7. \/ GoTo(t, "ending")
          \/ i <= Len(j.creds) /\ (Become(t, skipped) \/ Become(t, chatting) \/ Become(t, logging))
      BY <2>2, <2>8 DEF NextAccount
    <3> QED BY <3>1, <3>4, <3>5, <3>6, <3>7
  <2>9. CASE Chat(t)
    BY <2>3, <2>9 DEF Chat, At, Underway, Locked, Probing
  <2>10. CASE Logged(t)
    <3>1. login[t].text \in Why /\ login[t].session \in Nat
      BY <1>0, CallerAssumption DEF LoginsSound, LoginRecord, Why
    <3>2. \/ Become(t, [j EXCEPT !.pc = "rechatting", !.token = login[t].session])
          \/ Become(t, [j EXCEPT !.pc = "failed", !.why = login[t].text,
                                 !.cut = login[t].text = "cancelled"])
      BY <2>10 DEF Logged
    <3>3. j.pc \in Probing
      BY <2>10 DEF Logged, At, Probing
    <3> QED BY <1>0, <2>1, <2>2, <3>1, <3>2, <3>3, JobGoesOn, JobReplaced DEF Underway, Locked, Probing
  <2>11. CASE Rechat(t)
    <3>1. j.pc \in Probing
      BY <2>11 DEF Rechat, At, Probing
    <3>2. PICK answer \in ChatAnswers(t) :
            Become(t, IF answer = "fine" THEN [j EXCEPT !.pc = "passed"]
                      ELSE [j EXCEPT !.pc = "failed", !.why = answer, !.cut = answer = "cancelled"])
      BY <2>11 DEF Rechat
    <3>3. answer \in Why
      BY <1>0, <3>1, VerdictsOfUpstream
    <3> QED BY <1>0, <2>1, <2>2, <3>1, <3>2, <3>3, JobGoesOn, JobReplaced DEF Underway, Locked, Probing
  <2>12. CASE Restore(t)
    <3>1. Become(t, [j EXCEPT !.pc = "recording", !.why = "fine"]) /\ j.pc \in Probing
      BY <2>12 DEF Restore, At, Probing
    <3> QED BY <1>0, <2>1, <2>2, <3>1, JobGoesOn, JobReplaced DEF Underway, Locked, Probing, Why
  <2>13. CASE Record(t)
    <3> DEFINE v == [Tallied(j) EXCEPT !.pc = IF cancelled[j.key] THEN "next" ELSE "posting"]
    <3>1. j.pc \in Probing /\ Become(t, v)
      BY <2>13 DEF Record, At, Probing
    <3>2. Tallied(j) \in TestJob /\ Tallied(j).at = j.at /\ Tallied(j).creds = j.creds
      BY <2>1, TalliedFacts
    <3>3. v \in TestJob /\ v.at = j.at /\ v.creds = j.creds
      BY <3>2 DEF TestJob, Underway, Locked, Probing
    <3>4. JobTyped(v)
      BY <2>1, <3>1, <3>3 DEF JobTyped
    <3> HIDE DEF v
    <3> QED BY <1>0, <3>1, <3>4, JobReplaced
  <2> QED
    BY <1>3, <2>4, <2>5, <2>6, <2>7, <2>8, <2>9, <2>10, <2>11, <2>12, <2>13 DEF TesterStep
<1>4. CASE Restart
  BY <1>0, <1>4, UnusedTyped DEF Restart, JobsTyped, JobTyped
<1>5. CASE ManageKeys \/ ManageAccounts \/ SecondServer
  <2>1. UNCHANGED tester
    BY <1>5 DEF ManageKeys, CreateKey, ToggleKey, DeleteKey, RotateKey, LoseRow, ManageAccounts,
                SetDiscarded, RemoveAccounts, ImportCSV, ImportJSON, PoolOnly, SecondServer
  <2> QED BY <1>1, <2>1
<1> QED
  BY <1>1, <1>2, <1>3, <1>4, <1>5
  DEF Next, Internal, External, TestLogin, Load, Refresh, Refreshed, TestsQuiet, EndContext, RaiseFlag,
      Judge

LEMMA RunnersStep ==
  ASSUME Typed, Next
  PROVE  RunnersTyped'
<1>0. TestsTyped /\ RunnersTyped
  BY DEF Typed, TestsTyped
<1>1. ASSUME UNCHANGED <<runnerVars, health>>, disturbed' \subseteq disturbed \cup Tester,
             torn' \subseteq torn \cup Key
      PROVE  RunnersTyped'
  BY <1>0, <1>1 DEF RunnersTyped, runnerVars
<1>2. ASSUME UNCHANGED <<runnerVars, disturbed, torn, health>>
      PROVE  RunnersTyped'
  BY <1>0, <1>2 DEF RunnersTyped, runnerVars
<1>3. ASSUME NEW t \in Tester, TesterStep(t), UNCHANGED health
      PROVE  RunnersTyped'
  <2>1. tester[t].key \in Key
    BY <1>0, CredFacts
  <2>2. \A k : OthersOf(t, k) \subseteq Tester
    BY DEF OthersOf
  <2>3. CASE Begin(t) \/ ResetRow(t) \/ Post(t) \/ Finish(t)
    <3>1. UNCHANGED runnerVars
      BY <2>3 DEF Begin, ResetRow, Post, Finish
    <3>2. disturbed' \subseteq disturbed \cup Tester /\ torn' \subseteq torn \cup Key
      BY <2>1, <2>2, <2>3 DEF Begin, ResetRow, Post, Finish, TearRow
    <3> QED BY <1>1, <1>3, <3>1, <3>2
  <2>4. CASE Lock(t) \/ Leave(t)
    BY <1>0, <1>3, <2>1, <2>4 DEF Lock, Leave, RunnersTyped
  <2>5. CASE \/ NextAccount(t) \/ Chat(t) \/ Logged(t) \/ Rechat(t) \/ Condemn(t) \/ KeepToken(t)
             \/ Restore(t) \/ Record(t) \/ End(t)
    <3>1. UNCHANGED <<runnerVars, disturbed, torn>>
      BY <2>5 DEF NextAccount, Chat, Logged, Rechat, Condemn, KeepToken, Restore, Record, End, EndIf,
                  Quiet, RunnersQuiet
    <3> QED BY <1>2, <1>3, <3>1
  <2> QED BY <1>3, <2>3, <2>4, <2>5 DEF TesterStep
<1>4. ASSUME NEW k \in Key, EndContext(k) \/ RaiseFlag(k), UNCHANGED health
      PROVE  RunnersTyped'
  BY <1>0, <1>4 DEF EndContext, RaiseFlag, RunnersTyped
<1>5. CASE \E a \in Account : Judge(a)
  BY <1>0, <1>5 DEF Judge, RunnersTyped, runnerVars
<1>6. CASE (ManageKeys \/ ManageAccounts \/ SecondServer) /\ UNCHANGED health
  <2>1. /\ UNCHANGED runnerVars
        /\ disturbed' \subseteq disturbed \cup Tester /\ torn' \subseteq torn \cup Key
    BY <1>6 DEF ManageKeys, CreateKey, ToggleKey, DeleteKey, RotateKey, LoseRow, ManageAccounts,
                SetDiscarded, RemoveAccounts, ImportCSV, ImportJSON, PoolOnly, SecondServer
  <2> QED BY <1>1, <1>6, <2>1
<1>7. CASE Restart /\ UNCHANGED health
  BY <1>0, <1>7 DEF Restart, RunnersTyped
<1>8. CASE Internal /\ UNCHANGED health
  BY <1>2, <1>3, <1>4, <1>8
  DEF Internal, List, Quiet, TestLogin, Load, Refreshed, TestsQuiet
<1>9. CASE External /\ UNCHANGED health
  BY <1>2, <1>4, <1>6, <1>7, <1>9 DEF External, Refresh, TestsQuiet
<1> QED BY <1>5, <1>8, <1>9 DEF Next

LEMMA TypedStep ==
  ASSUME Typed, [Next]_vars
  PROVE  Typed'
<1>1. CASE Next
  BY <1>1, TablesStep, LoginsStep, JobsStep, RunnersStep DEF Typed, TestsTyped
<1>2. CASE UNCHANGED vars
  <2>1. TablesOk'
    BY <1>2, TablesKept DEF Typed, vars
  <2>2. LoginsSound'
    BY <1>2, LoginsKept DEF Typed, vars, loginVars, LoginsSound
  <2>3. TestsTyped'
    BY <1>2 DEF Typed, TestsTyped, JobsTyped, RunnersTyped, vars, runnerVars
  <2> QED BY <2>1, <2>2, <2>3 DEF Typed
<1> QED BY <1>1, <1>2

LEMMA ImportedFacts ==
  /\ \A i \in DOMAIN Imported : Imported[i] \in [acct : Account, session : Nat, token : Nat]
  /\ [i \in DOMAIN Imported |-> Imported[i].acct] \in Seq(Account)
  /\ \A a \in Account : (\E i \in DOMAIN Imported : Imported[i].acct = a) =>
       (CHOOSE r \in Range(Imported) : r.acct = a) \in [acct : Account, session : Nat, token : Nat]
<1> DEFINE R == [acct : Account, session : Nat, token : Nat]
           bindings == [i \in DOMAIN Imported |-> Imported[i].acct]
<1>1. Imported \in Seq(R)
  BY ImportedAssumption
<1>2. Len(Imported) \in Nat /\ DOMAIN Imported = 1 .. Len(Imported)
  BY <1>1, LenProperties
<1>3. \A i \in DOMAIN Imported : Imported[i] \in R
  BY <1>1, <1>2, ElementOfSeq
<1>4. bindings \in [1 .. Len(Imported) -> Account]
  BY <1>2, <1>3
<1>5. bindings \in Seq(Account)
  <2> HIDE DEF bindings
  <2> QED BY <1>2, <1>4, SeqDef
<1>6. ASSUME NEW a \in Account, \E i \in DOMAIN Imported : Imported[i].acct = a
      PROVE  (CHOOSE r \in Range(Imported) : r.acct = a) \in R
  <2>1. \E r \in Range(Imported) : r.acct = a
    BY <1>6 DEF Range
  <2>2. (CHOOSE r \in Range(Imported) : r.acct = a) \in Range(Imported)
    BY <2>1
  <2> QED BY <1>3, <2>2 DEF Range
<1> QED BY <1>3, <1>5, <1>6

LEMMA TypedInit == Init => Typed
<1> SUFFICES ASSUME Init PROVE Typed
  OBVIOUS
<1>1. TablesOk
  <2>1. keys \in [Key -> KeyState] /\ jobs = [k \in Key |-> Job("missing", 0)]
    BY DEF Init, DatabaseInit, KeyState
  <2>2. Job("missing", 0) \in JobRow /\ Job("missing", 0).status = "missing"
        /\ Job("missing", 0).results = << >>
    BY EmptySeq DEF Job, JobRow, JobStatus
  <2>3. NoRow \in Row
    BY DEF NoRow, Row, NoSession, Reason
  <2>4. ASSUME NEW row \in [acct : Account, session : Nat, token : Nat]
        PROVE  [NoRow EXCEPT !.here = TRUE, !.session = row.session, !.token = row.token] \in Row
    BY <2>3 DEF Row
  <2>5. \A a \in Account : rows[a] \in Row
    BY <2>3, <2>4, ImportedFacts DEF Init, DatabaseInit
  <2>6. rows \in [Account -> Row]
    BY <2>5 DEF Init, DatabaseInit
  <2>7. bound \in [Key -> Seq(Account)]
    BY ImportedFacts, EmptySeq DEF Init, DatabaseInit
  <2> QED BY <2>1, <2>2, <2>6, <2>7 DEF TablesOk, DatabaseTyped, RowsFollowKeys
<1>2. LoginsSound
  <2>1. PICK n \in 0 .. MaxSignIns : Brought = 1 .. n
    BY SignInAssumption
  <2>2. signIns = n /\ live = 1 .. n /\ gone = {} /\ n \in Nat
    BY <2>1, SignInAssumption, FS_Interval DEF Init, LoginInit
  <2>3. login = [p \in Caller |-> NoLogin]
    BY DEF Init, LoginInit
  <2>4. LoginOk(NoLogin, n)
    BY <2>2, NoLoginTyped DEF LoginOk
  <2> QED BY <2>2, <2>3, <2>4, NoLoginTyped DEF LoginsSound
<1>3. TestsTyped
  BY UnusedTyped DEF Init, TestsTyped, JobsTyped, JobTyped, RunnersTyped
<1> QED BY <1>1, <1>2, <1>3 DEF Typed

(* Tables, jobs and logins keep their shapes, and the numbers of sign-ins    *)
(* their owners.                                                             *)
THEOREM TestsAreTyped == Spec => []Typed
<1> QED BY TypedInit, TypedStep, PTL DEF Spec

(* Every record keeps its shape, whatever handlers, goroutines, requests and *)
(* the operator write, in any order.                                         *)
THEOREM TestTypeCorrect == Spec => []TypeOK
<1>1. Typed => TypeOK
  BY NoTextFacts
  DEF Typed, TypeOK, LoginTypeOK, TablesOk, DatabaseTyped, TestsTyped, RunnersTyped, LoginsSound,
      LoginRecord, LoginPc, JobRow, Row
<1> QED BY <1>1, TestsAreTyped, PTL

(* A sign-in never uses up the link of another one: the link it follows has  *)
(* the number of its own sign-in, and no two sign-ins share a number.        *)
THEOREM SignInsAreTheirOwn == Spec => []OwnSession
<1>1. Typed => OwnSession
  BY NoTextFacts DEF Typed, OwnSession, LoginsSound, LoginRecord, Text
<1> QED BY <1>1, TestsAreTyped, PTL

--------------------------------------------------------------------------------
(* Steps, by what they do to the jobs *)

Listing(t) == \E k \in Key, order \in Orders : List(t, k, order.named, order.activeOnly)

(* What a job does while it holds the mutex. *)
Work(t) ==
  \/ NextAccount(t) \/ Chat(t) \/ Logged(t) \/ Rechat(t) \/ Condemn(t) \/ KeepToken(t) \/ Restore(t)
  \/ Record(t) \/ Post(t) \/ End(t) \/ ResetRow(t) \/ Finish(t)

(* No job moves and no row, though a cancel may be under way. *)
Calm ==
  /\ UNCHANGED <<tester, holder, jobs, keys, disturbed, torn>>
  /\ gone \subseteq gone' /\ \A k \in Key : cancelled[k] => cancelled'[k]

LEMMA StepKinds ==
  ASSUME Typed, Next
  PROVE  \/ \E t \in Tester : Listing(t) \/ Begin(t) \/ Lock(t) \/ Work(t) \/ Leave(t)
         \/ ManageKeys \/ Restart \/ SecondServer \/ Calm
<1>1. CASE ManageAccounts \/ (Revoke /\ UNCHANGED <<tester, runnerVars, disturbed, torn>>)
           \/ \E a \in Account : Judge(a)
  <2>1. CASE ManageAccounts
    <3>1. PoolOnly /\ UNCHANGED <<keys, jobs>>
      BY <2>1
      DEF ManageAccounts, SetDiscarded, RemoveAccounts, ImportCSV, ImportJSON, AddAccountToPool,
          RemoveFromPool, SetPoolState
    <3> QED BY <3>1 DEF PoolOnly, Calm, loginVars, runnerVars
  <2>2. CASE Revoke /\ UNCHANGED <<tester, runnerVars, disturbed, torn>>
    BY <2>2 DEF Revoke, Calm, tables, runnerVars
  <2>3. CASE \E a \in Account : Judge(a)
    BY <2>3 DEF Judge, Calm, tables, loginVars, runnerVars
  <2> QED BY <1>1, <2>1, <2>2, <2>3
<1>2. ASSUME NEW k \in Key, EndContext(k) \/ RaiseFlag(k)
      PROVE  Calm
  BY <1>2 DEF EndContext, RaiseFlag, Calm, tables, loginVars, Typed, TestsTyped, RunnersTyped
<1>3. ASSUME NEW p \in Caller, TestLogin(p) \/ Load(p) \/ Refresh(p) \/ Refreshed(p)
      PROVE  Calm
  <2>1. CASE TestLogin(p)
    BY <2>1
    DEF TestLogin, LoginStep, TokenGranted, TokenRefused, AskFails, SignIn, FindLink, Activate, SignInFails,
        StoreCredentials, StoreFails, UpdateAccountClerkCredentials, World, Calm, tables, runnerVars
  <2>2. CASE Load(p) \/ Refresh(p) \/ Refreshed(p)
    BY <2>2
    DEF Load, Refresh, Refreshed, ClearAccountToken, UpdateAccountToken, SetAccountPoolState, SetPoolState,
        TestsQuiet, Calm, tables, runnerVars
  <2> QED BY <1>3, <2>1, <2>2
<1>4. CASE MailArrives /\ UNCHANGED <<tester, runnerVars, disturbed, torn>>
  BY <1>4 DEF MailArrives, Calm, tables, runnerVars
<1>5. CASE \E t \in Tester : Listing(t) \/ TesterStep(t)
  BY <1>5 DEF TesterStep, Work
<1>6. CASE Internal
  BY <1>2, <1>3, <1>4, <1>5, <1>6 DEF Internal, Request, Listing
<1>7. CASE External
  BY <1>1, <1>2, <1>3, <1>7 DEF External, Request
<1> QED BY <1>1, <1>6, <1>7 DEF Next

(* A job at work keeps its key, its list and the mutex; it goes to its end   *)
(* as completed only when nobody stops it, and only a cancel cuts it short.  *)
LEMMA WorkFacts ==
  ASSUME Typed, NEW t \in Tester, Work(t)
  PROVE  /\ \A u \in Tester \ {t} : tester'[u] = tester[u]
         /\ tester'[t].key = tester[t].key /\ tester'[t].creds = tester[t].creds
         /\ tester[t].pc \in Locked \ {"leaving"} /\ tester'[t].pc \in Locked
         /\ tester'[t].pc = "closing" => tester[t].pc = "ending" /\ ~Stopped(t)
         /\ tester'[t].pc = "leaving" => ResetRow(t) \/ Finish(t)
         /\ tester'[t].cut => tester[t].cut \/ t \in gone
         /\ UNCHANGED <<holder, gone, cancelled, keys>>
         /\ UNCHANGED jobs \/ Post(t) \/ ResetRow(t) \/ Finish(t)
<1> DEFINE j == tester[t]
<1>1. /\ j \in TestJob /\ tester \in [Tester -> TestJob]
      /\ TestsTyped /\ (login[t].text = "cancelled" => t \in gone)
  BY CallerAssumption DEF Typed, TestsTyped, JobsTyped, LoginsSound
<1>2. UNCHANGED <<holder, gone, cancelled, keys>> /\ (UNCHANGED jobs \/ Post(t) \/ ResetRow(t) \/ Finish(t))
  <2>1. CASE Condemn(t) \/ KeepToken(t) \/ Restore(t)
    BY <2>1
    DEF Condemn, KeepToken, Restore, TrySetPoolState, SetAccountPoolState, SetPoolState, UpdateAccountToken,
        RunnersQuiet, runnerVars, loginVars, tables
  <2>2. CASE Post(t) \/ ResetRow(t) \/ Finish(t)
    BY <2>2
    DEF Post, ResetRow, Finish, UpdateAccountTestJobProgress, ResetAccountTestJob, FinishAccountTestJob,
        TearRow, tables, runnerVars, loginVars
  <2> QED
    BY <2>1, <2>2
    DEF Work, NextAccount, Chat, Logged, Rechat, Record, End, EndIf, Quiet, RunnersQuiet, runnerVars,
        loginVars, tables
<1>3. ASSUME NEW v, Become(t, v)
      PROVE  tester'[t] = v /\ \A u \in Tester \ {t} : tester'[u] = tester[u]
  BY <1>1, <1>3 DEF Become
<1>4. ASSUME NEW pc, GoTo(t, pc)
      PROVE  /\ tester'[t].pc = pc /\ tester'[t].cut = j.cut
             /\ tester'[t].key = j.key /\ tester'[t].creds = j.creds
             /\ \A u \in Tester \ {t} : tester'[u] = tester[u]
  <2>1. /\ tester'[t] = [j EXCEPT !.pc = pc]
        /\ \A u \in Tester \ {t} : tester'[u] = tester[u]
    BY <1>3, <1>4 DEF GoTo
  <2> QED BY <1>1, <2>1 DEF TestJob
<1>5. CASE NextAccount(t)
  <2>1. j.pc = "next"
    BY <1>5 DEF NextAccount, At
  <2>2. CASE GoTo(t, "ending")
    BY <1>2, <1>4, <2>1, <2>2 DEF Locked, Probing
  <2> DEFINE job == [j EXCEPT !.at = j.at + 1, !.cut = FALSE, !.why = NoText, !.token = NoSession]
  <2>3. ASSUME NEW v, Become(t, v),
               \/ v = [job EXCEPT !.pc = "recording", !.why = "skipped"]
               \/ \E i : v = [job EXCEPT !.pc = "chatting", !.token = i]
               \/ v = [job EXCEPT !.pc = "logging"]
        PROVE  /\ tester'[t].key = j.key /\ tester'[t].creds = j.creds /\ tester'[t].cut = FALSE
               /\ tester'[t].pc \in {"recording", "chatting", "logging"}
               /\ \A u \in Tester \ {t} : tester'[u] = tester[u]
    <3>1. tester'[t] = v /\ \A u \in Tester \ {t} : tester'[u] = tester[u]
      BY <1>3, <2>3
    <3>2. /\ job \in TestJob /\ job.key = j.key /\ job.creds = j.creds /\ job.cut = FALSE
      <4>1. j.at + 1 \in Nat /\ NoText \in Why /\ NoSession \in Nat
        BY <1>1 DEF TestJob, NoSession, Why, Text
      <4>2. job.key = j.key /\ job.creds = j.creds /\ job.cut = FALSE
        BY <1>1 DEF TestJob
      <4> QED BY <1>1, <4>1, <4>2 DEF TestJob
    <3> HIDE DEF job
    <3> QED BY <2>3, <3>1, <3>2 DEF TestJob
  <2>4. CASE ~GoTo(t, "ending")
    BY <1>2, <1>5, <2>1, <2>3, <2>4 DEF NextAccount, Locked, Probing
  <2> QED BY <2>2, <2>4
<1>6. CASE Chat(t) \/ Condemn(t) \/ KeepToken(t) \/ Post(t)
  <2>1. j.pc \in {"chatting", "failed", "passed", "posting"}
    BY <1>6 DEF Chat, Condemn, KeepToken, Post, At
  <2>2. GoTo(t, "passed") \/ GoTo(t, "logging") \/ GoTo(t, "recording") \/ GoTo(t, "restoring") \/ GoTo(t, "next")
    BY <1>6 DEF Chat, Condemn, KeepToken, Post
  <2> QED BY <1>2, <1>4, <2>1, <2>2 DEF Locked, Probing
<1>7. CASE End(t)
  <2>1. j.pc = "ending" /\ GoTo(t, IF Stopped(t) THEN "resetting" ELSE "closing")
    BY <1>7 DEF End, EndIf, At
  <2> QED BY <1>2, <1>4, <2>1 DEF Locked, Probing
<1>8. CASE ResetRow(t) \/ Finish(t)
  <2>1. j.pc \in {"resetting", "closing"} /\ GoTo(t, "leaving")
    BY <1>8 DEF ResetRow, Finish, At
  <2> QED BY <1>2, <1>4, <1>8, <2>1 DEF Locked, Probing
<1>9. CASE Logged(t)
  <2>1. j.pc = "logging"
    BY <1>9 DEF Logged, At
  <2>2. CASE Become(t, [j EXCEPT !.pc = "rechatting", !.token = login[t].session])
    <3>1. /\ tester'[t].key = j.key /\ tester'[t].creds = j.creds /\ tester'[t].cut = j.cut
          /\ tester'[t].pc = "rechatting" /\ \A u \in Tester \ {t} : tester'[u] = tester[u]
      <4>1. /\ tester'[t] = [j EXCEPT !.pc = "rechatting", !.token = login[t].session]
            /\ \A u \in Tester \ {t} : tester'[u] = tester[u]
        BY <1>3, <2>2
      <4> QED BY <1>1, <4>1 DEF TestJob
    <3> QED BY <1>2, <2>1, <3>1 DEF Locked, Probing
  <2>3. CASE Become(t, [j EXCEPT !.pc = "failed", !.why = login[t].text, !.cut = login[t].text = "cancelled"])
    <3>1. /\ tester'[t].key = j.key /\ tester'[t].creds = j.creds
          /\ tester'[t].cut = (login[t].text = "cancelled")
          /\ tester'[t].pc = "failed" /\ \A u \in Tester \ {t} : tester'[u] = tester[u]
      <4>1. /\ tester'[t] = [j EXCEPT !.pc = "failed", !.why = login[t].text,
                                      !.cut = login[t].text = "cancelled"]
            /\ \A u \in Tester \ {t} : tester'[u] = tester[u]
        BY <1>3, <2>3
      <4> QED BY <1>1, <4>1 DEF TestJob
    <3> QED BY <1>1, <1>2, <2>1, <3>1 DEF Locked, Probing
  <2> QED BY <1>9, <2>2, <2>3 DEF Logged
<1>10. CASE Rechat(t)
  <2>1. j.pc = "rechatting"
    BY <1>10 DEF Rechat, At
  <2>2. PICK answer \in ChatAnswers(t) :
          Become(t, IF answer = "fine" THEN [j EXCEPT !.pc = "passed"]
                    ELSE [j EXCEPT !.pc = "failed", !.why = answer, !.cut = answer = "cancelled"])
    BY <1>10 DEF Rechat
  <2>3. answer = "cancelled" => t \in gone
    <3>1. Cred(t).acct \in Account
      BY <1>1, <2>1, CredFacts DEF Probing, Credential
    <3>2. health[Cred(t).acct] \in {"fine", "muted", "banned"}
      BY <1>1, <3>1 DEF TestsTyped, RunnersTyped
    <3> QED BY <2>2, <3>2 DEF ChatAnswers
  <2>4. CASE answer = "fine"
    BY <1>2, <1>4, <2>1, <2>2, <2>4 DEF GoTo, Locked, Probing
  <2>5. CASE answer # "fine"
    <3>1. /\ tester'[t].key = j.key /\ tester'[t].creds = j.creds
          /\ tester'[t].cut = (answer = "cancelled")
          /\ tester'[t].pc = "failed" /\ \A u \in Tester \ {t} : tester'[u] = tester[u]
      <4>1. /\ tester'[t] = [j EXCEPT !.pc = "failed", !.why = answer, !.cut = answer = "cancelled"]
            /\ \A u \in Tester \ {t} : tester'[u] = tester[u]
        BY <1>3, <2>2, <2>5
      <4> QED BY <1>1, <4>1 DEF TestJob
    <3> QED BY <1>2, <2>1, <2>3, <3>1 DEF Locked, Probing
  <2> QED BY <2>4, <2>5
<1>11. CASE Restore(t)
  <2>1. /\ tester'[t].key = j.key /\ tester'[t].creds = j.creds /\ tester'[t].cut = j.cut
        /\ tester'[t].pc = "recording" /\ \A u \in Tester \ {t} : tester'[u] = tester[u]
    <3>1. /\ tester'[t] = [j EXCEPT !.pc = "recording", !.why = "fine"]
          /\ \A u \in Tester \ {t} : tester'[u] = tester[u]
      BY <1>3, <1>11 DEF Restore
    <3> QED BY <1>1, <3>1 DEF TestJob
  <2>2. j.pc = "restoring"
    BY <1>11 DEF Restore, At
  <2> QED BY <1>2, <2>1, <2>2 DEF Locked, Probing
<1>12. CASE Record(t)
  <2> DEFINE v == Tallied(j)
  <2>1. v \in TestJob /\ v.key = j.key /\ v.creds = j.creds /\ v.cut = j.cut
    <3>1. v \in TestJob /\ v.creds = j.creds
      BY <1>1, TalliedFacts
    <3>2. v.key = j.key /\ v.cut = j.cut
      BY <1>1 DEF Tallied, TestJob
    <3> QED BY <3>1, <3>2
  <2>2. Become(t, [v EXCEPT !.pc = IF cancelled[j.key] THEN "next" ELSE "posting"]) /\ j.pc = "recording"
    BY <1>12 DEF Record, At
  <2> HIDE DEF v
  <2>3. /\ tester'[t].key = j.key /\ tester'[t].creds = j.creds /\ tester'[t].cut = j.cut
        /\ tester'[t].pc \in {"next", "posting"} /\ \A u \in Tester \ {t} : tester'[u] = tester[u]
    BY <1>3, <2>1, <2>2 DEF TestJob
  <2> QED BY <1>2, <2>2, <2>3 DEF Locked, Probing
<1> QED BY <1>5, <1>6, <1>7, <1>8, <1>9, <1>10, <1>11, <1>12 DEF Work

LEMMA Becomes ==
  ASSUME Typed, NEW t \in Tester, NEW v, Become(t, v)
  PROVE  tester'[t] = v /\ \A u \in Tester \ {t} : tester'[u] = tester[u]
BY DEF Become, Typed, TestsTyped, JobsTyped

LEMMA ListingFacts ==
  ASSUME Typed, NEW t \in Tester, Listing(t)
  PROVE  /\ \A u \in Tester \ {t} : tester'[u] = tester[u]
         /\ tester[t].pc = "unused" /\ tester'[t].pc = "listed" /\ ~tester'[t].cut
         /\ UNCHANGED <<keys, jobs, holder, gone, cancelled, disturbed, torn>>
<1>1. PICK k \in Key, order \in Orders : List(t, k, order.named, order.activeOnly)
  BY DEF Listing
<1> DEFINE creds == ListPoolAccountCredentials(k, order.named, order.activeOnly)
<1>2. /\ tester[t].pc = "unused" /\ Become(t, [Unused EXCEPT !.pc = "listed", !.key = k, !.creds = creds])
      /\ UNCHANGED <<keys, jobs, holder, gone, cancelled, disturbed, torn>>
  BY <1>1 DEF List, At, Quiet, tables, loginVars, runnerVars
<1> HIDE DEF creds
<1>3. /\ tester'[t] = [Unused EXCEPT !.pc = "listed", !.key = k, !.creds = creds]
      /\ \A u \in Tester \ {t} : tester'[u] = tester[u]
  BY <1>2, Becomes
<1>4. tester'[t].pc = "listed" /\ ~tester'[t].cut
  BY <1>3, UnusedTyped DEF JobTyped, TestJob
<1> QED BY <1>2, <1>3, <1>4

(* A job begins or, where its key is gone or the write is refused, is over. *)
LEMMA BeginFacts ==
  ASSUME Typed, NEW t \in Tester, Begin(t)
  PROVE  /\ \A u \in Tester \ {t} : tester'[u] = tester[u]
         /\ tester[t].pc = "listed" /\ (tester'[t].cut => tester[t].cut)
         /\ \/ /\ Exists(tester[t].key)
               /\ tester'[t] = [tester[t] EXCEPT !.pc = "queued"]
               /\ tester'[t].pc = "queued" /\ tester'[t].key = tester[t].key
               /\ StartAccountTestJob(tester[t].key, Len(tester[t].creds))
               /\ torn' = torn \ {tester[t].key}
               /\ OthersOf(t, tester[t].key) # {} => {t} \cup OthersOf(t, tester[t].key) \subseteq disturbed'
            \/ tester'[t].pc = "gone" /\ UNCHANGED <<jobs, torn>>
         /\ UNCHANGED <<keys, holder, gone, cancelled>>
<1> DEFINE j == tester[t]
<1>1. j.pc = "listed" /\ UNCHANGED <<keys, holder, gone, cancelled>>
  BY DEF Begin, At, StartAccountTestJob, loginVars, runnerVars, tables
<1>2. CASE /\ Exists(j.key)
           /\ StartAccountTestJob(j.key, Len(j.creds))
           /\ GoTo(t, "queued")
           /\ disturbed' = IF OthersOf(t, j.key) # {} THEN disturbed \cup {t} \cup OthersOf(t, j.key)
                           ELSE disturbed
           /\ torn' = torn \ {j.key}
  <2>1. tester'[t] = [j EXCEPT !.pc = "queued"] /\ \A u \in Tester \ {t} : tester'[u] = tester[u]
    BY <1>2, Becomes DEF GoTo
  <2>2. tester'[t].pc = "queued" /\ tester'[t].key = j.key /\ tester'[t].cut = j.cut
    BY <2>1 DEF Typed, TestsTyped, JobsTyped, TestJob
  <2>3. OthersOf(t, j.key) # {} => {t} \cup OthersOf(t, j.key) \subseteq disturbed'
    BY <1>2
  <2> QED BY <1>1, <1>2, <2>1, <2>2, <2>3
<1>3. CASE Become(t, Ended) /\ UNCHANGED <<tables, disturbed, torn>>
  <2>1. tester'[t] = Ended /\ \A u \in Tester \ {t} : tester'[u] = tester[u]
    BY <1>3, Becomes
  <2>2. UNCHANGED <<jobs, torn>>
    BY <1>3 DEF tables
  <2> QED BY <1>1, <2>1, <2>2, UnusedTyped
<1> QED BY <1>2, <1>3 DEF Begin

LEMMA LockFacts ==
  ASSUME Typed, NEW t \in Tester, Lock(t)
  PROVE  /\ \A u \in Tester \ {t} : tester'[u] = tester[u]
         /\ tester[t].pc = "queued" /\ holder[tester[t].key] = Nobody
         /\ tester'[t] = [tester[t] EXCEPT !.pc = "next"]
         /\ tester'[t].pc = "next" /\ tester'[t].key = tester[t].key /\ tester'[t].cut = tester[t].cut
         /\ holder' = [holder EXCEPT ![tester[t].key] = t]
         /\ UNCHANGED <<keys, jobs, gone, disturbed, torn>>
<1> DEFINE j == tester[t]
<1>1. tester'[t] = [j EXCEPT !.pc = "next"] /\ \A u \in Tester \ {t} : tester'[u] = tester[u]
  BY Becomes DEF Lock, GoTo
<1>2. tester'[t].pc = "next" /\ tester'[t].key = j.key /\ tester'[t].cut = j.cut
  BY <1>1 DEF Typed, TestsTyped, JobsTyped, TestJob
<1> QED BY <1>1, <1>2 DEF Lock, At, tables, loginVars

LEMMA LeaveFacts ==
  ASSUME Typed, NEW t \in Tester, Leave(t)
  PROVE  /\ \A u \in Tester \ {t} : tester'[u] = tester[u]
         /\ tester[t].pc = "leaving" /\ tester'[t].pc = "gone" /\ ~tester'[t].cut
         /\ holder' = [holder EXCEPT ![tester[t].key] = Nobody]
         /\ cancelled' = [cancelled EXCEPT ![tester[t].key] = FALSE]
         /\ UNCHANGED <<keys, jobs, gone, disturbed, torn>>
<1>1. tester'[t] = Ended /\ \A u \in Tester \ {t} : tester'[u] = tester[u]
  BY Becomes DEF Leave
<1> QED BY <1>1, UnusedTyped DEF Leave, At, tables, loginVars

(* Keys and restarts, as far as jobs are concerned. *)
LEMMA KeyFacts ==
  ASSUME Typed, ManageKeys
  PROVE  /\ UNCHANGED <<tester, holder, gone, cancelled>>
         /\ \A k \in Key : \/ jobs'[k] = jobs[k]
                           \/ jobs'[k].status = "missing" /\ jobs'[k].results = << >>
<1>1. UNCHANGED <<tester, holder, gone, cancelled>>
  BY DEF ManageKeys, CreateKey, ToggleKey, DeleteKey, RotateKey, LoseRow, PoolOnly, loginVars, runnerVars
<1>2. Job("missing", 0).status = "missing" /\ Job("missing", 0).results = << >>
  BY DEF Job
<1>3. \A k \in Key : \/ jobs'[k] = jobs[k]
                    \/ jobs'[k] = Job("missing", 0)
  BY
  DEF ManageKeys, CreateKey, ToggleKey, DeleteKey, RotateKey, CreateGatewayKey, UpdateGatewayKeyMeta,
      DeleteGatewayKey, RotateGatewayAPIKey, Typed, TablesOk, DatabaseTyped
<1> QED BY <1>1, <1>2, <1>3

LEMMA RestartFacts ==
  ASSUME Typed, Restart \/ SecondServer
  PROVE  /\ UNCHANGED <<gone, keys>>
         /\ Restart => /\ \A k \in Key : holder'[k] = Nobody
                       /\ \A t \in Tester : tester'[t].pc \in {"unused", "gone"} /\ ~tester'[t].cut
         /\ SecondServer => UNCHANGED <<tester, holder, cancelled>>
         /\ \A k \in Key : /\ jobs'[k].status # "running"
                           /\ jobs[k].status # "running" => jobs'[k] = jobs[k]
                           /\ jobs[k].status = "running" => jobs'[k].results = << >>
<1>1. Job("idle", 0).status = "idle" /\ Job("idle", 0).results = << >>
  BY DEF Job
<1>2. ResetAllRunningAccountTestJobs
  BY DEF Restart, SecondServer
<1>3. \A k \in Key : jobs'[k] = IF jobs[k].status = "running" THEN Job("idle", 0) ELSE jobs[k]
  BY <1>2 DEF ResetAllRunningAccountTestJobs
<1>4. UNCHANGED <<gone, keys>>
  BY <1>2 DEF Restart, SecondServer, ResetAllRunningAccountTestJobs, loginVars
<1>5. SecondServer => UNCHANGED <<tester, holder, cancelled>>
  BY DEF SecondServer, runnerVars
<1>6. Restart => /\ \A k \in Key : holder'[k] = Nobody
                 /\ \A t \in Tester : tester'[t].pc \in {"unused", "gone"} /\ ~tester'[t].cut
  BY UnusedTyped DEF Restart
<1> QED BY <1>1, <1>3, <1>4, <1>5, <1>6

--------------------------------------------------------------------------------
(* The mutex *)

LEMMA MutexStep ==
  ASSUME Typed, MutexHeld, Next
  PROVE  MutexHeld'
<1>1. /\ \A t \in Tester : tester[t].key \in Key /\ t # Nobody
      /\ holder \in [Key -> Tester \cup {Nobody}]
  BY CallerAssumption DEF Typed, TestsTyped, JobsTyped, TestJob, RunnersTyped
<1>2. CASE UNCHANGED <<tester, holder>>
  BY <1>2 DEF MutexHeld
<1>3. ASSUME NEW t \in Tester, Work(t)
      PROVE  MutexHeld'
  BY <1>1, <1>3, WorkFacts DEF MutexHeld
<1>4. ASSUME NEW t \in Tester, Listing(t) \/ Begin(t)
      PROVE  MutexHeld'
  <2>1. /\ \A u \in Tester \ {t} : tester'[u] = tester[u]
        /\ tester[t].pc \in {"unused", "listed"} /\ tester'[t].pc \in {"listed", "queued", "gone"}
        /\ UNCHANGED holder
    BY <1>4, ListingFacts, BeginFacts
  <2> QED BY <1>1, <2>1 DEF MutexHeld, Locked, Probing
<1>5. ASSUME NEW t \in Tester, Lock(t)
      PROVE  MutexHeld'
  <2>1. /\ \A u \in Tester \ {t} : tester'[u] = tester[u]
        /\ tester[t].pc = "queued" /\ holder[tester[t].key] = Nobody
        /\ tester'[t].pc = "next" /\ tester'[t].key = tester[t].key
        /\ \A k \in Key : holder'[k] = IF k = tester[t].key THEN t ELSE holder[k]
    BY <1>1, <1>5, LockFacts
  <2>2. "next" \in Locked /\ "queued" \notin Locked
    BY DEF Locked, Probing
  <2> QED BY <1>1, <2>1, <2>2 DEF MutexHeld
<1>6. ASSUME NEW t \in Tester, Leave(t)
      PROVE  MutexHeld'
  <2>1. /\ \A u \in Tester \ {t} : tester'[u] = tester[u]
        /\ tester[t].pc = "leaving" /\ tester'[t].pc = "gone"
        /\ \A k \in Key : holder'[k] = IF k = tester[t].key THEN Nobody ELSE holder[k]
    BY <1>1, <1>6, LeaveFacts
  <2>2. "gone" \notin Locked /\ "leaving" \in Locked
    BY DEF Locked, Probing
  <2> QED BY <1>1, <2>1, <2>2 DEF MutexHeld
<1>7. CASE Restart
  <2>1. \A t \in Tester : tester'[t].pc \notin Locked
    BY <1>7, RestartFacts DEF Locked, Probing
  <2> QED BY <1>7, <2>1, RestartFacts DEF MutexHeld
<1>8. CASE ManageKeys \/ SecondServer \/ Calm
  BY <1>2, <1>8, KeyFacts, RestartFacts DEF Calm
<1> QED BY <1>3, <1>4, <1>5, <1>6, <1>7, <1>8, StepKinds

--------------------------------------------------------------------------------
(* The rows of the jobs *)

LEMMA KeyRow ==
  ASSUME Typed, NEW t \in Tester
  PROVE  /\ tester[t].key \in Key /\ jobs \in [Key -> JobRow] /\ jobs[tester[t].key] \in JobRow
         /\ ~Exists(tester[t].key) => jobs[tester[t].key].status = "missing"
         /\ jobs[tester[t].key].status = "missing" => jobs[tester[t].key].results = << >>
BY CredFacts DEF Typed, TablesOk, DatabaseTyped, RowsFollowKeys

LEMMA BeginRow ==
  ASSUME Typed, NEW t \in Tester, Begin(t)
  PROVE  /\ \A k \in Key : k # tester[t].key => jobs'[k] = jobs[k]
         /\ tester'[t].pc = "queued" =>
              /\ jobs'[tester[t].key] = Job("running", Len(tester[t].creds))
              /\ jobs'[tester[t].key].status = "running" /\ jobs'[tester[t].key].results = << >>
         /\ tester'[t].pc # "queued" => jobs' = jobs
<1> DEFINE key == tester[t].key
<1>1. \/ tester'[t].pc = "queued" /\ jobs' = [jobs EXCEPT ![key] = Job("running", Len(tester[t].creds))]
      \/ tester'[t].pc # "queued" /\ jobs' = jobs
  BY BeginFacts DEF StartAccountTestJob, PutJob
<1>2. /\ Job("running", Len(tester[t].creds)).status = "running"
      /\ Job("running", Len(tester[t].creds)).results = << >>
  BY DEF Job
<1> QED BY <1>1, <1>2, KeyRow

(* A write that is refused leaves a trace: the job or its key is marked. *)
LEMMA ResetRowRow ==
  ASSUME Typed, NEW t \in Tester, ResetRow(t)
  PROVE  /\ \A k \in Key : k # tester[t].key => jobs'[k] = jobs[k]
         /\ \/ jobs'[tester[t].key].status # "running" /\ jobs'[tester[t].key].results = << >>
            \/ tester[t].key \in torn'
<1> DEFINE key == tester[t].key
<1>1. CASE ResetAccountTestJob(key)
  <2>1. jobs' = IF Exists(key) THEN [jobs EXCEPT ![key] = Job("idle", 0)] ELSE jobs
    BY <1>1 DEF ResetAccountTestJob, PutJob
  <2>2. Job("idle", 0).status = "idle" /\ Job("idle", 0).results = << >>
    BY DEF Job
  <2> QED BY <2>1, <2>2, KeyRow
<1>2. CASE TearRow(t)
  BY <1>2 DEF TearRow, tables
<1> QED BY <1>1, <1>2 DEF ResetRow

LEMMA PostRow ==
  ASSUME Typed, NEW t \in Tester, Post(t)
  PROVE  /\ \A k \in Key : k # tester[t].key => jobs'[k] = jobs[k]
         /\ jobs'[tester[t].key].status = jobs[tester[t].key].status
         /\ \/ /\ jobs[tester[t].key].status = "running"
               /\ jobs'[tester[t].key].results = Append(jobs[tester[t].key].results, Result(t))
               /\ jobs'[tester[t].key].total = jobs[tester[t].key].total
               /\ SameCounts(jobs'[tester[t].key], tester[t])
            \/ jobs' = jobs /\ (t \in disturbed' \/ jobs[tester[t].key].status # "running")
<1> DEFINE key == tester[t].key
           row == jobs[key]
           posted == [row EXCEPT !.results = Append(row.results, Result(t)), !.done = tester[t].done,
                        !.ok = tester[t].ok, !.failed = tester[t].failed, !.skipped = tester[t].skipped]
<1>1. CASE UpdateAccountTestJobProgress(key, Result(t), tester[t])
  <2>1. jobs' = IF row.status = "running" THEN [jobs EXCEPT ![key] = posted] ELSE jobs
    BY <1>1 DEF UpdateAccountTestJobProgress
  <2>2. /\ posted.status = row.status /\ posted.results = Append(row.results, Result(t))
        /\ posted.total = row.total /\ SameCounts(posted, tester[t])
    BY KeyRow DEF JobRow, SameCounts
  <2> HIDE DEF posted
  <2> QED BY <2>1, <2>2, KeyRow
<1>2. CASE disturbed' = disturbed \cup {t} /\ UNCHANGED tables
  BY <1>2 DEF tables
<1> QED BY <1>1, <1>2 DEF Post

LEMMA FinishRow ==
  ASSUME Typed, NEW t \in Tester, Finish(t)
  PROVE  /\ \A k \in Key : k # tester[t].key => jobs'[k] = jobs[k]
         /\ jobs'[tester[t].key].results = jobs[tester[t].key].results
         /\ \/ /\ jobs'[tester[t].key].status # "running"
               /\ jobs[tester[t].key].status # "missing" =>
                    /\ jobs'[tester[t].key].status = "completed"
                    /\ jobs'[tester[t].key].total = jobs[tester[t].key].total
                    /\ SameCounts(jobs'[tester[t].key], tester[t])
            \/ t \in disturbed' /\ tester[t].key \in torn'
<1> DEFINE key == tester[t].key
           row == jobs[key]
           closed == [row EXCEPT !.status = "completed", !.done = tester[t].done,
                        !.ok = tester[t].ok, !.failed = tester[t].failed, !.skipped = tester[t].skipped]
<1>1. CASE FinishAccountTestJob(key, tester[t])
  <2>1. jobs' = IF row.status # "missing" THEN [jobs EXCEPT ![key] = closed] ELSE jobs
    BY <1>1 DEF FinishAccountTestJob
  <2>2. /\ closed.status = "completed" /\ closed.results = row.results
        /\ closed.total = row.total /\ SameCounts(closed, tester[t])
    BY KeyRow DEF JobRow, SameCounts
  <2> HIDE DEF closed
  <2> QED BY <2>1, <2>2, KeyRow
<1>2. CASE TearRow(t)
  BY <1>2 DEF TearRow, tables
<1> QED BY <1>1, <1>2 DEF Finish

(* Work touches the row of the job's own key only. *)
LEMMA WorkRows ==
  ASSUME Typed, NEW t \in Tester, Work(t)
  PROVE  \A k \in Key : k # tester[t].key => jobs'[k] = jobs[k]
BY WorkFacts, PostRow, ResetRowRow, FinishRow

(* A row that a job failed to end is one no more when a job of the key begins *)
(* or the row goes or is reset.                                               *)
LEMMA MendedRows ==
  ASSUME Typed, Next, NEW k \in Key, k \in torn, k \notin torn'
  PROVE  \/ \E t \in Tester : Begin(t) /\ tester[t].key = k /\ tester'[t].pc = "queued"
         \/ jobs'[k].status # "running" /\ jobs'[k].results = << >>
<1>1. ASSUME NEW t \in Tester, Listing(t) \/ Lock(t) \/ Leave(t)
      PROVE  FALSE
  BY <1>1, ListingFacts, LockFacts, LeaveFacts
<1>2. ASSUME NEW t \in Tester, Begin(t)
      PROVE  tester[t].key = k /\ tester'[t].pc = "queued"
  BY <1>2, BeginFacts
<1>3. ASSUME NEW t \in Tester, Work(t)
      PROVE  jobs'[k].status # "running" /\ jobs'[k].results = << >>
  <2>1. CASE ResetRow(t)
    <3>1. tester[t].key = k
      BY <2>1 DEF ResetRow, TearRow
    <3> QED BY <2>1, <3>1, ResetRowRow
  <2>2. CASE ~ResetRow(t)
    <3>1. torn \subseteq torn'
      BY <1>3, <2>2
      DEF Work, NextAccount, Chat, Logged, Rechat, Condemn, KeepToken, Restore, Record, Post, End, EndIf,
          Finish, TearRow, Quiet, RunnersQuiet
    <3> QED BY <3>1
  <2> QED BY <2>1, <2>2
<1>4. CASE ManageKeys
  <2>1. PICK old \in Key, new \in Key : DeleteKey(old) \/ RotateKey(old, new)
    BY <1>4 DEF ManageKeys, CreateKey, ToggleKey, PoolOnly
  <2>2. old = k /\ jobs \in [Key -> JobRow]
    BY <2>1 DEF DeleteKey, RotateKey, LoseRow, Typed, TablesOk, DatabaseTyped
  <2>3. jobs'[k] = Job("missing", 0)
    BY <2>1, <2>2 DEF DeleteKey, RotateKey, DeleteGatewayKey, RotateGatewayAPIKey
  <2> QED BY <2>3 DEF Job
<1>5. CASE Restart \/ SecondServer
  <2>1. jobs[k].status = "running"
    BY <1>5 DEF Restart, SecondServer, Running
  <2> QED BY <1>5, <2>1, RestartFacts
<1>6. CASE Calm
  BY <1>6 DEF Calm
<1> QED BY <1>1, <1>2, <1>3, <1>4, <1>5, <1>6, StepKinds

--------------------------------------------------------------------------------
(* Behind every running row there is a job *)

LEMMA BackedStep ==
  ASSUME Typed, Backed, Next
  PROVE  Backed'
<1> DEFINE Backs(t, k) == tester[t].pc \in Underway \ {"leaving"} /\ tester[t].key = k
<1> SUFFICES ASSUME NEW k \in Key, jobs'[k].status = "running", k \notin torn'
             PROVE  \E t \in Tester : tester'[t].pc \in Underway \ {"leaving"} /\ tester'[t].key = k
  BY DEF Backed
<1>1. CASE k \in torn
  <2>1. PICK t \in Tester : Begin(t) /\ tester[t].key = k /\ tester'[t].pc = "queued"
    BY <1>1, MendedRows
  <2>2. tester'[t].key = k /\ "queued" \in Underway \ {"leaving"}
    BY <2>1, BeginFacts DEF Underway
  <2> QED BY <2>1, <2>2
<1> SUFFICES ASSUME k \notin torn
             PROVE  \E t \in Tester : tester'[t].pc \in Underway \ {"leaving"} /\ tester'[t].key = k
  BY <1>1
<1>2. jobs[k].status = "running" => \E t \in Tester : Backs(t, k)
  BY DEF Backed
<1>3. CASE UNCHANGED tester /\ jobs[k].status = "running"
  BY <1>2, <1>3
<1>4. ASSUME NEW t \in Tester, Listing(t)
      PROVE  \E u \in Tester : tester'[u].pc \in Underway \ {"leaving"} /\ tester'[u].key = k
  <2>1. jobs[k].status = "running" /\ "unused" \notin Underway
    BY <1>4, ListingFacts DEF Underway, Locked, Probing
  <2> QED BY <1>2, <1>4, <2>1, ListingFacts
<1>5. ASSUME NEW t \in Tester, Begin(t)
      PROVE  \E u \in Tester : tester'[u].pc \in Underway \ {"leaving"} /\ tester'[u].key = k
  <2>1. "listed" \notin Underway /\ "queued" \in Underway
    BY DEF Underway, Locked, Probing
  <2>2. CASE k = tester[t].key /\ tester'[t].pc = "queued"
    BY <1>5, <2>1, <2>2, BeginFacts
  <2>3. CASE ~(k = tester[t].key /\ tester'[t].pc = "queued")
    <3>1. jobs[k].status = "running"
      BY <1>5, <2>3, BeginRow
    <3>2. PICK u \in Tester : Backs(u, k)
      BY <1>2, <3>1
    <3>3. u # t
      BY <1>5, <2>1, <3>2, BeginFacts
    <3> QED BY <1>5, <3>2, <3>3, BeginFacts
  <2> QED BY <2>2, <2>3
<1>6. ASSUME NEW t \in Tester, Lock(t)
      PROVE  \E u \in Tester : tester'[u].pc \in Underway \ {"leaving"} /\ tester'[u].key = k
  <2>1. "next" \in Underway /\ jobs[k].status = "running"
    BY <1>6, LockFacts DEF Underway, Locked, Probing
  <2>2. PICK u \in Tester : Backs(u, k)
    BY <1>2, <2>1
  <2>3. /\ tester'[t].pc = "next" /\ tester'[t].key = tester[t].key
        /\ \A v \in Tester \ {t} : tester'[v] = tester[v]
    BY <1>6, LockFacts
  <2> QED BY <2>1, <2>2, <2>3
<1>7. ASSUME NEW t \in Tester, Work(t)
      PROVE  \E u \in Tester : tester'[u].pc \in Underway \ {"leaving"} /\ tester'[u].key = k
  <2>1. jobs[k].status = "running" /\ (ResetRow(t) \/ Finish(t) => k # tester[t].key)
    <3>1. ResetRow(t) \/ Finish(t) => k # tester[t].key
      BY ResetRowRow, FinishRow
    <3>2. jobs[k].status = "running"
      BY <1>7, <3>1, WorkFacts, WorkRows, PostRow
    <3> QED BY <3>1, <3>2
  <2>2. PICK u \in Tester : Backs(u, k)
    BY <1>2, <2>1
  <2>3. u # t => tester'[u] = tester[u]
    BY <1>7, WorkFacts
  <2>4. u = t => tester'[u].pc \in Locked \ {"leaving"} /\ tester'[u].key = tester[u].key
    BY <1>7, <2>1, <2>2, WorkFacts
  <2> QED BY <2>2, <2>3, <2>4 DEF Underway
<1>8. ASSUME NEW t \in Tester, Leave(t)
      PROVE  \E u \in Tester : tester'[u].pc \in Underway \ {"leaving"} /\ tester'[u].key = k
  <2>1. jobs[k].status = "running"
    BY <1>8, LeaveFacts
  <2> QED BY <1>2, <1>8, <2>1, LeaveFacts
<1>9. CASE ManageKeys
  <2>1. UNCHANGED tester /\ jobs[k].status = "running"
    BY <1>9, KeyFacts
  <2> QED BY <1>3, <2>1
<1>10. CASE Restart \/ SecondServer
  BY <1>10, RestartFacts
<1>11. CASE Calm
  BY <1>3, <1>11 DEF Calm
<1> QED BY <1>4, <1>5, <1>6, <1>7, <1>8, <1>9, <1>10, <1>11, StepKinds

(* A row that says "running" has a job behind it that will end it, however   *)
(* jobs overlap, are cancelled, lose their key or die with the process,      *)
(* where the database refuses writes too: a row without a job is one whose   *)
(* last write by a job was refused, until a job of the key begins.           *)
THEOREM RunningRowsAreBacked == Spec => []RunningIsBacked
<1>1. Init => Backed
  <2>1. Job("missing", 0).status = "missing"
    BY DEF Job
  <2> QED BY <2>1 DEF Init, DatabaseInit, Backed
<1>2. Typed /\ Backed /\ [Next]_vars => Backed'
  <2>1. UNCHANGED vars /\ Backed => Backed'
    BY DEF vars, tables, Backed
  <2> QED BY <2>1, BackedStep
<1>3. Backed => RunningIsBacked
  BY DEF Backed, RunningIsBacked, Alive, Underway, Locked, Probing
<1>4. Spec => []Backed
  BY <1>1, <1>2, TestsAreTyped, PTL DEF Spec
<1> QED BY <1>3, <1>4, PTL

--------------------------------------------------------------------------------
(* Probes cut short by a cancel *)

LEMMA NothingIn == \A i : i \notin DOMAIN << >>
<1>1. << >> \in Seq({}) /\ Len(<< >>) = 0
  BY EmptySeq
<1> QED BY <1>1, LenProperties

LEMMA CutsStep ==
  ASSUME Typed, MutexHeld, CutsAreReset, Next
  PROVE  CutsAreReset'
<1>0. /\ \A t \in Tester : tester[t].key \in Key /\ t # Nobody
      /\ holder \in [Key -> Tester \cup {Nobody}]
      /\ gone \subseteq Caller /\ Nobody \notin gone
  BY CallerAssumption DEF Typed, TestsTyped, JobsTyped, TestJob, RunnersTyped, LoginsSound
<1>10. \A k \in Key : HasCut(k)' /\ k \notin torn' => k \notin torn
  <2> SUFFICES ASSUME NEW k \in Key, k \in torn, k \notin torn'
               PROVE  ~HasCut(k)'
    OBVIOUS
  <2>1. jobs'[k].results = << >>
    BY MendedRows, BeginRow
  <2> QED BY <2>1, NothingIn DEF HasCut
<1>1. ASSUME UNCHANGED <<tester, holder>>, gone \subseteq gone',
             \A k \in Key : jobs'[k] = jobs[k] \/ jobs'[k].results = << >>
      PROVE  CutsAreReset'
  BY <1>1, <1>10 DEF CutsAreReset, HasCut
<1>2. ASSUME NEW t \in Tester, Listing(t) \/ Begin(t)
      PROVE  CutsAreReset'
  <2>1. /\ \A u \in Tester \ {t} : tester'[u] = tester[u]
        /\ tester[t].pc \in {"unused", "listed"} /\ (tester'[t].cut => tester[t].cut)
        /\ UNCHANGED <<holder, gone>>
    BY <1>2, ListingFacts, BeginFacts
  <2>2. \A k \in Key : jobs'[k] = jobs[k] \/ jobs'[k].results = << >>
    BY <1>2, ListingFacts, BeginRow
  <2>3. \A k \in Key : holder[k] # Nobody => holder[k] # t
    <3>1. tester[t].pc \notin Locked
      BY <2>1 DEF Locked, Probing
    <3> QED BY <3>1 DEF MutexHeld
  <2> QED BY <1>0, <1>10, <2>1, <2>2, <2>3 DEF CutsAreReset, HasCut
<1>3. ASSUME NEW t \in Tester, Lock(t)
      PROVE  CutsAreReset'
  <2>1. ~HasCut(tester[t].key) \/ tester[t].key \in torn
    BY <1>0, <1>3, LockFacts DEF CutsAreReset
  <2>2. \A k \in Key : holder[k] # Nobody => holder[k] # t
    <3>1. tester[t].pc \notin Locked
      BY <1>3, LockFacts DEF Locked, Probing
    <3> QED BY <3>1 DEF MutexHeld
  <2>3. /\ \A u \in Tester \ {t} : tester'[u] = tester[u]
        /\ tester'[t].cut = tester[t].cut /\ UNCHANGED <<jobs, gone, torn>>
        /\ \A k \in Key : k # tester[t].key => holder'[k] = holder[k]
    BY <1>0, <1>3, LockFacts
  <2>4. \A u \in Tester : tester'[u].cut => u \in gone'
    BY <2>3 DEF CutsAreReset
  <2>5. ASSUME NEW k \in Key, HasCut(k)', k \notin torn'
        PROVE  /\ jobs'[k].status = "running" /\ holder'[k] # Nobody /\ holder'[k] \in gone'
               /\ tester'[holder'[k]].pc \in Locked \ {"closing", "leaving"}
    <3>1. HasCut(k) /\ k \notin torn /\ k # tester[t].key
      BY <2>1, <2>3, <2>5 DEF HasCut
    <3> QED BY <1>0, <2>2, <2>3, <3>1 DEF CutsAreReset
  <2> QED BY <2>4, <2>5 DEF CutsAreReset
<1>4. ASSUME NEW t \in Tester, Leave(t)
      PROVE  CutsAreReset'
  <2>1. tester[t].pc = "leaving" /\ holder[tester[t].key] = t
    BY <1>4, LeaveFacts DEF MutexHeld, Locked
  <2>2. ~HasCut(tester[t].key) \/ tester[t].key \in torn
    BY <1>0, <2>1 DEF CutsAreReset
  <2>3. \A k \in Key : k # tester[t].key => holder[k] # t
    BY <1>0 DEF MutexHeld
  <2> QED BY <1>0, <1>4, <2>1, <2>2, <2>3, LeaveFacts DEF CutsAreReset, HasCut
<1>5. ASSUME NEW t \in Tester, Work(t)
      PROVE  CutsAreReset'
  <2>0. PICK key \in Key : tester[t].key = key
    BY <1>0
  <2>1. /\ holder[key] = t /\ key \in Key
        /\ \A k \in Key : k # key => holder[k] # t
    BY <2>0, <1>0, <1>5, WorkFacts DEF MutexHeld
  <2>2. \A u \in Tester : tester'[u].cut => u \in gone'
    BY <2>0, <1>5, WorkFacts DEF CutsAreReset
  <2>3. \A k \in Key \ {key} : jobs'[k] = jobs[k] /\ (holder[k] # Nobody => tester'[holder[k]] = tester[holder[k]])
    BY <2>0, <1>0, <1>5, <2>1, WorkFacts, WorkRows
  <2>4. \A k \in Key \ {key} : HasCut(k)' /\ k \notin torn' =>
          /\ jobs'[k].status = "running" /\ holder'[k] # Nobody /\ holder'[k] \in gone'
          /\ tester'[holder'[k]].pc \in Locked \ {"closing", "leaving"}
    <3> SUFFICES ASSUME NEW k \in Key \ {key}, HasCut(k)', k \notin torn'
                 PROVE  /\ jobs'[k].status = "running" /\ holder'[k] # Nobody /\ holder'[k] \in gone'
                        /\ tester'[holder'[k]].pc \in Locked \ {"closing", "leaving"}
      OBVIOUS
    <3>1. HasCut(k) /\ k \notin torn
      BY <1>10, <2>0, <2>3 DEF HasCut
    <3>2. UNCHANGED <<holder, gone>>
      BY <2>0, <1>5, WorkFacts
    <3> QED BY <2>0, <2>3, <3>1, <3>2 DEF CutsAreReset
  <2>5. ASSUME HasCut(key)', key \notin torn'
        PROVE  /\ jobs'[key].status = "running" /\ t \in gone'
               /\ tester'[t].pc \in Locked \ {"closing", "leaving"}
    <3>1. ~ResetRow(t)
      <4>1. ASSUME jobs'[key].results = << >>
            PROVE  FALSE
        BY <2>5, <4>1, NothingIn DEF HasCut
      <4> QED BY <2>0, <2>5, <4>1, ResetRowRow
    <3>2. CASE HasCut(key)
      <4>1. jobs[key].status = "running" /\ t \in gone /\ tester[t].pc \notin {"closing", "leaving"}
        <5>1. key \notin torn
          BY <1>10, <2>0, <2>5
        <5> QED BY <2>0, <2>1, <3>2, <5>1 DEF CutsAreReset
      <4>2. ~Finish(t)
        BY <2>0, <4>1 DEF Finish, At
      <4>3. jobs'[key].status = "running"
        BY <2>0, <1>5, <3>1, <4>1, <4>2, WorkFacts, PostRow
      <4>4. tester'[t].pc \in Locked \ {"closing", "leaving"} /\ t \in gone'
        BY <2>0, <1>5, <3>1, <4>1, <4>2, WorkFacts DEF Stopped
      <4> QED BY <2>0, <4>3, <4>4
    <3>3. CASE ~HasCut(key)
      <4>1. Post(t) /\ jobs[key].status = "running" /\ jobs'[key].results = Append(jobs[key].results, Result(t))
        <5>1. jobs'[key].results # jobs[key].results
          BY <2>0, <2>5, <3>3 DEF HasCut
        <5>2. Post(t) \/ Finish(t)
          BY <2>0, <1>5, <3>1, <5>1, WorkFacts
        <5> QED BY <2>0, <5>1, <5>2, PostRow, FinishRow
      <4>2. tester[t].pc = "posting" /\ Result(t) \in Shown /\ jobs[key].results \in Seq(Shown)
        BY <2>0, <2>1, <4>1, CredFacts DEF Post, At, Probing, Typed, TablesOk, DatabaseTyped, JobRow
      <4>3. \A i \in DOMAIN Append(jobs[key].results, Result(t)) :
              \/ i \in DOMAIN jobs[key].results
                 /\ Append(jobs[key].results, Result(t))[i] = jobs[key].results[i]
              \/ Append(jobs[key].results, Result(t))[i] = Result(t)
        BY <2>0, <4>2, AppendProperties, LenProperties
      <4>4. Result(t).cut
        <5>1. PICK i \in DOMAIN jobs'[key].results : jobs'[key].results[i].cut
          BY <2>0, <2>5 DEF HasCut
        <5>2. ~(i \in DOMAIN jobs[key].results /\ jobs'[key].results[i] = jobs[key].results[i])
          BY <2>0, <3>3, <5>1 DEF HasCut
        <5> QED BY <2>0, <4>1, <4>3, <5>1, <5>2
      <4>5. tester[t].cut /\ t \in gone
        BY <2>0, <4>4 DEF Result, CutsAreReset
      <4>6. tester'[t].pc = "next"
        BY <2>0, <4>1, Becomes DEF Post, GoTo, Typed, TestsTyped, JobsTyped, TestJob
      <4>7. jobs'[key].status = "running"
        BY <2>0, <4>1, PostRow
      <4> QED BY <2>0, <1>5, <4>5, <4>6, <4>7, WorkFacts DEF Locked, Probing
    <3> QED BY <2>0, <3>2, <3>3
  <2>6. HasCut(key)' /\ key \notin torn' =>
          /\ jobs'[key].status = "running" /\ holder'[key] # Nobody /\ holder'[key] \in gone'
          /\ tester'[holder'[key]].pc \in Locked \ {"closing", "leaving"}
    BY <2>0, <1>0, <1>5, <2>1, <2>5, WorkFacts
  <2>7. \A k \in Key : HasCut(k)' /\ k \notin torn' =>
          /\ jobs'[k].status = "running" /\ holder'[k] # Nobody /\ holder'[k] \in gone'
          /\ tester'[holder'[k]].pc \in Locked \ {"closing", "leaving"}
    BY <2>0, <2>4, <2>6
  <2> QED BY <2>0, <2>2, <2>7 DEF CutsAreReset
<1>6. CASE ManageKeys
  BY <1>1, <1>6, KeyFacts
<1>7. CASE SecondServer
  BY <1>1, <1>7, RestartFacts
<1>8. CASE Restart
  <2>1. ASSUME NEW k \in Key, HasCut(k)', k \notin torn'
        PROVE  FALSE
    <3>1. jobs'[k].results # << >>
      BY <2>1, NothingIn DEF HasCut
    <3>2. jobs[k].status # "running" /\ HasCut(k) /\ k \notin torn
      BY <1>8, <1>10, <2>1, <3>1, RestartFacts DEF HasCut
    <3> QED BY <3>2 DEF CutsAreReset
  <2> QED BY <1>8, <2>1, RestartFacts DEF CutsAreReset
<1>9. CASE Calm
  BY <1>1, <1>9 DEF Calm
<1> QED BY <1>2, <1>3, <1>4, <1>5, <1>6, <1>7, <1>8, <1>9, StepKinds

(* A probe that a cancel cut short is no result: a completed job never shows *)
(* it, though the context may end while the flag is down, unless the write   *)
(* that should have reset the row of the cancelled job was refused.          *)
THEOREM CancelsLeaveNoResults == Spec => []NoCancelledResults
<1>1. Init => MutexHeld /\ CutsAreReset
  <2> SUFFICES ASSUME Init PROVE MutexHeld /\ CutsAreReset
    OBVIOUS
  <2>1. Job("missing", 0).results = << >>
    BY DEF Job
  <2>2. \A k \in Key : ~HasCut(k) /\ holder[k] = Nobody
    BY <2>1, NothingIn DEF Init, DatabaseInit, HasCut
  <2>3. \A t \in Tester : tester[t].pc \notin Locked /\ ~tester[t].cut
    BY UnusedTyped DEF Init, Locked, Probing
  <2> QED BY <2>2, <2>3 DEF MutexHeld, CutsAreReset
<1>2. Typed /\ MutexHeld /\ CutsAreReset /\ [Next]_vars => (MutexHeld /\ CutsAreReset)'
  <2>1. UNCHANGED vars /\ MutexHeld /\ CutsAreReset => (MutexHeld /\ CutsAreReset)'
    BY DEF vars, tables, loginVars, runnerVars, MutexHeld, CutsAreReset, HasCut
  <2> QED BY <2>1, MutexStep, CutsStep
<1>3. CutsAreReset => NoCancelledResults
  BY DEF CutsAreReset, NoCancelledResults, HasCut
<1>4. Spec => [](MutexHeld /\ CutsAreReset)
  BY <1>1, <1>2, TestsAreTyped, PTL DEF Spec
<1> QED BY <1>3, <1>4, PTL

--------------------------------------------------------------------------------
(* Verdicts *)

(* What a job at work knows of its account. *)
LEMMA WorkWhy ==
  ASSUME Typed, NEW t \in Tester, Work(t)
  PROVE  \/ tester'[t].pc \notin Probing /\ tester'[t].why = tester[t].why
         \/ /\ tester[t].pc \in Probing
            /\ tester'[t].at = tester[t].at /\ tester'[t].why = tester[t].why
         \/ tester'[t].why \in {NoText, "skipped", "fine"}
         \/ tester'[t].why = login[t].text
         \/ /\ tester[t].pc \in Probing /\ tester'[t].at = tester[t].at
            /\ tester'[t].why \in ChatAnswers(t)
<1> DEFINE j == tester[t]
<1>1. j \in TestJob
  BY DEF Typed, TestsTyped, JobsTyped
<1>2. ASSUME NEW pc, GoTo(t, pc)
      PROVE  tester'[t].pc = pc /\ tester'[t].why = j.why /\ tester'[t].at = j.at
  <2>1. tester'[t] = [j EXCEPT !.pc = pc]
    BY <1>2, Becomes DEF GoTo
  <2> QED BY <1>1, <2>1 DEF TestJob
<1>3. CASE NextAccount(t)
  <2>1. CASE GoTo(t, "ending")
    BY <1>2, <2>1 DEF Probing
  <2> DEFINE job == [j EXCEPT !.at = j.at + 1, !.cut = FALSE, !.why = NoText, !.token = NoSession]
  <2>2. job \in TestJob /\ job.why = NoText
    <3>1. j.at + 1 \in Nat /\ NoText \in Why /\ NoSession \in Nat
      BY <1>1 DEF TestJob, NoSession, Why, Text
    <3> QED BY <1>1, <3>1 DEF TestJob
  <2>3. ASSUME NEW v, Become(t, v),
               \/ v = [job EXCEPT !.pc = "recording", !.why = "skipped"]
               \/ \E i : v = [job EXCEPT !.pc = "chatting", !.token = i]
               \/ v = [job EXCEPT !.pc = "logging"]
        PROVE  tester'[t].why \in {NoText, "skipped"}
    <3>1. tester'[t] = v
      BY <2>3, Becomes
    <3> HIDE DEF job
    <3> QED BY <2>2, <2>3, <3>1 DEF TestJob
  <2>4. CASE ~GoTo(t, "ending")
    BY <1>3, <2>3, <2>4 DEF NextAccount
  <2> QED BY <2>1, <2>4
<1>4. CASE Chat(t) \/ Condemn(t) \/ KeepToken(t)
  <2>1. j.pc \in Probing
    BY <1>4 DEF Chat, Condemn, KeepToken, At, Probing
  <2> QED BY <1>2, <1>4, <2>1 DEF Chat, Condemn, KeepToken
<1>5. CASE Post(t) \/ End(t) \/ ResetRow(t) \/ Finish(t)
  BY <1>2, <1>5 DEF Post, End, EndIf, ResetRow, Finish, Probing
<1>6. CASE Logged(t)
  <2>1. j.pc \in Probing
    BY <1>6 DEF Logged, At, Probing
  <2>2. CASE Become(t, [j EXCEPT !.pc = "rechatting", !.token = login[t].session])
    <3>1. tester'[t] = [j EXCEPT !.pc = "rechatting", !.token = login[t].session]
      BY <2>2, Becomes
    <3>2. tester'[t].why = j.why /\ tester'[t].at = j.at
      BY <1>1, <3>1 DEF TestJob
    <3> QED BY <2>1, <3>2
  <2>3. CASE Become(t, [j EXCEPT !.pc = "failed", !.why = login[t].text, !.cut = login[t].text = "cancelled"])
    <3>1. tester'[t] = [j EXCEPT !.pc = "failed", !.why = login[t].text, !.cut = login[t].text = "cancelled"]
      BY <2>3, Becomes
    <3>2. tester'[t].why = login[t].text
      BY <1>1, <3>1 DEF TestJob
    <3> QED BY <3>2
  <2> QED BY <1>6, <2>2, <2>3 DEF Logged
<1>7. CASE Rechat(t)
  <2>1. j.pc \in Probing
    BY <1>7 DEF Rechat, At, Probing
  <2>2. PICK answer \in ChatAnswers(t) :
          Become(t, IF answer = "fine" THEN [j EXCEPT !.pc = "passed"]
                    ELSE [j EXCEPT !.pc = "failed", !.why = answer, !.cut = answer = "cancelled"])
    BY <1>7 DEF Rechat
  <2>3. CASE answer = "fine"
    BY <1>2, <2>1, <2>2, <2>3 DEF GoTo
  <2>4. CASE answer # "fine"
    <3>1. tester'[t] = [j EXCEPT !.pc = "failed", !.why = answer, !.cut = answer = "cancelled"]
      BY <2>2, <2>4, Becomes
    <3>2. tester'[t].why = answer /\ tester'[t].at = j.at
      BY <1>1, <3>1 DEF TestJob
    <3> QED BY <2>1, <2>2, <3>2
  <2> QED BY <2>3, <2>4
<1>8. CASE Restore(t)
  <2>1. tester'[t] = [j EXCEPT !.pc = "recording", !.why = "fine"]
    BY <1>8, Becomes DEF Restore
  <2>2. tester'[t].why = "fine"
    BY <1>1, <2>1 DEF TestJob
  <2> QED BY <2>2
<1>9. CASE Record(t)
  <2> DEFINE v == Tallied(j)
  <2>1. v \in TestJob /\ v.at = j.at
    BY <1>1, TalliedFacts
  <2>2. v.why = j.why
    BY <1>1 DEF Tallied, TestJob
  <2> HIDE DEF v
  <2>3. tester'[t] = [v EXCEPT !.pc = IF cancelled[j.key] THEN "next" ELSE "posting"] /\ j.pc \in Probing
    BY <1>9, Becomes DEF Record, v, At, Probing
  <2>4. tester'[t].why = j.why /\ tester'[t].at = j.at
    BY <2>1, <2>2, <2>3 DEF TestJob
  <2> QED BY <2>3, <2>4
<1> QED BY <1>3, <1>4, <1>5, <1>6, <1>7, <1>8, <1>9 DEF Work

(* Who moves the logins. *)
LEMMA LoginKinds ==
  ASSUME Next
  PROVE  \/ UNCHANGED login \/ Restart
         \/ \E t \in Tester : NextAccount(t) \/ Chat(t) \/ Logged(t)
         \/ \E p \in Caller : LoginStep(p) \/ Load(p) \/ Refresh(p) \/ Refreshed(p)
<1>1. ASSUME NEW t \in Tester, Listing(t) \/ Begin(t) \/ Lock(t) \/ Leave(t) \/ Rechat(t) \/ Condemn(t)
                                 \/ KeepToken(t) \/ Restore(t) \/ Record(t) \/ Post(t) \/ End(t)
                                 \/ ResetRow(t) \/ Finish(t)
      PROVE  UNCHANGED login
  BY <1>1
  DEF Listing, List, Begin, Lock, Leave, Rechat, Condemn, KeepToken, Restore, Record, Post, End, EndIf, ResetRow,
      Finish, Quiet, RunnersQuiet, loginVars
<1>2. CASE ManageKeys \/ ManageAccounts \/ SecondServer
  BY <1>2
  DEF ManageKeys, CreateKey, ToggleKey, DeleteKey, RotateKey, LoseRow, ManageAccounts, SetDiscarded,
      RemoveAccounts, ImportCSV, ImportJSON, PoolOnly, SecondServer, loginVars
<1>3. CASE \/ MailArrives \/ Revoke \/ \E a \in Account : Judge(a)
           \/ \E k \in Key : EndContext(k) \/ RaiseFlag(k)
  BY <1>3 DEF MailArrives, Revoke, Judge, EndContext, RaiseFlag, loginVars
<1>4. CASE Internal
  <2>1. ASSUME NEW t \in Tester, TesterStep(t)
        PROVE  UNCHANGED login \/ NextAccount(t) \/ Chat(t) \/ Logged(t)
    BY <1>1, <2>1 DEF TesterStep
  <2> QED BY <1>1, <1>3, <1>4, <2>1 DEF Internal, TestLogin, Request, Listing
<1>5. CASE External
  BY <1>2, <1>3, <1>5 DEF External, Request
<1> QED BY <1>3, <1>4, <1>5 DEF Next

(* No login hears "forbidden" from a Clerk that does not say it. *)
LEMMA LoginTexts ==
  ASSUME {"forbidden", "forbidden chat"} \cap Fault = {}, Typed, \A p \in Caller : login[p].text # "forbidden", Next
  PROVE  \A p \in Caller : login'[p].text # "forbidden"
<1>1. LoginsSound /\ login \in [Caller -> LoginRecord]
  BY DEF Typed, LoginsSound
<1>2. ASSUME NEW p \in Caller, NEW l, Update(p, l), l.text # "forbidden"
      PROVE  \A q \in Caller : login'[q].text # "forbidden"
  <2>1. \A q \in Caller : login'[q] = IF q = p THEN l ELSE login[q]
    BY <1>1, <1>2 DEF Update
  <2> QED BY <1>2, <2>1
<1>3. NoLogin \in LoginRecord /\ NoLogin.text # "forbidden"
  BY NoLoginTyped, NoTextFacts DEF NoLogin
<1>4. ASSUME NEW p \in Caller, NEW a, NEW session, BeginLogin(p, a, session)
      PROVE  \A q \in Caller : login'[q].text # "forbidden"
  <2> DEFINE l == [NoLogin EXCEPT !.acct = a, !.session = session, !.held = session,
                                  !.pc = IF session = NoSession THEN "failed" ELSE "asking",
                                  !.text = IF session = NoSession THEN "missing" ELSE NoText]
  <2>1. l.text \in {"missing", NoText}
    BY <1>3 DEF LoginRecord
  <2>2. Update(p, l)
    BY <1>4 DEF BeginLogin
  <2> HIDE DEF l
  <2> QED BY <1>2, <2>1, <2>2, NoTextFacts
<1>5. ASSUME NEW p \in Caller, NEW a, NEW session,
             Update(p, [NoLogin EXCEPT !.pc = "holding", !.acct = a, !.held = session])
      PROVE  \A q \in Caller : login'[q].text # "forbidden"
  <2> DEFINE l == [NoLogin EXCEPT !.pc = "holding", !.acct = a, !.held = session]
  <2>1. l.text # "forbidden"
    BY <1>3 DEF LoginRecord
  <2>2. Update(p, l)
    BY <1>5
  <2> HIDE DEF l
  <2> QED BY <1>2, <2>1, <2>2
<1>6. ASSUME NEW p \in Caller, LoginStep(p)
      PROVE  \A q \in Caller : login'[q].text # "forbidden"
  <2> DEFINE l == login[p]
  <2>1. l \in LoginRecord
    BY <1>1
  <2>3. CASE TokenGranted(p)
    <3>1. Update(p, [l EXCEPT !.pc = "granted"])
      BY <2>3 DEF TokenGranted
    <3> QED BY <1>1, <2>1, <3>1 DEF Update, LoginRecord
  <2>4. CASE TokenRefused(p)
    <3>1. Update(p, [l EXCEPT !.pc = "signing", !.text = "refused"])
      BY <2>4 DEF TokenRefused
    <3> QED BY <1>1, <2>1, <3>1 DEF Update, LoginRecord
  <2>5. CASE AskFails(p) \/ SignInFails(p) \/ StoreFails(p)
    <3>1. PICK text \in {"cancelled", "transport", "lost", l.text} :
            Update(p, [l EXCEPT !.pc = "failed", !.text = text])
      BY <2>5 DEF AskFails, SignInFails, StoreFails, Fails
    <3> QED BY <1>1, <2>1, <3>1 DEF Update, LoginRecord
  <2>6. CASE SignIn(p)
    <3>1. Update(p, [l EXCEPT !.pc = "mailing", !.sid = signIns + 1])
      BY <2>6 DEF SignIn
    <3> QED BY <1>1, <2>1, <3>1 DEF Update, LoginRecord
  <2>7. CASE FindLink(p)
    <3>1. PICK link : Update(p, [l EXCEPT !.pc = "activating", !.link = link])
      BY <2>7 DEF FindLink
    <3> QED BY <1>1, <2>1, <3>1 DEF Update, LoginRecord
  <2>8. CASE Activate(p)
    <3>1. \/ Update(p, [l EXCEPT !.pc = "storing", !.session = l.sid])
          \/ Update(p, [l EXCEPT !.pc = "failed", !.text = "no session"])
      BY <2>8 DEF Activate
    <3> QED BY <1>1, <2>1, <3>1 DEF Update, LoginRecord
  <2>9. CASE StoreCredentials(p)
    <3>1. Update(p, [l EXCEPT !.pc = "asking"])
      BY <2>9 DEF StoreCredentials
    <3> QED BY <1>1, <2>1, <3>1 DEF Update, LoginRecord
  <2> QED BY <1>6, <2>3, <2>4, <2>5, <2>6, <2>7, <2>8, <2>9 DEF LoginStep
<1>7. ASSUME NEW t \in Tester, NextAccount(t) \/ Chat(t)
      PROVE  \A q \in Caller : login'[q].text # "forbidden"
  <2>1. CASE UNCHANGED login
    BY <2>1
  <2>2. CASE ~UNCHANGED login
    BY <1>4, <1>7, <2>2, CallerAssumption DEF NextAccount, Chat
  <2> QED BY <2>1, <2>2
<1>8. ASSUME NEW t \in Tester, Logged(t)
      PROVE  \A q \in Caller : login'[q].text # "forbidden"
  BY <1>2, <1>3, <1>8, CallerAssumption DEF Logged
<1>9. ASSUME NEW p \in Caller, Load(p) \/ Refresh(p) \/ Refreshed(p)
      PROVE  \A q \in Caller : login'[q].text # "forbidden"
  BY <1>4, <1>5, <1>9 DEF Load, Refresh, Refreshed
<1>10. CASE Restart
  BY <1>3, <1>10 DEF Restart
<1>11. CASE UNCHANGED login
  BY <1>11
<1> QED BY <1>6, <1>7, <1>8, <1>9, <1>10, <1>11, LoginKinds

(* Rows tell the truth: nobody but a test says that an account is muted or   *)
(* banned, and a test says what it heard.                                    *)
LEMMA SetPoolStateTells ==
  ASSUME Typed, \A a \in Account : rows[a].discarded => Tells(rows[a].reason, health[a]),
         NEW k, NEW A, NEW d \in BOOLEAN, NEW reason \in Reason, SetPoolState(k, A, d, reason),
         d => \A b \in Account \cap A : Tells(reason, health[b])
  PROVE  \A b \in Account : rows'[b].discarded => Tells(rows'[b].reason, health[b])
<1> SUFFICES ASSUME NEW b \in Account, rows'[b].discarded PROVE Tells(rows'[b].reason, health[b])
  OBVIOUS
<1>1. rows \in [Account -> Row]
  BY DEF Typed, TablesOk, DatabaseTyped
<1>2. rows'[b] = IF b \in A /\ IsBound(k, b)
                 THEN [rows[b] EXCEPT !.discarded = d, !.reason = IF d THEN reason ELSE NoText]
                 ELSE rows[b]
  BY DEF SetPoolState
<1>3. CASE b \in A /\ IsBound(k, b)
  <2>1. rows'[b].discarded = d /\ (d => rows'[b].reason = reason)
    BY <1>1, <1>2, <1>3 DEF Row
  <2> QED BY <1>3, <2>1
<1>4. CASE ~(b \in A /\ IsBound(k, b))
  BY <1>2, <1>4
<1> QED BY <1>3, <1>4

LEMMA RowsTell ==
  ASSUME Typed, \A a \in Account : rows[a].discarded => Tells(rows[a].reason, health[a]),
         NEW k, NEW a, NEW A, NEW s, NEW d, NEW reason,
         \/ UNCHANGED rows
         \/ a \in Account /\ AddAccountToPool(k, a, s)
         \/ /\ d \in BOOLEAN /\ reason \in Reason /\ SetPoolState(k, A, d, reason)
            /\ d => \A b \in Account \cap A : Tells(reason, health[b])
         \/ a \in Account /\ (UpdateAccountToken(a, s) \/ ClearAccountToken(a))
         \/ a \in Account /\ UpdateAccountClerkCredentials(a, s)
  PROVE  \A b \in Account : rows'[b].discarded => Tells(rows'[b].reason, health[b])
<1>1. rows \in [Account -> Row]
  BY DEF Typed, TablesOk, DatabaseTyped
<1>2. CASE a \in Account /\ AddAccountToPool(k, a, s)
  <2>1. rows' = [rows EXCEPT ![a] = [rows[a] EXCEPT !.here = TRUE, !.discarded = FALSE,
                                       !.session = IF s = NoSession THEN rows[a].session ELSE s]]
    BY <1>2 DEF AddAccountToPool
  <2>2. ~rows'[a].discarded /\ \A b \in Account \ {a} : rows'[b] = rows[b]
    BY <1>1, <1>2, <2>1 DEF Row
  <2> QED BY <2>2
<1>3. CASE /\ d \in BOOLEAN /\ reason \in Reason /\ SetPoolState(k, A, d, reason)
           /\ d => \A b \in Account \cap A : Tells(reason, health[b])
  BY <1>3, SetPoolStateTells
<1>4. CASE a \in Account /\ (UpdateAccountToken(a, s) \/ ClearAccountToken(a))
  <2>1. PICK x : rows' = [rows EXCEPT ![a].token = x]
    BY <1>4 DEF UpdateAccountToken, ClearAccountToken
  <2>2. \A b \in Account : rows'[b].discarded = rows[b].discarded /\ rows'[b].reason = rows[b].reason
    BY <1>1, <1>4, <2>1 DEF Row
  <2> QED BY <2>2
<1>5. CASE a \in Account /\ UpdateAccountClerkCredentials(a, s)
  <2>1. rows' = [rows EXCEPT ![a].session = s]
    BY <1>5 DEF UpdateAccountClerkCredentials
  <2>2. \A b \in Account : rows'[b].discarded = rows[b].discarded /\ rows'[b].reason = rows[b].reason
    BY <1>1, <1>5, <2>1 DEF Row
  <2> QED BY <2>2
<1> QED BY <1>2, <1>3, <1>4, <1>5

LEMMA ReasonTells ==
  ASSUME NEW why, why # "forbidden", NEW verdict, Tells(why, verdict)
  PROVE  Tells(ClassifyLoginError(why), verdict)
BY NoTextFacts DEF Tells, ClassifyLoginError, MutedSignal, BannedSignal

LEMMA RowsTellStep ==
  ASSUME Typed, NothingForbidden, VerdictsTold, Next
  PROVE  \A a \in Account : rows'[a].discarded => Tells(rows'[a].reason, health[a])
<1> DEFINE Told == \A a \in Account : rows'[a].discarded => Tells(rows'[a].reason, health[a])
<1> SUFFICES Told
  OBVIOUS
<1>0. \A a \in Account : rows[a].discarded => Tells(rows[a].reason, health[a])
  BY DEF VerdictsTold
<1>1. UNCHANGED rows => Told
  BY <1>0
<1>2. ASSUME NEW t \in Tester, Condemn(t) \/ KeepToken(t) \/ Restore(t)
      PROVE  Told
  <2>1. Cred(t).acct \in Account /\ tester[t].pc \in Probing
    BY <1>2, CredFacts DEF Typed, Condemn, KeepToken, Restore, At, Probing, Credential
  <2>2. ASSUME NEW d \in BOOLEAN, NEW reason \in Reason, d => Tells(reason, health[Cred(t).acct]),
               TrySetPoolState(t, d, reason)
        PROVE  Told
    <3>1. PICK A : A = {Cred(t).acct}
      OBVIOUS
    <3>2. UNCHANGED rows \/ SetPoolState(tester[t].key, A, d, reason)
      BY <2>2, <3>1 DEF TrySetPoolState, SetAccountPoolState, tables
    <3>3. d => \A b \in Account \cap A : Tells(reason, health[b])
      BY <2>2, <3>1
    <3>4. CASE UNCHANGED rows
      BY <1>1, <3>4
    <3>5. CASE SetPoolState(tester[t].key, A, d, reason)
      BY <1>0, <2>2, <3>3, <3>5, SetPoolStateTells
    <3> QED BY <3>2, <3>4, <3>5
  <2>3. CASE Condemn(t)
    <3>1. Tells(ClassifyLoginError(tester[t].why), health[Cred(t).acct])
      BY <2>1, ReasonTells DEF VerdictsTold, NothingForbidden
    <3>2. CASE UNCHANGED tables
      BY <1>1, <3>2 DEF tables
    <3>3. CASE TrySetPoolState(t, TRUE, ClassifyLoginError(tester[t].why))
      BY <2>2, <3>1, <3>3, VerdictReason
    <3> QED BY <2>3, <3>2, <3>3 DEF Condemn
  <2>4. CASE KeepToken(t)
    <3>1. UNCHANGED rows \/ UpdateAccountToken(Cred(t).acct, tester[t].token)
      BY <2>4 DEF KeepToken, tables
    <3> QED BY <1>0, <2>1, <3>1, RowsTell
  <2>5. CASE Restore(t)
    <3>1. NoText \in Reason /\ TrySetPoolState(t, FALSE, NoText)
      BY <2>5 DEF Restore, Reason
    <3>2. PICK d \in BOOLEAN : ~d /\ TrySetPoolState(t, d, NoText)
      BY <3>1, Zenon
    <3> QED BY <2>2, <3>1, <3>2
  <2> QED BY <1>2, <2>3, <2>4, <2>5
<1>3. ASSUME NEW p \in Caller, TestLogin(p)
      PROVE  Told
  <2>1. CASE StoreCredentials(p)
    <3>1. login[p].acct \in Account
      BY <2>1 DEF StoreCredentials, Hears, LoginAt, Typed, LoginsSound, LoginOk
    <3> QED BY <1>0, <2>1, <3>1, RowsTell DEF StoreCredentials
  <2>2. CASE UNCHANGED tables
    BY <1>1, <2>2 DEF tables
  <2> QED
    BY <1>3, <2>1, <2>2
    DEF TestLogin, LoginStep, TokenGranted, TokenRefused, AskFails, SignIn, FindLink, Activate,
        SignInFails, StoreFails
<1>4. ASSUME NEW p \in Caller, Load(p) \/ Refreshed(p) \/ Refresh(p)
      PROVE  Told
  <2>1. login[p].pc # "none" => login[p].acct \in Account
    BY DEF Typed, LoginsSound, LoginOk
  <2>2. CASE Load(p)
    BY <1>1, <2>2 DEF Load, tables
  <2>3. CASE Refresh(p)
    <3>1. login[p].acct \in Account /\ ClearAccountToken(login[p].acct)
      BY <2>1, <2>3 DEF Refresh, LoginAt
    <3> QED BY <1>0, <3>1, RowsTell
  <2>4. CASE Refreshed(p)
    <3>1. ClassifyLoginError(login[p].text) = NoText
      <4>1. login[p].text \in Text \ {"forbidden"}
        BY DEF Typed, LoginsSound, LoginRecord, NothingForbidden
      <4> QED BY <4>1, NoTextFacts DEF Text, ClassifyLoginError, MutedSignal, BannedSignal
    <3>2. login[p].acct \in Account
      BY <2>1, <2>4 DEF Refreshed
    <3>3. UNCHANGED tables \/ UpdateAccountToken(login[p].acct, login[p].session)
      BY <2>4, <3>1 DEF Refreshed
    <3> QED BY <1>0, <3>2, <3>3, RowsTell DEF tables
  <2> QED BY <1>4, <2>2, <2>3, <2>4
<1>5. CASE ManageAccounts
  <2>1. ASSUME NEW k \in Key, NEW accounts, SetDiscarded(k, accounts)
        PROVE  Told
    <3>1. "manual" \in Reason /\ NoText \in Reason /\ \A verdict : Tells("manual", verdict)
      BY DEF Reason, Tells
    <3> QED BY <1>0, <2>1, <3>1, RowsTell DEF SetDiscarded
  <2>2. ASSUME NEW k \in Key, NEW a \in Account, NEW session, ImportCSV(k, a) \/ ImportJSON(k, a, session)
        PROVE  Told
    BY <1>0, <2>2, RowsTell DEF ImportCSV, ImportJSON
  <2>3. ASSUME NEW k \in Key, NEW accounts, RemoveAccounts(k, accounts)
        PROVE  Told
    BY <1>1, <2>3 DEF RemoveAccounts, RemoveFromPool
  <2> QED BY <1>5, <2>1, <2>2, <2>3 DEF ManageAccounts
<1>6. CASE UNCHANGED rows
  BY <1>1, <1>6
<1>7. CASE ManageKeys
  BY <1>1, <1>7
  DEF ManageKeys, CreateKey, ToggleKey, DeleteKey, RotateKey, CreateGatewayKey, UpdateGatewayKeyMeta,
      DeleteGatewayKey, RotateGatewayAPIKey
<1>8. CASE \/ Restart \/ SecondServer \/ MailArrives \/ Revoke \/ \E a \in Account : Judge(a)
           \/ \E k \in Key : EndContext(k) \/ RaiseFlag(k)
  BY <1>1, <1>8
  DEF Restart, SecondServer, ResetAllRunningAccountTestJobs, MailArrives, Revoke, Judge, EndContext,
      RaiseFlag, tables
<1>9. ASSUME NEW t \in Tester, \/ Listing(t) \/ Begin(t) \/ Lock(t) \/ NextAccount(t) \/ Chat(t) \/ Logged(t)
                               \/ Rechat(t) \/ Record(t) \/ Post(t) \/ End(t) \/ ResetRow(t) \/ Finish(t) \/ Leave(t)
      PROVE  Told
  <2>1. UNCHANGED rows
    BY <1>9
    DEF Listing, List, Begin, StartAccountTestJob, Lock, NextAccount, Chat, Logged, Rechat, Record, Post,
        UpdateAccountTestJobProgress, End, EndIf, ResetRow, ResetAccountTestJob, Finish,
        FinishAccountTestJob, TearRow, Leave, Quiet, tables
  <2> QED BY <1>1, <2>1
<1> HIDE DEF Told
<1>10. CASE Internal
  <2>1. ASSUME NEW t \in Tester, Listing(t) \/ TesterStep(t)
        PROVE  Told
    BY <1>2, <1>9, <2>1 DEF TesterStep
  <2>2. \/ \E t \in Tester : Listing(t) \/ TesterStep(t)
        \/ \E k \in Key : EndContext(k)
        \/ \E p \in Caller : TestLogin(p) \/ Load(p) \/ Refreshed(p)
        \/ MailArrives
    BY <1>10 DEF Internal, Listing, Request
  <2> QED BY <1>3, <1>4, <1>8, <2>1, <2>2
<1>11. CASE External
  <2>1. \/ \E k \in Key : RaiseFlag(k)
        \/ \E p \in Caller : Refresh(p)
        \/ Revoke \/ ManageKeys \/ ManageAccounts \/ Restart \/ SecondServer
    BY <1>11 DEF External, Request
  <2> QED BY <1>4, <1>5, <1>7, <1>8, <2>1
<1> QED BY <1>8, <1>10, <1>11 DEF Next

LEMMA UnusedWhy == Unused.why = NoText /\ Ended.why = NoText
BY DEF Unused, Ended

(* A job outside its probes has heard nothing new. *)
LEMMA OutsideWhy ==
  ASSUME Typed, NEW t \in Tester, Listing(t) \/ Begin(t) \/ Lock(t) \/ Leave(t)
  PROVE  /\ \A u \in Tester \ {t} : tester'[u] = tester[u]
         /\ tester'[t].pc \notin Probing
         /\ tester'[t].why \in {NoText, tester[t].why}
<1>1. tester[t] \in TestJob
  BY DEF Typed, TestsTyped, JobsTyped
<1>2. CASE Listing(t)
  <2>1. PICK k, creds : Become(t, [Unused EXCEPT !.pc = "listed", !.key = k, !.creds = creds])
    BY <1>2 DEF Listing, List
  <2>2. tester'[t] = [Unused EXCEPT !.pc = "listed", !.key = k, !.creds = creds]
    BY <2>1, Becomes
  <2>3. tester'[t].why = NoText
    BY <2>2 DEF Unused
  <2> QED BY <1>2, <2>3, ListingFacts DEF Probing
<1>3. CASE Begin(t)
  <2>1. tester'[t] = [tester[t] EXCEPT !.pc = "queued"] \/ tester'[t] = Ended
    BY <1>3, Becomes DEF Begin, GoTo
  <2>2. tester'[t].why \in {NoText, tester[t].why}
    BY <1>1, <2>1, UnusedWhy DEF TestJob
  <2> QED BY <1>3, <2>2, BeginFacts DEF Probing
<1>4. CASE Lock(t)
  <2>1. tester'[t].why = tester[t].why
    BY <1>1, <1>4, LockFacts DEF TestJob
  <2> QED BY <1>4, <2>1, LockFacts DEF Probing
<1>5. CASE Leave(t)
  <2>1. tester'[t] = Ended
    BY <1>5, Becomes DEF Leave
  <2> QED BY <1>5, <2>1, UnusedWhy, LeaveFacts DEF Probing
<1> QED BY <1>2, <1>3, <1>4, <1>5

LEMMA ChatTells ==
  ASSUME {"forbidden", "forbidden chat"} \cap Fault = {}, NEW t \in Tester, health[Cred(t).acct] \in {"fine", "muted", "banned"},
         NEW answer \in ChatAnswers(t)
  PROVE  answer # "forbidden" /\ Tells(answer, health[Cred(t).acct])
BY DEF ChatAnswers, Tells

LEMMA TestersTellStep ==
  ASSUME {"forbidden", "forbidden chat"} \cap Fault = {}, Typed, NothingForbidden, VerdictsTold, Next
  PROVE  \A t \in Tester :
           /\ tester'[t].why # "forbidden"
           /\ tester'[t].pc \in Probing =>
                Tells(tester'[t].why, health[tester'[t].creds[tester'[t].at].acct])
<1> SUFFICES ASSUME NEW t \in Tester
             PROVE  /\ tester'[t].why # "forbidden"
                    /\ tester'[t].pc \in Probing =>
                         Tells(tester'[t].why, health[tester'[t].creds[tester'[t].at].acct])
  OBVIOUS
<1>1. /\ tester[t].why # "forbidden" /\ tester[t] \in TestJob /\ NoText # "forbidden"
      /\ tester[t].pc \in Probing => Tells(tester[t].why, health[tester[t].creds[tester[t].at].acct])
  BY NoTextFacts DEF NothingForbidden, VerdictsTold, Cred, Typed, TestsTyped, JobsTyped
<1>2. CASE tester'[t] = tester[t]
  BY <1>1, <1>2
<1>3. CASE Work(t)
  <2>1. tester'[t].creds = tester[t].creds
    BY <1>3, WorkFacts
  <2>2. CASE tester'[t].pc \notin Probing /\ tester'[t].why = tester[t].why
    BY <1>1, <2>2
  <2>3. CASE /\ tester[t].pc \in Probing
             /\ tester'[t].at = tester[t].at /\ tester'[t].why = tester[t].why
    BY <1>1, <2>1, <2>3
  <2>4. CASE tester'[t].why \in {NoText, "skipped", "fine"}
    BY <2>4, NoTextFacts DEF Tells
  <2>5. CASE tester'[t].why = login[t].text
    <3>1. login[t].text \in Text \ {"forbidden"}
      BY CallerAssumption DEF NothingForbidden, Typed, LoginsSound, LoginRecord
    <3> QED BY <2>5, <3>1, NoTextFacts DEF Text, Tells
  <2>6. CASE /\ tester[t].pc \in Probing /\ tester'[t].at = tester[t].at
             /\ tester'[t].why \in ChatAnswers(t)
    <3>1. Cred(t).acct \in Account
      BY <2>6, CredFacts DEF Typed, Credential
    <3>2. health[Cred(t).acct] \in {"fine", "muted", "banned"}
      BY <3>1 DEF Typed, TestsTyped, RunnersTyped
    <3> QED BY <2>1, <2>6, <3>2, ChatTells DEF Cred
  <2> QED BY <1>3, <2>2, <2>3, <2>4, <2>5, <2>6, WorkWhy
<1>4. CASE Listing(t) \/ Begin(t) \/ Lock(t) \/ Leave(t)
  BY <1>1, <1>4, OutsideWhy
<1>5. CASE Restart
  <2>1. tester'[t] \in {Unused, Ended} /\ tester'[t].pc \notin Probing
    BY <1>5, UnusedTyped, RestartFacts DEF Restart, Probing
  <2> QED BY <1>1, <2>1, UnusedWhy
<1>6. ASSUME NEW u \in Tester \ {t}, Listing(u) \/ Begin(u) \/ Lock(u) \/ Work(u) \/ Leave(u)
      PROVE  tester'[t] = tester[t]
  BY <1>6, OutsideWhy, WorkFacts
<1>7. CASE ManageKeys \/ SecondServer \/ Calm
  BY <1>2, <1>7, KeyFacts, RestartFacts DEF Calm
<1> QED BY <1>2, <1>3, <1>4, <1>5, <1>6, <1>7, StepKinds

LEMMA VerdictsStep ==
  ASSUME {"forbidden", "forbidden chat"} \cap Fault = {}, Typed, NothingForbidden, VerdictsTold, Next
  PROVE  (NothingForbidden /\ VerdictsTold)'
<1>1. NothingForbidden'
  BY LoginTexts, TestersTellStep DEF NothingForbidden
<1>2. CASE UNCHANGED health
  <2>1. \A t \in Tester : tester'[t].pc \in Probing =>
                            Tells(tester'[t].why, health'[tester'[t].creds[tester'[t].at].acct])
    BY <1>2, TestersTellStep
  <2>2. \A a \in Account : rows'[a].discarded => Tells(rows'[a].reason, health'[a])
    BY <1>2, RowsTellStep
  <2> QED BY <1>1, <2>1, <2>2 DEF VerdictsTold, Cred
<1>3. ASSUME NEW a \in Account, Judge(a)
      PROVE  VerdictsTold'
  <2>1. UNCHANGED <<rows, tester>> /\ health[a] = "fine" /\ health \in [Account -> {"fine", "muted", "banned"}]
    BY <1>3 DEF Judge, tables, Typed, TestsTyped, RunnersTyped
  <2>2. \A b \in Account : \A reason : Tells(reason, health[b]) => Tells(reason, health'[b])
    BY <1>3, <2>1 DEF Judge, Tells
  <2>3. \A t \in Tester : tester[t].pc \in Probing => Cred(t).acct \in Account
    BY CredFacts DEF Typed, Credential
  <2> QED BY <2>1, <2>2, <2>3 DEF VerdictsTold, Cred
<1> QED BY <1>1, <1>2, <1>3 DEF Next

(* Where neither Clerk's refusals nor what a completion fails with hold the  *)
(* word "forbidden", no account is retired as muted or banned unless it is:  *)
(* a failed login, a lost session or the network never does it.  Where a     *)
(* refusal of Clerk holds it, ForbiddenProbe.cfg shows the opposite.         *)
THEOREM VerdictsAreTold ==
  ASSUME {"forbidden", "forbidden chat"} \cap Fault = {}
  PROVE  Spec => []RetiredRightly
<1>1. Init => NothingForbidden /\ VerdictsTold
  <2> SUFFICES ASSUME Init PROVE NothingForbidden /\ VerdictsTold
    OBVIOUS
  <2>1. \A p \in Caller : login[p].text = NoText
    BY DEF Init, LoginInit, NoLogin
  <2>2. \A t \in Tester : tester[t].why = NoText /\ tester[t].pc \notin Probing
    BY UnusedWhy, UnusedTyped DEF Init, Probing
  <2>3. \A a \in Account : ~rows[a].discarded
    BY DEF Init, DatabaseInit, NoRow
  <2> QED BY <2>1, <2>2, <2>3, NoTextFacts DEF NothingForbidden, VerdictsTold
<1>2. Typed /\ NothingForbidden /\ VerdictsTold /\ [Next]_vars => (NothingForbidden /\ VerdictsTold)'
  <2>1. UNCHANGED vars /\ NothingForbidden /\ VerdictsTold => (NothingForbidden /\ VerdictsTold)'
    BY DEF vars, tables, loginVars, NothingForbidden, VerdictsTold, Cred
  <2> QED BY <2>1, VerdictsStep
<1>3. VerdictsTold => RetiredRightly
  BY DEF VerdictsTold, RetiredRightly, Tells
<1>4. Spec => [](NothingForbidden /\ VerdictsTold)
  BY <1>1, <1>2, TestsAreTyped, PTL DEF Spec
<1> QED BY <1>3, <1>4, PTL

--------------------------------------------------------------------------------
(* The row of a job that nobody disturbs *)

LEMMA OfNothing ==
  ASSUME NEW whys
  PROVE  Of(<< >>, whys) = 0
<1>1. {i \in DOMAIN << >> : << >>[i].why \in whys} = {}
  BY NothingIn
<1> QED BY <1>1, FS_EmptySet DEF Of

LEMMA OfOneMore ==
  ASSUME NEW results \in Seq(Shown), NEW r \in Shown, NEW whys
  PROVE  /\ Of(results, whys) \in Nat
         /\ Of(Append(results, r), whys) = IF r.why \in whys THEN Of(results, whys) + 1
                                           ELSE Of(results, whys)
<1> DEFINE n == Len(results)
           I == {i \in DOMAIN results : results[i].why \in whys}
           more == Append(results, r)
<1>1. n \in Nat /\ DOMAIN results = 1 .. n /\ DOMAIN more = 1 .. n + 1
  BY AppendProperties, LenProperties
<1>2. more[n + 1] = r /\ \A i \in 1 .. n : more[i] = results[i]
  BY AppendProperties
<1>3. IsFiniteSet(I) /\ n + 1 \notin I
  <2>1. IsFiniteSet(1 .. n) /\ n + 1 \notin 1 .. n
    BY <1>1, FS_Interval
  <2>2. I \in SUBSET (1 .. n)
    BY <1>1
  <2> HIDE DEF I, n
  <2> QED BY <2>1, <2>2, FS_Subset
<1>4. Cardinality(I) \in Nat /\ Cardinality(I \cup {n + 1}) = Cardinality(I) + 1
  BY <1>3, FS_AddElement, FS_CardinalityType
<1>5. {i \in DOMAIN more : more[i].why \in whys} = IF r.why \in whys THEN I \cup {n + 1} ELSE I
  <2> HIDE DEF more
  <2>1. \A i : i \in 1 .. n + 1 <=> i \in 1 .. n \/ i = n + 1
    BY <1>1
  <2>2. \A i : i \in {k \in DOMAIN more : more[k].why \in whys}
                 <=> i \in I \/ (i = n + 1 /\ r.why \in whys)
    BY <1>1, <1>2, <2>1
  <2> HIDE DEF I
  <2> QED BY <2>2
<1> QED BY <1>4, <1>5 DEF Of

(* How a job at work goes through its list. *)
LEMMA GoToTally ==
  ASSUME Typed, NEW t \in Tester, NEW pc, GoTo(t, pc)
  PROVE  /\ tester'[t].pc = pc /\ tester'[t].at = tester[t].at /\ tester'[t].why = tester[t].why
         /\ SameCounts(tester[t], tester'[t])
<1>1. tester'[t] = [tester[t] EXCEPT !.pc = pc]
  BY Becomes DEF GoTo
<1> QED BY <1>1 DEF Typed, TestsTyped, JobsTyped, TestJob, SameCounts

LEMMA NextTally ==
  ASSUME Typed, NEW t \in Tester, NextAccount(t)
  PROVE  /\ SameCounts(tester[t], tester'[t])
         /\ \/ /\ tester'[t].pc = "ending" /\ tester'[t].at = tester[t].at
               /\ Stopped(t) \/ tester[t].at + 1 > Len(tester[t].creds)
            \/ /\ tester'[t].pc \in Probing \ {"posting"}
               /\ tester'[t].at = tester[t].at + 1
               /\ ~Stopped(t)
<1> DEFINE j == tester[t]
           job == [j EXCEPT !.at = j.at + 1, !.cut = FALSE, !.why = NoText, !.token = NoSession]
<1>1. j \in TestJob
  BY DEF Typed, TestsTyped, JobsTyped
<1>2. job \in TestJob /\ job.at = j.at + 1 /\ SameCounts(j, job)
  <2>1. j.at + 1 \in Nat /\ NoText \in Why /\ NoSession \in Nat
    BY <1>1 DEF TestJob, NoSession, Why, Text
  <2>2. job.at = j.at + 1 /\ SameCounts(j, job)
    BY <1>1 DEF TestJob, SameCounts
  <2> QED BY <1>1, <2>1, <2>2 DEF TestJob
<1>3. ASSUME NEW v, Become(t, v),
             \/ v = [job EXCEPT !.pc = "recording", !.why = "skipped"]
             \/ \E i : v = [job EXCEPT !.pc = "chatting", !.token = i]
             \/ v = [job EXCEPT !.pc = "logging"]
      PROVE  /\ tester'[t].pc \in Probing \ {"posting"} /\ tester'[t].at = j.at + 1
             /\ SameCounts(j, tester'[t])
  <2>1. tester'[t] = v
    BY <1>3, Becomes
  <2> HIDE DEF job
  <2>2. /\ v.pc \in {"recording", "chatting", "logging"} /\ v.at = job.at
        /\ v.done = job.done /\ v.ok = job.ok /\ v.failed = job.failed /\ v.skipped = job.skipped
    BY <1>2, <1>3 DEF TestJob
  <2> QED BY <1>2, <2>1, <2>2 DEF Probing, SameCounts
<1>4. CASE Stopped(t) \/ j.at + 1 > Len(j.creds)
  <2>1. GoTo(t, "ending")
    BY <1>4 DEF NextAccount
  <2> QED BY <1>4, <2>1, GoToTally
<1>5. CASE ~(Stopped(t) \/ j.at + 1 > Len(j.creds))
  BY <1>3, <1>5 DEF NextAccount
<1> QED BY <1>4, <1>5

LEMMA ProbeTally ==
  ASSUME Typed, NEW t \in Tester,
         Chat(t) \/ Logged(t) \/ Rechat(t) \/ Condemn(t) \/ KeepToken(t) \/ Restore(t)
  PROVE  /\ tester[t].pc \in Probing \ {"posting"} /\ tester'[t].pc \in Probing \ {"posting"}
         /\ tester'[t].at = tester[t].at /\ SameCounts(tester[t], tester'[t])
<1> DEFINE j == tester[t]
<1>1. j \in TestJob
  BY DEF Typed, TestsTyped, JobsTyped
<1>2. CASE Chat(t) \/ Condemn(t) \/ KeepToken(t)
  <2>1. j.pc \in {"chatting", "failed", "passed"}
    BY <1>2 DEF Chat, Condemn, KeepToken, At
  <2>2. PICK pc \in {"passed", "logging", "recording", "restoring"} : GoTo(t, pc)
    BY <1>2 DEF Chat, Condemn, KeepToken
  <2> QED BY <2>1, <2>2, GoToTally DEF Probing
<1>3. CASE Logged(t)
  <2>1. j.pc = "logging"
    BY <1>3 DEF Logged, At
  <2>2. \/ Become(t, [j EXCEPT !.pc = "rechatting", !.token = login[t].session])
        \/ Become(t, [j EXCEPT !.pc = "failed", !.why = login[t].text, !.cut = login[t].text = "cancelled"])
    BY <1>3 DEF Logged
  <2>3. \/ tester'[t] = [j EXCEPT !.pc = "rechatting", !.token = login[t].session]
        \/ tester'[t] = [j EXCEPT !.pc = "failed", !.why = login[t].text, !.cut = login[t].text = "cancelled"]
    BY <2>2, Becomes
  <2>4. /\ tester'[t].pc \in {"rechatting", "failed"} /\ tester'[t].at = j.at
        /\ SameCounts(j, tester'[t])
    BY <1>1, <2>3 DEF TestJob, SameCounts
  <2> QED BY <2>1, <2>4 DEF Probing
<1>4. CASE Rechat(t)
  <2>1. j.pc = "rechatting"
    BY <1>4 DEF Rechat, At
  <2>2. PICK answer \in ChatAnswers(t) :
          Become(t, IF answer = "fine" THEN [j EXCEPT !.pc = "passed"]
                    ELSE [j EXCEPT !.pc = "failed", !.why = answer, !.cut = answer = "cancelled"])
    BY <1>4 DEF Rechat
  <2>3. \/ tester'[t] = [j EXCEPT !.pc = "passed"]
        \/ tester'[t] = [j EXCEPT !.pc = "failed", !.why = answer, !.cut = answer = "cancelled"]
    BY <2>2, Becomes
  <2>4. /\ tester'[t].pc \in {"passed", "failed"} /\ tester'[t].at = j.at
        /\ SameCounts(j, tester'[t])
    BY <1>1, <2>3 DEF TestJob, SameCounts
  <2> QED BY <2>1, <2>4 DEF Probing
<1>5. CASE Restore(t)
  <2>1. j.pc = "restoring" /\ Become(t, [j EXCEPT !.pc = "recording", !.why = "fine"])
    BY <1>5 DEF Restore, At
  <2>2. tester'[t] = [j EXCEPT !.pc = "recording", !.why = "fine"]
    BY <2>1, Becomes
  <2>3. tester'[t].pc = "recording" /\ tester'[t].at = j.at /\ SameCounts(j, tester'[t])
    BY <1>1, <2>2 DEF TestJob, SameCounts
  <2> QED BY <2>1, <2>3 DEF Probing
<1> QED BY <1>2, <1>3, <1>4, <1>5

LEMMA RecordTally ==
  ASSUME Typed, NEW t \in Tester, Record(t)
  PROVE  /\ tester[t].pc = "recording"
         /\ tester'[t].pc = IF cancelled[tester[t].key] THEN "next" ELSE "posting"
         /\ tester'[t].at = tester[t].at /\ tester'[t].why = tester[t].why
         /\ Counted(tester[t], tester[t].why, tester'[t])
<1> DEFINE j == tester[t]
           v == Tallied(j)
<1>1. j \in TestJob
  BY DEF Typed, TestsTyped, JobsTyped
<1>2. v \in TestJob /\ v.at = j.at
  BY <1>1, TalliedFacts
<1>3. v.why = j.why /\ Counted(j, j.why, v)
  <2>1. v.why = j.why /\ v.done = j.done + 1
    BY <1>1 DEF Tallied, TestJob
  <2>2. v.ok = IF j.why = "fine" THEN j.ok + 1 ELSE j.ok
    BY <1>1 DEF Tallied, TestJob
  <2>3. v.skipped = IF j.why = "skipped" THEN j.skipped + 1 ELSE j.skipped
    BY <1>1 DEF Tallied, TestJob
  <2>4. v.failed = IF j.why \in {"fine", "skipped"} THEN j.failed ELSE j.failed + 1
    BY <1>1 DEF Tallied, TestJob
  <2> QED BY <2>1, <2>2, <2>3, <2>4 DEF Counted
<1>4. /\ Become(t, [v EXCEPT !.pc = IF cancelled[j.key] THEN "next" ELSE "posting"])
      /\ j.pc = "recording"
  BY DEF Record, At
<1> HIDE DEF v
<1>5. tester'[t] = [v EXCEPT !.pc = IF cancelled[j.key] THEN "next" ELSE "posting"]
  BY <1>4, Becomes
<1>6. /\ tester'[t].pc = IF cancelled[j.key] THEN "next" ELSE "posting"
      /\ tester'[t].at = v.at /\ tester'[t].why = v.why /\ SameCounts(v, tester'[t])
  BY <1>2, <1>5 DEF TestJob, SameCounts
<1> QED BY <1>2, <1>3, <1>4, <1>6 DEF Counted, SameCounts

(* A result more in the row is an account more of the list. *)
LEMMA ExactOneMore ==
  ASSUME NEW row \in JobRow, NEW new, NEW creds \in Seq(Credential), NEW n \in 1 .. Len(creds),
         NEW r \in Shown, NEW j, r.acct = creds[n].acct,
         Exact(row, creds, n - 1), Counted(row, r.why, j), SameCounts(new, j),
         new.results = Append(row.results, r), new.status = "running", new.total = row.total
  PROVE  Exact(new, creds, n)
<1>1. /\ row.results \in Seq(Shown) /\ row.ok \in Nat /\ row.failed \in Nat /\ row.skipped \in Nat
      /\ Len(creds) \in Nat /\ n \in Nat /\ n <= Len(creds)
  BY LenProperties DEF JobRow
<1>2. /\ Len(row.results) = n - 1 /\ row.done = n - 1 /\ row.total = Len(creds)
      /\ \A i \in 1 .. n - 1 : row.results[i].acct = creds[i].acct
      /\ row.ok = Of(row.results, {"fine"}) /\ row.skipped = Of(row.results, {"skipped"})
      /\ row.ok + row.failed + row.skipped = n - 1
  BY DEF Exact
<1>3. Len(new.results) = n
  <2>1. Len(new.results) = Len(row.results) + 1
    BY <1>1, AppendProperties
  <2> QED BY <1>1, <1>2, <2>1
<1>4. \A i \in 1 .. n : new.results[i].acct = creds[i].acct
  <2> SUFFICES ASSUME NEW i \in 1 .. n PROVE new.results[i].acct = creds[i].acct
    OBVIOUS
  <2>1. /\ \A k \in 1 .. Len(row.results) : Append(row.results, r)[k] = row.results[k]
        /\ Append(row.results, r)[Len(row.results) + 1] = r
    BY <1>1, AppendProperties
  <2>2. CASE i = n
    <3>1. i = Len(row.results) + 1
      BY <1>1, <1>2, <2>2
    <3> QED BY <2>1, <2>2, <3>1
  <2>3. CASE i # n
    <3>1. i \in 1 .. n - 1
      BY <1>1, <2>3
    <3> QED BY <1>2, <2>1, <3>1
  <2> QED BY <2>2, <2>3
<1>5. /\ new.done = row.done + 1
      /\ new.ok = IF r.why = "fine" THEN row.ok + 1 ELSE row.ok
      /\ new.skipped = IF r.why = "skipped" THEN row.skipped + 1 ELSE row.skipped
      /\ new.failed = IF r.why \in {"fine", "skipped"} THEN row.failed ELSE row.failed + 1
  BY DEF Counted, SameCounts
<1>6. new.ok = Of(new.results, {"fine"}) /\ new.skipped = Of(new.results, {"skipped"})
  <2>1. Of(new.results, {"fine"}) = IF r.why \in {"fine"} THEN row.ok + 1 ELSE row.ok
    BY <1>1, <1>2, OfOneMore
  <2>2. Of(new.results, {"skipped"}) = IF r.why \in {"skipped"} THEN row.skipped + 1 ELSE row.skipped
    BY <1>1, <1>2, OfOneMore
  <2> QED BY <1>5, <2>1, <2>2
<1>7. new.ok + new.failed + new.skipped = n
  BY <1>1, <1>2, <1>5
<1>8. new.done = n
  BY <1>1, <1>2, <1>5
<1> QED BY <1>1, <1>2, <1>3, <1>4, <1>6, <1>7, <1>8 DEF Exact

(* The job takes its row along, whatever it does next, unless a write fails. *)
LEMMA OwnStep ==
  ASSUME Typed, NEW t \in Tester, Work(t), Followed(t), tester'[t].pc # "leaving", t \notin disturbed'
  PROVE  /\ Shows(jobs'[tester[t].key], tester'[t])
         /\ Stopped(t) \/ ShowsAll(jobs'[tester[t].key], tester'[t])
<1> DEFINE j == tester[t]
           row == jobs[j.key]
           new == jobs'[j.key]
<1>1. /\ j \in TestJob /\ j.at \in Nat /\ Len(j.creds) \in Nat /\ Len(j.creds) = Len(tester'[t].creds)
      /\ j.pc \in Probing => j.at \in 1 .. Len(j.creds)
      /\ tester'[t].creds = j.creds
  BY CredFacts, WorkFacts DEF Typed, TestsTyped, JobsTyped, JobTyped, TestJob
<1>2. Shows(row, j) /\ (Stopped(t) \/ ShowsAll(row, j))
  BY DEF Followed
<1>3. SameCounts(row, j) /\ SameCounts(j, tester'[t]) => SameCounts(row, tester'[t])
  BY DEF SameCounts
<1>4. CASE NextAccount(t)
  <2>1. j.pc = "next" /\ new = row
    BY <1>4 DEF NextAccount, At, tables
  <2>2. ~Stopped(t) => Exact(row, j.creds, j.at) /\ SameCounts(row, j) /\ j.at <= Len(j.creds)
    BY <1>2, <2>1 DEF ShowsAll, Exact
  <2>3. CASE /\ tester'[t].pc = "ending" /\ tester'[t].at = j.at
             /\ Stopped(t) \/ j.at + 1 > Len(j.creds)
    <3>1. Shows(new, tester'[t])
      BY <2>3 DEF Shows, Probing
    <3>2. CASE ~Stopped(t)
      <4>1. j.at = Len(j.creds)
        BY <1>1, <2>2, <2>3, <3>2
      <4> QED BY <1>1, <1>3, <1>4, <2>1, <2>2, <2>3, <3>1, <3>2, <4>1, NextTally DEF ShowsAll
    <3> QED BY <3>1, <3>2
  <2>4. CASE /\ tester'[t].pc \in Probing \ {"posting"} /\ tester'[t].at = j.at + 1 /\ ~Stopped(t)
    <3>1. tester'[t].at - 1 = j.at
      BY <1>1, <2>4
    <3> QED BY <1>1, <1>3, <1>4, <2>1, <2>2, <2>4, <3>1, NextTally DEF Shows, ShowsAll, Probing
  <2> QED BY <1>4, <2>3, <2>4, NextTally
<1>5. CASE Chat(t) \/ Logged(t) \/ Rechat(t) \/ Condemn(t) \/ KeepToken(t) \/ Restore(t)
  <2>1. new = row
    BY <1>5
    DEF Chat, Logged, Rechat, Condemn, KeepToken, Restore, TrySetPoolState, SetAccountPoolState, SetPoolState,
        UpdateAccountToken, tables
  <2>2. /\ j.pc \in Probing \ {"posting"} /\ tester'[t].pc \in Probing \ {"posting"}
        /\ tester'[t].at = j.at /\ SameCounts(j, tester'[t])
    BY <1>5, ProbeTally
  <2>3. Exact(row, j.creds, j.at - 1) /\ SameCounts(row, j)
    BY <1>2, <2>2 DEF Shows
  <2> QED BY <1>1, <1>3, <2>1, <2>2, <2>3 DEF Shows, ShowsAll, Probing
<1>6. CASE Record(t)
  <2>1. new = row /\ j.pc = "recording"
    BY <1>6, RecordTally DEF Record, Quiet, tables
  <2>2. Exact(row, j.creds, j.at - 1) /\ SameCounts(row, j)
    BY <1>2, <2>1 DEF Shows, Probing
  <2>3. tester'[t].at = j.at /\ tester'[t].why = j.why /\ Counted(row, j.why, tester'[t])
    BY <1>6, <2>2, RecordTally DEF Counted, SameCounts
  <2>4. CASE cancelled[j.key]
    <3>1. Stopped(t) /\ tester'[t].pc = "next"
      BY <1>6, <2>4, RecordTally DEF Stopped
    <3> QED BY <3>1 DEF Shows, Probing
  <2>5. CASE ~cancelled[j.key]
    <3>1. tester'[t].pc = "posting"
      BY <1>6, <2>5, RecordTally
    <3> QED BY <1>1, <2>1, <2>2, <2>3, <3>1 DEF Shows, ShowsAll, Probing
  <2> QED BY <2>4, <2>5
<1>7. CASE Post(t)
  <2>1. j.pc = "posting" /\ tester'[t].pc = "next" /\ tester'[t].at = j.at /\ SameCounts(j, tester'[t])
    BY <1>7, GoToTally DEF Post, At
  <2>2. Exact(row, j.creds, j.at - 1) /\ Counted(row, j.why, j)
    BY <1>2, <2>1 DEF Shows
  <2>3. /\ new.results = Append(row.results, Result(t)) /\ new.status = "running"
        /\ new.total = row.total /\ SameCounts(new, j)
    BY <1>7, <2>2, PostRow DEF Exact
  <2>4. /\ row.results \in Seq(Shown) /\ Result(t) \in Shown /\ Result(t).why = j.why
        /\ Result(t).acct = j.creds[j.at].acct /\ row \in JobRow
    <3>1. j.pc \in Probing
      BY <2>1 DEF Probing
    <3> QED BY <3>1, KeyRow, CredFacts DEF Typed, JobRow, Result, Cred
  <2>5. Exact(new, j.creds, j.at)
    <3>1. j.at \in 1 .. Len(j.creds) /\ j.creds \in Seq(Credential)
      BY <1>1, <2>1 DEF Probing, TestJob
    <3>2. PICK r \in Shown : r = Result(t)
      BY <2>4
    <3> QED BY <2>2, <2>3, <2>4, <3>1, <3>2, ExactOneMore
  <2>6. SameCounts(new, tester'[t])
    BY <2>1, <2>3 DEF SameCounts
  <2> QED BY <1>1, <2>1, <2>5, <2>6 DEF Shows, ShowsAll, Probing
<1>8. CASE End(t)
  <2>1. /\ j.pc = "ending" /\ tester'[t].at = j.at /\ SameCounts(j, tester'[t]) /\ new = row
        /\ tester'[t].pc = IF Stopped(t) THEN "resetting" ELSE "closing"
    BY <1>8, GoToTally DEF End, EndIf, At, Quiet, tables
  <2>2. CASE Stopped(t)
    BY <2>1, <2>2 DEF Shows, Probing
  <2>3. CASE ~Stopped(t)
    <3>1. Exact(row, j.creds, Len(j.creds)) /\ SameCounts(row, j)
      BY <1>2, <2>1, <2>3 DEF ShowsAll
    <3> QED BY <1>1, <1>3, <2>1, <2>3, <3>1 DEF Shows, ShowsAll, Probing
  <2> QED BY <2>2, <2>3
<1>9. CASE ResetRow(t) \/ Finish(t)
  BY <1>9, GoToTally DEF ResetRow, Finish
<1> QED BY <1>4, <1>5, <1>6, <1>7, <1>8, <1>9 DEF Work

LEMMA DisturbedStay ==
  ASSUME Typed, Next
  PROVE  disturbed \subseteq disturbed'
<1>1. ASSUME NEW t \in Tester, Listing(t) \/ Begin(t) \/ Lock(t) \/ Leave(t)
      PROVE  disturbed \subseteq disturbed'
  BY <1>1, ListingFacts, LockFacts, LeaveFacts DEF Begin
<1>2. ASSUME NEW t \in Tester, Work(t)
      PROVE  disturbed \subseteq disturbed'
  BY <1>2
  DEF Work, NextAccount, Chat, Logged, Rechat, Condemn, KeepToken, Restore, Record, Post, End, EndIf, ResetRow,
      Finish, TearRow, Quiet, RunnersQuiet
<1>3. CASE ManageKeys \/ Restart \/ SecondServer \/ Calm
  BY <1>3
  DEF ManageKeys, CreateKey, ToggleKey, DeleteKey, RotateKey, LoseRow, PoolOnly, Restart, SecondServer, Calm
<1> QED BY <1>1, <1>2, <1>3, StepKinds

LEMMA FollowedKept ==
  ASSUME NEW t, tester'[t] = tester[t], Followed(t),
         jobs'[tester[t].key] = jobs[tester[t].key], keys'[tester[t].key] # "absent",
         \A u \in Tester \ {t} : tester'[u].pc \notin {"unused", "listed", "gone"} =>
                                   tester'[u].key # tester[t].key,
         Stopped(t) => t \in gone' \/ cancelled'[tester[t].key]
  PROVE  Followed(t)'
BY DEF Followed, Exists, Alone, Alive, Stopped

(* Another job at its key disturbs a job, or the two do not meet. *)
LEMMA OtherStep ==
  ASSUME Typed, NEW t \in Tester, NEW u \in Tester \ {t},
         Listing(u) \/ Begin(u) \/ Lock(u) \/ Work(u) \/ Leave(u),
         Alive(t), Followed(t), t \notin disturbed'
  PROVE  tester'[t] = tester[t] /\ Followed(t)'
<1> DEFINE k == tester[t].key
<1>1. k \in Key /\ tester[u].key \in Key /\ cancelled \in [Key -> BOOLEAN]
  BY CredFacts DEF Typed, TestsTyped, RunnersTyped
<1>2. /\ keys[k] # "absent"
      /\ \A v \in Tester \ {t} : tester[v].pc \notin {"unused", "listed", "gone"} => tester[v].key # k
  BY DEF Followed, Exists, Alone, Alive
<1>3. CASE Listing(u)
  <2>1. UNCHANGED <<gone, cancelled>>
    BY <1>3, ListingFacts
  <2> QED BY <1>2, <1>3, <2>1, ListingFacts, FollowedKept DEF Stopped
<1>4. CASE Begin(u)
  <2>1. /\ \A v \in Tester \ {u} : tester'[v] = tester[v]
        /\ UNCHANGED <<keys, gone, cancelled>>
    BY <1>4, BeginFacts
  <2>2. CASE tester'[u].pc = "queued"
    <3>1. tester[u].key # k
      <4>1. t \notin OthersOf(u, tester[u].key)
        BY <1>4, <2>2, BeginFacts
      <4> QED BY <4>1 DEF OthersOf
    <3>2. tester'[u].key # k /\ jobs'[k] = jobs[k]
      <4>1. tester'[u].key = tester[u].key
        BY <1>4, <2>2, BeginFacts
      <4>2. jobs'[k] = jobs[k]
        BY <1>1, <1>4, <3>1, BeginRow
      <4> QED BY <3>1, <4>1, <4>2
    <3> QED BY <1>2, <2>1, <3>2, FollowedKept DEF Stopped
  <2>3. CASE tester'[u].pc # "queued"
    <3>1. tester'[u].pc = "gone" /\ jobs'[k] = jobs[k]
      BY <1>1, <1>4, <2>3, BeginFacts, BeginRow
    <3> QED BY <1>2, <2>1, <3>1, FollowedKept DEF Stopped
  <2> QED BY <2>2, <2>3
<1>5. CASE Lock(u) \/ Leave(u)
  <2>1. tester[u].key # k
    BY <1>2, <1>5, LockFacts, LeaveFacts
  <2>2. /\ \A v \in Tester \ {u} : tester'[v] = tester[v]
        /\ UNCHANGED <<keys, jobs, gone>>
        /\ tester'[u].pc \notin {"unused", "listed", "gone"} => tester'[u].key # k
    BY <1>5, <2>1, LockFacts, LeaveFacts
  <2>3. cancelled'[k] = cancelled[k]
    BY <1>1, <1>5, <2>1 DEF Lock, Leave
  <2> QED BY <1>2, <2>2, <2>3, FollowedKept DEF Stopped
<1>6. CASE Work(u)
  <2>1. /\ \A v \in Tester \ {u} : tester'[v] = tester[v]
        /\ UNCHANGED <<keys, gone, cancelled>> /\ tester'[u].key = tester[u].key
        /\ tester[u].pc \in Locked
    BY <1>6, WorkFacts
  <2>2. tester[u].key # k
    BY <1>2, <2>1 DEF Locked, Probing
  <2>3. jobs'[k] = jobs[k]
    BY <1>1, <1>6, <2>2, WorkRows
  <2> QED BY <1>2, <2>1, <2>2, <2>3, FollowedKept DEF Stopped
<1> QED BY <1>3, <1>4, <1>5, <1>6

LEMMA ListingFresh ==
  ASSUME Typed, NEW t \in Tester, Listing(t)
  PROVE  tester'[t].at = 0 /\ SameCounts(Unused, tester'[t])
<1>1. PICK k, creds : Become(t, [Unused EXCEPT !.pc = "listed", !.key = k, !.creds = creds])
  BY DEF Listing, List
<1>2. tester'[t] = [Unused EXCEPT !.pc = "listed", !.key = k, !.creds = creds]
  BY <1>1, Becomes
<1> QED BY <1>2 DEF Unused, SameCounts

LEMMA BeginFollows ==
  ASSUME Typed, NEW t \in Tester, Begin(t), t \notin disturbed',
         tester[t].at = 0, SameCounts(Unused, tester[t])
  PROVE  tester'[t].pc \in Underway => Followed(t)'
<1> DEFINE j == tester[t]
<1>1. CASE tester'[t].pc # "queued"
  BY <1>1, BeginFacts DEF Underway, Locked, Probing
<1>2. CASE tester'[t].pc = "queued"
  <2>1. j \in TestJob /\ Len(j.creds) \in Nat
    BY CredFacts DEF Typed
  <2>2. OthersOf(t, j.key) = {} /\ Exists(j.key)
    BY <1>2, BeginFacts
  <2>3. /\ tester'[t] = [j EXCEPT !.pc = "queued"]
        /\ \A u \in Tester \ {t} : tester'[u] = tester[u]
        /\ UNCHANGED keys /\ jobs'[j.key] = Job("running", Len(j.creds))
    BY <1>2, BeginFacts, BeginRow
  <2>4. /\ tester'[t].pc = "queued" /\ tester'[t].key = j.key /\ tester'[t].creds = j.creds
        /\ tester'[t].at = 0 /\ SameCounts(Unused, tester'[t])
    BY <2>1, <2>3 DEF TestJob, SameCounts
  <2>5. Exact(Job("running", Len(j.creds)), j.creds, 0)
    <3>1. Len(<< >>) = 0
      BY EmptySeq
    <3> QED BY <2>1, <3>1, OfNothing DEF Exact, Job
  <2>6. SameCounts(Job("running", Len(j.creds)), tester'[t])
    BY <2>4 DEF SameCounts, Job, Unused
  <2>7. Shows(jobs'[j.key], tester'[t]) /\ ShowsAll(jobs'[j.key], tester'[t])
    BY <2>3, <2>4, <2>5, <2>6 DEF Shows, ShowsAll, Probing
  <2>8. Alone(t)' /\ Exists(j.key)'
    BY <1>2, <2>2, <2>3, <2>4 DEF OthersOf, Alone, Alive, Exists
  <2> QED BY <2>3, <2>4, <2>7, <2>8 DEF Followed, Exists
<1> QED BY <1>1, <1>2

LEMMA LockFollows ==
  ASSUME Typed, NEW t \in Tester, Lock(t), Followed(t)
  PROVE  Followed(t)'
<1> DEFINE j == tester[t]
<1>1. j \in TestJob
  BY DEF Typed, TestsTyped, JobsTyped
<1>2. /\ j.pc = "queued" /\ tester'[t] = [j EXCEPT !.pc = "next"]
      /\ \A u \in Tester \ {t} : tester'[u] = tester[u]
      /\ UNCHANGED <<keys, jobs>>
  BY LockFacts
<1>3. j.at = 0 /\ Exact(jobs[j.key], j.creds, 0) /\ SameCounts(jobs[j.key], j)
  BY <1>2 DEF Followed, Shows
<1>4. /\ tester'[t].pc = "next" /\ tester'[t].key = j.key /\ tester'[t].creds = j.creds
      /\ tester'[t].at = j.at /\ SameCounts(jobs[j.key], tester'[t])
  BY <1>1, <1>2, <1>3 DEF TestJob, SameCounts
<1>5. Shows(jobs[j.key], tester'[t]) /\ ShowsAll(jobs[j.key], tester'[t])
  BY <1>3, <1>4 DEF Shows, ShowsAll, Probing
<1> QED BY <1>2, <1>4, <1>5 DEF Followed, Exists, Alone, Alive

LEMMA WorkFollows ==
  ASSUME Typed, NEW t \in Tester, Work(t), Followed(t), tester'[t].pc # "leaving", t \notin disturbed'
  PROVE  Followed(t)'
<1>1. /\ \A u \in Tester \ {t} : tester'[u] = tester[u]
      /\ tester'[t].key = tester[t].key /\ UNCHANGED <<keys, gone, cancelled>>
  BY WorkFacts
<1>2. (t \in gone \/ cancelled[tester[t].key]) \/ ShowsAll(jobs'[tester[t].key], tester'[t])
  BY OwnStep DEF Stopped
<1>3. Shows(jobs'[tester[t].key], tester'[t])
  BY OwnStep
<1>4. Alone(t)' /\ Exists(tester[t].key)'
  BY <1>1 DEF Followed, Alone, Alive, Exists
<1> QED BY <1>1, <1>2, <1>3, <1>4 DEF Followed, Stopped, Exists

(* A key that goes or is renamed disturbs its jobs and no others. *)
LEMMA KeysFollow ==
  ASSUME Typed, NEW t \in Tester, ManageKeys, Followed(t), t \notin disturbed'
  PROVE  tester'[t] = tester[t] /\ Followed(t)'
<1> DEFINE k == tester[t].key
<1>1. UNCHANGED <<tester, gone, cancelled>> /\ k \in Key
  BY KeyFacts, CredFacts DEF Typed
<1>2. keys[k] # "absent" /\ Alone(t) /\ keys \in [Key -> KeyState] /\ jobs \in [Key -> JobRow]
  BY DEF Followed, Exists, Typed, TablesOk, DatabaseTyped
<1>3. jobs'[k] = jobs[k] /\ keys'[k] # "absent"
  <2>1. ASSUME NEW old \in Key, CreateKey(old) \/ ToggleKey(old)
        PROVE  jobs'[k] = jobs[k] /\ keys'[k] # "absent"
    BY <1>1, <1>2, <2>1 DEF CreateKey, ToggleKey, CreateGatewayKey, UpdateGatewayKeyMeta
  <2>2. ASSUME NEW old \in Key, DeleteKey(old)
        PROVE  jobs'[k] = jobs[k] /\ keys'[k] # "absent"
    <3>1. k # old
      BY <2>2 DEF DeleteKey, LoseRow
    <3> QED BY <1>1, <1>2, <2>2, <3>1 DEF DeleteKey, DeleteGatewayKey
  <2>3. ASSUME NEW old \in Key, NEW new \in Key, RotateKey(old, new)
        PROVE  jobs'[k] = jobs[k] /\ keys'[k] # "absent"
    <3>1. k # old
      BY <2>3 DEF RotateKey, LoseRow
    <3> QED BY <1>1, <1>2, <2>3, <3>1 DEF RotateKey, RotateGatewayAPIKey, Exists
  <2> QED BY <2>1, <2>2, <2>3 DEF ManageKeys
<1> QED BY <1>1, <1>2, <1>3, FollowedKept DEF Alone, Alive, Stopped

LEMMA LoneStep ==
  ASSUME Typed, LoneJobsFollowed, Next
  PROVE  LoneJobsFollowed'
<1> SUFFICES ASSUME NEW t \in Tester
             PROVE  /\ tester'[t].pc = "listed" => tester'[t].at = 0 /\ SameCounts(Unused, tester'[t])
                    /\ tester'[t].pc \in Underway \ {"leaving"} => t \in disturbed' \/ Followed(t)'
  BY DEF LoneJobsFollowed
<1>0. /\ tester[t].pc = "listed" => tester[t].at = 0 /\ SameCounts(Unused, tester[t])
      /\ tester[t].pc \in Underway \ {"leaving"} => t \in disturbed \/ Followed(t)
      /\ disturbed \subseteq disturbed'
      /\ tester[t].pc \in Underway => Alive(t)
      /\ "listed" \notin Underway /\ "gone" \notin Underway /\ "unused" \notin Underway
  BY DisturbedStay DEF LoneJobsFollowed, Alive, Underway, Locked, Probing
<1>1. ASSUME tester'[t] = tester[t],
             tester[t].pc \in Underway \ {"leaving"} /\ t \notin disturbed' /\ Followed(t) => Followed(t)'
      PROVE  /\ tester'[t].pc = "listed" => tester'[t].at = 0 /\ SameCounts(Unused, tester'[t])
             /\ tester'[t].pc \in Underway \ {"leaving"} => t \in disturbed' \/ Followed(t)'
  BY <1>0, <1>1
<1>2. CASE Listing(t)
  BY <1>0, <1>2, ListingFacts, ListingFresh
<1>3. CASE Begin(t)
  <2>1. tester[t].at = 0 /\ SameCounts(Unused, tester[t]) /\ tester'[t].pc \in {"queued", "gone"}
    BY <1>0, <1>3, BeginFacts
  <2> QED BY <1>3, <2>1, BeginFollows
<1>4. CASE Lock(t)
  <2>1. tester[t].pc = "queued" /\ tester'[t].pc = "next"
    BY <1>4, LockFacts
  <2>2. t \in disturbed \/ Followed(t)
    BY <1>0, <2>1 DEF Underway
  <2> QED BY <1>0, <1>4, <2>1, <2>2, LockFollows
<1>5. CASE Work(t)
  <2>1. tester[t].pc \in Locked \ {"leaving"} /\ tester'[t].pc \in Locked
    BY <1>5, WorkFacts
  <2>2. t \in disturbed \/ Followed(t)
    BY <1>0, <2>1 DEF Underway
  <2>3. tester'[t].pc # "listed"
    BY <2>1 DEF Locked, Probing
  <2> QED BY <1>0, <1>5, <2>2, <2>3, WorkFollows
<1>6. CASE Leave(t)
  <2>1. tester'[t].pc = "gone"
    BY <1>6, LeaveFacts
  <2> QED BY <1>0, <2>1
<1>7. ASSUME NEW u \in Tester \ {t}, Listing(u) \/ Begin(u) \/ Lock(u) \/ Work(u) \/ Leave(u)
      PROVE  /\ tester'[t].pc = "listed" => tester'[t].at = 0 /\ SameCounts(Unused, tester'[t])
             /\ tester'[t].pc \in Underway \ {"leaving"} => t \in disturbed' \/ Followed(t)'
  <2>1. tester'[t] = tester[t]
    BY <1>7, ListingFacts, BeginFacts, LockFacts, WorkFacts, LeaveFacts
  <2> QED BY <1>0, <1>1, <1>7, <2>1, OtherStep
<1>8. CASE ManageKeys
  <2>1. tester'[t] = tester[t]
    BY <1>8, KeyFacts
  <2> QED BY <1>1, <1>8, <2>1, KeysFollow
<1>9. CASE Restart
  <2>1. tester'[t].pc \in {"unused", "gone"}
    BY <1>9, RestartFacts
  <2> QED BY <1>0, <2>1
<1>10. CASE SecondServer
  <2>1. tester'[t] = tester[t] /\ (Alive(t) => t \in disturbed')
    BY <1>10, RestartFacts DEF SecondServer
  <2> QED BY <1>0, <2>1
<1>11. CASE Calm
  <2>1. UNCHANGED <<tester, jobs, keys>> /\ gone \subseteq gone' /\ tester[t].key \in Key
    BY <1>11, CredFacts DEF Calm, Typed
  <2>2. Stopped(t) => t \in gone' \/ cancelled'[tester[t].key]
    BY <1>11, <2>1 DEF Calm, Stopped
  <2>3. Followed(t) => Followed(t)'
    <3>1. Followed(t) => Exists(tester[t].key) /\ Alone(t)
      BY DEF Followed
    <3> QED BY <2>1, <2>2, <3>1, FollowedKept DEF Alone, Alive, Exists
  <2> QED BY <1>1, <2>1, <2>3
<1> QED BY <1>2, <1>3, <1>4, <1>5, <1>6, <1>7, <1>8, <1>9, <1>10, <1>11, StepKinds

(* The row that a completed job leaves. *)
LEMMA CompletedRow ==
  ASSUME Typed, LoneJobsFollowed, Next, NEW t \in Tester,
         At(t, "closing"), tester'[t].pc = "leaving", t \notin disturbed'
  PROVE  LET row == jobs'[tester[t].key]  creds == tester[t].creds IN
         /\ row.status = "completed"
         /\ [i \in DOMAIN row.results |-> row.results[i].acct] = [i \in DOMAIN creds |-> creds[i].acct]
         /\ row.total = Len(creds) /\ row.done = Len(creds)
         /\ row.ok = Of(row.results, {"fine"}) /\ row.skipped = Of(row.results, {"skipped"})
         /\ row.ok + row.failed + row.skipped = row.done
<1> DEFINE j == tester[t]
           row == jobs[j.key]
           new == jobs'[j.key]
<1>1. Finish(t)
  <2>1. j.pc = "closing" /\ tester'[t].pc = "leaving"
    BY DEF At
  <2>2. ~(ManageKeys \/ Restart \/ SecondServer \/ Calm)
    BY <2>1, KeyFacts, RestartFacts DEF Calm
  <2>3. ASSUME NEW u \in Tester, Listing(u) \/ Begin(u) \/ Lock(u) \/ Work(u) \/ Leave(u)
        PROVE  u = t
    BY <2>1, <2>3, ListingFacts, BeginFacts, LockFacts, WorkFacts, LeaveFacts
  <2>4. Listing(t) \/ Begin(t) \/ Lock(t) \/ Work(t) \/ Leave(t)
    BY <2>2, <2>3, StepKinds
  <2>5. Work(t)
    BY <2>1, <2>4, ListingFacts, BeginFacts, LockFacts, LeaveFacts
  <2>6. ~ResetRow(t)
    BY <2>1 DEF ResetRow, At
  <2> QED BY <2>1, <2>5, <2>6, WorkFacts
<1>2. Followed(t)
  BY DisturbedStay DEF LoneJobsFollowed, At, Underway, Locked
<1>3. Exact(row, j.creds, Len(j.creds)) /\ SameCounts(row, j)
  BY <1>2 DEF Followed, Shows, At
<1>4. /\ new.status = "completed" /\ new.results = row.results /\ new.total = row.total
      /\ SameCounts(new, j)
  BY <1>1, <1>3, FinishRow DEF Exact
<1>5. new.done = row.done /\ new.ok = row.ok /\ new.failed = row.failed /\ new.skipped = row.skipped
  BY <1>3, <1>4 DEF SameCounts
<1>6. [i \in DOMAIN row.results |-> row.results[i].acct] = [i \in DOMAIN j.creds |-> j.creds[i].acct]
  <2>1. row.results \in Seq(Shown) /\ j.creds \in Seq(Credential)
    BY KeyRow, CredFacts DEF Typed, JobRow, TestJob
  <2>2. DOMAIN row.results = 1 .. Len(j.creds) /\ DOMAIN j.creds = 1 .. Len(j.creds)
    BY <1>3, <2>1, LenProperties DEF Exact
  <2> QED BY <1>3, <2>2 DEF Exact
<1>7. /\ row.total = Len(j.creds) /\ row.done = Len(j.creds)
      /\ row.ok = Of(row.results, {"fine"}) /\ row.skipped = Of(row.results, {"skipped"})
      /\ row.ok + row.failed + row.skipped = row.done
  BY <1>3 DEF Exact
<1> QED BY <1>4, <1>5, <1>6, <1>7

(* A job whose row nobody else touches, by another job of its key, a change  *)
(* of the key or a second server, and whose own writes of it all go through, *)
(* leaves a row with one result per account, in the order of its list, and   *)
(* counts that agree with them: whatever is cancelled, however late,         *)
(* whatever the logins of the job come to, whatever other write is refused.  *)
THEOREM LoneJobsAreExact == Spec => LoneJobIsExact
<1>1. Init => LoneJobsFollowed
  BY UnusedTyped DEF Init, LoneJobsFollowed, Underway, Locked, Probing
<1>2. Typed /\ LoneJobsFollowed /\ [Next]_vars => LoneJobsFollowed'
  <2>1. UNCHANGED vars /\ LoneJobsFollowed => LoneJobsFollowed'
    BY DEF vars, tables, loginVars, runnerVars, LoneJobsFollowed, Followed, Exists, Alone, Alive, Stopped
  <2> QED BY <2>1, LoneStep
<1>3. Typed /\ LoneJobsFollowed /\ [Next]_vars =>
        [\A t \in Tester : At(t, "closing") /\ tester'[t].pc = "leaving" /\ t \notin disturbed' =>
           LET row == jobs'[tester[t].key]  creds == tester[t].creds IN
           /\ row.status = "completed"
           /\ [i \in DOMAIN row.results |-> row.results[i].acct] = [i \in DOMAIN creds |-> creds[i].acct]
           /\ row.total = Len(creds) /\ row.done = Len(creds)
           /\ row.ok = Of(row.results, {"fine"}) /\ row.skipped = Of(row.results, {"skipped"})
           /\ row.ok + row.failed + row.skipped = row.done]_vars
  BY CompletedRow
<1> QED BY <1>1, <1>2, <1>3, TestsAreTyped, PTL DEF Spec, LoneJobIsExact

================================================================================
