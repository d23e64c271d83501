------------------------------ MODULE PoolDatabase ------------------------------
(***************************************************************************)
(* The pool database (internal/pooldb): gateway keys, upstream accounts,   *)
(* the bindings between them and one test job per key.  Every operation is *)
(* one transaction or one statement, so one step; a refused operation      *)
(* leaves the tables alone.  Clerk credentials are the session they belong *)
(* to, a token the session it was minted from.                             *)
(***************************************************************************)
EXTENDS Naturals, Sequences, FiniteSets, Functions, Selections

CONSTANTS
  Key,       \* gateway api keys
  AdminKey,  \* the one key that authenticates requests: adminTokenValue
  Account,   \* identifiers of upstream accounts
  Imported   \* [acct, session, token] of the accounts imported under the admin key

ASSUME AdminKeyAssumption == AdminKey \in Key
ASSUME ImportedAssumption ==
  Imported \in Seq([acct : Account, session : Nat, token : Nat])

VARIABLES
  keys,   \* gateway_api_keys
  rows,   \* pool_accounts
  bound,  \* pool_bindings of a key, by position
  jobs    \* pool_account_test_jobs

tables == <<keys, rows, bound, jobs>>

NoSession == 0
NoText == ""  \* no reason, no text, no account
KeyState == {"absent", "enabled", "disabled"}
Reason == {NoText, "manual", "muted", "banned"}
JobStatus == {"missing", "idle", "running", "completed"}

NoRow == [here |-> FALSE, session |-> NoSession, token |-> NoSession,
          discarded |-> FALSE, reason |-> NoText]
Job(status, total) == [status |-> status, total |-> total, done |-> 0,
                       ok |-> 0, failed |-> 0, skipped |-> 0, results |-> << >>]

Exists(k) == keys[k] # "absent"
IsBound(k, a) == \E i \in DOMAIN bound[k] : bound[k][i] = a

DatabaseInit ==
  /\ keys = [k \in Key |-> IF k = AdminKey THEN "enabled" ELSE "absent"]
  /\ rows = [a \in Account |->
               IF \E i \in DOMAIN Imported : Imported[i].acct = a
               THEN LET row == CHOOSE r \in Range(Imported) : r.acct = a
                    IN [NoRow EXCEPT !.here = TRUE, !.session = row.session, !.token = row.token]
               ELSE NoRow]
  /\ bound = [k \in Key |-> IF k = AdminKey THEN [i \in DOMAIN Imported |-> Imported[i].acct]
                             ELSE << >>]
  /\ jobs = [k \in Key |-> Job("missing", 0)]

--------------------------------------------------------------------------------
(* Keys *)

CreateGatewayKey(k) ==
  /\ ~Exists(k)
  /\ keys' = [keys EXCEPT ![k] = "enabled"]
  /\ UNCHANGED <<rows, bound, jobs>>

(* The bindings move; the test job goes with the old key. *)
RotateGatewayAPIKey(old, new) ==
  /\ Exists(old) /\ ~Exists(new)
  /\ keys' = [keys EXCEPT ![new] = keys[old], ![old] = "absent"]
  /\ bound' = [bound EXCEPT ![new] = bound[old], ![old] = << >>]
  /\ jobs' = [jobs EXCEPT ![old] = Job("missing", 0)]
  /\ UNCHANGED rows

(* ON DELETE CASCADE: bindings and test job go too, accounts stay. *)
DeleteGatewayKey(k) ==
  /\ Exists(k)
  /\ keys' = [keys EXCEPT ![k] = "absent"]
  /\ bound' = [bound EXCEPT ![k] = << >>]
  /\ jobs' = [jobs EXCEPT ![k] = Job("missing", 0)]
  /\ UNCHANGED rows

UpdateGatewayKeyMeta(k, state) ==
  /\ Exists(k)
  /\ keys' = [keys EXCEPT ![k] = state]
  /\ UNCHANGED <<rows, bound, jobs>>

--------------------------------------------------------------------------------
(* Accounts and bindings *)

(* Also each row of the two imports.  What the import does not bring stays; *)
(* the account is restored, the reason of its discard is left behind.       *)
AddAccountToPool(k, a, session) ==
  /\ Exists(k)
  /\ rows' = [rows EXCEPT ![a] = [@ EXCEPT !.here = TRUE, !.discarded = FALSE,
                                  !.session = IF session = NoSession THEN rows[a].session ELSE session]]
  /\ bound' = IF IsBound(k, a) THEN bound ELSE [bound EXCEPT ![k] = Append(@, a)]
  /\ UNCHANGED <<keys, jobs>>

(* BatchRemoveAccountsFromPool: only the bindings go. *)
RemoveFromPool(k, accounts) ==
  /\ bound' = [bound EXCEPT ![k] = Without(@, accounts)]
  /\ UNCHANGED <<keys, rows, jobs>>

(* The accounts of the pool among those named; the others are not touched. *)
SetPoolState(k, accounts, discarded, reason) ==
  /\ rows' = [a \in Account |->
                IF a \in accounts /\ IsBound(k, a)
                THEN [rows[a] EXCEPT !.discarded = discarded,
                                     !.reason = IF discarded THEN reason ELSE NoText]
                ELSE rows[a]]
  /\ UNCHANGED <<keys, bound, jobs>>

(* A single account that is not in the pool is an error. *)
SetAccountPoolState(k, a, discarded, reason) ==
  IsBound(k, a) /\ SetPoolState(k, {a}, discarded, reason)

UpdateAccountToken(a, token) ==
  /\ rows[a].here
  /\ rows' = [rows EXCEPT ![a].token = token]
  /\ UNCHANGED <<keys, bound, jobs>>

ClearAccountToken(a) ==
  /\ rows' = [rows EXCEPT ![a].token = NoSession]
  /\ UNCHANGED <<keys, bound, jobs>>

UpdateAccountClerkCredentials(a, session) ==
  /\ rows[a].here
  /\ rows' = [rows EXCEPT ![a].session = session]
  /\ UNCHANGED <<keys, bound, jobs>>

(* The accounts a request with this key may use; none for a foreign key. *)
LoadAccountsForAPIKey(k) ==
  {a \in Account : k = AdminKey /\ rows[a].here /\ ~rows[a].discarded}

(* Credentials as they are now, in the order of the pool. *)
ListPoolAccountCredentials(k, named, activeOnly) ==
  LET unwanted == {a \in Account : \/ named # {} /\ a \notin named
                                   \/ activeOnly /\ rows[a].discarded}
      listed == Without(bound[k], unwanted)
  IN [i \in DOMAIN listed |-> [acct |-> listed[i], session |-> rows[listed[i]].session,
                               token |-> rows[listed[i]].token]]

--------------------------------------------------------------------------------
(* Test jobs *)

(* An upsert: refused by the foreign key when the gateway key is gone. *)
PutJob(k, job) == jobs' = IF Exists(k) THEN [jobs EXCEPT ![k] = job] ELSE jobs
StartKeeping(k, total) ==  \* mutant: the results of the last job stay
  /\ PutJob(k, [Job("running", total) EXCEPT !.results = jobs[k].results])
  /\ UNCHANGED <<keys, rows, bound>>
StartAccountTestJob(k, total) == PutJob(k, Job("running", total)) /\ UNCHANGED <<keys, rows, bound>>
ResetAccountTestJob(k) == PutJob(k, Job("idle", 0)) /\ UNCHANGED <<keys, rows, bound>>

(* Counts are those of the caller, the result is appended to what is there; *)
(* only a running job takes them.                                           *)
UpdateAccountTestJobProgress(k, result, tally) ==
  /\ jobs' = IF jobs[k].status = "running"
             THEN [jobs EXCEPT ![k] = [@ EXCEPT !.results = Append(jobs[k].results, result), !.done = tally.done,
                                       !.ok = tally.ok, !.failed = tally.failed, !.skipped = tally.skipped]]
             ELSE jobs
  /\ UNCHANGED <<keys, rows, bound>>

(* Whatever the state of the row is. *)
FinishAccountTestJob(k, tally) ==
  /\ jobs' = IF jobs[k].status # "missing"
             THEN [jobs EXCEPT ![k] = [@ EXCEPT !.status = "completed", !.done = tally.done,
                                       !.ok = tally.ok, !.failed = tally.failed, !.skipped = tally.skipped]]
             ELSE jobs
  /\ UNCHANGED <<keys, rows, bound>>

ResetAllRunningAccountTestJobs ==
  /\ jobs' = [k \in Key |-> IF jobs[k].status = "running" THEN Job("idle", 0) ELSE jobs[k]]
  /\ UNCHANGED <<keys, rows, bound>>
================================================================================
