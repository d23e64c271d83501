---------------------------- MODULE HistorySessions ----------------------------
(***************************************************************************)
(* The requests that write the history: chatHistorySession of the chat     *)
(* handler and Session of internal/responsehistory, which are the same but *)
(* for what they archive.  A session starts an entry, updates it while the *)
(* reply streams and at its end, and starts another one when its entry is  *)
(* missing because others trimmed, deleted or cleared it.  Each call of    *)
(* the store is a step and lasts until its save has ended; between two     *)
(* calls other sessions and the operator have theirs.                      *)
(***************************************************************************)
EXTENDS ChatHistory

CONSTANTS
  Session,  \* the requests
  Nobody    \* no session: an operator's call, or no call

ASSUME NobodyAssumption == Nobody \notin Session

VARIABLES
  sess,    \* [pc, id, want]: what a session does, its entryID, the status it writes
  caller,  \* the session whose call is being saved, or Nobody
  status,  \* Entry.Status in memory
  owner    \* history: the session an entry was started for

sessionVars == <<sess, caller, status, owner>>
hvars == <<vars, sessionVars>>

Ending == {"success", "error", "stopped"}
Status == {"streaming"} \cup Ending

Fresh == [pc |-> "new", id |-> NoEntry, want |-> "streaming"]

HInit ==
  /\ Init
  /\ sess = [s \in Session |-> Fresh] /\ caller = Nobody
  /\ status = [id \in Id |-> "streaming"] /\ owner = [id \in Id |-> Nobody]

At(s, pc) == sess[s].pc = pc
Become(s, x) == sess' = [sess EXCEPT ![s] = x]
GoTo(s, pc) == Become(s, [sess[s] EXCEPT !.pc = pc])
NoCall == UNCHANGED <<vars, caller, status, owner>>

(* After a write: the session goes on until it has written its ending. *)
Written(x) == IF x.want \in Ending THEN "ended" ELSE "idle"

(* Store.Start for a session: the entry that is issued is its own. *)
StartFor(s, pc) ==
  /\ Start
  /\ LET id == CHOOSE id \in issued' \ issued : TRUE IN
     /\ Become(s, [sess[s] EXCEPT !.pc = pc, !.id = id])
     /\ status' = [status EXCEPT ![id] = "streaming"]
     /\ owner' = [owner EXCEPT ![id] = s]
  /\ caller' = s

(* Store.Update of the entry of a session that is there. *)
UpdateFor(s, pc, want) ==
  /\ Update /\ details'[sess[s].id] # details[sess[s].id]
  /\ Become(s, [sess[s] EXCEPT !.pc = pc, !.want = want])
  /\ status' = [status EXCEPT ![sess[s].id] = want]
  /\ caller' = s /\ UNCHANGED owner

--------------------------------------------------------------------------------
(* The calls of a session *)

(* startChatHistory, Start: no session for a store that is disabled or broken. *)
BeginHistory(s) ==
  /\ At(s, "new")
  /\ StartFor(s, "starting")

NoHistory(s) ==
  /\ At(s, "new") /\ save = "none"
  /\ up = "broken" \/ (up = "ready" /\ limit = Disabled)
  /\ GoTo(s, "none") /\ NoCall

Missing(s) == sess[s].id \notin Present(details)

(* progress, success, error, stopped: persistUpdate *)
Persist(s) ==
  /\ At(s, "idle") /\ ~Missing(s)
  /\ \E want \in Status : UpdateFor(s, "updating", want)

(* handlePersistError: the entry is missing.  Update does not ask whether the *)
(* history is disabled, only the start of another entry does.                 *)
FindMissing(s) ==
  /\ At(s, "idle") /\ Missing(s) /\ Open
  /\ \E want \in Status : Become(s, [sess[s] EXCEPT !.pc = "missed", !.want = want])
  /\ NoCall

RetryMissingEntry(s) == At(s, "missed") /\ StartFor(s, "restarting")

RetryDisabled(s) ==
  /\ At(s, "missed") /\ Open /\ limit = Disabled
  /\ GoTo(s, "off") /\ NoCall

RetryUpdate(s) == At(s, "again") /\ ~Missing(s) /\ UpdateFor(s, "retrying", sess[s].want)

(* Trimmed or deleted again before it was written. *)
RetryMissingAgain(s) ==
  /\ At(s, "again") /\ Missing(s) /\ Open
  /\ GoTo(s, "off") /\ NoCall

SessionStep(s) ==
  \/ BeginHistory(s) \/ NoHistory(s) \/ Persist(s) \/ FindMissing(s) \/ RetryMissingEntry(s)
  \/ RetryDisabled(s) \/ RetryUpdate(s) \/ RetryMissingAgain(s)

--------------------------------------------------------------------------------
(* The store's side of a call *)

(* What a session goes on with: a failed save is only logged, the entry is in *)
(* memory.                                                                     *)
ContinuedOnce(x, saved) ==  \* mutant: the entry that was started anew is not written
  CASE x.pc = "starting" -> [x EXCEPT !.pc = "idle"]
    [] x.pc \in {"restarting", "updating", "retrying"} -> [x EXCEPT !.pc = Written(x)]
    [] OTHER -> x
ContinuedMissing(x, saved) ==  \* mutant: any error of Update counts as a missing entry
  CASE x.pc = "updating" /\ ~saved -> [x EXCEPT !.pc = "missed"]
    [] x.pc = "starting" -> [x EXCEPT !.pc = "idle"]
    [] x.pc = "restarting" -> [x EXCEPT !.pc = "again"]
    [] x.pc \in {"updating", "retrying"} -> [x EXCEPT !.pc = Written(x)]
    [] OTHER -> x
Continued(x, saved) ==
  CASE x.pc = "starting" -> [x EXCEPT !.pc = "idle"]
    [] x.pc = "restarting" -> [x EXCEPT !.pc = "again"]
    [] x.pc \in {"updating", "retrying"} -> [x EXCEPT !.pc = Written(x)]
    [] OTHER -> x

CallReturns(saved) ==
  /\ sess' = [s \in Session |-> IF s = caller THEN Continued(sess[s], saved) ELSE sess[s]]
  /\ caller' = Nobody
  /\ UNCHANGED <<status, owner>>

Saved == WriteIndex /\ CallReturns(TRUE)
NotSaved == SaveFails /\ CallReturns(FALSE)
FileStep == (RemoveFile \/ AllRemoved \/ WriteFile \/ AllWritten) /\ UNCHANGED sessionVars

(* The operator, whose calls leave the sessions to find out. *)
Operate == (Delete \/ Clear \/ SetLimit) /\ UNCHANGED sessionVars

(* The sessions end with the process. *)
Stop ==
  /\ Crash
  /\ sess' = [s \in Session |-> IF At(s, "new") THEN sess[s] ELSE [Fresh EXCEPT !.pc = "none"]]
  /\ caller' = Nobody
  /\ UNCHANGED <<status, owner>>

Begin == StartUp /\ UNCHANGED sessionVars

HNext ==
  \/ \E s \in Session : SessionStep(s)
  \/ Saved \/ NotSaved \/ FileStep \/ Operate \/ Stop \/ Begin

HSpec == HInit /\ [][HNext]_hvars

--------------------------------------------------------------------------------
(* Properties *)

(* The list shows a request at most once, in memory and on disk, however    *)
(* often its entry is trimmed, deleted and started anew, saves fail and the *)
(* process stops between the files of a save (retryMissingEntry).           *)
OncePerRequest ==
  \A ids \in {Present(details), index.items} :
    \A a, b \in ids : owner[a] = owner[b] /\ owner[a] \in Session => a = b

(* The entry of a request that has ended says how, also when the ending had *)
(* to be written to an entry that was started anew for it, and whatever     *)
(* happened to the saves (handlePersistError).                              *)
EndingIsShown ==
  \A s \in Session : At(s, "ended") /\ ~Missing(s) => status[sess[s].id] = sess[s].want
================================================================================
