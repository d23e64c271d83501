------------------------------ MODULE ChatHistory ------------------------------
(***************************************************************************)
(* The chat history store of internal/chathistory: entries in memory, one  *)
(* detail file per entry and an index file that lists them.  An operation  *)
(* changes the memory, then saves under the same lock: it removes the      *)
(* detail files of dropped entries, writes those of changed ones and then  *)
(* the index, each file replaced atomically.  Any of these file operations *)
(* may fail, which ends the save and keeps the pending changes for a later *)
(* one; the process may stop between any two.  An index of the old format, *)
(* which holds the entries itself, is migrated when the store starts.      *)
(***************************************************************************)
EXTENDS Integers, FiniteSets

CONSTANTS
  Id,            \* identifiers of entries; each is issued once
  NoEntry,       \* where there is no entry
  Limit,         \* allowed limits other than 0, which disables the history
  DefaultLimit,
  Tick,          \* nanoseconds per millisecond: revisions per creation time
  Legacy,        \* what an index of the old format may hold: functions from Id
  StartClock,    \* the time when the first process starts
  MaxClock       \* bound: revisions issued in a behaviour

Disabled == 0  \* DisabledLimit

ASSUME HistoryAssumption ==
  /\ IsFiniteSet(Id)
  /\ Limit \subseteq Nat \ {0} /\ DefaultLimit \in Limit
  /\ Tick \in Nat \ {0} /\ MaxClock \in Nat

Entry == [created : Nat, rev : Nat]
ASSUME NoEntryAssumption == NoEntry \notin Entry

ASSUME LegacyAssumption ==
  /\ StartClock \in Nat
  /\ Legacy \subseteq [Id -> Entry \cup {NoEntry}]
  /\ \A d \in Legacy : \A id \in Id : d[id] # NoEntry => d[id].rev <= StartClock

VARIABLES
  up,        \* "down", "ready", or "broken" when Store.err is set
  details,   \* Store.details, which the index in memory always mirrors
  limit,     \* Store.state.Limit
  dirty,     \* Store.dirty: entries whose detail file must be written
  deleted,   \* Store.deleted: entries whose detail file must be removed
  save,      \* the phase of saveLocked: "none", "remove", "write" or "index"
  todo,      \* the files of this phase that are left
  files,     \* disk: the detail files
  index,     \* disk: the index file, its entries and limit, and what it holds inline
  clock,     \* time.Now, and the last revision issued
  issued,    \* history: identifiers already used
  acked      \* history: entries of the last save that succeeded, minus those dropped since

memory == <<up, details, limit, dirty, deleted>>
disk == <<files, index>>
vars == <<memory, save, todo, disk, clock, issued, acked>>

Nothing == [id \in Id |-> NoEntry]
Present(d) == {id \in Id : d[id] # NoEntry}
NoIndex == [items |-> {}, limit |-> Disabled, there |-> FALSE, inline |-> Nothing]

(* parseLegacy: an index of the old format holds an entry. *)
IsLegacy == Present(index.inline) # {}

(* Where the content of a listed entry is read from. *)
Stored(id) == IF index.inline[id] # NoEntry THEN index.inline[id] ELSE files[id]

(* nextRevisionLocked, and the millisecond an entry is created in. *)
Revision == clock + 1
Millisecond == (clock + 1) \div Tick

--------------------------------------------------------------------------------
(* rebuildIndexLocked *)

(* Newer entries first; of one millisecond, the one revised last. *)
Newer(e, f) == e.created > f.created \/ (e.created = f.created /\ e.rev > f.rev)

(* The entries the limit leaves. *)
Kept(d, n) ==
  IF n = Disabled THEN Present(d)
  ELSE {id \in Present(d) : Cardinality({o \in Present(d) : Newer(d[o], d[id])}) < n}

RebuildKeepsDirty(d, n, changed, dropped) ==  \* mutant: a dropped entry stays dirty
  LET keep == Kept(d, n)
      gone == dropped \cup (Present(d) \ keep) IN
  /\ details' = [id \in Id |-> IF id \in keep THEN d[id] ELSE NoEntry]
  /\ limit' = n
  /\ dirty' = dirty \cup changed
  /\ deleted' = (deleted \ changed) \cup gone
  /\ acked' = [id \in Id |-> IF id \in gone THEN NoEntry ELSE acked[id]]

(* The entries d with the changed ones, trimmed to n, and the pending       *)
(* changes this leaves.                                                     *)
Rebuild(d, n, changed, dropped) ==
  LET keep == Kept(d, n)
      gone == dropped \cup (Present(d) \ keep) IN
  /\ details' = [id \in Id |-> IF id \in keep THEN d[id] ELSE NoEntry]
  /\ limit' = n
  /\ dirty' = (dirty \cup changed) \ gone
  /\ deleted' = (deleted \ changed) \cup gone
  /\ acked' = [id \in Id |-> IF id \in gone THEN NoEntry ELSE acked[id]]

(* saveLocked begins with the files to remove. *)
BeginSave == save' = "remove" /\ todo' = deleted'

(* An operation on a store that works, one at a time. *)
Open == up = "ready" /\ save = "none"

Stamp == clock < MaxClock /\ clock' = clock + 1

--------------------------------------------------------------------------------
(* Operations *)

Start ==
  /\ Open /\ limit # Disabled
  /\ \E id \in Id \ issued :
       /\ Rebuild([details EXCEPT ![id] = [created |-> Millisecond, rev |-> Revision]],
                  limit, {id}, {})
       /\ issued' = issued \cup {id}
  /\ Stamp /\ BeginSave /\ UNCHANGED <<up, disk>>

Update ==
  /\ Open
  /\ \E id \in Present(details) :
       Rebuild([details EXCEPT ![id].rev = Revision], limit, {id}, {})
  /\ Stamp /\ BeginSave /\ UNCHANGED <<up, disk, issued>>

Delete ==
  /\ Open
  /\ \E id \in Present(details) :
       Rebuild([details EXCEPT ![id] = NoEntry], limit, {}, {id})
  /\ Stamp /\ BeginSave /\ UNCHANGED <<up, disk, issued>>

Clear ==
  /\ Open
  /\ Rebuild(Nothing, limit, {}, Present(details))
  /\ Stamp /\ BeginSave /\ UNCHANGED <<up, disk, issued>>

SetLimit ==
  /\ Open
  /\ \E n \in Limit \cup {Disabled} : Rebuild(details, n, {}, {})
  /\ Stamp /\ BeginSave /\ UNCHANGED <<up, disk, issued>>

--------------------------------------------------------------------------------
(* saveLocked *)

RemoveFile ==
  /\ save = "remove"
  /\ \E id \in todo :
       /\ files' = [files EXCEPT ![id] = NoEntry]
       /\ todo' = todo \ {id}
  /\ UNCHANGED <<memory, save, index, clock, issued, acked>>

AllRemovedSkips ==  \* mutant: the index is written before the detail files
  /\ save = "remove" /\ todo = {}
  /\ save' = "index" /\ todo' = {}
  /\ UNCHANGED <<memory, disk, clock, issued, acked>>

AllRemoved ==
  /\ save = "remove" /\ todo = {}
  /\ save' = "write" /\ todo' = dirty
  /\ UNCHANGED <<memory, disk, clock, issued, acked>>

(* writeFileAtomic: a file is replaced as a whole, by the renaming of a temporary one. *)
(* Whatever fails before that leaves the old file (SaveFails, Crash).                   *)
WriteFileAtomic(id) == files' = [files EXCEPT ![id] = details[id]]

WriteFile ==
  /\ save = "write"
  /\ \E id \in todo :
       /\ WriteFileAtomic(id)
       /\ todo' = todo \ {id}
  /\ UNCHANGED <<memory, save, index, clock, issued, acked>>

AllWritten ==
  /\ save = "write" /\ todo = {}
  /\ save' = "index"
  /\ UNCHANGED <<memory, todo, disk, clock, issued, acked>>

(* The save has succeeded: nothing is pending. *)
WriteIndex ==
  /\ save = "index"
  /\ index' = [items |-> Present(details), limit |-> limit, there |-> TRUE, inline |-> Nothing]
  /\ dirty' = {} /\ deleted' = {}
  /\ acked' = details
  /\ save' = "none"
  /\ UNCHANGED <<up, details, limit, todo, files, clock, issued>>

SaveFailsClean ==  \* mutant: a failed save forgets what was pending
  /\ save # "none"
  /\ save' = "none" /\ todo' = {}
  /\ dirty' = {} /\ deleted' = {}
  /\ UNCHANGED <<up, details, limit, disk, clock, issued, acked>>

SaveFails ==
  /\ save # "none"
  /\ save' = "none" /\ todo' = {}
  /\ UNCHANGED <<memory, disk, clock, issued, acked>>

--------------------------------------------------------------------------------
(* The process stops and starts *)

Crash ==
  /\ up # "down"
  /\ up' = "down" /\ save' = "none" /\ todo' = {}
  /\ details' = Nothing /\ limit' = Disabled /\ dirty' = {} /\ deleted' = {}
  /\ UNCHANGED <<disk, clock, issued, acked>>

(* loadLocked without an index: an empty history is saved. *)
Bootstrap ==
  /\ up = "down" /\ ~index.there
  /\ up' = "ready" /\ limit' = DefaultLimit
  /\ save' = "remove" /\ todo' = {}
  /\ UNCHANGED <<details, dirty, deleted, disk, clock, issued, acked>>

LoadLegacyClean ==  \* mutant: migrated entries get no detail file
  /\ up = "down" /\ index.there /\ IsLegacy
  /\ up' = "ready"
  /\ Rebuild(index.inline, index.limit, {}, {})
  /\ BeginSave
  /\ UNCHANGED <<disk, clock, issued>>

(* loadLegacyLocked: every entry still needs a detail file.  Until the save *)
(* has replaced the index, the next start migrates again.                  *)
LoadLegacy ==
  /\ up = "down" /\ index.there /\ IsLegacy
  /\ up' = "ready"
  /\ Rebuild(index.inline, index.limit, Present(index.inline), {})
  /\ BeginSave
  /\ UNCHANGED <<disk, clock, issued>>

(* Every listed entry must have its detail file. *)
Load ==
  /\ up = "down" /\ index.there /\ ~IsLegacy
  /\ \A id \in index.items : files[id] # NoEntry
  /\ up' = "ready"
  /\ Rebuild([id \in Id |-> IF id \in index.items THEN files[id] ELSE NoEntry],
             index.limit, {}, {})
  /\ BeginSave
  /\ UNCHANGED <<disk, clock, issued>>

LoadFails ==
  /\ up = "down" /\ index.there /\ ~IsLegacy
  /\ \E id \in index.items : files[id] = NoEntry
  /\ up' = "broken"
  /\ UNCHANGED <<details, limit, dirty, deleted, save, todo, disk, clock, issued, acked>>

StartUp == Bootstrap \/ LoadLegacy \/ Load \/ LoadFails

(* An empty disk, or an index of the old format. *)
Init ==
  /\ up = "down" /\ details = Nothing /\ limit = Disabled
  /\ dirty = {} /\ deleted = {} /\ save = "none" /\ todo = {}
  /\ files = Nothing /\ clock = StartClock
  /\ \/ index = NoIndex /\ acked = Nothing
     \/ \E d \in Legacy, n \in Limit \cup {Disabled} :
          /\ Present(d) # {} /\ acked = d
          /\ index = [items |-> Present(d), limit |-> n, there |-> TRUE, inline |-> d]
  /\ issued = Present(acked)

Operation == Start \/ Update \/ Delete \/ Clear \/ SetLimit
Saving == RemoveFile \/ AllRemoved \/ WriteFile \/ AllWritten \/ WriteIndex

Next ==
  \/ Operation \/ Saving \/ SaveFails
  \/ Crash \/ StartUp

Spec == Init /\ [][Next]_vars

(* The process only stops while no save is under way. *)
Calm == Crash => save = "none"
CalmSpec == Init /\ [][Next /\ Calm]_vars

--------------------------------------------------------------------------------
(* Properties *)

TypeOK ==
  /\ up \in {"down", "ready", "broken"}
  /\ details \in [Id -> Entry \cup {NoEntry}] /\ files \in [Id -> Entry \cup {NoEntry}]
  /\ acked \in [Id -> Entry \cup {NoEntry}]
  /\ limit \in Limit \cup {Disabled}
  /\ dirty \subseteq Present(details) /\ deleted \subseteq Id \ Present(details)
  /\ save \in {"none", "remove", "write", "index"} /\ todo \subseteq Id
  /\ index \in [items : SUBSET Id, limit : Limit \cup {Disabled}, there : BOOLEAN,
                inline : [Id -> Entry \cup {NoEntry}]]
  /\ clock \in Nat /\ issued \subseteq Id

(* Whatever failed before, what the disk lacks is known to be pending: the  *)
(* detail file of an entry in memory is current unless the entry is dirty,  *)
(* and an entry the index lists is in memory unless its file is to be       *)
(* removed.  So the next save that succeeds repairs everything.             *)
PendingCovers ==
  up = "ready" =>
    /\ \A id \in Present(details) \ dirty : files[id] = details[id]
    /\ index.items \subseteq Present(details) \cup deleted
    /\ \A id \in Present(details) \ index.items : id \in dirty

(* An entry whose save was acknowledged outlives failed saves, crashes and  *)
(* a migration of the old format that fails or is cut short: until it is    *)
(* deleted, cleared or trimmed it stays listed and what is stored of it is  *)
(* at least as new as acknowledged.                                         *)
Durable ==
  \A id \in Present(acked) :
    /\ id \in index.items
    /\ Stored(id) # NoEntry /\ Stored(id).rev >= acked[id].rev

(* "transient update failure should not latch store error"                 *)
(* (store_test.go:427): a failed save does not make the store unusable, nor *)
(* does it after an orderly restart.                                        *)
NeverLatched == up # "broken"

================================================================================
