------------------------------ MODULE HistoryProofs ------------------------------
(***************************************************************************)
(* What the history promises for every number of entries, requests and     *)
(* every limit.  The store of ChatHistory: what the disk lacks is pending, *)
(* and an acknowledged save is durable.  The sessions of HistorySessions:  *)
(* they use the store as ChatHistory allows, list a request at most once,  *)
(* and show how it ended.                                                  *)
(***************************************************************************)
EXTENDS HistorySessions, TLAPS

--------------------------------------------------------------------------------
(* The invariant of the store *)

EntryOrNot == Entry \cup {NoEntry}

(* What the phases of a save have achieved.  *)
Phases ==
  /\ save # "none" => up = "ready"
  /\ save = "none" => todo = {}
  /\ save = "remove" => todo \subseteq deleted
  /\ save \in {"write", "index"} => \A id \in dirty \ todo : files[id] = details[id]
  /\ save = "write" => todo \subseteq dirty
  /\ save = "index" => todo = {}

(* Nothing is pending unless the store works, and its memory is as new as   *)
(* what it acknowledged.                                                    *)
Memory ==
  /\ up # "ready" => details = Nothing /\ dirty = {} /\ deleted = {}
  /\ up = "ready" =>
       \A id \in Present(acked) : id \in Present(details) /\ details[id].rev >= acked[id].rev
  /\ ~index.there => index.items = {} /\ index.inline = Nothing
  /\ IsLegacy => index.items = Present(index.inline)

(* No revision is ahead of the clock. *)
Revisions ==
  /\ \A id \in Present(details) : details[id].rev <= clock
  /\ \A id \in Present(files) : files[id].rev <= clock
  /\ \A id \in Present(acked) : acked[id].rev <= clock
  /\ \A id \in Present(index.inline) : index.inline[id].rev <= clock

HistoryInv == TypeOK /\ Phases /\ Memory /\ Revisions /\ PendingCovers /\ Durable

--------------------------------------------------------------------------------
(* What an operation must guarantee of the entries d it hands to Rebuild. *)
Rebuildable(d, n, changed, dropped) ==
  /\ d \in [Id -> EntryOrNot] /\ n \in Limit \cup {Disabled}
  /\ changed \subseteq Present(d) /\ dropped \subseteq Id \ Present(d)
  /\ dirty \subseteq Present(d) \cup dropped
  /\ (deleted \ changed) \cap Present(d) = {}
  /\ \A id \in Present(d) \ (dirty \cup changed) : files[id] = d[id]
  /\ index.items \subseteq Present(d) \cup deleted \cup dropped
  /\ \A id \in Present(d) \ index.items : id \in dirty \cup changed
  /\ \A id \in Present(acked) \ dropped : id \in Present(d) /\ d[id].rev >= acked[id].rev
  /\ \A id \in Present(d) : d[id].rev <= clock'

(* A rebuild of such entries, with the beginning of a save, keeps the invariant. *)
LEMMA RebuildKeeps ==
  ASSUME HistoryInv, clock' \in Nat, clock <= clock',
         NEW d, NEW n, NEW changed, NEW dropped,
         Rebuildable(d, n, changed, dropped), Rebuild(d, n, changed, dropped),
         BeginSave, up' = "ready", UNCHANGED disk, issued' \subseteq Id
  PROVE  HistoryInv'
<1> DEFINE keep == Kept(d, n)
           gone == dropped \cup (Present(d) \ keep)
<1>1. /\ details' = [id \in Id |-> IF id \in keep THEN d[id] ELSE NoEntry]
      /\ limit' = n
      /\ dirty' = (dirty \cup changed) \ gone
      /\ deleted' = (deleted \ changed) \cup gone
      /\ acked' = [id \in Id |-> IF id \in gone THEN NoEntry ELSE acked[id]]
  BY DEF Rebuild
<1>2. keep \subseteq Present(d)
  BY DEF Kept
<1>3. save' = "remove" /\ todo' = deleted' /\ files' = files /\ index' = index
  BY DEF BeginSave, disk
<1>4. /\ TypeOK /\ Revisions /\ Durable
      /\ ~index.there => index.items = {} /\ index.inline = Nothing
      /\ IsLegacy => index.items = Present(index.inline)
  BY DEF HistoryInv, Memory
<1> HIDE DEF keep
<1>5. Present(details') = keep /\ \A id \in keep : details'[id] = d[id]
  <2>1. \A id \in keep : d[id] # NoEntry
    BY <1>2 DEF Present
  <2> QED
    BY <1>1, <1>2, <2>1 DEF Present
<1>6. /\ Present(acked') = Present(acked) \ gone
      /\ \A id \in Present(acked') : acked'[id] = acked[id]
  BY <1>1 DEF Present
<1>7. TypeOK'
  <2>1. details' \in [Id -> EntryOrNot] /\ acked' \in [Id -> EntryOrNot] /\ files' \in [Id -> EntryOrNot]
    BY <1>1, <1>2, <1>3, <1>4 DEF TypeOK, Rebuildable, EntryOrNot, Present
  <2>2. dirty' \subseteq Present(details')
    BY <1>1, <1>2, <1>5 DEF Rebuildable
  <2>3. deleted' \subseteq Id \ Present(details')
    BY <1>1, <1>2, <1>4, <1>5 DEF Rebuildable, TypeOK, Present
  <2> QED
    BY <1>1, <1>3, <1>4, <2>1, <2>2, <2>3 DEF TypeOK, Rebuildable, EntryOrNot
<1>8. Phases'
  BY <1>3 DEF Phases
<1>9. Memory'
  <2>1. \A id \in Present(acked') : id \in keep /\ d[id].rev >= acked[id].rev
    BY <1>6 DEF Rebuildable
  <2>2. IsLegacy' = IsLegacy /\ Nothing' = Nothing /\ Present(index.inline)' = Present(index.inline)
    BY <1>3 DEF IsLegacy, Present, Nothing
  <2> QED
    BY <1>3, <1>4, <1>5, <1>6, <2>1, <2>2 DEF Memory
<1>10. Revisions'
  <2>1. \A id \in Present(details') : details'[id].rev <= clock'
    BY <1>2, <1>5 DEF Rebuildable
  <2>2. \A id \in Present(files) : files[id].rev \in Nat /\ files[id].rev <= clock
    BY <1>4 DEF Revisions, TypeOK, Present, Entry
  <2>3. \A id \in Present(acked) : acked[id].rev \in Nat /\ acked[id].rev <= clock
    BY <1>4 DEF Revisions, TypeOK, Present, Entry
  <2>4. clock \in Nat
    BY <1>4 DEF TypeOK
  <2>5. Present(files') = Present(files) /\ Present(index'.inline) = Present(index.inline)
    BY <1>3 DEF Present
  <2>6. \A id \in Present(index.inline) : index.inline[id].rev \in Nat /\ index.inline[id].rev <= clock
    BY <1>4 DEF Revisions, TypeOK, Present, Entry
  <2> QED
    BY <1>3, <1>6, <2>1, <2>2, <2>3, <2>4, <2>5, <2>6 DEF Revisions
<1>11. PendingCovers'
  <2>1. \A id \in Present(details') \ dirty' : files'[id] = details'[id]
    BY <1>1, <1>2, <1>3, <1>5 DEF Rebuildable
  <2>2. index'.items \subseteq Present(details') \cup deleted'
    BY <1>1, <1>2, <1>3, <1>5 DEF Rebuildable
  <2>3. \A id \in Present(details') \ index'.items : id \in dirty'
    BY <1>1, <1>2, <1>3, <1>5 DEF Rebuildable
  <2> QED
    BY <2>1, <2>2, <2>3 DEF PendingCovers
<1>12. Durable'
  BY <1>3, <1>4, <1>6 DEF Durable, Stored
<1> QED
  BY <1>7, <1>8, <1>9, <1>10, <1>11, <1>12 DEF HistoryInv

(* The entries an operation starts from have what Rebuild needs. *)
LEMMA OpenFacts ==
  ASSUME HistoryInv, Open
  PROVE  /\ details \in [Id -> EntryOrNot] /\ limit \in Limit \cup {Disabled}
         /\ clock \in Nat /\ issued \subseteq Id
         /\ dirty \subseteq Present(details) /\ deleted \cap Present(details) = {}
         /\ \A id \in Present(details) \ dirty : files[id] = details[id]
         /\ index.items \subseteq Present(details) \cup deleted
         /\ \A id \in Present(details) \ index.items : id \in dirty
         /\ \A id \in Present(acked) :
              /\ id \in Present(details) /\ details[id].rev >= acked[id].rev
              /\ acked[id].rev \in Nat /\ acked[id].rev <= clock
         /\ \A id \in Present(details) : details[id].rev \in Nat /\ details[id].rev <= clock
<1>1. TypeOK /\ up = "ready"
  BY DEF HistoryInv, Open
<1>2. \A id \in Present(details) : details[id].rev \in Nat /\ details[id].rev <= clock
  BY <1>1 DEF TypeOK, Present, Entry, HistoryInv, Revisions
<1>3. \A id \in Present(acked) :
        /\ id \in Present(details) /\ details[id].rev >= acked[id].rev
        /\ acked[id].rev \in Nat /\ acked[id].rev <= clock
  BY <1>1 DEF TypeOK, Present, Entry, HistoryInv, Revisions, Memory
<1>4. /\ \A id \in Present(details) \ dirty : files[id] = details[id]
      /\ index.items \subseteq Present(details) \cup deleted
      /\ \A id \in Present(details) \ index.items : id \in dirty
  BY <1>1 DEF HistoryInv, PendingCovers
<1> QED
  BY <1>1, <1>2, <1>3, <1>4 DEF TypeOK, EntryOrNot

(* A changed entry: its new revision is ahead of all others. *)
LEMMA ChangeRebuildable ==
  ASSUME HistoryInv, Open, Stamp,
         NEW id \in Id, NEW e \in Entry, e.rev = clock + 1
  PROVE  Rebuildable([details EXCEPT ![id] = e], limit, {id}, {})
<1> DEFINE d == [details EXCEPT ![id] = e]
<1>1. d \in [Id -> EntryOrNot] /\ d[id] = e /\ \A o \in Id \ {id} : d[o] = details[o]
  BY OpenFacts DEF EntryOrNot
<1>2. e # NoEntry
  BY NoEntryAssumption
<1>3. Present(d) = Present(details) \cup {id}
  BY <1>1, <1>2 DEF Present
<1>4. clock' = clock + 1 /\ clock \in Nat
  BY OpenFacts DEF Stamp
<1>5. \A o \in Present(d) : d[o].rev <= clock'
  BY <1>1, <1>3, <1>4, OpenFacts DEF Present
<1>6. \A o \in Present(acked) : o \in Present(d) /\ d[o].rev >= acked[o].rev
  BY <1>1, <1>3, <1>4, OpenFacts DEF Present
<1>7. \A o \in Present(d) \ (dirty \cup {id}) : files[o] = d[o]
  BY <1>1, <1>3, OpenFacts DEF Present
<1> HIDE DEF d
<1>8. Rebuildable(d, limit, {id}, {})
  BY <1>1, <1>3, <1>5, <1>6, <1>7, OpenFacts DEF Rebuildable, Present
<1> QED
  BY <1>8 DEF d

LEMMA StartStep ==
  ASSUME HistoryInv, Start
  PROVE  HistoryInv'
<1>1. PICK id \in Id \ issued :
        /\ Rebuild([details EXCEPT ![id] = [created |-> Millisecond, rev |-> Revision]],
                   limit, {id}, {})
        /\ issued' = issued \cup {id}
  BY DEF Start
<1> DEFINE e == [created |-> Millisecond, rev |-> Revision]
<1>2. Open /\ Stamp /\ BeginSave /\ up' = "ready" /\ UNCHANGED disk
  BY DEF Start, Open, disk
<1>3. clock \in Nat /\ clock' = clock + 1 /\ issued' \subseteq Id
  BY <1>1, <1>2, OpenFacts DEF Stamp
<1>4. e \in Entry /\ e.rev = clock + 1
  BY <1>3, HistoryAssumption DEF Entry, Millisecond, Revision
<1>5. Rebuildable([details EXCEPT ![id] = e], limit, {id}, {})
  BY <1>2, <1>4, ChangeRebuildable
<1> QED
  BY <1>1, <1>2, <1>3, <1>5, RebuildKeeps

LEMMA UpdateStep ==
  ASSUME HistoryInv, Update
  PROVE  HistoryInv'
<1>1. PICK id \in Present(details) :
        Rebuild([details EXCEPT ![id].rev = Revision], limit, {id}, {})
  BY DEF Update
<1> DEFINE e == [details[id] EXCEPT !.rev = Revision]
<1>2. Open /\ Stamp /\ BeginSave /\ up' = "ready" /\ UNCHANGED disk /\ issued' = issued
  BY DEF Update, Open, disk
<1>3. clock \in Nat /\ clock' = clock + 1 /\ issued \subseteq Id /\ details \in [Id -> EntryOrNot]
  BY <1>2, OpenFacts DEF Stamp
<1>4. id \in Id /\ details[id] \in Entry
  BY <1>3 DEF Present, EntryOrNot
<1>5. e \in Entry /\ e.rev = clock + 1
  BY <1>3, <1>4 DEF Entry, Revision
<1>6. [details EXCEPT ![id].rev = Revision] = [details EXCEPT ![id] = e]
  OBVIOUS
<1>7. Rebuildable([details EXCEPT ![id] = e], limit, {id}, {})
  BY <1>2, <1>4, <1>5, ChangeRebuildable
<1> HIDE DEF e
<1>8. Rebuild([details EXCEPT ![id] = e], limit, {id}, {})
  BY <1>1, <1>6
<1> QED
  BY <1>2, <1>3, <1>7, <1>8, RebuildKeeps

(* Dropping entries, one or all. *)
LEMMA DropRebuildable ==
  ASSUME HistoryInv, Open, Stamp, NEW S \in SUBSET Present(details), NEW d,
         d = [id \in Id |-> IF id \in S THEN NoEntry ELSE details[id]]
  PROVE  Rebuildable(d, limit, {}, S)
<1>1. d \in [Id -> EntryOrNot] /\ \A o \in Id : d[o] = IF o \in S THEN NoEntry ELSE details[o]
  BY OpenFacts DEF EntryOrNot
<1>2. Present(d) = Present(details) \ S /\ S \subseteq Id
  BY <1>1 DEF Present
<1>3. clock' = clock + 1 /\ clock \in Nat
  BY OpenFacts DEF Stamp
<1>4. \A o \in Present(d) : d[o] = details[o] /\ d[o].rev <= clock'
  BY <1>1, <1>2, <1>3, OpenFacts DEF Present
<1>5. \A o \in Present(acked) \ S : o \in Present(d) /\ d[o].rev >= acked[o].rev
  BY <1>2, <1>4, OpenFacts
<1> QED
  BY <1>1, <1>2, <1>4, <1>5, OpenFacts DEF Rebuildable

LEMMA DeleteStep ==
  ASSUME HistoryInv, Delete
  PROVE  HistoryInv'
<1>1. PICK id \in Present(details) : Rebuild([details EXCEPT ![id] = NoEntry], limit, {}, {id})
  BY DEF Delete
<1>2. Open /\ Stamp /\ BeginSave /\ up' = "ready" /\ UNCHANGED disk /\ issued' = issued
  BY DEF Delete, Open, disk
<1>3. clock \in Nat /\ clock' = clock + 1 /\ issued \subseteq Id /\ details \in [Id -> EntryOrNot]
  BY <1>2, OpenFacts DEF Stamp
<1>4. [details EXCEPT ![id] = NoEntry] =
        [o \in Id |-> IF o \in {id} THEN NoEntry ELSE details[o]]
  BY <1>3
<1>5. Rebuildable([details EXCEPT ![id] = NoEntry], limit, {}, {id})
  BY <1>2, <1>4, DropRebuildable
<1> QED
  BY <1>1, <1>2, <1>3, <1>5, RebuildKeeps

LEMMA ClearStep ==
  ASSUME HistoryInv, Clear
  PROVE  HistoryInv'
<1>1. Rebuild(Nothing, limit, {}, Present(details))
  BY DEF Clear
<1>2. Open /\ Stamp /\ BeginSave /\ up' = "ready" /\ UNCHANGED disk /\ issued' = issued
  BY DEF Clear, Open, disk
<1>3. clock \in Nat /\ clock' = clock + 1 /\ issued \subseteq Id /\ details \in [Id -> EntryOrNot]
  BY <1>2, OpenFacts DEF Stamp
<1>4. Nothing = [o \in Id |-> IF o \in Present(details) THEN NoEntry ELSE details[o]]
  BY <1>3 DEF Nothing, Present
<1>5. Rebuildable(Nothing, limit, {}, Present(details))
  BY <1>2, <1>4, DropRebuildable
<1> QED
  BY <1>1, <1>2, <1>3, <1>5, RebuildKeeps

LEMMA SetLimitStep ==
  ASSUME HistoryInv, SetLimit
  PROVE  HistoryInv'
<1>1. PICK n \in Limit \cup {Disabled} : Rebuild(details, n, {}, {})
  BY DEF SetLimit
<1>2. Open /\ Stamp /\ BeginSave /\ up' = "ready" /\ UNCHANGED disk /\ issued' = issued
  BY DEF SetLimit, Open, disk
<1>3. clock \in Nat /\ clock' = clock + 1 /\ issued \subseteq Id
  BY <1>2, OpenFacts DEF Stamp
<1>4. \A id \in Present(details) : details[id].rev <= clock'
  BY <1>2, <1>3, OpenFacts
<1>5. Rebuildable(details, n, {}, {})
  BY <1>2, <1>4, OpenFacts DEF Rebuildable
<1> QED
  BY <1>1, <1>2, <1>3, <1>5, RebuildKeeps

LEMMA LoadStep ==
  ASSUME HistoryInv, Load
  PROVE  HistoryInv'
<1> DEFINE d == [id \in Id |-> IF id \in index.items THEN files[id] ELSE NoEntry]
<1>1. /\ up = "down" /\ ~IsLegacy /\ \A id \in index.items : files[id] # NoEntry
      /\ up' = "ready" /\ BeginSave /\ UNCHANGED disk /\ clock' = clock /\ issued' = issued
      /\ Rebuild(d, index.limit, {}, {})
  BY DEF Load
<1>2. TypeOK /\ dirty = {} /\ deleted = {} /\ Durable
  BY <1>1 DEF HistoryInv, Memory
<1>3. d \in [Id -> EntryOrNot] /\ index.limit \in Limit \cup {Disabled} /\ index.items \subseteq Id
  BY <1>2 DEF TypeOK, EntryOrNot
<1>4. Present(d) = index.items /\ \A id \in index.items : d[id] = files[id]
  BY <1>1, <1>3 DEF Present
<1>5. \A id \in index.items : files[id].rev <= clock
  BY <1>1, <1>3 DEF HistoryInv, Revisions, Present
<1>6. \A id \in Present(acked) : id \in Present(d) /\ d[id].rev >= acked[id].rev
  <2>1. \A id \in Id : Stored(id) = files[id]
    BY <1>1 DEF IsLegacy, Present, Stored
  <2>2. Present(acked) \subseteq Id
    BY DEF Present
  <2> HIDE DEF d
  <2> QED
    BY <1>2, <1>4, <2>1, <2>2 DEF Durable
<1>7. Rebuildable(d, index.limit, {}, {})
  <2> HIDE DEF d
  <2> QED
    BY <1>1, <1>2, <1>3, <1>4, <1>5, <1>6 DEF Rebuildable
<1>8. clock' \in Nat /\ clock <= clock' /\ issued' \subseteq Id
  BY <1>1, <1>2 DEF TypeOK
<1> HIDE DEF d
<1> QED
  BY <1>1, <1>7, <1>8, RebuildKeeps

(* A migration starts from the entries the index holds itself. *)
LEMMA LoadLegacyStep ==
  ASSUME HistoryInv, LoadLegacy
  PROVE  HistoryInv'
<1> DEFINE d == index.inline
<1>1. /\ up = "down" /\ IsLegacy
      /\ up' = "ready" /\ BeginSave /\ UNCHANGED disk /\ clock' = clock /\ issued' = issued
      /\ Rebuild(d, index.limit, Present(d), {})
  BY DEF LoadLegacy
<1>2. TypeOK /\ dirty = {} /\ deleted = {} /\ Durable /\ index.items = Present(d)
  BY <1>1 DEF HistoryInv, Memory
<1>3. d \in [Id -> EntryOrNot] /\ index.limit \in Limit \cup {Disabled}
  BY <1>2 DEF TypeOK, EntryOrNot
<1>4. \A id \in Present(d) : d[id].rev <= clock /\ Stored(id) = d[id]
  BY DEF HistoryInv, Revisions, Stored, Present
<1>5. \A id \in Present(acked) : id \in Present(d) /\ d[id].rev >= acked[id].rev
  BY <1>2, <1>4 DEF Durable
<1>6. Rebuildable(d, index.limit, Present(d), {})
  <2> HIDE DEF d
  <2> QED
    BY <1>1, <1>2, <1>3, <1>4, <1>5 DEF Rebuildable
<1>7. clock' \in Nat /\ clock <= clock' /\ issued' \subseteq Id
  BY <1>1, <1>2 DEF TypeOK
<1> HIDE DEF d
<1> QED
  BY <1>1, <1>6, <1>7, RebuildKeeps

--------------------------------------------------------------------------------
(* The steps of a save *)

LEMMA RemoveFileStep ==
  ASSUME HistoryInv, RemoveFile
  PROVE  HistoryInv'
<1>1. PICK id \in todo : files' = [files EXCEPT ![id] = NoEntry] /\ todo' = todo \ {id}
  BY DEF RemoveFile
<1>2. save = "remove" /\ UNCHANGED <<up, details, limit, dirty, deleted, save, index, clock, issued, acked>>
  BY DEF RemoveFile, memory
<1>3. TypeOK /\ Phases /\ Memory /\ Revisions /\ PendingCovers /\ Durable
  BY DEF HistoryInv
<1>4. id \in deleted /\ up = "ready"
  BY <1>1, <1>2, <1>3 DEF Phases
<1>5. id \in Id /\ id \notin Present(details) /\ id \notin Present(acked)
  BY <1>3, <1>4 DEF TypeOK, Memory
<1>6. /\ files' \in [Id -> EntryOrNot] /\ files'[id] = NoEntry
      /\ \A o \in Id \ {id} : files'[o] = files[o]
  BY <1>1, <1>3, <1>5 DEF TypeOK, EntryOrNot
<1>7. TypeOK'
  BY <1>1, <1>2, <1>3, <1>6 DEF TypeOK, Present, EntryOrNot
<1>8. Phases'
  BY <1>1, <1>2, <1>3, <1>4 DEF Phases
<1>9. Memory'
  BY <1>2, <1>3 DEF Memory, Present, IsLegacy, Nothing
<1>10. Revisions'
  BY <1>2, <1>3, <1>6 DEF Revisions, Present
<1>11. PendingCovers'
  BY <1>2, <1>3, <1>5, <1>6 DEF PendingCovers, Present
<1>12. Durable'
  BY <1>2, <1>3, <1>5, <1>6 DEF Durable, Present, Stored
<1> QED
  BY <1>7, <1>8, <1>9, <1>10, <1>11, <1>12 DEF HistoryInv

LEMMA WriteFileStep ==
  ASSUME HistoryInv, WriteFile
  PROVE  HistoryInv'
<1>1. PICK id \in todo : files' = [files EXCEPT ![id] = details[id]] /\ todo' = todo \ {id}
  BY DEF WriteFile, WriteFileAtomic
<1>2. save = "write" /\ UNCHANGED <<up, details, limit, dirty, deleted, save, index, clock, issued, acked>>
  BY DEF WriteFile, memory
<1>3. TypeOK /\ Phases /\ Memory /\ Revisions /\ PendingCovers /\ Durable
  BY DEF HistoryInv
<1>4. id \in dirty /\ up = "ready"
  BY <1>1, <1>2, <1>3 DEF Phases
<1>5. id \in Present(details) /\ details[id] # NoEntry /\ details[id] \in EntryOrNot
  BY <1>3, <1>4 DEF TypeOK, Present, EntryOrNot
<1>6. /\ files' \in [Id -> EntryOrNot] /\ files'[id] = details[id]
      /\ \A o \in Id \ {id} : files'[o] = files[o]
  BY <1>1, <1>3, <1>5 DEF TypeOK, EntryOrNot, Present
<1>7. TypeOK'
  BY <1>1, <1>2, <1>3, <1>6 DEF TypeOK, Present, EntryOrNot
<1>8. Phases'
  BY <1>1, <1>2, <1>3, <1>4, <1>5, <1>6 DEF Phases, TypeOK, Present
<1>9. Memory'
  BY <1>2, <1>3 DEF Memory, Present, IsLegacy, Nothing
<1>10. Revisions'
  BY <1>2, <1>3, <1>5, <1>6 DEF Revisions, Present
<1>11. PendingCovers'
  BY <1>2, <1>3, <1>5, <1>6 DEF PendingCovers, Present
<1>12. Durable'
  BY <1>2, <1>3, <1>4, <1>5, <1>6 DEF Durable, Memory, Present, Stored
<1> QED
  BY <1>7, <1>8, <1>9, <1>10, <1>11, <1>12 DEF HistoryInv

LEMMA WriteIndexStep ==
  ASSUME HistoryInv, WriteIndex
  PROVE  HistoryInv'
<1>1. /\ save = "index"
      /\ index' = [items |-> Present(details), limit |-> limit, there |-> TRUE, inline |-> Nothing]
      /\ dirty' = {} /\ deleted' = {} /\ acked' = details /\ save' = "none"
      /\ UNCHANGED <<up, details, limit, todo, files, clock, issued>>
  BY DEF WriteIndex
<1>2. TypeOK /\ Phases /\ Memory /\ Revisions /\ PendingCovers /\ Durable
  BY DEF HistoryInv
<1>3. up = "ready" /\ todo = {} /\ \A id \in dirty : files[id] = details[id]
  BY <1>1, <1>2 DEF Phases
<1>4. \A id \in Present(details) : files[id] = details[id]
  BY <1>2, <1>3 DEF PendingCovers
<1>5. \A id \in Present(details) : details[id] # NoEntry /\ details[id].rev \in Nat
  BY <1>2 DEF TypeOK, Present, Entry
<1>. /\ Nothing \in [Id -> Entry \cup {NoEntry}] /\ Present(Nothing) = {}
     /\ \A id \in Id : Nothing[id] = NoEntry
  BY DEF Nothing, Present
<1>6. TypeOK'
  BY <1>1, <1>2 DEF TypeOK, Present
<1>7. Phases' /\ Memory'
  BY <1>1, <1>3, <1>5 DEF Phases, Memory, Present, IsLegacy
<1>8. Revisions'
  BY <1>1, <1>2 DEF Revisions, Present
<1>9. PendingCovers' /\ Durable'
  BY <1>1, <1>3, <1>4, <1>5 DEF PendingCovers, Durable, Present, Stored
<1> QED
  BY <1>6, <1>7, <1>8, <1>9 DEF HistoryInv

LEMMA PhaseStep ==
  ASSUME HistoryInv, AllRemoved \/ AllWritten \/ SaveFails
  PROVE  HistoryInv'
<1>1. UNCHANGED <<up, details, limit, dirty, deleted, files, index, clock, issued, acked>>
  BY DEF AllRemoved, AllWritten, SaveFails, memory, disk
<1>2. TypeOK /\ Phases /\ Memory /\ Revisions /\ PendingCovers /\ Durable
  BY DEF HistoryInv
<1>3. TypeOK'
  BY <1>1, <1>2 DEF TypeOK, Present, AllRemoved, AllWritten, SaveFails
<1>4. Phases'
  BY <1>1, <1>2 DEF Phases, AllRemoved, AllWritten, SaveFails
<1>5. Memory' /\ Revisions' /\ PendingCovers' /\ Durable'
  BY <1>1, <1>2 DEF Memory, Revisions, PendingCovers, Durable, Present, IsLegacy, Nothing, Stored
<1> QED
  BY <1>3, <1>4, <1>5 DEF HistoryInv

(* The process stops, or starts with an unusable or an empty disk. *)
LEMMA RestartStep ==
  ASSUME HistoryInv, Crash \/ Bootstrap \/ LoadFails
  PROVE  HistoryInv'
<1>1. UNCHANGED <<files, index, clock, issued, acked>>
  BY DEF Crash, Bootstrap, LoadFails, disk
<1>2. TypeOK /\ Phases /\ Memory /\ Revisions /\ PendingCovers /\ Durable
  BY DEF HistoryInv
<1>3. Nothing \in [Id -> EntryOrNot] /\ Present(Nothing) = {}
  BY DEF Nothing, Present, EntryOrNot
<1>4. details' = Nothing /\ dirty' = {} /\ deleted' = {} /\ todo' = {}
  BY <1>2 DEF Crash, Bootstrap, LoadFails, Memory, Phases
<1>5. up' \in {"down", "ready", "broken"} /\ limit' \in Limit \cup {Disabled}
  BY <1>2, HistoryAssumption DEF Crash, Bootstrap, LoadFails, TypeOK
<1>6. save' \in {"none", "remove"} /\ (save' # "none" => up' = "ready")
  BY <1>2 DEF Crash, Bootstrap, LoadFails, Phases
<1>7. up' = "ready" => index.items = {}
  BY <1>2 DEF Crash, Bootstrap, LoadFails, Memory
<1>8. TypeOK'
  BY <1>1, <1>2, <1>3, <1>4, <1>5, <1>6 DEF TypeOK, EntryOrNot
<1>9. Phases'
  BY <1>4, <1>6 DEF Phases
<1>10. Memory'
  BY <1>1, <1>2, <1>4, <1>7 DEF Memory, Durable, Present, IsLegacy, Nothing
<1>11. Revisions'
  BY <1>1, <1>2, <1>3, <1>4 DEF Revisions, Present
<1>12. PendingCovers'
  BY <1>1, <1>3, <1>4, <1>7 DEF PendingCovers
<1>13. Durable'
  BY <1>1, <1>2 DEF Durable, Present, Stored
<1> QED
  BY <1>8, <1>9, <1>10, <1>11, <1>12, <1>13 DEF HistoryInv

LEMMA HistoryStutter ==
  ASSUME HistoryInv, UNCHANGED vars
  PROVE  HistoryInv'
BY DEF HistoryInv, TypeOK, Phases, Memory, Revisions, PendingCovers, Durable, Present,
       IsLegacy, Nothing, Stored, vars, memory, disk

LEMMA HistoryInit ==
  ASSUME Init
  PROVE  HistoryInv
<1>1. /\ Present(Nothing) = {} /\ Nothing \in [Id -> EntryOrNot]
      /\ \A id \in Id : Nothing[id] = NoEntry
  BY DEF Present, Nothing, EntryOrNot
<1>2. /\ up = "down" /\ details = Nothing /\ limit = Disabled /\ dirty = {} /\ deleted = {}
      /\ save = "none" /\ todo = {} /\ files = Nothing /\ clock = StartClock
      /\ issued = Present(acked)
  BY DEF Init
<1>3. /\ index \in [items : SUBSET Id, limit : Limit \cup {Disabled}, there : BOOLEAN,
                    inline : [Id -> EntryOrNot]]
      /\ acked = index.inline /\ index.items = Present(index.inline)
      /\ ~index.there => index.inline = Nothing
      /\ \A id \in Present(acked) : acked[id].rev \in Nat /\ acked[id].rev <= clock
  <2>1. CASE index = NoIndex /\ acked = Nothing
    BY <1>1, <2>1 DEF NoIndex, EntryOrNot
  <2>2. ASSUME NEW d \in Legacy, NEW n \in Limit \cup {Disabled}, acked = d,
               index = [items |-> Present(d), limit |-> n, there |-> TRUE, inline |-> d]
        PROVE  <1>3
    <3>1. d \in [Id -> EntryOrNot] /\ Present(d) \subseteq Id
      BY LegacyAssumption DEF EntryOrNot, Present
    <3>2. \A id \in Present(d) : d[id].rev \in Nat /\ d[id].rev <= clock
      BY <1>2, <3>1, LegacyAssumption DEF EntryOrNot, Present, Entry
    <3> QED
      BY <2>2, <3>1, <3>2
  <2> QED
    BY <2>1, <2>2 DEF Init
<1>4. TypeOK
  BY <1>1, <1>2, <1>3, LegacyAssumption DEF TypeOK, EntryOrNot, Disabled, Present
<1>5. Phases /\ PendingCovers
  BY <1>2 DEF Phases, PendingCovers
<1>6. Memory
  BY <1>1, <1>2, <1>3 DEF Memory, IsLegacy
<1>7. Revisions
  BY <1>1, <1>2, <1>3 DEF Revisions
<1>8. Durable
  BY <1>3 DEF Durable, Stored, Present
<1> QED
  BY <1>4, <1>5, <1>6, <1>7, <1>8 DEF HistoryInv

--------------------------------------------------------------------------------
(* The inductive invariant of the store: its types, what the phases of a    *)
(* save have done, that memory is never behind what was acknowledged, and   *)
(* the two properties below.                                                *)
THEOREM HistoryInvariant == Spec => []HistoryInv
<1>1. Init => HistoryInv
  BY HistoryInit
<1>2. HistoryInv /\ [Next]_vars => HistoryInv'
  <2> SUFFICES ASSUME HistoryInv, [Next]_vars
               PROVE  HistoryInv'
    OBVIOUS
  <2>1. CASE Operation
    BY <2>1, StartStep, UpdateStep, DeleteStep, ClearStep, SetLimitStep DEF Operation
  <2>2. CASE Saving
    BY <2>2, RemoveFileStep, WriteFileStep, WriteIndexStep, PhaseStep DEF Saving
  <2>3. CASE SaveFails
    BY <2>3, PhaseStep
  <2>4. CASE Load \/ LoadLegacy
    BY <2>4, LoadStep, LoadLegacyStep
  <2>5. CASE Crash \/ Bootstrap \/ LoadFails
    BY <2>5, RestartStep
  <2>6. CASE UNCHANGED vars
    BY <2>6, HistoryStutter
  <2> QED
    BY <2>1, <2>2, <2>3, <2>4, <2>5, <2>6 DEF Next, StartUp
<1> QED
  BY <1>1, <1>2, PTL DEF Spec

(* A failed or interrupted save loses nothing: whatever the disk lacks is   *)
(* pending for the next save (saveLocked, markDetailDirtyLocked).           *)
THEOREM FailuresStayPending == Spec => []PendingCovers
<1>1. HistoryInv => PendingCovers
  BY DEF HistoryInv
<1> QED
  BY <1>1, HistoryInvariant, PTL

(* What a save acknowledged survives later failures and crashes, until its  *)
(* entry is deleted, cleared or trimmed (saveLocked, loadLocked).           *)
THEOREM AcknowledgedIsDurable == Spec => []Durable
<1>1. HistoryInv => Durable
  BY DEF HistoryInv
<1> QED
  BY <1>1, HistoryInvariant, PTL

--------------------------------------------------------------------------------
(* The invariant of the sessions *)

(* A session that has an entry, or had one. *)
Started(s) == sess[s].pc \notin {"new", "none"}

(* The entry a session names was issued for it, and no other of its entries *)
(* is in memory.                                                            *)
Ownership ==
  /\ owner \in [Id -> Session \cup {Nobody}]
  /\ \A s \in Session : Started(s) =>
       /\ sess[s].id \in issued /\ owner[sess[s].id] = s
       /\ \A id \in Present(details) : owner[id] = s => id = sess[s].id
  /\ \A s \in Session : At(s, "new") => \A id \in Id : owner[id] # s
  /\ \A s \in Session : At(s, "missed") => Missing(s)

(* What is in memory or listed on disk was issued. *)
Issued == Present(details) \subseteq issued /\ index.items \subseteq issued /\ issued \subseteq Id

(* What a session is. *)
PC == {"new", "none", "starting", "idle", "updating", "missed", "restarting", "again",
       "retrying", "off", "ended"}
SessionState == [pc : PC, id : Id \cup {NoEntry}, want : Status]

(* The sessions run only while the store does, and what a session has *)
(* written is the status of its entry.                                *)
Running ==
  /\ sess \in [Session -> SessionState]
  /\ caller \in Session \cup {Nobody}
  /\ status \in [Id -> Status]
  /\ up # "ready" => \A s \in Session : ~Started(s)
  /\ \A s \in Session : sess[s].pc \in {"updating", "retrying", "ended"} =>
       status[sess[s].id] = sess[s].want

SessionInv == Ownership /\ Issued /\ Running /\ OncePerRequest

--------------------------------------------------------------------------------
(* A session moves *)

LEMMA Moved ==
  ASSUME NEW x \in SessionState, NEW pc \in PC
  PROVE  LET y == [x EXCEPT !.pc = pc]
         IN  y \in SessionState /\ y.pc = pc /\ y.id = x.id /\ y.want = x.want
BY DEF SessionState

--------------------------------------------------------------------------------
(* What the operations of the store do to the entries *)

LEMMA RebuildDrops ==
  ASSUME NEW d, NEW n, NEW changed, NEW dropped, Rebuild(d, n, changed, dropped)
  PROVE  Present(details') \subseteq Present(d)
<1>1. details' = [id \in Id |-> IF id \in Kept(d, n) THEN d[id] ELSE NoEntry]
  BY DEF Rebuild
<1>2. Kept(d, n) \subseteq Present(d)
  BY DEF Kept
<1> QED
  BY <1>1, <1>2 DEF Present

LEMMA StartAdds ==
  ASSUME Start, Issued
  PROVE  \E id \in Id \ issued :
           /\ id = CHOOSE x \in issued' \ issued : TRUE
           /\ issued' = issued \cup {id}
           /\ Present(details') \subseteq Present(details) \cup {id}
           /\ index' = index /\ up' = up /\ up = "ready"
<1>1. PICK id \in Id \ issued :
        /\ Rebuild([details EXCEPT ![id] = [created |-> Millisecond, rev |-> Revision]],
                   limit, {id}, {})
        /\ issued' = issued \cup {id}
  BY DEF Start
<1>2. Present([details EXCEPT ![id] = [created |-> Millisecond, rev |-> Revision]])
        \subseteq Present(details) \cup {id}
  BY DEF Present
<1>3. Present(details') \subseteq Present(details) \cup {id}
  BY <1>1, <1>2, RebuildDrops
<1>4. issued' \ issued = {id}
  BY <1>1
<1>5. id = CHOOSE x \in issued' \ issued : TRUE
  BY <1>4
<1> QED
  BY <1>1, <1>3, <1>5 DEF Start, disk, Open

(* The other operations only drop entries. *)
LEMMA OthersDrop ==
  ASSUME Update \/ Delete \/ Clear \/ SetLimit
  PROVE  /\ Present(details') \subseteq Present(details)
         /\ issued' = issued /\ index' = index /\ up' = up /\ up = "ready"
<1>1. /\ issued' = issued /\ index' = index /\ up' = up /\ up = "ready"
  BY DEF Update, Delete, Clear, SetLimit, disk, Open
<1>2. CASE Update
  <2>1. PICK id \in Present(details) :
          Rebuild([details EXCEPT ![id].rev = Revision], limit, {id}, {})
    BY <1>2 DEF Update
  <2>2. Present([details EXCEPT ![id].rev = Revision]) \subseteq Present(details)
    BY DEF Present
  <2> QED
    BY <1>1, <2>1, <2>2, RebuildDrops
<1>3. CASE Delete
  <2>1. PICK id \in Present(details) :
          Rebuild([details EXCEPT ![id] = NoEntry], limit, {}, {id})
    BY <1>3 DEF Delete
  <2>2. Present([details EXCEPT ![id] = NoEntry]) \subseteq Present(details)
    BY DEF Present
  <2> QED
    BY <1>1, <2>1, <2>2, RebuildDrops
<1>4. CASE Clear
  <2>1. Present(Nothing) = {}
    BY DEF Present, Nothing
  <2> QED
    BY <1>1, <1>4, <2>1, RebuildDrops DEF Clear
<1>5. CASE SetLimit
  BY <1>1, <1>5, RebuildDrops DEF SetLimit
<1> QED
  BY <1>2, <1>3, <1>4, <1>5

--------------------------------------------------------------------------------
(* The steps of the sessions *)

LEMMA StartForStep ==
  ASSUME SessionInv, NEW s \in Session, NEW pc \in PC,
         At(s, "new") \/ At(s, "missed"), pc \in {"starting", "restarting"}, StartFor(s, pc)
  PROVE  SessionInv'
<1>1. PICK id \in Id \ issued :
        /\ id = CHOOSE x \in issued' \ issued : TRUE
        /\ issued' = issued \cup {id}
        /\ Present(details') \subseteq Present(details) \cup {id}
        /\ index' = index /\ up' = up /\ up = "ready"
  BY StartAdds DEF SessionInv, StartFor
<1>2. /\ sess' = [sess EXCEPT ![s] = [sess[s] EXCEPT !.pc = pc, !.id = id]]
      /\ status' = [status EXCEPT ![id] = "streaming"]
      /\ owner' = [owner EXCEPT ![id] = s] /\ caller' = s
  BY <1>1 DEF StartFor, Become
<1>3. Ownership /\ Issued /\ Running /\ OncePerRequest
  BY DEF SessionInv
<1>4. \A x \in Present(details) : owner[x] # s
  BY <1>3 DEF Ownership, At, Started, Missing, Issued
<1>5. /\ sess'[s].pc = pc /\ sess'[s].id = id /\ sess'[s].want = sess[s].want
      /\ sess' \in [Session -> SessionState]
      /\ \A t \in Session \ {s} : sess'[t] = sess[t]
      /\ owner'[id] = s /\ \A x \in Id \ {id} : owner'[x] = owner[x]
      /\ status'[id] = "streaming" /\ \A x \in Id \ {id} : status'[x] = status[x]
  <2>1. sess \in [Session -> SessionState] /\ "streaming" \in Status
    BY <1>3 DEF Running, Status
  <2>2. PICK x \in SessionState : x = sess[s]
    BY <2>1
  <2>3. PICK y \in SessionState : /\ y.pc = pc /\ y.id = id /\ y.want = sess[s].want
                                 /\ sess' = [sess EXCEPT ![s] = y]
    <3>1. sess' = [sess EXCEPT ![s] = [x EXCEPT !.pc = pc, !.id = id]]
      BY <1>2, <2>2, Zenon
    <3>2. id \in Id
      BY <1>1
    <3>3. PICK y \in SessionState : /\ y = [x EXCEPT !.pc = pc, !.id = id]
                                   /\ y.pc = pc /\ y.id = id /\ y.want = x.want
      <4>1. LET y == [x EXCEPT !.pc = pc, !.id = id]
            IN  y \in SessionState /\ y.pc = pc /\ y.id = id /\ y.want = x.want
        BY <3>2 DEF SessionState
      <4> QED
        BY <4>1, Zenon
    <3>4. sess' = [sess EXCEPT ![s] = y] /\ y.want = sess[s].want
      BY <2>2, <3>1, <3>3, Zenon
    <3> QED
      BY <3>3, <3>4, Zenon
  <2> QED
    BY <1>2, <1>3, <2>1, <2>3 DEF Ownership, Running
<1>6. Ownership'
  <2>1. owner' \in [Id -> Session \cup {Nobody}]
    BY <1>2, <1>3 DEF Ownership
  <2>2. ASSUME NEW t \in Session, Started(t)'
        PROVE  /\ sess'[t].id \in issued' /\ owner'[sess'[t].id] = t
               /\ \A x \in Present(details') : owner'[x] = t => x = sess'[t].id
    <3>1. CASE t = s
      BY <1>1, <1>3, <1>4, <1>5, <3>1 DEF Issued
    <3>2. CASE t # s
      <4>1. sess'[t] = sess[t] /\ Started(t)
        BY <1>5, <2>2, <3>2 DEF Started
      <4>2. /\ sess[t].id \in issued /\ owner[sess[t].id] = t
            /\ \A x \in Present(details) : owner[x] = t => x = sess[t].id
        BY <1>3, <4>1 DEF Ownership
      <4>3. \A x \in issued : x \in Id /\ x # id /\ owner'[x] = owner[x]
        BY <1>1, <1>3, <1>5 DEF Issued
      <4>4. ASSUME NEW x \in Present(details'), owner'[x] = t PROVE x = sess[t].id
        <5>1. x # id
          BY <1>5, <3>2, <4>4
        <5>2. x \in Present(details) /\ x \in issued
          BY <1>1, <1>3, <5>1 DEF Issued
        <5> QED
          BY <4>2, <4>3, <4>4, <5>2
      <4> QED
        BY <1>1, <4>1, <4>2, <4>3, <4>4
    <3> QED
      BY <3>1, <3>2
  <2>3. ASSUME NEW t \in Session, At(t, "new")' PROVE \A x \in Id : owner'[x] # t
    BY <1>3, <1>5, <2>3 DEF Ownership, At
  <2>4. ASSUME NEW t \in Session, At(t, "missed")' PROVE Missing(t)'
    <3>1. t # s /\ At(t, "missed")
      BY <1>5, <2>4 DEF At
    <3>2. sess[t].id \in issued /\ sess[t].id \notin Present(details)
      BY <1>3, <3>1 DEF Ownership, Started, Missing, At
    <3> QED
      BY <1>1, <1>5, <3>1, <3>2 DEF Missing
  <2> QED
    BY <2>1, <2>2, <2>3, <2>4 DEF Ownership
<1>7. Issued'
  BY <1>1, <1>3 DEF Issued
<1>8. Running'
  <2>1. status' \in [Id -> Status] /\ caller' \in Session \cup {Nobody}
    BY <1>2, <1>3 DEF Running, Status
  <2>3. ASSUME NEW t \in Session, sess'[t].pc \in {"updating", "retrying", "ended"}
        PROVE  status'[sess'[t].id] = sess'[t].want
    <3>1. t # s
      BY <1>5, <2>3
    <3>2. sess[t].id \in issued
      BY <1>3, <1>5, <2>3, <3>1 DEF Ownership, Started
    <3> QED
      BY <1>1, <1>3, <1>5, <2>3, <3>1, <3>2 DEF Running, Issued
  <2> QED
    BY <1>1, <1>5, <2>1, <2>3 DEF Running
<1>9. OncePerRequest'
  <2>1. \A x \in Present(details) : x # id
    BY <1>1, <1>3 DEF Issued
  <2>2. ASSUME NEW a \in Present(details'), NEW b \in Present(details'),
               owner'[a] = owner'[b], owner'[a] \in Session
        PROVE  a = b
    <3>1. /\ a = id \/ (a \in Present(details) /\ a \in Id /\ owner'[a] = owner[a])
          /\ b = id \/ (b \in Present(details) /\ b \in Id /\ owner'[b] = owner[b])
      <4>1. \A x \in Present(details) : x \in Id \ {id}
        BY <1>3, <2>1 DEF Issued
      <4>2. a \in Present(details) \cup {id} /\ b \in Present(details) \cup {id}
        BY <1>1
      <4>3. \A x \in Present(details) : x \in Id /\ owner'[x] = owner[x]
        BY <1>5, <4>1
      <4>4. ASSUME NEW x \in Present(details) \cup {id}
            PROVE  x = id \/ (x \in Present(details) /\ x \in Id /\ owner'[x] = owner[x])
        BY <4>3
      <4> QED
        BY <4>2, <4>4, Zenon
    <3>2. \A x, y \in Present(details) : owner[x] = owner[y] /\ owner[x] \in Session => x = y
      BY <1>3 DEF OncePerRequest
    <3>3. CASE a # id /\ b # id
      BY <2>2, <3>1, <3>2, <3>3
    <3>4. CASE a = id
      BY <1>4, <1>5, <2>2, <3>1, <3>4
    <3>5. CASE b = id
      BY <1>4, <1>5, <2>2, <3>1, <3>5
    <3> QED
      BY <3>3, <3>4, <3>5
  <2>3. \A a, b \in index'.items : owner'[a] = owner'[b] /\ owner'[a] \in Session => a = b
    BY <1>1, <1>3, <1>5 DEF OncePerRequest, Issued
  <2> QED
    BY <2>2, <2>3 DEF OncePerRequest
<1> QED
  BY <1>6, <1>7, <1>8, <1>9 DEF SessionInv

LEMMA UpdateForStep ==
  ASSUME SessionInv, NEW s \in Session, NEW pc \in {"updating", "retrying"}, NEW want \in Status,
         At(s, "idle") \/ At(s, "again"), UpdateFor(s, pc, want)
  PROVE  SessionInv'
<1>1. /\ Present(details') \subseteq Present(details)
      /\ issued' = issued /\ index' = index /\ up' = up /\ up = "ready"
  BY OthersDrop DEF UpdateFor
<1>2. /\ sess' = [sess EXCEPT ![s] = [sess[s] EXCEPT !.pc = pc, !.want = want]]
      /\ status' = [status EXCEPT ![sess[s].id] = want]
      /\ owner' = owner /\ caller' = s
  BY DEF UpdateFor, Become
<1>3. Ownership /\ Issued /\ Running /\ OncePerRequest
  BY DEF SessionInv
<1>4. Started(s) /\ sess[s].id \in Id
  BY <1>3 DEF At, Started, Ownership, Issued
<1>5. /\ sess'[s].pc = pc /\ sess'[s].id = sess[s].id /\ sess'[s].want = want
      /\ sess' \in [Session -> SessionState]
      /\ \A t \in Session \ {s} : sess'[t] = sess[t]
      /\ status' \in [Id -> Status]
      /\ status'[sess[s].id] = want /\ \A x \in Id \ {sess[s].id} : status'[x] = status[x]
  <2>1. sess \in [Session -> SessionState] /\ pc \in PC
    BY <1>3 DEF Running, PC
  <2>2. PICK x \in SessionState : x = sess[s]
    BY <2>1
  <2>3. PICK y \in SessionState : /\ y.pc = pc /\ y.id = sess[s].id /\ y.want = want
                                 /\ sess' = [sess EXCEPT ![s] = y]
    <3>1. sess' = [sess EXCEPT ![s] = [x EXCEPT !.pc = pc, !.want = want]]
      BY <1>2, <2>2, Zenon
    <3>2. LET y == [x EXCEPT !.pc = pc, !.want = want]
          IN  y \in SessionState /\ y.pc = pc /\ y.id = x.id /\ y.want = want
      BY <2>1 DEF SessionState
    <3>3. PICK y \in SessionState : /\ y = [x EXCEPT !.pc = pc, !.want = want]
                                   /\ y.pc = pc /\ y.id = x.id /\ y.want = want
      BY <3>2, Zenon
    <3>4. sess' = [sess EXCEPT ![s] = y] /\ y.id = sess[s].id
      BY <2>2, <3>1, <3>3, Zenon
    <3> QED
      BY <3>3, <3>4, Zenon
  <2> QED
    BY <1>2, <1>3, <1>4, <2>1, <2>3 DEF Running
<1>6. Ownership'
  <2>1. ASSUME NEW t \in Session, Started(t)'
        PROVE  /\ sess'[t].id \in issued' /\ owner'[sess'[t].id] = t
               /\ \A x \in Present(details') : owner'[x] = t => x = sess'[t].id
    <3>1. sess'[t].id = sess[t].id /\ Started(t)
      BY <1>4, <1>5, <2>1 DEF Started
    <3> QED
      BY <1>1, <1>2, <1>3, <3>1 DEF Ownership
  <2>2. ASSUME NEW t \in Session, At(t, "new")' \/ At(t, "missed")' PROVE t # s
    BY <1>5, <2>2 DEF At
  <2>3. ASSUME NEW t \in Session, At(t, "missed")' PROVE Missing(t)'
    BY <1>1, <1>3, <1>5, <2>2, <2>3 DEF Ownership, At, Missing
  <2>4. ASSUME NEW t \in Session, At(t, "new")' PROVE \A x \in Id : owner'[x] # t
    BY <1>2, <1>3, <1>5, <2>2, <2>4 DEF Ownership, At
  <2> QED
    BY <1>2, <1>3, <2>1, <2>3, <2>4 DEF Ownership
<1>7. Issued' /\ OncePerRequest'
  BY <1>1, <1>2, <1>3 DEF Issued, OncePerRequest
<1>8. Running'
  <2>1. ASSUME NEW t \in Session \ {s}, sess'[t].pc \in {"updating", "retrying", "ended"}
        PROVE  status'[sess'[t].id] = sess'[t].want
    <3>1. Started(t)
      BY <1>5, <2>1 DEF Started
    <3>2. sess[t].id # sess[s].id /\ sess[t].id \in Id
      BY <1>3, <1>4, <3>1 DEF Ownership, Issued
    <3> QED
      BY <1>3, <1>5, <2>1, <3>2 DEF Running
  <2> QED
    BY <1>1, <1>2, <1>5, <2>1 DEF Running
<1> QED
  BY <1>6, <1>7, <1>8 DEF SessionInv

(* A session goes on without a call: it finds its entry missing, or gives up. *)
LEMMA PrivateSessionStep ==
  ASSUME SessionInv, NEW s \in Session,
         NoHistory(s) \/ FindMissing(s) \/ RetryDisabled(s) \/ RetryMissingAgain(s)
  PROVE  SessionInv'
<1>1. UNCHANGED <<vars, caller, status, owner>>
  BY DEF NoHistory, FindMissing, RetryDisabled, RetryMissingAgain, NoCall
<1>2. Ownership /\ Issued /\ Running /\ OncePerRequest
  BY DEF SessionInv
<1>3. PICK want \in Status :
        \/ At(s, "new") /\ sess' = [sess EXCEPT ![s] = [sess[s] EXCEPT !.pc = "none"]]
        \/ /\ At(s, "idle") /\ Missing(s) /\ up = "ready"
           /\ sess' = [sess EXCEPT ![s] = [sess[s] EXCEPT !.pc = "missed", !.want = want]]
        \/ /\ At(s, "missed") \/ At(s, "again")
           /\ up = "ready"
           /\ sess' = [sess EXCEPT ![s] = [sess[s] EXCEPT !.pc = "off"]]
  BY DEF NoHistory, FindMissing, RetryDisabled, RetryMissingAgain, GoTo, Become, Open, Status
<1>4. /\ sess'[s].id = sess[s].id
      /\ sess'[s].pc \in {"none", "missed", "off"}
      /\ sess'[s].pc = "none" => At(s, "new")
      /\ sess'[s].pc = "missed" => Missing(s)
      /\ sess'[s].pc # "none" => Started(s) /\ up = "ready"
      /\ \A t \in Session \ {s} : sess'[t] = sess[t]
      /\ sess' \in [Session -> SessionState]
  <2>1. sess \in [Session -> SessionState] /\ {"none", "off", "missed"} \subseteq PC
    BY <1>2 DEF Running, PC
  <2>2. PICK x \in SessionState : x = sess[s]
    BY <2>1
  <2>3. \/ At(s, "new") /\ sess' = [sess EXCEPT ![s] = [x EXCEPT !.pc = "none"]]
        \/ /\ At(s, "idle") /\ Missing(s) /\ up = "ready"
           /\ sess' = [sess EXCEPT ![s] = [x EXCEPT !.pc = "missed", !.want = want]]
        \/ /\ At(s, "missed") \/ At(s, "again")
           /\ up = "ready"
           /\ sess' = [sess EXCEPT ![s] = [x EXCEPT !.pc = "off"]]
    BY <1>3, <2>2, Zenon
  <2>4. /\ \A p \in {"none", "off"} :
             LET y == [x EXCEPT !.pc = p] IN y \in SessionState /\ y.pc = p /\ y.id = x.id
        /\ LET y == [x EXCEPT !.pc = "missed", !.want = want]
           IN  y \in SessionState /\ y.pc = "missed" /\ y.id = x.id
    <3>1. "none" \in PC /\ "off" \in PC /\ "missed" \in PC
      BY DEF PC
    <3>2. ASSUME NEW p \in {"none", "off"}
          PROVE  LET y == [x EXCEPT !.pc = p] IN y \in SessionState /\ y.pc = p /\ y.id = x.id
      <4>1. p \in PC
        BY <3>1
      <4> QED
        BY <4>1, Moved, Zenon
    <3>3. LET y == [x EXCEPT !.pc = "missed", !.want = want]
          IN  y \in SessionState /\ y.pc = "missed" /\ y.id = x.id
      BY <3>1 DEF SessionState
    <3> QED
      BY <3>2, <3>3, Zenon
  <2>5. PICK y \in SessionState :
          /\ y.id = sess[s].id /\ sess' = [sess EXCEPT ![s] = y]
          /\ \/ At(s, "new") /\ y.pc = "none"
             \/ At(s, "idle") /\ Missing(s) /\ up = "ready" /\ y.pc = "missed"
             \/ (At(s, "missed") \/ At(s, "again")) /\ up = "ready" /\ y.pc = "off"
    <3>1. x.id = sess[s].id
      BY <2>2
    <3>2. CASE At(s, "new") /\ sess' = [sess EXCEPT ![s] = [x EXCEPT !.pc = "none"]]
      <4>1. PICK y \in SessionState : y = [x EXCEPT !.pc = "none"] /\ y.pc = "none" /\ y.id = x.id
        BY <2>4, Zenon
      <4> QED
        BY <3>1, <3>2, <4>1, Zenon
    <3>3. CASE /\ At(s, "idle") /\ Missing(s) /\ up = "ready"
               /\ sess' = [sess EXCEPT ![s] = [x EXCEPT !.pc = "missed", !.want = want]]
      <4>1. PICK y \in SessionState : /\ y = [x EXCEPT !.pc = "missed", !.want = want]
                                     /\ y.pc = "missed" /\ y.id = x.id
        BY <2>4, Zenon
      <4> QED
        BY <3>1, <3>3, <4>1, Zenon
    <3>4. CASE /\ At(s, "missed") \/ At(s, "again")
               /\ up = "ready"
               /\ sess' = [sess EXCEPT ![s] = [x EXCEPT !.pc = "off"]]
      <4>1. PICK y \in SessionState : y = [x EXCEPT !.pc = "off"] /\ y.pc = "off" /\ y.id = x.id
        BY <2>4, Zenon
      <4> QED
        BY <3>1, <3>4, <4>1, Zenon
    <3> QED
      BY <2>3, <3>2, <3>3, <3>4, Zenon
  <2> QED
    BY <2>1, <2>5 DEF At, Started
<1>6. /\ details' = details /\ issued' = issued /\ index' = index /\ up' = up
      /\ owner' = owner /\ status' = status /\ caller' = caller
  BY <1>1 DEF vars, memory, disk
<1>7. Ownership'
  <2>1. ASSUME NEW t \in Session
        PROVE  /\ sess'[t].id = sess[t].id
               /\ Started(t)' => Started(t)
               /\ At(t, "new")' => At(t, "new")
               /\ At(t, "missed")' => Missing(t)
    BY <1>2, <1>4 DEF Ownership, Started, At
  <2>2. Present(details') = Present(details)
    BY <1>6
  <2> QED
    BY <1>2, <1>6, <2>1, <2>2 DEF Ownership, Missing
<1>8. Issued' /\ OncePerRequest'
  BY <1>2, <1>6 DEF Issued, OncePerRequest, Present
<1>9. Running'
  BY <1>2, <1>4, <1>6 DEF Running, Started
<1> QED
  BY <1>7, <1>8, <1>9 DEF SessionInv

--------------------------------------------------------------------------------
(* The steps of the store beside them *)

(* The sessions stay as they are while entries are dropped, written or listed. *)
LEMMA StoreStep ==
  ASSUME SessionInv, UNCHANGED sessionVars, issued' = issued,
         Present(details') \subseteq Present(details),
         index'.items = index.items \/ index'.items = Present(details),
         up = "ready" => up' = "ready"
  PROVE  SessionInv'
<1>1. Ownership /\ Issued /\ Running /\ OncePerRequest
  BY DEF SessionInv
<1>2. sess' = sess /\ owner' = owner /\ status' = status /\ caller' = caller
  BY DEF sessionVars
<1>3. Ownership'
  BY <1>1, <1>2 DEF Ownership, Started, At, Missing
<1>4. Issued' /\ OncePerRequest'
  BY <1>1, <1>2 DEF Issued, OncePerRequest
<1>5. Running'
  BY <1>1, <1>2 DEF Running, Started
<1> QED
  BY <1>3, <1>4, <1>5 DEF SessionInv

(* The store loads what the disk lists; no session is under way. *)
LEMMA BeginStep ==
  ASSUME HistoryInv, SessionInv, Begin
  PROVE  SessionInv'
<1>1. Ownership /\ Issued /\ Running /\ OncePerRequest
  BY DEF SessionInv
<1>2. sess' = sess /\ owner' = owner /\ status' = status /\ caller' = caller
  BY DEF Begin, sessionVars
<1>3. up = "down" /\ issued' = issued /\ index' = index
  BY DEF Begin, StartUp, Bootstrap, LoadLegacy, Load, LoadFails, disk
<1>4. Present(details') \subseteq index.items
  <2>1. CASE Bootstrap \/ LoadFails
    <3>1. details' = details /\ details = Nothing
      BY <1>3, <2>1 DEF Bootstrap, LoadFails, HistoryInv, Memory
    <3> QED
      BY <3>1 DEF Present, Nothing
  <2>2. CASE LoadLegacy
    <3>1. Rebuild(index.inline, index.limit, Present(index.inline), {})
      BY <2>2 DEF LoadLegacy
    <3>2. index.items = Present(index.inline)
      BY <2>2 DEF LoadLegacy, HistoryInv, Memory
    <3> QED
      BY <3>1, <3>2, RebuildDrops
  <2>3. CASE Load
    <3> DEFINE d == [id \in Id |-> IF id \in index.items THEN files[id] ELSE NoEntry]
    <3>1. Rebuild(d, index.limit, {}, {})
      BY <2>3 DEF Load
    <3>2. Present(d) \subseteq index.items
      BY DEF Present
    <3> HIDE DEF d
    <3> QED
      BY <3>1, <3>2, RebuildDrops
  <2> QED
    BY <2>1, <2>2, <2>3 DEF Begin, StartUp
<1>5. \A s \in Session : ~Started(s)
  BY <1>1, <1>3 DEF Running
<1>6. Ownership'
  BY <1>1, <1>2, <1>5 DEF Ownership, Started, At
<1>7. Issued' /\ OncePerRequest'
  BY <1>1, <1>2, <1>3, <1>4 DEF Issued, OncePerRequest
<1>8. Running'
  BY <1>1, <1>2, <1>5 DEF Running, Started
<1> QED
  BY <1>6, <1>7, <1>8 DEF SessionInv

LEMMA StopStep ==
  ASSUME SessionInv, Stop
  PROVE  SessionInv'
<1>1. Ownership /\ Issued /\ Running /\ OncePerRequest
  BY DEF SessionInv
<1>2. /\ details' = Nothing /\ issued' = issued /\ index' = index
      /\ owner' = owner /\ status' = status /\ caller' = Nobody
      /\ sess' = [s \in Session |-> IF At(s, "new") THEN sess[s] ELSE [Fresh EXCEPT !.pc = "none"]]
  BY DEF Stop, Crash, disk
<1>3. Present(details') = {}
  BY <1>2 DEF Present, Nothing
<1>4. \A s \in Session : ~Started(s)' /\ (At(s, "new")' => At(s, "new")) /\ ~At(s, "missed")'
  BY <1>2 DEF Started, At, Fresh
<1>5. Ownership'
  BY <1>1, <1>2, <1>4 DEF Ownership
<1>6. Issued' /\ OncePerRequest'
  BY <1>1, <1>2, <1>3 DEF Issued, OncePerRequest
<1>7. Running'
  <2>1. [Fresh EXCEPT !.pc = "none"] \in SessionState
    BY DEF Fresh, Status, SessionState, PC
  <2>2. sess' \in [Session -> SessionState]
    BY <1>1, <1>2, <2>1 DEF Running
  <2> QED
    BY <1>1, <1>2, <1>4, <2>2 DEF Running, Started
<1> QED
  BY <1>5, <1>6, <1>7 DEF SessionInv

(* A call has been saved, or its save has failed. *)
LEMMA ReturnStep ==
  ASSUME HistoryInv, SessionInv, Saved \/ NotSaved
  PROVE  SessionInv'
<1>1. Ownership /\ Issued /\ Running /\ OncePerRequest
  BY DEF SessionInv
<1>2. PICK saved \in BOOLEAN : CallReturns(saved)
  BY DEF Saved, NotSaved
<1>3. /\ sess' = [s \in Session |-> IF s = caller THEN Continued(sess[s], saved) ELSE sess[s]]
      /\ caller' = Nobody /\ status' = status /\ owner' = owner
  BY <1>2 DEF CallReturns
<1>4. /\ details' = details /\ issued' = issued /\ up' = up
      /\ index'.items = index.items \/ index'.items = Present(details)
  <2>1. CASE Saved
    BY <2>1 DEF Saved, WriteIndex
  <2>2. CASE NotSaved
    BY <2>2 DEF NotSaved, SaveFails, memory, disk
  <2> QED
    BY <2>1, <2>2
<1>5. ASSUME NEW s \in Session
      PROVE  /\ sess'[s].id = sess[s].id /\ sess'[s].want = sess[s].want
             /\ sess'[s] \in SessionState
             /\ sess'[s].pc \in {"new", "none", "missed"} \/ sess[s].pc \in {"new", "none", "missed"}
                  => sess'[s].pc = sess[s].pc
             /\ sess'[s].pc \in {"updating", "retrying", "ended"} =>
                  sess[s].pc \in {"updating", "retrying", "ended"}
  <2>1. sess[s] \in SessionState
    BY <1>1 DEF Running
  <2>2. CASE s # caller
    BY <1>3, <2>1, <2>2
  <2>3. CASE s = caller
    <3>1. sess'[s] = Continued(sess[s], saved)
      BY <1>3, <2>3
    <3>2. \A p \in {"idle", "again", "ended"} :
            LET y == [sess[s] EXCEPT !.pc = p]
            IN  y \in SessionState /\ y.pc = p /\ y.id = sess[s].id /\ y.want = sess[s].want
      <4>1. {"idle", "again", "ended"} \subseteq PC
        BY DEF PC
      <4> QED
        BY <2>1, <4>1, Moved, Zenon
    <3>3. PICK p \in {"idle", "again", "ended"} :
            \/ sess'[s] = sess[s]
            \/ /\ sess[s].pc \in {"starting", "restarting", "updating", "retrying"}
               /\ sess'[s] = [sess[s] EXCEPT !.pc = p]
               /\ p = "ended" => sess[s].pc \in {"updating", "retrying"}
      BY <3>1, Zenon DEF Continued, Written
    <3> QED
      BY <2>1, <3>2, <3>3
  <2> QED
    BY <2>2, <2>3
<1>6. Ownership'
  BY <1>1, <1>3, <1>4, <1>5 DEF Ownership, Started, At, Missing, Present
<1>7. Issued' /\ OncePerRequest'
  BY <1>1, <1>3, <1>4 DEF Issued, OncePerRequest, Present
<1>8. Running'
  <2>1. sess' \in [Session -> SessionState]
    BY <1>3, <1>5
  <2> QED
    BY <1>1, <1>3, <1>4, <1>5, <2>1 DEF Running, Started
<1> QED
  BY <1>6, <1>7, <1>8 DEF SessionInv

LEMMA SessionsInit ==
  ASSUME HInit
  PROVE  SessionInv
<1>1. /\ sess = [s \in Session |-> Fresh] /\ caller = Nobody
      /\ status = [id \in Id |-> "streaming"] /\ owner = [id \in Id |-> Nobody]
      /\ details = Nothing /\ up = "down" /\ issued = Present(acked)
      /\ index.items = {} \/ index.items = Present(acked)
  BY DEF HInit, Init, NoIndex
<1>2. Present(details) = {} /\ issued \subseteq Id
  BY <1>1 DEF Present, Nothing
<1>3. \A s \in Session : At(s, "new") /\ ~Started(s)
  BY <1>1 DEF At, Started, Fresh
<1>4. Ownership
  BY <1>1, <1>3, NobodyAssumption DEF Ownership, At
<1>5. Issued
  BY <1>1, <1>2 DEF Issued
<1>6. OncePerRequest
  BY <1>1, <1>2, <1>5, NobodyAssumption DEF OncePerRequest, Issued
<1>7. Running
  <2>1. Fresh \in SessionState
    BY DEF Fresh, Status, SessionState, PC
  <2> QED
    BY <1>1, <1>3, <2>1 DEF Running, Started, Fresh, Status
<1> QED
  BY <1>4, <1>5, <1>6, <1>7 DEF SessionInv

--------------------------------------------------------------------------------
(* Every step *)

LEMMA StoreIsCalled ==
  ASSUME HNext
  PROVE  [Next]_vars
<1>1. ASSUME NEW s \in Session, SessionStep(s) PROVE [Next]_vars
  BY <1>1 DEF SessionStep, BeginHistory, NoHistory, Persist, FindMissing, RetryMissingEntry,
              RetryDisabled, RetryUpdate, RetryMissingAgain, StartFor, UpdateFor, NoCall,
              Next, Operation
<1>2. CASE Saved \/ NotSaved \/ FileStep
  BY <1>2 DEF Saved, NotSaved, FileStep, Next, Saving
<1>3. CASE Operate \/ Stop \/ Begin
  BY <1>3 DEF Operate, Stop, Begin, Next, Operation
<1> QED
  BY <1>1, <1>2, <1>3 DEF HNext

LEMMA SessionsNext ==
  ASSUME HistoryInv, SessionInv, [HNext]_hvars
  PROVE  SessionInv'
<1>1. ASSUME NEW s \in Session, SessionStep(s) PROVE SessionInv'
  <2>1. CASE BeginHistory(s) \/ RetryMissingEntry(s)
    BY <2>1, StartForStep DEF BeginHistory, RetryMissingEntry, PC
  <2>2. CASE Persist(s) \/ RetryUpdate(s)
    <3>1. sess[s].want \in Status
      BY DEF SessionInv, Running, SessionState
    <3> QED
      BY <2>2, <3>1, UpdateForStep DEF Persist, RetryUpdate
  <2>3. CASE NoHistory(s) \/ FindMissing(s) \/ RetryDisabled(s) \/ RetryMissingAgain(s)
    BY <2>3, PrivateSessionStep
  <2> QED
    BY <1>1, <2>1, <2>2, <2>3 DEF SessionStep
<1>2. CASE Saved \/ NotSaved
  BY <1>2, ReturnStep
<1>3. CASE FileStep
  <2>1. UNCHANGED sessionVars /\ details' = details /\ issued' = issued /\ index' = index /\ up' = up
    BY <1>3 DEF FileStep, RemoveFile, AllRemoved, WriteFile, AllWritten, memory, disk
  <2> QED
    BY <2>1, StoreStep DEF Present
<1>4. CASE Operate
  BY <1>4, OthersDrop, StoreStep DEF Operate
<1>5. CASE Stop
  BY <1>5, StopStep
<1>6. CASE Begin
  BY <1>6, BeginStep
<1>7. CASE UNCHANGED hvars
  <2>1. UNCHANGED sessionVars /\ details' = details /\ issued' = issued /\ index' = index /\ up' = up
    BY <1>7 DEF hvars, vars, memory, disk
  <2> QED
    BY <2>1, StoreStep DEF Present
<1> QED
  BY <1>1, <1>2, <1>3, <1>4, <1>5, <1>6, <1>7 DEF HNext

--------------------------------------------------------------------------------
(* The requests use the store as it allows: with their own steps hidden, the *)
(* composition is a behaviour of ChatHistory, so what is proved of the store *)
(* holds beside any number of requests (the mutex around each call).         *)
THEOREM SessionsUseTheStore == HSpec => Spec
<1>1. HInit => Init
  BY DEF HInit
<1>2. [HNext]_hvars => [Next]_vars
  BY StoreIsCalled DEF hvars
<1> QED
  BY <1>1, <1>2, PTL DEF HSpec, Spec

(* The inductive invariant of the sessions: which entries are a session's    *)
(* own, that only issued entries are listed, and what it has written.        *)
THEOREM SessionInvariant == HSpec => []SessionInv
<1>1. HInit => SessionInv
  BY SessionsInit
<1>2. HistoryInv /\ SessionInv /\ [HNext]_hvars => SessionInv'
  BY SessionsNext
<1> QED
  BY <1>1, <1>2, SessionsUseTheStore, HistoryInvariant, PTL DEF HSpec

(* However often its entry is trimmed, deleted and started anew, a request is *)
(* listed once, in memory and on disk, across crashes (retryMissingEntry).    *)
THEOREM RequestsListedOnce == HSpec => []OncePerRequest
<1>1. SessionInv => OncePerRequest
  BY DEF SessionInv
<1> QED
  BY <1>1, SessionInvariant, PTL

(* The entry of a request that has ended, when there is one, shows the ending *)
(* the request wrote last (handlePersistError, retryMissingEntry).            *)
THEOREM EndingsAreShown == HSpec => []EndingIsShown
<1>1. SessionInv => EndingIsShown
  BY DEF SessionInv, Running, EndingIsShown, At
<1> QED
  BY <1>1, SessionInvariant, PTL

(* What a save acknowledged stays on disk while requests and the operator go  *)
(* on using the store, and so does what failed saves owe it (saveLocked).     *)
THEOREM RequestsLoseNothing == HSpec => [](TypeOK /\ PendingCovers /\ Durable)
<1>1. HistoryInv => TypeOK /\ PendingCovers /\ Durable
  BY DEF HistoryInv
<1> QED
  BY <1>1, HistoryInvariant, SessionsUseTheStore, PTL

================================================================================
