---------------------------- MODULE AccountRotation ----------------------------
(***************************************************************************)
(* AccountPool with two histories: who was leased since whom, which tells  *)
(* whether the rotation keeps every upstream session fresh, and whether    *)
(* some caller has ever named an account or given up.                      *)
(***************************************************************************)
EXTENDS AccountPool

VARIABLES
  since,   \* history: since[b] = accounts leased since b was leased or joined the rotation
  patient  \* history: no caller has named or excluded an account, none has given up

(* The accounts leased by this step. *)
Leased == {held'[r] : r \in {s \in Request : held[s] = NoAccount}} \ {NoAccount}

RecordTurns ==
  since' = [b \in Account |->
              IF b \in Leased \/ b \notin Range(queue') THEN {} ELSE since[b] \cup Leased]

RecordPatience ==
  patient' = (/\ patient
              /\ \A r \in Request : args'[r] = NoArgs /\ ~late'[r])

RotationInit == Init /\ since = [b \in Account |-> {}] /\ patient = TRUE

RotationNext == Next /\ RecordTurns /\ RecordPatience

RotationSpec == RotationInit /\ [][RotationNext]_<<vars, since, patient>>

(* A request that names no account gets one that has not been leased since *)
(* any other account it could have got: nothing overtakes an account that  *)
(* waits for its turn, whatever targeted leases, snapshots and removals    *)
(* happen in between (tryAcquire, bumpQueue, SyncAccounts).                *)
TurnsAreFair ==
  \A x \in SUBSET Account :
    \A a \in Choice(NoAccount, x) :
      \A b \in Range(queue) : Eligible(b, x) => a \notin since[b]

(* Release wakes one caller only.  As long as nobody has named an account  *)
(* and nobody has given up, that is enough: a caller asleep while it could *)
(* be served always has another one awake on its way to the lock.  (A      *)
(* woken caller that gives up, or wants another account, takes the wake-up *)
(* with it.)                                                               *)
PatientAreWoken == patient => NoLostWakeup

================================================================================
