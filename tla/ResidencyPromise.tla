-------------------------- MODULE ResidencyPromise --------------------------
(***************************************************************************)
(* What map streaming promises to the rest of the preview, without queue,  *)
(* worker, generations or scene groups: a set of wanted keys that changes  *)
(* from frame to frame, and for each key where it is in its life.          *)
(***************************************************************************)
CONSTANT Keys

VARIABLES
  wanted,      (* the keys the last frame wanted                            *)
  again,       (* keys the user has chosen anew since the last frame        *)
  residency,   (* key -> absent, pending, resident or failed                *)
  open         (* the session is running                                    *)

promiseVars == <<wanted, again, residency, open>>

Residencies == {"absent", "pending", "resident", "failed"}

Init ==
  /\ wanted = {}
  /\ again \in SUBSET Keys
  /\ residency = [k \in Keys |-> "absent"]
  /\ open = TRUE

(* What one frame may make of a key: nothing unwanted is held, nothing     *)
(* resident is loaded anew, nothing is resident or fails without having    *)
(* been waited for, and a failure lasts until the user chooses the key     *)
(* again.                                                                  *)
NextOf(k) ==
  IF k \notin wanted' THEN {"absent"}
  ELSE CASE residency[k] = "absent"   -> {"pending"}
         [] residency[k] = "pending"  -> {"pending", "resident", "failed"}
         [] residency[k] = "resident" -> {"resident"}
         [] residency[k] = "failed"   -> IF k \in again THEN {"pending"} ELSE {"failed"}

Frame ==
  /\ open
  /\ wanted' \in SUBSET Keys
  /\ residency' \in [Keys -> Residencies]
  /\ \A k \in Keys : residency'[k] \in NextOf(k)
  /\ again' = {}
  /\ UNCHANGED open

Choose ==
  /\ open
  /\ again' \in SUBSET Keys
  /\ again \subseteq again'
  /\ UNCHANGED <<wanted, residency, open>>

Close ==
  /\ open
  /\ open' = FALSE
  /\ UNCHANGED <<wanted, again, residency>>

Next == Frame \/ Choose \/ Close

Spec == Init /\ [][Next]_promiseVars

PendingKeysSettle ==
  \A k \in Keys : residency[k] = "pending" ~> residency[k] # "pending" \/ ~ open

=============================================================================
