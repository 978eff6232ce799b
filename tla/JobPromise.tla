----------------------------- MODULE JobPromise -----------------------------
(***************************************************************************)
(* What the preview may rely on about a job it hands to a worker process,  *)
(* whatever happens to the worker, its files or the calls about it: while  *)
(* the job is shown as running there may be a worker; once it is shown as  *)
(* ended there is none; it is shown as completed only if everything it was *)
(* asked for has been delivered, and as cancelled only if that was asked.  *)
(***************************************************************************)
VARIABLES
  view,        (* idle, running, completed, cancelled or failed              *)
  alive,       (* there is a worker process                                  *)
  asked,       (* cancellation has been asked of this job                    *)
  delivered    (* every file of this job and its report are there            *)

promiseVars == <<view, alive, asked, delivered>>

Ends == {"completed", "cancelled", "failed"}

Init ==
  /\ view = "idle"
  /\ ~ alive /\ ~ asked /\ ~ delivered

Begin ==
  /\ view # "running" /\ ~ alive
  /\ \/ view' = "running" /\ alive'
     \/ view' = "failed" /\ ~ alive'
  /\ ~ asked' /\ ~ delivered'

Ask ==
  /\ view = "running"
  /\ asked'
  /\ UNCHANGED <<view, alive, delivered>>

(* Files appear while the job is shown, and also after its worker is gone: *)
(* a worker started by hand is not the controller's to stop.               *)
Deliver ==
  /\ delivered'
  /\ UNCHANGED <<view, alive, asked>>

Stop ==
  /\ alive /\ ~ alive'
  /\ UNCHANGED <<view, asked, delivered>>

End ==
  /\ view = "running" /\ ~ alive
  /\ view' \in Ends
  /\ view' = "completed" => delivered
  /\ view' = "cancelled" => asked
  /\ UNCHANGED <<alive, asked, delivered>>

Next == Begin \/ Ask \/ Deliver \/ Stop \/ End

Spec == Init /\ [][Next]_promiseVars

=============================================================================
