----------------------------- MODULE JobLifecycle -----------------------------
(***************************************************************************)
(* What the farm promises about its jobs, whatever the poller, the request *)
(* handlers, the printers and the crashes do: a job goes through its       *)
(* statuses in order, a print starts only on a printer that holds no other *)
(* one, and each change of a job is told to its owner once, with it.       *)
(*                                                                         *)
(* PrintFarm implements this specification.                                *)
(***************************************************************************)
EXTENDS Sequences

CONSTANTS Jobs, Printers

VARIABLES
  phase,     \* the job's status
  printer,   \* the printer it was submitted for
  paused,    \* the printing jobs that are paused
  told       \* what the owner has been told, in order

vars == <<phase, printer, paused, told>>

Init ==
  /\ phase = [j \in Jobs |-> "new"]
  /\ printer \in [Jobs -> Printers]
  /\ paused = {}
  /\ told = [j \in Jobs |-> <<>>]

Occupies(j, p) == printer[j] = p /\ phase[j] \in {"printing", "completed"}

Move(j, from, to) == phase[j] = from /\ phase' = [phase EXCEPT ![j] = to]
Tell(j, kind) == told' = [told EXCEPT ![j] = Append(@, kind)]

Submit(j) == Move(j, "new", "queued") /\ UNCHANGED <<printer, paused, told>>

Start(j) ==
  /\ \A i \in Jobs : ~Occupies(i, printer[j])
  /\ Move(j, "queued", "printing") /\ Tell(j, "job_started")
  /\ UNCHANGED <<printer, paused>>

Pause(j) ==
  /\ phase[j] = "printing" /\ j \notin paused
  /\ paused' = paused \cup {j} /\ Tell(j, "job_paused")
  /\ UNCHANGED <<phase, printer>>

Resume(j) ==
  /\ j \in paused
  /\ paused' = paused \ {j} /\ Tell(j, "job_resumed")
  /\ UNCHANGED <<phase, printer>>

End(j, outcome, kind) ==
  /\ Move(j, "printing", outcome) /\ Tell(j, kind)
  /\ paused' = paused \ {j}
  /\ UNCHANGED printer

Collect(j) ==
  /\ Move(j, "completed", "ready_for_collection") /\ Tell(j, "ready_for_collection")
  /\ UNCHANGED <<printer, paused>>

Next ==
  \E j \in Jobs :
    \/ Submit(j) \/ Start(j) \/ Pause(j) \/ Resume(j)
    \/ End(j, "completed", "job_completed") \/ End(j, "failed", "job_error")
    \/ Collect(j)

Spec == Init /\ [][Next]_vars
=============================================================================
