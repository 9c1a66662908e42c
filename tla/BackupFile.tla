----------------------------- MODULE BackupFile -----------------------------
(***************************************************************************)
(* What defib dump-flash promises about the file it is given, whatever     *)
(* fails in between: the file changes once, from what it was to a complete *)
(* image, and success is reported after that and not otherwise.            *)
(***************************************************************************)
CONSTANTS
  Images,    \* the complete images
  Before     \* what the file holds at first

VARIABLES
  file,      \* what the file holds
  job,       \* "dump", or "burn" for an invocation that leaves files alone
  state      \* of the invocation: "idle", "busy", "replaced", "ok" or "failed"

Init == file = Before /\ job = "burn" /\ state = "idle"

Begin == state = "idle" /\ state' = "busy" /\ job' \in {"burn", "dump"} /\ UNCHANGED file

Commit == state = "busy" /\ job = "dump" /\ state' = "replaced" /\ file' \in Images /\ UNCHANGED job

Succeed ==
  /\ \/ state = "busy" /\ job = "burn"
     \/ state = "replaced"
  /\ state' = "ok" /\ UNCHANGED <<file, job>>

Fail == state \in {"busy", "replaced"} /\ state' = "failed" /\ UNCHANGED <<file, job>>

End == state \in {"ok", "failed"} /\ state' = "idle" /\ UNCHANGED <<file, job>>

Next == Begin \/ Commit \/ Succeed \/ Fail \/ End

Safety == Init /\ [][Next]_<<file, job, state>>

\* A busy invocation ends.
Spec == Safety /\ WF_<<file, job, state>>(Commit \/ Succeed \/ Fail)
=============================================================================
