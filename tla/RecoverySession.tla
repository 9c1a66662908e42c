-------------------------- MODULE RecoverySession --------------------------
(***************************************************************************)
(* RecoverySession.run (src/src/defib/recovery/session.py): power-cycle    *)
(* the camera, greet its boot ROM, send the firmware stage by stage, and   *)
(* start over when an attempt fails early.  For the frame-blast chips the  *)
(* power is cycled first; for all others the handshake is a task of its    *)
(* own that runs while the power controller works.                         *)
(*                                                                         *)
(* The camera and its power switch are external: a boot ROM listens for a  *)
(* while after power-on (for ever if the flash is blank), and knows only   *)
(* a host that has greeted it since its last reset.                        *)
(***************************************************************************)
EXTENDS Integers, Sequences

CONSTANTS
  Protocols,       \* of "blast" (standard with a prestep), "std", "v500", "cv6xx"
  Controllers,     \* of "none", "sync" and "async" (power_cycle returns at once)
  MaxAttempts,     \* max_handshake_attempts
  MaxUserCycles    \* bound: power cycles by hand, without a power controller

ASSUME SessionAssumption ==
  /\ Protocols \subseteq {"blast", "std", "v500", "cv6xx"}
  /\ Controllers \subseteq {"none", "sync", "async"}
  /\ MaxAttempts \in Nat \ {0} /\ MaxUserCycles \in Nat

VARIABLES
  proto, ctl,      \* the chip's protocol; the power controller
  pc, attempt,     \* where run is; the attempt it is at
  task,            \* the handshake: "none", "running" or "done"
  stages, result,  \* send_result.stages_completed; what run returned
  cam, blank,      \* the camera; is its flash blank?
  switch,          \* its power: "on", "cutting" (a cycle is asked for), "off", "stuck"
  boot, heard,     \* history: power-ons; the one during which the handshake ended
  got, byHand,     \* history: stages this boot received; power cycles by hand
  cut              \* history: was one of them between two stages?

hostVars == <<pc, attempt, task, stages, result, heard>>
camVars  == <<cam, blank, switch, boot, got, byHand, cut>>
vars == <<proto, ctl, hostVars, camVars>>

HasPower == ctl # "none"
Attempts == IF HasPower THEN MaxAttempts ELSE 1

\* The stages send_firmware appends to stages_completed.
StagesOf(p) ==
  CASE p \in {"blast", "std"} -> <<"DDR_INIT", "SPL", "UBOOT">>
    [] p = "v500"  -> <<"HEAD_AREA", "AUX_AREA", "BOOT_IMAGE">>
    [] p = "cv6xx" -> <<"GSL", "DDR_TABLE", "DDR_TRAINING", "UBOOT">>

Completed == {StagesOf(proto)[i] : i \in 1..stages}

---------------------------------------------------------------------------
(* The camera.                                                             *)

CameraOff ==
  /\ switch = "cutting"
  /\ switch' = "off" /\ cam' = "off" /\ got' = 0
  /\ UNCHANGED <<proto, ctl, hostVars, blank, boot, byHand, cut>>

CameraOn ==
  /\ switch = "off"
  /\ switch' = "on" /\ cam' = "rom" /\ boot' = boot + 1
  /\ UNCHANGED <<proto, ctl, hostVars, blank, got, byHand, cut>>

\* Nobody greeted the boot ROM in time: it starts what the flash holds.
WindowCloses ==
  /\ cam = "rom" /\ ~blank
  /\ cam' = "os"
  /\ UNCHANGED <<proto, ctl, hostVars, blank, switch, boot, got, byHand, cut>>

\* "power-cycle the device now!", also in the middle of a transfer.
UserCycles ==
  /\ ~HasPower /\ byHand < MaxUserCycles /\ cam \in {"os", "rom", "greeted"}
  /\ byHand' = byHand + 1 /\ cam' = "rom" /\ boot' = boot + 1 /\ got' = 0
  /\ cut' = (cut \/ (pc = "send" /\ stages > 0))
  /\ UNCHANGED <<proto, ctl, hostVars, blank, switch>>

---------------------------------------------------------------------------
(* The handshake: no implementation has a deadline or returns a failure.   *)

HandshakeAnswered ==
  /\ task = "running" /\ cam = "rom"
  /\ task' = "done" /\ heard' = boot
  /\ cam' = "greeted"
  /\ UNCHANGED <<proto, ctl, pc, attempt, stages, result, blank, switch, boot, got,
                 byHand, cut>>

\* The standard protocol takes five blanks in a row for boot markers, also
\* when it is the running system that prints them.
HandshakeFooled ==
  /\ task = "running" /\ cam = "os" /\ proto \in {"blast", "std"}
  /\ task' = "done" /\ heard' = boot
  /\ UNCHANGED <<proto, ctl, pc, attempt, stages, result, camVars>>

\* One more frame is written, and the read times out.
HandshakeRepeats ==
  /\ task = "running" /\ cam \in {"off", "os", "greeted"}
  /\ UNCHANGED vars

---------------------------------------------------------------------------
(* RecoverySession.run.                                                    *)

Return(how) == pc' = "returned" /\ result' = how

\* Mutant: the stages of the previous attempt are kept.
Attempt_KeepsStages ==
  /\ pc = "attempt"
  /\ CASE HasPower /\ proto = "blast"  -> pc' = "cycle" /\ UNCHANGED task
       [] HasPower /\ proto # "blast"  -> pc' = "lead" /\ task' = "running"
       [] ~HasPower /\ proto = "blast" -> pc' = "send" /\ UNCHANGED task
       [] OTHER                        -> pc' = "wait" /\ task' = "running"
  /\ switch' = IF HasPower /\ proto = "blast" THEN "cutting" ELSE switch
  /\ UNCHANGED <<proto, ctl, attempt, result, heard, stages, cam, blank, boot, got,
                 byHand, cut>>

\* The top of the retry loop.
Attempt ==
  /\ pc = "attempt"
  /\ CASE HasPower /\ proto = "blast"  -> pc' = "cycle" /\ UNCHANGED task
       [] HasPower /\ proto # "blast"  -> pc' = "lead" /\ task' = "running"
       [] ~HasPower /\ proto = "blast" -> pc' = "send" /\ UNCHANGED task
       [] OTHER                        -> pc' = "wait" /\ task' = "running"
  /\ switch' = IF HasPower /\ proto = "blast" THEN "cutting" ELSE switch
  /\ stages' = 0
  /\ UNCHANGED <<proto, ctl, attempt, result, heard, cam, blank, boot, got, byHand,
                 cut>>

\* The handshake has had its 50 ms on the wire.
RequestCycle ==
  /\ pc = "lead"
  /\ pc' = "cycle" /\ switch' = "cutting"
  /\ UNCHANGED <<proto, ctl, attempt, task, stages, result, heard, cam, blank, boot,
                 got, byHand, cut>>

\* Mutant: power_cycle is not awaited.
CycleReturns_NotAwaited ==
  /\ pc = "cycle"
  /\ pc' = "wait"
  /\ task' = IF proto = "blast" THEN "running" ELSE task
  /\ UNCHANGED <<proto, ctl, attempt, stages, result, heard, camVars>>

\* A switch that times the cycle itself answers once it has cut the power.
CycleReturns ==
  /\ pc = "cycle"
  /\ switch = "on" \/ (switch = "off" /\ ctl = "async")
  /\ pc' = "wait"
  /\ task' = IF proto = "blast" THEN "running" ELSE task
  /\ UNCHANGED <<proto, ctl, attempt, stages, result, heard, camVars>>

\* Mutant: the handshake task is not cancelled.
CycleFails_NoCancel ==
  /\ pc = "cycle"
  /\ \/ switch = "cutting" /\ switch' = IF cam = "off" THEN "off" ELSE "on"
     \/ switch = "off" /\ ctl = "sync" /\ switch' = "stuck"
  /\ Return("fail")
  /\ UNCHANGED <<proto, ctl, attempt, task, stages, heard, cam, blank, boot, got,
                 byHand, cut>>

\* Mutant: the failure is logged, and the handshake awaited all the same.
CycleFails_Awaits ==
  /\ pc = "cycle"
  /\ \/ switch = "cutting" /\ switch' = IF cam = "off" THEN "off" ELSE "on"
     \/ switch = "off" /\ ctl = "sync" /\ switch' = "stuck"
  /\ pc' = "wait"
  /\ task' = IF proto = "blast" THEN "running" ELSE task
  /\ UNCHANGED <<proto, ctl, attempt, result, stages, heard, cam, blank, boot, got,
                 byHand, cut>>

\* power_cycle raises: before anything happened, or between off and on.
CycleFails ==
  /\ pc = "cycle"
  /\ \/ switch = "cutting" /\ switch' = IF cam = "off" THEN "off" ELSE "on"
     \/ switch = "off" /\ ctl = "sync" /\ switch' = "stuck"
  /\ Return("fail")
  /\ task' = "none"
  /\ UNCHANGED <<proto, ctl, attempt, stages, heard, cam, blank, boot, got, byHand,
                 cut>>

HandshakeTaken ==
  /\ pc = "wait" /\ task = "done"
  /\ pc' = "send" /\ task' = "none"
  /\ UNCHANGED <<proto, ctl, attempt, stages, result, heard, camVars>>

\* DDR training is waited for, not acknowledged: the wait never fails.
Training == StagesOf(proto)[stages + 1] = "DDR_TRAINING"

\* The standard protocol greets a boot ROM that was reset meanwhile: before the
\* SPL with _rehandshake, before U-Boot with _rehandshake too or, on the blast
\* chips, with _send_frame_for_start, which also opens their first stage.
Reached ==
  \/ cam = "greeted"
  \/ cam = "rom" /\ (proto = "blast" \/ (proto = "std" /\ stages > 0))

SendStage ==
  /\ pc = "send" /\ Reached /\ ~Training
  /\ stages' = stages + 1 /\ got' = got + 1
  /\ LET last == stages + 1 = Len(StagesOf(proto)) IN
       /\ cam' = IF last THEN "uboot" ELSE "greeted"
       /\ pc' = IF last THEN "sent" ELSE "send"
  /\ UNCHANGED <<proto, ctl, attempt, task, result, heard, blank, switch, boot,
                 byHand, cut>>

WaitTraining ==
  /\ pc = "send" /\ Training
  /\ stages' = stages + 1
  /\ got' = IF cam = "greeted" THEN got + 1 ELSE got
  /\ UNCHANGED <<proto, ctl, pc, attempt, task, result, heard, cam, blank, switch, boot,
                 byHand, cut>>

\* A frame was not acknowledged.
SendFails ==
  /\ pc = "send" /\ ~Training
  /\ IF "DDR_INIT" \notin Completed /\ attempt < Attempts
     THEN pc' = "attempt" /\ attempt' = attempt + 1 /\ UNCHANGED result
     ELSE Return("fail") /\ UNCHANGED attempt
  /\ UNCHANGED <<proto, ctl, task, stages, heard, camVars>>

\* With send_break, Ctrl-C is sent for up to 15 s first, prompt or not.
Finish ==
  /\ pc = "sent"
  /\ Return("success")
  /\ UNCHANGED <<proto, ctl, attempt, task, stages, heard, camVars>>

Stopped == pc = "returned" /\ task = "none" /\ UNCHANGED vars

---------------------------------------------------------------------------
Init ==
  /\ proto \in Protocols /\ ctl \in Controllers
  /\ pc = "attempt" /\ attempt = 1 /\ task = "none"
  /\ stages = 0 /\ result = "none"
  /\ blank \in BOOLEAN
  /\ cam \in IF blank THEN {"rom"} ELSE {"rom", "os"}
  /\ switch = "on" /\ boot = 1 /\ heard = 0 /\ got = 0 /\ byHand = 0 /\ cut = FALSE

RunNext ==
  \/ Attempt \/ RequestCycle \/ CycleReturns \/ CycleFails \/ HandshakeTaken
  \/ SendStage \/ WaitTraining \/ SendFails \/ Finish
CamNext == CameraOff \/ CameraOn

Next ==
  \/ RunNext \/ CamNext \/ HandshakeAnswered \/ HandshakeFooled \/ HandshakeRepeats
  \/ WindowCloses \/ UserCycles \/ Stopped

Spec == Init /\ [][Next]_vars
FairSpec ==
  Spec /\ WF_vars(RunNext) /\ WF_vars(CamNext) /\ WF_vars(HandshakeAnswered)

---------------------------------------------------------------------------
TypeOK ==
  /\ proto \in Protocols /\ ctl \in Controllers
  /\ pc \in {"attempt", "lead", "cycle", "wait", "send", "sent", "returned"}
  /\ attempt \in 1..Attempts /\ task \in {"none", "running", "done"}
  /\ stages \in 0..4 /\ result \in {"none", "success", "fail"}
  /\ cam \in {"off", "rom", "os", "greeted", "uboot"} /\ blank \in BOOLEAN
  /\ switch \in {"on", "cutting", "off", "stuck"}
  /\ boot \in Nat /\ heard \in 0..boot /\ got \in Nat /\ byHand \in 0..MaxUserCycles
  /\ cut \in BOOLEAN

\* For the chips whose power is cycled first, the firmware goes to a camera that
\* has power and that was heard after this attempt's reset, never before it.
HeardAfterReset ==
  pc = "send" /\ HasPower /\ proto = "blast" => switch = "on" /\ heard = boot

\* run reports success only when one and the same boot of the camera received
\* every stage, whatever the attempts before it had already sent.  The exception
\* is a camera reset by hand between two stages: the standard protocol
\* greets the fresh boot ROM and goes on with the stages that are left.
SuccessIsOneBoot ==
  result = "success" =>
    /\ cam = "uboot"
    /\ got = Len(StagesOf(proto)) \/ (~HasPower /\ proto \in {"blast", "std"} /\ cut)

\* The handshake task never outlives run: whoever gets the transport next is
\* not talked over by handshake frames.
NoOrphanHandshake == pc = "returned" => task # "running"

\* A camera whose boot ROM keeps listening is either recovered or given up:
\* run comes to an end, whatever fails.
RunReturns == blank ~> pc = "returned"
=============================================================================
