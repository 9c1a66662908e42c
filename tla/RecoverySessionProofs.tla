----------------------- MODULE RecoverySessionProofs -----------------------
(***************************************************************************)
(* Proofs about RecoverySession for every number of attempts, every        *)
(* protocol and every kind of power controller.                            *)
(***************************************************************************)
EXTENDS RecoverySession, TLAPS

\* When there is a handshake task.
TaskInv ==
  /\ pc \in {"attempt", "send", "sent", "returned"} => task = "none"
  /\ pc = "cycle" /\ proto = "blast" => task = "none"
  /\ pc = "lead" => proto # "blast"

\* A request to cycle the power is under way only inside power_cycle, and the
\* camera is dark exactly while the power is off.
PowerInv ==
  /\ switch = "cutting" => pc = "cycle"
  /\ switch \in {"off", "stuck"} => cam = "off"
  /\ switch = "on" => cam # "off"
  /\ switch = "stuck" => pc = "returned"

\* A camera that only the standard protocol goes on with.
Regreeted == ~HasPower /\ proto \in {"blast", "std"} /\ cut

\* What the camera has received of this attempt: nothing before sending begins,
\* then exactly the stages the host counts, as long as nobody resets the camera
\* by hand between two stages and the standard protocol greets it again.
StageInv ==
  /\ pc \in {"attempt", "lead", "cycle", "wait"} /\ ~HasPower => got = 0 /\ stages = 0
  /\ pc = "cycle" /\ switch # "cutting" => got = 0
  /\ pc \in {"lead", "cycle", "wait"} => stages = 0
  /\ pc = "wait" => got = 0
  /\ pc = "send" => stages < Len(StagesOf(proto))
  /\ pc = "send" /\ cam = "greeted" => got = stages \/ Regreeted
  /\ pc = "send" /\ stages > 0 => cam # "off" /\ (cam = "rom" => cut)
  /\ cut => ~HasPower
  /\ cam \in {"off", "rom"} => got = 0
  /\ pc = "sent" => cam = "uboot" /\ (got = Len(StagesOf(proto)) \/ Regreeted)

\* What a handshake of a frame-blast chip heard.
HeardInv ==
  HasPower /\ proto = "blast" /\ pc = "wait" /\ task = "done" =>
    switch = "on" /\ heard = boot

ResultInv == result = "success" => pc = "returned"

IInv ==
  TypeOK /\ TaskInv /\ PowerInv /\ StageInv /\ HeardInv /\ ResultInv
  /\ HeardAfterReset /\ SuccessIsOneBoot

\* Every protocol has three or four stages.
LEMMA StagesLen ==
  \A p \in {"blast", "std", "v500", "cv6xx"} :
    Len(StagesOf(p)) \in Nat /\ Len(StagesOf(p)) <= 4 /\ Len(StagesOf(p)) > 0
BY DEF StagesOf

\* There is at least one attempt.
LEMMA AttemptsNat == Attempts \in Nat /\ Attempts >= 1
BY SessionAssumption DEF Attempts

\* IInv is inductive: it holds initially, and every step of the session, the
\* handshake task, the power switch and the camera preserves it.
THEOREM Inductive == Spec => []IInv
<1>1. Init => IInv
  <2> SUFFICES ASSUME Init PROVE IInv
    OBVIOUS
  <2>0. cut \in BOOLEAN /\ blank \in BOOLEAN
    BY DEF Init
  <2>1. TypeOK
    BY <2>0, SessionAssumption, AttemptsNat DEF Init, TypeOK
  <2> QED
    BY <2>1 DEF Init, IInv, Regreeted, HasPower, TaskInv, PowerInv, StageInv,
      HeardInv, ResultInv, HeardAfterReset, SuccessIsOneBoot
<1>2. IInv /\ [Next]_vars => IInv'
  <2> SUFFICES ASSUME IInv, [Next]_vars PROVE IInv'
    OBVIOUS
  <2>len. Len(StagesOf(proto)) \in Nat /\ Len(StagesOf(proto)) <= 4 /\ Len(StagesOf(proto)) > 0
    BY StagesLen, SessionAssumption DEF IInv, TypeOK
  <2>1. CASE CameraOff
    <3>1. TypeOK'
      BY <2>1 DEF IInv, Regreeted, HasPower, TypeOK, StageInv, Attempts, CameraOff,
        hostVars
    <3>2. TaskInv'
      BY <2>1 DEF IInv, TaskInv, CameraOff, hostVars
    <3>3. PowerInv'
      BY <2>1 DEF IInv, PowerInv, TypeOK, CameraOff, hostVars
    <3>4. StageInv'
      BY <2>1 DEF IInv, Regreeted, HasPower, StageInv, PowerInv, CameraOff, hostVars
    <3>5. HeardInv'
      BY <2>1 DEF IInv, HeardInv, TaskInv, PowerInv, HasPower, CameraOff, hostVars
    <3>6. ResultInv'
      BY <2>1 DEF IInv, ResultInv, CameraOff, hostVars
    <3>7. HeardAfterReset'
      BY <2>1 DEF IInv, HeardAfterReset, HeardInv, PowerInv, HasPower, CameraOff,
        hostVars
    <3>8. SuccessIsOneBoot'
      BY <2>1 DEF IInv, Regreeted, HasPower, SuccessIsOneBoot, StageInv, ResultInv,
        PowerInv, CameraOff, hostVars
    <3> QED
      BY <3>1, <3>2, <3>3, <3>4, <3>5, <3>6, <3>7, <3>8 DEF IInv
  <2>2. CASE CameraOn
    <3>1. TypeOK'
      BY <2>2 DEF IInv, Regreeted, HasPower, TypeOK, StageInv, Attempts, CameraOn,
        hostVars
    <3>2. TaskInv'
      BY <2>2 DEF IInv, TaskInv, CameraOn, hostVars
    <3>3. PowerInv'
      BY <2>2 DEF IInv, PowerInv, TypeOK, CameraOn, hostVars
    <3>4. StageInv'
      BY <2>2 DEF IInv, Regreeted, HasPower, StageInv, PowerInv, CameraOn, hostVars
    <3>5. HeardInv'
      BY <2>2 DEF IInv, HeardInv, TaskInv, PowerInv, HasPower, CameraOn, hostVars
    <3>6. ResultInv'
      BY <2>2 DEF IInv, ResultInv, CameraOn, hostVars
    <3>7. HeardAfterReset'
      BY <2>2 DEF IInv, HeardAfterReset, HeardInv, PowerInv, HasPower, CameraOn,
        hostVars
    <3>8. SuccessIsOneBoot'
      BY <2>2 DEF IInv, Regreeted, HasPower, SuccessIsOneBoot, StageInv, ResultInv,
        PowerInv, CameraOn, hostVars
    <3> QED
      BY <3>1, <3>2, <3>3, <3>4, <3>5, <3>6, <3>7, <3>8 DEF IInv
  <2>3. CASE WindowCloses
    <3>1. TypeOK'
      BY <2>3 DEF IInv, Regreeted, HasPower, TypeOK, StageInv, Attempts, WindowCloses,
        hostVars
    <3>2. TaskInv'
      BY <2>3 DEF IInv, TaskInv, WindowCloses, hostVars
    <3>3. PowerInv'
      BY <2>3 DEF IInv, PowerInv, TypeOK, WindowCloses, hostVars
    <3>4. StageInv'
      BY <2>3 DEF IInv, Regreeted, HasPower, StageInv, PowerInv, WindowCloses,
        hostVars
    <3>5. HeardInv'
      BY <2>3 DEF IInv, HeardInv, TaskInv, PowerInv, HasPower, WindowCloses, hostVars
    <3>6. ResultInv'
      BY <2>3 DEF IInv, ResultInv, WindowCloses, hostVars
    <3>7. HeardAfterReset'
      BY <2>3 DEF IInv, HeardAfterReset, HeardInv, PowerInv, HasPower, WindowCloses,
        hostVars
    <3>8. SuccessIsOneBoot'
      BY <2>3 DEF IInv, Regreeted, HasPower, SuccessIsOneBoot, StageInv, ResultInv,
        PowerInv, WindowCloses, hostVars
    <3> QED
      BY <3>1, <3>2, <3>3, <3>4, <3>5, <3>6, <3>7, <3>8 DEF IInv
  <2>4. CASE UserCycles
    <3>1. TypeOK'
      BY <2>4, SessionAssumption DEF IInv, Regreeted, HasPower, TypeOK, StageInv,
        Attempts, UserCycles, hostVars
    <3>2. TaskInv'
      BY <2>4 DEF IInv, TaskInv, HasPower, UserCycles, hostVars
    <3>3. PowerInv'
      BY <2>4 DEF IInv, PowerInv, TypeOK, HasPower, UserCycles, hostVars
    <3>4. StageInv'
      BY <2>4 DEF IInv, Regreeted, HasPower, StageInv, PowerInv, UserCycles, hostVars
    <3>5. HeardInv'
      BY <2>4 DEF IInv, HeardInv, TaskInv, PowerInv, HasPower, UserCycles, hostVars
    <3>6. ResultInv'
      BY <2>4 DEF IInv, ResultInv, HasPower, UserCycles, hostVars
    <3>7. HeardAfterReset'
      BY <2>4 DEF IInv, HeardAfterReset, HeardInv, PowerInv, HasPower, UserCycles,
        hostVars
    <3>8. SuccessIsOneBoot'
      BY <2>4 DEF IInv, Regreeted, HasPower, SuccessIsOneBoot, StageInv, ResultInv,
        PowerInv, UserCycles, hostVars
    <3> QED
      BY <3>1, <3>2, <3>3, <3>4, <3>5, <3>6, <3>7, <3>8 DEF IInv
  <2>5. CASE HandshakeAnswered
    <3>1. TypeOK'
      BY <2>5 DEF IInv, Regreeted, HasPower, TypeOK, StageInv, Attempts,
        HandshakeAnswered
    <3>2. TaskInv'
      BY <2>5 DEF IInv, TaskInv, HandshakeAnswered
    <3>3. PowerInv'
      BY <2>5 DEF IInv, PowerInv, TypeOK, HandshakeAnswered
    <3>4. StageInv'
      BY <2>5 DEF IInv, Regreeted, HasPower, TaskInv, StageInv, PowerInv,
        HandshakeAnswered
    <3>5. HeardInv'
      BY <2>5 DEF IInv, TypeOK, PowerInv, HeardInv, HasPower, HandshakeAnswered
    <3>6. ResultInv'
      BY <2>5 DEF IInv, ResultInv, HandshakeAnswered
    <3>7. HeardAfterReset'
      BY <2>5 DEF IInv, HeardAfterReset, HeardInv, PowerInv, HasPower,
        HandshakeAnswered
    <3>8. SuccessIsOneBoot'
      BY <2>5 DEF IInv, Regreeted, HasPower, SuccessIsOneBoot, StageInv, ResultInv,
        PowerInv, HandshakeAnswered
    <3> QED
      BY <3>1, <3>2, <3>3, <3>4, <3>5, <3>6, <3>7, <3>8 DEF IInv
  <2>6. CASE HandshakeFooled
    <3>1. TypeOK'
      BY <2>6 DEF IInv, Regreeted, HasPower, TypeOK, StageInv, Attempts,
        HandshakeFooled, camVars
    <3>2. TaskInv'
      BY <2>6 DEF IInv, TaskInv, HandshakeFooled, camVars
    <3>3. PowerInv'
      BY <2>6 DEF IInv, PowerInv, TypeOK, HandshakeFooled, camVars
    <3>4. StageInv'
      BY <2>6 DEF IInv, Regreeted, HasPower, StageInv, PowerInv, HandshakeFooled,
        camVars
    <3>5. HeardInv'
      BY <2>6 DEF IInv, TypeOK, PowerInv, HeardInv, HasPower, HandshakeFooled, camVars
    <3>6. ResultInv'
      BY <2>6 DEF IInv, ResultInv, HandshakeFooled, camVars
    <3>7. HeardAfterReset'
      BY <2>6 DEF IInv, HeardAfterReset, HeardInv, PowerInv, HasPower,
        HandshakeFooled, camVars
    <3>8. SuccessIsOneBoot'
      BY <2>6 DEF IInv, Regreeted, HasPower, SuccessIsOneBoot, StageInv, ResultInv,
        PowerInv, HandshakeFooled, camVars
    <3> QED
      BY <3>1, <3>2, <3>3, <3>4, <3>5, <3>6, <3>7, <3>8 DEF IInv
  <2>7. CASE Attempt
    <3>1. TypeOK'
      BY <2>7, <2>len DEF IInv, Regreeted, HasPower, TypeOK, StageInv, Attempts,
        Attempt
    <3>2. TaskInv'
      BY <2>7 DEF IInv, TaskInv, HasPower, Attempt
    <3>3. PowerInv'
      BY <2>7 DEF IInv, PowerInv, TypeOK, HasPower, Attempt
    <3>4. StageInv'
      BY <2>7, <2>len DEF IInv, Regreeted, HasPower, StageInv, PowerInv, Attempt
    <3>5. HeardInv'
      BY <2>7 DEF IInv, HeardInv, TaskInv, PowerInv, HasPower, Attempt
    <3>6. ResultInv'
      BY <2>7 DEF IInv, ResultInv, HasPower, Attempt
    <3>7. HeardAfterReset'
      BY <2>7 DEF IInv, HeardAfterReset, HeardInv, PowerInv, HasPower, Attempt
    <3>8. SuccessIsOneBoot'
      BY <2>7, <2>len DEF IInv, Regreeted, HasPower, SuccessIsOneBoot, StageInv,
        ResultInv, PowerInv, Attempt
    <3> QED
      BY <3>1, <3>2, <3>3, <3>4, <3>5, <3>6, <3>7, <3>8 DEF IInv
  <2>8. CASE RequestCycle
    <3>1. TypeOK'
      BY <2>8 DEF IInv, Regreeted, HasPower, TypeOK, StageInv, Attempts, RequestCycle
    <3>2. TaskInv'
      BY <2>8 DEF IInv, TaskInv, RequestCycle
    <3>3. PowerInv'
      BY <2>8 DEF IInv, PowerInv, TypeOK, RequestCycle
    <3>4. StageInv'
      BY <2>8 DEF IInv, Regreeted, HasPower, StageInv, PowerInv, RequestCycle
    <3>5. HeardInv'
      BY <2>8 DEF IInv, HeardInv, TaskInv, PowerInv, HasPower, RequestCycle
    <3>6. ResultInv'
      BY <2>8 DEF IInv, ResultInv, RequestCycle
    <3>7. HeardAfterReset'
      BY <2>8 DEF IInv, HeardAfterReset, HeardInv, PowerInv, HasPower, RequestCycle
    <3>8. SuccessIsOneBoot'
      BY <2>8 DEF IInv, Regreeted, HasPower, SuccessIsOneBoot, StageInv, ResultInv,
        PowerInv, RequestCycle
    <3> QED
      BY <3>1, <3>2, <3>3, <3>4, <3>5, <3>6, <3>7, <3>8 DEF IInv
  <2>9. CASE CycleReturns
    <3>1. TypeOK'
      BY <2>9 DEF IInv, Regreeted, HasPower, TypeOK, StageInv, Attempts, CycleReturns,
        camVars
    <3>2. TaskInv'
      BY <2>9 DEF IInv, TaskInv, CycleReturns, camVars
    <3>3. PowerInv'
      BY <2>9 DEF IInv, PowerInv, TypeOK, CycleReturns, camVars
    <3>4. StageInv'
      BY <2>9 DEF IInv, Regreeted, HasPower, StageInv, PowerInv, CycleReturns, camVars
    <3>5. HeardInv'
      BY <2>9 DEF IInv, HeardInv, TaskInv, PowerInv, HasPower, CycleReturns, camVars
    <3>6. ResultInv'
      BY <2>9 DEF IInv, ResultInv, CycleReturns, camVars
    <3>7. HeardAfterReset'
      BY <2>9 DEF IInv, HeardAfterReset, HeardInv, PowerInv, HasPower, CycleReturns,
        camVars
    <3>8. SuccessIsOneBoot'
      BY <2>9 DEF IInv, Regreeted, HasPower, SuccessIsOneBoot, StageInv, ResultInv,
        PowerInv, CycleReturns, camVars
    <3> QED
      BY <3>1, <3>2, <3>3, <3>4, <3>5, <3>6, <3>7, <3>8 DEF IInv
  <2>10. CASE CycleFails
    <3>1. TypeOK'
      BY <2>10 DEF IInv, Regreeted, HasPower, TypeOK, StageInv, Attempts, CycleFails,
        Return
    <3>2. TaskInv'
      BY <2>10 DEF IInv, TaskInv, CycleFails, Return
    <3>3. PowerInv'
      BY <2>10 DEF IInv, PowerInv, TypeOK, CycleFails, Return
    <3>4. StageInv'
      BY <2>10 DEF IInv, Regreeted, HasPower, StageInv, PowerInv, CycleFails, Return
    <3>5. HeardInv'
      BY <2>10 DEF IInv, HeardInv, TaskInv, PowerInv, HasPower, CycleFails, Return
    <3>6. ResultInv'
      BY <2>10 DEF IInv, ResultInv, CycleFails, Return
    <3>7. HeardAfterReset'
      BY <2>10 DEF IInv, HeardAfterReset, HeardInv, PowerInv, HasPower, CycleFails,
        Return
    <3>8. SuccessIsOneBoot'
      BY <2>10 DEF IInv, Regreeted, HasPower, SuccessIsOneBoot, StageInv, ResultInv,
        PowerInv, CycleFails, Return
    <3> QED
      BY <3>1, <3>2, <3>3, <3>4, <3>5, <3>6, <3>7, <3>8 DEF IInv
  <2>11. CASE HandshakeTaken
    <3>1. TypeOK'
      BY <2>11, <2>len DEF IInv, Regreeted, HasPower, TypeOK, StageInv, Attempts,
        HandshakeTaken, camVars
    <3>2. TaskInv'
      BY <2>11 DEF IInv, TaskInv, HandshakeTaken, camVars
    <3>3. PowerInv'
      BY <2>11 DEF IInv, PowerInv, TypeOK, HandshakeTaken, camVars
    <3>4. StageInv'
      BY <2>11, <2>len DEF IInv, Regreeted, HasPower, StageInv, PowerInv,
        HandshakeTaken, camVars
    <3>5. HeardInv'
      BY <2>11 DEF IInv, HeardInv, TaskInv, PowerInv, HasPower, HandshakeTaken,
        camVars
    <3>6. ResultInv'
      BY <2>11 DEF IInv, ResultInv, HandshakeTaken, camVars
    <3>7. HeardAfterReset'
      BY <2>11 DEF IInv, HeardAfterReset, HeardInv, PowerInv, HasPower,
        HandshakeTaken, camVars
    <3>8. SuccessIsOneBoot'
      BY <2>11, <2>len DEF IInv, Regreeted, HasPower, SuccessIsOneBoot, StageInv,
        ResultInv, PowerInv, HandshakeTaken, camVars
    <3> QED
      BY <3>1, <3>2, <3>3, <3>4, <3>5, <3>6, <3>7, <3>8 DEF IInv
  <2>12. CASE SendStage
    <3>1. TypeOK'
      BY <2>12, <2>len DEF IInv, Regreeted, HasPower, TypeOK, StageInv, Attempts,
        SendStage, Reached
    <3>2. TaskInv'
      BY <2>12 DEF IInv, TaskInv, SendStage, Reached
    <3>3. PowerInv'
      BY <2>12 DEF IInv, PowerInv, TypeOK, SendStage, Reached
    <3>4. StageInv'
      BY <2>12, <2>len DEF IInv, Regreeted, HasPower, TypeOK, TaskInv, PowerInv,
        StageInv, SendStage, Reached
    <3>5. HeardInv'
      BY <2>12 DEF IInv, HeardInv, TaskInv, PowerInv, HasPower, SendStage, Reached
    <3>6. ResultInv'
      BY <2>12 DEF IInv, ResultInv, SendStage, Reached
    <3>7. HeardAfterReset'
      BY <2>12 DEF IInv, HeardAfterReset, HeardInv, PowerInv, HasPower, SendStage,
        Reached
    <3>8. SuccessIsOneBoot'
      BY <2>12, <2>len DEF IInv, Regreeted, HasPower, SuccessIsOneBoot, StageInv,
        ResultInv, PowerInv, SendStage, Reached
    <3> QED
      BY <3>1, <3>2, <3>3, <3>4, <3>5, <3>6, <3>7, <3>8 DEF IInv
  <2>13. CASE SendFails
    <3>a. Attempts' = Attempts
      BY <2>13 DEF SendFails, Attempts, HasPower
    <3>b. attempt' \in 1..Attempts
      BY <2>13, AttemptsNat DEF IInv, TypeOK, SendFails, Return
    <3>1. TypeOK'
      BY <2>13, <3>a, <3>b DEF IInv, TypeOK, SendFails, Return, camVars
    <3>2. TaskInv'
      BY <2>13 DEF IInv, TaskInv, SendFails, Return, Completed, camVars
    <3>3. PowerInv'
      BY <2>13 DEF IInv, PowerInv, TypeOK, SendFails, Return, Completed, camVars
    <3>4. StageInv'
      BY <2>13, <2>len, AttemptsNat DEF IInv, Regreeted, HasPower, StageInv, PowerInv,
        Attempts, TypeOK, SendFails, Return, Completed, camVars
    <3>5. HeardInv'
      BY <2>13 DEF IInv, HeardInv, TaskInv, PowerInv, HasPower, SendFails, Return,
        Completed, camVars
    <3>6. ResultInv'
      BY <2>13 DEF IInv, ResultInv, SendFails, Return, Completed, camVars
    <3>7. HeardAfterReset'
      BY <2>13 DEF IInv, HeardAfterReset, HeardInv, PowerInv, HasPower, SendFails,
        Return, Completed, camVars
    <3>8. SuccessIsOneBoot'
      BY <2>13, <2>len DEF IInv, Regreeted, HasPower, SuccessIsOneBoot, StageInv,
        ResultInv, PowerInv, SendFails, Return, Completed, camVars
    <3> QED
      BY <3>1, <3>2, <3>3, <3>4, <3>5, <3>6, <3>7, <3>8 DEF IInv
  <2>w. CASE WaitTraining
    <3>1. stages + 1 < Len(StagesOf(proto)) /\ stages > 0
      BY <2>w, SessionAssumption DEF IInv, TypeOK, StageInv, WaitTraining, Training,
        StagesOf
    <3>2. TypeOK'
      BY <2>w, <2>len, <3>1 DEF IInv, TypeOK, Attempts, HasPower, WaitTraining
    <3>3. TaskInv' /\ PowerInv' /\ ResultInv' /\ HeardInv' /\ HeardAfterReset'
      BY <2>w DEF IInv, TaskInv, PowerInv, ResultInv, HeardInv, HeardAfterReset,
        HasPower, WaitTraining
    <3>4. StageInv'
      BY <2>w, <2>len, <3>1 DEF IInv, Regreeted, HasPower, TypeOK, StageInv,
        WaitTraining
    <3>5. SuccessIsOneBoot'
      BY <2>w DEF IInv, Regreeted, HasPower, ResultInv, SuccessIsOneBoot, WaitTraining
    <3> QED
      BY <3>2, <3>3, <3>4, <3>5 DEF IInv
  <2>14. CASE Finish
    <3>1. TypeOK'
      BY <2>14, <2>len DEF IInv, Regreeted, HasPower, TypeOK, StageInv, Attempts,
        Finish, Return, camVars
    <3>2. TaskInv'
      BY <2>14 DEF IInv, TaskInv, Finish, Return, camVars
    <3>3. PowerInv'
      BY <2>14 DEF IInv, PowerInv, TypeOK, Finish, Return, camVars
    <3>4. StageInv'
      BY <2>14, <2>len DEF IInv, Regreeted, HasPower, StageInv, PowerInv, Finish,
        Return, camVars
    <3>5. HeardInv'
      BY <2>14 DEF IInv, HeardInv, TaskInv, PowerInv, HasPower, Finish, Return,
        camVars
    <3>6. ResultInv'
      BY <2>14 DEF IInv, ResultInv, Finish, Return, camVars
    <3>7. HeardAfterReset'
      BY <2>14 DEF IInv, HeardAfterReset, HeardInv, PowerInv, HasPower, Finish,
        Return, camVars
    <3>8. SuccessIsOneBoot'
      BY <2>14, <2>len DEF IInv, Regreeted, HasPower, SuccessIsOneBoot, StageInv,
        ResultInv, PowerInv, Finish, Return, camVars
    <3> QED
      BY <3>1, <3>2, <3>3, <3>4, <3>5, <3>6, <3>7, <3>8 DEF IInv
  <2>15. CASE UNCHANGED vars
    BY <2>15 DEF IInv, Regreeted, HasPower, TypeOK, TaskInv, PowerInv, StageInv,
      HeardInv, ResultInv, HeardAfterReset, SuccessIsOneBoot, Attempts, vars,
      hostVars, camVars
  <2> QED
    BY <2>1, <2>2, <2>3, <2>4, <2>5, <2>6, <2>7, <2>8, <2>9, <2>10, <2>11, <2>12,
      <2>13,
      <2>14, <2>15, <2>w
      DEF Next, RunNext, CamNext, HandshakeRepeats, Stopped
<1> QED
  BY <1>1, <1>2, PTL DEF Spec

\* Type correctness for every number of attempts.
THEOREM TypeCorrect == Spec => []TypeOK
<1>1. IInv => TypeOK
  BY DEF IInv
<1> QED
  BY <1>1, Inductive, PTL

\* The frame-blast order never sends firmware on the strength of a greeting that
\* was heard before this attempt's reset.
THEOREM HeardAfterResetHolds == Spec => []HeardAfterReset
<1>1. IInv => HeardAfterReset
  BY DEF IInv
<1> QED
  BY <1>1, Inductive, PTL

\* Success means that one boot of the camera received every stage; without a
\* power controller, unless the camera was reset by hand between two stages.
THEOREM SuccessIsOneBootHolds == Spec => []SuccessIsOneBoot
<1>1. IInv => SuccessIsOneBoot
  BY DEF IInv
<1> QED
  BY <1>1, Inductive, PTL

\* No handshake task is left behind when run has returned.
THEOREM NoOrphan == Spec => []NoOrphanHandshake
<1>1. IInv => NoOrphanHandshake
  BY DEF IInv, TaskInv, NoOrphanHandshake
<1> QED
  BY <1>1, Inductive, PTL
=============================================================================
