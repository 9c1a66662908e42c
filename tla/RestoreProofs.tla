--------------------------- MODULE RestoreProofs ---------------------------
(***************************************************************************)
(* Proofs about defib restore: types, the order of the partitions, what is *)
(* left behind, and what a restore without faults leaves in the flash.     *)
(***************************************************************************)
EXTENDS Restore, SequenceTheorems, TLAPS

Names == {"boot", "kernel", "rootfs"}
Ops == {"present", "absent", "setenv_net", "ping", "reset", "mangled", "replace", "printenv_mtd",
        "setenv_mtdparts", "tftpboot", "tftp", "erase", "write", "ubi_create", "ubi_write"}
Commands == [op : Ops, part : Names]
Contents == Parts \cup {"old", "env", "erased", "bad", "volume", "ubifs"}
Outs == {"ok", "error", "unknown", "done", "crc", "eth", "mtdparts", "none"}
Vals == Contents \cup {"", "own", "default", "new"}
Answers == [out : Outs, val : Vals]

\* Up to the detection of the console nothing is sent to it.
Before == {"prepare", "uboot", "power", "power_off", "link", "burn", "detect"}
Between == {"detect_flash", "backend", "net", "ping", "stage"}
PCs == Before \cup Between \cup {"write", "unwind", "unwind_raised", "done", "failed"}

\* What is left of WriteOrder.
Todos == {<<"kernel", "rootfs", "boot">>, <<"rootfs", "boot">>, <<"boot">>, <<>>}

\* Commands that change a partition.
Touches(c) == c.op \in {"erase", "erase_env", "write", "ubi_create", "ubi_write"}
OnBoot(c) == Touches(c) /\ c.part = "boot"
OnOther(c) == Touches(c) /\ c.part # "boot"

ConsoleInv ==
  /\ mode \in {"none", "shell", "download"} /\ alive \in BOOLEAN /\ waiting \in BOOLEAN
  /\ late \in 0..MaxLate
  /\ queue \in Seq(Commands) /\ answers \in Seq(Answers)
  /\ Len(queue) + Len(answers) <= late + (IF waiting THEN 1 ELSE 0)
  /\ ~alive => queue = <<>>
  /\ flash \in [Parts -> Contents] /\ ram \in Contents /\ env \in Environments
  /\ serving \in [Parts -> Parts \cup {"none", "ubifs"}]

FlowInv ==
  /\ pc \in PCs /\ detected \in {"nand", "nor", "emmc"} /\ pings \in 0..4
  /\ held \subseteq {"power", "transport", "server"} /\ staged \in 0..3
  /\ on \in BOOLEAN /\ ubi \in BOOLEAN /\ medium \in {"nand", "nor", "emmc"}
  /\ todo \in Todos /\ step \in Nat
  /\ todo # <<>> => step \in 1..Len(PartPlan(Head(todo)))
  /\ pc \in Before \cup Between => step = 1 /\ todo # <<>>

\* A camera without power has not been talked to.
PowerInv ==
  /\ ~on => mode = "none" /\ pc \in {"link", "burn", "failed"}
  /\ pc \in Before => mode = "none"
  /\ mode = "none" => queue = <<>> /\ \A p \in Parts : flash[p] = "old"
  /\ "server" \in held => pc \in {"write", "unwind", "unwind_raised"}
  /\ pc = "done" => held = {}

\* The boot partition before its erase: U-Boot may have saved its environment there.
Untouched == {"old", "env"}

\* Behind a command for the boot partition there is none for another one, and
\* once one has been given the others are done with.
OrderInv ==
  /\ \A i, j \in 1..Len(queue) : i < j /\ OnBoot(queue[i]) => ~OnOther(queue[j])
  /\ \A i \in 1..Len(queue) : OnBoot(queue[i]) => todo \in {<<"boot">>, <<>>}
  /\ flash["boot"] \notin Untouched =>
       /\ todo \in {<<"boot">>, <<>>}
       /\ \A i \in 1..Len(queue) : ~OnOther(queue[i])

IInv == ConsoleInv /\ FlowInv /\ PowerInv /\ OrderInv

\* While nothing has gone wrong and no answer was late.
Fine == faults = 0 /\ late = 0
After == {"stage", "write", "unwind", "done"}

\* The line holds the command restore is at, or its one answer.
LineInv ==
  /\ faults \in Nat
  /\ waiting => Driving /\ Now.op # "replace"
  /\ ~alive => answers = <<>>
  /\ Fine /\ waiting /\ alive =>
       (queue = <<Now>> /\ answers = <<>>) \/ (queue = <<>> /\ Len(answers) = 1)

\* Answers lead restore to the flash there is and to a network that works,
\* and the files are there when it begins to write.
Told(out) == answers # <<>> /\ answers[1].out = out
SetupInv ==
  Fine =>
    /\ pc \in {"backend", "net", "ping"} \cup After /\ alive => detected = medium
    /\ pc = "detect_flash" /\ detected # medium => ~Told("ok") /\ (answers # <<>> => Told("error"))
    /\ pc = "ping" /\ Told("ok") => env.net
    /\ pc \in After => alive /\ env.net
    /\ pc \in Before \cup Between => \A i \in 1..staged : serving[Dump[i]] = Dump[i]
    /\ pc = "write" =>
         /\ serving["kernel"] = "kernel" /\ serving["boot"] = "boot"
         /\ ~IsUbi("rootfs") => serving["rootfs"] = "rootfs"

Fresh(p) == flash[p] = "old" \/ (p = "boot" /\ flash[p] = "env")

\* What has been done when restore is at command k of a partition.
RawAt(p, k) ==
  /\ k <= 3 => Fresh(p)
  /\ k \in {3, 4} => ram = p
  /\ k = 4 => flash[p] = "erased"
  /\ k = 5 => flash[p] = p
UbiAt(k) ==
  /\ k <= 7 => flash["rootfs"] = "old"
  /\ k \in 2..6 => serving["rootfs"] = "ubifs"
  /\ k \in 5..8 => env.mtdparts
  /\ k \in 7..9 => ram = "ubifs"
  /\ k = 8 => flash["rootfs"] = "erased"
  /\ k = 9 => flash["rootfs"] = "volume"
  /\ k = 10 => flash["rootfs"] = "ubifs"
At(p, k) == IF IsUbi(p) THEN UbiAt(k) ELSE RawAt(p, k)

\* The camera has run a command: what restore will go on from.
RanAt(p, k) ==
  LET op == PartPlan(p)[k].op IN
  IF op = "tftpboot" THEN (Told("unknown") /\ At(p, k)) \/ (Told("done") /\ At(p, k + 2))
  ELSE IF op = "tftp" THEN Told("done") /\ At(p, k + 1)
  ELSE IF op = "printenv_mtd" THEN At(p, k) ELSE At(p, k + 1)

\* The partitions behind the first of todo are as they were, those before it are
\* done; and the first one is where the plan is.
Finished(p) == flash[p] = Image(p) \/ (p = "rootfs" /\ ubi /\ flash[p] = "old")
Others ==
  /\ todo = <<"kernel", "rootfs", "boot">> => flash["rootfs"] = "old" /\ Fresh("boot")
  /\ todo = <<"rootfs", "boot">> => Finished("kernel") /\ Fresh("boot")
  /\ todo = <<"boot">> => Finished("kernel") /\ Finished("rootfs")
  /\ todo = <<>> => \A p \in Names : Finished(p)
Written == pc \in Before \cup Between \cup {"write", "unwind", "done"}
PartsInv ==
  Fine /\ Written =>
    /\ Others /\ (pc \in {"unwind", "done"} => todo = <<>>)
    /\ todo # <<>> => IF pc # "write" \/ answers = <<>> THEN At(Head(todo), step) ELSE RanAt(Head(todo), step)

CleanInv == LineInv /\ SetupInv /\ PartsInv

---------------------------------------------------------------------------
(* The operators.                                                          *)

LEMMA RawShape ==
  ASSUME NEW p \in Names
  PROVE  /\ Len(Raw(p)) \in Nat /\ Len(Raw(p)) >= 1
         /\ \A i \in 1..Len(Raw(p)) : Raw(p)[i] \in Commands /\ Raw(p)[i].part = p
BY DEF Raw, Cmd, OnFlash, Commands, Ops

LEMMA UbiShape ==
  ASSUME NEW p \in Names
  PROVE  /\ Len(Ubi(p)) \in Nat /\ Len(Ubi(p)) >= 1
         /\ \A i \in 1..Len(Ubi(p)) : Ubi(p)[i] \in Commands /\ Ubi(p)[i].part = p
BY DEF Ubi, Cmd, OnFlash, Commands, Ops

LEMMA PlanShape ==
  ASSUME NEW p \in Names
  PROVE  /\ Len(PartPlan(p)) \in Nat /\ Len(PartPlan(p)) >= 1
         /\ \A i \in 1..Len(PartPlan(p)) : PartPlan(p)[i] \in Commands /\ PartPlan(p)[i].part = p
<1>1. PartPlan(p) = Ubi(p) \/ PartPlan(p) = Raw(p)
  BY DEF PartPlan
<1>2. CASE PartPlan(p) = Ubi(p)
  BY <1>2, UbiShape, Zenon
<1>3. CASE PartPlan(p) = Raw(p)
  BY <1>3, RawShape, Zenon
<1> QED
  BY <1>1, <1>2, <1>3

LEMMA TodoShape ==
  ASSUME todo \in Todos, todo # <<>>
  PROVE  /\ Head(todo) \in Names /\ Tail(todo) \in Todos
         /\ Head(todo) = "boot" => todo = <<"boot">>
         /\ todo = <<"boot">> => Head(todo) = "boot" /\ Tail(todo) = <<>>
<1>1. CASE todo = <<"kernel", "rootfs", "boot">>
  BY <1>1 DEF Todos, Names
<1>2. CASE todo = <<"rootfs", "boot">>
  BY <1>2 DEF Todos, Names
<1>3. CASE todo = <<"boot">>
  BY <1>3 DEF Todos, Names
<1> QED
  BY <1>1, <1>2, <1>3 DEF Todos

\* A command that changes a partition is one of the partition restore is at.
LEMMA NowTyped ==
  ASSUME IInv, Driving
  PROVE  /\ Now \in Commands
         /\ Touches(Now) => todo # <<>> /\ Now.part = Head(todo)
<1> USE DEF IInv
<1>1. CASE pc \in {"detect_flash", "net", "ping"} \/ todo = <<>>
  BY <1>1 DEF Now, OnFlash, Cmd, Commands, Ops, Names, Touches
<1>2. CASE pc = "write" /\ todo # <<>>
  <2>1. Head(todo) \in Names /\ step \in 1..Len(PartPlan(Head(todo)))
    BY <1>2, TodoShape DEF FlowInv
  <2>2. Now = PartPlan(Head(todo))[step]
    BY <1>2 DEF Now
  <2> QED
    BY <1>2, <2>1, <2>2, PlanShape
<1> QED
  BY <1>1, <1>2 DEF Driving

---------------------------------------------------------------------------
(* What the steps do.                                                      *)

\* The camera takes the first command, answers it, and changes at most the
\* partition it names.
LEMMA CameraEffect ==
  ASSUME IInv, Camera
  PROVE  /\ queue # <<>> /\ Head(queue) \in Commands /\ queue' = Tail(queue)
         /\ \E a \in Answers : answers' = Append(answers, a)
         /\ UNCHANGED <<mode, alive, waiting, late, serving>>
         /\ ram' \in Contents /\ env' \in Environments
         /\ \/ flash' = flash
            \/ /\ Touches(Head(queue))
               /\ \E x \in Contents : flash' = [flash EXCEPT ![Head(queue).part] = x]
<1> USE DEF IInv
<1>0. queue # <<>> /\ Head(queue) \in Commands
  BY DEF Camera, ConsoleInv
<1>1. Head(queue).part \in Parts /\ Head(queue).part \in Names
  BY <1>0, DumpAssumption DEF Commands, Names
<1>2. ASSUME NEW out \in Outs, NEW val \in Vals, Ran(out, val)
      PROVE  /\ queue' = Tail(queue) /\ \E a \in Answers : answers' = Append(answers, a)
             /\ UNCHANGED <<mode, alive, waiting, late, serving>>
  <2>1. Answer(out, val) \in Answers
    BY <1>2 DEF Answer, Answers
  <2> QED
    BY <1>2, <2>1 DEF Ran
<1>3. env.eth \in Vals /\ "" \in Vals /\ ram \in Vals /\ ram \in Contents /\ env \in Environments
  BY DEF ConsoleInv, Environments, Vals
<1>4. CASE RunTftp
  <2>1. serving[Head(queue).part] # "none" => serving[Head(queue).part] \in Contents
    BY <1>1 DEF ConsoleInv, Contents
  <2>2. \E out \in {"unknown", "done", "error"} : Ran(out, "")
    BY <1>4 DEF RunTftp
  <2>3. ram' \in Contents
    BY <1>3, <1>4, <2>1 DEF RunTftp, Contents
  <2>4. flash' = flash /\ env' = env
    BY <1>4 DEF RunTftp
  <2> QED
    BY <1>0, <1>2, <1>3, <2>2, <2>3, <2>4 DEF Outs
<1>5. CASE RunCrc32
  <2>1. (Ran("crc", ram) \/ Ran("unknown", "")) /\ UNCHANGED <<ram, flash, env>>
    BY <1>5 DEF RunCrc32, camera
  <2> QED
    BY <1>0, <1>2, <1>3, <2>1 DEF Outs
<1>6. CASE RunRead
  <2>1. /\ (Ran("ok", "") \/ Ran("error", "")) /\ UNCHANGED <<flash, env>>
        /\ ram' = flash[Head(queue).part] \/ ram' \in {ram, "bad"}
    BY <1>6 DEF RunRead
  <2>2. ram' \in Contents
    BY <1>1, <1>3, <2>1 DEF ConsoleInv, Contents
  <2> QED
    BY <1>0, <1>2, <1>3, <2>1, <2>2 DEF Outs
<1>7. CASE RunErase
  <2>1. (Ran("ok", "") \/ Ran("error", "")) /\ UNCHANGED <<ram, env>> /\ Touches(Head(queue))
    BY <1>7 DEF RunErase, Touches
  <2>2. flash' = flash \/ flash' = [flash EXCEPT ![Head(queue).part] = "erased"]
    BY <1>7 DEF RunErase
  <2>3. "erased" \in Contents
    BY DEF Contents
  <2> QED
    BY <1>0, <1>2, <1>3, <2>1, <2>2, <2>3 DEF Outs
<1>8. CASE RunWrite
  <2>1. (Ran("ok", "") \/ Ran("error", "")) /\ UNCHANGED <<ram, env>> /\ Touches(Head(queue))
    BY <1>8 DEF RunWrite, Touches
  <2>2. flash' = [flash EXCEPT ![Head(queue).part] = ram] \/ flash' = [flash EXCEPT ![Head(queue).part] = "bad"]
    BY <1>8 DEF RunWrite
  <2>3. "bad" \in Contents
    BY DEF Contents
  <2> QED
    BY <1>0, <1>2, <1>3, <2>1, <2>2, <2>3 DEF Outs
<1>9. CASE RunUbi
  <2>1. (Ran("ok", "") \/ Ran("error", "")) /\ UNCHANGED <<ram, env>> /\ Touches(Head(queue))
    BY <1>9 DEF RunUbi, Touches
  <2>2. \/ flash' = flash \/ flash' = [flash EXCEPT ![Head(queue).part] = ram]
        \/ flash' = [flash EXCEPT ![Head(queue).part] = "volume"]
    BY <1>9 DEF RunUbi
  <2>3. "volume" \in Contents
    BY DEF Contents
  <2> QED
    BY <1>0, <1>2, <1>3, <2>1, <2>2, <2>3 DEF Outs
<1>10. CASE RunEnv
  <2>1. (\E out \in {"ok", "mtdparts", "none"} : Ran(out, "")) \/ Ran("eth", env.eth)
    BY <1>10 DEF RunEnv
  <2>2. UNCHANGED <<ram, flash>>
    BY <1>10 DEF RunEnv
  <2>3. env' \in Environments
    BY <1>3, <1>10 DEF RunEnv, Environments
  <2> QED
    BY <1>0, <1>2, <1>3, <2>1, <2>2, <2>3 DEF Outs
<1>11. CASE RunOther
  <2>1. (\E out \in {"ok", "error", "unknown"} : Ran(out, "")) /\ UNCHANGED <<ram, flash, env>>
    BY <1>11 DEF RunOther, camera
  <2> QED
    BY <1>0, <1>2, <1>3, <2>1 DEF Outs
<1> QED
  BY <1>4, <1>5, <1>6, <1>7, <1>8, <1>9, <1>10, <1>11 DEF Camera

LEMMA AdvanceEffect ==
  ASSUME IInv, todo # <<>>, NEW n \in Nat, Advance(n) \/ Skip, UNCHANGED <<detected, ubi, medium>>
  PROVE  /\ todo' \in {todo, Tail(todo)} /\ todo' \in Todos /\ step' \in Nat
         /\ (todo # <<>> => step \in 1..Len(PartPlan(Head(todo))))'
<1> USE DEF IInv
<1>1. Tail(todo) \in Todos /\ Head(todo) \in Names /\ todo \in Todos /\ step \in Nat
      /\ step \in 1..Len(PartPlan(Head(todo)))
  BY TodoShape DEF FlowInv
<1>2. \A p \in Names : PartPlan(p)' = PartPlan(p)
  BY DEF PartPlan, IsUbi, Ubi, Raw, OnFlash
<1>3. CASE Skip
  <2>1. todo' = Tail(todo) /\ step' = 1
    BY <1>3 DEF Skip
  <2>2. ASSUME todo' # <<>>
        PROVE  1 \in 1..Len(PartPlan(Head(todo))')
    BY DEF PartPlan, IsUbi, Ubi, Raw, OnFlash, Cmd
  <2> QED
    BY <1>1, <2>1, <2>2
<1>4. CASE step + n <= Len(PartPlan(Head(todo))) /\ step' = step + n /\ todo' = todo
  <2>1. PartPlan(Head(todo))' = PartPlan(Head(todo))
    BY <1>1, <1>2, <1>4
  <2>2. Len(PartPlan(Head(todo))) \in Nat
    BY <1>1, PlanShape
  <2> QED
    BY <1>1, <1>4, <2>1, <2>2
<1> QED
  <2>1. Len(PartPlan(Head(todo))) \in Nat
    BY <1>1, PlanShape
  <2> QED
    BY <1>1, <1>3, <1>4, <2>1 DEF Advance

\* The host's half of a command changes neither the flash nor the RAM, and
\* what it adds to the queue is the command restore is at or a mangled one.
LEMMA SendEffect ==
  ASSUME IInv, Driving, Send(Now)
  PROVE  /\ \/ queue' = queue \/ queue' = Append(queue, Now)
            \/ \E p \in Names : queue' = Append(queue, Cmd("mangled", p))
         /\ alive' = alive /\ (~alive => queue' = <<>>) /\ ~waiting /\ mode # "none"
         /\ answers' = <<>> /\ waiting' = TRUE
         /\ UNCHANGED <<mode, late, ram, flash, env>>
<1> USE DEF IInv
<1>1. Now \in Commands
  BY NowTyped
<1>2. Now.part \in Names
  BY <1>1 DEF Commands
<1>3. ~alive => queue = <<>>
  BY DEF ConsoleInv
<1> HIDE DEF IInv
<1> QED
  BY <1>2, <1>3 DEF Send

\* The three ways a command ends.
Over(resp) == Reply(resp) \/ Expire(resp) \/ Refused

LEMMA OverEffect ==
  ASSUME IInv, NEW resp, Over(resp)
  PROVE  /\ queue' \in {queue, <<>>} /\ waiting' = FALSE
         /\ UNCHANGED <<mode, alive, ram, flash, env>>
         /\ late' \in 0..MaxLate /\ answers' \in {answers, <<>>}
         /\ Len(queue') + Len(answers') <= late'
<1> USE DEF IInv, ConsoleInv
<1>1. /\ queue \in Seq(Commands) /\ answers \in Seq(Answers) /\ late \in 0..MaxLate /\ waiting \in BOOLEAN
      /\ Len(queue) \in Nat /\ Len(answers) \in Nat /\ MaxLate \in Nat
      /\ Len(queue) + Len(answers) <= late + (IF waiting THEN 1 ELSE 0)
      /\ ~alive => queue = <<>>
  BY ConsoleAssumption
<1>2. CASE Reply(resp)
  <2>1. Len(answers) >= 1
    BY <1>1, <1>2 DEF Reply
  <2> QED
    BY <1>1, <1>2, <2>1 DEF Reply, camera
<1>3. CASE Expire(resp)
  <2>1. /\ answers' = answers /\ answers = <<>> /\ waiting /\ waiting' = FALSE /\ queue' \in {queue, <<>>}
        /\ UNCHANGED <<mode, alive, ram, flash, env>>
        /\ \/ alive /\ late < MaxLate /\ late' = late + 1
           \/ ~alive /\ late' = late
    BY <1>3 DEF Expire, camera
  <2> QED
    BY <1>1, <2>1
<1>4. CASE Refused
  BY <1>1, <1>4 DEF Refused, console, camera
<1> QED
  BY <1>2, <1>3, <1>4 DEF Over

\* Going on with an answer, whatever it is.
LEMMA ResumeEffect ==
  ASSUME IInv, Driving, NEW resp, Resume(resp), UNCHANGED rest
  PROVE  /\ FlowInv'
         /\ todo' = todo \/ (todo # <<>> /\ todo' = Tail(todo))
         /\ UNCHANGED <<on, serving>> /\ held' \subseteq held
         /\ pc' \notin Before /\ pc' # "done" /\ (pc = "write" => pc' \in {"write", "unwind"} /\ held' = held)
<1> USE DEF IInv
<1>1. UNCHANGED <<on, serving, ubi, medium, staged>>
  BY DEF rest, choices
<1>2. pc \in {"detect_flash", "net", "ping"} => step = 1 /\ step \in Nat /\ todo # <<>>
  BY DEF FlowInv, Between
<1>3. ASSUME UNCHANGED <<todo, step>>, pc \in {"detect_flash", "net", "ping"}
      PROVE  (todo # <<>> => step \in 1..Len(PartPlan(Head(todo))))'
  BY <1>2, <1>3 DEF PartPlan, IsUbi, Ubi, Raw, OnFlash, Cmd
<1>4. CASE Probed(resp)
  <2>1. /\ pc = "detect_flash" /\ pc' \in {"detect_flash", "backend", "failed"} /\ held' \subseteq held
        /\ UNCHANGED <<pings, todo, step>>
    BY <1>4 DEF Probed, Go, Fail
  <2>2. detected' \in {"nand", "nor", "emmc"}
    BY <1>4 DEF Probed, FlowInv
  <2>3. FlowInv'
    BY <1>1, <1>2, <1>3, <2>1, <2>2 DEF FlowInv, PCs, Before, Between
  <2> QED
    BY <1>1, <2>1, <2>3 DEF Before
<1>5. CASE Networked(resp)
  <2>1. /\ pc \in {"net", "ping"} /\ pc' \in {"ping", "stage", "failed"} /\ held' \subseteq held
        /\ UNCHANGED <<detected, todo, step>>
    BY <1>5 DEF Networked, Go, Fail
  <2>2. pings' \in 0..4
    BY <1>5 DEF Networked, FlowInv
  <2>3. FlowInv'
    BY <1>1, <1>2, <1>3, <2>1, <2>2 DEF FlowInv, PCs, Before, Between
  <2> QED
    BY <1>1, <2>1, <2>3 DEF Before
<1>6. CASE Wrote(resp)
  <2>1. pc = "write" /\ todo # <<>> /\ UNCHANGED <<pc, detected, pings, held>>
    BY <1>6 DEF Wrote
  <2>2. \E n \in {1, 2} : Advance(n) \/ Skip
    BY <1>6 DEF Wrote
  <2>3. PICK n \in Nat : Advance(n) \/ Skip
    BY <2>2
  <2>4. /\ todo' \in {todo, Tail(todo)} /\ todo' \in Todos /\ step' \in Nat
        /\ (todo # <<>> => step \in 1..Len(PartPlan(Head(todo))))'
    BY <1>1, <2>1, <2>3, AdvanceEffect
  <2>5. FlowInv'
    BY <1>1, <2>1, <2>4 DEF FlowInv, PCs, Before, Between
  <2> QED
    BY <1>1, <2>1, <2>4, <2>5 DEF Before
<1>7. CASE WasReset
  <2>1. pc = "write" /\ pc' = "unwind" /\ todo = <<>> /\ UNCHANGED <<detected, pings, todo, step, held>>
    BY <1>7 DEF WasReset, Go
  <2>2. FlowInv'
    BY <1>1, <2>1 DEF FlowInv, PCs, Before, Between
  <2> QED
    BY <1>1, <2>1, <2>2 DEF Before
<1> QED
  BY <1>4, <1>5, <1>6, <1>7 DEF Resume

\* Everything the host does before and between its commands leaves the
\* console alone.
Quiet ==
  \/ LoadDump \/ Resolve \/ PowerSetup \/ PowerOff \/ OpenLink \/ Burn \/ Backend \/ Stage \/ Serve
  \/ Replace \/ Unwind \/ Ended

\* A command comes to its end and restore goes on.
Ends == \E resp : Over(resp) /\ Driving /\ Resume(resp) /\ UNCHANGED rest

LEMMA StepKinds ==
  ASSUME [Next]_vars
  PROVE  Quiet \/ Detect \/ Issue \/ Ends \/ CameraStep \/ SpillsEnv \/ UNCHANGED vars
<1>1. Answered => Ends
  BY DEF Answered, Ends, Over
<1>2. Unanswered => Ends
  BY DEF Unanswered, Ends, Over
<1>3. NotTaken => Ends
  BY DEF NotTaken, Ends, Over
<1> QED
  BY <1>1, <1>2, <1>3 DEF Next, Host, Quiet

\* U-Boot saves its environment: nothing but the boot partition changes.
LEMMA SpillEffect ==
  ASSUME IInv, SpillsEnv
  PROVE  /\ queue # <<>> /\ alive /\ flash' \in [Parts -> Contents] /\ flash'["boot"] = "env"
         /\ \A p \in Parts \ {"boot"} : flash'[p] = flash[p]
         /\ UNCHANGED <<mode, alive, queue, answers, waiting, late, serving, ram, env, faults, flow>>
<1>1. flash \in [Parts -> Contents] /\ "env" \in Contents /\ "boot" \in Parts
  BY DumpAssumption DEF IInv, ConsoleInv, Contents
<1> QED
  BY <1>1 DEF SpillsEnv

LEMMA QuietEffect ==
  ASSUME IInv, Quiet
  PROVE  UNCHANGED console /\ serving' \in [Parts -> Parts \cup {"none", "ubifs"}]
<1>1. UNCHANGED console
  BY DEF Quiet, LoadDump, Resolve, PowerSetup, PowerOff, OpenLink, Burn, Backend, Stage, Serve,
         Replace, Unwind, Ended, vars
<1>2. CASE Stage
  <2>1. \A i \in 1..3 : Dump[i] \in Names /\ Dump[i] \in Parts
    BY DumpAssumption DEF Dump, Names
  <2>2. \/ serving' = serving
        \/ \E i \in 1..3 : serving' = [serving EXCEPT ![Dump[i]] = Dump[i]]
    <3>1. Len(Dump) = 3 /\ staged \in 0..3
      BY DEF Dump, IInv, FlowInv
    <3> QED
      BY <1>2, <3>1 DEF Stage
  <2> QED
    BY <1>1, <2>1, <2>2 DEF IInv, ConsoleInv
<1>3. CASE Serve \/ Replace \/ Unwind
  <2>1. serving' \in {serving, [p \in Parts |-> p], [p \in Parts |-> "none"], [serving EXCEPT !["rootfs"] = "ubifs"]}
    BY <1>3 DEF Serve, Replace, Unwind
  <2> QED
    BY <1>1, <2>1, DumpAssumption DEF IInv, ConsoleInv
<1>4. CASE ~ (Stage \/ Serve \/ Replace \/ Unwind)
  <2>1. serving' = serving
    BY <1>4 DEF Quiet, LoadDump, Resolve, PowerSetup, PowerOff, OpenLink, Burn, Backend, Ended, vars
  <2> QED
    BY <1>1, <2>1 DEF IInv, ConsoleInv
<1> QED
  BY <1>2, <1>3, <1>4

LEMMA ConsoleStep ==
  ASSUME IInv, [Next]_vars
  PROVE  ConsoleInv'
<1> USE DEF IInv
<1>0. /\ queue \in Seq(Commands) /\ answers \in Seq(Answers) /\ Len(queue) \in Nat /\ Len(answers) \in Nat
      /\ late \in Nat /\ late \in 0..MaxLate /\ waiting \in BOOLEAN /\ alive \in BOOLEAN
      /\ <<>> \in Seq(Commands) /\ <<>> \in Seq(Answers) /\ Len(<<>>) = 0
      /\ Len(queue) + Len(answers) <= late + (IF waiting THEN 1 ELSE 0)
  BY ConsoleAssumption DEF ConsoleInv
<1>1. CASE Quiet
  BY <1>1, QuietEffect DEF console, camera, ConsoleInv
<1>2. CASE Detect
  <2>1. mode' \in {"shell", "download"} /\ UNCHANGED <<alive, queue, answers, waiting, late, camera, serving>>
    BY <1>2 DEF Detect, DetectMode
  <2> QED
    BY <2>1 DEF camera, ConsoleInv
<1>3. CASE Issue
  <2>1. Driving /\ Send(Now) /\ serving' = serving
    BY <1>3 DEF Issue
  <2>2. \A p \in Names : Cmd("mangled", p) \in Commands
    BY DEF Cmd, Commands, Ops
  <2>3. Now \in Commands
    BY <2>1, NowTyped
  <2>4. queue' \in Seq(Commands) /\ Len(queue') <= Len(queue) + 1
    <3>1. \A c \in Commands : Append(queue, c) \in Seq(Commands) /\ Len(Append(queue, c)) = Len(queue) + 1
      BY <1>0
    <3>2. queue' = queue \/ \E c \in Commands : queue' = Append(queue, c)
      BY <2>1, <2>2, <2>3, SendEffect
    <3>3. CASE queue' = queue
      BY <1>0, <3>3
    <3>4. ASSUME NEW c \in Commands, queue' = Append(queue, c)
          PROVE  queue' \in Seq(Commands) /\ Len(queue') = Len(queue) + 1
      BY <3>1, <3>4, Zenon
    <3> QED
      BY <1>0, <3>2, <3>3, <3>4
  <2>5. Len(queue') + Len(answers') <= late' + (IF waiting' THEN 1 ELSE 0)
    <3>1. Len(queue) + Len(answers) <= late /\ answers' = <<>> /\ waiting' = TRUE /\ late' = late
      BY <1>0, <2>1, SendEffect
    <3>2. Len(queue') \in Nat
      BY <2>4
    <3> QED
      BY <1>0, <2>4, <3>1, <3>2
  <2> QED
    BY <1>0, <2>1, <2>4, <2>5, SendEffect DEF ConsoleInv
<1>4. CASE Ends
  <2>1. PICK resp : Over(resp) /\ Driving /\ Resume(resp) /\ UNCHANGED rest
    BY <1>4 DEF Ends
  <2>2. serving' = serving
    BY <2>1 DEF rest
  <2>3. /\ queue' \in {queue, <<>>} /\ waiting' = FALSE
        /\ UNCHANGED <<mode, alive, ram, flash, env>>
        /\ late' \in 0..MaxLate /\ answers' \in {answers, <<>>}
        /\ Len(queue') + Len(answers') <= late'
    BY <2>1, OverEffect
  <2>4. queue' \in Seq(Commands) /\ answers' \in Seq(Answers)
    BY <1>0, <2>3
  <2>5. Len(queue') + Len(answers') <= late' + (IF waiting' THEN 1 ELSE 0)
    BY <2>3
  <2> QED
    BY <1>0, <2>2, <2>3, <2>4, <2>5 DEF ConsoleInv
<1>5. CASE CameraStep
  <2>1. Camera
    BY <1>5 DEF CameraStep
  <2>2. PICK a \in Answers : answers' = Append(answers, a)
    BY <2>1, CameraEffect
  <2>3. answers' \in Seq(Answers) /\ Len(answers') = Len(answers) + 1
    BY <1>0, <2>2
  <2>4. queue # <<>> /\ queue' = Tail(queue)
    BY <2>1, CameraEffect
  <2>5. queue' \in Seq(Commands) /\ Len(queue') = Len(queue) - 1
    BY <1>0, <2>4
  <2>6. Head(queue).part \in Parts
    BY <2>1, CameraEffect, DumpAssumption DEF Commands, Names
  <2>7. flash' \in [Parts -> Contents]
    BY <2>1, <2>6, CameraEffect DEF ConsoleInv
  <2> QED
    BY <1>0, <2>1, <2>3, <2>4, <2>5, <2>7, CameraEffect DEF ConsoleInv
<1>6. CASE UNCHANGED vars
  BY <1>6 DEF vars, console, camera, ConsoleInv
<1>7. CASE SpillsEnv
  BY <1>7, SpillEffect DEF ConsoleInv
<1> QED
  BY <1>1, <1>2, <1>3, <1>4, <1>5, <1>6, <1>7, StepKinds

LEMMA FlowStep ==
  ASSUME IInv, [Next]_vars
  PROVE  FlowInv'
<1> USE DEF IInv
<1>1. ASSUME pc' \in PCs, detected' \in {"nand", "nor", "emmc"}, held' \subseteq {"power", "transport", "server"},
             staged' \in 0..3, on' \in BOOLEAN, UNCHANGED <<ubi, medium, pings, todo, step>>,
             detected' = detected \/ step = 1, pc' \in Before \cup Between => pc \in Before \cup Between
      PROVE  FlowInv'
  <2>1. (todo # <<>> => step \in 1..Len(PartPlan(Head(todo))))'
    <3>1. CASE detected' = detected
      <4>1. PartPlan(Head(todo))' = PartPlan(Head(todo))
        BY <1>1, <3>1 DEF PartPlan, IsUbi, Ubi, Raw, OnFlash
      <4> QED
        BY <1>1, <4>1 DEF FlowInv
    <3>2. CASE step = 1
      BY <1>1, <3>2 DEF PartPlan, IsUbi, Ubi, Raw, OnFlash, Cmd
    <3> QED
      BY <1>1, <3>1, <3>2
  <2> QED
    BY <1>1, <2>1 DEF FlowInv
<1>2. CASE LoadDump \/ Resolve \/ PowerSetup \/ PowerOff \/ OpenLink \/ Burn \/ Backend \/ Stage \/ Serve \/ Unwind
  <2>1. /\ UNCHANGED <<ubi, medium, detected, pings, todo, step>>
        /\ pc' \in PCs /\ (pc' \in Before \cup Between => pc \in Before \cup Between)
    BY <1>2 DEF LoadDump, Resolve, PowerSetup, PowerOff, OpenLink, Burn, Backend, Stage, Serve, Unwind,
                choices, Go, Fail, FlowInv, PCs, Before, Between
  <2>2. held' \subseteq {"power", "transport", "server"} /\ on' \in BOOLEAN
    BY <1>2 DEF LoadDump, Resolve, PowerSetup, PowerOff, OpenLink, Burn, Backend, Stage, Serve, Unwind, FlowInv
  <2>3. staged' \in 0..3
    <3>1. Len(Dump) = 3
      BY DEF Dump
    <3> QED
      BY <1>2, <3>1 DEF LoadDump, Resolve, PowerSetup, PowerOff, OpenLink, Burn, Backend, Stage, Serve, Unwind, FlowInv
  <2> QED
    BY <1>1, <2>1, <2>2, <2>3 DEF FlowInv
<1>3. CASE Replace
  <2>1. UNCHANGED <<ubi, medium, detected, pings, held, staged, on>> /\ pc = "write" /\ Now.op = "replace"
    BY <1>3 DEF Replace, choices
  <2>2. todo # <<>>
    BY <2>1 DEF Now, Cmd
  <2>3. CASE pc' = "unwind_raised" /\ UNCHANGED <<todo, step>>
    BY <1>1, <2>1, <2>3 DEF FlowInv, PCs, Before, Between
  <2>4. CASE pc' = pc /\ \E n \in {1, 3} : Advance(n)
    <3>1. PICK n \in Nat : Advance(n)
      BY <2>4
    <3>2. /\ todo' \in Todos /\ step' \in Nat
          /\ (todo # <<>> => step \in 1..Len(PartPlan(Head(todo))))'
      BY <2>1, <2>2, <3>1, AdvanceEffect
    <3> QED
      BY <2>1, <2>4, <3>2 DEF FlowInv, Before, Between
  <2> QED
    BY <1>3, <2>3, <2>4 DEF Replace, Go
<1>4. CASE Detect
  <2>1. /\ UNCHANGED <<ubi, pings, todo, step, held, staged, on, medium>> /\ pc = "detect"
        /\ pc' \in {"detect_flash", "backend"}
    BY <1>4 DEF Detect, choices, Go
  <2>2. detected' \in {detected, medium} /\ step = 1
    BY <1>4, <2>1 DEF Detect, FlowInv, Before
  <2> QED
    BY <1>1, <2>1, <2>2 DEF FlowInv, PCs, Before, Between
<1>5. CASE Issue \/ CameraStep \/ SpillsEnv \/ Ended \/ UNCHANGED vars
  <2>1. UNCHANGED <<ubi, medium, detected, pings, todo, step, held, staged, on, pc>>
    BY <1>5 DEF Issue, CameraStep, SpillsEnv, Ended, vars, flow, choices
  <2> QED
    BY <1>1, <2>1 DEF FlowInv
<1>6. CASE Ends
  BY <1>6, ResumeEffect DEF Ends
<1> QED
  BY <1>2, <1>3, <1>4, <1>5, <1>6, StepKinds DEF Quiet

LEMMA PowerStep ==
  ASSUME IInv, [Next]_vars
  PROVE  PowerInv'
<1> USE DEF IInv
<1>0. pc \in PCs
  BY DEF FlowInv
<1>1. ASSUME pc \in Before, pc' \in Before \/ pc' = "failed", "server" \in held' => "server" \in held,
             UNCHANGED <<mode, queue, flash>>,
             ~on' => (~on \/ pc = "power_off") /\ pc' \in {"link", "burn", "failed"}
      PROVE  PowerInv'
  BY <1>1 DEF PowerInv, Before
<1>2. ASSUME on' = on, pc \notin Before, pc' \notin Before, pc # "failed",
             UNCHANGED <<mode, queue, flash>>,
             "server" \in held' => pc' \in {"write", "unwind", "unwind_raised"}, pc' = "done" => held' = {}
      PROVE  PowerInv'
  <2>1. on
    BY <1>2 DEF PowerInv, Before
  <2> QED
    BY <1>2, <2>1 DEF PowerInv
<1>3. CASE LoadDump \/ Resolve \/ PowerSetup \/ PowerOff \/ OpenLink
  <2>1. /\ pc \in Before /\ (pc' \in Before \/ pc' = "failed") /\ UNCHANGED <<mode, queue, flash>>
    BY <1>3 DEF LoadDump, Resolve, PowerSetup, PowerOff, OpenLink, Go, Fail, Before, console, camera
  <2>2. "server" \in held' => "server" \in held
    BY <1>3 DEF LoadDump, Resolve, PowerSetup, PowerOff, OpenLink
  <2>3. ~on' => (~on \/ pc = "power_off") /\ pc' \in {"link", "burn", "failed"}
    BY <1>3 DEF LoadDump, Resolve, PowerSetup, PowerOff, OpenLink, Go, Fail, PowerInv
  <2> QED
    BY <1>1, <2>1, <2>2, <2>3
<1>4. CASE Burn
  <2>1. /\ pc = "burn" /\ pc' \in {"detect", "failed"} /\ UNCHANGED <<mode, queue, flash>>
    BY <1>4 DEF Burn, Go, Fail, console, camera
  <2>2. "server" \in held' => "server" \in held
    BY <1>4 DEF Burn
  <2>3. ~on' => ~on /\ pc' = "failed"
    BY <1>4 DEF Burn, Go, Fail
  <2> QED
    BY <1>1, <2>1, <2>2, <2>3 DEF Before
<1>5. CASE Backend \/ Stage \/ Serve \/ Replace \/ Unwind
  <2>1. /\ on' = on /\ UNCHANGED <<mode, queue, flash>> /\ pc \in Between \cup {"write", "unwind", "unwind_raised"}
        /\ pc' \in Between \cup {"write", "unwind", "unwind_raised", "done", "failed"}
    BY <1>5 DEF Backend, Stage, Serve, Replace, Unwind, Go, Fail, console, camera, Between
  <2>2. "server" \in held' => pc' \in {"write", "unwind", "unwind_raised"}
    BY <1>5 DEF Backend, Stage, Serve, Replace, Unwind, Go, Fail, PowerInv
  <2>3. pc' = "done" => held' = {}
    BY <1>5 DEF Backend, Stage, Serve, Replace, Unwind, Go, Fail
  <2> QED
    BY <1>2, <2>1, <2>2, <2>3 DEF Before, Between
<1>6. CASE Detect
  <2>1. /\ UNCHANGED <<queue, flash, on, held>> /\ pc = "detect" /\ pc' \in {"detect_flash", "backend"}
        /\ mode' # "none"
    BY <1>6 DEF Detect, DetectMode, Go, camera
  <2> QED
    BY <2>1 DEF PowerInv, Before
<1>7. CASE Issue
  <2>1. UNCHANGED <<pc, on, held, mode>> /\ Driving /\ Send(Now)
    BY <1>7, SendEffect DEF Issue, flow
  <2>2. mode # "none"
    BY <2>1, SendEffect
  <2> QED
    BY <2>1, <2>2 DEF PowerInv
<1>8. CASE Ends
  <2>1. PICK resp : Over(resp) /\ Driving /\ Resume(resp) /\ UNCHANGED rest
    BY <1>8 DEF Ends
  <2>2. queue' \in {queue, <<>>} /\ UNCHANGED <<mode, flash>>
    BY <2>1, OverEffect
  <2>3. /\ on' = on /\ held' \subseteq held /\ pc' \notin Before /\ pc' # "done"
        /\ (pc = "write" => pc' \in {"write", "unwind"})
    BY <2>1, ResumeEffect
  <2>4. pc \in {"detect_flash", "net", "ping", "write"}
    BY <2>1 DEF Driving
  <2>5. on
    BY <2>4 DEF PowerInv
  <2> QED
    BY <2>2, <2>3, <2>4, <2>5 DEF PowerInv
<1>9. CASE CameraStep \/ SpillsEnv
  <2>1. UNCHANGED <<pc, on, held, mode>> /\ queue # <<>>
    BY <1>9, CameraEffect, SpillEffect DEF CameraStep, flow
  <2> QED
    BY <2>1 DEF PowerInv
<1>10. CASE Ended \/ UNCHANGED vars
  <2>1. UNCHANGED <<pc, on, held, mode, queue, flash>>
    BY <1>10 DEF Ended, vars, flow, console, camera
  <2> QED
    BY <2>1 DEF PowerInv
<1> QED
  BY <1>3, <1>4, <1>5, <1>6, <1>7, <1>8, <1>9, <1>10, StepKinds DEF Quiet

LEMMA OrderStep ==
  ASSUME IInv, [Next]_vars
  PROVE  OrderInv'
<1> USE DEF IInv
<1> DEFINE Last(t) == t \in {<<"boot">>, <<>>}
<1>0. queue \in Seq(Commands) /\ Len(queue) \in Nat /\ flash \in [Parts -> Contents] /\ "boot" \in Parts
  BY DumpAssumption DEF ConsoleInv
<1>1. Last(todo) => todo = <<>> \/ Last(Tail(todo))
  BY TodoShape DEF FlowInv
<1>2. ASSUME queue' \in {queue, <<>>}, flash' = flash, todo' = todo \/ (todo # <<>> /\ todo' = Tail(todo))
      PROVE  OrderInv'
  <2>1. Last(todo) => Last(todo')
    BY <1>1, <1>2
  <2>2. CASE queue' = queue
    BY <1>2, <2>1, <2>2 DEF OrderInv
  <2>3. CASE queue' = <<>>
    BY <1>2, <2>1, <2>3 DEF OrderInv
  <2> QED
    BY <1>2, <2>2, <2>3
<1>3. CASE Quiet
  <2>1. queue' = queue /\ flash' = flash
    BY <1>3, QuietEffect DEF console, camera
  <2>2. todo' = todo \/ (todo # <<>> /\ todo' = Tail(todo))
    <3>1. CASE Replace
      <4>1. todo # <<>>
        BY <3>1 DEF Replace, Now, Cmd
      <4>2. todo' \in {todo, Tail(todo)}
        BY <3>1 DEF Replace, Advance, Skip
      <4> QED
        BY <4>1, <4>2
    <3>2. CASE ~ Replace
      BY <1>3, <3>2 DEF Quiet, LoadDump, Resolve, PowerSetup, PowerOff, OpenLink, Burn, Backend, Stage, Serve,
                         Unwind, Ended, vars, flow
    <3> QED
      BY <3>1, <3>2
  <2> QED
    BY <1>2, <2>1, <2>2
<1>4. CASE Detect \/ UNCHANGED vars
  <2>1. UNCHANGED <<queue, flash, todo>>
    BY <1>4 DEF Detect, DetectMode, vars, flow, console, camera
  <2> QED
    BY <1>2, <2>1
<1>5. CASE Ends
  <2>1. PICK resp : Over(resp) /\ Driving /\ Resume(resp) /\ UNCHANGED rest
    BY <1>5 DEF Ends
  <2>2. queue' \in {queue, <<>>} /\ flash' = flash
    BY <2>1, OverEffect
  <2>3. todo' = todo \/ (todo # <<>> /\ todo' = Tail(todo))
    BY <2>1, ResumeEffect
  <2> QED
    BY <1>2, <2>2, <2>3
<1>6. CASE Issue
  <2>1. Driving /\ Send(Now) /\ todo' = todo
    BY <1>6 DEF Issue, flow
  <2>2. flash' = flash
    BY <2>1, SendEffect
  <2>3. ASSUME NEW c \in Commands, queue' = Append(queue, c), OnBoot(c) => Last(todo), OnOther(c) => ~Last(todo)
        PROVE  OrderInv'
    <3>1. Len(queue') = Len(queue) + 1 /\ queue'[Len(queue) + 1] = c /\ \A i \in 1..Len(queue) : queue'[i] = queue[i]
      BY <1>0, <2>3
    <3>2. ASSUME NEW i \in 1..Len(queue'), OnBoot(queue'[i])
          PROVE  Last(todo')
      BY <1>0, <2>1, <2>3, <3>1, <3>2 DEF OrderInv
    <3>3. ASSUME NEW i \in 1..Len(queue'), NEW j \in 1..Len(queue'), i < j, OnBoot(queue'[i])
          PROVE  ~ OnOther(queue'[j])
      BY <1>0, <2>1, <2>3, <3>1, <3>3 DEF OrderInv
    <3>4. ASSUME flash'["boot"] \notin Untouched
          PROVE  Last(todo') /\ \A i \in 1..Len(queue') : ~ OnOther(queue'[i])
      BY <1>0, <2>1, <2>2, <2>3, <3>1, <3>4 DEF OrderInv
    <3> QED
      BY <3>2, <3>3, <3>4 DEF OrderInv
  <2>4. Now \in Commands /\ (OnBoot(Now) => Last(todo)) /\ (OnOther(Now) => ~Last(todo))
    <3>1. Now \in Commands /\ (Touches(Now) => todo # <<>> /\ Now.part = Head(todo))
      BY <2>1, NowTyped
    <3>2. todo # <<>> => (Head(todo) = "boot" <=> todo = <<"boot">>)
      BY TodoShape DEF FlowInv
    <3> QED
      BY <3>1, <3>2 DEF OnBoot, OnOther
  <2>5. \A p \in Names : Cmd("mangled", p) \in Commands /\ ~Touches(Cmd("mangled", p))
    BY DEF Cmd, Commands, Ops, Touches
  <2>6. CASE queue' = queue
    BY <1>2, <2>1, <2>2, <2>6
  <2>7. CASE queue' = Append(queue, Now)
    BY <2>3, <2>4, <2>7
  <2>8. CASE \E p \in Names : queue' = Append(queue, Cmd("mangled", p))
    BY <2>3, <2>5, <2>8 DEF OnBoot, OnOther
  <2> QED
    BY <2>1, <2>6, <2>7, <2>8, SendEffect
<1>7. CASE CameraStep
  <2>1. Camera /\ todo' = todo
    BY <1>7 DEF CameraStep, flow
  <2>2. queue # <<>> /\ queue' = Tail(queue) /\ Head(queue) = queue[1]
    BY <1>0, <2>1, CameraEffect
  <2>3. Len(queue') = Len(queue) - 1 /\ \A i \in 1..Len(queue') : queue'[i] = queue[i + 1]
    BY <1>0, <2>2
  <2>4. Len(queue) >= 1
    BY <1>0, <2>2
  <2>5. ASSUME flash["boot"] \in Untouched, flash'["boot"] \notin Untouched
        PROVE  OnBoot(queue[1])
    <3>1. Head(queue).part \in Parts
      BY <2>1, CameraEffect, DumpAssumption DEF Commands, Names
    <3>2. Touches(queue[1]) /\ Head(queue).part = "boot"
      <4>1. \/ flash' = flash
            \/ /\ Touches(Head(queue))
               /\ \E x \in Contents : flash' = [flash EXCEPT ![Head(queue).part] = x]
        BY <2>1, CameraEffect
      <4>2. Touches(Head(queue)) /\ \E x \in Contents : flash' = [flash EXCEPT ![Head(queue).part] = x]
        BY <2>5, <4>1
      <4>3. Head(queue).part = "boot"
        BY <1>0, <2>5, <3>1, <4>2
      <4> QED
        BY <2>2, <4>2, <4>3
    <3> QED
      BY <2>2, <3>2 DEF OnBoot
  <2>6. ASSUME flash'["boot"] \notin Untouched
        PROVE  Last(todo') /\ \A i \in 1..Len(queue') : ~ OnOther(queue'[i])
    <3>1. CASE flash["boot"] \notin Untouched
      BY <1>0, <2>1, <2>3, <2>4, <3>1 DEF OrderInv
    <3>2. CASE OnBoot(queue[1])
      <4>1. \A j \in 2..Len(queue) : ~ OnOther(queue[j])
        BY <1>0, <2>4, <3>2 DEF OrderInv
      <4>2. Last(todo)
        BY <1>0, <2>4, <3>2 DEF OrderInv
      <4> QED
        BY <1>0, <2>1, <2>3, <2>4, <4>1, <4>2
    <3> QED
      BY <2>5, <2>6, <3>1, <3>2
  <2>7. ASSUME NEW i \in 1..Len(queue'), OnBoot(queue'[i])
        PROVE  Last(todo')
    BY <1>0, <2>1, <2>3, <2>7 DEF OrderInv
  <2>8. ASSUME NEW i \in 1..Len(queue'), NEW j \in 1..Len(queue'), i < j, OnBoot(queue'[i])
        PROVE  ~ OnOther(queue'[j])
    BY <1>0, <2>3, <2>8 DEF OrderInv
  <2> QED
    BY <2>6, <2>7, <2>8 DEF OrderInv
<1>8. CASE SpillsEnv
  <2>1. queue' = queue /\ todo' = todo /\ flash'["boot"] = "env"
    BY <1>8, SpillEffect DEF flow
  <2> QED
    BY <2>1 DEF OrderInv, Untouched
<1> QED
  BY <1>3, <1>4, <1>5, <1>6, <1>7, <1>8, StepKinds

---------------------------------------------------------------------------
(* A restore in which nothing goes wrong.                                  *)

LEMMA Counts ==
  ASSUME IInv, faults \in Nat, [Next]_vars
  PROVE  faults' \in {faults, faults + 1} /\ late' \in {late, late + 1}
<1>1. CASE Quiet \/ Detect \/ UNCHANGED vars
  BY <1>1, QuietEffect DEF Detect, DetectMode, vars, console, camera
<1>2. CASE Issue
  BY <1>2 DEF Issue, Send, Right, Wrong
<1>3. CASE Ends
  BY <1>3 DEF Ends, Over, Reply, Expire, Refused, console, camera
<1>4. CASE CameraStep
  <2>1. Camera
    BY <1>4 DEF CameraStep
  <2>2. late' = late
    BY <2>1, CameraEffect
  <2>3. faults' \in {faults, faults + 1}
    BY <2>1 DEF Camera, RunTftp, RunCrc32, RunRead, RunErase, RunWrite, RunUbi, RunEnv, RunOther, Right, Wrong, camera
  <2> QED
    BY <2>2, <2>3
<1>5. CASE SpillsEnv
  BY <1>5, SpillEffect
<1> QED
  BY <1>1, <1>2, <1>3, <1>4, <1>5, StepKinds

LEMMA FineBefore ==
  ASSUME IInv, faults \in Nat, [Next]_vars, Fine'
  PROVE  Fine
<1>1. late \in Nat
  BY ConsoleAssumption DEF IInv, ConsoleInv
<1> QED
  BY <1>1, Counts DEF Fine

\* Between two commands nothing is under way.
LEMMA Idle ==
  ASSUME IInv, Fine, ~waiting
  PROVE  queue = <<>> /\ answers = <<>>
<1>1. /\ queue \in Seq(Commands) /\ answers \in Seq(Answers) /\ Len(queue) \in Nat /\ Len(answers) \in Nat
      /\ Len(queue) + Len(answers) <= 0
  BY DEF IInv, ConsoleInv, Fine
<1>2. Len(queue) = 0 /\ Len(answers) = 0
  BY <1>1
<1> QED
  BY <1>1, <1>2

LEMMA HasOne ==
  ASSUME NEW a, Len(a) = 1, a \in Seq(Answers), NEW out
  PROVE  Has(a, out) <=> a # <<>> /\ a[1].out = out
BY DEF Has

\* The host sends a command.
LEMMA IssueFine ==
  ASSUME IInv, LineInv, Issue, Fine
  PROVE  /\ Driving /\ Now.op # "replace" /\ ~waiting /\ queue = <<>> /\ answers = <<>>
         /\ waiting' = TRUE /\ answers' = <<>> /\ queue' = (IF alive THEN <<Now>> ELSE <<>>)
         /\ UNCHANGED <<mode, alive, late, ram, flash, env, serving, flow>>
<1>1. Driving /\ Now.op # "replace" /\ Send(Now) /\ UNCHANGED <<serving, flow>>
  BY DEF Issue
<1>2. ~waiting /\ queue = <<>> /\ answers = <<>>
  BY <1>1, Idle DEF Send
<1>3. queue' = (IF alive THEN Append(queue, Now) ELSE queue)
  BY <1>1, <1>2 DEF Send
<1>4. Append(<<>>, Now) = <<Now>>
  OBVIOUS
<1> QED
  BY <1>1, <1>2, <1>3, <1>4 DEF Send

\* A command ends with its own answer, or the camera says nothing at all.
LEMMA EndsFine ==
  ASSUME IInv, LineInv, Ends, Fine, Fine'
  PROVE  /\ Driving /\ Resume(answers) /\ UNCHANGED rest /\ waiting /\ waiting' = FALSE
         /\ queue = <<>> /\ queue' = <<>> /\ answers' = <<>>
         /\ IF alive THEN Len(answers) = 1 ELSE answers = <<>>
         /\ UNCHANGED <<mode, alive, ram, flash, env>>
<1>1. PICK resp : Over(resp) /\ Driving /\ Resume(resp) /\ UNCHANGED rest
  BY DEF Ends
<1>2. late = 0 /\ late' = 0
  BY DEF Fine
<1>3. ~alive => queue = <<>> /\ answers = <<>>
  BY DEF IInv, ConsoleInv, LineInv
<1>4. waiting /\ alive => (queue = <<Now>> /\ answers = <<>>) \/ (queue = <<>> /\ Len(answers) = 1)
  BY DEF LineInv
<1>5. UNCHANGED <<mode, alive, ram, flash, env>> /\ waiting' = FALSE
  BY <1>1, OverEffect
<1>6. CASE Reply(resp)
  <2>1. waiting /\ answers # <<>> /\ resp = answers /\ answers' = <<>> /\ queue' = queue
    BY <1>6 DEF Reply
  <2> QED
    BY <1>1, <1>3, <1>4, <1>5, <2>1
<1>7. CASE Expire(resp)
  <2>1. waiting /\ answers = <<>> /\ resp = answers /\ answers' = answers /\ queue' \in {queue, <<>>}
        /\ (alive => late' = late + 1)
    BY <1>7 DEF Expire
  <2>2. ~alive
    BY <1>2, <2>1
  <2> QED
    BY <1>1, <1>3, <1>5, <2>1, <2>2
<1>8. CASE Refused
  <2>1. ~waiting /\ queue # <<>>
    BY <1>8 DEF Refused
  <2> QED
    BY <2>1, Idle
<1> QED
  BY <1>1, <1>6, <1>7, <1>8 DEF Over

\* The camera runs the command restore is at.
LEMMA CameraFine ==
  ASSUME IInv, LineInv, CameraStep, Fine
  PROVE  /\ Camera /\ alive /\ waiting /\ Driving /\ queue = <<Now>> /\ Head(queue) = Now /\ answers = <<>>
         /\ queue' = <<>> /\ Len(answers') = 1 /\ answers' \in Seq(Answers)
         /\ UNCHANGED <<mode, alive, waiting, late, serving, flow>>
<1>1. Camera /\ UNCHANGED <<serving, flow>> /\ alive
  BY DEF CameraStep, Camera
<1>2. queue # <<>> /\ queue' = Tail(queue) /\ UNCHANGED <<mode, alive, waiting, late>>
  BY <1>1, CameraEffect
<1>3. waiting
  BY <1>2, Idle
<1>4. queue = <<Now>> /\ answers = <<>> /\ Driving
  BY <1>1, <1>2, <1>3 DEF LineInv
<1>5. PICK a \in Answers : answers' = Append(answers, a)
  BY <1>1, CameraEffect
<1>6. answers' = <<a>>
  BY <1>4, <1>5
<1>7. Head(queue) = Now /\ Tail(queue) = <<>>
  BY <1>4
<1>8. Len(answers') = 1 /\ answers' \in Seq(Answers)
  BY <1>6
<1> QED
  BY <1>1, <1>2, <1>3, <1>4, <1>7, <1>8

\* U-Boot saves its environment while it runs the command restore is at.
LEMMA SpillFine ==
  ASSUME IInv, LineInv, SpillsEnv, Fine
  PROVE  /\ alive /\ waiting /\ Driving /\ answers = <<>>
         /\ Now.op \in {"setenv_net", "setenv_mtdparts", "ping", "tftpboot", "tftp"}
<1>1. queue # <<>> /\ alive
  BY SpillEffect
<1>2. waiting
  BY <1>1, Idle
<1>3. queue = <<Now>> /\ answers = <<>> /\ Driving
  BY <1>1, <1>2 DEF LineInv
<1>4. Head(queue) = Now
  BY <1>3
<1> QED
  BY <1>1, <1>2, <1>3, <1>4 DEF SpillsEnv

\* What each command does.
LEMMA RunEffect ==
  ASSUME IInv, Camera, answers = <<>>, Fine, Fine', NEW c, c = Head(queue)
  PROVE  /\ c.op = "present" => Told("ok")'
         /\ c.op = "absent" => Told("error")' /\ ~Told("ok")'
         /\ c.op = "ping" => (Told("ok")' => env.net)
         /\ c.op \in {"tftpboot", "tftp"} /\ env.net /\ serving[c.part] # "none" =>
              \/ c.op = "tftpboot" /\ Told("unknown")' /\ ram' = ram
              \/ Told("done")' /\ ram' = serving[c.part]
         /\ c.op \in {"tftpboot", "tftp"} => flash' = flash /\ env' = env
         /\ c.op = "erase" => flash' = [flash EXCEPT ![c.part] = "erased"] /\ UNCHANGED <<ram, env>>
         /\ c.op = "write" => flash' = [flash EXCEPT ![c.part] = IF @ = "erased" THEN ram ELSE "bad"]
                              /\ UNCHANGED <<ram, env>>
         /\ c.op = "ubi_create" /\ flash[c.part] = "erased" /\ env.mtdparts =>
              flash' = [flash EXCEPT ![c.part] = "volume"] /\ UNCHANGED <<ram, env>>
         /\ c.op = "ubi_write" /\ flash[c.part] = "volume" =>
              flash' = [flash EXCEPT ![c.part] = ram] /\ UNCHANGED <<ram, env>>
         /\ c.op = "setenv_mtdparts" => env' = [env EXCEPT !.mtdparts = TRUE] /\ UNCHANGED <<ram, flash>>
         /\ c.op = "printenv_mtd" => UNCHANGED <<ram, flash, env>>
         /\ ~Touches(c) => flash' = flash
         /\ env.net => env'.net
<1>1. ~Wrong
  BY DEF Wrong, Fine
<1>2. \A out, val : Ran(out, val) => answers' = <<Answer(out, val)>>
  BY DEF Ran
<1>3. \A out, val, x : answers' = <<Answer(out, val)>> => (Told(x)' <=> out = x)
  BY DEF Told, Answer
<1>4. \A out, val, x : Ran(out, val) => (Told(x)' <=> out = x)
  BY <1>2, <1>3, Zenon
<1>5. env \in Environments
  BY DEF IInv, ConsoleInv
<1>6. CASE RunTftp
  BY <1>1, <1>4, <1>6 DEF RunTftp, Touches
<1>7. CASE RunCrc32
  BY <1>7 DEF RunCrc32, camera, Touches
<1>8. CASE RunRead
  BY <1>8 DEF RunRead, Touches
<1>9. CASE RunErase
  BY <1>1, <1>9 DEF RunErase, Touches
<1>10. CASE RunWrite
  BY <1>1, <1>10 DEF RunWrite, Touches
<1>11. CASE RunUbi
  BY <1>1, <1>11 DEF RunUbi, Touches
<1>12. CASE RunEnv
  BY <1>5, <1>12 DEF RunEnv, Touches, Environments
<1>13. CASE RunOther
  <2>1. UNCHANGED <<ram, flash, env>> /\ c.op \in {"probe", "ping", "reset", "present", "absent", "mangled"}
    BY <1>13 DEF RunOther, camera
  <2>2. /\ Ran("ok", "") => Told("ok")'
        /\ Ran("error", "") => Told("error")'
        /\ Ran("error", "") => ~Told("ok")'
    <3>1. Ran("ok", "") => Told("ok")'
      BY <1>4
    <3>2. Ran("error", "") => Told("error")'
      BY <1>4
    <3>3. Ran("error", "") => ~Told("ok")'
      <4>1. \A out, val : Ran(out, val) => answers'[1].out = out
        BY <1>2 DEF Answer
      <4>2. Ran("error", "") => answers'[1].out = "error"
        BY <4>1
      <4> QED
        BY <4>2 DEF Told
    <3> QED
      BY <3>1, <3>2, <3>3
  <2>3. c.op = "present" => Told("ok")'
    BY <1>13, <2>2 DEF RunOther
  <2>4. c.op = "absent" => Told("error")' /\ ~Told("ok")'
    BY <1>13, <2>2 DEF RunOther
  <2>5. c.op = "ping" /\ ~env.net => Told("error")' /\ ~Told("ok")'
    BY <1>13, <2>2 DEF RunOther
  <2> QED
    BY <2>1, <2>3, <2>4, <2>5 DEF Touches
<1> QED
  BY <1>6, <1>7, <1>8, <1>9, <1>10, <1>11, <1>12, <1>13 DEF Camera

\* The commands of a partition, when restore knows which flash it has.
LEMMA RawTable ==
  ASSUME NEW p \in Names, ~IsUbi(p), detected = medium
  PROVE  /\ Len(PartPlan(p)) = 4
         /\ PartPlan(p)[1].op = "tftpboot" /\ PartPlan(p)[2].op = "tftp"
         /\ PartPlan(p)[3].op = "erase" /\ PartPlan(p)[4].op = "write"
BY DEF PartPlan, Raw, OnFlash, Cmd

LEMMA UbiTable ==
  ASSUME NEW p \in Names, IsUbi(p), detected = medium
  PROVE  /\ p = "rootfs" /\ medium = "nand" /\ ubi /\ Len(PartPlan(p)) = 9
         /\ PartPlan(p)[1].op = "replace" /\ PartPlan(p)[2].op = "printenv_mtd" /\ PartPlan(p)[3].op = "printenv_mtd"
         /\ PartPlan(p)[4].op = "setenv_mtdparts" /\ PartPlan(p)[5].op = "tftpboot" /\ PartPlan(p)[6].op = "tftp"
         /\ PartPlan(p)[7].op = "erase" /\ PartPlan(p)[8].op = "ubi_create" /\ PartPlan(p)[9].op = "ubi_write"
<1>1. p = "rootfs" /\ medium = "nand" /\ ubi
  BY DEF IsUbi
<1>2. PartPlan(p) = Ubi(p)
  BY DEF PartPlan
<1> QED
  BY <1>1, <1>2 DEF Ubi, OnFlash, Cmd

\* Where in the plan of a partition a command is.
LEMMA RawWhere ==
  ASSUME NEW p \in Names, ~IsUbi(p), detected = medium, NEW k \in 1..Len(PartPlan(p))
  PROVE  /\ PartPlan(p)[k].op = "tftpboot" => k = 1
         /\ PartPlan(p)[k].op \notin {"replace", "printenv_mtd", "setenv_mtdparts"}
<1>1. k \in 1..4
  BY RawTable
<1> QED
  BY <1>1, RawTable

LEMMA UbiWhere ==
  ASSUME NEW p \in Names, IsUbi(p), detected = medium, NEW k \in 1..Len(PartPlan(p))
  PROVE  /\ PartPlan(p)[k].op = "replace" => k = 1
         /\ PartPlan(p)[k].op = "tftpboot" => k = 5
         /\ PartPlan(p)[k].op = "printenv_mtd" => k \in {2, 3}
         /\ PartPlan(p)[k].op = "setenv_mtdparts" => k = 4
<1>1. k \in 1..9
  BY UbiTable
<1> QED
  BY <1>1, UbiTable

\* The first command finds the partition as it was.
LEMMA AtOne ==
  ASSUME NEW p \in Names
  PROVE  At(p, 1) <=> Fresh(p)
BY DEF At, IsUbi, RawAt, UbiAt, Fresh

\* At the end of its commands a partition is done.
LEMMA AtEnd ==
  ASSUME NEW p \in Names, detected = medium, NEW k \in Nat, k > Len(PartPlan(p)), k <= Len(PartPlan(p)) + 1, At(p, k)
  PROVE  Finished(p)
<1>1. CASE IsUbi(p)
  <2>1. Len(PartPlan(p)) = 9 /\ p = "rootfs" /\ medium = "nand" /\ ubi
    BY <1>1, UbiTable
  <2>2. k = 10
    BY <2>1
  <2> QED
    BY <1>1, <2>1, <2>2 DEF At, UbiAt, Finished, Image
<1>2. CASE ~IsUbi(p)
  <2>1. Len(PartPlan(p)) = 4
    BY <1>2, RawTable
  <2>2. k = 5
    BY <2>1
  <2> QED
    BY <1>2, <2>2 DEF At, RawAt, Finished, Image, IsUbi
<1> QED
  BY <1>1, <1>2

\* A partition that is done with makes room for the next.
LEMMA NextPart ==
  ASSUME todo \in Todos, todo # <<>>, Others, Finished(Head(todo)), todo' = Tail(todo), step' = 1,
         UNCHANGED <<flash, medium, ubi>>
  PROVE  Others' /\ (todo' # <<>> => At(Head(todo), step)')
<1>1. \A p \in Names : Finished(p)' <=> Finished(p)
  BY DEF Finished, Image
<1>2. todo' # <<>> => Head(todo') \in Names
  BY DEF Todos, Names
<1>3. ASSUME todo' # <<>>, Fresh(Head(todo'))
      PROVE  At(Head(todo), step)'
  <2>1. Head(todo') \in Names
    BY <1>2, <1>3
  <2> QED
    BY <1>3, <2>1 DEF At, IsUbi, RawAt, UbiAt, Fresh
<1>4. CASE todo = <<"kernel", "rootfs", "boot">>
  <2>1. Head(todo) = "kernel" /\ todo' = <<"rootfs", "boot">> /\ Head(todo') = "rootfs"
    BY <1>4
  <2> QED
    BY <1>1, <1>3, <1>4, <2>1 DEF Others, Names, Fresh
<1>5. CASE todo = <<"rootfs", "boot">>
  <2>1. Head(todo) = "rootfs" /\ todo' = <<"boot">> /\ Head(todo') = "boot"
    BY <1>5
  <2> QED
    BY <1>1, <1>3, <1>5, <2>1 DEF Others, Names, Fresh
<1>6. CASE todo = <<"boot">>
  <2>1. Head(todo) = "boot" /\ todo' = <<>>
    BY <1>6
  <2> QED
    BY <1>1, <1>6, <2>1 DEF Others, Names
<1> QED
  BY <1>4, <1>5, <1>6 DEF Todos

\* The other partitions do not see what the camera does to this one.
LEMMA OthersKept ==
  ASSUME todo \in Todos, Others, UNCHANGED <<todo, medium, ubi>>,
         \A p \in Names : flash'[p] = flash[p] \/ (todo # <<>> /\ p = Head(todo))
  PROVE  Others'
<1>1. \A p \in Names : flash'[p] = flash[p] => (Finished(p)' <=> Finished(p))
  BY DEF Finished, Image
<1>2. CASE todo = <<"kernel", "rootfs", "boot">>
  BY <1>2 DEF Others, Names, Fresh
<1>3. CASE todo = <<"rootfs", "boot">>
  BY <1>1, <1>3 DEF Others, Names, Fresh
<1>4. CASE todo = <<"boot">>
  BY <1>1, <1>4 DEF Others, Names
<1>5. CASE todo = <<>>
  BY <1>1, <1>5 DEF Others, Names
<1> QED
  BY <1>2, <1>3, <1>4, <1>5 DEF Todos

\* Nor do they see the environment in a boot partition still to be written.
LEMMA OthersSpilt ==
  ASSUME todo \in Todos, Others, UNCHANGED <<todo, medium, ubi>>, todo # <<>>,
         \A p \in Names : flash'[p] = flash[p] \/ (p = "boot" /\ flash'[p] = "env")
  PROVE  Others'
<1>1. \A p \in {"kernel", "rootfs"} : flash'[p] = flash[p] /\ (Finished(p)' <=> Finished(p))
  BY DEF Finished, Image, Names
<1>2. Fresh("boot") => Fresh("boot")'
  BY DEF Fresh, Names
<1>3. CASE todo = <<"kernel", "rootfs", "boot">>
  BY <1>1, <1>2, <1>3 DEF Others
<1>4. CASE todo = <<"rootfs", "boot">>
  BY <1>1, <1>2, <1>4 DEF Others
<1>5. CASE todo = <<"boot">>
  BY <1>1, <1>5 DEF Others
<1> QED
  BY <1>3, <1>4, <1>5 DEF Todos

\* The step of an answered command of a partition: to the next command of the
\* same partition whose conditions hold, or past the last one.
LEMMA GoOn ==
  ASSUME IInv, todo # <<>>, detected = medium, NEW n \in Nat \ {0}, Advance(n), At(Head(todo), step + n), Others,
         step + n <= Len(PartPlan(Head(todo))) + 1,
         UNCHANGED <<flash, ram, env, serving, medium, ubi, detected>>
  PROVE  Others' /\ (todo' # <<>> => At(Head(todo), step)')
<1>1. todo \in Todos /\ Head(todo) \in Names /\ step \in Nat /\ Len(PartPlan(Head(todo))) \in Nat
  BY TodoShape, PlanShape DEF IInv, FlowInv
<1>2. CASE step + n > Len(PartPlan(Head(todo)))
  <2>1. Finished(Head(todo))
    BY <1>1, <1>2, AtEnd
  <2>2. todo' = Tail(todo) /\ step' = 1
    BY <1>2 DEF Advance, Skip
  <2> QED
    BY <1>1, <2>1, <2>2, NextPart
<1>3. CASE ~(step + n > Len(PartPlan(Head(todo))))
  <2>1. step' = step + n /\ todo' = todo
    BY <1>3 DEF Advance
  <2>2. At(Head(todo), step)'
    BY <2>1 DEF At, IsUbi, RawAt, UbiAt, Fresh
  <2>3. Others'
    BY <1>1, <2>1, OthersKept
  <2> QED
    BY <2>2, <2>3
<1> QED
  BY <1>2, <1>3

LEMMA LineStep ==
  ASSUME IInv, LineInv, [Next]_vars
  PROVE  LineInv'
<1>0. faults \in Nat /\ faults' \in Nat
  BY Counts DEF LineInv
<1>1. Fine' => Fine
  BY <1>0, FineBefore
<1>2. CASE Quiet
  <2>1. UNCHANGED <<waiting, alive, answers>>
    BY <1>2, QuietEffect DEF console
  <2>2. ~waiting
    BY <1>2 DEF LineInv, Quiet, LoadDump, Resolve, PowerSetup, PowerOff, OpenLink, Burn, Backend, Stage, Serve,
                Replace, Unwind, Ended, Driving
  <2> QED
    BY <1>0, <2>1, <2>2 DEF LineInv
<1>3. CASE Detect
  <2>1. UNCHANGED <<waiting, alive, answers>> /\ ~Driving
    BY <1>3 DEF Detect, DetectMode, Driving
  <2> QED
    BY <1>0, <2>1 DEF LineInv
<1>4. CASE Issue
  <2>1. Driving' /\ (Now.op # "replace")'
    BY <1>4 DEF Issue, flow, choices, Driving, Now, OnFlash, PartPlan, IsUbi, Ubi, Raw
  <2>2. answers' = <<>> /\ alive' = alive
    BY <1>4 DEF Issue, Send
  <2>3. Now' = Now
    BY <1>4 DEF Issue, flow, choices, Now, OnFlash, PartPlan, IsUbi, Ubi, Raw
  <2>4. Fine' /\ alive' => queue' = <<Now'>>
    BY <1>1, <1>4, <2>3, IssueFine
  <2> QED
    BY <1>0, <2>1, <2>2, <2>4 DEF LineInv
<1>5. CASE Ends
  <2>1. waiting' = FALSE /\ alive' = alive /\ answers' \in {answers, <<>>}
    BY <1>5, OverEffect DEF Ends
  <2> QED
    BY <1>0, <2>1 DEF LineInv
<1>6. CASE CameraStep
  <2>1. UNCHANGED <<waiting, alive>> /\ alive /\ UNCHANGED flow
    BY <1>6, CameraEffect DEF CameraStep, Camera
  <2>2. Driving' = Driving /\ Now' = Now
    BY <2>1 DEF flow, choices, Driving, Now, OnFlash, PartPlan, IsUbi, Ubi, Raw
  <2>3. Fine' => queue' = <<>> /\ Len(answers') = 1
    BY <1>1, <1>6, CameraFine
  <2> QED
    BY <1>0, <2>1, <2>2, <2>3 DEF LineInv
<1>7. CASE UNCHANGED vars
  BY <1>7 DEF vars, console, camera, flow, choices, LineInv, Fine, Driving, Now, OnFlash, PartPlan, IsUbi, Ubi, Raw
<1>8. CASE SpillsEnv
  <2>1. UNCHANGED <<alive, queue, answers, waiting, late, faults, flow>>
    BY <1>8, SpillEffect
  <2>2. Driving' = Driving /\ Now' = Now
    BY <2>1 DEF flow, choices, Driving, Now, OnFlash, PartPlan, IsUbi, Ubi, Raw
  <2> QED
    BY <1>0, <1>1, <2>1, <2>2 DEF LineInv
<1> QED
  BY <1>2, <1>3, <1>4, <1>5, <1>6, <1>7, <1>8, StepKinds

\* No command is under way when the host does something else.
LEMMA QuietFine ==
  ASSUME IInv, LineInv, Quiet \/ Detect, Fine
  PROVE  ~waiting /\ answers = <<>> /\ UNCHANGED <<answers, alive, ram, flash, env>>
<1>1. UNCHANGED <<answers, alive, ram, flash, env>>
  BY QuietEffect DEF Detect, DetectMode, console, camera
<1>2. ~waiting
  BY DEF LineInv, Quiet, LoadDump, Resolve, PowerSetup, PowerOff, OpenLink, Burn, Backend, Stage, Serve,
         Replace, Unwind, Ended, Driving, Detect
<1> QED
  BY <1>1, <1>2, Idle

\* A replacement is the first command of a UBI partition.
LEMMA ReplaceWhere ==
  ASSUME IInv, pc = "write", Now.op = "replace", detected = medium
  PROVE  todo # <<>> /\ Head(todo) = "rootfs" /\ IsUbi("rootfs") /\ step = 1
<1>1. todo # <<>>
  BY DEF Now, Cmd
<1>2. Head(todo) \in Names /\ step \in 1..Len(PartPlan(Head(todo))) /\ Now = PartPlan(Head(todo))[step]
  BY <1>1, TodoShape DEF IInv, FlowInv, Now
<1>3. IsUbi(Head(todo))
  BY <1>2, RawWhere
<1>4. Head(todo) = "rootfs"
  BY <1>3 DEF IsUbi
<1>5. step = 1
  BY <1>2, <1>3, UbiWhere
<1> QED
  BY <1>1, <1>3, <1>4, <1>5

LEMMA SetupStep ==
  ASSUME IInv, LineInv, SetupInv, [Next]_vars
  PROVE  SetupInv'
<1> SUFFICES ASSUME Fine' PROVE SetupInv'
  BY DEF SetupInv
<1>0. Fine
  BY FineBefore DEF LineInv
<1>a. /\ pc \in {"backend", "net", "ping"} \cup After /\ alive => detected = medium
      /\ pc = "detect_flash" /\ detected # medium => ~Told("ok") /\ (answers # <<>> => Told("error"))
      /\ pc = "ping" /\ Told("ok") => env.net
      /\ pc \in After => alive /\ env.net
      /\ pc \in Before \cup Between => \A i \in 1..staged : serving[Dump[i]] = Dump[i]
      /\ pc = "write" =>
           /\ serving["kernel"] = "kernel" /\ serving["boot"] = "boot"
           /\ ~IsUbi("rootfs") => serving["rootfs"] = "rootfs"
  BY <1>0 DEF SetupInv
<1>b. serving \in [Parts -> Parts \cup {"none", "ubifs"}] /\ Names \subseteq Parts
  BY DumpAssumption DEF IInv, ConsoleInv, Names
<1>1. CASE LoadDump \/ Resolve \/ PowerSetup \/ PowerOff \/ OpenLink \/ Burn \/ Backend
  <2>1. UNCHANGED <<answers, alive, env, serving, staged, detected, medium>>
    BY <1>1, QuietFine, <1>0 DEF Quiet, LoadDump, Resolve, PowerSetup, PowerOff, OpenLink, Burn, Backend, choices
  <2>2. \/ pc \in Before /\ pc' \in Before \cup {"detect", "failed"}
        \/ pc = "backend" /\ pc' \in {"net", "failed"}
    BY <1>1 DEF LoadDump, Resolve, PowerSetup, PowerOff, OpenLink, Burn, Backend, Go, Fail, Before
  <2> QED
    BY <1>a, <2>1, <2>2 DEF SetupInv, Before, Between, After
<1>2. CASE Stage
  <2>1. UNCHANGED <<answers, alive, env, detected, medium, ubi>> /\ pc = "stage"
    BY <1>2, QuietFine, <1>0 DEF Quiet, Stage, choices
  <2>2. Len(Dump) = 3 /\ Dump[1] = "boot" /\ Dump[2] = "kernel" /\ Dump[3] = "rootfs" /\ staged \in 0..3
    BY DEF Dump, IInv, FlowInv
  <2>3. \A i \in 1..staged : serving[Dump[i]] = Dump[i]
    BY <1>a, <2>1 DEF Between
  <2>4. CASE UNCHANGED <<serving, staged>> /\ pc' \in {"stage", "failed"}
    BY <1>a, <2>1, <2>3, <2>4 DEF SetupInv, Before, Between, After
  <2>5. CASE pc' = "write" /\ staged = 3 /\ UNCHANGED <<serving, staged>>
    <3>1. serving["boot"] = "boot" /\ serving["kernel"] = "kernel" /\ serving["rootfs"] = "rootfs"
      BY <2>2, <2>3, <2>5
    <3> QED
      BY <1>a, <2>1, <2>5, <3>1 DEF SetupInv, Before, Between, After
  <2>6. CASE /\ pc' = pc /\ staged < 3 /\ staged' = staged + 1
             /\ serving' = [serving EXCEPT ![Dump[staged + 1]] = Dump[staged + 1]]
    <3>1. \A i \in 1..staged' : serving'[Dump[i]] = Dump[i]
      <4> SUFFICES ASSUME NEW i \in 1..staged' PROVE serving'[Dump[i]] = Dump[i]
        OBVIOUS
      <4>1. i \in 1..3 /\ staged + 1 \in 1..3 /\ (i \in 1..staged \/ i = staged + 1)
        BY <2>2, <2>6
      <4>2. Dump[i] \in Parts
        BY <1>b, <2>2, <4>1 DEF Names
      <4>3. CASE i = staged + 1
        BY <1>b, <2>6, <4>2, <4>3
      <4>4. CASE i # staged + 1
        <5>1. serving[Dump[i]] = Dump[i]
          BY <2>3, <4>1, <4>4
        <5> QED
          BY <1>b, <2>6, <4>2, <5>1
      <4> QED
        BY <4>3, <4>4
    <3> QED
      BY <1>a, <2>1, <2>6, <3>1 DEF SetupInv, Before, Between, After
  <2> QED
    BY <1>2, <2>2, <2>4, <2>5, <2>6 DEF Stage, Go, Fail
<1>3. CASE Serve
  <2>1. UNCHANGED <<answers, alive, env, detected, medium, ubi>> /\ pc = "stage"
    BY <1>3, QuietFine, <1>0 DEF Quiet, Serve, choices
  <2>2. CASE pc' = "write" /\ serving' = [p \in Parts |-> p]
    <3>1. serving'["boot"] = "boot" /\ serving'["kernel"] = "kernel" /\ serving'["rootfs"] = "rootfs"
      BY <2>2, DumpAssumption
    <3> QED
      BY <1>a, <2>1, <2>2, <3>1 DEF SetupInv, Before, Between, After
  <2>3. CASE pc' = "failed"
    BY <2>3 DEF SetupInv, Before, Between, After
  <2> QED
    BY <1>3, <2>2, <2>3 DEF Serve, Go, Fail
<1>4. CASE Replace
  <2>1. UNCHANGED <<answers, alive, env, detected, medium, ubi>> /\ pc = "write" /\ Now.op = "replace"
    BY <1>4, QuietFine, <1>0 DEF Quiet, Replace, choices
  <2>2. IsUbi("rootfs")
    BY <1>a, <2>1, ReplaceWhere DEF After
  <2>3. CASE pc' = pc /\ serving' = [serving EXCEPT !["rootfs"] = "ubifs"]
    <3>1. serving'["kernel"] = "kernel" /\ serving'["boot"] = "boot"
      BY <1>a, <1>b, <2>1, <2>3 DEF Names
    <3>2. IsUbi("rootfs")'
      BY <2>1, <2>2 DEF IsUbi
    <3> QED
      BY <1>a, <2>1, <2>3, <3>1, <3>2 DEF SetupInv, Before, Between, After
  <2>4. CASE pc' = "unwind_raised"
    BY <2>4 DEF SetupInv, Before, Between, After
  <2> QED
    BY <1>4, <2>3, <2>4 DEF Replace, Go
<1>5. CASE Unwind
  <2>1. UNCHANGED <<answers, alive, env, detected, medium>> /\ (pc' = "failed" \/ (pc = "unwind" /\ pc' = "done"))
    BY <1>5, QuietFine, <1>0 DEF Quiet, Unwind, choices
  <2> QED
    BY <1>a, <2>1 DEF SetupInv, Before, Between, After
<1>6. CASE Detect
  <2>1. /\ UNCHANGED <<answers, alive, env, medium, serving, staged>> /\ answers = <<>> /\ pc = "detect"
        /\ pc' \in {"detect_flash", "backend"} /\ (pc' = "backend" => detected' = medium)
    BY <1>6, QuietFine, <1>0 DEF Detect, choices, Go
  <2>2. \A i \in 1..staged : serving[Dump[i]] = Dump[i]
    BY <1>a, <2>1 DEF Before
  <2> QED
    BY <2>1, <2>2 DEF SetupInv, Before, Between, After, Told
<1>7. CASE Issue
  <2>1. UNCHANGED <<alive, env, detected, medium, ubi, serving, staged, pc>> /\ answers' = <<>>
    BY <1>0, <1>7, IssueFine DEF flow, choices
  <2> QED
    BY <1>a, <2>1 DEF SetupInv, IsUbi, Told
<1>8. CASE Ends
  <2>1. /\ Driving /\ Resume(answers) /\ UNCHANGED <<alive, env, serving, medium, ubi, staged>> /\ answers' = <<>>
        /\ IF alive THEN Len(answers) = 1 ELSE answers = <<>>
    BY <1>0, <1>8, EndsFine DEF rest, choices
  <2>2. answers \in Seq(Answers)
    BY DEF IInv, ConsoleInv
  <2>3. \A out : Has(answers, out) <=> Told(out)
    <3>1. CASE Len(answers) = 1
      BY <2>2, <3>1, HasOne DEF Told
    <3>2. CASE answers = <<>>
      BY <3>2 DEF Has, Told
    <3> QED
      BY <2>1, <3>1, <3>2
  <2>4. CASE Probed(answers)
    <3>1. /\ pc = "detect_flash" /\ pc' \in {"detect_flash", "backend", "failed"}
          /\ pc' = "backend" => detected' = detected /\ (IF detected = "nand" THEN Told("ok") ELSE ~Told("error"))
      BY <2>3, <2>4 DEF Probed, Go, Fail
    <3>2. pc' = "backend" /\ alive => detected' = medium
      BY <1>a, <2>1, <3>1 DEF Told
    <3>3. \A i \in 1..staged : serving[Dump[i]] = Dump[i]
      BY <1>a, <3>1 DEF Between
    <3> QED
      BY <2>1, <3>1, <3>2, <3>3 DEF SetupInv, Before, Between, After, Told
  <2>5. CASE Networked(answers)
    <3>1. /\ pc \in {"net", "ping"} /\ pc' \in {"ping", "stage", "failed"} /\ detected' = detected
          /\ pc' = "stage" => pc = "ping" /\ Told("ok")
      BY <2>3, <2>5 DEF Networked, Go, Fail
    <3>2. pc' = "stage" => alive /\ env.net
      BY <1>a, <2>1, <3>1 DEF Told
    <3>3. \A i \in 1..staged : serving[Dump[i]] = Dump[i]
      BY <1>a, <3>1 DEF Between
    <3>4. alive => detected = medium
      BY <1>a, <3>1
    <3> QED
      BY <2>1, <3>1, <3>2, <3>3, <3>4 DEF SetupInv, Before, Between, After, Told
  <2>6. CASE Wrote(answers)
    <3>1. pc = "write" /\ pc' = "write" /\ detected' = detected
      BY <2>6 DEF Wrote
    <3> QED
      BY <1>a, <2>1, <3>1 DEF SetupInv, Before, Between, After, Told, IsUbi
  <2>7. CASE WasReset
    <3>1. pc = "write" /\ pc' = "unwind" /\ detected' = detected
      BY <2>7 DEF WasReset, Go
    <3> QED
      BY <1>a, <2>1, <3>1 DEF SetupInv, Before, Between, After, Told
  <2> QED
    BY <2>1, <2>4, <2>5, <2>6, <2>7 DEF Resume
<1>9. CASE CameraStep
  <2>1. /\ Camera /\ alive /\ Head(queue) = Now /\ answers = <<>>
        /\ UNCHANGED <<alive, serving, detected, medium, ubi, staged, pc>> /\ Len(answers') = 1
    BY <1>0, <1>9, CameraFine DEF flow, choices
  <2>2. env.net => env'.net
    BY <1>0, <2>1, RunEffect
  <2>3. pc = "detect_flash" /\ detected # medium => Told("error")' /\ ~Told("ok")'
    <3>1. pc = "detect_flash" /\ detected # medium => Now.op = "absent"
      BY DEF Now, OnFlash, Cmd
    <3> QED
      BY <1>0, <2>1, <3>1, RunEffect
  <2>4. pc = "ping" => (Told("ok")' => env.net)
    <3>1. pc = "ping" => Now.op = "ping"
      BY DEF Now, Cmd
    <3> QED
      BY <1>0, <2>1, <3>1, RunEffect
  <2> QED
    BY <1>a, <2>1, <2>2, <2>3, <2>4 DEF SetupInv, IsUbi
<1>10. CASE Ended \/ UNCHANGED vars
  BY <1>0, <1>10 DEF Ended, vars, console, camera, flow, choices, SetupInv, Told, IsUbi, Fine
<1>11. CASE SpillsEnv
  <2>1. UNCHANGED <<alive, env, answers, detected, medium, ubi, serving, staged, pc>>
    BY <1>11, SpillEffect DEF flow, choices
  <2> QED
    BY <1>a, <2>1 DEF SetupInv, IsUbi, Told
<1> QED
  BY <1>1, <1>2, <1>3, <1>4, <1>5, <1>6, <1>7, <1>8, <1>9, <1>10, <1>11, StepKinds DEF Quiet

\* The camera has run a command of the partition restore is at.
LEMMA HeadRuns ==
  ASSUME IInv, LineInv, SetupInv, CameraStep, Fine, Fine', pc = "write", todo # <<>>, At(Head(todo), step)
  PROVE  RanAt(Head(todo), step)'
<1> DEFINE p == Head(todo)
<1>1. /\ Camera /\ alive /\ waiting /\ Head(queue) = Now /\ answers = <<>>
      /\ UNCHANGED <<alive, serving, detected, medium, ubi, pc, todo, step>>
  BY CameraFine DEF flow, choices
<1>2. p \in Names /\ p \in Parts /\ step \in 1..Len(PartPlan(p)) /\ Now = PartPlan(p)[step] /\ Now.part = p
  <2>1. p \in Names /\ step \in 1..Len(PartPlan(p)) /\ Now = PartPlan(p)[step]
    BY TodoShape DEF IInv, FlowInv, Now
  <2> QED
    BY <2>1, PlanShape, DumpAssumption DEF Names
<1>3. detected = medium /\ env.net /\ env'.net
  BY <1>1, RunEffect DEF SetupInv, After
<1>4. At(p, step)
  OBVIOUS
<1>5. flash \in [Parts -> Contents] /\ env \in Environments
  BY DEF IInv, ConsoleInv
<1>6. \A q : IsUbi(q)' <=> IsUbi(q)
  BY <1>1 DEF IsUbi
<1>7. PartPlan(p)' = PartPlan(p)
  BY <1>1 DEF PartPlan, IsUbi, Ubi, Raw, OnFlash
<1>8. Now.op # "replace"
  BY <1>1 DEF LineInv
<1>9. CASE IsUbi(p)
  <2>1. p = "rootfs" /\ Len(PartPlan(p)) = 9
    BY <1>2, <1>3, <1>9, UbiTable
  <2>2. UbiAt(step)
    BY <1>4, <1>9 DEF At
  <2>3. step \in 1..9
    BY <1>2, <2>1
  <2>4. \A k : At(Head(todo), k)' <=> UbiAt(k)'
    BY <1>1, <1>6, <1>9 DEF At
  <2> HIDE DEF p
  <2>5. CASE step = 1
    BY <1>2, <1>3, <1>8, <1>9, <2>5, UbiTable
  <2>6. CASE step \in {2, 3}
    <3>1. Now.op = "printenv_mtd"
      BY <1>2, <1>3, <1>9, <2>6, UbiTable
    <3>2. UNCHANGED <<ram, flash, env>>
      BY <1>1, <3>1, RunEffect
    <3>3. UbiAt(step)'
      BY <1>1, <2>2, <3>2 DEF UbiAt
    <3> QED
      BY <1>1, <1>2, <1>7, <2>4, <3>1, <3>3 DEF RanAt, p
  <2>7. CASE step = 4
    <3>1. Now.op = "setenv_mtdparts"
      BY <1>2, <1>3, <1>9, <2>7, UbiTable
    <3>2. env' = [env EXCEPT !.mtdparts = TRUE] /\ UNCHANGED <<ram, flash>>
      BY <1>1, <3>1, RunEffect
    <3>3. env'.mtdparts
      BY <1>5, <3>2 DEF Environments
    <3>4. UbiAt(step + 1)'
      BY <1>1, <2>2, <2>7, <3>2, <3>3 DEF UbiAt
    <3> QED
      BY <1>1, <1>2, <1>7, <2>4, <3>1, <3>4 DEF RanAt, p
  <2>8. CASE step \in {5, 6}
    <3>1. Now.op = (IF step = 5 THEN "tftpboot" ELSE "tftp")
      BY <1>2, <1>3, <1>9, <2>8, UbiTable
    <3>2. serving[p] = "ubifs" /\ env.mtdparts
      BY <2>1, <2>2, <2>8 DEF UbiAt
    <3>3. \/ step = 5 /\ Told("unknown")' /\ ram' = ram
          \/ Told("done")' /\ ram' = "ubifs"
      BY <1>1, <1>2, <1>3, <3>1, <3>2, RunEffect
    <3>4. UNCHANGED <<flash, env>>
      BY <1>1, <2>8, <3>1, RunEffect
    <3>5. CASE step = 5 /\ Told("unknown")' /\ ram' = ram
      <4>1. UbiAt(step)'
        BY <1>1, <2>2, <3>4, <3>5 DEF UbiAt
      <4> QED
        BY <1>1, <1>2, <1>7, <2>4, <3>1, <3>5, <4>1 DEF RanAt, p
    <3>6. CASE Told("done")' /\ ram' = "ubifs"
      <4>1. UbiAt(7)'
        BY <1>1, <2>2, <2>8, <3>2, <3>4, <3>6 DEF UbiAt
      <4>2. step + (IF step = 5 THEN 2 ELSE 1) = 7
        BY <2>8
      <4> QED
        BY <1>1, <1>2, <1>7, <2>4, <2>8, <3>1, <3>6, <4>1, <4>2 DEF RanAt, p
    <3> QED
      BY <3>3, <3>5, <3>6
  <2>9. CASE step \in {7, 8, 9}
    <3>1. Now.op = (IF step = 7 THEN "erase" ELSE IF step = 8 THEN "ubi_create" ELSE "ubi_write")
      BY <1>2, <1>3, <1>9, <2>9, UbiTable
    <3>2. /\ ram = "ubifs" /\ (step # 9 => env.mtdparts)
          /\ (step = 8 => flash[p] = "erased") /\ (step = 9 => flash[p] = "volume")
      BY <2>1, <2>2, <2>9 DEF UbiAt
    <3>3. /\ flash' = [flash EXCEPT ![p] = IF step = 7 THEN "erased" ELSE IF step = 8 THEN "volume" ELSE "ubifs"]
          /\ UNCHANGED <<ram, env>>
      BY <1>1, <1>2, <2>9, <3>1, <3>2, RunEffect
    <3>4. flash'["rootfs"] = (IF step = 7 THEN "erased" ELSE IF step = 8 THEN "volume" ELSE "ubifs")
      BY <1>2, <1>5, <2>1, <3>3
    <3>5. UbiAt(step + 1)'
      BY <1>1, <2>9, <3>2, <3>3, <3>4 DEF UbiAt
    <3> QED
      BY <1>1, <1>2, <1>7, <2>4, <2>9, <3>1, <3>5 DEF RanAt, p
  <2> QED
    BY <2>3, <2>5, <2>6, <2>7, <2>8, <2>9
<1>10. CASE ~IsUbi(p)
  <2>1. Len(PartPlan(p)) = 4
    BY <1>2, <1>3, <1>10, RawTable
  <2>2. RawAt(p, step)
    BY <1>4, <1>10 DEF At
  <2>3. step \in 1..4
    BY <1>2, <2>1
  <2>4. \A k : At(Head(todo), k)' <=> RawAt(Head(todo), k)'
    BY <1>1, <1>6, <1>10 DEF At
  <2>5. serving[p] = p /\ p # "none"
    BY <1>2, <1>10 DEF SetupInv, Names
  <2>6. Head(todo)' = p
    BY <1>1
  <2> HIDE DEF p
  <2>7. CASE step \in {1, 2}
    <3>1. Now.op = (IF step = 1 THEN "tftpboot" ELSE "tftp")
      BY <1>2, <1>3, <1>10, <2>7, RawTable
    <3>2. \/ step = 1 /\ Told("unknown")' /\ ram' = ram
          \/ Told("done")' /\ ram' = p
      BY <1>1, <1>2, <1>3, <2>5, <3>1, RunEffect
    <3>3. UNCHANGED <<flash, env>>
      BY <1>1, <2>7, <3>1, RunEffect
    <3>4. CASE step = 1 /\ Told("unknown")' /\ ram' = ram
      <4>1. RawAt(Head(todo), step)'
        BY <1>1, <2>2, <2>6, <3>3, <3>4 DEF RawAt, Fresh
      <4> QED
        BY <1>1, <1>2, <1>7, <2>4, <3>1, <3>4, <4>1 DEF RanAt, p
    <3>5. CASE Told("done")' /\ ram' = p
      <4>1. RawAt(Head(todo), 3)'
        BY <1>1, <2>2, <2>6, <2>7, <3>3, <3>5 DEF RawAt, Fresh
      <4>2. step + (IF step = 1 THEN 2 ELSE 1) = 3
        BY <2>7
      <4> QED
        BY <1>1, <1>2, <1>7, <2>4, <2>7, <3>1, <3>5, <4>1, <4>2 DEF RanAt, p
    <3> QED
      BY <3>2, <3>4, <3>5
  <2>8. CASE step \in {3, 4}
    <3>1. Now.op = (IF step = 3 THEN "erase" ELSE "write")
      BY <1>2, <1>3, <1>10, <2>8, RawTable
    <3>2. ram = p /\ (step = 4 => flash[p] = "erased")
      BY <2>2, <2>8 DEF RawAt
    <3>3. flash'[p] = (IF step = 3 THEN "erased" ELSE p) /\ UNCHANGED <<ram, env>>
      BY <1>1, <1>2, <1>5, <2>8, <3>1, <3>2, RunEffect
    <3>4. RawAt(Head(todo), step + 1)'
      BY <1>1, <2>6, <2>8, <3>2, <3>3 DEF RawAt
    <3> QED
      BY <1>1, <1>2, <1>7, <2>4, <2>8, <3>1, <3>4 DEF RanAt, p
  <2> QED
    BY <2>3, <2>7, <2>8
<1> QED
  BY <1>9, <1>10

\* Going on with the answer of a command of a partition.
LEMMA WroteFine ==
  ASSUME IInv, LineInv, SetupInv, Fine, pc = "write", todo # <<>>, Wrote(answers), Len(answers) = 1,
         RanAt(Head(todo), step), Others, Now.op # "replace",
         UNCHANGED <<flash, ram, env, serving, medium, ubi>>
  PROVE  Others' /\ (todo' # <<>> => At(Head(todo), step)')
<1> DEFINE p == Head(todo)
<1>1. /\ todo \in Todos /\ p \in Names /\ step \in 1..Len(PartPlan(p)) /\ Now = PartPlan(p)[step]
      /\ Len(PartPlan(p)) \in Nat
  BY TodoShape, PlanShape DEF IInv, FlowInv, Now
<1>2. detected = medium /\ detected' = detected
  BY DEF SetupInv, After, Wrote
<1>3. \A out : Has(answers, out) <=> Told(out)
  <2>1. answers \in Seq(Answers)
    BY DEF IInv, ConsoleInv
  <2> QED
    BY <2>1, HasOne DEF Told
<1>4. ASSUME NEW n \in {1, 2}, Advance(n), At(p, step + n), step + n <= Len(PartPlan(p)) + 1
      PROVE  Others' /\ (todo' # <<>> => At(Head(todo), step)')
  BY <1>2, <1>4, GoOn
<1>5. ASSUME Skip, IsUbi(p), At(p, step), step <= 7
      PROVE  Others' /\ (todo' # <<>> => At(Head(todo), step)')
  <2>1. p = "rootfs" /\ ubi
    BY <1>5 DEF IsUbi
  <2>2. Finished(p)
    BY <1>1, <1>5, <2>1 DEF At, UbiAt, Finished
  <2> QED
    BY <1>1, <1>5, <2>2, NextPart DEF Skip
<1>6. CASE Now.op = "tftpboot"
  <2>1. IF Told("unknown") THEN Advance(1) ELSE IF Told("done") THEN Advance(2) ELSE Skip
    BY <1>3, <1>6 DEF Wrote
  <2>2. step + 2 <= Len(PartPlan(p)) + 1
    <3>1. CASE IsUbi(p)
      <4>1. Len(PartPlan(p)) = 9 /\ PartPlan(p)[9].op = "ubi_write"
        BY <1>1, <1>2, <3>1, UbiTable
      <4>2. step # 9
        BY <1>1, <1>6, <4>1
      <4> QED
        BY <1>1, <4>1, <4>2
    <3>2. CASE ~IsUbi(p)
      <4>1. Len(PartPlan(p)) = 4 /\ PartPlan(p)[4].op = "write"
        BY <1>1, <1>2, <3>2, RawTable
      <4>2. step # 4
        BY <1>1, <1>6, <4>1
      <4> QED
        BY <1>1, <4>1, <4>2
    <3> QED
      BY <3>1, <3>2
  <2>3. (Told("unknown") /\ At(p, step)) \/ (Told("done") /\ At(p, step + 2))
    BY <1>1, <1>6 DEF RanAt
  <2>4. CASE Told("unknown") /\ At(p, step)
    <3>1. At(p, step + 1)
      <4>1. CASE IsUbi(p)
        <5>1. step = 5
          BY <1>1, <1>2, <1>6, <4>1, UbiWhere
        <5> QED
          BY <2>4, <4>1, <5>1 DEF At, UbiAt
      <4>2. CASE ~IsUbi(p)
        <5>1. step = 1
          BY <1>1, <1>2, <1>6, <4>2, RawWhere
        <5> QED
          BY <2>4, <4>2, <5>1 DEF At, RawAt
      <4> QED
        BY <4>1, <4>2
    <3>2. step + 1 <= Len(PartPlan(p)) + 1
      BY <1>1
    <3> QED
      BY <1>4, <2>1, <2>4, <3>1, <3>2
  <2>5. CASE Told("done") /\ At(p, step + 2)
    <3>1. ~Told("unknown")
      BY <2>5 DEF Told
    <3> QED
      BY <1>4, <2>1, <2>2, <2>5, <3>1
  <2> QED
    BY <2>3, <2>4, <2>5
<1>7. CASE Now.op = "tftp"
  <2>1. Told("done") /\ At(p, step + 1)
    BY <1>1, <1>7 DEF RanAt
  <2>2. Advance(1)
    BY <1>3, <1>7, <2>1 DEF Wrote
  <2>3. step + 1 <= Len(PartPlan(p)) + 1
    BY <1>1
  <2> QED
    BY <1>4, <2>1, <2>2, <2>3
<1>8. CASE Now.op = "printenv_mtd"
  <2>1. IsUbi(p) /\ step \in {2, 3}
    BY <1>1, <1>2, <1>8, UbiWhere, RawWhere
  <2>2. Len(PartPlan(p)) = 9 /\ PartPlan(p)[3].op = "printenv_mtd" /\ PartPlan(p)[4].op = "setenv_mtdparts"
    BY <1>1, <1>2, <2>1, UbiTable
  <2>3. At(p, step)
    BY <1>1, <1>8 DEF RanAt
  <2>4. At(p, 3) /\ At(p, 4)
    BY <2>1, <2>3 DEF At, UbiAt
  <2>5. IF Told("mtdparts") THEN Advance(IF PartPlan(p)[step + 1].op = "printenv_mtd" THEN 2 ELSE 1)
        ELSE IF PartPlan(p)[step + 1].op = "printenv_mtd" THEN Advance(1) ELSE Skip
    BY <1>3, <1>8 DEF Wrote
  <2>6. CASE step = 2
    <3>1. Advance(1) \/ Advance(2)
      BY <2>2, <2>5, <2>6
    <3> QED
      BY <1>4, <2>2, <2>4, <2>6, <3>1
  <2>7. CASE step = 3
    <3>1. Advance(1) \/ Skip
      BY <2>2, <2>5, <2>7
    <3> QED
      BY <1>4, <1>5, <2>1, <2>2, <2>3, <2>4, <2>7, <3>1
  <2> QED
    BY <2>1, <2>6, <2>7
<1>9. CASE Now.op \notin {"tftpboot", "tftp", "printenv_mtd"}
  <2>1. At(p, step + 1)
    BY <1>1, <1>9 DEF RanAt
  <2>2. step + 1 <= Len(PartPlan(p)) + 1
    BY <1>1
  <2>3. CASE Advance(1)
    BY <1>4, <2>1, <2>2, <2>3
  <2>4. CASE Now.op = "setenv_mtdparts" /\ Skip
    <3>1. IsUbi(p) /\ step = 4
      BY <1>1, <1>2, <2>4, UbiWhere, RawWhere
    <3>2. p = "rootfs" /\ ubi /\ flash[p] = "old"
      BY <2>1, <3>1 DEF IsUbi, At, UbiAt
    <3>3. Finished(p)
      BY <3>2 DEF Finished
    <3> QED
      BY <1>1, <2>4, <3>3, NextPart DEF Skip
  <2> QED
    BY <1>9, <2>3, <2>4 DEF Wrote
<1> QED
  BY <1>6, <1>7, <1>8, <1>9

LEMMA PartsStep ==
  ASSUME IInv, LineInv, SetupInv, PartsInv, [Next]_vars
  PROVE  PartsInv'
<1> SUFFICES ASSUME Fine', Written' PROVE PartsInv'
  BY DEF PartsInv
<1>0. Fine
  BY FineBefore DEF LineInv
<1>a. Written => /\ Others /\ (pc \in {"unwind", "done"} => todo = <<>>)
                 /\ todo # <<>> => IF pc # "write" \/ answers = <<>> THEN At(Head(todo), step) ELSE RanAt(Head(todo), step)
  BY <1>0 DEF PartsInv
<1>b. todo \in Todos /\ step \in Nat /\ (todo # <<>> => Head(todo) \in Names)
  BY TodoShape DEF IInv, FlowInv
<1>c. UNCHANGED <<medium, ubi>>
  BY StepKinds DEF Quiet, Detect, Issue, Ends, CameraStep, SpillsEnv, vars, flow, choices, rest, LoadDump, Resolve, PowerSetup,
     PowerOff, OpenLink, Burn, Backend, Stage, Serve, Replace, Unwind, Ended
<1>1. ASSUME pc \in Before \cup Between, UNCHANGED <<todo, step>>,
             \A p \in Names : flash'[p] = flash[p] \/ (p = "boot" /\ flash'[p] = "env"),
             pc' \in Before \cup Between \/ (pc' = "write" /\ answers' = <<>>)
      PROVE  PartsInv'
  <2>1. step = 1 /\ todo # <<>>
    BY <1>1 DEF IInv, FlowInv
  <2>2. Others /\ (todo # <<>> => At(Head(todo), step))
    BY <1>a, <1>1 DEF Written, Before, Between
  <2>3. todo # <<>> => Fresh(Head(todo))
    BY <1>b, <2>1, <2>2, AtOne
  <2>4. Others'
    BY <1>b, <1>c, <1>1, <2>1, <2>2, OthersSpilt
  <2>5. todo' # <<>> => At(Head(todo), step)'
    BY <1>b, <1>1, <2>1, <2>3 DEF At, IsUbi, RawAt, UbiAt, Fresh
  <2>6. pc' \notin {"unwind", "done"} /\ (pc' # "write" \/ answers' = <<>>)
    BY <1>1 DEF Before, Between
  <2> QED
    BY <2>4, <2>5, <2>6 DEF PartsInv
<1>2. CASE LoadDump \/ Resolve \/ PowerSetup \/ PowerOff \/ OpenLink \/ Burn \/ Backend \/ Detect \/ Stage \/ Serve
  <2>1. UNCHANGED <<flash, answers>> /\ answers = <<>>
    BY <1>0, <1>2, QuietFine DEF Quiet
  <2>2. /\ UNCHANGED <<todo, step>> /\ pc \in Before \cup Between
        /\ pc' \in Before \cup Between \cup {"write", "failed"}
    BY <1>2 DEF LoadDump, Resolve, PowerSetup, PowerOff, OpenLink, Burn, Backend, Stage, Serve, Detect,
                Go, Fail, Before, Between
  <2>3. pc' # "failed"
    BY DEF Written, Before, Between
  <2> QED
    BY <1>1, <2>1, <2>2, <2>3
<1>3. CASE Replace
  <2>1. UNCHANGED <<answers, ram, flash, env, detected>> /\ answers = <<>> /\ pc = "write" /\ Now.op = "replace"
    BY <1>0, <1>3, QuietFine DEF Quiet, Replace
  <2>2. detected = medium
    BY <1>0, <2>1 DEF SetupInv, After
  <2>3. todo # <<>> /\ Head(todo) = "rootfs" /\ IsUbi("rootfs") /\ step = 1
    BY <2>1, <2>2, ReplaceWhere
  <2>4. pc' # "unwind_raised"
    BY DEF Written, Before, Between
  <2>5. /\ serving' = [serving EXCEPT !["rootfs"] = "ubifs"] /\ pc' = pc
        /\ Advance(1) \/ Advance(3)
    BY <1>3, <2>4 DEF Replace, Go
  <2>6. Len(PartPlan(Head(todo))) = 9
    BY <1>b, <2>2, <2>3, UbiTable
  <2>7. todo' = todo /\ step' \in {2, 4}
    BY <2>3, <2>5, <2>6 DEF Advance
  <2>8. serving'["rootfs"] = "ubifs"
    BY <2>5, DumpAssumption DEF IInv, ConsoleInv
  <2>9. Others /\ At(Head(todo), step)
    BY <1>a, <2>1, <2>3 DEF Written
  <2>10. flash["rootfs"] = "old"
    BY <2>3, <2>9 DEF At, UbiAt
  <2>11. IsUbi("rootfs")'
    BY <1>c, <2>1, <2>3 DEF IsUbi
  <2>12. At(Head(todo), step)'
    BY <2>1, <2>3, <2>7, <2>8, <2>10, <2>11 DEF At, UbiAt
  <2>13. Others'
    BY <1>b, <1>c, <2>1, <2>7, <2>9, OthersKept
  <2> QED
    BY <2>1, <2>5, <2>12, <2>13 DEF PartsInv
<1>4. CASE Unwind \/ Ended \/ UNCHANGED vars
  <2>1. CASE UNCHANGED vars
    <3>1. UNCHANGED <<todo, step, flash, pc, answers, detected, medium, ubi, ram, env, serving>>
      BY <2>1 DEF vars, console, camera, flow, choices
    <3> QED
      BY <1>0, <1>a, <3>1 DEF PartsInv, Written, Others, Finished, Image, At, IsUbi, RawAt, UbiAt, Fresh, RanAt, PartPlan, Ubi, Raw,
         OnFlash, Told
  <2>2. CASE Ended
    BY <2>1, <2>2 DEF Ended
  <2>3. CASE Unwind
    <3>1. pc = "unwind" /\ pc' = "done" /\ todo' = todo
      BY <2>3 DEF Unwind, Written, Before, Between
    <3>2. UNCHANGED flash
      BY <1>0, <2>3, QuietFine DEF Quiet
    <3>3. Others /\ todo = <<>>
      BY <1>a, <3>1 DEF Written
    <3>4. Others'
      BY <1>b, <1>c, <3>1, <3>2, <3>3, OthersKept
    <3> QED
      BY <3>1, <3>3, <3>4 DEF PartsInv
  <2> QED
    BY <1>4, <2>1, <2>2, <2>3
<1>5. CASE Issue
  <2>1. UNCHANGED <<todo, step, flash, pc, detected, ram, env, serving>> /\ answers' = <<>> /\ answers = <<>> /\ Driving
    BY <1>0, <1>5, IssueFine DEF flow, choices
  <2>2. Others /\ (todo # <<>> => At(Head(todo), step)) /\ pc \notin {"unwind", "done"}
    BY <1>a, <2>1 DEF Written, Driving, Between
  <2>3. Others'
    BY <1>b, <1>c, <2>1, <2>2, OthersKept
  <2>4. todo' # <<>> => At(Head(todo), step)'
    BY <1>c, <2>1, <2>2 DEF At, IsUbi, RawAt, UbiAt, Fresh
  <2> QED
    BY <2>1, <2>2, <2>3, <2>4 DEF PartsInv
<1>6. CASE Ends
  <2>1. /\ Driving /\ Resume(answers) /\ UNCHANGED <<alive, env, serving, ram, flash>> /\ answers' = <<>> /\ waiting
        /\ IF alive THEN Len(answers) = 1 ELSE answers = <<>>
    BY <1>0, <1>6, EndsFine DEF rest
  <2>2. CASE Probed(answers) \/ Networked(answers)
    <3>1. pc \in Between /\ pc' \in Between \cup {"failed"} /\ UNCHANGED <<todo, step>>
      BY <2>2 DEF Probed, Networked, Go, Fail, Between
    <3>2. pc' # "failed"
      BY DEF Written, Before, Between
    <3> QED
      BY <1>1, <2>1, <3>1, <3>2
  <2>3. CASE Wrote(answers)
    <3>1. pc = "write" /\ pc' = "write" /\ todo # <<>>
      BY <2>3 DEF Wrote
    <3>2. alive
      BY <1>0, <3>1 DEF SetupInv, After
    <3>3. Len(answers) = 1 /\ answers # <<>>
      BY <2>1, <3>2
    <3>4. Others /\ RanAt(Head(todo), step)
      BY <1>a, <3>1, <3>3 DEF Written
    <3>5. Now.op # "replace"
      BY <2>1 DEF LineInv
    <3>6. Others' /\ (todo' # <<>> => At(Head(todo), step)')
      BY <1>0, <1>c, <2>1, <2>3, <3>1, <3>3, <3>4, <3>5, WroteFine
    <3> QED
      BY <2>1, <3>1, <3>6 DEF PartsInv
  <2>4. CASE WasReset
    <3>1. pc = "write" /\ pc' = "unwind" /\ todo = <<>> /\ todo' = todo
      BY <2>4 DEF WasReset, Go
    <3>2. Others
      BY <1>a, <3>1 DEF Written
    <3>3. Others'
      BY <1>b, <1>c, <2>1, <3>1, <3>2, OthersKept
    <3> QED
      BY <3>1, <3>3 DEF PartsInv
  <2> QED
    BY <2>1, <2>2, <2>3, <2>4 DEF Resume
<1>7. CASE CameraStep
  <2>1. /\ Camera /\ alive /\ waiting /\ Driving /\ queue = <<Now>> /\ Head(queue) = Now /\ answers = <<>>
        /\ Len(answers') = 1 /\ UNCHANGED <<todo, step, pc>>
    BY <1>0, <1>7, CameraFine DEF flow
  <2>2. Now \in Commands /\ (Touches(Now) => todo # <<>> /\ Now.part = Head(todo))
    BY <2>1, NowTyped
  <2>3. flash \in [Parts -> Contents] /\ Names \subseteq Parts
    BY DumpAssumption DEF IInv, ConsoleInv, Names
  <2>4. \/ flash' = flash
        \/ Touches(Now) /\ \E x \in Contents : flash' = [flash EXCEPT ![Now.part] = x]
    BY <2>1, CameraEffect
  <2>5. \A p \in Names : flash'[p] = flash[p] \/ (todo # <<>> /\ p = Head(todo))
    BY <2>2, <2>3, <2>4
  <2>6. Others /\ pc \notin {"unwind", "done"}
    BY <1>a, <2>1 DEF Written, Driving, Between
  <2>7. Others'
    BY <1>b, <1>c, <2>1, <2>5, <2>6, OthersKept
  <2>8. CASE pc = "write"
    <3>1. todo # <<>> => RanAt(Head(todo), step)'
      BY <1>0, <1>7, <1>a, <2>1, <2>8, HeadRuns DEF Written
    <3>2. answers' # <<>>
      BY <2>1
    <3> QED
      BY <2>1, <2>6, <2>7, <2>8, <3>1, <3>2 DEF PartsInv
  <2>9. CASE pc # "write"
    <3>1. pc \in Between
      BY <2>1, <2>9 DEF Driving, Between
    <3>2. ~Touches(Now)
      BY <2>1, <2>9 DEF Now, Driving, Cmd, OnFlash, Touches
    <3>3. flash' = flash
      BY <2>4, <3>2
    <3> QED
      BY <1>1, <2>1, <3>1, <3>3
  <2> QED
    BY <2>8, <2>9
<1>8. CASE SpillsEnv
  <2>1. /\ alive /\ waiting /\ Driving /\ answers = <<>>
        /\ Now.op \in {"setenv_net", "setenv_mtdparts", "ping", "tftpboot", "tftp"}
    BY <1>0, <1>8, SpillFine
  <2>2. UNCHANGED <<todo, step, pc, detected, answers, ram, env, serving>>
    BY <1>8, SpillEffect DEF flow
  <2>3. \A p \in Names : flash'[p] = flash[p] \/ (p = "boot" /\ flash'[p] = "env")
    BY <1>8, SpillEffect, DumpAssumption DEF Names
  <2>4. CASE pc # "write"
    <3>1. pc \in Between
      BY <2>1, <2>4 DEF Driving, Between
    <3> QED
      BY <1>1, <2>2, <2>3, <3>1
  <2>5. CASE pc = "write"
    <3>1. todo # <<>>
      BY <2>1, <2>5 DEF Now, Cmd
    <3>2. Others /\ At(Head(todo), step)
      BY <1>a, <2>1, <2>5, <3>1 DEF Written
    <3>3. detected = medium
      BY <1>0, <2>5 DEF SetupInv, After, LineInv
    <3>4. Head(todo) \in Names /\ step \in 1..Len(PartPlan(Head(todo))) /\ Now = PartPlan(Head(todo))[step]
      BY <1>b, <2>5, <3>1 DEF IInv, FlowInv, Now
    <3>5. Others'
      BY <1>b, <1>c, <2>2, <2>3, <3>1, <3>2, OthersSpilt
    <3>6. CASE Head(todo) # "boot"
      <4>1. flash'[Head(todo)] = flash[Head(todo)]
        BY <2>3, <3>4, <3>6
      <4>2. IsUbi(Head(todo)) => Head(todo) = "rootfs"
        BY DEF IsUbi
      <4>3. At(Head(todo), step)'
        BY <1>c, <2>2, <3>2, <4>1, <4>2 DEF At, IsUbi, RawAt, UbiAt, Fresh
      <4> QED
        BY <2>1, <2>2, <2>5, <3>5, <4>3 DEF PartsInv
    <3>7. CASE Head(todo) = "boot"
      <4>1. ~IsUbi("boot")
        BY DEF IsUbi
      <4>2. step \in {1, 2}
        <5>1. Len(PartPlan("boot")) = 4 /\ PartPlan("boot")[3].op = "erase" /\ PartPlan("boot")[4].op = "write"
          BY <3>3, <3>4, <3>7, <4>1, RawTable
        <5> QED
          BY <2>1, <3>4, <3>7, <5>1
      <4>3. RawAt("boot", step) /\ Fresh("boot")
        BY <3>2, <3>7, <4>1, <4>2 DEF At, RawAt
      <4>4. Fresh("boot")'
        BY <2>3, <4>3 DEF Fresh, Names
      <4>5. At(Head(todo), step)'
        BY <1>c, <2>2, <3>7, <4>1, <4>2, <4>4 DEF At, IsUbi, RawAt
      <4> QED
        BY <2>1, <2>2, <2>5, <3>5, <4>5 DEF PartsInv
    <3> QED
      BY <3>6, <3>7
  <2> QED
    BY <2>4, <2>5
<1> QED
  BY <1>2, <1>3, <1>4, <1>5, <1>6, <1>7, <1>8, StepKinds DEF Quiet

---------------------------------------------------------------------------
(* The theorems.                                                           *)

LEMMA InitInv == Init => IInv
<1> SUFFICES ASSUME Init
             PROVE  IInv
  OBVIOUS
<1>1. /\ mode = "none" /\ alive \in BOOLEAN /\ queue = <<>> /\ answers = <<>> /\ waiting = FALSE /\ late = 0
      /\ serving = [p \in Parts |-> "none"] /\ ram = "bad" /\ flash = [p \in Parts |-> "old"]
  BY DEF Init, ConsoleInit
<1>2. env \in Environments
  BY DEF Init, ConsoleInit, Environments
<1>3. ConsoleInv
  <2>1. queue \in Seq(Commands) /\ answers \in Seq(Answers) /\ Len(queue) = 0 /\ Len(answers) = 0
    BY <1>1
  <2>2. flash \in [Parts -> Contents] /\ ram \in Contents /\ serving \in [Parts -> Parts \cup {"none", "ubifs"}]
    BY <1>1 DEF Contents
  <2>3. late \in 0..MaxLate /\ Len(queue) + Len(answers) <= late + (IF waiting THEN 1 ELSE 0)
    BY <1>1, <2>1, ConsoleAssumption
  <2>4. mode \in {"none", "shell", "download"} /\ waiting \in BOOLEAN
    BY <1>1
  <2> QED
    BY <1>1, <1>2, <2>1, <2>2, <2>3, <2>4 DEF ConsoleInv
<1>4. FlowInv
  BY DEF Init, FlowInv, PCs, Before, Between, Todos, WriteOrder, PartPlan, IsUbi, Ubi, Raw, OnFlash, Cmd
<1>5. PowerInv
  BY <1>1 DEF Init, PowerInv
<1>6. OrderInv
  BY <1>1, DumpAssumption DEF OrderInv, Untouched
<1> QED
  BY <1>3, <1>4, <1>5, <1>6 DEF IInv

LEMMA Invariance == Spec => []IInv
<1>1. IInv /\ [Next]_vars => IInv'
  BY ConsoleStep, FlowStep, PowerStep, OrderStep DEF IInv
<1> QED
  BY <1>1, InitInv, PTL DEF Spec

\* Every variable keeps its type; at most one command more than have missed
\* their timeout is with the camera.
THEOREM TypeCorrect == Spec => []TypeOK
<1>1. IInv => TypeOK
  <2> SUFFICES ASSUME IInv
               PROVE  TypeOK
    OBVIOUS
  <2>1. Len(queue) <= MaxLate + 1 /\ Len(answers) <= MaxLate + 1 /\ late \in 0..MaxLate
    <3>1. /\ Len(queue) \in Nat /\ Len(answers) \in Nat /\ late \in 0..MaxLate
          /\ Len(queue) + Len(answers) <= late + (IF waiting THEN 1 ELSE 0)
      BY DEF IInv, ConsoleInv
    <3> QED
      BY <3>1, ConsoleAssumption
  <2>2. Len(Dump) = 3
    BY DEF Dump
  <2> QED
    BY <2>1, <2>2 DEF TypeOK, IInv, ConsoleInv, FlowInv, Contents, PCs, Before, Between
<1> QED
  BY <1>1, Invariance, PTL

\* Once the erase of the boot partition has begun no other partition changes,
\* however late answers and commands get (write_order, cli/app.py:3471).
THEOREM BootIsLastHolds == Spec => BootIsLast
<1>1. ASSUME IInv, [Next]_vars, flash["boot"] \notin Untouched, NEW p \in Parts \ {"boot"}
      PROVE  flash'[p] = flash[p]
  <2> USE DEF IInv
  <2>1. CASE Quiet
    BY <1>1, <2>1, QuietEffect DEF console, camera
  <2>2. CASE Detect \/ UNCHANGED vars
    BY <2>2 DEF Detect, DetectMode, vars, console, camera
  <2>3. CASE Issue
    BY <1>1, <2>3, SendEffect DEF Issue
  <2>4. CASE Ends
    BY <1>1, <2>4, OverEffect DEF Ends
  <2>5. CASE CameraStep
    <3>1. Camera
      BY <2>5 DEF CameraStep
    <3>2. queue # <<>> /\ queue \in Seq(Commands) /\ flash \in [Parts -> Contents]
      BY <1>1, <3>1, CameraEffect DEF ConsoleInv
    <3>3. Head(queue) = queue[1] /\ Len(queue) >= 1 /\ Len(queue) \in Nat
      BY <3>2
    <3>4. Touches(Head(queue)) => Head(queue).part = "boot"
      BY <1>1, <3>3 DEF OrderInv, OnOther
    <3>5. \/ flash' = flash
          \/ /\ Touches(Head(queue))
             /\ \E x \in Contents : flash' = [flash EXCEPT ![Head(queue).part] = x]
      BY <1>1, <3>1, CameraEffect
    <3> QED
      BY <1>1, <3>2, <3>4, <3>5
  <2>6. CASE SpillsEnv
    BY <1>1, <2>6, SpillEffect
  <2> QED
    BY <1>1, <2>1, <2>2, <2>3, <2>4, <2>5, <2>6, StepKinds
<1>2. IInv /\ [Next]_vars =>
        [flash["boot"] \notin {"old", "env"} => \A p \in Parts \ {"boot"} : flash'[p] = flash[p]]_vars
  BY <1>1 DEF Untouched
<1> QED
  BY <1>2, Invariance, PTL DEF Spec, BootIsLast

\* However restore ends, no server is left running and nothing has been erased
\* in a camera without power; a complete restore has switched the camera on
\* and closed what it opened (the finally blocks of _restore_async).
THEOREM LeftInOrderHolds == Spec => []LeftInOrder
<1>1. IInv => LeftInOrder
  BY DEF IInv, PowerInv, LeftInOrder
<1> QED
  BY <1>1, Invariance, PTL

\* A restore in which nothing goes wrong and no answer is late leaves the dump
\* in the flash, the rootfs of a raw UBI dump unpacked, and skips at most a UBI
\* partition that no layout names, which stays as it was (_restore_async).
THEOREM CleanRestoreHolds == Spec => []CleanRestore
<1>1. Init => CleanInv
  <2> SUFFICES ASSUME Init PROVE CleanInv
    OBVIOUS
  <2>1. /\ waiting = FALSE /\ answers = <<>> /\ faults = 0 /\ flash = [p \in Parts |-> "old"] /\ staged = 0
        /\ pc = "prepare" /\ todo = <<"kernel", "rootfs", "boot">> /\ step = 1
    BY DEF Init, ConsoleInit, WriteOrder
  <2>2. \A p \in Names : flash[p] = "old"
    BY <2>1, DumpAssumption DEF Names
  <2>3. LineInv
    BY <2>1 DEF LineInv
  <2>4. SetupInv
    BY <2>1 DEF SetupInv, After, Told
  <2>5. Head(todo) = "kernel" /\ Others
    BY <2>1, <2>2 DEF Others, Names, Fresh
  <2>6. At(Head(todo), step)
    BY <2>1, <2>2, <2>5, AtOne DEF Names, Fresh
  <2> QED
    BY <2>1, <2>3, <2>4, <2>5, <2>6 DEF CleanInv, PartsInv
<1>2. IInv /\ CleanInv /\ [Next]_vars => CleanInv'
  BY LineStep, SetupStep, PartsStep DEF CleanInv
<1>3. CleanInv => CleanRestore
  <2>1. \A i \in DOMAIN Dump : Dump[i] \in Names
    BY DEF Dump, Names
  <2> QED
    BY <2>1 DEF CleanInv, PartsInv, Written, Fine, Others, Finished, CleanRestore
<1> QED
  BY <1>1, <1>2, <1>3, Invariance, PTL DEF Spec

=============================================================================
