------------------------------ MODULE Restore ------------------------------
(***************************************************************************)
(* defib restore (_restore_async in src/src/defib/cli/app.py): load U-Boot *)
(* into the camera's RAM, find out which flash it has, serve the files of  *)
(* a dump by TFTP and make U-Boot write them, the boot partition last.     *)
(* A partition that fails is skipped with a message.                       *)
(***************************************************************************)
EXTENDS UBootConsole

CONSTANT
  Powers        \* power controllers, of "none", "poe" and "rack"

ASSUME PowersAssumption == Powers \subseteq {"none", "poe", "rack"}
ASSUME DumpAssumption == {"boot", "kernel", "rootfs"} \subseteq Parts

VARIABLES
  medium,       \* the camera's flash: "nand", "nor" or "emmc"
  ubi,          \* is the rootfs of the dump a raw UBI image?
  arg,          \* is there an --mtdparts?
  power, on,    \* the power controller; does the camera have power?
  pc, detected, \* where _restore_async is; detected_flash
  pings, todo, step,   \* ping attempts; partitions left; next command of the first
  pod,          \* use_pod_tftp
  held, staged, \* "power", "transport" and "server"; number of files in the pod
  cleanup       \* has the AsyncExitStack been given the pod's clearing?

choices == <<medium, ubi, arg, power>>
flow == <<choices, on, pc, detected, pings, todo, step, pod, held, staged, cleanup>>
vars == <<console, serving, flow>>

Dump == <<"boot", "kernel", "rootfs">>

\* Mutant: the partitions are written in the order of the dump.
WriteOrder_AsFound == Dump

WriteOrder == <<"kernel", "rootfs", "boot">>

IsUbi(p) == detected = "nand" /\ ubi /\ p = "rootfs"
Image(p) == IF medium = "nand" /\ ubi /\ p = "rootfs" THEN "ubifs" ELSE p

OnFlash(op, p) == Cmd(IF detected = medium THEN op ELSE "absent", p)

\* Mutant: written without an erase.
Raw_NoErase(p) == << Cmd("tftpboot", p), Cmd("tftp", p), OnFlash("write", p) >>

Raw(p) ==
  << Cmd("tftpboot", p), Cmd("tftp", p), OnFlash("erase", p), OnFlash("write", p) >>

\* The layout, from --mtdparts or from one of two environment variables, then
\* TFTP, erase, ubi part, ubi create, ubi write.
Ubi(p) ==
  << Cmd("replace", p), Cmd("printenv_mtd", p), Cmd("printenv_mtd", p), Cmd("setenv_mtdparts", p),
     Cmd("tftpboot", p), Cmd("tftp", p), OnFlash("erase", p),
     OnFlash("ubi_create", p), OnFlash("ubi_write", p) >>

PartPlan(p) == IF IsUbi(p) THEN Ubi(p) ELSE Raw(p)

\* The command _restore_async is at.
Now ==
  IF pc = "detect_flash" THEN OnFlash("present", "boot")
  ELSE IF pc = "net" THEN Cmd("setenv_net", "boot")
  ELSE IF pc = "ping" THEN Cmd("ping", "boot")
  ELSE IF todo = <<>> THEN Cmd("reset", "boot")
  ELSE PartPlan(Head(todo))[step]

Init ==
  /\ ConsoleInit("old") /\ env.eth = "own" /\ hasCrc = TRUE
  /\ medium \in {"nand", "nor", "emmc"} /\ ubi \in BOOLEAN /\ (ubi => medium = "nand")
  /\ arg \in BOOLEAN /\ (arg => ubi)
  /\ power \in Powers /\ on = TRUE
  /\ pc = "prepare" /\ detected = "nand" /\ pings = 0
  /\ todo = WriteOrder /\ step = 1
  /\ pod = FALSE /\ held = {} /\ staged = 0 /\ cleanup = FALSE

---------------------------------------------------------------------------
(* Phase 1: U-Boot into RAM.                                               *)

Go(to) == pc' = to
Fail == pc' = "failed"

\* The dump, a directory of mtdN files or an ipctool backup.
LoadDump ==
  /\ pc = "prepare" /\ (Go("uboot") \/ Fail)
  /\ UNCHANGED <<console, serving, choices, on, detected, pings, todo, step, pod, held, staged, cleanup>>

\* The U-Boot binary, cached or downloaded, and the two IP addresses.
Resolve ==
  /\ pc = "uboot" /\ (Go("power") \/ Fail)
  /\ UNCHANGED <<console, serving, choices, on, detected, pings, todo, step, pod, held, staged, cleanup>>

\* The controller, of a kind restore can use, and, for RouterOS, its port.
PowerSetup ==
  /\ pc = "power"
  /\ \/ Go(IF power = "poe" THEN "power_off" ELSE "link")
        /\ held' = IF power = "none" THEN held ELSE held \cup {"power"}
     \/ Fail /\ UNCHANGED held
  /\ UNCHANGED <<console, serving, choices, on, detected, pings, todo, step, pod, staged, cleanup>>

PowerOff ==
  /\ pc = "power_off"
  /\ \/ Go("link") /\ on' = FALSE
     \/ Fail /\ UNCHANGED on
  /\ UNCHANGED <<console, serving, choices, detected, pings, todo, step, pod, held, staged, cleanup>>

\* create_transport; with a pod only after its fastboot.
OpenLink ==
  /\ pc = "link"
  /\ \/ power # "rack" /\ held' = held \cup {"transport"} /\ Go("burn")
     \/ power = "rack" /\ UNCHANGED held /\ Go("burn")
     \/ UNCHANGED held /\ Fail
  /\ UNCHANGED <<console, serving, choices, on, detected, pings, todo, step, pod, staged, cleanup>>

\* Mutant: the session runs and nobody switches the port on.
Burn_NoPowerOn ==
  /\ pc = "burn"
  /\ Go("detect") /\ held' = held \cup {"transport"}
  /\ UNCHANGED <<console, serving, choices, on, detected, pings, todo, step, pod, staged, cleanup>>

\* session.run, started before power_on; or run_rack_fastboot and then the
\* transport.
Burn ==
  /\ pc = "burn"
  /\ \/ Go("detect") /\ on' = TRUE /\ held' = held \cup {"transport"}
     \/ Fail /\ on' = TRUE /\ held' = {}
     \/ power = "poe" /\ Fail /\ UNCHANGED <<on, held>>           \* power_on raised
     \/ power = "rack" /\ Fail /\ UNCHANGED <<on, held>>          \* no transport
  /\ UNCHANGED <<console, serving, choices, detected, pings, todo, step, pod, staged, cleanup>>

Detect ==
  /\ pc = "detect" /\ DetectMode
  /\ \/ Go("detect_flash") /\ UNCHANGED detected
     \/ Go("backend") /\ detected' = medium                       \* --flash-type
  /\ UNCHANGED <<serving, choices, on, pings, todo, step, pod, held, staged, cleanup>>

---------------------------------------------------------------------------
(* The TFTP backend.                                                       *)

Backend ==
  /\ pc = "backend"
  /\ \E via \in {"auto", "host", "pod"} :
       \/ via = "pod" /\ power # "rack" /\ Fail /\ held' = held \ {"transport"} /\ UNCHANGED pod
       \/ via # "host" /\ power = "rack" /\ Go("net") /\ pod' = TRUE /\ UNCHANGED held
       \/ via # "pod" /\ Go("net") /\ UNCHANGED <<pod, held>>      \* or too large for the pod
  /\ UNCHANGED <<console, serving, choices, on, detected, pings, todo, step, staged, cleanup>>

\* The pod is cleared, the clearing registered, then one tftp_put after
\* another.  All of this comes before the try whose finally runs the stack.
Stage ==
  /\ pc = "stage" /\ pod
  /\ \/ ~cleanup /\ cleanup' = TRUE /\ UNCHANGED <<pc, staged, serving>>
     \/ /\ cleanup /\ staged < Len(Dump) /\ staged' = staged + 1
        /\ serving' = [serving EXCEPT ![Dump[staged + 1]] = Dump[staged + 1]]
        /\ UNCHANGED <<pc, cleanup>>
     \/ staged < Len(Dump) /\ Fail /\ UNCHANGED <<staged, serving, cleanup>>
     \/ staged = Len(Dump) /\ Go("write") /\ UNCHANGED <<staged, serving, cleanup>>
  /\ UNCHANGED <<console, choices, on, detected, pings, todo, step, pod, held>>

Serve ==
  /\ pc = "stage" /\ ~pod
  /\ \/ /\ Go("write") /\ held' = held \cup {"server"}
        /\ serving' = [p \in Parts |-> p]
     \/ Fail /\ UNCHANGED <<held, serving>>
  /\ UNCHANGED <<console, choices, on, detected, pings, todo, step, pod, staged, cleanup>>

---------------------------------------------------------------------------
(* Driving U-Boot.                                                         *)

Driving == pc \in {"detect_flash", "net", "ping", "write"}

rest == <<serving, choices, on, pod, staged, cleanup>>

\* nand info, sf probe 0, mmc dev 0: silence is not a NAND, and not an error.
Probed(resp) ==
  LET there == IF detected = "nand" THEN Has(resp, "ok") ELSE ~Has(resp, "error") IN
  /\ pc = "detect_flash"
  /\ \/ there /\ Go("backend") /\ UNCHANGED <<detected, held>>
     \/ /\ ~there /\ detected # "emmc" /\ UNCHANGED <<pc, held>>
        /\ detected' = IF detected = "nand" THEN "nor" ELSE "emmc"
     \/ ~there /\ detected = "emmc" /\ Fail /\ held' = held \ {"transport"} /\ UNCHANGED detected
  /\ UNCHANGED <<pings, todo, step>>

\* Mutant: pings until one is answered.
Networked_PingForever(resp) ==
  /\ \/ pc = "net" /\ Go("ping")
     \/ pc = "ping" /\ Has(resp, "ok") /\ Go("stage")
     \/ pc = "ping" /\ ~Has(resp, "ok") /\ UNCHANGED pc
  /\ UNCHANGED <<detected, pings, todo, step, held>>

\* setenv ipaddr and serverip, then up to five pings.
Networked(resp) ==
  /\ \/ pc = "net" /\ Go("ping") /\ UNCHANGED <<pings, held>>
     \/ pc = "ping" /\ Has(resp, "ok") /\ Go("stage") /\ UNCHANGED <<pings, held>>
     \/ pc = "ping" /\ ~Has(resp, "ok") /\ pings < 4 /\ pings' = pings + 1 /\ UNCHANGED <<pc, held>>
     \/ pc = "ping" /\ ~Has(resp, "ok") /\ pings = 4 /\ Fail /\ held' = held \ {"transport"} /\ UNCHANGED pings
  /\ UNCHANGED <<detected, todo, step>>

Skip == todo' = Tail(todo) /\ step' = 1

Advance(n) ==
  IF step + n > Len(PartPlan(Head(todo))) THEN Skip ELSE step' = step + n /\ UNCHANGED todo

\* continue: the next partition, whatever became of this one.
Wrote(resp) ==
  /\ pc = "write" /\ todo # <<>>
  /\ LET op == Now.op IN
     \/ /\ op = "printenv_mtd"
        /\ IF Has(resp, "mtdparts")
           THEN Advance(IF PartPlan(Head(todo))[step + 1].op = "printenv_mtd" THEN 2 ELSE 1)
           ELSE IF PartPlan(Head(todo))[step + 1].op = "printenv_mtd" THEN Advance(1) ELSE Skip
     \/ /\ op = "tftpboot"
        /\ IF Has(resp, "unknown") THEN Advance(1) ELSE IF Has(resp, "done") THEN Advance(2) ELSE Skip
     \/ op = "tftp" /\ IF Has(resp, "done") THEN Advance(1) ELSE Skip
     \/ op = "setenv_mtdparts" /\ Skip                             \* a layout without it
     \/ op \notin {"printenv_mtd", "tftpboot", "tftp"} /\ Advance(1)
  /\ UNCHANGED <<pc, detected, pings, held>>

\* The answer to reset ends the try.
WasReset ==
  /\ pc = "write" /\ todo = <<>> /\ Go("unwind")
  /\ UNCHANGED <<detected, pings, todo, step, held>>

Resume(resp) == Probed(resp) \/ Networked(resp) \/ Wrote(resp) \/ WasReset

Issue ==
  /\ Driving /\ Now.op # "replace" /\ Send(Now)
  /\ UNCHANGED <<serving, flow>>

Answered == Driving /\ (\E resp \in {answers} : Reply(resp) /\ Resume(resp)) /\ UNCHANGED rest

Unanswered == Driving /\ Expire(<<>>) /\ Resume(<<>>) /\ UNCHANGED rest

NotTaken == Driving /\ Now.op # "replace" /\ Refused /\ Resume(<<>>) /\ UNCHANGED rest

\* _replace_in_tftp, before the layout; with --mtdparts nothing is asked.
Replace ==
  /\ pc = "write" /\ Now.op = "replace"
  /\ \/ /\ serving' = [serving EXCEPT !["rootfs"] = "ubifs"]
        /\ Advance(IF arg THEN 3 ELSE 1) /\ UNCHANGED pc
     \/ pod /\ Go("unwind_raised") /\ UNCHANGED <<serving, todo, step>>
  /\ UNCHANGED <<console, choices, on, detected, pings, pod, held, staged, cleanup>>

---------------------------------------------------------------------------
(* The finally, and the end.                                               *)

Unwind ==
  /\ pc \in {"unwind", "unwind_raised"}
  /\ held' = IF pc = "unwind" THEN {} ELSE held \ {"server"}
  /\ pc' = IF pc = "unwind" THEN "done" ELSE "failed"
  /\ cleanup' = FALSE
  /\ \/ staged' = 0 /\ serving' = [p \in Parts |-> "none"]
     \/ pod /\ UNCHANGED <<staged, serving>>                       \* tftp_clear failed
  /\ UNCHANGED <<console, choices, on, detected, pings, todo, step, pod>>

CameraStep == Camera /\ UNCHANGED <<serving, flow>>

\* "setenv/network commands during restore cause U-Boot to save env to NAND
\* within the boot area": before such a command is answered, or not at all.
SpillsEnv ==
  /\ alive /\ queue # <<>>
  /\ Head(queue).op \in {"setenv_net", "setenv_mtdparts", "ping", "tftpboot", "tftp"}
  /\ flash' = [flash EXCEPT !["boot"] = "env"]
  /\ UNCHANGED <<mode, alive, queue, answers, waiting, late, serving>>
  /\ UNCHANGED <<ram, env, saved, faults, hasCrc, blind, flow>>

Ended == pc \in {"done", "failed"} /\ UNCHANGED vars

\* run_rack_fastboot has a timeout; the handshake of session.run has none, so
\* nothing promises that Burn ends for a camera without a pod.
Host ==
  \/ LoadDump \/ Resolve \/ PowerSetup \/ PowerOff \/ OpenLink \/ (power = "rack" /\ Burn)
  \/ Detect \/ Backend \/ Stage \/ Serve
  \/ Issue \/ Answered \/ Unanswered \/ NotTaken \/ Replace \/ Unwind

Next == Host \/ Burn \/ CameraStep \/ SpillsEnv \/ Ended

Spec == Init /\ [][Next]_vars /\ WF_vars(Host) /\ WF_vars(CameraStep)

---------------------------------------------------------------------------
(* Properties.                                                             *)

TypeOK ==
  /\ mode \in {"none", "shell", "download"} /\ waiting \in BOOLEAN
  /\ late \in 0..MaxLate /\ Len(queue) <= MaxLate + 1 /\ Len(answers) <= MaxLate + 1
  /\ flash \in [Parts -> Parts \cup {"old", "env", "erased", "bad", "volume", "ubifs"}]
  /\ pc \in {"prepare", "uboot", "power", "power_off", "link", "burn", "detect", "detect_flash", "backend", "net",
             "ping", "stage", "write", "unwind", "unwind_raised", "done", "failed"}
  /\ detected \in {"nand", "nor", "emmc"} /\ pings \in 0..4
  /\ todo = <<>> \/ step \in 1..Len(PartPlan(Head(todo)))
  /\ held \subseteq {"power", "transport", "server"} /\ staged \in 0..Len(Dump)

\* cli/app.py:3471: the boot partition is written last, over the environment
\* that U-Boot may have saved into it.  Once its erase has begun no other
\* partition changes, however late answers and commands get.
BootIsLast ==
  [][flash["boot"] \notin {"old", "env"} =>
       \A p \in Parts \ {"boot"} : flash'[p] = flash[p]]_vars

\* Whatever is skipped and wherever U-Boot saves its environment, a restore in
\* which nothing went wrong leaves the dump in the flash (a UBI partition stays
\* as it was if no layout names it).
CleanRestore ==
  pc = "done" /\ faults = 0 /\ late = 0 =>
    \A i \in DOMAIN Dump : LET p == Dump[i] IN
      flash[p] = Image(p) \/ (p = "rootfs" /\ ubi /\ flash[p] = "old")

\* However restore ends, no TFTP server is left running and nothing has been
\* erased in a camera without power; when it says it is complete, the camera it
\* switched off has power again and the transport and the controller are closed.
LeftInOrder ==
  /\ pc = "done" => on /\ held = {}
  /\ pc = "failed" => "server" \notin held
  /\ ~on => \A p \in Parts : flash[p] = "old"

\* Every command has a timeout and every partition a continue: restore returns,
\* unless it waits for ever for a boot ROM it has to greet itself.
RestoreEnds ==
  <>[](pc = "burn" /\ power # "rack") \/ <>(pc \in {"done", "failed"})

===========================================================================
