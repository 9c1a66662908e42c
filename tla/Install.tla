------------------------------ MODULE Install ------------------------------
(***************************************************************************)
(* defib install (_install_async in src/src/defib/cli/app.py): load U-Boot *)
(* into the camera's RAM, bring up a TFTP server, on the host behind a     *)
(* temporary address or in the rack pod's PSRAM, and make U-Boot fetch,    *)
(* check, erase, write and read back boot, kernel and rootfs, set up its   *)
(* environment and reset.                                                  *)
(***************************************************************************)
EXTENDS UBootConsole, FiniteSets

CONSTANT
  Powers        \* power controllers, of "none", "poe" and "rack"

ASSUME PowersAssumption == Powers \subseteq {"none", "poe", "rack"}
ASSUME PartsAssumption == Parts = {"boot", "kernel", "rootfs"}

VARIABLES
  kind,         \* "nor", "nand" or "ubi" (NAND, and the rootfs is a UBI image)
  wipe,         \* --wipe-env
  power,        \* the power controller
  pc, step,     \* where _install_async is; the next command of Plan
  held,         \* what is open: "power", "transport", "server", and "address",
                \* if temporary_ip has added it and did not find it there
                \* ("leftover" once an attempt to remove it has failed)
  staged,       \* number of files in the pod's PSRAM
  cleanup,      \* has the AsyncExitStack been given the pod's clearing?
  eth0          \* history: the MAC address the camera came with

flow == <<kind, wipe, power, pc, step, held, staged, cleanup, eth0>>
vars == <<console, serving, flow>>

Order == <<"boot", "kernel", "rootfs">>
Nand == kind # "nor"

\* What the partition holds when the install has worked.  A UBI rootfs is
\* unpacked with extract_ubifs and written with ubi write.
Image(p) == IF kind = "ubi" /\ p = "rootfs" THEN "ubifs" ELSE p

\* Mutant: what was written is not read back.
TftpAndFlash_NoReadBack(p) ==
  << Cmd("tftpboot", p), Cmd("tftp", p), Cmd("crc32", p),
     Cmd(IF p = "boot" /\ wipe THEN "erase_env" ELSE "erase", p), Cmd("write", p) >>

\* tftp_and_flash; on NAND what was written is not read back.
TftpAndFlash(p) ==
  << Cmd("tftpboot", p), Cmd("tftp", p), Cmd("crc32", p),
     Cmd(IF p = "boot" /\ wipe THEN "erase_env" ELSE "erase", p), Cmd("write", p) >>
  \o (IF Nand THEN <<>> ELSE << Cmd("read", p), Cmd("crc32", p) >>)

UbiRootfs ==
  << Cmd("replace", "rootfs"), Cmd("tftpboot", "rootfs"), Cmd("tftp", "rootfs"),
     Cmd("erase", "rootfs"), Cmd("setenv_mtdparts", "rootfs"),
     Cmd("ubi_create", "rootfs"), Cmd("ubi_write", "rootfs") >>

\* Mutant: the environment is saved before the MAC address is looked at.
BootEnvironment_SavedFirst ==
  << Cmd("setenv_boot", "boot"), Cmd("saveenv", "boot"), Cmd("printenv", "boot"),
     Cmd("setenv_mac", "boot"), Cmd("reset", "boot") >>

BootEnvironment ==
  << Cmd("setenv_boot", "boot"), Cmd("printenv", "boot"), Cmd("setenv_mac", "boot"),
     Cmd("saveenv", "boot"), Cmd("reset", "boot") >>

\* Mutant: the rootfs, written last, is not read back.
Plan_NoRootfsCheck ==
  << Cmd("probe", "boot"), Cmd("setenv_net", "boot") >>
  \o TftpAndFlash("boot") \o TftpAndFlash("kernel")
  \o (IF kind = "ubi" THEN UbiRootfs ELSE SubSeq(TftpAndFlash("rootfs"), 1, 5))
  \o BootEnvironment

Plan ==
  << Cmd("probe", "boot"), Cmd("setenv_net", "boot") >>
  \o TftpAndFlash("boot") \o TftpAndFlash("kernel")
  \o (IF kind = "ubi" THEN UbiRootfs ELSE TftpAndFlash("rootfs"))
  \o BootEnvironment

Now == Plan[step]

Init ==
  /\ ConsoleInit("old")
  /\ kind \in {"nor", "nand", "ubi"} /\ wipe \in BOOLEAN
  /\ power \in Powers
  /\ pc = "prepare" /\ step = 1 /\ held = {}
  /\ staged = 0 /\ cleanup = FALSE /\ eth0 = env.eth

---------------------------------------------------------------------------
(* Up to the console.                                                      *)

Go(to) == pc' = to
Fail == pc' = "failed"

\* The tarball has to hold a kernel and a rootfs, agree with its MD5 sums and
\* fit the layout.
Extract ==
  /\ pc = "prepare" /\ (Go("uboot") \/ Fail)
  /\ UNCHANGED <<console, serving, kind, wipe, power, step, held, staged, cleanup, eth0>>

\* Cached or downloaded, and padded to the boot partition.
GetUBoot ==
  /\ pc = "uboot" /\ (Go("power") \/ Fail)
  /\ UNCHANGED <<console, serving, kind, wipe, power, step, held, staged, cleanup, eth0>>

\* power_controller_from_env and, for RouterOS, find_port_by_comment, after
\* whose failure the controller is closed again.
PowerSetup ==
  /\ pc = "power"
  /\ \/ power = "none" /\ Go("link") /\ UNCHANGED held
     \/ power # "none" /\ Go("link") /\ held' = held \cup {"power"}
     \/ power # "none" /\ Fail /\ UNCHANGED held
  /\ UNCHANGED <<console, serving, kind, wipe, power, step, staged, cleanup, eth0>>

\* create_transport, before the upload unless the pod does it.
OpenLink ==
  /\ pc = "link"
  /\ \/ power = "rack" /\ Go("burn") /\ UNCHANGED held
     \/ power # "rack" /\ Go("burn") /\ held' = held \cup {"transport"}
     \/ power # "rack" /\ Fail /\ UNCHANGED held
  /\ UNCHANGED <<console, serving, kind, wipe, power, step, staged, cleanup, eth0>>

\* session.run, or run_rack_fastboot and then create_transport.
Burn ==
  /\ pc = "burn"
  /\ \/ Go("detect") /\ held' = held \cup {"transport"}
     \/ Fail /\ held' = {}
     \/ power = "rack" /\ Fail /\ UNCHANGED held      \* the transport cannot be opened
  /\ UNCHANGED <<console, serving, kind, wipe, power, step, staged, cleanup, eth0>>

Detect ==
  /\ pc = "detect" /\ DetectMode /\ Go("drive")
  /\ UNCHANGED <<serving, kind, wipe, power, step, held, staged, cleanup, eth0>>

---------------------------------------------------------------------------
(* The TFTP backend, between the probe and the rest of the plan.           *)

\* --tftp-via auto: the pod if there is one and its PSRAM is large enough.
Backend ==
  /\ pc = "backend"
  /\ \E via \in {"auto", "host", "pod"} :
       \/ via = "pod" /\ power # "rack" /\ Fail /\ held' = held \ {"transport"}
       \/ via # "host" /\ power = "rack" /\ Go("stage") /\ UNCHANGED held
       \/ via # "pod" /\ Go("address") /\ UNCHANGED held
       \/ via # "pod" /\ Fail /\ held' = held \ {"transport"}      \* no NIC
  /\ UNCHANGED <<console, serving, kind, wipe, power, step, staged, cleanup, eth0>>

\* RackController.tftp_put: one more file in the PSRAM.
TftpPut(p) == staged' = staged + 1 /\ serving' = [serving EXCEPT ![p] = p]

\* One tftp_put after another; the clearing is registered when all are there.
Stage ==
  /\ pc = "stage"
  /\ \/ staged < Len(Order) /\ TftpPut(Order[staged + 1]) /\ UNCHANGED <<pc, cleanup>>
     \/ staged < Len(Order) /\ Go("unwind_failed") /\ UNCHANGED <<staged, serving, cleanup>>
     \/ staged = Len(Order) /\ cleanup' = TRUE /\ Go("drive") /\ UNCHANGED <<staged, serving>>
  /\ UNCHANGED <<console, kind, wipe, power, step, held, eth0>>

\* add_ip: an address that is there already is used and not ours to remove.
AddIp == held' \in {held, held \cup {"address"}}

\* temporary_ip is entered on the stack.  An address that never becomes usable
\* is taken back with _undo_add, if that works.
Address ==
  /\ pc = "address"
  /\ \/ Go("serve") /\ AddIp
     \/ Go("unwind_failed") /\ held' \in {held, held \cup {"leftover"}}
  /\ UNCHANGED <<console, serving, kind, wipe, power, step, staged, cleanup, eth0>>

\* start_tftp_server; the port may be taken.
StartServer == held' = held \cup {"server"} /\ serving' = [p \in Parts |-> p]

Serve ==
  /\ pc = "serve"
  /\ \/ StartServer /\ Go("drive")
     \/ Go("unwind_failed") /\ UNCHANGED <<held, serving>>
  /\ UNCHANGED <<console, kind, wipe, power, step, staged, cleanup, eth0>>

---------------------------------------------------------------------------
(* Driving U-Boot.                                                         *)

Driving == pc = "drive" /\ step <= Len(Plan)
flowRest == <<kind, wipe, power, held, staged, cleanup, eth0>>

Advance(n) ==
  /\ step' = step + n
  /\ pc' = IF Now.op = "probe" THEN "backend"
           ELSE IF step + n > Len(Plan) THEN "unwind_done" ELSE pc

\* Mutant: a failed command is tried again, without a limit.
Abort_Retries == step' = step /\ pc' = pc

Abort == step' = step /\ pc' = "unwind_failed"

\* parse_printenv_value and is_unset_or_default_ethaddr: an address in the
\* answer, and not the one OpenIPC's U-Boot is compiled with.
HasOwnMac(resp) ==
  Has(resp, "eth") /\ Found(resp, "eth") \in {"own", "new"}

\* What _install_async does with the answer to the command it has sent.
Resume(resp) ==
  LET op == Now.op IN
  \/ /\ op = "probe"
     /\ IF Has(resp, "error") THEN Fail /\ step' = step /\ held' = held \ {"transport"}
                              ELSE Advance(1) /\ UNCHANGED held
  \/ /\ op = "tftpboot" /\ UNCHANGED held        \* "unknown command": again with tftp
     /\ IF Has(resp, "unknown") THEN Advance(1)
        ELSE IF Has(resp, "done") THEN Advance(2) ELSE Abort
  \/ /\ op = "tftp" /\ UNCHANGED held
     /\ IF Has(resp, "done") THEN Advance(1) ELSE Abort
  \/ /\ op = "crc32" /\ UNCHANGED held
     /\ IF Has(resp, "crc") /\ Found(resp, "crc") # Image(Now.part) THEN Abort ELSE Advance(1)
  \/ /\ op = "ubi_write" /\ UNCHANGED held
     /\ IF Has(resp, "error") THEN Abort ELSE Advance(1)
  \/ /\ op = "printenv" /\ UNCHANGED held
     /\ IF HasOwnMac(resp) THEN Advance(2) ELSE Advance(1)
  \/ /\ op \notin {"probe", "tftpboot", "tftp", "crc32", "ubi_write", "printenv"}
     /\ Advance(1) /\ UNCHANGED held

Issue ==
  /\ Driving /\ Now.op # "replace" /\ Send(Now)
  /\ UNCHANGED <<serving, flow>>

Answered ==
  /\ Driving
  /\ \E resp \in {answers} :
       Reply(resp) /\ Resume(resp)
  /\ UNCHANGED <<serving, kind, wipe, power, staged, cleanup, eth0>>

Unanswered ==
  /\ Driving
  /\ Expire(<<>>) /\ Resume(<<>>)
  /\ UNCHANGED <<serving, kind, wipe, power, staged, cleanup, eth0>>

NotTaken ==
  /\ Driving /\ Now.op # "replace"
  /\ Refused /\ Resume(<<>>)
  /\ UNCHANGED <<serving, kind, wipe, power, staged, cleanup, eth0>>

\* replace_in_tftp: a dictionary entry on the host, another POST to the pod.
Replace ==
  /\ Driving /\ Now.op = "replace"
  /\ \/ serving' = [serving EXCEPT !["rootfs"] = "ubifs"] /\ Advance(1)
     \/ staged # 0 /\ Abort /\ UNCHANGED serving
  /\ UNCHANGED <<console, flowRest>>

---------------------------------------------------------------------------
(* The AsyncExitStack, last in first out, and the end.                     *)

Unwinding == pc \in {"unwind_done", "unwind_failed"}

CloseServer ==
  /\ Unwinding /\ "server" \in held
  /\ held' = held \ {"server"} /\ serving' = [p \in Parts |-> "none"]
  /\ UNCHANGED <<console, kind, wipe, power, pc, step, staged, cleanup, eth0>>

\* remove_ip runs once; a failure is logged only, and the address stays.
RemoveIp ==
  /\ "address" \in held
  /\ held' \in {held \ {"address"}, (held \ {"address"}) \cup {"leftover"}}

LeaveAddress ==
  /\ Unwinding /\ "server" \notin held /\ RemoveIp
  /\ UNCHANGED <<console, serving, kind, wipe, power, pc, step, staged, cleanup, eth0>>

\* tftp_clear, whose failure is swallowed.
ClearPod ==
  /\ Unwinding /\ cleanup /\ cleanup' = FALSE
  /\ \/ staged' = 0 /\ serving' = [p \in Parts |-> "none"]
     \/ UNCHANGED <<staged, serving>>
  /\ UNCHANGED <<console, kind, wipe, power, pc, step, held, eth0>>

\* Mutant: the exit stack is not unwound after a failure.
Finish_NoUnwind ==
  /\ Unwinding
  /\ pc = "unwind_done" => held \cap {"server", "address"} = {} /\ ~cleanup
  /\ pc' = IF pc = "unwind_done" THEN "done" ELSE "failed"
  /\ held' = IF pc = "unwind_done" THEN held \cap {"leftover"} ELSE held
  /\ UNCHANGED <<console, serving, kind, wipe, power, step, staged, cleanup, eth0>>

\* Only a successful install closes the transport and the power controller.
Finish ==
  /\ Unwinding /\ held \cap {"server", "address"} = {} /\ ~cleanup
  /\ pc' = IF pc = "unwind_done" THEN "done" ELSE "failed"
  /\ held' = IF pc = "unwind_done" THEN held \cap {"leftover"} ELSE held
  /\ UNCHANGED <<console, serving, kind, wipe, power, step, staged, cleanup, eth0>>

CameraStep == Camera /\ UNCHANGED <<serving, flow>>

Ended == pc \in {"done", "failed"} /\ UNCHANGED vars

\* run_rack_fastboot has a timeout; the handshake of session.run has none, so
\* nothing promises that Burn ends for a camera without a pod.
Host ==
  \/ Extract \/ GetUBoot \/ PowerSetup \/ OpenLink \/ (power = "rack" /\ Burn) \/ Detect
  \/ Backend \/ Stage \/ Address \/ Serve
  \/ Issue \/ Answered \/ Unanswered \/ NotTaken \/ Replace
  \/ CloseServer \/ LeaveAddress \/ ClearPod \/ Finish

Next == Host \/ Burn \/ CameraStep \/ Ended

Spec == Init /\ [][Next]_vars /\ WF_vars(Host) /\ WF_vars(CameraStep)

---------------------------------------------------------------------------
(* Properties.                                                             *)

TypeOK ==
  /\ mode \in {"none", "shell", "download"}
  /\ alive \in BOOLEAN /\ waiting \in BOOLEAN
  /\ late \in 0..MaxLate /\ Len(queue) <= MaxLate + 1 /\ Len(answers) <= MaxLate + 1
  /\ env \in Environments /\ saved \in Environments
  /\ step \in 1..(Len(Plan) + 1)
  /\ pc \in {"prepare", "uboot", "power", "link", "burn", "detect", "backend", "stage", "address",
             "serve", "drive", "unwind_done", "unwind_failed", "done", "failed"}
  /\ held \subseteq {"power", "transport", "address", "server", "leftover"}
  /\ staged \in 0..3 /\ cleanup \in BOOLEAN

\* README.md:72: each partition is flashed with CRC32 verification.  On NOR,
\* and when every command was answered in time, an install that has saved the
\* camera's new environment, and one that has ended well, has boot, kernel and
\* rootfs in the flash, whatever the network damaged and whichever erase or
\* write failed without anyone looking at its answer.  Left out are a U-Boot
\* without crc32 and a partition U-Boot failed to read back: the code takes
\* what it cannot check for verified.
InstalledMeansFlashed ==
  (pc = "done" \/ saved.boot) /\ kind = "nor" /\ late = 0 /\ hasCrc =>
    \A p \in Parts \ blind : flash[p] = Image(p)

\* A partition is touched only when those before it are in place: a failed
\* verification stops the install there (NOR, answers in time, and as far as
\* U-Boot can verify anything).
StopsAtFirstFailure ==
  [][kind = "nor" /\ late = 0 /\ hasCrc =>
       \A i \in 1..3 : flash'[Order[i]] # flash[Order[i]] =>
         \A j \in 1..(i - 1) : Order[j] \in blind \/ flash[Order[j]] = Order[j]]_vars

\* uboot_env.py:1-12: saveenv never persists the MAC address that all cameras
\* share, and a camera that has one of its own keeps it.
MacIsItsOwn ==
  late = 0 /\ saved.boot => saved.eth = IF eth0 = "own" THEN "own" ELSE "new"

\* Whichever step failed, the TFTP server is closed when install returns and no
\* address added for it is there that nobody tried to remove; after a success
\* the transport and the power controller are closed as well.
HostLeftAsFound ==
  /\ pc \in {"done", "failed"} => held \cap {"server", "address"} = {}
  /\ pc = "done" => held \subseteq {"leftover"}

\* Every command has a timeout, every step ends: install returns, unless it
\* waits for ever for a boot ROM it has to greet itself.
InstallEnds ==
  <>[](pc = "burn" /\ power # "rack") \/ <>(pc \in {"done", "failed"})

===========================================================================
