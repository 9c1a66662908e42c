---------------------------- MODULE UBootConsole ----------------------------
(***************************************************************************)
(* The U-Boot console that install and restore drive, and the camera       *)
(* behind it.  Commands are answered in order, and nothing in an answer    *)
(* says which command it belongs to.                                       *)
(*                                                                         *)
(*   "shell"     flashdump.send_command: throw away what has come in,      *)
(*               write the line, read until the prompt or the timeout; a   *)
(*               line written while U-Boot is busy waits in its UART or is *)
(*               mangled there                                             *)
(*   "download"  DownloadCommandClient.send_command: a framed command,     *)
(*               refused while U-Boot is busy                              *)
(*                                                                         *)
(* The camera is external: its answers, what its commands do to RAM, flash *)
(* and environment, and the network between it and the TFTP server.        *)
(***************************************************************************)
EXTENDS Integers, Sequences

CONSTANTS
  Parts,        \* the partitions
  MaxLate,      \* bound: commands whose answer misses the timeout
  MaxFaults,    \* bound: transfers, erases, writes, reads and lines that go wrong
  MaxNoCrc      \* bound: of these, in a U-Boot without crc32, where none is noticed

ASSUME ConsoleAssumption == MaxLate \in Nat /\ MaxFaults \in Nat /\ MaxNoCrc \in Nat /\ "bad" \notin Parts

VARIABLES
  mode,         \* "shell" or "download", as detected; "none" before
  alive,        \* does U-Boot answer at all?
  queue,        \* commands the camera has taken and not run yet
  answers,      \* answers in the host's input buffer
  waiting,      \* is the host inside send_command?
  late,         \* how many answers missed the timeout
  serving,      \* what the TFTP server offers under each name, "none" if nothing
  ram, flash,   \* the staging buffer; the contents of each partition
  env, saved,   \* the environment in RAM and in flash
  faults,       \* how often the camera's side has gone wrong
  hasCrc,       \* does this build of U-Boot have the crc32 command?
  blind         \* history: partitions U-Boot failed to read

hostSide == <<mode, answers, waiting, late>>
camera   == <<ram, flash, env, saved, faults, hasCrc, blind>>
console  == <<mode, alive, queue, answers, waiting, late, camera>>

Cmd(op, part) == [op |-> op, part |-> part]
Answer(out, val) == [out |-> out, val |-> val]

\* The environment: is the network configured, are the boot commands the
\* installed ones, are mtdparts known, and the MAC address ("default": the one
\* every OpenIPC U-Boot starts with, or none).
Environments ==
  [net : BOOLEAN, boot : BOOLEAN, mtdparts : BOOLEAN, eth : {"own", "default", "new"}]

ConsoleInit(content) ==
  /\ mode = "none" /\ alive \in BOOLEAN
  /\ queue = <<>> /\ answers = <<>> /\ waiting = FALSE /\ late = 0
  /\ serving = [p \in Parts |-> "none"]
  /\ ram = "bad" /\ flash = [p \in Parts |-> content]
  /\ env \in [net : {FALSE}, boot : {FALSE}, mtdparts : {FALSE}, eth : {"own", "default"}]
  /\ saved = env /\ faults = 0 /\ hasCrc \in BOOLEAN /\ blind = {}

---------------------------------------------------------------------------
(* What the answer to a command, or a late answer instead of it, contains. *)

Has(resp, out) == \E i \in DOMAIN resp : resp[i].out = out

\* re.search(r"==>\s*([0-9a-fA-F]{8})", resp): the first one counts.
Found(resp, out) ==
  resp[CHOOSE i \in DOMAIN resp : resp[i].out = out /\ \A j \in 1..(i - 1) : resp[j].out # out].val

---------------------------------------------------------------------------
(* The camera runs the next command.                                       *)

Ran(out, val) ==
  /\ queue' = Tail(queue)
  /\ answers' = Append(answers, Answer(out, val))
  /\ UNCHANGED <<mode, alive, waiting, late, serving>>

Wrong == faults < MaxFaults /\ (hasCrc \/ faults < MaxNoCrc) /\ faults' = faults + 1
Right == UNCHANGED faults

RunTftp ==
  /\ LET c == Head(queue) IN
       /\ c.op \in {"tftpboot", "tftp"}
       /\ \/ /\ c.op = "tftpboot"                     \* a build that has tftp only
             /\ Ran("unknown", "") /\ UNCHANGED ram /\ Right
          \/ /\ env.net /\ serving[c.part] # "none"
             /\ \/ ram' = serving[c.part] /\ Right
                \/ ram' = "bad" /\ Wrong              \* damaged on the way
             /\ Ran("done", "")
          \/ /\ IF env.net /\ serving[c.part] # "none" THEN Wrong ELSE Right
             /\ ram' \in {ram, "bad"}
             /\ Ran("error", "")
  /\ UNCHANGED <<flash, env, saved, hasCrc, blind>>

\* A build without crc32 does not know the command.
RunCrc32 ==
  /\ Head(queue).op = "crc32"
  /\ IF hasCrc THEN Ran("crc", ram) ELSE Ran("unknown", "")
  /\ UNCHANGED camera

\* A read that fails leaves the buffer as it was, or spoilt.
RunRead ==
  /\ LET c == Head(queue) IN
       /\ c.op = "read"
       /\ \/ ram' = flash[c.part] /\ Ran("ok", "") /\ Right /\ UNCHANGED blind
          \/ ram' \in {ram, "bad"} /\ Ran("error", "") /\ Wrong /\ blind' = blind \cup {c.part}
  /\ UNCHANGED <<flash, env, saved, hasCrc>>

\* An erase that fails leaves the flash as it was.  "erase_env" erases the
\* environment's partition with the one it names.
RunErase ==
  /\ LET c == Head(queue) IN
       /\ c.op \in {"erase", "erase_env"}
       /\ \/ /\ flash' = [flash EXCEPT ![c.part] = "erased"]
             /\ saved' = IF c.op = "erase_env" THEN [saved EXCEPT !.eth = "default"] ELSE saved
             /\ Ran("ok", "") /\ Right
          \/ UNCHANGED <<flash, saved>> /\ Ran("error", "") /\ Wrong
  /\ UNCHANGED <<ram, env, hasCrc, blind>>

\* A write only clears bits: what was not erased is spoilt.
RunWrite ==
  /\ LET c == Head(queue) IN
       /\ c.op = "write"
       /\ \/ /\ flash' = [flash EXCEPT ![c.part] = IF @ = "erased" THEN ram ELSE "bad"]
             /\ Ran("ok", "") /\ Right
          \/ flash' = [flash EXCEPT ![c.part] = "bad"] /\ Ran("error", "") /\ Wrong
  /\ UNCHANGED <<ram, env, saved, hasCrc, blind>>

\* ubi part, ubi create and ubi write: a volume needs an erased partition and
\* known mtdparts, the image a volume.
RunUbi ==
  /\ LET c == Head(queue)
         ready == IF c.op = "ubi_create" THEN flash[c.part] = "erased" /\ env.mtdparts
                                         ELSE flash[c.part] = "volume"
     IN /\ c.op \in {"ubi_create", "ubi_write"}
        /\ \/ /\ ready
              /\ flash' = [flash EXCEPT ![c.part] = IF c.op = "ubi_create" THEN "volume" ELSE ram]
              /\ Ran("ok", "") /\ Right
           \/ /\ UNCHANGED flash /\ Ran("error", "")
              /\ IF ready THEN Wrong ELSE Right
  /\ UNCHANGED <<ram, env, saved, hasCrc, blind>>

RunEnv ==
  /\ LET c == Head(queue) IN
       \/ c.op = "setenv_net" /\ env' = [env EXCEPT !.net = TRUE] /\ Ran("ok", "") /\ UNCHANGED saved
       \/ c.op = "setenv_boot" /\ env' = [env EXCEPT !.boot = TRUE] /\ Ran("ok", "") /\ UNCHANGED saved
       \/ c.op = "setenv_mtdparts" /\ env' = [env EXCEPT !.mtdparts = TRUE] /\ Ran("ok", "") /\ UNCHANGED saved
       \/ c.op = "setenv_mac" /\ env' = [env EXCEPT !.eth = "new"] /\ Ran("ok", "") /\ UNCHANGED saved
       \/ c.op = "printenv" /\ Ran("eth", env.eth) /\ UNCHANGED <<env, saved>>
       \/ /\ c.op = "printenv_mtd" /\ \E l \in {"mtdparts", "none"} : Ran(l, "")
          /\ UNCHANGED <<env, saved>>
       \/ c.op = "saveenv" /\ saved' = env /\ Ran("ok", "") /\ UNCHANGED env
  /\ UNCHANGED <<ram, flash, faults, hasCrc, blind>>

\* Probing, ping, reset: an answer and nothing the properties look at.  A
\* probe is "present" or "absent" where it matters which flash is there, and a
\* command for a kind of flash the camera does not have is "absent" too.
RunOther ==
  /\ \/ Head(queue).op = "probe" /\ \E out \in {"ok", "error"} : Ran(out, "")
     \/ Head(queue).op = "ping" /\ Ran("error", "")
     \/ Head(queue).op = "ping" /\ env.net /\ Ran("ok", "")
     \/ Head(queue).op \in {"reset", "present"} /\ Ran("ok", "")
     \/ Head(queue).op = "absent" /\ Ran("error", "")
     \/ Head(queue).op = "mangled" /\ Ran("unknown", "")
  /\ UNCHANGED camera

Camera ==
  /\ alive /\ queue # <<>>
  /\ RunTftp \/ RunCrc32 \/ RunRead \/ RunErase \/ RunWrite \/ RunUbi \/ RunEnv \/ RunOther

---------------------------------------------------------------------------
(* The host's half of a command.                                           *)

\* A line typed while U-Boot is busy may not fit its receive FIFO.
Send(c) ==
  /\ ~waiting /\ mode # "none"
  /\ mode = "shell" \/ queue = <<>>
  /\ \/ queue' = (IF alive THEN Append(queue, c) ELSE queue) /\ Right
     \/ queue # <<>> /\ queue' = Append(queue, Cmd("mangled", c.part)) /\ Wrong
  /\ answers' = <<>> /\ waiting' = TRUE
  /\ UNCHANGED <<mode, alive, late, ram, flash, env, saved, hasCrc, blind>>

\* Download mode: three headers in a row get no ACK, send_command gives up.
Refused ==
  /\ ~waiting /\ mode = "download" /\ queue # <<>>
  /\ UNCHANGED console

\* The prompt, or [EOT], is among what has been read.
Reply(resp) ==
  /\ waiting /\ answers # <<>> /\ resp = answers
  /\ answers' = <<>> /\ waiting' = FALSE
  /\ UNCHANGED <<mode, alive, queue, late, camera>>

\* The timeout; in download mode the command may not have been taken at all.
Expire(resp) ==
  /\ waiting /\ answers = <<>> /\ resp = <<>>
  /\ ~alive \/ late < MaxLate
  /\ late' = IF alive THEN late + 1 ELSE late
  /\ queue' \in {queue} \cup (IF mode = "download" THEN {<<>>} ELSE {})
  /\ waiting' = FALSE
  /\ UNCHANGED <<mode, alive, answers, camera>>

\* The 15 s of Ctrl-C: what is not download mode is taken for a shell, and so
\* is a console that says nothing.
DetectMode ==
  /\ mode = "none"
  /\ mode' \in IF alive THEN {"shell", "download"} ELSE {"shell"}
  /\ UNCHANGED <<alive, queue, answers, waiting, late, camera>>

===========================================================================
