----------------------------- MODULE FlashDump -----------------------------
(***************************************************************************)
(* Dumping a flash through the U-Boot console (dump_flash in               *)
(* src/src/defib/flashdump.py): sf read copies the flash into RAM, md.b    *)
(* prints it block by block, crc32 checks a block, and a file that exists  *)
(* is continued.  It is started by defib dump-flash, one run after another *)
(* on one file, or by a key of the text user interface                     *)
(* (src/src/defib/tui/screens/progress.py), each time into a new file.     *)
(* The unit is a line of md.b; line i of the flash holds the value i.      *)
(***************************************************************************)
EXTENDS Integers, Sequences, FiniteSets, SequencesExt

CONSTANTS
  Uis,           \* how dumps are started, of "cli" and "tui"
  Size, Block,   \* lines of the flash; lines of a block (chunk_size)
  MaxRetries,    \* max_retries
  MaxRuns,       \* dumps started
  MaxKeys,       \* of them by a key of the text user interface
  MaxFaults

ASSUME DumpAssumption ==
  /\ Uis \subseteq {"cli", "tui"} /\ Size \in Nat \ {0} /\ Block \in Nat \ {0}
  /\ MaxRetries \in Nat /\ MaxRuns \in Nat /\ MaxKeys \in Nat /\ MaxFaults \in Nat

Runs == 1..MaxRuns
Flash == [i \in 1..Size |-> i]
Zero == 0
Damaged == Size + 1

VARIABLES
  ui, hasCrc,     \* how dumps are started; does this U-Boot have crc32?
  flag, cleaned,  \* _dump_worker_running; dumps whose finally has run
  pc, sent,       \* per dump: where it is; is its command sent?
  off, att, crc, chunk,        \* per dump: offset, attempt, has_crc32, chunk_data
  file,           \* per dump: what its file holds
  inbox, out,     \* commands not run by the camera; its output not read
  ram, hung,      \* is the flash in RAM?; has the camera stopped answering?
  faults, kinds,  \* what went wrong
  stopping        \* dumps a Cancel was meant for

dump == <<pc, sent, off, att, crc, chunk>>
camera == <<inbox, out, ram, hung>>
ghosts == <<faults, kinds, stopping>>
vars == <<ui, hasCrc, flag, cleaned, dump, file, camera, ghosts>>

Active(w) == pc[w] \notin {"off", "done", "cancelled", "failed"}

Cmd(w, op, a, n) == [by |-> w, op |-> op, addr |-> a, n |-> n]
Item(k, a, v) == <<[k |-> k, addr |-> a, val |-> v]>>
Prompt == Item("prompt", 0, <<>>)

\* The number of lines of the next block.
Remaining(w) == IF Size - off[w] < Block THEN Size - off[w] ELSE Block

\* The command a dump is at.
Now(w) ==
  IF pc[w] \in {"md", "crc"} THEN Cmd(w, pc[w], off[w] + 1, Remaining(w))
  ELSE Cmd(w, pc[w], 1, 1)

\* The file of a dump: the CLI is given one, the TUI names a new one.
FileOf(w) == IF ui = "cli" THEN 1 ELSE w

Init ==
  /\ ui \in Uis /\ hasCrc \in BOOLEAN /\ flag = FALSE /\ cleaned = {}
  /\ pc = [w \in Runs |-> "off"] /\ sent = [w \in Runs |-> FALSE]
  /\ off = [w \in Runs |-> 0] /\ att = [w \in Runs |-> 0] /\ crc = [w \in Runs |-> FALSE]
  /\ chunk = [w \in Runs |-> <<>>]
  /\ file = [w \in Runs |-> <<>>]
  /\ inbox = <<>> /\ out = <<>> /\ ram = FALSE /\ hung = FALSE
  /\ faults = 0 /\ kinds = {} /\ stopping = {}

---------------------------------------------------------------------------
(* The camera's U-Boot and the line to it (external).                      *)

Lines(a, n) == [i \in 1..n |-> [k |-> "md", addr |-> a + i - 1,
                                val |-> <<IF ram THEN a + i - 1 ELSE Zero>>]]

\* What a command prints before the prompt.
Prints(c) ==
  IF c.op \in {"md", "sanity"} THEN Lines(c.addr, c.n)
  ELSE IF c.op \in {"crc", "detect"} /\ ~ hasCrc THEN Item("unknown", 0, <<>>)
  ELSE IF c.op = "crc" THEN Item("crc", 0, [i \in 1..c.n |-> IF ram THEN c.addr + i - 1 ELSE Zero])
  ELSE IF c.op = "nudge" THEN <<>> ELSE Item("ok", 0, <<>>)

Fault(kind) == faults < MaxFaults /\ faults' = faults + 1 /\ kinds' = kinds \cup {kind}

\* An answer that has lost some lines and in which others are damaged.
Garbled(p, lost, bad) ==
  [i \in DOMAIN p |-> IF i \in lost THEN [k |-> "noise", addr |-> 0, val |-> <<>>]
                      ELSE IF i \in bad THEN [p[i] EXCEPT !.val = <<Damaged>>] ELSE p[i]]

\* What that means for the n lines of a block: one that keeps its first and its
\* last line has its length, one that loses its last lines and nothing else is
\* right as far as it goes, and any other is short and wrong: so is one whose
\* last line lost bytes ("ragged").
Harm(op, n, lost, bad, end) ==
  IF op # "md" THEN "answer"
  ELSE IF end = "ragged" THEN "short"
  ELSE IF lost = {} THEN "damage"
  ELSE IF 1 \notin lost /\ n \notin lost THEN "gap"
  ELSE IF bad = {} /\ \E m \in 0..(n - 1) : lost = (m + 1)..n THEN "tail"
  ELSE "short"

CameraRuns ==
  LET c == Head(inbox)
      p == Prints(c)
  IN
  /\ inbox # <<>> /\ ~ hung /\ inbox' = Tail(inbox)
  /\ ram' = (ram \/ c.op = "read")
  /\ \/ out' = out \o p \o Prompt /\ UNCHANGED <<faults, kinds>>
     \/ \E lost, bad \in SUBSET DOMAIN p, end \in {"prompt", "ragged"} :
          /\ lost \cup bad # {} /\ lost \cap bad = {}
          /\ c.op # "md" => bad = {}
          /\ end = "ragged" => Len(p) \in bad
          /\ out' = out \o Garbled(p, lost, bad) \o Item(end, 0, <<>>)
          /\ Fault(Harm(c.op, Len(p), lost, bad, end))
  /\ UNCHANGED <<ui, hasCrc, flag, cleaned, dump, file, hung, stopping>>

\* sf probe or sf read fails, and says so.
CameraRefuses ==
  /\ inbox # <<>> /\ ~ hung /\ inbox' = Tail(inbox)
  /\ Head(inbox).op \in {"size", "probe", "read"}
  /\ out' = out \o Item("error", 0, <<>>) \o Prompt /\ Fault("error")
  /\ UNCHANGED <<ui, hasCrc, flag, cleaned, dump, file, ram, hung, stopping>>

Hang ==
  /\ ~ hung /\ hung' = TRUE /\ Fault("hang")
  /\ UNCHANGED <<ui, hasCrc, flag, cleaned, dump, file, inbox, out, ram, stopping>>

---------------------------------------------------------------------------
(* send_command.                                                           *)

Send(w) ==
  /\ Active(w) /\ ~ sent[w] /\ pc[w] \notin {"start", "write"}
  /\ out' = <<>> /\ inbox' = (IF hung THEN inbox ELSE Append(inbox, Now(w)))
  /\ sent' = [sent EXCEPT ![w] = TRUE]
  /\ UNCHANGED <<ui, hasCrc, flag, cleaned, pc, off, att, crc, chunk, file, ram, hung, ghosts>>

\* send_command returns what the console has printed: up to the prompt, of
\* whichever command that was, or nothing when time is up.
Returned(w) ==
  /\ sent[w] /\ sent' = [sent EXCEPT ![w] = FALSE] /\ out' = <<>>
  /\ \/ out # <<>> /\ UNCHANGED <<faults, kinds>>
     \/ /\ out = <<>> /\ (hung \/ ~ \E i \in DOMAIN inbox : inbox[i].by = w)
        /\ UNCHANGED <<faults, kinds>>
     \/ out = <<>> /\ inbox # <<>> /\ ~ hung /\ Fault("late")

Has(k) == \E i \in DOMAIN out : out[i].k = k

\* parse_md_output: the values from the lowest address on, gaps as zeros.
ParseMd ==
  LET lines == {i \in DOMAIN out : out[i].k = "md"}
      addrs == {out[i].addr : i \in lines}
      base == CHOOSE a \in addrs : \A b \in addrs : a <= b
      top == CHOOSE a \in addrs : \A b \in addrs : a >= b
      at(a) == {i \in lines : out[i].addr = a}
      latest(S) == CHOOSE i \in S : \A j \in S : i >= j
  IN IF addrs = {} THEN <<>>
     ELSE [i \in 1..(top - base + 1) |->
             IF at(base + i - 1) = {} THEN Zero ELSE out[latest(at(base + i - 1))].val[1]]

Goto(w, to) == pc' = [pc EXCEPT ![w] = to]

---------------------------------------------------------------------------
(* dump_flash.                                                             *)

Quiet == UNCHANGED <<ui, hasCrc, flag, cleaned, inbox, ram, hung, stopping>>

\* The size is given, in the boot log, or asked for.
Detect(w) ==
  /\ pc[w] = "size" /\ Returned(w)
  /\ Goto(w, IF Has("ok") THEN "probe" ELSE "failed")
  /\ UNCHANGED <<off, att, crc, chunk, file>> /\ Quiet

Begin(w) ==
  /\ pc[w] = "start" /\ (Goto(w, "size") \/ Goto(w, "probe"))
  /\ UNCHANGED <<sent, off, att, crc, chunk, file, faults, kinds>> /\ UNCHANGED out /\ Quiet

\* An answer without an error is good enough for sf probe; sf read must say OK.
Probe(w) ==
  /\ pc[w] = "probe" /\ Returned(w)
  /\ Goto(w, IF Has("error") THEN "failed" ELSE "read")
  /\ UNCHANGED <<off, att, crc, chunk, file>> /\ Quiet

SfRead(w) ==
  /\ pc[w] = "read" /\ Returned(w)
  /\ Goto(w, IF Has("ok") THEN "sanity" ELSE "failed")
  /\ UNCHANGED <<off, att, crc, chunk, file>> /\ Quiet

\* Sixteen equal bytes are no flash; no answer passes.
Sanity(w) ==
  /\ pc[w] = "sanity" /\ Returned(w)
  /\ Goto(w, IF ParseMd = <<Zero>> THEN "failed" ELSE "detect")
  /\ UNCHANGED <<off, att, crc, chunk, file>> /\ Quiet

\* _detect_crc32, then a file that exists is continued at a block boundary.
Resume(w) ==
  LET old == Len(file[FileOf(w)])
      from == (old \div Block) * Block
  IN
  /\ pc[w] = "detect" /\ Returned(w) /\ Goto(w, "md")
  /\ crc' = [crc EXCEPT ![w] = ~ Has("unknown")]
  /\ IF 0 < from /\ from < Size
     THEN off' = [off EXCEPT ![w] = from] /\ UNCHANGED file
     ELSE off' = [off EXCEPT ![w] = 0] /\ file' = [file EXCEPT ![FileOf(w)] = <<>>]
  /\ UNCHANGED <<att, chunk>> /\ Quiet

\* Mutants: the attempts are not limited; or not counted.
Again_Unlimited(w, to) == Goto(w, to) /\ att' = [att EXCEPT ![w] = @ + 1]
Again_Uncounted(w, to) == Goto(w, to) /\ UNCHANGED att

\* Once more, unless this was the last attempt.
Again(w, to) == IF att[w] < MaxRetries
                THEN Goto(w, to) /\ att' = [att EXCEPT ![w] = @ + 1]
                ELSE Goto(w, "write") /\ UNCHANGED att

Zeros(w) == [i \in 1..Remaining(w) |-> Zero]

\* The answer of md.b: no data is asked for again, in the end taken for zeros,
\* and a block that is not complete goes into the file as it is.
MdAnswered(w) ==
  LET got == ParseMd IN
  /\ pc[w] = "md" /\ Returned(w)
  /\ chunk' = [chunk EXCEPT ![w] = IF got = <<>> THEN Zeros(w) ELSE got]
  /\ IF got = <<>> THEN Again(w, "md")
     ELSE /\ Goto(w, IF crc[w] /\ Len(got) = Remaining(w) /\ ~ Has("ragged") THEN "crc" ELSE "write")
          /\ UNCHANGED att
  /\ UNCHANGED <<off, crc, file>> /\ Quiet

\* The transport raised: a new prompt is asked for first.
MdRaised(w) ==
  /\ pc[w] = "md" /\ sent[w] /\ sent' = [sent EXCEPT ![w] = FALSE] /\ Fault("raise")
  /\ Again(w, "nudge") /\ chunk' = [chunk EXCEPT ![w] = Zeros(w)]
  /\ UNCHANGED <<off, crc, file>> /\ UNCHANGED out /\ Quiet

\* Before the blocks an exception ends the dump; that of the nudge is caught.
SetupRaised(w) ==
  /\ pc[w] \in {"size", "probe", "read", "sanity", "detect", "nudge"} /\ sent[w]
  /\ sent' = [sent EXCEPT ![w] = FALSE] /\ Fault("raise")
  /\ Goto(w, IF pc[w] = "nudge" THEN "md" ELSE "failed")
  /\ UNCHANGED <<off, att, crc, chunk, file>> /\ UNCHANGED out /\ Quiet

Nudged(w) ==
  /\ pc[w] = "nudge" /\ Returned(w) /\ Goto(w, "md")
  /\ UNCHANGED <<off, att, crc, chunk, file>> /\ Quiet

\* Mutant: the CRC is asked for and not compared.
Verified_Always(w) == TRUE

\* _get_device_crc32: an answer without a CRC counts as verified.
Verified(w) ==
  \A i \in DOMAIN out :
    (out[i].k = "crc" /\ \A j \in 1..(i - 1) : out[j].k # "crc") => out[i].val = chunk[w]

CrcAnswered(w) ==
  /\ pc[w] = "crc" /\ Returned(w)
  /\ IF Verified(w) THEN Goto(w, "write") /\ UNCHANGED att ELSE Again(w, "md")
  /\ UNCHANGED <<off, crc, chunk, file>> /\ Quiet

CrcRaised(w) ==
  /\ pc[w] = "crc" /\ sent[w] /\ sent' = [sent EXCEPT ![w] = FALSE] /\ Fault("raise")
  /\ Goto(w, "write") /\ UNCHANGED <<off, att, crc, chunk, file>> /\ UNCHANGED out /\ Quiet

\* f.write at the offset, then is_cancelled.
Overwrite(f, at, d) ==
  [i \in 1..(IF Len(f) > at + Len(d) THEN Len(f) ELSE at + Len(d)) |->
     IF i > at /\ i <= at + Len(d) THEN d[i - at] ELSE f[i]]

Write(w) ==
  LET end == off[w] + Len(chunk[w]) IN
  /\ pc[w] = "write"
  /\ file' = [file EXCEPT ![FileOf(w)] = Overwrite(@, off[w], chunk[w])]
  /\ off' = [off EXCEPT ![w] = end] /\ att' = [att EXCEPT ![w] = 0]
  /\ Goto(w, IF ui = "tui" /\ ~ flag THEN "cancelled" ELSE IF end < Size THEN "md" ELSE "done")
  /\ UNCHANGED <<sent, crc, chunk, faults, kinds>> /\ UNCHANGED out /\ Quiet

---------------------------------------------------------------------------
(* The callers.                                                            *)

\* ctrl+d, or a run of defib dump-flash after the one before has ended.
StartDump(w) ==
  /\ pc[w] = "off" /\ \A v \in Runs : v < w => pc[v] # "off"
  /\ IF ui = "tui" THEN ~ flag /\ w <= MaxKeys ELSE \A v \in Runs : ~ Active(v)
  /\ flag' = TRUE /\ Goto(w, "start")
  /\ kinds' = kinds \cup (IF \E v \in Runs : Active(v) THEN {"overlap"} ELSE {})
  /\ UNCHANGED <<ui, hasCrc, cleaned, sent, off, att, crc, chunk, file, camera, faults, stopping>>

\* The Cancel button: the dumps that run then are to stop.
Cancel ==
  /\ ui = "tui" /\ flag /\ flag' = FALSE
  /\ stopping' = stopping \cup {w \in Runs : Active(w)}
  /\ UNCHANGED <<ui, hasCrc, cleaned, dump, file, camera, faults, kinds>>

\* The finally of _run_flash_dump: the flag, Ctrl-C and what is queued.  It is
\* an overlap when the next dump has been started by then.
CleanupAfterDump(w) ==
  /\ ui = "tui" /\ ~ Active(w) /\ pc[w] # "off" /\ w \notin cleaned
  /\ cleaned' = cleaned \cup {w}
  /\ flag' = FALSE /\ inbox' = <<>> /\ out' = <<>>
  /\ kinds' = kinds \cup (IF \E v \in Runs : Active(v) THEN {"overlap"} ELSE {})
  /\ UNCHANGED <<ui, hasCrc, dump, file, ram, hung, faults, stopping>>

\* The process of the CLI is killed: what the file's buffer held is lost.
\* The answer of a command under way comes late, in the next run.
Killed(w) ==
  /\ ui = "cli" /\ Active(w) /\ Goto(w, "failed")
  /\ Fault(IF sent[w] THEN "late" ELSE "kill")
  /\ \E n \in 0..Len(file[1]) : file' = [file EXCEPT ![1] = SubSeq(@, 1, n)]
  /\ sent' = [sent EXCEPT ![w] = FALSE]
  /\ UNCHANGED <<ui, hasCrc, flag, cleaned, off, att, crc, chunk, camera, stopping>>

Ended ==
  /\ \A w \in Runs : pc[w] \in {"done", "cancelled", "failed"} \/ (ui = "tui" /\ w > MaxKeys)
  /\ UNCHANGED vars

DumpStep(w) ==
  \/ Begin(w) \/ Send(w) \/ Detect(w) \/ Probe(w) \/ SfRead(w) \/ Sanity(w) \/ Resume(w)
  \/ MdAnswered(w) \/ Nudged(w) \/ CrcAnswered(w) \/ Write(w) \/ CleanupAfterDump(w)

Next ==
  \/ \E w \in Runs : StartDump(w) \/ DumpStep(w) \/ MdRaised(w) \/ CrcRaised(w) \/ SetupRaised(w) \/ Killed(w)
  \/ CameraRuns \/ CameraRefuses \/ Hang \/ Cancel \/ Ended

\* The dumps are coroutines of one event loop whose waits have timeouts.
Spec ==
  /\ Init /\ [][Next]_vars
  /\ WF_vars(CameraRuns) /\ \A w \in Runs : WF_vars(DumpStep(w))

---------------------------------------------------------------------------

TypeOK ==
  /\ flag \in BOOLEAN /\ sent \in [Runs -> BOOLEAN]
  /\ off \in [Runs -> Nat] /\ att \in [Runs -> 0..MaxRetries]
  /\ crc \in [Runs -> BOOLEAN] /\ file \in [Runs -> Seq(0..Damaged)]
  /\ faults \in 0..MaxFaults

\* Killed runs, refused commands, answers that lose their last lines and, with
\* crc32, any damage and any loss that leaves a block its first and its last
\* line never show in the file, as long as no more answers are hit than there
\* are retries: it is a prefix of the flash at every moment, cancelled or not,
\* over any number of runs that continue it, and the whole flash at the end.
\* (parse_md_output, the retries and the resumption in dump_flash.)  It is not
\* claimed for a "short" answer: its CRC is never asked for (flashdump.py:510).
FileIsFlash ==
  (kinds \subseteq ({"tail", "kill", "error"} \cup IF hasCrc THEN {"damage", "gap"} ELSE {}) /\ faults <= MaxRetries) =>
    \A w \in Runs :
      /\ IsPrefix(file[w], Flash)
      /\ (pc[w] = "done" /\ \A v \in Runs : v > w => pc[v] = "off") => file[FileOf(w)] = Flash

\* Every dump that is started ends, though the camera stops answering.
DumpEnds == \A w \in Runs : (pc[w] = "start") ~> ~ Active(w)

\* The comment in _dump_btn_action: after a Cancel the dump finishes its
\* block and stops.
CancelStops ==
  [][\A w \in stopping : (pc[w] = "write" /\ pc'[w] # "write") => pc'[w] = "cancelled"]_vars
=============================================================================
