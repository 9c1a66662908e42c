----------------------------- MODULE BootUpload -----------------------------
(***************************************************************************)
(* One stage of a firmware upload: a HEAD frame, n DATA frames and a TAIL  *)
(* frame, each acknowledged by one byte before the next is sent.           *)
(*                                                                         *)
(*   "blast"   standard, preceded by sendFrameForStart (U-Boot and DDR     *)
(*             step of the chips with a prestep); TAIL is best effort      *)
(*   "plain"   standard; TAIL is best effort (DDR step, U-Boot, and SPL    *)
(*             of the chips with a prestep)                                *)
(*   "strict"  standard; TAIL must be acknowledged (SPL without prestep)   *)
(*   "nak"     V500 and CV6xx: a NAK is answered by a retransmission,      *)
(*             silence ends the upload                                     *)
(*                                                                         *)
(* Frame 0 is HEAD, 1..n are DATA and n + 1 is TAIL; -1 is the frame of    *)
(* sendFrameForStart.  An acknowledgement carries nothing but itself, so   *)
(* one that comes too late passes for the next.  The boot ROM and the wire *)
(* are external.                                                           *)
(***************************************************************************)
EXTENDS Integers, Sequences

CONSTANTS
  Styles,                  \* of "blast", "plain", "strict", "nak"
  Lengths,                 \* numbers of DATA frames (1024 bytes each)
  SeqMod,                  \* sequence numbers are one byte: 256
  ShortTries, DataTries,   \* FRAME_SEND_RETRIES_SHORT, _LONG
  MaxNak,                  \* MAX_NAK_RETRIES
  MaxBlasts,               \* bound: blasts of sendFrameForStart in its 30 s
  MaxLost, MaxBad,         \* bounds: frames or answers lost; frames damaged
  MaxLate                  \* bound: answers that come after their timeout

ASSUME UploadAssumption ==
  /\ Styles \subseteq {"blast", "plain", "strict", "nak"}
  /\ Lengths \subseteq Nat \ {0}
  /\ SeqMod \in Nat /\ SeqMod > 1
  /\ ShortTries \in Nat \ {0} /\ DataTries \in Nat \ {0} /\ MaxNak \in Nat \ {0}
  /\ MaxBlasts \in Nat \ {0}
  /\ MaxLost \in Nat /\ MaxBad \in Nat /\ MaxLate \in Nat

VARIABLES
  style, n,          \* which code runs; DATA frames of the image
  pc, f, tries,      \* where it is; the frame it is at; times it was sent
  toRom, toHost,     \* frames and answers under way
  quiet,             \* the boot ROM leaves once it has all data, deaf to TAIL
  hdr, want, ram,    \* boot ROM: the HEAD it obeys, next frame, chunks stored
  lost, bad, late    \* history: what was lost, damaged, or came too late

hostVars == <<pc, f, tries>>
romVars  == <<hdr, want, ram>>
vars == <<style, n, hostVars, toRom, toHost, quiet, romVars, lost, bad, late>>

---------------------------------------------------------------------------
(* Frames.                                                                 *)

Kind(i) == IF i = 0 THEN "head" ELSE IF i = n + 1 THEN "tail" ELSE "data"

\* Mutant: the sequence number stops at its largest value.
Frame_Saturates(i) ==
  [t |-> Kind(i), seq |-> IF i < SeqMod THEN i ELSE SeqMod - 1, chunk |-> i, ok |-> TRUE]

Frame(i) ==
  [t |-> Kind(i), seq |-> i % SeqMod, chunk |-> i, ok |-> TRUE]

\* The HEAD that sendFrameForStart repeats: 64 bytes, at the DDR step's address.
StartFrame == [t |-> "start", seq |-> 0, chunk |-> 0, ok |-> TRUE]

\* Writing fr after what is left of the earlier output: it arrives, is damaged,
\* or is lost.
Write(rest, fr) ==
  \/ toRom' = Append(rest, fr) /\ UNCHANGED <<lost, bad>>
  \/ /\ bad < MaxBad /\ bad' = bad + 1
     /\ toRom' = Append(rest, [fr EXCEPT !.ok = FALSE])
     /\ UNCHANGED lost
  \/ /\ lost < MaxLost /\ lost' = lost + 1
     /\ toRom' = rest
     /\ UNCHANGED bad

\* flush_input forgets the answers that have arrived, not those under way.
FlushInput == \E k \in 0..Len(toHost) : toHost' = SubSeq(toHost, k + 1, Len(toHost))

\* flush_output forgets the frames that have not left yet.
FlushedWrite(fr) == \E k \in 0..Len(toRom) : Write(SubSeq(toRom, 1, k), fr)

TriesOf(i) ==
  IF i = -1 THEN MaxBlasts ELSE IF i \in 1..n THEN DataTries ELSE ShortTries

---------------------------------------------------------------------------
(* sendFrameForStart.                                                      *)

StartSend ==
  /\ pc = "blast"
  /\ pc' = "bwait" /\ tries' = tries + 1
  /\ Write(toRom, StartFrame)
  /\ UNCHANGED <<style, n, f, toHost, quiet, romVars, late>>

StartAck ==
  /\ pc = "bwait" /\ toHost # <<>> /\ Head(toHost) = "ack"
  /\ pc' = "send" /\ f' = 0 /\ tries' = 0
  /\ \E k \in 1..Len(toHost) : toHost' = SubSeq(toHost, k + 1, Len(toHost))
  /\ UNCHANGED <<style, n, toRom, quiet, romVars, lost, bad, late>>

StartAgain ==
  pc' = IF tries < TriesOf(f) THEN "blast" ELSE "failed"

\* Anything but an acknowledgement: the next blast follows at once.
StartStray ==
  /\ pc = "bwait" /\ toHost # <<>> /\ Head(toHost) # "ack"
  /\ toHost' = Tail(toHost) /\ StartAgain
  /\ UNCHANGED <<style, n, f, tries, toRom, quiet, romVars, lost, bad, late>>

---------------------------------------------------------------------------
(* Timeouts.  They are certain on a silent line; otherwise an answer is    *)
(* late.                                                                   *)

TimesOut ==
  IF toRom = <<>> /\ toHost = <<>> THEN UNCHANGED late
  ELSE late < MaxLate /\ late' = late + 1

StartTimeout ==
  /\ pc = "bwait" /\ TimesOut /\ StartAgain
  /\ UNCHANGED <<style, n, f, tries, toRom, toHost, quiet, romVars, lost, bad>>

---------------------------------------------------------------------------
(* _send_frame_with_retry and _send_frame_wait_ack.                        *)

\* Mutant: a DATA frame is best effort, too.
GiveUp_Lenient ==
  pc' = IF style \in {"blast", "plain"} /\ f > 0 THEN "done" ELSE "failed"

\* The frame has failed.  A TAIL that is best effort ends the stage all the same.
GiveUp ==
  pc' = IF style \in {"blast", "plain"} /\ f = n + 1 THEN "done" ELSE "failed"

\* One attempt of the standard protocol: flush both directions and write.
SendFlushed ==
  /\ pc = "send" /\ style # "nak"
  /\ pc' = "wait" /\ tries' = tries + 1
  /\ FlushInput
  /\ FlushedWrite(Frame(f))
  /\ UNCHANGED <<style, n, f, quiet, romVars, late>>

SendOnce ==
  /\ pc = "send" /\ style = "nak"
  /\ pc' = "wait"
  /\ Write(toRom, Frame(f))
  /\ UNCHANGED <<style, n, f, tries, toHost, quiet, romVars, late>>

Acked ==
  /\ pc = "wait" /\ toHost # <<>> /\ Head(toHost) = "ack"
  /\ toHost' = Tail(toHost)
  /\ tries' = 0
  /\ IF f = n + 1 THEN pc' = "done" /\ UNCHANGED f
     ELSE pc' = "send" /\ f' = f + 1
  /\ UNCHANGED <<style, n, toRom, quiet, romVars, lost, bad, late>>

\* The standard protocol ignores every other byte while it waits.
Stray ==
  /\ pc = "wait" /\ style # "nak" /\ toHost # <<>> /\ Head(toHost) # "ack"
  /\ toHost' = Tail(toHost)
  /\ UNCHANGED <<style, n, hostVars, toRom, quiet, romVars, lost, bad, late>>

\* Mutant: the frame is written again for ever.
Naked_NoLimit ==
  /\ pc = "wait" /\ style = "nak" /\ toHost # <<>> /\ Head(toHost) = "nak"
  /\ toHost' = Tail(toHost)
  /\ UNCHANGED <<tries, pc>>
  /\ Write(toRom, Frame(f))
  /\ UNCHANGED <<style, n, f, quiet, romVars, late>>

\* NAK: write it again.  The answer to the last retransmission is not read.
Naked ==
  /\ pc = "wait" /\ style = "nak" /\ toHost # <<>> /\ Head(toHost) = "nak"
  /\ toHost' = Tail(toHost)
  /\ tries' = tries + 1
  /\ pc' = IF tries + 1 < MaxNak THEN "wait" ELSE "failed"
  /\ Write(toRom, Frame(f))
  /\ UNCHANGED <<style, n, f, quiet, romVars, late>>

\* Mutant: the last retry is not made.
Timeout_OneLess ==
  /\ pc = "wait" /\ TimesOut
  /\ IF style # "nak" /\ tries + 1 < TriesOf(f) THEN pc' = "send" ELSE GiveUp
  /\ UNCHANGED <<style, n, f, tries, toRom, toHost, quiet, romVars, lost, bad>>

Timeout ==
  /\ pc = "wait" /\ TimesOut
  /\ IF style # "nak" /\ tries < TriesOf(f) THEN pc' = "send" ELSE GiveUp
  /\ UNCHANGED <<style, n, f, tries, toRom, toHost, quiet, romVars, lost, bad>>

---------------------------------------------------------------------------
(* The boot ROM.                                                           *)

\* How many DATA frames the HEAD it obeys has announced.
Need == IF hdr = "start" THEN 1 ELSE n

\* It runs what it was sent and no longer listens.
Gone == hdr # "none" /\ (want = Need + 2 \/ (quiet /\ want = Need + 1))

Answer(a) ==
  \/ toHost' = Append(toHost, a) /\ UNCHANGED lost
  \/ lost < MaxLost /\ lost' = lost + 1 /\ UNCHANGED toHost

IsHead(fr) == fr.ok /\ fr.t \in {"head", "start"}
IsNext(fr) ==
  /\ fr.ok /\ hdr # "none" /\ fr.seq = want % SeqMod
  /\ \/ fr.t = "data" /\ want <= Need
     \/ fr.t = "tail" /\ want = Need + 1
IsRepeat(fr) ==
  fr.ok /\ hdr # "none" /\ fr.t = "data" /\ want > 1 /\ fr.seq = (want - 1) % SeqMod

RomTakesHead ==
  /\ toRom # <<>> /\ ~Gone /\ IsHead(Head(toRom))
  /\ toRom' = Tail(toRom)
  /\ hdr' = IF Head(toRom).t = "start" THEN "start" ELSE "stage"
  /\ want' = 1 /\ ram' = <<>>
  /\ Answer("ack")
  /\ UNCHANGED <<style, n, hostVars, quiet, bad, late>>

RomTakesNext ==
  /\ toRom # <<>> /\ ~Gone /\ IsNext(Head(toRom))
  /\ toRom' = Tail(toRom)
  /\ want' = want + 1
  /\ ram' = IF Head(toRom).t = "data" THEN Append(ram, Head(toRom).chunk) ELSE ram
  /\ Answer("ack")
  /\ UNCHANGED <<style, n, hostVars, quiet, hdr, bad, late>>

\* The acknowledgement was lost: it is given again, and nothing is stored.
RomTakesRepeat ==
  /\ toRom # <<>> /\ ~Gone /\ IsRepeat(Head(toRom)) /\ ~IsNext(Head(toRom))
  /\ toRom' = Tail(toRom)
  /\ Answer("ack")
  /\ UNCHANGED <<style, n, hostVars, quiet, romVars, bad, late>>

\* Damaged, or not the frame it waits for.
RomRefuses ==
  /\ toRom # <<>> /\ ~Gone
  /\ LET fr == Head(toRom) IN ~(IsHead(fr) \/ IsNext(fr) \/ IsRepeat(fr))
  /\ toRom' = Tail(toRom)
  /\ Answer("nak")
  /\ UNCHANGED <<style, n, hostVars, quiet, romVars, bad, late>>

RomIgnores ==
  /\ toRom # <<>> /\ Gone
  /\ toRom' = Tail(toRom)
  /\ UNCHANGED <<style, n, hostVars, toHost, quiet, romVars, lost, bad, late>>

Stopped == pc \in {"done", "failed"} /\ toRom = <<>> /\ UNCHANGED vars

---------------------------------------------------------------------------
\* An answer of the handshake or of the stage before may still be under way.
Init ==
  /\ style \in Styles /\ n \in Lengths
  /\ IF style = "blast" THEN pc = "blast" /\ f = -1 ELSE pc = "send" /\ f = 0
  /\ tries = 0 /\ toRom = <<>>
  /\ quiet \in BOOLEAN /\ (quiet => style \in {"blast", "plain"})
  /\ \/ toHost = <<>> /\ late = 0
     \/ toHost = <<"ack">> /\ late = 1 /\ MaxLate > 0
  /\ hdr = "none" /\ want = 0 /\ ram = <<>>
  /\ lost = 0 /\ bad = 0

HostNext ==
  \/ StartSend \/ StartAck \/ StartStray \/ StartTimeout
  \/ SendFlushed \/ SendOnce \/ Acked \/ Stray \/ Naked \/ Timeout
RomNext ==
  RomTakesHead \/ RomTakesNext \/ RomTakesRepeat \/ RomRefuses \/ RomIgnores

Next == HostNext \/ RomNext \/ Stopped

Spec == Init /\ [][Next]_vars
FairSpec == Spec /\ WF_vars(HostNext) /\ WF_vars(RomNext)

---------------------------------------------------------------------------
Frames ==
  [t : {"start", "head", "data", "tail"}, seq : Nat, chunk : Nat, ok : BOOLEAN]

TypeOK ==
  /\ style \in Styles /\ n \in Lengths
  /\ pc \in {"blast", "bwait", "send", "wait", "done", "failed"}
  /\ f \in -1..(n + 1) /\ tries \in Nat
  /\ toRom \in Seq(Frames) /\ toHost \in Seq({"ack", "nak"})
  /\ quiet \in BOOLEAN /\ hdr \in {"none", "start", "stage"}
  /\ want \in 0..(n + 2) /\ ram \in Seq(Nat)
  /\ lost \in 0..MaxLost /\ bad \in 0..MaxBad /\ late \in 0..MaxLate

\* The image is in the boot ROM's memory: every chunk once, in order, where this
\* stage's HEAD wants it.
Complete == hdr = "stage" /\ ram = [i \in 1..n |-> i]

\* A stage that the protocol reports as sent is complete, whatever was lost or
\* damaged and however often frames were repeated, also when TAIL is best effort.
\* Unless an answer came later than its timeout.
Delivered == pc = "done" /\ late = 0 => Complete

\* What the boot ROM has stored is a prefix of the image at any time, also past
\* the wrap of the sequence number and with acknowledgements taken too early:
\* no chunk is stored twice, skipped or out of order.
StoredInOrder == ram = [i \in 1..Len(ram) |-> i] /\ Len(ram) <= n

\* The upload is not given up lightly: HEAD or DATA fails only after that many
\* transmissions were lost or damaged (V500 and CV6xx: one lost, or MaxNak damaged).
\* A deaf boot ROM that has left cannot repeat its answer to the last DATA frame.
RetriesSuffice ==
  pc = "failed" /\ late = 0 /\ f <= n /\ ~(quiet /\ f = n) =>
    IF style = "nak" THEN lost > 0 \/ bad >= MaxNak ELSE lost + bad >= TriesOf(f)

\* Every upload ends, whatever is lost: each wait is bounded and so are the retries.
UploadEnds == <>(pc \in {"done", "failed"})
=============================================================================
