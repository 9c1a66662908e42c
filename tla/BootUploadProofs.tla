-------------------------- MODULE BootUploadProofs --------------------------
(***************************************************************************)
(* Proofs about BootUpload, for images of every length, every number of    *)
(* retries and every number of lost and damaged frames.                    *)
(***************************************************************************)
EXTENDS BootUpload, TLAPS

\* Which frame goes with which part of the code.
PhaseInv ==
  /\ pc \in {"blast", "bwait"} => f = -1 /\ style = "blast"
  /\ pc \in {"send", "wait", "done"} => f \in Nat
  /\ pc = "done" => f = n + 1
  /\ style = "nak" => f \in Nat

\* The frame the host is at.
Current == IF f = -1 THEN StartFrame ELSE Frame(f)

\* What the boot ROM has, as long as no answer was late: nothing before HEAD, then
\* the frames before the one it waits for.
RomInv ==
  /\ hdr = "none" => want = 0 /\ ram = <<>>
  /\ hdr = "start" => want = 1 /\ ram = <<>>
  /\ hdr = "stage" => want > 0 /\ ram = [i \in 1..(IF want <= n THEN want - 1 ELSE n) |-> i]

\* The boot ROM waits for the frame the host is at, or has taken it already.
StepInv ==
  /\ f = -1 => hdr # "stage"
  /\ f = 0 /\ hdr = "stage" => want = 1
  /\ f > 0 => hdr = "stage" /\ (want = f \/ want = f + 1)

\* At most one frame or one answer is under way, and it is the current frame's.
Silent == toRom = <<>> /\ toHost = <<>>
GoodFrame == toRom = <<Current>> /\ toHost = <<>>
BadFrame == toRom = <<[Current EXCEPT !.ok = FALSE]>> /\ toHost = <<>>
AckUnderWay ==
  /\ toRom = <<>> /\ toHost = <<"ack">>
  /\ f = -1 => hdr = "start"
  /\ f >= 0 => hdr = "stage" /\ want = f + 1
NakUnderWay == toRom = <<>> /\ toHost = <<"nak">>

FlightInv ==
  /\ pc \in {"blast", "send"} => Silent
  /\ Silent \/ GoodFrame \/ BadFrame \/ AckUnderWay \/ NakUnderWay

\* Every attempt that was in vain has cost a frame or an answer.
Counted == f <= n /\ ~(quiet /\ f = n)
CountInv ==
  Counted =>
    /\ style # "nak" =>
         /\ pc \in {"blast", "send"} => lost + bad >= tries
         /\ pc \in {"bwait", "wait"} => lost + bad >= tries - 1
         /\ pc \in {"bwait", "wait"} /\ (Silent \/ BadFrame \/ NakUnderWay) =>
              lost + bad >= tries
    /\ style = "nak" /\ lost = 0 =>
         /\ pc = "send" => tries = 0
         /\ pc = "wait" => bad >= tries /\ ~Silent
         /\ pc = "wait" /\ (BadFrame \/ NakUnderWay) => bad > tries

PromptInv == RomInv /\ StepInv /\ FlightInv /\ CountInv /\ RetriesSuffice
IInv == TypeOK /\ PhaseInv /\ (late = 0 => PromptInv)

---------------------------------------------------------------------------
(* Lemmas about sequences of at most one element, and about the image.     *)

\* The first element is all there is.
LEMMA OneElement ==
  ASSUME NEW x
  PROVE  /\ Append(<<>>, x) = <<x>> /\ Head(<<x>>) = x /\ Tail(<<x>>) = <<>>
         /\ <<x>> # <<>>
OBVIOUS

\* Nothing can be flushed from nothing.
LEMMA NothingToFlush ==
  \A k \in 0..Len(<<>>) :
    SubSeq(<<>>, k + 1, Len(<<>>)) = <<>> /\ SubSeq(<<>>, 1, k) = <<>>
OBVIOUS

\* The next chunk extends the prefix of the image that is stored.
LEMMA ImageGrows ==
  ASSUME NEW m \in Nat
  PROVE  Append([i \in 1..m |-> i], m + 1) = [i \in 1..(m + 1) |-> i]
OBVIOUS

\* Successive frames have different sequence numbers.
LEMMA SeqDiffers ==
  ASSUME NEW i \in Nat
  PROVE  i % SeqMod # (i + 1) % SeqMod
<1> DEFINE a == i \div SeqMod  b == (i + 1) \div SeqMod  c == i % SeqMod
<1>1. SeqMod \in Nat /\ SeqMod > 1
  BY UploadAssumption
<1>2. a \in Int /\ b \in Int /\ c \in Int
  BY <1>1
<1> SUFFICES ASSUME c = (i + 1) % SeqMod PROVE FALSE
  OBVIOUS
<1>3. i = SeqMod * a + c /\ i + 1 = SeqMod * b + c
  BY <1>1
<1> HIDE DEF a, b, c
<1>4. SeqMod * (b - a) = 1
  BY <1>1, <1>2, <1>3
<1>5. CASE b - a <= 0
  BY <1>1, <1>2, <1>4, <1>5
<1>6. CASE b - a >= 1
  BY <1>1, <1>2, <1>4, <1>6
<1> QED
  BY <1>2, <1>5, <1>6

\* Parts of an output queue, and frames, are well-typed.
LEMMA FrameType ==
  ASSUME TypeOK
  PROVE  /\ StartFrame \in Frames
         /\ f \in Nat => Frame(f) \in Frames
         /\ \A fr \in Frames : [fr EXCEPT !.ok = FALSE] \in Frames
<1>1. f \in Nat => f % SeqMod \in Nat
  BY UploadAssumption
<1> QED
  BY <1>1 DEF TypeOK, Frames, StartFrame, Frame, Kind

\* Writing keeps the types of the queues and counters.
LEMMA WriteType ==
  ASSUME TypeOK, NEW rest \in Seq(Frames), NEW fr \in Frames, Write(rest, fr)
  PROVE  toRom' \in Seq(Frames) /\ lost' \in 0..MaxLost /\ bad' \in 0..MaxBad
<1>1. [fr EXCEPT !.ok = FALSE] \in Frames
  BY DEF Frames
<1>2. Append(rest, fr) \in Seq(Frames) /\ Append(rest, [fr EXCEPT !.ok = FALSE]) \in Seq(Frames)
  BY <1>1
<1>3. lost' \in 0..MaxLost /\ bad' \in 0..MaxBad
  BY UploadAssumption DEF TypeOK, Write
<1>4. toRom' = Append(rest, fr) \/ toRom' = Append(rest, [fr EXCEPT !.ok = FALSE])
      \/ toRom' = rest
  BY Zenon DEF Write
<1> QED
  BY <1>2, <1>3, <1>4, Zenon

\* Parts of queues are queues.
LEMMA QueueType ==
  ASSUME NEW S, NEW q \in Seq(S)
  PROVE  /\ \A k \in 0..Len(q) : SubSeq(q, k + 1, Len(q)) \in Seq(S)
         /\ \A k \in 0..Len(q) : SubSeq(q, 1, k) \in Seq(S)
         /\ q # <<>> => Tail(q) \in Seq(S) /\ Head(q) \in S
OBVIOUS

\* Answering keeps the types of the queue and the counter.
LEMMA AnswerType ==
  ASSUME TypeOK, NEW a \in {"ack", "nak"}, Answer(a)
  PROVE  toHost' \in Seq({"ack", "nak"}) /\ lost' \in 0..MaxLost
<1>1. Append(toHost, a) \in Seq({"ack", "nak"})
  BY DEF TypeOK
<1>2. lost' \in 0..MaxLost
  BY UploadAssumption DEF TypeOK, Answer
<1>3. toHost' = Append(toHost, a) \/ toHost' = toHost
  BY Zenon DEF Answer
<1> QED
  BY <1>1, <1>2, <1>3, Zenon DEF TypeOK

TypeInv == TypeOK /\ PhaseInv

\* Every step keeps the types, and the frame that goes with the phase.
LEMMA TypeStep == TypeInv /\ [Next]_vars => TypeInv'
<1> SUFFICES ASSUME TypeInv, [Next]_vars PROVE TypeInv'
  OBVIOUS
<1> USE UploadAssumption
<1>0. TypeOK /\ PhaseInv /\ n \in Nat /\ n > 0
  BY DEF TypeInv, TypeOK
<1>1. ASSUME StartSend PROVE TypeInv'
  <2>1. StartFrame \in Frames /\ toRom \in Seq(Frames)
    BY <1>0, FrameType DEF TypeOK
  <2>2. Write(toRom, StartFrame)
    BY <1>1 DEF StartSend
  <2>3. toRom' \in Seq(Frames) /\ lost' \in 0..MaxLost /\ bad' \in 0..MaxBad
    BY <1>0, <2>1, <2>2, WriteType
  <2> QED
    BY <1>0, <1>1, <2>3 DEF TypeInv, TypeOK, PhaseInv, StartSend, romVars
<1>2. ASSUME StartAck PROVE TypeInv'
  <2>1. toHost' \in Seq({"ack", "nak"})
    BY <1>0, <1>2, QueueType DEF TypeOK, StartAck
  <2> QED
    BY <1>0, <1>2, <2>1 DEF TypeInv, TypeOK, PhaseInv, StartAck, romVars
<1>3. ASSUME StartStray PROVE TypeInv'
  <2>1. toHost' \in Seq({"ack", "nak"})
    BY <1>0, <1>3, QueueType DEF TypeOK, StartStray
  <2> QED
    BY <1>0, <1>3, <2>1 DEF TypeInv, TypeOK, PhaseInv, StartStray, StartAgain, romVars
<1>4. ASSUME StartTimeout PROVE TypeInv'
  BY <1>0, <1>4 DEF TypeInv, TypeOK, PhaseInv, StartTimeout, StartAgain, TimesOut, romVars
<1>5. ASSUME SendFlushed PROVE TypeInv'
  <2>1. Frame(f) \in Frames
    BY <1>0, <1>5, FrameType DEF SendFlushed, PhaseInv
  <2>2. PICK k \in 0..Len(toRom) : Write(SubSeq(toRom, 1, k), Frame(f))
    BY <1>5 DEF SendFlushed, FlushedWrite
  <2>3. SubSeq(toRom, 1, k) \in Seq(Frames)
    BY <1>0, QueueType DEF TypeOK
  <2>4. toRom' \in Seq(Frames) /\ lost' \in 0..MaxLost /\ bad' \in 0..MaxBad
    BY <1>0, <2>1, <2>2, <2>3, WriteType
  <2>5. toHost' \in Seq({"ack", "nak"})
    BY <1>0, <1>5, QueueType DEF TypeOK, SendFlushed, FlushInput
  <2> QED
    BY <1>0, <1>5, <2>4, <2>5 DEF TypeInv, TypeOK, PhaseInv, SendFlushed, romVars
<1>6. ASSUME SendOnce PROVE TypeInv'
  <2>1. Frame(f) \in Frames /\ toRom \in Seq(Frames)
    BY <1>0, <1>6, FrameType DEF SendOnce, PhaseInv, TypeOK
  <2>2. Write(toRom, Frame(f))
    BY <1>6 DEF SendOnce
  <2>3. toRom' \in Seq(Frames) /\ lost' \in 0..MaxLost /\ bad' \in 0..MaxBad
    BY <1>0, <2>1, <2>2, WriteType
  <2> QED
    BY <1>0, <1>6, <2>3 DEF TypeInv, TypeOK, PhaseInv, SendOnce, romVars
<1>7. ASSUME Acked PROVE TypeInv'
  <2>1. toHost' \in Seq({"ack", "nak"})
    BY <1>0, <1>7, QueueType DEF TypeOK, Acked
  <2> QED
    BY <1>0, <1>7, <2>1 DEF TypeInv, TypeOK, PhaseInv, Acked, romVars
<1>8. ASSUME Stray PROVE TypeInv'
  <2>1. toHost' \in Seq({"ack", "nak"})
    BY <1>0, <1>8, QueueType DEF TypeOK, Stray
  <2> QED
    BY <1>0, <1>8, <2>1 DEF TypeInv, TypeOK, PhaseInv, Stray, hostVars, romVars
<1>9. ASSUME Naked PROVE TypeInv'
  <2>1. Frame(f) \in Frames /\ toRom \in Seq(Frames)
    BY <1>0, <1>9, FrameType DEF Naked, PhaseInv, TypeOK
  <2>2. Write(toRom, Frame(f))
    BY <1>9 DEF Naked
  <2>3. toRom' \in Seq(Frames) /\ lost' \in 0..MaxLost /\ bad' \in 0..MaxBad
    BY <1>0, <2>1, <2>2, WriteType
  <2>4. toHost' \in Seq({"ack", "nak"})
    BY <1>0, <1>9, QueueType DEF TypeOK, Naked
  <2> QED
    BY <1>0, <1>9, <2>3, <2>4 DEF TypeInv, TypeOK, PhaseInv, Naked, romVars
<1>10. ASSUME Timeout PROVE TypeInv'
  BY <1>0, <1>10 DEF TypeInv, TypeOK, PhaseInv, Timeout, GiveUp, TimesOut, romVars
<1>11. ASSUME RomTakesHead PROVE TypeInv'
  <2>1. toHost' \in Seq({"ack", "nak"}) /\ lost' \in 0..MaxLost
    BY <1>0, <1>11, AnswerType DEF RomTakesHead
  <2>2. toRom' \in Seq(Frames)
    BY <1>0, <1>11, QueueType DEF TypeOK, RomTakesHead
  <2> QED
    BY <1>0, <1>11, <2>1, <2>2 DEF TypeInv, TypeOK, PhaseInv, RomTakesHead, hostVars
<1>12. ASSUME RomTakesNext PROVE TypeInv'
  <2>1. toHost' \in Seq({"ack", "nak"}) /\ lost' \in 0..MaxLost
    BY <1>0, <1>12, AnswerType DEF RomTakesNext
  <2>2. toRom' \in Seq(Frames) /\ Head(toRom) \in Frames
    BY <1>0, <1>12, QueueType DEF TypeOK, RomTakesNext
  <2>3. ram' \in Seq(Nat)
    BY <1>0, <1>12, <2>2 DEF TypeOK, RomTakesNext, Frames
  <2>4. want' \in 0..(n + 2)
    BY <1>0, <1>12 DEF TypeOK, RomTakesNext, IsNext, Need
  <2> QED
    BY <1>0, <1>12, <2>1, <2>2, <2>3, <2>4 DEF TypeInv, TypeOK, PhaseInv, RomTakesNext, hostVars
<1>13. ASSUME RomTakesRepeat PROVE TypeInv'
  <2>1. toHost' \in Seq({"ack", "nak"}) /\ lost' \in 0..MaxLost
    BY <1>0, <1>13, AnswerType DEF RomTakesRepeat
  <2>2. toRom' \in Seq(Frames)
    BY <1>0, <1>13, QueueType DEF TypeOK, RomTakesRepeat
  <2> QED
    BY <1>0, <1>13, <2>1, <2>2 DEF TypeInv, TypeOK, PhaseInv, RomTakesRepeat, hostVars, romVars
<1>14. ASSUME RomRefuses PROVE TypeInv'
  <2>1. toHost' \in Seq({"ack", "nak"}) /\ lost' \in 0..MaxLost
    BY <1>0, <1>14, AnswerType DEF RomRefuses
  <2>2. toRom' \in Seq(Frames)
    BY <1>0, <1>14, QueueType DEF TypeOK, RomRefuses
  <2> QED
    BY <1>0, <1>14, <2>1, <2>2 DEF TypeInv, TypeOK, PhaseInv, RomRefuses, hostVars, romVars
<1>15. ASSUME RomIgnores PROVE TypeInv'
  <2>2. toRom' \in Seq(Frames)
    BY <1>0, <1>15, QueueType DEF TypeOK, RomIgnores
  <2> QED
    BY <1>0, <1>15, <2>2 DEF TypeInv, TypeOK, PhaseInv, RomIgnores, hostVars, romVars
<1>16. ASSUME UNCHANGED vars PROVE TypeInv'
  BY <1>0, <1>16 DEF TypeInv, TypeOK, PhaseInv, vars, hostVars, romVars
<1> QED
  BY <1>1, <1>2, <1>3, <1>4, <1>5, <1>6, <1>7, <1>8, <1>9, <1>10, <1>11, <1>12, <1>13,
     <1>14, <1>15, <1>16 DEF Next, HostNext, RomNext, Stopped

---------------------------------------------------------------------------
(* The steps that keep PromptInv, as long as no answer is late.            *)

\* What a write on a silent line leads to.
LEMMA WriteOnSilentLine ==
  ASSUME NEW fr, Write(<<>>, fr)
  PROVE  \/ toRom' = <<fr>> /\ lost' = lost /\ bad' = bad
         \/ toRom' = <<[fr EXCEPT !.ok = FALSE]>> /\ lost' = lost /\ bad' = bad + 1
         \/ toRom' = <<>> /\ lost' = lost + 1 /\ bad' = bad
<1>1. Append(<<>>, fr) = <<fr>>
  BY OneElement
<1>2. Append(<<>>, [fr EXCEPT !.ok = FALSE]) = <<[fr EXCEPT !.ok = FALSE]>>
  BY OneElement
<1> QED
  BY <1>1, <1>2, Zenon DEF Write

\* The current frame is intact, a damaged copy of it is another one, and neither
\* changes as long as the host is at the same frame.
LEMMA CurrentFrame ==
  ASSUME TypeInv
  PROVE  /\ Current.ok = TRUE
         /\ [Current EXCEPT !.ok = FALSE].ok = FALSE
         /\ f' = f /\ n' = n => Current' = Current
BY DEF Current, Frame, StartFrame, Kind

\* The counters are numbers, also in the next state.
LEMMA Numbers ==
  ASSUME TypeInv
  PROVE  /\ lost \in Nat /\ bad \in Nat /\ tries \in Nat /\ n \in Nat /\ n > 0
         /\ f \in Int /\ f >= -1 /\ f <= n + 1 /\ want \in Nat /\ want <= n + 2
BY UploadAssumption DEF TypeInv, TypeOK

\* What is under way is one of five things and no two of them.
LEMMA Distinct ==
  ASSUME TypeInv
  PROVE  /\ ~(Silent /\ (GoodFrame \/ BadFrame \/ AckUnderWay \/ NakUnderWay))
         /\ ~(GoodFrame /\ (BadFrame \/ AckUnderWay \/ NakUnderWay))
         /\ ~(BadFrame /\ (AckUnderWay \/ NakUnderWay))
         /\ ~(AckUnderWay /\ NakUnderWay)
<1>1. /\ <<Current>> # <<>> /\ <<[Current EXCEPT !.ok = FALSE]>> # <<>>
      /\ <<"ack">> # <<>> /\ <<"nak">> # <<>> /\ <<"ack">> # <<"nak">>
  OBVIOUS
<1>2. <<Current>> # <<[Current EXCEPT !.ok = FALSE]>>
  <2>1. Current # [Current EXCEPT !.ok = FALSE]
    BY CurrentFrame
  <2> QED
    BY <2>1
<1> QED
  BY <1>1, <1>2, Zenon DEF Silent, GoodFrame, BadFrame, AckUnderWay, NakUnderWay

\* A write of the current frame on a silent line.
LEMMA SendStep ==
  ASSUME TypeInv, TypeInv', PromptInv, Silent,
         Write(<<>>, Current), toHost' = <<>>, f' = f, n' = n, style' = style,
         quiet' = quiet, romVars' = romVars, late' = late,
         \/ /\ pc \in {"blast", "send"} /\ style # "nak" /\ tries' = tries + 1
            /\ pc' = IF pc = "blast" THEN "bwait" ELSE "wait"
         \/ pc = "send" /\ style = "nak" /\ tries' = tries /\ pc' = "wait"
  PROVE  PromptInv'
<1>1. \/ GoodFrame' /\ lost' = lost /\ bad' = bad
      \/ BadFrame' /\ lost' = lost /\ bad' = bad + 1
      \/ Silent' /\ lost' = lost + 1 /\ bad' = bad
  <2>1. Current' = Current
    BY CurrentFrame
  <2>2. \/ toRom' = <<Current>> /\ lost' = lost /\ bad' = bad
        \/ toRom' = <<[Current EXCEPT !.ok = FALSE]>> /\ lost' = lost /\ bad' = bad + 1
        \/ toRom' = <<>> /\ lost' = lost + 1 /\ bad' = bad
    BY WriteOnSilentLine
  <2> QED
    BY <2>1, <2>2, Zenon DEF GoodFrame, BadFrame, Silent
<1>2. RomInv' /\ StepInv'
  BY DEF PromptInv, RomInv, StepInv, romVars
<1>3. FlightInv'
  BY <1>1 DEF FlightInv
<1>4. CountInv'
  <2> SUFFICES ASSUME Counted' PROVE CountInv'
    BY DEF CountInv
  <2>1. Counted /\ CountInv
    BY DEF Counted, PromptInv
  <2>2. /\ ~(GoodFrame' /\ (Silent' \/ BadFrame' \/ NakUnderWay'))
        /\ ~(BadFrame' /\ Silent')
    BY Distinct, PTL
  <2>3. CASE GoodFrame' /\ lost' = lost /\ bad' = bad
    BY <2>1, <2>2, <2>3, Numbers DEF CountInv
  <2>4. CASE BadFrame' /\ lost' = lost /\ bad' = bad + 1
    BY <2>1, <2>2, <2>4, Numbers DEF CountInv
  <2>5. CASE Silent' /\ lost' = lost + 1 /\ bad' = bad
    BY <2>1, <2>2, <2>5, Numbers DEF CountInv
  <2> QED
    BY <1>1, <2>3, <2>4, <2>5
<1>5. RetriesSuffice'
  BY DEF RetriesSuffice
<1> QED
  BY <1>2, <1>3, <1>4, <1>5 DEF PromptInv

\* What an answer that is read tells, and what is left behind it.
LEMMA Reading ==
  ASSUME TypeInv, FlightInv, toHost # <<>>
  PROVE  /\ toRom = <<>> /\ Tail(toHost) = <<>>
         /\ Head(toHost) = "ack" => AckUnderWay
         /\ Head(toHost) # "ack" => NakUnderWay
<1>1. AckUnderWay \/ NakUnderWay
  BY DEF FlightInv, Silent, GoodFrame, BadFrame
<1>2. /\ Head(<<"ack">>) = "ack" /\ Head(<<"nak">>) = "nak"
      /\ Tail(<<"ack">>) = <<>> /\ Tail(<<"nak">>) = <<>>
  BY OneElement
<1>3. CASE AckUnderWay
  BY <1>2, <1>3, Zenon DEF AckUnderWay
<1>4. CASE NakUnderWay
  <2>1. "nak" # "ack"
    OBVIOUS
  <2> QED
    BY <1>2, <1>4, <2>1, Zenon DEF NakUnderWay
<1> QED
  BY <1>1, <1>3, <1>4

\* A timeout without a late answer is a silent line.
LEMMA Silence ==
  ASSUME TypeInv, TimesOut, late = 0, late' = 0
  PROVE  Silent
BY DEF TimesOut, Silent

\* The boot ROM takes or refuses the frame that is under way.
LEMMA RomStep ==
  ASSUME TypeInv, TypeInv', PromptInv, GoodFrame \/ BadFrame,
         n' = n, style' = style, quiet' = quiet, f' = f, pc' = pc, tries' = tries,
         bad' = bad, late' = late,
         \/ AckUnderWay' /\ lost' = lost
         \/ NakUnderWay' /\ lost' = lost /\ (Counted => BadFrame)
         \/ Silent' /\ lost' = lost + 1
         \/ Silent' /\ lost' = lost /\ ~Counted
  PROVE  FlightInv' /\ CountInv' /\ RetriesSuffice'
<1>1. ~Silent
  BY Distinct
<1>2. pc \notin {"blast", "send"}
  BY <1>1 DEF PromptInv, FlightInv
<1>3. FlightInv'
  BY <1>2 DEF FlightInv
<1>4. CountInv'
  <2> SUFFICES ASSUME Counted' PROVE CountInv'
    BY DEF CountInv
  <2>1. Counted /\ CountInv
    BY DEF Counted, PromptInv
  <2>2. /\ ~(AckUnderWay' /\ (Silent' \/ BadFrame' \/ NakUnderWay'))
        /\ ~(NakUnderWay' /\ Silent')
    BY Distinct, PTL
  <2>3. lost' \in Nat /\ lost \in Nat /\ bad \in Nat /\ tries \in Nat
    BY Numbers
  <2>4. CASE AckUnderWay' /\ lost' = lost
    BY <1>2, <2>1, <2>2, <2>3, <2>4 DEF CountInv
  <2>5. CASE NakUnderWay' /\ lost' = lost /\ BadFrame
    BY <1>2, <2>1, <2>2, <2>3, <2>5 DEF CountInv
  <2>6. CASE Silent' /\ lost' = lost + 1
    BY <1>2, <2>1, <2>2, <2>3, <2>6 DEF CountInv
  <2> QED
    BY <2>1, <2>4, <2>5, <2>6
<1>5. RetriesSuffice'
  <2>1. lost' \in Nat /\ lost \in Nat /\ bad \in Nat /\ lost' >= lost
    BY Numbers
  <2>2. TriesOf(f)' = TriesOf(f) /\ TriesOf(f) \in Nat
    BY UploadAssumption DEF TriesOf
  <2> QED
    BY <2>1, <2>2 DEF RetriesSuffice, PromptInv
<1> QED
  BY <1>3, <1>4, <1>5

\* An acknowledgement by the boot ROM, or its loss.
LEMMA AckGiven ==
  ASSUME TypeInv, GoodFrame, Answer("ack"), toRom' = Tail(toRom),
         f' = -1 => hdr' = "start",
         f' >= 0 => hdr' = "stage" /\ want' = f' + 1
  PROVE  \/ AckUnderWay' /\ lost' = lost
         \/ Silent' /\ lost' = lost + 1
<1>1. toRom' = <<>> /\ Append(<<>>, "ack") = <<"ack">>
  BY OneElement DEF GoodFrame
<1> QED
  BY <1>1, Zenon DEF Answer, GoodFrame, AckUnderWay, Silent

\* A boot ROM that has left was sent everything, as far as it can tell.
LEMMA GoneNotCounted ==
  ASSUME TypeInv, RomInv, StepInv, Gone
  PROVE  ~Counted
BY Numbers DEF RomInv, StepInv, Gone, Need, Counted, TypeInv, TypeOK

\* What is at the head of a queue that holds one frame.
LEMMA UnderWay ==
  ASSUME TypeInv, FlightInv, toRom # <<>>
  PROVE  /\ GoodFrame \/ BadFrame
         /\ Tail(toRom) = <<>>
         /\ GoodFrame => Head(toRom) = Current
         /\ BadFrame => Head(toRom).ok = FALSE
<1>1. GoodFrame \/ BadFrame
  BY DEF FlightInv, Silent, AckUnderWay, NakUnderWay
<1>2. GoodFrame => Head(toRom) = Current /\ Tail(toRom) = <<>>
  BY OneElement DEF GoodFrame
<1>3. BadFrame => Head(toRom) = [Current EXCEPT !.ok = FALSE] /\ Tail(toRom) = <<>>
  BY OneElement DEF BadFrame
<1> QED
  BY <1>1, <1>2, <1>3, CurrentFrame

---------------------------------------------------------------------------
(* One lemma for the host's steps and one for the boot ROM's.              *)

\* Every step of the host keeps PromptInv as long as no answer is late.
LEMMA HostStep ==
  ASSUME TypeInv, TypeInv', PromptInv, late = 0, late' = 0, HostNext
  PROVE  PromptInv'
<1>0. RomInv /\ StepInv /\ FlightInv /\ CountInv /\ RetriesSuffice /\ TypeOK /\ PhaseInv
  BY DEF PromptInv, TypeInv
<1>1. ASSUME StartSend PROVE PromptInv'
  <2>1. Silent /\ f = -1 /\ style = "blast"
    BY <1>0, <1>1 DEF StartSend, FlightInv, PhaseInv
  <2>2. Write(<<>>, Current) /\ toHost' = <<>>
    BY <1>1, <2>1 DEF StartSend, Silent, Current
  <2> QED
    BY <1>1, <2>1, <2>2, SendStep DEF StartSend
<1>2. ASSUME StartAck PROVE PromptInv'
  <2>1. AckUnderWay /\ f = -1
    BY <1>0, <1>2, Reading DEF StartAck, PhaseInv
  <2>2. Silent'
    BY <1>2, <2>1 DEF StartAck, AckUnderWay, Silent
  <2>3. RomInv' /\ StepInv'
    BY <1>0, <1>2, <2>1 DEF StartAck, RomInv, StepInv, AckUnderWay, romVars
  <2>4. FlightInv' /\ RetriesSuffice'
    BY <1>2, <2>2 DEF StartAck, FlightInv, RetriesSuffice
  <2>5. CountInv'
    BY <1>2, Numbers DEF StartAck, CountInv
  <2> QED
    BY <2>3, <2>4, <2>5 DEF PromptInv
<1>3. ASSUME StartStray \/ StartTimeout PROVE PromptInv'
  <2>1. NakUnderWay \/ Silent
    BY <1>0, <1>3, Reading, Silence DEF StartStray, StartTimeout
  <2>2. Silent'
    BY <1>0, <1>3, Reading, Silence DEF StartStray, StartTimeout, Silent
  <2>3. RomInv' /\ StepInv'
    BY <1>0, <1>3 DEF StartStray, StartTimeout, RomInv, StepInv, romVars
  <2>4. FlightInv'
    BY <2>2 DEF FlightInv
  <2>5. f = -1 /\ style = "blast" /\ Counted /\ lost + bad >= tries
    BY <1>0, <1>3, <2>1, Numbers DEF StartStray, StartTimeout, PhaseInv, CountInv, Counted
  <2>6. lost' = lost /\ bad' = bad /\ tries' = tries /\ f' = f /\ style' = style /\ n' = n
    BY <1>3 DEF StartStray, StartTimeout
  <2>7. CountInv'
    BY <1>3, <2>5, <2>6, Numbers DEF StartStray, StartTimeout, StartAgain, CountInv
  <2>8. RetriesSuffice'
    BY <1>3, <2>5, <2>6, Numbers, UploadAssumption
      DEF StartStray, StartTimeout, StartAgain, RetriesSuffice, TriesOf
  <2> QED
    BY <2>3, <2>4, <2>7, <2>8 DEF PromptInv
<1>5. ASSUME SendFlushed PROVE PromptInv'
  <2>1. Silent /\ Current = Frame(f)
    BY <1>0, <1>5 DEF SendFlushed, FlightInv, PhaseInv, Current
  <2>2. toHost' = <<>>
    BY <1>5, <2>1, NothingToFlush DEF SendFlushed, FlushInput, Silent
  <2>3. PICK k \in 0..Len(toRom) : Write(SubSeq(toRom, 1, k), Frame(f))
    BY <1>5 DEF SendFlushed, FlushedWrite
  <2>4. SubSeq(toRom, 1, k) = <<>>
    BY <2>1, NothingToFlush DEF Silent
  <2>5. Write(<<>>, Current)
    BY <2>1, <2>3, <2>4
  <2> QED
    BY <1>5, <2>1, <2>2, <2>5, SendStep DEF SendFlushed
<1>6. ASSUME SendOnce PROVE PromptInv'
  <2>1. Silent /\ Current = Frame(f)
    BY <1>0, <1>6 DEF SendOnce, FlightInv, PhaseInv, Current
  <2>2. Write(<<>>, Current) /\ toHost' = <<>>
    BY <1>6, <2>1 DEF SendOnce, Silent
  <2> QED
    BY <1>6, <2>1, <2>2, SendStep DEF SendOnce
<1>7. ASSUME Acked PROVE PromptInv'
  <2>1. AckUnderWay /\ f >= 0
    BY <1>0, <1>7, Reading, Numbers DEF Acked, PhaseInv
  <2>2. Silent'
    BY <1>0, <1>7, Reading DEF Acked, Silent
  <2>3. RomInv'
    BY <1>0, <1>7 DEF Acked, RomInv, romVars
  <2>4. StepInv'
    BY <1>0, <1>7, <2>1, Numbers DEF Acked, StepInv, AckUnderWay, romVars
  <2>5. FlightInv' /\ RetriesSuffice'
    BY <1>7, <2>2 DEF Acked, FlightInv, RetriesSuffice
  <2>6. CountInv'
    BY <1>7, Numbers DEF Acked, CountInv
  <2> QED
    BY <2>3, <2>4, <2>5, <2>6 DEF PromptInv
<1>8. ASSUME Stray PROVE PromptInv'
  <2>1. NakUnderWay /\ Silent'
    BY <1>0, <1>8, Reading DEF Stray, Silent
  <2>2. RomInv' /\ StepInv' /\ RetriesSuffice'
    BY <1>0, <1>8 DEF Stray, RomInv, StepInv, RetriesSuffice, TriesOf, romVars, hostVars
  <2>3. FlightInv'
    BY <1>8, <2>1 DEF Stray, FlightInv, hostVars
  <2>4. CountInv'
    <3>1. Counted' => Counted
      BY <1>8 DEF Stray, Counted, hostVars
    <3> QED
      BY <1>0, <1>8, <2>1, <3>1, Numbers DEF Stray, CountInv, hostVars
  <2> QED
    BY <2>2, <2>3, <2>4 DEF PromptInv
<1>9. ASSUME Naked PROVE PromptInv'
  <2>1. NakUnderWay /\ Current = Frame(f)
    BY <1>0, <1>9, Reading DEF Naked, PhaseInv, Current
  <2>2. toHost' = <<>> /\ Write(<<>>, Current)
    BY <1>0, <1>9, <2>1, Reading DEF Naked
  <2>3. Current' = Current
    BY <1>9, CurrentFrame DEF Naked
  <2>4. \/ GoodFrame' /\ lost' = lost /\ bad' = bad
        \/ BadFrame' /\ lost' = lost /\ bad' = bad + 1
        \/ Silent' /\ lost' = lost + 1 /\ bad' = bad
    BY <2>2, <2>3, WriteOnSilentLine, Zenon DEF GoodFrame, BadFrame, Silent
  <2>5. RomInv' /\ StepInv'
    BY <1>0, <1>9 DEF Naked, RomInv, StepInv, romVars
  <2>6. FlightInv'
    BY <1>9, <2>4 DEF Naked, FlightInv
  <2>7. ASSUME Counted' PROVE Counted /\ (lost = 0 => bad > tries)
    BY <1>0, <1>9, <2>1, <2>7 DEF Naked, Counted, CountInv
  <2>8. CountInv'
    <3>1. ~(GoodFrame' /\ (Silent' \/ BadFrame' \/ NakUnderWay')) /\ ~(BadFrame' /\ Silent')
      BY Distinct, PTL
    <3> QED
      BY <1>9, <2>4, <2>7, <3>1, Numbers DEF Naked, CountInv
  <2>9. RetriesSuffice'
    <3>1. f' <= n' /\ ~(quiet' /\ f' = n') => Counted'
      BY DEF Counted
    <3> QED
      BY <1>9, <2>4, <2>7, <3>1, Numbers, UploadAssumption DEF Naked, RetriesSuffice
  <2> QED
    BY <2>5, <2>6, <2>8, <2>9 DEF PromptInv
<1>10. ASSUME Timeout PROVE PromptInv'
  <2>1. Silent /\ Silent'
    BY <1>10, Silence DEF Timeout, Silent
  <2>2. RomInv' /\ StepInv'
    BY <1>0, <1>10 DEF Timeout, RomInv, StepInv, romVars
  <2>3. FlightInv'
    BY <2>1 DEF FlightInv
  <2>4. ASSUME Counted' PROVE Counted /\ CountInv
    BY <1>0, <1>10, <2>4 DEF Timeout, Counted
  <2>5. CountInv'
    BY <1>10, <2>1, <2>4, Numbers DEF Timeout, GiveUp, CountInv
  <2>6. RetriesSuffice'
    <3>1. f' <= n' /\ ~(quiet' /\ f' = n') => Counted'
      BY DEF Counted
    <3>2. TriesOf(f)' = TriesOf(f) /\ TriesOf(f) \in Nat
      BY <1>10, UploadAssumption DEF TriesOf, Timeout
    <3> QED
      BY <1>10, <2>1, <2>4, <3>1, <3>2, Numbers DEF Timeout, GiveUp, RetriesSuffice, CountInv
  <2> QED
    BY <2>2, <2>3, <2>5, <2>6 DEF PromptInv
<1> QED
  BY <1>1, <1>2, <1>3, <1>5, <1>6, <1>7, <1>8, <1>9, <1>10 DEF HostNext

\* Every step of the boot ROM keeps PromptInv as long as no answer is late.
LEMMA BootRomStep ==
  ASSUME TypeInv, TypeInv', PromptInv, late = 0, late' = 0, RomNext
  PROVE  PromptInv'
<1>0. RomInv /\ StepInv /\ FlightInv /\ CountInv /\ RetriesSuffice /\ TypeOK /\ PhaseInv
  BY DEF PromptInv, TypeInv
<1>1. ASSUME RomTakesHead PROVE PromptInv'
  <2>1. GoodFrame /\ Head(toRom) = Current
    BY <1>0, <1>1, UnderWay DEF RomTakesHead, IsHead
  <2>2. (f = -1 /\ hdr' = "start") \/ (f = 0 /\ hdr' = "stage")
    BY <1>1, <2>1, Numbers DEF RomTakesHead, IsHead, Current, StartFrame, Frame, Kind
  <2>3. RomInv' /\ StepInv'
    <3>1. [i \in 1..0 |-> i] = <<>>
      OBVIOUS
    <3>2. want' = 1 /\ ram' = <<>> /\ f' = f /\ n' = n
      BY <1>1 DEF RomTakesHead, hostVars
    <3> QED
      BY <2>2, <3>1, <3>2, Numbers DEF RomInv, StepInv
  <2>4. (AckUnderWay' /\ lost' = lost) \/ (Silent' /\ lost' = lost + 1)
    BY <1>1, <2>1, <2>2, AckGiven DEF RomTakesHead, hostVars
  <2>5. FlightInv' /\ CountInv' /\ RetriesSuffice'
    BY <1>1, <2>1, <2>4, RomStep DEF RomTakesHead, hostVars
  <2> QED
    BY <2>3, <2>5 DEF PromptInv
<1>2. ASSUME RomTakesNext PROVE PromptInv'
  <2>1. GoodFrame /\ Head(toRom) = Current
    BY <1>0, <1>2, UnderWay DEF RomTakesNext, IsNext
  <2>2. f > 0 /\ Current = Frame(f)
    BY <1>2, <2>1, Numbers DEF RomTakesNext, IsNext, Current, StartFrame, Frame, Kind
  <2>3. hdr = "stage" /\ want = f
    <3>1. hdr = "stage" /\ (want = f \/ want = f + 1)
      BY <1>0, <2>2 DEF StepInv
    <3>2. want # f + 1
      <4>1. CASE f = n + 1
        BY <1>2, <2>1, <2>2, <3>1, <4>1, Numbers DEF RomTakesNext, IsNext, Frame, Kind, Need
      <4>2. CASE f # n + 1
        <5>1. f % SeqMod # (f + 1) % SeqMod
          BY <2>2, Numbers, SeqDiffers
        <5> QED
          BY <1>2, <2>1, <2>2, <5>1 DEF RomTakesNext, IsNext, Frame
      <4> QED
        BY <4>1, <4>2
    <3> QED
      BY <3>1, <3>2
  <2>4. want' = f + 1 /\ hdr' = hdr /\ f' = f /\ n' = n
    BY <1>2, <2>3 DEF RomTakesNext, hostVars
  <2>5. StepInv'
    BY <2>2, <2>3, <2>4, Numbers DEF StepInv
  <2>6. RomInv'
    <3>1. CASE f <= n
      <4>1. ram = [i \in 1..(f - 1) |-> i]
        BY <1>0, <2>3, <3>1 DEF RomInv
      <4>2. ram' = Append(ram, f)
        BY <1>2, <2>1, <2>2, <3>1, Numbers DEF RomTakesNext, Frame, Kind
      <4>3. Append([i \in 1..(f - 1) |-> i], (f - 1) + 1) = [i \in 1..((f - 1) + 1) |-> i]
        <5>1. f - 1 \in Nat
          BY <2>2, Numbers
        <5> QED
          BY <5>1, ImageGrows
      <4>4. ram' = [i \in 1..f |-> i]
        BY <2>2, <4>1, <4>2, <4>3, Numbers
      <4> QED
        BY <2>2, <2>3, <2>4, <3>1, <4>4, Numbers DEF RomInv
    <3>2. CASE f = n + 1
      <4>1. ram' = ram
        BY <1>2, <2>1, <2>2, <3>2, Numbers DEF RomTakesNext, Frame, Kind
      <4> QED
        BY <1>0, <2>2, <2>3, <2>4, <3>2, <4>1, Numbers DEF RomInv
    <3> QED
      BY <3>1, <3>2, Numbers
  <2>7. (AckUnderWay' /\ lost' = lost) \/ (Silent' /\ lost' = lost + 1)
    BY <1>2, <2>1, <2>2, <2>3, <2>4, AckGiven DEF RomTakesNext
  <2>8. FlightInv' /\ CountInv' /\ RetriesSuffice'
    BY <1>2, <2>1, <2>7, RomStep DEF RomTakesNext, hostVars
  <2> QED
    BY <2>5, <2>6, <2>8 DEF PromptInv
<1>3. ASSUME RomTakesRepeat PROVE PromptInv'
  <2>1. GoodFrame /\ Head(toRom) = Current
    BY <1>0, <1>3, UnderWay DEF RomTakesRepeat, IsRepeat
  <2>2. f \in 1..n /\ Current = Frame(f)
    BY <1>3, <2>1, Numbers DEF RomTakesRepeat, IsRepeat, Current, StartFrame, Frame, Kind
  <2>3. hdr = "stage" /\ want = f + 1
    <3>1. hdr = "stage" /\ (want = f \/ want = f + 1)
      BY <1>0, <2>2, Numbers DEF StepInv
    <3>2. want # f
      BY <1>3, <2>1, <2>2, <3>1, Numbers
        DEF RomTakesRepeat, IsNext, Frame, Kind, Need
    <3> QED
      BY <3>1, <3>2
  <2>4. RomInv' /\ StepInv'
    BY <1>0, <1>3 DEF RomTakesRepeat, RomInv, StepInv, romVars, hostVars
  <2>5. (AckUnderWay' /\ lost' = lost) \/ (Silent' /\ lost' = lost + 1)
    BY <1>3, <2>1, <2>2, <2>3, AckGiven DEF RomTakesRepeat, romVars, hostVars
  <2>6. FlightInv' /\ CountInv' /\ RetriesSuffice'
    BY <1>3, <2>1, <2>5, RomStep DEF RomTakesRepeat, hostVars
  <2> QED
    BY <2>4, <2>6 DEF PromptInv
<1>4. ASSUME RomRefuses PROVE PromptInv'
  <2>1. GoodFrame \/ BadFrame
    BY <1>0, <1>4, UnderWay DEF RomRefuses
  <2>2. RomInv' /\ StepInv'
    BY <1>0, <1>4 DEF RomRefuses, RomInv, StepInv, romVars, hostVars
  <2>3. Counted => BadFrame
    <3> SUFFICES ASSUME Counted, GoodFrame PROVE FALSE
      BY <2>1
    <3>1. Head(toRom) = Current
      BY <1>0, <1>4, UnderWay DEF RomRefuses
    <3>2. CASE f <= 0
      BY <1>4, <3>1, <3>2, Numbers DEF RomRefuses, IsHead, Current, StartFrame, Frame, Kind
    <3>3. CASE f > 0
      <4>1. f \in 1..n /\ Current = Frame(f) /\ hdr = "stage"
        BY <1>0, <3>3, Numbers DEF Counted, Current, StepInv
      <4>2. CASE want = f
        BY <1>4, <3>1, <4>1, <4>2, Numbers DEF RomRefuses, IsNext, Frame, Kind, Need
      <4>3. CASE want = f + 1
        <5>1. (f + 1) - 1 = f /\ f + 1 > 1
          BY <4>1, Numbers
        <5> QED
          BY <1>4, <3>1, <4>1, <4>3, <5>1, Numbers DEF RomRefuses, IsRepeat, Frame, Kind
      <4> QED
        BY <1>0, <3>3, <4>2, <4>3 DEF StepInv
    <3> QED
      BY <3>2, <3>3, Numbers
  <2>4. (NakUnderWay' /\ lost' = lost) \/ (Silent' /\ lost' = lost + 1)
    <3>1. toRom' = <<>> /\ toHost = <<>> /\ Append(<<>>, "nak") = <<"nak">>
      BY <1>0, <1>4, <2>1, UnderWay, OneElement DEF RomRefuses, GoodFrame, BadFrame
    <3> QED
      BY <1>4, <3>1, Zenon DEF RomRefuses, Answer, NakUnderWay, Silent
  <2>5. FlightInv' /\ CountInv' /\ RetriesSuffice'
    BY <1>4, <2>1, <2>3, <2>4, RomStep DEF RomRefuses, hostVars
  <2> QED
    BY <2>2, <2>5 DEF PromptInv
<1>5. ASSUME RomIgnores PROVE PromptInv'
  <2>1. (GoodFrame \/ BadFrame) /\ ~Counted
    BY <1>0, <1>5, UnderWay, GoneNotCounted DEF RomIgnores
  <2>2. RomInv' /\ StepInv'
    BY <1>0, <1>5 DEF RomIgnores, RomInv, StepInv, romVars, hostVars
  <2>3. Silent' /\ lost' = lost
    BY <1>0, <1>5, <2>1, UnderWay DEF RomIgnores, GoodFrame, BadFrame, Silent
  <2>4. FlightInv' /\ CountInv' /\ RetriesSuffice'
    BY <1>5, <2>1, <2>3, RomStep DEF RomIgnores, hostVars
  <2> QED
    BY <2>2, <2>4 DEF PromptInv
<1> QED
  BY <1>1, <1>2, <1>3, <1>4, <1>5 DEF RomNext

---------------------------------------------------------------------------
\* No step makes up for a late answer.
LEMMA LateStays ==
  ASSUME TypeInv, [Next]_vars, late' = 0
  PROVE  late = 0
<1>1. late \in Nat
  BY UploadAssumption DEF TypeInv, TypeOK
<1>2. late' = late \/ late' = late + 1
  BY DEF Next, HostNext, RomNext, Stopped, StartSend, StartAck, StartStray, StartTimeout,
         TimesOut, SendFlushed, SendOnce, Acked, Stray, Naked, Timeout, RomTakesHead,
         RomTakesNext, RomTakesRepeat, RomRefuses, RomIgnores, vars
<1> QED
  BY <1>1, <1>2

\* The upload begins in IInv.
LEMMA Starts == Init => IInv
<1> SUFFICES ASSUME Init PROVE IInv
  OBVIOUS
<1>1. toRom \in Seq(Frames) /\ toHost \in Seq({"ack", "nak"}) /\ ram \in Seq(Nat)
  <2>1. <<>> \in Seq(Frames) /\ <<>> \in Seq({"ack", "nak"}) /\ <<>> \in Seq(Nat)
        /\ <<"ack">> \in Seq({"ack", "nak"})
    OBVIOUS
  <2> QED
    BY <2>1, Zenon DEF Init
<1>2. n \in Nat /\ n > 0
  BY UploadAssumption DEF Init
<1>3. TypeOK /\ PhaseInv
  BY <1>1, <1>2, UploadAssumption DEF Init, TypeOK, PhaseInv
<1>4. ASSUME late = 0 PROVE PromptInv
  <2>1. Silent
    BY <1>4 DEF Init, Silent
  <2>2. RomInv /\ StepInv /\ RetriesSuffice
    BY <1>2 DEF Init, RomInv, StepInv, RetriesSuffice
  <2>3. FlightInv
    BY <2>1 DEF FlightInv
  <2>4. CountInv
    BY DEF Init, CountInv
  <2> QED
    BY <2>2, <2>3, <2>4 DEF PromptInv
<1> QED
  BY <1>3, <1>4 DEF IInv

\* IInv is an invariant of the upload: every step of the host and of the boot ROM
\* preserves it.
THEOREM Inductive == Spec => []IInv
<1>1. ASSUME IInv, [Next]_vars PROVE IInv'
  <2>1. TypeInv
    BY <1>1 DEF IInv, TypeInv
  <2>2. TypeInv'
    BY <1>1, <2>1, TypeStep
  <2>3. ASSUME late' = 0 PROVE PromptInv'
    <3>1. late = 0 /\ PromptInv
      BY <1>1, <2>1, <2>3, LateStays DEF IInv
    <3>2. CASE HostNext
      BY <2>1, <2>2, <2>3, <3>1, <3>2, HostStep
    <3>3. CASE RomNext
      BY <2>1, <2>2, <2>3, <3>1, <3>3, BootRomStep
    <3>4. CASE UNCHANGED vars
      BY <3>1, <3>4 DEF vars, hostVars, romVars, PromptInv, RomInv, StepInv, FlightInv,
         CountInv, RetriesSuffice, Silent, GoodFrame, BadFrame, AckUnderWay, NakUnderWay,
         Counted, Current, Frame, StartFrame, Kind, TriesOf
    <3> QED
      BY <1>1, <3>2, <3>3, <3>4 DEF Next, Stopped
  <2> QED
    BY <2>2, <2>3 DEF IInv, TypeInv
<1> QED
  BY Starts, <1>1, PTL DEF Spec

\* Every variable keeps its type in every upload.
THEOREM TypeCorrect == Spec => []TypeOK
BY Inductive, PTL DEF IInv

\* A stage that is reported as sent is in the boot ROM's memory, for images of every
\* length and every number of lost and damaged frames, unless an answer was late.
THEOREM DeliveredHolds == Spec => []Delivered
<1>1. IInv => Delivered
  <2> SUFFICES ASSUME IInv, pc = "done", late = 0 PROVE Complete
    BY DEF Delivered
  <2>1. TypeInv /\ RomInv /\ StepInv /\ f = n + 1
    BY DEF IInv, TypeInv, PromptInv, PhaseInv
  <2>2. hdr = "stage" /\ want > n
    BY <2>1, Numbers DEF StepInv
  <2>3. ram = [i \in 1..n |-> i]
    BY <2>1, <2>2, Numbers DEF RomInv
  <2> QED
    BY <2>2, <2>3 DEF Complete
<1> QED
  BY Inductive, <1>1, PTL

\* A HEAD or DATA frame is given up only when as many transmissions as there are
\* retries were lost or damaged.
THEOREM RetriesHold == Spec => []RetriesSuffice
<1>1. IInv => RetriesSuffice
  BY DEF IInv, PromptInv, RetriesSuffice
<1> QED
  BY Inductive, <1>1, PTL
---------------------------------------------------------------------------
(* With late answers: the boot ROM still stores the image in order.        *)

\* The number of a frame: HEAD is 0, and the frame of sendFrameForStart before it.
Index(fr) == IF fr.t = "start" THEN -1 ELSE fr.chunk

\* Each late answer leaves at most one more frame or answer under way.
WindowInv ==
  Len(toRom) + Len(toHost) <= late + (IF pc \in {"blast", "send"} THEN 0 ELSE 1)

\* A frame under way is one of those up to the host's.  When its answer is read,
\* the host will be at most late frames ahead of it; and the boot ROM is at most
\* one frame past it.
FrameAt(j) ==
  /\ toRom[j].t # "start" => toRom[j].seq = toRom[j].chunk % SeqMod
  /\ toRom[j].t = "head" => toRom[j].chunk = 0
  /\ Index(toRom[j]) <= f
  /\ f + Len(toHost) + j - 1 <= late + Index(toRom[j])
  /\ want <= Index(toRom[j]) + 1 \/ want <= 1
FramesInv ==
  /\ \A j \in 1..Len(toRom) : FrameAt(j)
  /\ \A i, j \in 1..Len(toRom) : i < j => Index(toRom[i]) <= Index(toRom[j])

\* An acknowledgement is of a frame the boot ROM has taken, so it does not take
\* the host further ahead of the boot ROM than answers were late.
AheadInv ==
  /\ f <= want + late
  /\ want <= f + 1 \/ want <= 1
  /\ \A k \in 1..Len(toHost) : toHost[k] = "ack" => f + k <= want + late

\* What is stored are the chunks before the frame the boot ROM waits for.
StoreInv ==
  /\ hdr = "none" => want = 0 /\ ram = <<>>
  /\ hdr # "none" => want > 0 /\ ram = [i \in 1..(IF want <= Need THEN want - 1 ELSE Need) |-> i]

LateInv == WindowInv /\ FramesInv /\ AheadInv /\ StoreInv

\* Two frames closer to each other than the modulus have different sequence numbers.
LEMMA SameSeq ==
  ASSUME NEW i \in Nat, NEW j \in Nat, i % SeqMod = j % SeqMod, i - j < SeqMod, j - i < SeqMod
  PROVE  i = j
<1> DEFINE a == i \div SeqMod  b == j \div SeqMod  c == i % SeqMod
<1>1. SeqMod \in Nat /\ SeqMod > 1
  BY UploadAssumption
<1>2. a \in Int /\ b \in Int /\ c \in Int
  BY <1>1
<1>3. i = SeqMod * a + c /\ j = SeqMod * b + c
  BY <1>1
<1> HIDE DEF a, b, c
<1> DEFINE d == a - b
<1>4. d \in Int /\ i - j = SeqMod * d
  BY <1>1, <1>2, <1>3
<1> HIDE DEF d
<1>5. CASE d = 0
  BY <1>1, <1>4, <1>5
<1>6. CASE d >= 1
  <2>1. SeqMod * d >= SeqMod
    BY <1>1, <1>4, <1>6
  <2> QED
    BY <1>1, <1>4, <2>1
<1>7. CASE d <= -1
  <2>1. SeqMod * d <= -SeqMod
    BY <1>1, <1>4, <1>7
  <2> QED
    BY <1>1, <1>4, <2>1
<1> QED
  BY <1>4, <1>5, <1>6, <1>7

\* The front and the back of a queue.
LEMMA QueueParts ==
  ASSUME NEW S, NEW q \in Seq(S)
  PROVE  /\ \A m \in 0..Len(q) :
              /\ SubSeq(q, m + 1, Len(q)) \in Seq(S)
              /\ Len(SubSeq(q, m + 1, Len(q))) = Len(q) - m
              /\ \A i \in 1..Len(q)-m : SubSeq(q, m + 1, Len(q))[i] = q[m + i]
         /\ \A k \in 0..Len(q) :
              /\ SubSeq(q, 1, k) \in Seq(S) /\ Len(SubSeq(q, 1, k)) = k
              /\ \A i \in 1..k : SubSeq(q, 1, k)[i] = q[i]
OBVIOUS

LEMMA WholeQueue ==
  ASSUME NEW S, NEW q \in Seq(S)
  PROVE  /\ Len(q) \in 0..Len(q) /\ 0 \in 0..Len(q)
         /\ SubSeq(q, 1, Len(q)) = q /\ SubSeq(q, 0 + 1, Len(q)) = q
         /\ q # <<>> => /\ 1 \in 1..Len(q) /\ 1 \in 0..Len(q)
                        /\ Head(q) = q[1] /\ Tail(q) = SubSeq(q, 1 + 1, Len(q))
                        /\ Len(Tail(q)) = Len(q) - 1
                        /\ \A i \in 1..Len(q)-1 : Tail(q)[i] = q[i + 1]
OBVIOUS

\* What an element at the end of a queue adds.
LEMMA QueueAppend ==
  ASSUME NEW S, NEW q \in Seq(S), NEW e \in S
  PROVE  /\ Append(q, e) \in Seq(S) /\ Len(Append(q, e)) = Len(q) + 1
         /\ \A i \in 1..Len(q) : Append(q, e)[i] = q[i]
         /\ Append(q, e)[Len(q) + 1] = e
OBVIOUS

\* The numbers of the frames under way.
LEMMA IndexType ==
  ASSUME TypeOK
  PROVE  /\ \A j \in 1..Len(toRom) : toRom[j] \in Frames /\ Index(toRom[j]) \in Int
         /\ Len(toRom) \in Nat /\ Len(toHost) \in Nat
         /\ f \in Int /\ want \in Nat /\ late \in Nat /\ n \in Nat /\ n > 0
<1>1. toRom \in Seq(Frames) /\ toHost \in Seq({"ack", "nak"})
  BY DEF TypeOK
<1>2. \A j \in 1..Len(toRom) : toRom[j] \in Frames
  BY <1>1
<1>3. \A j \in 1..Len(toRom) : toRom[j].chunk \in Nat
  BY <1>2 DEF Frames
<1>4. \A j \in 1..Len(toRom) : Index(toRom[j]) \in Int
  BY <1>3 DEF Index
<1> QED
  BY <1>1, <1>2, <1>4, UploadAssumption DEF TypeOK

\* A frame as the host writes it.
WellFormed(fr) ==
  /\ fr \in Frames /\ Index(fr) \in Int
  /\ fr.t # "start" => fr.seq = fr.chunk % SeqMod
  /\ fr.t = "head" => fr.chunk = 0

\* A late answer more.
LEMMA AheadLater ==
  ASSUME NEW g \in Int, NEW w \in Nat, NEW l \in Nat, NEW r \in Nat, l <= r, g <= w + l
  PROVE  g <= w + r
OBVIOUS

\* Sums that are kept when the host moves on.
LEMMA Ahead ==
  ASSUME NEW g \in Int, NEW h \in Int, NEW w \in Nat, NEW l \in Nat, NEW r \in Nat, l <= r,
         NEW a \in Nat, NEW b \in Nat
  PROVE  /\ g <= h /\ (w <= g + 1 \/ w <= 1) => w <= h + 1 \/ w <= 1
         /\ h <= g + a /\ g + (a + b) <= w + l => h + b <= w + r
OBVIOUS

\* A frame is no further behind the host when answers are read.
LEMMA NoFurther ==
  ASSUME NEW g \in Int, NEW h \in Int, NEW x \in Int, NEW l \in Nat, NEW r \in Nat, l <= r,
         NEW q \in Nat, NEW p \in Int, NEW a \in Nat, NEW j \in Nat, p = q - a,
         g <= h, h <= g + a, x <= g, g + q + j - 1 <= l + x
  PROVE  x <= h /\ h + p + j - 1 <= r + x
OBVIOUS

\* What the host may do to the two queues: forget or read answers, and one
\* acknowledgement takes it to the next frame; forget frames and write its own.
LEMMA HostMoves ==
  ASSUME TypeOK, LateInv, UNCHANGED <<n, hdr, want, ram>>, late' \in Nat, late <= late',
         NEW m \in 0..Len(toHost), toHost' = SubSeq(toHost, m + 1, Len(toHost)),
         NEW k \in 0..Len(toRom), NEW fr, WellFormed(fr), Index(fr) = f',
         \/ toRom' = SubSeq(toRom, 1, k)
         \/ toRom' = Append(SubSeq(toRom, 1, k), fr) /\ k + Len(toHost') <= late',
         \/ f' = f
         \/ f' = f + 1 /\ m >= 1 /\ toHost[1] = "ack"
  PROVE  FramesInv' /\ AheadInv' /\ StoreInv'
<1>0. /\ FramesInv /\ AheadInv /\ StoreInv
      /\ toRom \in Seq(Frames) /\ toHost \in Seq({"ack", "nak"})
  BY DEF LateInv, TypeOK
<1>1. /\ Len(toRom) \in Nat /\ Len(toHost) \in Nat /\ f \in Int /\ want \in Nat /\ late \in Nat
      /\ m \in Nat /\ k \in Nat /\ f' \in Int /\ k <= Len(toRom) /\ m <= Len(toHost)
  BY IndexType
<1>2. /\ Len(toHost') = Len(toHost) - m
      /\ \A i \in 1..Len(toHost)-m : toHost'[i] = toHost[m + i]
  BY <1>0, QueueParts
<1> DEFINE front == SubSeq(toRom, 1, k)
<1>3. front \in Seq(Frames) /\ Len(front) = k /\ \A i \in 1..k : front[i] = toRom[i]
  BY <1>0, QueueParts
<1>4. f <= f' /\ f' <= f + m
  BY <1>1
<1>5. AheadInv'
  <2>1. f' <= want + late'
    <3>1. CASE f' = f
      <4>1. f <= want + late
        BY <1>0 DEF AheadInv
      <4> QED
        BY <1>1, <3>1, <4>1, AheadLater
    <3>2. CASE f' = f + 1 /\ m >= 1 /\ toHost[1] = "ack"
      <4>1. 1 \in 1..Len(toHost)
        BY <1>1, <3>2
      <4>2. f + 1 <= want + late
        BY <1>0, <3>2, <4>1 DEF AheadInv
      <4>3. f + 1 \in Int
        BY <1>1
      <4> QED
        BY <1>1, <3>2, <4>2, <4>3, AheadLater
    <3> QED
      BY <3>1, <3>2
  <2>2. want <= f' + 1 \/ want <= 1
    <3>1. want <= f + 1 \/ want <= 1
      BY <1>0 DEF AheadInv
    <3> QED
      BY <1>1, <1>4, <3>1, Ahead
  <2>3. ASSUME NEW i \in 1..Len(toHost'), toHost'[i] = "ack" PROVE f' + i <= want + late'
    <3>1. i \in 1..Len(toHost)-m /\ m + i \in 1..Len(toHost) /\ i \in Nat
      BY <1>1, <1>2
    <3>2. toHost[m + i] = "ack"
      BY <1>2, <2>3, <3>1
    <3>3. f + (m + i) <= want + late
      BY <1>0, <3>1, <3>2 DEF AheadInv
    <3> QED
      BY <1>1, <1>4, <3>1, <3>3, Ahead
  <2> QED
    BY <2>1, <2>2, <2>3 DEF AheadInv
<1>6. StoreInv'
  BY <1>0 DEF StoreInv, Need
<1>7. ASSUME NEW j \in 1..k
      PROVE  /\ front[j].t # "start" => front[j].seq = front[j].chunk % SeqMod
             /\ front[j].t = "head" => front[j].chunk = 0
             /\ Index(front[j]) <= f'
             /\ f' + Len(toHost') + j - 1 <= late' + Index(front[j])
             /\ want <= Index(front[j]) + 1 \/ want <= 1
             /\ Index(front[j]) \in Int
  <2>1. j \in 1..Len(toRom) /\ j \in Nat /\ front[j] = toRom[j]
    BY <1>1, <1>3
  <2>2. FrameAt(j) /\ Index(toRom[j]) \in Int
    BY <1>0, <2>1, IndexType DEF FramesInv
  <2>3. /\ Index(toRom[j]) <= f /\ f + Len(toHost) + j - 1 <= late + Index(toRom[j])
        /\ want <= Index(toRom[j]) + 1 \/ want <= 1
    BY <2>2 DEF FrameAt
  <2>4. /\ Index(toRom[j]) <= f' /\ f' + Len(toHost') + j - 1 <= late' + Index(toRom[j])
    <3>1. Len(toHost') \in Int /\ Len(toHost') = Len(toHost) - m
      BY <1>1, <1>2
    <3> DEFINE x == Index(toRom[j])
    <3>2. x \in Int /\ x <= f /\ f + Len(toHost) + j - 1 <= late + x
      BY <2>2, <2>3
    <3> HIDE DEF x
    <3>3. x <= f' /\ f' + Len(toHost') + j - 1 <= late' + x
      BY <1>1, <1>4, <2>1, <3>1, <3>2, NoFurther
    <3> QED
      BY <3>3 DEF x
  <2> QED
    BY <2>1, <2>2, <2>3, <2>4 DEF FrameAt
<1>8. ASSUME NEW i \in 1..k, NEW j \in 1..k, i < j PROVE Index(front[i]) <= Index(front[j])
  <2>1. i \in 1..Len(toRom) /\ j \in 1..Len(toRom)
    BY <1>1
  <2> QED
    BY <1>0, <1>3, <1>8, <2>1 DEF FramesInv
<1>9. FramesInv'
  <2>1. CASE toRom' = front
    <3>1. \A j \in 1..Len(toRom') : FrameAt(j)'
      BY <1>3, <1>7, <2>1 DEF FrameAt
    <3> QED
      BY <1>3, <1>8, <2>1, <3>1 DEF FramesInv
  <2>2. CASE toRom' = Append(front, fr) /\ k + Len(toHost') <= late'
    <3>1. /\ Len(toRom') = k + 1 /\ toRom'[k + 1] = fr
          /\ \A i \in 1..k : toRom'[i] = front[i]
      BY <1>3, <2>2, QueueAppend DEF WellFormed
    <3>2. ASSUME NEW j \in 1..k PROVE FrameAt(j)'
      BY <1>7, <3>1 DEF FrameAt
    <3>3. FrameAt(k + 1)'
      <4>1. f' + Len(toHost') + (k + 1) - 1 <= late' + Index(fr)
        BY <1>1, <1>2, <2>2
      <4>2. want <= Index(fr) + 1 \/ want <= 1
        BY <1>5 DEF AheadInv
      <4>3. Index(fr) <= f'
        BY <1>1
      <4> QED
        BY <3>1, <4>1, <4>2, <4>3 DEF FrameAt, WellFormed
    <3>4. \A j \in 1..Len(toRom') : FrameAt(j)'
      <4> TAKE j \in 1..Len(toRom')
      <4>1. j \in 1..k \/ j = k + 1
        BY <1>1, <3>1
      <4> QED
        BY <3>2, <3>3, <4>1
    <3>5. ASSUME NEW i \in 1..Len(toRom'), NEW j \in 1..Len(toRom'), i < j
          PROVE  Index(toRom'[i]) <= Index(toRom'[j])
      <4>1. i \in 1..k
        BY <1>1, <3>1, <3>5
      <4>2. CASE j \in 1..k
        BY <1>8, <3>1, <3>5, <4>1, <4>2
      <4>3. CASE j = k + 1
        BY <1>7, <3>1, <4>1, <4>3
      <4> QED
        BY <1>1, <3>1, <4>2, <4>3
    <3> QED
      BY <3>4, <3>5 DEF FramesInv
  <2> QED
    BY <2>1, <2>2
<1> QED
  BY <1>5, <1>6, <1>9

\* A frame more.
LEMMA AheadMore ==
  ASSUME NEW g \in Int, NEW w \in Nat, NEW v \in Nat, NEW l \in Nat, w <= v, g <= w + l
  PROVE  g <= v + l
OBVIOUS

\* What the boot ROM does to the two queues: it takes a frame, and may answer.
LEMMA RomMoves ==
  ASSUME TypeOK, LateInv, UNCHANGED <<pc, f, late>>, toRom # <<>>, toRom' = Tail(toRom),
         want' \in Nat, want <= want',
         want' <= Index(Head(toRom)) + 1 \/ want' <= 1,
         NEW a \in {"ack", "nak"}, toHost' = toHost \/ toHost' = Append(toHost, a),
         toHost' # toHost /\ a = "ack" => Index(Head(toRom)) + 1 <= want'
  PROVE  WindowInv' /\ FramesInv' /\ AheadInv'
<1>0. /\ WindowInv /\ FramesInv /\ AheadInv
      /\ toRom \in Seq(Frames) /\ toHost \in Seq({"ack", "nak"})
  BY DEF LateInv, TypeOK
<1>1. /\ Len(toRom) \in Nat /\ Len(toHost) \in Nat /\ f \in Int /\ want \in Nat /\ late \in Nat
  BY IndexType
<1>2. /\ 1 \in 1..Len(toRom) /\ Head(toRom) = toRom[1] /\ Len(toRom') = Len(toRom) - 1
      /\ \A i \in 1..Len(toRom)-1 : toRom'[i] = toRom[i + 1]
  BY <1>0, WholeQueue
<1>3. Len(toHost') \in Nat /\ Len(toHost') <= Len(toHost) + 1
  <2>1. Len(Append(toHost, a)) = Len(toHost) + 1
    BY <1>0, QueueAppend
  <2>2. Len(toHost') = Len(toHost) \/ Len(toHost') = Len(toHost) + 1
    BY <2>1
  <2> QED
    BY <1>1, <2>2
<1> DEFINE x == Index(Head(toRom))
<1>4. /\ x \in Int /\ x <= f /\ f + Len(toHost) + 1 - 1 <= late + x
  <2>1. FrameAt(1) /\ Index(toRom[1]) \in Int
    BY <1>0, <1>2, IndexType DEF FramesInv
  <2> QED
    BY <1>2, <2>1 DEF FrameAt
<1>5. want' <= x + 1 \/ want' <= 1
  OBVIOUS
<1>6. toHost' # toHost /\ a = "ack" => x + 1 <= want'
  OBVIOUS
<1> HIDE DEF x
<1>7. WindowInv'
  <2>1. Len(toRom) + Len(toHost) <= late + (IF pc \in {"blast", "send"} THEN 0 ELSE 1)
    BY <1>0 DEF WindowInv
  <2>2. Len(toRom') + Len(toHost') <= Len(toRom) + Len(toHost)
    BY <1>1, <1>2, <1>3
  <2>3. /\ Len(toRom') + Len(toHost') \in Int /\ Len(toRom) + Len(toHost) \in Int
        /\ late + (IF pc \in {"blast", "send"} THEN 0 ELSE 1) \in Int
    BY <1>1, <1>2, <1>3
  <2>4. Len(toRom') + Len(toHost') <= late + (IF pc \in {"blast", "send"} THEN 0 ELSE 1)
    BY <2>1, <2>2, <2>3
  <2> QED
    BY <2>4 DEF WindowInv
<1>8. AheadInv'
  <2>1. f <= want' + late
    <3>1. f <= want + late
      BY <1>0 DEF AheadInv
    <3> QED
      BY <1>1, <3>1, AheadMore
  <2>2. want' <= f + 1 \/ want' <= 1
    BY <1>1, <1>4, <1>5
  <2>3. ASSUME NEW k \in 1..Len(toHost'), toHost'[k] = "ack" PROVE f + k <= want' + late
    <3>1. CASE k \in 1..Len(toHost)
      <4>0. Append(toHost, a)[k] = toHost[k]
        BY <1>0, <3>1, QueueAppend
      <4>1. toHost'[k] = toHost[k]
        BY <4>0
      <4>2. f + k <= want + late
        BY <1>0, <2>3, <3>1, <4>1 DEF AheadInv
      <4>3. f + k \in Int
        BY <1>1
      <4> QED
        BY <1>1, <4>2, <4>3, AheadMore
    <3>2. CASE k \notin 1..Len(toHost)
      <4>1. k = Len(toHost) + 1 /\ toHost' # toHost
        BY <1>1, <1>3, <3>2
      <4>2. toHost' = Append(toHost, a)
        BY <4>1
      <4>3. a = "ack"
        BY <1>0, <2>3, <4>1, <4>2, QueueAppend
      <4>4. x + 1 <= want'
        BY <1>6, <4>1, <4>3
      <4>5. f + (Len(toHost) + 1) <= want' + late
        BY <1>1, <1>4, <4>4
      <4> QED
        BY <4>1, <4>5
    <3> QED
      BY <3>1, <3>2
  <2> QED
    BY <2>1, <2>2, <2>3 DEF AheadInv
<1>9. FramesInv'
  <2>1. ASSUME NEW j \in 1..Len(toRom') PROVE FrameAt(j)'
    <3>1. /\ j \in Nat /\ 1 < j + 1 /\ j + 1 \in 1..Len(toRom) /\ toRom'[j] = toRom[j + 1]
      BY <1>1, <1>2
    <3>2. FrameAt(j + 1) /\ Index(toRom[j + 1]) \in Int
      BY <1>0, <3>1, IndexType DEF FramesInv
    <3> DEFINE y == Index(toRom[j + 1])
    <3>3. x <= y
      BY <1>0, <1>2, <3>1 DEF FramesInv, x
    <3>4. /\ y \in Int /\ y <= f /\ f + Len(toHost) + (j + 1) - 1 <= late + y
      BY <3>2 DEF FrameAt
    <3> HIDE DEF y
    <3>5. f + Len(toHost') + j - 1 <= late + y
      BY <1>1, <1>3, <3>1, <3>4
    <3>6. want' <= y + 1 \/ want' <= 1
      BY <1>4, <1>5, <3>3, <3>4
    <3>7. y = Index(toRom'[j])
      BY <3>1 DEF y
    <3>8. /\ toRom'[j].t # "start" => toRom'[j].seq = toRom'[j].chunk % SeqMod
          /\ toRom'[j].t = "head" => toRom'[j].chunk = 0
      BY <3>1, <3>2 DEF FrameAt
    <3> QED
      BY <3>4, <3>5, <3>6, <3>7, <3>8 DEF FrameAt
  <2>2. ASSUME NEW i \in 1..Len(toRom'), NEW j \in 1..Len(toRom'), i < j
        PROVE  Index(toRom'[i]) <= Index(toRom'[j])
    <3>1. /\ i + 1 \in 1..Len(toRom) /\ j + 1 \in 1..Len(toRom) /\ i + 1 < j + 1
          /\ toRom'[i] = toRom[i + 1] /\ toRom'[j] = toRom[j + 1]
      BY <1>1, <1>2, <2>2
    <3>2. Index(toRom[i + 1]) <= Index(toRom[j + 1])
      BY <1>0, <3>1 DEF FramesInv
    <3> QED
      BY <3>1, <3>2
  <2> QED
    BY <2>1, <2>2 DEF FramesInv
<1> QED
  BY <1>7, <1>8, <1>9

\* As long as fewer answers are late than there are sequence numbers, less one, a
\* frame that looks like the one the boot ROM waits for is it, and one that
\* looks like a repetition of the one before is one.
LEMMA NoAlias ==
  ASSUME MaxLate + 1 < SeqMod, TypeOK, LateInv, toRom # <<>>, hdr # "none"
  PROVE  /\ IsNext(Head(toRom)) => Head(toRom).chunk = want /\ Index(Head(toRom)) = want
         /\ IsRepeat(Head(toRom)) => Index(Head(toRom)) = want - 1
<1>0. FramesInv /\ AheadInv /\ StoreInv /\ toRom \in Seq(Frames)
  BY DEF LateInv, TypeOK
<1>1. /\ f \in Int /\ want \in Nat /\ late \in 0..MaxLate /\ want > 0
      /\ MaxLate \in Nat /\ SeqMod \in Nat
  BY <1>0, IndexType, UploadAssumption DEF TypeOK, StoreInv
<1>2. 1 \in 1..Len(toRom) /\ Head(toRom) = toRom[1]
  BY <1>0, WholeQueue
<1>3. FrameAt(1) /\ toRom[1] \in Frames
  BY <1>0, <1>2, IndexType DEF FramesInv
<1> DEFINE i == Head(toRom).chunk
<1>4. i \in Nat
  BY <1>2, <1>3 DEF Frames
<1> SUFFICES ASSUME Head(toRom).t # "start"
             PROVE  /\ Head(toRom).seq = want % SeqMod => i = want /\ Index(Head(toRom)) = want
                    /\ Head(toRom).seq = (want - 1) % SeqMod => Index(Head(toRom)) = want - 1
  BY DEF IsNext, IsRepeat
<1>5. Index(Head(toRom)) = i /\ Head(toRom).seq = i % SeqMod
  BY <1>2, <1>3 DEF Index, FrameAt
<1>6. i <= f /\ (want <= i + 1 \/ want <= 1)
  BY <1>2, <1>3, <1>5 DEF FrameAt
<1>7. f <= want + late
  BY <1>0 DEF AheadInv
<1> HIDE DEF i
<1>8. i <= want + MaxLate /\ want <= i + 1
  BY <1>1, <1>4, <1>6, <1>7
<1>9. Head(toRom).seq = want % SeqMod => i = want
  <2>1. i - want < SeqMod /\ want - i < SeqMod
    BY <1>1, <1>4, <1>8, UploadAssumption
  <2> QED
    BY <1>1, <1>4, <1>5, <2>1, SameSeq
<1>10. Head(toRom).seq = (want - 1) % SeqMod => i = want - 1
  <2>1. want - 1 \in Nat /\ i - (want - 1) < SeqMod /\ (want - 1) - i < SeqMod
    BY <1>1, <1>4, <1>8, UploadAssumption
  <2> QED
    BY <1>4, <1>5, <2>1, SameSeq
<1> QED
  BY <1>5, <1>9, <1>10

\* Every step of the boot ROM.
LEMMA LateRomStep ==
  ASSUME MaxLate + 1 < SeqMod, TypeOK, TypeOK', LateInv, RomNext
  PROVE  LateInv'
<1>0. /\ FramesInv /\ AheadInv /\ StoreInv /\ toRom \in Seq(Frames)
      /\ want \in Nat /\ want' \in Nat /\ n \in Nat /\ n > 0
  BY UploadAssumption DEF LateInv, TypeOK
<1>1. toRom # <<>> /\ toRom' = Tail(toRom) /\ UNCHANGED <<style, n, pc, f, late>>
  BY DEF RomNext, RomTakesHead, RomTakesNext, RomTakesRepeat, RomRefuses, RomIgnores, hostVars
<1> DEFINE fr == Head(toRom)
<1>2. /\ 1 \in 1..Len(toRom) /\ fr = toRom[1] /\ FrameAt(1) /\ Index(fr) \in Int /\ fr \in Frames
  BY <1>0, <1>1, WholeQueue, IndexType DEF FramesInv
<1>3. /\ want <= Index(fr) + 1 \/ want <= 1
      /\ fr.t = "head" => fr.chunk = 0
  BY <1>2 DEF FrameAt
<1> HIDE DEF fr
<1>4. \A a : Answer(a) => toHost' = toHost \/ toHost' = Append(toHost, a)
  BY DEF Answer
<1>5. CASE RomTakesHead
  <2>1. fr.t \in {"head", "start"} /\ want' = 1 /\ ram' = <<>> /\ hdr' \in {"start", "stage"}
        /\ Answer("ack")
    BY <1>5 DEF RomTakesHead, IsHead, fr
  <2>2. Index(fr) <= 0
    BY <1>3, <2>1 DEF Index
  <2>3. want <= 1
    BY <1>0, <1>2, <1>3, <2>2
  <2>4. Index(fr) + 1 <= want'
    BY <1>2, <2>1, <2>2
  <2>5. want <= want' /\ want' <= 1
    BY <2>1, <2>3
  <2>6. WindowInv' /\ FramesInv' /\ AheadInv'
    BY <1>0, <1>1, <1>4, <2>1, <2>4, <2>5, RomMoves DEF fr
  <2>7. StoreInv'
    <3>1. Need' \in Nat /\ Need' >= 1
      BY <1>0, <1>1 DEF Need
    <3>2. (IF want' <= Need' THEN want' - 1 ELSE Need') = 0
      BY <2>1, <3>1
    <3>3. [i \in 1..0 |-> i] = <<>>
      OBVIOUS
    <3> QED
      BY <2>1, <3>2, <3>3 DEF StoreInv
  <2> QED
    BY <2>6, <2>7 DEF LateInv
<1>6. CASE RomTakesNext
  <2>1. /\ IsNext(fr) /\ hdr # "none" /\ want' = want + 1 /\ hdr' = hdr /\ Answer("ack")
        /\ ram' = IF fr.t = "data" THEN Append(ram, fr.chunk) ELSE ram
    BY <1>6 DEF RomTakesNext, IsNext, fr
  <2>2. fr.chunk = want /\ Index(fr) = want
    BY <1>1, <2>1, NoAlias DEF fr
  <2>3. want <= want' /\ want' <= Index(fr) + 1 /\ Index(fr) + 1 <= want'
    BY <1>0, <2>1, <2>2
  <2>4. WindowInv' /\ FramesInv' /\ AheadInv'
    BY <1>0, <1>1, <1>4, <2>1, <2>3, RomMoves DEF fr
  <2>5. StoreInv'
    <3>1. Need' = Need /\ Need \in Nat /\ want > 0
      BY <1>0, <1>1, <2>1 DEF Need, StoreInv
    <3>2. ram = [i \in 1..(IF want <= Need THEN want - 1 ELSE Need) |-> i]
      BY <1>0, <2>1 DEF StoreInv
    <3>3. CASE fr.t = "data"
      <4>1. want <= Need
        BY <2>1, <3>3 DEF IsNext
      <4>2. want - 1 \in Nat /\ (want - 1) + 1 = want
        BY <1>0, <3>1
      <4>3. ram = [i \in 1..(want - 1) |-> i]
        BY <3>2, <4>1
      <4>4. Append(ram, want) = [i \in 1..want |-> i]
        BY <4>2, <4>3, ImageGrows
      <4>5. ram' = [i \in 1..want |-> i]
        BY <2>1, <2>2, <3>3, <4>4
      <4>6. (IF want' <= Need THEN want' - 1 ELSE Need) = want
        BY <1>0, <2>1, <3>1, <4>1
      <4> QED
        BY <1>0, <2>1, <3>1, <4>5, <4>6 DEF StoreInv
    <3>4. CASE fr.t # "data"
      <4>1. want = Need + 1
        BY <2>1, <3>4 DEF IsNext
      <4>2. /\ (IF want' <= Need THEN want' - 1 ELSE Need) = Need
            /\ (IF want <= Need THEN want - 1 ELSE Need) = Need
        BY <1>0, <2>1, <3>1, <4>1
      <4>3. ram' = ram
        BY <2>1, <3>4
      <4> QED
        BY <1>0, <2>1, <3>1, <3>2, <4>2, <4>3 DEF StoreInv
    <3> QED
      BY <3>3, <3>4
  <2> QED
    BY <2>4, <2>5 DEF LateInv
<1>7. CASE RomTakesRepeat
  <2>1. IsRepeat(fr) /\ hdr # "none" /\ UNCHANGED <<hdr, want, ram>> /\ Answer("ack")
    BY <1>7 DEF RomTakesRepeat, IsRepeat, romVars, fr
  <2>2. Index(fr) = want - 1
    BY <1>1, <2>1, NoAlias DEF fr
  <2>3. want <= want' /\ Index(fr) + 1 <= want' /\ want' <= Index(fr) + 1
    BY <1>0, <2>1, <2>2
  <2>4. WindowInv' /\ FramesInv' /\ AheadInv'
    BY <1>0, <1>1, <1>4, <2>1, <2>3, RomMoves DEF fr
  <2>5. StoreInv'
    BY <1>0, <1>1, <2>1 DEF StoreInv, Need
  <2> QED
    BY <2>4, <2>5 DEF LateInv
<1>8. CASE RomRefuses \/ RomIgnores
  <2>1. UNCHANGED <<hdr, want, ram>> /\ (Answer("nak") \/ toHost' = toHost)
    BY <1>8 DEF RomRefuses, RomIgnores, romVars
  <2>2. toHost' = toHost \/ toHost' = Append(toHost, "nak")
    BY <1>4, <2>1
  <2>3. want <= want' /\ (want' <= Index(fr) + 1 \/ want' <= 1)
    BY <1>0, <1>3, <2>1
  <2>4. WindowInv' /\ FramesInv' /\ AheadInv'
    BY <1>0, <1>1, <2>2, <2>3, RomMoves DEF fr
  <2>5. StoreInv'
    BY <1>0, <1>1, <2>1 DEF StoreInv, Need
  <2> QED
    BY <2>4, <2>5 DEF LateInv
<1> QED
  BY <1>5, <1>6, <1>7, <1>8 DEF RomNext

\* What is written is the frame, or the frame damaged, or nothing.
LEMMA Written ==
  ASSUME NEW rest, NEW fr, WellFormed(fr), Write(rest, fr)
  PROVE  \E e : /\ WellFormed(e) /\ Index(e) = Index(fr)
                /\ toRom' = rest \/ toRom' = Append(rest, e)
<1> DEFINE e == [fr EXCEPT !.ok = FALSE]
<1>1. e \in Frames /\ e.t = fr.t /\ e.seq = fr.seq /\ e.chunk = fr.chunk
  BY DEF WellFormed, Frames
<1>2. toRom' = rest \/ toRom' = Append(rest, fr) \/ toRom' = Append(rest, e)
  BY Zenon DEF Write
<1> HIDE DEF e
<1>3. WellFormed(e) /\ Index(e) = Index(fr)
  BY <1>1 DEF WellFormed, Index
<1> QED
  BY <1>2, <1>3

\* The frames the host writes are well-formed.
LEMMA HostFrames ==
  ASSUME TypeOK
  PROVE  /\ WellFormed(StartFrame) /\ Index(StartFrame) = -1
         /\ f \in Nat => WellFormed(Frame(f)) /\ Index(Frame(f)) = f
<1>1. StartFrame \in Frames /\ (f \in Nat => Frame(f) \in Frames)
  BY FrameType
<1>2. WellFormed(StartFrame) /\ Index(StartFrame) = -1
  BY <1>1 DEF WellFormed, Index, StartFrame
<1>3. ASSUME f \in Nat PROVE WellFormed(Frame(f)) /\ Index(Frame(f)) = f
  <2>1. Frame(f).t = Kind(f) /\ Frame(f).seq = f % SeqMod /\ Frame(f).chunk = f
    BY DEF Frame
  <2>2. Kind(f) # "start" /\ (Kind(f) = "head" => f = 0)
    BY DEF Kind
  <2>3. Index(Frame(f)) = f
    BY <2>1, <2>2 DEF Index
  <2> QED
    BY <1>1, <1>3, <2>1, <2>2, <2>3 DEF WellFormed
<1> QED
  BY <1>2, <1>3

\* Some frame with the host's number; only its number matters where none is written.
LEMMA SomeFrame ==
  ASSUME TypeOK, PhaseInv, NEW g \in -1..(n + 1)
  PROVE  \E e : WellFormed(e) /\ Index(e) = g
<1>1. n \in Nat /\ SeqMod \in Nat /\ SeqMod > 1
  BY UploadAssumption DEF TypeOK
<1>2. CASE g = -1
  BY <1>2, HostFrames
<1>3. CASE g # -1
  <2> DEFINE e == [t |-> IF g = 0 THEN "head" ELSE "data", seq |-> g % SeqMod, chunk |-> g,
                   ok |-> TRUE]
  <2>1. g \in Nat /\ g % SeqMod \in Nat
    BY <1>1, <1>3
  <2>2. e \in Frames /\ e.t # "start" /\ e.chunk = g /\ e.seq = g % SeqMod
        /\ (e.t = "head" => g = 0)
    BY <2>1 DEF Frames
  <2> HIDE DEF e
  <2>3. Index(e) = g
    BY <2>2 DEF Index
  <2>4. WellFormed(e)
    BY <2>1, <2>2, <2>3 DEF WellFormed
  <2> QED
    BY <2>3, <2>4
<1> QED
  BY <1>2, <1>3

\* The host writes its frame, having forgotten the newest frames and the oldest answers.
LEMMA LateWrite ==
  ASSUME TypeOK, TypeOK', PhaseInv, LateInv, UNCHANGED <<n, f, hdr, want, ram, late>>,
         pc \in {"blast", "send"}, pc' \notin {"blast", "send"},
         NEW m \in 0..Len(toHost), toHost' = SubSeq(toHost, m + 1, Len(toHost)),
         NEW k \in 0..Len(toRom), NEW fr, WellFormed(fr), Index(fr) = f,
         Write(SubSeq(toRom, 1, k), fr)
  PROVE  LateInv'
<1>0. WindowInv /\ toRom \in Seq(Frames) /\ toHost \in Seq({"ack", "nak"})
  BY DEF LateInv, TypeOK
<1>1. /\ Len(toRom) \in Nat /\ Len(toHost) \in Nat /\ late \in Nat /\ k \in Nat /\ m \in Nat
      /\ k <= Len(toRom) /\ m <= Len(toHost)
  BY IndexType
<1>2. PICK e : /\ WellFormed(e) /\ Index(e) = f
               /\ toRom' = SubSeq(toRom, 1, k) \/ toRom' = Append(SubSeq(toRom, 1, k), e)
  BY Written
<1>3. Len(toHost') = Len(toHost) - m
  BY <1>0, QueueParts
<1>4. Len(toRom) + Len(toHost) <= late
  <2>1. Len(toRom) + Len(toHost) <= late + 0
    BY <1>0 DEF WindowInv
  <2> QED
    BY <1>1, <2>1
<1>5. k + Len(toHost') <= late
  BY <1>1, <1>3, <1>4
<1>6. FramesInv' /\ AheadInv' /\ StoreInv'
  <2>1. late' \in Nat /\ late <= late' /\ f' = f /\ k + Len(toHost') <= late'
    BY <1>1, <1>5
  <2>2. Index(e) = f'
    BY <1>2
  <2> QED
    BY <1>2, <2>1, <2>2, HostMoves
<1>7. WindowInv'
  <2>1. e \in Frames
    BY <1>2 DEF WellFormed
  <2>2. SubSeq(toRom, 1, k) \in Seq(Frames) /\ Len(SubSeq(toRom, 1, k)) = k
    BY <1>0, QueueParts
  <2>3. Len(toRom') = k \/ Len(toRom') = k + 1
    BY <1>2, <2>1, <2>2, QueueAppend
  <2>4. Len(toRom') + Len(toHost') <= late + 1
    BY <1>1, <1>3, <1>5, <2>3
  <2> QED
    BY <2>4 DEF WindowInv
<1> QED
  BY <1>6, <1>7 DEF LateInv

\* The host reads one answer or forgets several; an acknowledgement takes it to the
\* next frame, and so does the answer to sendFrameForStart.
LEMMA LateRead ==
  ASSUME TypeOK, TypeOK', PhaseInv, LateInv, UNCHANGED <<n, hdr, want, ram, late, toRom>>,
         NEW m \in 1..Len(toHost), toHost' = SubSeq(toHost, m + 1, Len(toHost)),
         \/ f' = f
         \/ f' = f + 1 /\ toHost[1] = "ack"
  PROVE  LateInv'
<1>0. WindowInv /\ toRom \in Seq(Frames) /\ toHost \in Seq({"ack", "nak"})
  BY DEF LateInv, TypeOK
<1>1. /\ Len(toRom) \in Nat /\ Len(toHost) \in Nat /\ late \in Nat /\ m \in 0..Len(toHost)
      /\ m >= 1 /\ m <= Len(toHost)
  BY IndexType
<1>2. Len(toRom) \in 0..Len(toRom) /\ toRom' = SubSeq(toRom, 1, Len(toRom))
  BY <1>0, WholeQueue
<1>3. PICK e : WellFormed(e) /\ Index(e) = f'
  <2>1. f' \in -1..(n + 1)
    BY DEF TypeOK
  <2> QED
    BY <2>1, SomeFrame
<1>4. FramesInv' /\ AheadInv' /\ StoreInv'
  <2>1. late' \in Nat /\ late <= late'
    BY <1>1
  <2> QED
    BY <1>1, <1>2, <1>3, <2>1, HostMoves
<1>5. WindowInv'
  <2>1. Len(toHost') = Len(toHost) - m
    BY <1>0, <1>1, QueueParts
  <2>2. Len(toRom) + Len(toHost) <= late + 1
    <3>1. Len(toRom) + Len(toHost) <= late + (IF pc \in {"blast", "send"} THEN 0 ELSE 1)
      BY <1>0 DEF WindowInv
    <3> QED
      BY <1>1, <3>1
  <2>3. Len(toRom') + Len(toHost') <= late
    BY <1>1, <2>1, <2>2
  <2>4. Len(toRom') + Len(toHost') <= late' + 0 /\ Len(toRom') + Len(toHost') <= late' + 1
    BY <1>1, <2>1, <2>3
  <2> QED
    BY <2>4 DEF WindowInv
<1> QED
  BY <1>4, <1>5 DEF LateInv

\* A timeout on a line that is not silent is paid for with a late answer.
LEMMA LateTimeout ==
  ASSUME TypeOK, TypeOK', PhaseInv, LateInv, UNCHANGED <<n, f, hdr, want, ram, toRom, toHost>>,
         pc \in {"bwait", "wait"}, TimesOut
  PROVE  LateInv'
<1>0. WindowInv /\ toRom \in Seq(Frames) /\ toHost \in Seq({"ack", "nak"})
  BY DEF LateInv, TypeOK
<1>1. Len(toRom) \in Nat /\ Len(toHost) \in Nat /\ late \in Nat
  BY IndexType
<1>2. /\ Len(toRom) \in 0..Len(toRom) /\ toRom' = SubSeq(toRom, 1, Len(toRom))
      /\ 0 \in 0..Len(toHost) /\ toHost' = SubSeq(toHost, 0 + 1, Len(toHost))
  BY <1>0, WholeQueue
<1>3. late' \in Nat /\ late <= late'
  BY <1>1 DEF TimesOut
<1>4. PICK e : WellFormed(e) /\ Index(e) = f'
  <2>1. f' \in -1..(n + 1)
    BY DEF TypeOK
  <2> QED
    BY <2>1, SomeFrame
<1>5. FramesInv' /\ AheadInv' /\ StoreInv'
  BY <1>2, <1>3, <1>4, HostMoves
<1>6. WindowInv'
  <2>1. Len(toRom) + Len(toHost) <= late + 1
    BY <1>0 DEF WindowInv
  <2>2. Len(toRom) + Len(toHost) <= late'
    <3>1. CASE toRom = <<>> /\ toHost = <<>>
      <4>1. Len(toRom) = 0 /\ Len(toHost) = 0
        BY <3>1
      <4> QED
        BY <1>3, <4>1
    <3>2. CASE ~(toRom = <<>> /\ toHost = <<>>)
      BY <2>1, <3>2 DEF TimesOut
    <3> QED
      BY <3>1, <3>2
  <2>3. Len(toRom') + Len(toHost') <= late' + 0 /\ Len(toRom') + Len(toHost') <= late' + 1
    BY <1>1, <1>3, <2>2
  <2> QED
    BY <2>3 DEF WindowInv
<1> QED
  BY <1>5, <1>6 DEF LateInv

\* A NAK is read, and the frame is written again.
LEMMA LateNak ==
  ASSUME TypeOK, TypeOK', PhaseInv, LateInv, Naked
  PROVE  LateInv'
<1>0. WindowInv /\ toRom \in Seq(Frames) /\ toHost \in Seq({"ack", "nak"})
  BY DEF LateInv, TypeOK
<1>1. /\ pc = "wait" /\ toHost # <<>> /\ toHost' = Tail(toHost) /\ Write(toRom, Frame(f))
      /\ pc' \notin {"blast", "send"} /\ UNCHANGED <<n, f, hdr, want, ram, late>>
  BY DEF Naked, romVars
<1>2. Len(toRom) \in Nat /\ Len(toHost) \in Nat /\ late \in Nat /\ f \in Nat
  BY <1>1, IndexType DEF PhaseInv
<1>3. PICK e : WellFormed(e) /\ Index(e) = f /\ (toRom' = toRom \/ toRom' = Append(toRom, e))
  BY <1>1, <1>2, HostFrames, Written
<1>4. /\ Len(toRom) \in 0..Len(toRom) /\ SubSeq(toRom, 1, Len(toRom)) = toRom
      /\ 1 \in 0..Len(toHost) /\ toHost' = SubSeq(toHost, 1 + 1, Len(toHost))
      /\ Len(toHost') = Len(toHost) - 1 /\ 1 \in 1..Len(toHost)
  BY <1>0, <1>1, WholeQueue
<1>5. Len(toRom) + Len(toHost) <= late + 1
  BY <1>0, <1>1 DEF WindowInv
<1>6. Len(toRom) + Len(toHost') <= late'
  BY <1>1, <1>2, <1>4, <1>5
<1>7. FramesInv' /\ AheadInv' /\ StoreInv'
  <2>1. late' \in Nat /\ late <= late' /\ Index(e) = f' /\ f' = f
    BY <1>1, <1>2, <1>3
  <2>2. \/ toRom' = SubSeq(toRom, 1, Len(toRom))
        \/ toRom' = Append(SubSeq(toRom, 1, Len(toRom)), e) /\ Len(toRom) + Len(toHost') <= late'
    BY <1>3, <1>4, <1>6
  <2> QED
    BY <1>1, <1>3, <1>4, <2>1, <2>2, HostMoves
<1>8. WindowInv'
  <2>1. e \in Frames
    BY <1>3 DEF WellFormed
  <2>2. Len(toRom') = Len(toRom) \/ Len(toRom') = Len(toRom) + 1
    BY <1>0, <1>3, <2>1, QueueAppend
  <2>3. Len(toRom') + Len(toHost') <= late' + 1
    BY <1>1, <1>2, <1>4, <1>6, <2>2
  <2> QED
    BY <1>1, <2>3 DEF WindowInv
<1> QED
  BY <1>7, <1>8 DEF LateInv

\* Every step of the host.
LEMMA LateHostStep ==
  ASSUME TypeOK, TypeOK', PhaseInv, LateInv, HostNext
  PROVE  LateInv'
<1>0. toRom \in Seq(Frames) /\ toHost \in Seq({"ack", "nak"}) /\ f \in Int
  BY DEF TypeOK
<1>1. CASE StartSend
  <2>1. /\ pc = "blast" /\ pc' = "bwait" /\ Write(toRom, StartFrame) /\ toHost' = toHost
        /\ UNCHANGED <<n, f, hdr, want, ram, late>>
    BY <1>1 DEF StartSend, romVars
  <2>2. f = -1
    BY <2>1 DEF PhaseInv
  <2>3. /\ Len(toRom) \in 0..Len(toRom) /\ SubSeq(toRom, 1, Len(toRom)) = toRom
        /\ 0 \in 0..Len(toHost) /\ toHost' = SubSeq(toHost, 0 + 1, Len(toHost))
    BY <1>0, <2>1, WholeQueue
  <2>4. Write(SubSeq(toRom, 1, Len(toRom)), StartFrame)
    BY <2>1, <2>3
  <2> QED
    BY <2>1, <2>2, <2>3, <2>4, HostFrames, LateWrite
<1>2. CASE StartAck
  <2>1. /\ pc = "bwait" /\ toHost # <<>> /\ Head(toHost) = "ack" /\ f' = 0
        /\ UNCHANGED <<n, hdr, want, ram, late, toRom>>
    BY <1>2 DEF StartAck, romVars
  <2>2. PICK m \in 1..Len(toHost) : toHost' = SubSeq(toHost, m + 1, Len(toHost))
    BY <1>2 DEF StartAck
  <2>3. f' = f + 1 /\ toHost[1] = "ack"
    BY <1>0, <2>1, WholeQueue DEF PhaseInv
  <2> QED
    BY <2>1, <2>2, <2>3, LateRead
<1>3. CASE StartStray \/ Stray
  <2>1. /\ toHost # <<>> /\ toHost' = Tail(toHost) /\ f' = f
        /\ UNCHANGED <<n, hdr, want, ram, late, toRom>>
    BY <1>3 DEF StartStray, Stray, hostVars, romVars
  <2>2. 1 \in 1..Len(toHost) /\ toHost' = SubSeq(toHost, 1 + 1, Len(toHost))
    BY <1>0, <2>1, WholeQueue
  <2> QED
    BY <2>1, <2>2, LateRead
<1>4. CASE StartTimeout \/ Timeout
  <2>1. /\ pc \in {"bwait", "wait"} /\ TimesOut
        /\ UNCHANGED <<n, f, hdr, want, ram, toRom, toHost>>
    BY <1>4 DEF StartTimeout, Timeout, romVars
  <2> QED
    BY <2>1, LateTimeout
<1>5. CASE SendFlushed
  <2>1. /\ pc = "send" /\ pc' = "wait" /\ UNCHANGED <<n, f, hdr, want, ram, late>>
        /\ FlushInput /\ FlushedWrite(Frame(f))
    BY <1>5 DEF SendFlushed, romVars
  <2>2. f \in Nat
    BY <2>1 DEF PhaseInv
  <2>3. PICK m \in 0..Len(toHost) : toHost' = SubSeq(toHost, m + 1, Len(toHost))
    BY <2>1 DEF FlushInput
  <2>4. PICK k \in 0..Len(toRom) : Write(SubSeq(toRom, 1, k), Frame(f))
    BY <2>1 DEF FlushedWrite
  <2> QED
    BY <2>1, <2>2, <2>3, <2>4, HostFrames, LateWrite
<1>6. CASE SendOnce
  <2>1. /\ pc = "send" /\ pc' = "wait" /\ Write(toRom, Frame(f)) /\ toHost' = toHost
        /\ UNCHANGED <<n, f, hdr, want, ram, late>>
    BY <1>6 DEF SendOnce, romVars
  <2>2. f \in Nat
    BY <2>1 DEF PhaseInv
  <2>3. /\ Len(toRom) \in 0..Len(toRom) /\ SubSeq(toRom, 1, Len(toRom)) = toRom
        /\ 0 \in 0..Len(toHost) /\ toHost' = SubSeq(toHost, 0 + 1, Len(toHost))
    BY <1>0, <2>1, WholeQueue
  <2>4. Write(SubSeq(toRom, 1, Len(toRom)), Frame(f))
    BY <2>1, <2>3
  <2> QED
    BY <2>1, <2>2, <2>3, <2>4, HostFrames, LateWrite
<1>7. CASE Acked
  <2>1. /\ toHost # <<>> /\ Head(toHost) = "ack" /\ toHost' = Tail(toHost)
        /\ (f' = f \/ f' = f + 1) /\ UNCHANGED <<n, hdr, want, ram, late, toRom>>
    BY <1>7 DEF Acked, romVars
  <2>2. /\ 1 \in 1..Len(toHost) /\ toHost' = SubSeq(toHost, 1 + 1, Len(toHost))
        /\ toHost[1] = "ack"
    BY <1>0, <2>1, WholeQueue
  <2> QED
    BY <2>1, <2>2, LateRead
<1>8. CASE Naked
  BY <1>8, LateNak
<1> QED
  BY <1>1, <1>2, <1>3, <1>4, <1>5, <1>6, <1>7, <1>8 DEF HostNext

\* Before the upload nothing is stored, and at most one answer is left over.
LEMMA LateStarts == Init => LateInv
<1> SUFFICES ASSUME Init PROVE LateInv
  OBVIOUS
<1>1. /\ toRom = <<>> /\ want = 0 /\ ram = <<>> /\ hdr = "none" /\ f \in {-1, 0}
      /\ pc \in {"blast", "send"}
      /\ (toHost = <<>> /\ late = 0) \/ (toHost = <<"ack">> /\ late = 1)
  BY DEF Init
<1>2. Len(toRom) = 0 /\ (Len(toHost) = late) /\ late \in {0, 1}
  BY <1>1
<1>3. WindowInv /\ FramesInv /\ StoreInv
  BY <1>1, <1>2 DEF WindowInv, FramesInv, StoreInv
<1>4. AheadInv
  <2>1. f <= want + late /\ want <= 1
    BY <1>1, <1>2
  <2>2. \A k \in 1..Len(toHost) : f + k <= want + late
    <3> TAKE k \in 1..Len(toHost)
    <3>1. k = 1 /\ late = 1
      BY <1>2
    <3> QED
      BY <1>1, <3>1
  <2> QED
    BY <2>1, <2>2 DEF AheadInv
<1> QED
  BY <1>3, <1>4 DEF LateInv

\* What the boot ROM has stored is a prefix of the image, in every upload in which
\* fewer answers are late than there are sequence numbers, less one (255 in the
\* code): acknowledgements taken for the wrong frame make the upload fail, never
\* the boot ROM store a chunk twice, out of order or in another's place.
THEOREM StoredInOrderHolds ==
  ASSUME MaxLate + 1 < SeqMod
  PROVE  Spec => []StoredInOrder
<1>1. IInv /\ IInv' /\ LateInv /\ [Next]_vars => LateInv'
  <2> SUFFICES ASSUME IInv, IInv', LateInv, [Next]_vars PROVE LateInv'
    OBVIOUS
  <2>1. TypeOK /\ TypeOK' /\ PhaseInv
    BY DEF IInv
  <2>2. CASE HostNext
    BY <2>1, <2>2, LateHostStep
  <2>3. CASE RomNext
    BY <2>1, <2>3, LateRomStep
  <2>4. CASE Stopped \/ UNCHANGED vars
    <3>1. UNCHANGED <<pc, f, toRom, toHost, late, want, hdr, ram, n>>
      BY <2>4 DEF Stopped, vars, hostVars, romVars
    <3>2. WindowInv' /\ AheadInv' /\ StoreInv'
      BY <3>1 DEF LateInv, WindowInv, AheadInv, StoreInv, Need
    <3>3. FramesInv'
      BY <3>1 DEF LateInv, FramesInv, FrameAt
    <3> QED
      BY <3>2, <3>3 DEF LateInv
  <2> QED
    BY <2>2, <2>3, <2>4 DEF Next
<1>2. IInv /\ LateInv => StoredInOrder
  <2> SUFFICES ASSUME IInv, LateInv PROVE StoredInOrder
    OBVIOUS
  <2>1. StoreInv /\ n \in Nat /\ n > 0 /\ want \in Nat
    BY UploadAssumption DEF LateInv, IInv, TypeOK
  <2>2. CASE hdr = "none"
    <3>1. ram = <<>> /\ Len(ram) = 0
      BY <2>1, <2>2 DEF StoreInv
    <3>2. [i \in 1..0 |-> i] = <<>>
      OBVIOUS
    <3> QED
      BY <2>1, <3>1, <3>2 DEF StoredInOrder
  <2>3. CASE hdr # "none"
    <3> DEFINE l == IF want <= Need THEN want - 1 ELSE Need
    <3>1. want > 0 /\ ram = [i \in 1..l |-> i]
      BY <2>1, <2>3 DEF StoreInv
    <3>2. Need \in Nat /\ Need <= n
      BY <2>1 DEF Need
    <3>3. l \in Nat /\ l <= n
      BY <2>1, <3>1, <3>2
    <3> HIDE DEF l
    <3>4. Len(ram) = l
      BY <3>1, <3>3
    <3> QED
      BY <3>1, <3>3, <3>4 DEF StoredInOrder
  <2> QED
    BY <2>2, <2>3
<1> QED
  BY <1>1, <1>2, LateStarts, Inductive, PTL DEF Spec
=============================================================================
