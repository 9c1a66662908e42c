------------------------- MODULE UsbRecoveryProofs -------------------------
(***************************************************************************)
(* Proofs about UsbRecovery for any number of boards, sessions and faults, *)
(* any flash size, transfer limit, partitions, image and chunk sizes, and  *)
(* any leftovers of earlier invocations.                                   *)
(***************************************************************************)
EXTENDS UsbRecovery, SequenceTheorems, FiniteSetTheorems, WellFoundedInduction, TLAPS

Packet == [k : {"data", "part", "csw"}, tag : Nat, lba : Nat, ok : BOOLEAN, res : BOOLEAN]
CommandT == [op : {"none", "reset", "id", "info", "read"}, tag : Nat, lba : Nat, n : Nat]
BoardT ==
  [mode : {"gone", "maskrom", "starting", "loader", "leaving", "resetting"},
   stage : {"471", "472", "bad"}, pipe : Seq(Packet), cmd : CommandT, by : Nat]
AllExtents == Extents \cup {<<0, Sectors>>}

\* Where an invocation has found no board yet, and where it works on one.
Early == {"resolve", "power", "wait"}
Fresh == {"open_rom", "ddr", "plug", "wait_plug", "open_plug", "id", "info", "dump", "replace", "close"}
Bound == Fresh \cup {"wait_rom", "open_stale", "reset"}

TypeInv ==
  /\ board \in [Boards -> BoardT]
  /\ driver \in [Boards -> {"bound", "ours", "lost"}]
  /\ session \in Nat /\ job \in {"burn", "dump"} /\ extent \in AllExtents /\ pin \in Boards \cup {NoBoard}
  /\ pc \in Early \cup Bound \cup {"idle", "ok", "failed"}
  /\ at \in Boards \cup {NoBoard} /\ first \in Boards \cup {NoBoard}
  /\ live \in BOOLEAN /\ owned \in BOOLEAN /\ opened \subseteq Boards
  /\ chunk \in Nat \ {0} /\ phase \in {"cbw", "data", "csw"} /\ tag \in Nat
  /\ payload \in Seq(Packet) /\ lba \in Nat
  /\ partial \in Seq(Items) /\ target \in Seq(Items)

\* The board an invocation holds is the one it found.
HoldInv ==
  /\ pc \in Early => at = NoBoard /\ first = NoBoard /\ ~live /\ ~owned
  /\ pc \in Early \cup {"idle"} => opened = {}
  /\ pc \in Bound => at = first /\ first \in Boards
  /\ live => at \in Boards
  /\ SameBoard

\* The usbplug it works with is its own.
FreshInv ==
  pc \in Fresh /\ board[first].mode \in {"loader", "leaving"} => board[first].by = session

JobInv ==
  /\ pc \in {"info", "dump", "replace"} => job = "dump"
  /\ pc = "id" => job = "burn"

\* No board has heard of a tag that is still to be given.
TagInv ==
  \A b \in Boards :
    /\ board[b].cmd.tag <= tag
    /\ \A i \in DOMAIN board[b].pipe : board[b].pipe[i].tag <= tag

\* The read under way, and what is right in its data phase.
Current == [op |-> "read", tag |-> tag, lba |-> lba, n |-> Packets]
InPlace(s) == \A i \in DOMAIN s : s[i].k = "data" => s[i].lba = lba + i - 1

\* Either the board has still to run the read, and what can be read before that
\* carries an older tag, or what is read is in its place.  A read whose data is
\* not finds no status wrapper of its own.
ReadInv ==
  pc = "dump" /\ live =>
    /\ phase = "data" =>
         \/ board[at].cmd = Current /\ \A i \in DOMAIN board[at].pipe : board[at].pipe[i].tag < tag
         \/ board[at].cmd = NoCmd /\ InPlace(board[at].pipe)
    /\ phase = "csw" =>
         \/ InPlace(payload)
         \/ /\ board[at].cmd \in {Current, NoCmd}
            /\ board[at].pipe # <<>> => board[at].pipe[1].k # "csw" \/ board[at].pipe[1].tag # tag

\* What has been saved.
FileInv ==
  /\ pc = "dump" =>
       /\ extent[1] <= lba /\ lba < End
       /\ partial = [i \in 1..(lba - extent[1]) |-> [board |-> first, lba |-> extent[1] + i - 1]]
  /\ pc = "replace" => partial = Image(first, extent)
  /\ DumpIsRight

IInv == TypeInv /\ HoldInv /\ FreshInv /\ JobInv /\ TagInv /\ ReadInv /\ FileInv

---------------------------------------------------------------------------
(* The operators.                                                          *)

LEMMA ExtentType ==
  ASSUME TypeInv
  PROVE  /\ extent[1] \in Nat /\ extent[2] \in Nat \ {0}
         /\ End \in Nat /\ extent[1] < End
BY UsbAssumption DEF TypeInv, AllExtents, End

\* A read moves at least one sector and stays inside the extent.
LEMMA PacketsType ==
  ASSUME TypeInv, FileInv
  PROVE  /\ Packets \in Nat
         /\ pc = "dump" => Packets > 0 /\ lba + Packets <= End
BY ExtentType, UsbAssumption DEF TypeInv, FileInv, Packets, Transfer

LEMMA FunctionIsSeq ==
  ASSUME NEW S, NEW n \in Nat, NEW f, f = [i \in 1..n |-> f[i]], \A i \in 1..n : f[i] \in S
  PROVE  f \in Seq(S) /\ Len(f) = n
OBVIOUS

\* What a usbplug answers carries the command's tag and, where it is data, is
\* in its place; it begins with a status wrapper only when there is no data.
IsAnswer(c, s) ==
  \/ s = <<>>
  \/ \E ok \in BOOLEAN, res \in BOOLEAN : s = Data(c) \o Csw(c, ok, res)
  \/ c.n # 0 /\ s = [Data(c) EXCEPT ![c.n].k = "part"] \o Csw(c, TRUE, TRUE)

LEMMA DataType ==
  ASSUME NEW c \in CommandT
  PROVE  /\ Data(c) \in Seq(Packet) /\ Len(Data(c)) = c.n
         /\ c.n # 0 => /\ [Data(c) EXCEPT ![c.n].k = "part"] \in Seq(Packet)
                       /\ Len([Data(c) EXCEPT ![c.n].k = "part"]) = c.n
<1>1. c.n \in Nat /\ c.tag \in Nat /\ c.lba \in Nat
  BY DEF CommandT
<1>2. \A i \in 1..c.n : Data(c)[i] \in Packet
  BY <1>1 DEF Data, Packet
<1>3. Data(c) \in Seq(Packet) /\ Len(Data(c)) = c.n
  <2>1. Data(c) = [i \in 1..c.n |-> Data(c)[i]]
    BY DEF Data
  <2> QED
    BY <1>1, <1>2, <2>1, FunctionIsSeq
<1>4. ASSUME c.n # 0
      PROVE  /\ [Data(c) EXCEPT ![c.n].k = "part"] \in Seq(Packet)
             /\ Len([Data(c) EXCEPT ![c.n].k = "part"]) = c.n
  <2> DEFINE p == [Data(c)[c.n] EXCEPT !.k = "part"]
  <2>1. p \in Packet
    BY <1>1, <1>2, <1>4 DEF Packet
  <2> HIDE DEF p
  <2>2. [Data(c) EXCEPT ![c.n] = p] \in Seq(Packet) /\ Len([Data(c) EXCEPT ![c.n] = p]) = c.n
    BY <1>1, <1>3, <1>4, <2>1
  <2> QED
    BY <2>2 DEF p
<1> QED
  BY <1>3, <1>4

LEMMA CswType ==
  ASSUME NEW c \in CommandT, NEW ok \in BOOLEAN, NEW res \in BOOLEAN
  PROVE  /\ Csw(c, ok, res) \in Seq(Packet) /\ Len(Csw(c, ok, res)) = 1
         /\ Csw(c, ok, res)[1].tag = c.tag /\ Csw(c, ok, res)[1].k = "csw"
BY DEF Csw, Packet, CommandT

LEMMA AnswerType ==
  ASSUME NEW c \in CommandT, NEW s, IsAnswer(c, s)
  PROVE  /\ s \in Seq(Packet)
         /\ \A i \in DOMAIN s : s[i].tag = c.tag /\ (s[i].k = "data" => s[i].lba = c.lba + i - 1)
         /\ c.n # 0 /\ s # <<>> => s[1].k # "csw"
<1>1. CASE s = <<>>
  BY <1>1
<1>2. ASSUME NEW d \in Seq(Packet), Len(d) = c.n,
             \A i \in 1..c.n : d[i].tag = c.tag /\ d[i].k # "csw" /\ (d[i].k = "data" => d[i].lba = c.lba + i - 1),
             NEW t \in Seq(Packet), Len(t) = 1, t[1].tag = c.tag, t[1].k = "csw", s = d \o t
      PROVE  /\ s \in Seq(Packet)
             /\ \A i \in DOMAIN s : s[i].tag = c.tag /\ (s[i].k = "data" => s[i].lba = c.lba + i - 1)
             /\ c.n # 0 /\ s # <<>> => s[1].k # "csw"
  <2>1. /\ d \o t \in Seq(Packet) /\ Len(d \o t) = Len(d) + Len(t)
        /\ \A i \in 1..Len(d) + Len(t) : (d \o t)[i] = IF i <= Len(d) THEN d[i] ELSE t[i - Len(d)]
    BY ConcatProperties, Zenon
  <2>2. /\ s \in Seq(Packet) /\ Len(s) = Len(d) + Len(t)
        /\ \A i \in 1..Len(d) + Len(t) : s[i] = IF i <= Len(d) THEN d[i] ELSE t[i - Len(d)]
    BY <1>2, <2>1, Zenon
  <2>3. \A i \in 1..Len(d) : s[i] = d[i]
    BY <2>2
  <2>4. DOMAIN s = 1..Len(d) + 1 /\ s[Len(d) + 1] = t[1]
    BY <1>2, <2>2
  <2>5. ASSUME NEW i \in DOMAIN s
        PROVE  s[i].tag = c.tag /\ (s[i].k = "data" => s[i].lba = c.lba + i - 1)
    <3>1. CASE i = Len(d) + 1
      BY <1>2, <2>4, <3>1
    <3>2. CASE i \in 1..Len(d)
      BY <1>2, <2>3, <3>2
    <3> QED
      BY <2>4, <2>5, <3>1, <3>2
  <2>6. Len(d) # 0 => s[1].k # "csw"
    BY <1>2, <2>3
  <2> QED
    BY <1>2, <2>2, <2>5, <2>6, Zenon
<1>3. ASSUME NEW ok \in BOOLEAN, NEW res \in BOOLEAN, s = Data(c) \o Csw(c, ok, res)
      PROVE  /\ s \in Seq(Packet)
             /\ \A i \in DOMAIN s : s[i].tag = c.tag /\ (s[i].k = "data" => s[i].lba = c.lba + i - 1)
             /\ c.n # 0 /\ s # <<>> => s[1].k # "csw"
  <2>1. \A i \in 1..c.n : Data(c)[i].tag = c.tag /\ Data(c)[i].k # "csw" /\ Data(c)[i].lba = c.lba + i - 1
    BY DEF Data
  <2> QED
    BY <1>2, <1>3, <2>1, DataType, CswType
<1>4. CASE c.n # 0 /\ s = [Data(c) EXCEPT ![c.n].k = "part"] \o Csw(c, TRUE, TRUE)
  <2> DEFINE d == [Data(c) EXCEPT ![c.n].k = "part"]
  <2>1. \A i \in 1..c.n : d[i].tag = c.tag /\ d[i].k # "csw" /\ d[i].lba = c.lba + i - 1
    BY <1>4 DEF Data, CommandT
  <2>2. d \in Seq(Packet) /\ Len(d) = c.n
    BY <1>4, DataType
  <2> HIDE DEF d
  <2>3. s = d \o Csw(c, TRUE, TRUE)
    BY <1>4 DEF d
  <2> QED
    BY <1>2, <2>1, <2>2, <2>3, CswType
<1> QED
  BY <1>1, <1>3, <1>4, Zenon DEF IsAnswer

---------------------------------------------------------------------------
(* What the steps do, as far as the invariant is concerned.                *)

\* A handle is closed, or is not.
LEMMA CloseEffect ==
  ASSUME TypeInv, Close
  PROVE  driver' \in [Boards -> {"bound", "ours", "lost"}] /\ opened' \subseteq opened
BY DEF TypeInv, Close

LEMMA RaiseEffect ==
  ASSUME TypeInv, NEW kind, RaiseAs(kind)
  PROVE  /\ pc' = "failed" /\ partial' \in Seq(Items)
         /\ driver' \in [Boards -> {"bound", "ours", "lost"}] /\ opened' \subseteq opened
<1>1. NoFile \in Seq(Items)
  BY DEF NoFile, Items
<1>2. partial' \in Seq(Items)
  BY <1>1 DEF TypeInv, RaiseAs
<1>3. driver' \in [Boards -> {"bound", "ours", "lost"}] /\ opened' \subseteq opened
  BY CloseEffect DEF TypeInv, RaiseAs
<1> QED
  BY <1>2, <1>3 DEF RaiseAs

\* The usbplug puts an answer into an empty pipe.
LEMMA RunsEffect ==
  ASSUME TypeInv, NEW b \in Boards, UsbplugRuns(b)
  PROVE  \E s \in Seq(Packet), m \in {"loader", "leaving", "resetting"} :
           /\ IsAnswer(board[b].cmd, s)
           /\ board' = [board EXCEPT ![b].cmd = NoCmd, ![b].pipe = s, ![b].mode = m]
<1> DEFINE c == board[b].cmd
<1>1. c \in CommandT /\ board[b] \in BoardT /\ board[b].mode = "loader" /\ board[b].pipe = <<>>
  BY DEF TypeInv, BoardT, UsbplugRuns
<1>2. CASE c.op = "reset" /\ board' = [board EXCEPT ![b].cmd = NoCmd, ![b].mode = "resetting"]
  <2>1. board' = [board EXCEPT ![b].cmd = NoCmd, ![b].pipe = <<>>, ![b].mode = "resetting"]
    <3>1. [board[b] EXCEPT !.cmd = NoCmd, !.mode = "resetting"]
            = [board[b] EXCEPT !.cmd = NoCmd, !.pipe = <<>>, !.mode = "resetting"]
      BY <1>1 DEF BoardT
    <3>2. board' = [board EXCEPT ![b] = [board[b] EXCEPT !.cmd = NoCmd, !.mode = "resetting"]]
      BY <1>2 DEF TypeInv
    <3> QED
      BY <3>1, <3>2 DEF TypeInv
  <2>2. <<>> \in Seq(Packet) /\ IsAnswer(c, <<>>)
    BY DEF IsAnswer
  <2> QED
    BY <2>1, <2>2
<1>3. CASE board' = [board EXCEPT ![b].cmd = NoCmd, ![b].pipe = Data(c) \o Csw(c, TRUE, c.op # "read"),
                                  ![b].mode = IF c.op = "reset" THEN "leaving" ELSE @]
  <2> DEFINE s == Data(c) \o Csw(c, TRUE, c.op # "read")
             m == IF c.op = "reset" THEN "leaving" ELSE "loader"
  <2>1. IsAnswer(c, s)
    <3>1. TRUE \in BOOLEAN /\ (c.op # "read") \in BOOLEAN
      BY Zenon
    <3> QED
      BY <3>1, Zenon DEF IsAnswer
  <2>2. s \in Seq(Packet)
    BY <1>1, <2>1, AnswerType, Zenon
  <2>3. board' = [board EXCEPT ![b].cmd = NoCmd, ![b].pipe = s, ![b].mode = m]
    <3> HIDE DEF s
    <3>1. board' = [board EXCEPT ![b].cmd = NoCmd, ![b].pipe = s,
                                 ![b].mode = IF c.op = "reset" THEN "leaving" ELSE @]
      BY <1>3, Zenon DEF s
    <3> QED
      BY <1>1, <3>1
  <2>4. m \in {"loader", "leaving", "resetting"}
    OBVIOUS
  <2> HIDE DEF s, m
  <2> QED
    BY <2>1, <2>2, <2>3, <2>4
<1>4. ASSUME NEW s, board' = [board EXCEPT ![b].cmd = NoCmd, ![b].pipe = s], IsAnswer(c, s)
      PROVE  \E z \in Seq(Packet), m \in {"loader", "leaving", "resetting"} :
               /\ IsAnswer(board[b].cmd, z)
               /\ board' = [board EXCEPT ![b].cmd = NoCmd, ![b].pipe = z, ![b].mode = m]
  <2>1. s \in Seq(Packet)
    BY <1>1, <1>4, AnswerType, Zenon
  <2>2. board' = [board EXCEPT ![b].cmd = NoCmd, ![b].pipe = s, ![b].mode = "loader"]
    BY <1>1, <1>4 DEF TypeInv, BoardT
  <2> QED
    BY <1>4, <2>1, <2>2
<1>5. ASSUME NEW s \in { <<>>, Data(c) \o Csw(c, FALSE, FALSE) }
               \cup (IF c.n = 0 THEN {} ELSE {[Data(c) EXCEPT ![c.n].k = "part"] \o Csw(c, TRUE, TRUE)})
      PROVE  IsAnswer(c, s)
  <2>1. s = <<>> \/ s = Data(c) \o Csw(c, FALSE, FALSE)
          \/ (c.n # 0 /\ s = [Data(c) EXCEPT ![c.n].k = "part"] \o Csw(c, TRUE, TRUE))
    <3>1. CASE c.n = 0
      BY <1>5, <3>1, Zenon
    <3>2. CASE c.n # 0
      BY <1>5, <3>2, Zenon
    <3> QED
      BY <3>1, <3>2
  <2>2. FALSE \in BOOLEAN
    OBVIOUS
  <2> QED
    BY <2>1, <2>2, Zenon DEF IsAnswer
<1> QED
  BY <1>2, <1>3, <1>4, <1>5, Zenon DEF UsbplugRuns

\* The boot ROM may start what it was sent.
LEMMA RomEffect ==
  ASSUME TypeInv, NEW b \in Boards, NEW code, NEW c, RomTakes(b, code, c)
  PROVE  \E m \in {board[b].mode, "starting"}, g \in {"471", "472", "bad"} :
           board' = [board EXCEPT ![b].mode = m, ![b].stage = g]
<1>1. board[b] \in BoardT
  BY DEF TypeInv
<1>2. board' = [board EXCEPT ![b].stage = "bad"] \/ board' = board \/ board' = [board EXCEPT ![b].stage = "472"]
        \/ board' = [board EXCEPT ![b].mode = "starting"]
  BY <1>1 DEF RomTakes, TypeInv
<1>3. CASE board' = [board EXCEPT ![b].stage = "bad"]
  <2>1. board' = [board EXCEPT ![b].mode = board[b].mode, ![b].stage = "bad"]
    BY <1>1, <1>3 DEF TypeInv, BoardT
  <2> QED
    BY <2>1
<1>4. CASE board' = board
  <2>1. board' = [board EXCEPT ![b].mode = board[b].mode, ![b].stage = board[b].stage]
    BY <1>1, <1>4 DEF TypeInv, BoardT
  <2>2. board[b].stage \in {"471", "472", "bad"}
    BY <1>1 DEF BoardT
  <2> QED
    BY <2>1, <2>2
<1>5. CASE board' = [board EXCEPT ![b].stage = "472"]
  <2>1. board' = [board EXCEPT ![b].mode = board[b].mode, ![b].stage = "472"]
    BY <1>1, <1>5 DEF TypeInv, BoardT
  <2> QED
    BY <2>1
<1>6. CASE board' = [board EXCEPT ![b].mode = "starting"]
  <2>1. board' = [board EXCEPT ![b].mode = "starting", ![b].stage = board[b].stage]
    BY <1>1, <1>6 DEF TypeInv, BoardT
  <2>2. board[b].stage \in {"471", "472", "bad"}
    BY <1>1 DEF BoardT
  <2> QED
    BY <2>1, <2>2
<1> QED
  BY <1>2, <1>3, <1>4, <1>5, <1>6

\* What is left of a pipe after its first j packets.
Rest(s, j) == SubSeq(s, j + 1, Len(s))

LEMMA RestType ==
  ASSUME NEW s \in Seq(Packet), NEW j \in Nat
  PROVE  /\ Rest(s, j) \in Seq(Packet)
         /\ \A i \in DOMAIN Rest(s, j) : i + j \in DOMAIN s /\ Rest(s, j)[i] = s[i + j]
<1>1. Len(s) \in Nat /\ DOMAIN s = 1..Len(s)
  OBVIOUS
<1>2. \A i \in (j + 1)..Len(s) : s[i] \in Packet
  BY <1>1
<1>3. /\ SubSeq(s, j + 1, Len(s)) \in Seq(Packet)
      /\ Len(SubSeq(s, j + 1, Len(s))) = IF j + 1 <= Len(s) THEN Len(s) - (j + 1) + 1 ELSE 0
      /\ \A i \in 1..Len(s) - (j + 1) + 1 : SubSeq(s, j + 1, Len(s))[i] = s[j + 1 + i - 1]
  BY <1>1, <1>2, SubSeqProperties
<1> QED
  BY <1>1, <1>3 DEF Rest

LEMMA SmallestElement ==
  ASSUME NEW T \in SUBSET Nat, T # {}
  PROVE  \E i \in T : \A j \in T : i <= j
<1> DEFINE R == OpToRel(<, Nat)
<1>1. PICK i \in T : \A j \in T : ~ (<<j, i>> \in R)
  BY NatLessThanWellFounded, WFMin, Zenon
<1>2. ASSUME NEW j \in T
      PROVE  i <= j
  <2>1. i \in Nat /\ j \in Nat
    OBVIOUS
  <2>2. j < i => <<j, i>> \in R
    BY <2>1, Zenon DEF OpToRel
  <2> HIDE DEF R
  <2> QED
    BY <1>1, <2>1, <2>2
<1> QED
  BY <1>2

LEMMA TakenType ==
  ASSUME NEW s \in Seq(Packet), s # <<>>, NEW n \in Nat
  PROVE  Taken(s, n) \in 0..Len(s)
<1> DEFINE short == {i \in DOMAIN s : s[i].k # "data"}
           stop == IF short = {} THEN Len(s) ELSE CHOOSE i \in short : \A j \in short : i <= j
<1>1. short # {} => \E i \in short : \A j \in short : i <= j
  <2>1. short \in SUBSET Nat
    OBVIOUS
  <2> HIDE DEF short
  <2> QED
    BY <2>1, SmallestElement, Zenon
<1>2. stop \in 1..Len(s)
  <2>1. CASE short = {}
    BY <2>1
  <2>2. CASE short # {}
    <3>1. stop \in short
      BY <1>1, <2>2
    <3> QED
      BY <3>1
  <2> QED
    BY <2>1, <2>2
<1>3. Taken(s, n) = IF stop < n THEN stop ELSE n
  BY DEF Taken
<1> HIDE DEF stop
<1> QED
  BY <1>2, <1>3

---------------------------------------------------------------------------
(* The steps keep the types.                                               *)

LEMMA BoardTypes ==
  ASSUME TypeInv, NEW b \in Boards
  PROVE  /\ NoCmd \in CommandT /\ <<>> \in Seq(Packet)
         /\ board[b] \in BoardT /\ board[b].pipe \in Seq(Packet) /\ board[b].cmd \in CommandT
         /\ board[b].by \in Nat
<1>1. NoCmd \in CommandT /\ <<>> \in Seq(Packet)
  BY DEF CommandT, NoCmd
<1>2. board[b] \in BoardT
  BY DEF TypeInv
<1>3. board[b].pipe \in Seq(Packet) /\ board[b].cmd \in CommandT /\ board[b].by \in Nat
  BY <1>2 DEF BoardT
<1> QED
  BY <1>1, <1>2, <1>3

LEMMA BoardStepType ==
  ASSUME TypeInv, NEW b \in Boards, Appear(b) \/ UsbplugRuns(b) \/ Leaves(b) \/ Vanish(b)
  PROVE  TypeInv'
<1> USE BoardTypes
<1>1. CASE Appear(b)
  <2>1. board' \in [Boards -> BoardT]
    <3>1. CASE board' = [board EXCEPT ![b].mode = "loader", ![b].by = session]
      <4> DEFINE r == [board[b] EXCEPT !.mode = "loader", !.by = session]
      <4>1. r \in BoardT
        BY DEF BoardT, TypeInv
      <4>2. board' = [board EXCEPT ![b] = r]
        BY <3>1 DEF TypeInv
      <4> HIDE DEF r
      <4> QED
        BY <4>1, <4>2 DEF TypeInv
    <3>2. CASE board' = [board EXCEPT ![b].mode = "maskrom", ![b].stage = "471", ![b].by = 0]
      <4> DEFINE r == [board[b] EXCEPT !.mode = "maskrom", !.stage = "471", !.by = 0]
      <4>1. r \in BoardT
        BY DEF BoardT
      <4>2. board' = [board EXCEPT ![b] = r]
        BY <3>2 DEF TypeInv
      <4> HIDE DEF r
      <4> QED
        BY <4>1, <4>2 DEF TypeInv
    <3>3. CASE board' = [board EXCEPT ![b].mode = "maskrom", ![b].stage = "471"]
      <4> DEFINE r == [board[b] EXCEPT !.mode = "maskrom", !.stage = "471"]
      <4>1. r \in BoardT
        BY DEF BoardT, TypeInv
      <4>2. board' = [board EXCEPT ![b] = r]
        BY <3>3 DEF TypeInv
      <4> HIDE DEF r
      <4> QED
        BY <4>1, <4>2 DEF TypeInv
    <3> QED
      BY <1>1, <3>1, <3>2, <3>3 DEF Appear
  <2> QED
    BY <1>1, <2>1 DEF TypeInv, Appear, args, cmdVars, files, ghost
<1>2. CASE UsbplugRuns(b)
  <2>1. PICK s \in Seq(Packet), m \in {"loader", "leaving", "resetting"} :
           board' = [board EXCEPT ![b].cmd = NoCmd, ![b].pipe = s, ![b].mode = m]
    BY <1>2, RunsEffect
  <2>2. board' \in [Boards -> BoardT]
    <3>1. m \in {"gone", "maskrom", "starting", "loader", "leaving", "resetting"}
      OBVIOUS
    <3> DEFINE r == [board[b] EXCEPT !.cmd = NoCmd, !.pipe = s, !.mode = m]
    <3>2. r \in BoardT
      BY <3>1 DEF BoardT
    <3>3. board' = [board EXCEPT ![b] = r]
      BY <2>1 DEF TypeInv
    <3> HIDE DEF r
    <3> QED
      BY <3>2, <3>3 DEF TypeInv
  <2> QED
    BY <1>2, <2>2 DEF TypeInv, UsbplugRuns, args, cmdVars, files
<1>3. CASE Leaves(b)
  <2>1. board' \in [Boards -> BoardT]
    <3> DEFINE r == [board[b] EXCEPT !.mode = "resetting", !.pipe = <<>>]
    <3>1. r \in BoardT
      BY DEF BoardT, TypeInv
    <3>2. board' = [board EXCEPT ![b] = r]
      BY <1>3 DEF Leaves, TypeInv
    <3> HIDE DEF r
    <3> QED
      BY <3>1, <3>2 DEF TypeInv
  <2> QED
    BY <1>3, <2>1 DEF TypeInv, Leaves, args, cmdVars, files, ghost
<1>4. CASE Vanish(b)
  <2>1. board' \in [Boards -> BoardT]
    BY <1>4 DEF Vanish, TypeInv, BoardT
  <2> QED
    BY <1>4, <2>1 DEF TypeInv, Vanish, args, cmdVars, files
<1> QED
  BY <1>1, <1>2, <1>3, <1>4

\* Opening a device drops the first packets of its pipe, or leaves the pipe alone.
LEMMA OpenPipe ==
  ASSUME TypeInv, at \in Boards, NEW to, Open(to)
  PROVE  \/ board' = board
         \/ \E j \in Nat : board' = [board EXCEPT ![at].pipe = Rest(board[at].pipe, j)]
<1> DEFINE p == board[at].pipe
           j == IF Len(p) < DrainReads THEN Len(p) ELSE DrainReads
<1>1. CASE board' = board
  BY <1>1
<1>2. CASE board' = [board EXCEPT ![at].pipe =
                       SubSeq(@, IF Len(@) < DrainReads THEN Len(@) + 1 ELSE DrainReads + 1, Len(@))]
  <2>1. j \in Nat
    BY BoardTypes, UsbAssumption
  <2>2. board' = [board EXCEPT ![at].pipe = Rest(p, j)]
    BY <1>2, BoardTypes, UsbAssumption DEF Rest
  <2> HIDE DEF j
  <2> QED
    BY <2>1, <2>2
<1> QED
  BY <1>1, <1>2 DEF Open

LEMMA OpenType ==
  ASSUME TypeInv, at \in Boards, NEW to \in {"reset", "ddr", "id", "info"}, Open(to)
  PROVE  TypeInv'
<1> USE BoardTypes
<1>1. board' \in [Boards -> BoardT]
  <2>1. CASE board' = board
    BY <2>1 DEF TypeInv
  <2>2. ASSUME NEW j \in Nat, board' = [board EXCEPT ![at].pipe = Rest(board[at].pipe, j)]
        PROVE  board' \in [Boards -> BoardT]
    <3>1. Rest(board[at].pipe, j) \in Seq(Packet)
      BY RestType
    <3> QED
      BY <2>2, <3>1 DEF TypeInv, BoardT
  <2> QED
    BY <2>1, <2>2, OpenPipe
<1>2. /\ pc' \in {to, "failed"} /\ partial' \in Seq(Items)
      /\ driver' \in [Boards -> {"bound", "ours", "lost"}] /\ opened' \subseteq Boards
  BY RaiseEffect DEF Open, Raise, TypeInv
<1>3. owned' \in BOOLEAN
  BY DEF Open
<1> QED
  BY <1>1, <1>2, <1>3 DEF TypeInv, Open, args, cmdVars, Early, Bound, Fresh

LEMMA UploadType ==
  ASSUME TypeInv, at \in Boards, Upload
  PROVE  TypeInv'
<1> USE BoardTypes
<1>1. CASE /\ RomTakes(at, IF pc = "ddr" THEN "471" ELSE "472", Chunks[chunk])
           /\ chunk' \in {1, chunk + 1} /\ pc' \in {pc, "plug", "wait_plug"} /\ partial' = partial
           /\ UNCHANGED <<driver, opened>> \/ Close
  <2>1. PICK m \in {board[at].mode, "starting"}, g \in {"471", "472", "bad"} :
           board' = [board EXCEPT ![at].mode = m, ![at].stage = g]
    BY <1>1, RomEffect
  <2>2. m \in {"gone", "maskrom", "starting", "loader", "leaving", "resetting"}
    BY DEF BoardT
  <2>3. board' \in [Boards -> BoardT]
    <3> DEFINE r == [board[at] EXCEPT !.mode = m, !.stage = g]
    <3>1. r \in BoardT
      BY <2>2 DEF BoardT, TypeInv
    <3>2. board' = [board EXCEPT ![at] = r]
      BY <2>1 DEF TypeInv
    <3> HIDE DEF r
    <3> QED
      BY <3>1, <3>2 DEF TypeInv
  <2>4. driver' \in [Boards -> {"bound", "ours", "lost"}] /\ opened' \subseteq Boards
    BY <1>1, CloseEffect DEF TypeInv
  <2>5. chunk' \in Nat \ {0} /\ pc' \in Bound \cup Early \cup {"idle", "ok", "failed"}
    BY <1>1 DEF TypeInv, Bound, Fresh
  <2> QED
    BY <1>1, <2>3, <2>4, <2>5 DEF TypeInv, Upload, args, cmdVars
<1>2. CASE Raise /\ UNCHANGED <<board, chunk>>
  BY <1>2, RaiseEffect DEF Raise, TypeInv, Upload, args, cmdVars
<1> QED
  BY <1>1, <1>2 DEF Upload

LEMMA SendType ==
  ASSUME TypeInv, FileInv, at \in Boards, pc \in {"reset", "id", "info", "dump"}, SendCbw(Op, Packets, lba)
  PROVE  TypeInv'
<1> USE BoardTypes
<1>1. CASE /\ board' = [board EXCEPT ![at].cmd = [op |-> Op, tag |-> tag + 1, lba |-> lba, n |-> Packets]]
           /\ tag' = tag + 1 /\ phase' \in {"data", "csw"}
           /\ UNCHANGED <<pc, partial, driver, opened, faults, trouble>>
  <2> DEFINE c == [op |-> Op, tag |-> tag + 1, lba |-> lba, n |-> Packets]
  <2>1. Op \in {"reset", "id", "info", "read"}
    BY DEF Op
  <2>2. c \in CommandT
    BY <2>1, PacketsType DEF CommandT, TypeInv
  <2> HIDE DEF c
  <2>3. board' = [board EXCEPT ![at].cmd = c]
    BY <1>1 DEF c
  <2>4. board' \in [Boards -> BoardT]
    BY <2>2, <2>3 DEF TypeInv, BoardT
  <2> QED
    BY <1>1, <2>4 DEF TypeInv, SendCbw, args
<1>2. CASE Raise /\ UNCHANGED <<board, tag, phase>>
  BY <1>2, RaiseEffect DEF Raise, TypeInv, SendCbw, args
<1> QED
  BY <1>1, <1>2 DEF SendCbw

\* The data phase takes the first packets of the pipe.
LEMMA DataEffect ==
  ASSUME TypeInv, FileInv, at \in Boards, ReadData(Packets)
  PROVE  \/ /\ pc' = "failed" /\ Raise /\ UNCHANGED <<board, payload, phase>>
         \/ \E j \in 0..Len(board[at].pipe) :
              /\ payload' = SubSeq(board[at].pipe, 1, j) /\ payload' \in Seq(Packet)
              /\ Len(payload') = j /\ \A i \in 1..j : payload'[i] = board[at].pipe[i]
              /\ board' = [board EXCEPT ![at].pipe = Rest(board[at].pipe, j)]
              /\ phase' = "csw" /\ live /\ UNCHANGED <<pc, partial, driver, opened>>
<1> USE BoardTypes
<1>1. CASE Raise /\ UNCHANGED <<board, payload, phase>>
  BY <1>1 DEF Raise, RaiseAs
<1>2. ASSUME /\ Held # "absent" /\ board[at].pipe # <<>>
             /\ payload' = SubSeq(board[at].pipe, 1, Taken(board[at].pipe, Packets))
             /\ board' = [board EXCEPT ![at].pipe = SubSeq(@, Taken(board[at].pipe, Packets) + 1, Len(@))]
             /\ phase' = "csw" /\ UNCHANGED <<pc, partial, driver, opened>>
      PROVE  \E j \in 0..Len(board[at].pipe) :
              /\ payload' = SubSeq(board[at].pipe, 1, j) /\ payload' \in Seq(Packet)
              /\ Len(payload') = j /\ \A i \in 1..j : payload'[i] = board[at].pipe[i]
              /\ board' = [board EXCEPT ![at].pipe = Rest(board[at].pipe, j)]
              /\ phase' = "csw" /\ live /\ UNCHANGED <<pc, partial, driver, opened>>
  <2> DEFINE s == board[at].pipe
             j == Taken(s, Packets)
  <2>1. s \in Seq(Packet) /\ Len(s) \in Nat /\ j \in 0..Len(s)
    BY <1>2, PacketsType, TakenType
  <2>2. board' = [board EXCEPT ![at].pipe = Rest(s, j)]
    BY <1>2 DEF Rest
  <2>3. payload' = SubSeq(s, 1, j)
    BY <1>2
  <2>4. live
    BY <1>2 DEF Held
  <2> HIDE DEF s, j
  <2>5. \A i \in 1..j : s[i] \in Packet
    BY <2>1
  <2>6. /\ SubSeq(s, 1, j) \in Seq(Packet) /\ Len(SubSeq(s, 1, j)) = j
        /\ \A i \in 1..j : SubSeq(s, 1, j)[i] = s[i]
    BY <2>1, <2>5
  <2>7. /\ payload' \in Seq(Packet) /\ Len(payload') = j
        /\ \A i \in 1..j : payload'[i] = s[i]
    BY <2>3, <2>6, Zenon
  <2> QED
    BY <1>2, <2>1, <2>2, <2>3, <2>4, <2>7, Zenon DEF s
<1> QED
  BY <1>1, <1>2 DEF ReadData

LEMMA ReadDataType ==
  ASSUME TypeInv, FileInv, at \in Boards, ReadData(Packets)
  PROVE  TypeInv'
<1> USE BoardTypes
<1>1. CASE Raise /\ UNCHANGED <<board, payload, phase>>
  BY <1>1, RaiseEffect DEF Raise, TypeInv, ReadData, args
<1>2. ASSUME NEW j \in 0..Len(board[at].pipe), payload' \in Seq(Packet),
             board' = [board EXCEPT ![at].pipe = Rest(board[at].pipe, j)],
             phase' = "csw", UNCHANGED <<pc, partial, driver, opened>>
      PROVE  TypeInv'
  <2>1. Rest(board[at].pipe, j) \in Seq(Packet)
    BY RestType
  <2>2. board' \in [Boards -> BoardT]
    BY <1>2, <2>1 DEF TypeInv, BoardT
  <2> QED
    BY <1>2, <2>2 DEF TypeInv, ReadData, args
<1> QED
  BY <1>1, <1>2, DataEffect

\* The invocation ends with an error.
Fails ==
  /\ pc' = "failed" /\ partial' \in Seq(Items)
  /\ driver' \in [Boards -> {"bound", "ours", "lost"}] /\ opened' \subseteq opened

\* What the end of a command leads to.
EndsReset == /\ pc = "reset" /\ pc' = "wait_rom" /\ phase' = "cbw" /\ UNCHANGED <<partial, lba>>
             /\ driver' \in [Boards -> {"bound", "ours", "lost"}] /\ opened' \subseteq opened
EndsId == pc = "id" /\ pc' = "close" /\ phase' = "cbw" /\ UNCHANGED <<partial, lba, driver, opened>>
EndsInfo == /\ pc = "info" /\ pc' = "dump" /\ phase' = "cbw" /\ partial' = <<>> /\ lba' = extent[1]
            /\ UNCHANGED <<driver, opened>>
EndsRead == /\ pc = "dump" /\ pc' = (IF lba + Packets = End THEN "replace" ELSE "dump") /\ phase' = "cbw"
            /\ live /\ board[at].pipe # <<>> /\ Head(board[at].pipe).k = "csw"
            /\ StatusOK("read", Packets, Head(board[at].pipe)) /\ phase = "csw"
            /\ partial' = partial \o Content(payload) /\ lba' = lba + Packets
            /\ UNCHANGED <<driver, opened>>

LEMMA CswEffect ==
  ASSUME TypeInv, at \in Boards, pc \in {"reset", "id", "info", "dump"}, ReadCsw
  PROVE  /\ \/ Fails /\ lba' = lba /\ phase' \in {"cbw", "csw"}
            \/ EndsReset \/ EndsId \/ EndsInfo \/ EndsRead
         /\ \/ board' = board
            \/ board[at].pipe # <<>> /\ board' = [board EXCEPT ![at].pipe = Tail(@)]
<1> DEFINE w == Head(board[at].pipe)
<1>1. ASSUME NEW kind, RaiseAs(kind)
      PROVE  Fails
  BY <1>1, RaiseEffect DEF Fails
<1>2. ASSUME Close
      PROVE  driver' \in [Boards -> {"bound", "ours", "lost"}] /\ opened' \subseteq opened
  BY <1>2, CloseEffect
<1>3. CASE /\ Held # "absent" /\ board[at].pipe # <<>>
           /\ board' = [board EXCEPT ![at].pipe = Tail(@)]
           /\ IF w.k = "csw" THEN StatusOK(Op, Packets, w) ELSE Op = "reset"
           /\ CommandDone
  <2>1. CASE AfterReset
    BY <1>2, <1>3, <2>1 DEF AfterReset, CommandDone, EndsReset
  <2>2. CASE AfterId
    BY <1>3, <2>2 DEF AfterId, CommandDone, EndsId
  <2>3. CASE AfterInfo
    BY <1>1, <1>3, <2>3 DEF AfterInfo, Raise, CommandDone, EndsInfo
  <2>4. CASE AfterRead
    <3>1. CASE Raise /\ UNCHANGED lba
      BY <1>1, <1>3, <3>1 DEF Raise, CommandDone
    <3>2. CASE /\ pc = "dump" /\ partial' = partial \o Content(payload) /\ lba' = lba + Packets
               /\ pc' = (IF lba + Packets = End THEN "replace" ELSE "dump")
               /\ UNCHANGED <<driver, opened, faults, trouble>>
      <4>1. Op = "read" /\ Op # "reset"
        BY <3>2 DEF Op
      <4>2. w.k = "csw" /\ StatusOK("read", Packets, w)
        BY <1>3, <4>1
      <4>3. live /\ phase = "csw" /\ phase' = "cbw"
        BY <1>3 DEF Held, ReadCsw, CommandDone
      <4> HIDE DEF w
      <4>4. EndsRead
        BY <1>3, <3>2, <4>2, <4>3, Zenon DEF EndsRead, w
      <4> QED
        BY <1>3, <4>4
    <3> QED
      BY <2>4, <3>1, <3>2, Zenon DEF AfterRead
  <2> QED
    BY <1>3, <2>1, <2>2, <2>3, <2>4 DEF CommandDone
<1>4. CASE /\ Held # "absent" /\ board[at].pipe # <<>>
           /\ board' = [board EXCEPT ![at].pipe = Tail(@)]
           /\ \E kind \in {"plain", "usb"} : RaiseAs(kind)
           /\ UNCHANGED <<phase, lba, faults, trouble>>
  BY <1>1, <1>4 DEF ReadCsw
<1>5. CASE /\ UNCHANGED <<board, lba>>
           /\ IF Op = "reset" THEN Close /\ pc' = "wait_rom" /\ phase' = "cbw" /\ UNCHANGED partial
                              ELSE Raise /\ UNCHANGED phase
  <2>1. CASE Op = "reset"
    <3>1. pc = "reset"
      BY <2>1 DEF Op
    <3> QED
      BY <1>2, <1>5, <2>1, <3>1 DEF EndsReset
  <2>2. CASE Op # "reset"
    BY <1>1, <1>5, <2>2 DEF Raise, ReadCsw
  <2> QED
    BY <2>1, <2>2
<1> QED
  BY <1>3, <1>4, <1>5, Zenon DEF ReadCsw

LEMMA ContentType ==
  ASSUME TypeInv
  PROVE  /\ Content(payload) \in Seq(Items) /\ Len(Content(payload)) = Len(payload)
         /\ \A i \in 1..Len(payload) : payload[i].k = "data" =>
              Content(payload)[i] = [board |-> at, lba |-> payload[i].lba]
<1>1. payload \in Seq(Packet) /\ DOMAIN payload = 1..Len(payload) /\ Len(payload) \in Nat
  BY DEF TypeInv
<1>2. NoFile[1] \in Items
  BY DEF NoFile, Items
<1>3. \A i \in 1..Len(payload) : payload[i].lba \in Nat
  <2>1. \A i \in 1..Len(payload) : payload[i] \in Packet
    BY <1>1
  <2> QED
    BY <2>1 DEF Packet
<1>4. \A i \in 1..Len(payload) : Content(payload)[i] \in Items
  BY <1>1, <1>2, <1>3 DEF Content, TypeInv, Items
<1>5. Content(payload) = [i \in 1..Len(payload) |-> Content(payload)[i]]
  BY <1>1 DEF Content
<1>6. Content(payload) \in Seq(Items) /\ Len(Content(payload)) = Len(payload)
  BY <1>1, <1>4, <1>5, FunctionIsSeq
<1> QED
  BY <1>1, <1>6 DEF Content

LEMMA ReadCswType ==
  ASSUME TypeInv, FileInv, at \in Boards, pc \in {"reset", "id", "info", "dump"}, ReadCsw
  PROVE  TypeInv'
<1> USE BoardTypes
<1>1. board' \in [Boards -> BoardT]
  <2>1. CASE board' = board
    BY <2>1 DEF TypeInv
  <2>2. CASE board[at].pipe # <<>> /\ board' = [board EXCEPT ![at].pipe = Tail(@)]
    <3>1. Tail(board[at].pipe) \in Seq(Packet)
      BY <2>2
    <3> QED
      BY <2>2, <3>1 DEF TypeInv, BoardT
  <2> QED
    BY <2>1, <2>2, CswEffect
<1>2. /\ driver' \in [Boards -> {"bound", "ours", "lost"}] /\ opened' \subseteq Boards
      /\ pc' \in Bound \cup {"failed"} /\ phase' \in {"cbw", "csw"}
  <2>1. driver' \in [Boards -> {"bound", "ours", "lost"}]
    BY CswEffect DEF Fails, EndsReset, EndsId, EndsInfo, EndsRead, TypeInv
  <2>2. opened' \subseteq opened /\ opened \subseteq Boards
    BY CswEffect DEF Fails, EndsReset, EndsId, EndsInfo, EndsRead, TypeInv
  <2>3. pc' \in {"wait_rom", "close", "dump", "replace", "failed"} /\ phase' \in {"cbw", "csw"}
    BY CswEffect DEF Fails, EndsReset, EndsId, EndsInfo, EndsRead
  <2> QED
    BY <2>1, <2>2, <2>3 DEF Bound, Fresh
<1>3. lba' \in Nat
  <2>1. lba \in Nat /\ extent[1] \in Nat /\ lba + Packets \in Nat
    BY ExtentType, PacketsType DEF TypeInv
  <2>2. lba' \in {lba, extent[1], lba + Packets}
    BY CswEffect DEF Fails, EndsReset, EndsId, EndsInfo, EndsRead
  <2> QED
    BY <2>1, <2>2
<1>4. partial' \in Seq(Items)
  <2>1. partial \o Content(payload) \in Seq(Items) /\ <<>> \in Seq(Items) /\ partial \in Seq(Items)
    BY ContentType DEF TypeInv
  <2> QED
    BY <2>1, CswEffect, Zenon DEF Fails, EndsReset, EndsId, EndsInfo, EndsRead
<1> QED
  BY <1>1, <1>2, <1>3, <1>4 DEF TypeInv, ReadCsw, args

\* Every step of the host outside Start that fails, or moves on without a board.
LEMMA FindType ==
  ASSUME TypeInv, Find
  PROVE  TypeInv'
<1>1. CASE Raise /\ UNCHANGED <<at, live, first>>
  BY <1>1, RaiseEffect DEF Raise, TypeInv, Find, WaitForDevice, args, cmdVars
<1>2. ASSUME NEW b \in Boards, at' = b, live' = TRUE, first' = (IF first = NoBoard THEN b ELSE first),
             pc' \in {"open_plug", "open_stale", "open_rom"}, UNCHANGED <<partial, driver, opened, trouble>>
      PROVE  TypeInv'
  BY <1>2 DEF TypeInv, Find, WaitForDevice, args, cmdVars, Bound, Fresh
<1> QED
  BY <1>1, <1>2, Zenon DEF Find, WaitForDevice, FindDevices

LEMMA GoneEffect ==
  ASSUME TypeInv, Gone
  PROVE  driver' \in [Boards -> {"bound", "ours", "lost"}] /\ opened' = {}
BY DEF TypeInv, Gone

\* The steps that change neither the boards nor the command under way.
LEMMA OtherType ==
  ASSUME TypeInv, Resolve \/ FindNothing \/ Replace \/ Finish \/ Exit \/ Kill
  PROVE  TypeInv'
<1>1. CASE Resolve
  BY <1>1, RaiseEffect DEF Raise, TypeInv, Resolve, args, cmdVars, Early
<1>2. CASE FindNothing
  BY <1>2, RaiseEffect DEF Raise, TypeInv, FindNothing, WaitExpires, args, cmdVars
<1>3. CASE Replace
  <2>1. NoFile \in Seq(Items)
    BY DEF NoFile, Items
  <2> QED
    BY <1>3, <2>1, RaiseEffect DEF Raise, TypeInv, Replace, args, cmdVars, Bound, Fresh
<1>4. CASE Finish
  BY <1>4, CloseEffect DEF TypeInv, Finish, args, cmdVars, files, ghost
<1>5. CASE Exit
  BY <1>5, GoneEffect DEF TypeInv, Exit, args, cmdVars, files, ghost
<1>6. CASE Kill
  BY <1>6, GoneEffect DEF TypeInv, Kill, args, cmdVars, files
<1> QED
  BY <1>1, <1>2, <1>3, <1>4, <1>5, <1>6

LEMMA BoundBoard ==
  ASSUME TypeInv, HoldInv, pc \in Bound
  PROVE  at \in Boards /\ at = first
BY DEF HoldInv

LEMMA StartEffect ==
  ASSUME Start
  PROVE  /\ pc = "idle" /\ session' = session + 1 /\ pin' \in Boards \cup {NoBoard}
         /\ pc' = "resolve" /\ at' = NoBoard /\ live' = FALSE /\ first' = NoBoard /\ owned' = FALSE
         /\ chunk' = 1 /\ phase' = "cbw" /\ payload' = <<>> /\ lba' = 0
         /\ UNCHANGED <<board, driver, opened, tag, partial, target>>
BY Zenon DEF Start, bus, files

LEMMA TypeStep ==
  ASSUME IInv, [Next]_vars
  PROVE  TypeInv'
<1> USE DEF IInv
<1>1. CASE Start
  <2>1. extent' \in AllExtents /\ job' \in {"burn", "dump"}
    BY <1>1 DEF Start, AllExtents
  <2> QED
    BY <1>1, <2>1, StartEffect DEF TypeInv, bus, files, Early
<1>2. CASE Resolve \/ FindNothing \/ Replace \/ Finish \/ Exit \/ Kill
  BY <1>2, OtherType
<1>3. CASE PowerCycle
  <2>1. board' \in [Boards -> BoardT]
    <3> DEFINE r == [mode |-> "gone", stage |-> "471", pipe |-> <<>>, cmd |-> NoCmd, by |-> 0]
    <3>1. ASSUME NEW b \in Boards
          PROVE  r \in BoardT
      BY BoardTypes DEF BoardT
    <3>2. board' = board \/ \E b \in Boards : board' = [board EXCEPT ![b] = r]
      BY <1>3 DEF PowerCycle, bus
    <3> HIDE DEF r
    <3> QED
      BY <3>1, <3>2 DEF TypeInv
  <2> QED
    BY <1>3, <2>1 DEF PowerCycle, TypeInv, bus, args, cmdVars, files, ghost, Early
<1>4. CASE Find
  BY <1>4, FindType
<1>5. CASE OpenStale \/ OpenRom \/ OpenPlug
  <2>1. pc \in Bound
    BY <1>5 DEF OpenStale, OpenRom, OpenPlug, Bound, Fresh
  <2> QED
    BY <1>5, <2>1, BoundBoard, OpenType DEF OpenStale, OpenRom, OpenPlug
<1>6. CASE Upload
  <2>1. pc \in Bound
    BY <1>6 DEF Upload, Bound, Fresh
  <2> QED
    BY <1>6, <2>1, BoundBoard, UploadType
<1>7. CASE Command
  <2>1. pc \in Bound /\ pc \in {"reset", "id", "info", "dump"}
    BY <1>7 DEF Command, Bound, Fresh
  <2> QED
    BY <1>7, <2>1, BoundBoard, SendType, ReadDataType, ReadCswType DEF Command
<1>8. CASE BoardStep
  BY <1>8, BoardStepType DEF BoardStep
<1>9. CASE UNCHANGED vars
  BY <1>9 DEF TypeInv, vars, bus, args, cmdVars, files, ghost
<1> QED
  BY <1>1, <1>2, <1>3, <1>4, <1>5, <1>6, <1>7, <1>8, <1>9 DEF Next, HostStep, Ended

---------------------------------------------------------------------------
(* The board held is the board found.                                      *)

LEMMA FindEffect ==
  ASSUME TypeInv, HoldInv, Find
  PROVE  /\ UNCHANGED <<board, args, owned, phase, tag, payload, lba, target>>
         /\ \/ Fails /\ UNCHANGED <<at, live, first>>
            \/ /\ at' \in Boards /\ live' = TRUE /\ first' = at' /\ UNCHANGED <<partial, driver, opened>>
               /\ \/ pc = "wait" /\ (pin # NoBoard => at' = pin) /\ opened = {}
                  \/ pc \in {"wait_rom", "wait_plug"} /\ first' = first
               /\ \/ pc = "wait_plug" /\ pc' = "open_plug"
                  \/ pc # "wait_plug" /\ pc' = "open_stale"
                  \/ pc # "wait_plug" /\ pc' = "open_rom" /\ Mode(at') # "loader"
<1>1. UNCHANGED <<board, args, owned, phase, tag, payload, lba, target>>
  BY DEF Find, WaitForDevice, cmdVars
<1>2. CASE Raise /\ UNCHANGED <<at, live, first>>
  BY <1>1, <1>2, RaiseEffect DEF Raise, Fails
<1>3. ASSUME NEW b \in FindDevices(Path), at' = b, live' = TRUE, first' = (IF first = NoBoard THEN b ELSE first),
             pc' = (IF pc = "wait_plug" THEN "open_plug"
                    ELSE IF Mode(b) = "loader" THEN "open_stale" ELSE "open_rom"),
             UNCHANGED <<partial, driver, opened, trouble>>
      PROVE  /\ at' \in Boards /\ live' = TRUE /\ first' = at' /\ UNCHANGED <<partial, driver, opened>>
             /\ \/ pc = "wait" /\ (pin # NoBoard => at' = pin) /\ opened = {}
                \/ pc \in {"wait_rom", "wait_plug"} /\ first' = first
             /\ \/ pc = "wait_plug" /\ pc' = "open_plug"
                \/ pc # "wait_plug" /\ pc' = "open_stale"
                \/ pc # "wait_plug" /\ pc' = "open_rom" /\ Mode(at') # "loader"
  <2>1. b \in Boards /\ (Path = NoBoard \/ b = Path)
    BY <1>3 DEF FindDevices
  <2>2. CASE pc = "wait"
    <3>1. first = NoBoard /\ opened = {} /\ Path = pin
      BY <2>2 DEF HoldInv, Early, Path
    <3> QED
      BY <1>3, <2>1, <2>2, <3>1
  <2>3. CASE pc \in {"wait_rom", "wait_plug"}
    <3>1. first \in Boards /\ Path = first /\ first # NoBoard
      BY <2>3, UsbAssumption DEF HoldInv, Bound, Fresh, Path
    <3> QED
      BY <1>3, <2>1, <2>3, <3>1
  <2> QED
    BY <2>2, <2>3 DEF Find
<1> QED
  BY <1>1, <1>2, <1>3, Zenon DEF Find, WaitForDevice

\* An invocation goes on with what it holds, or fails.
LEMMA HoldKept ==
  ASSUME HoldInv, UNCHANGED <<at, first, pin>>, live' => live,
         opened' \subseteq opened \/ (pc \in Bound /\ opened' \subseteq opened \cup {at}),
         \/ pc' = pc /\ owned' = owned
         \/ pc' \in {"failed", "ok"}
         \/ pc \in Bound /\ pc' \in Bound
         \/ pc \in Early /\ pc' \in Early /\ owned' = owned
  PROVE  HoldInv'
<1>1. SameBoard'
  BY DEF HoldInv, SameBoard
<1>2. (live => at \in Boards)'
  BY DEF HoldInv
<1>3. pc' \in Bound => pc \in Bound
  BY DEF Bound, Fresh, Early
<1>4. pc' \in Early => pc \in Early /\ owned' = owned /\ opened' \subseteq opened
  BY DEF Bound, Fresh, Early
<1>5. pc' \in Early \cup {"idle"} => pc \in Early \cup {"idle"} /\ opened' \subseteq opened
  BY DEF Bound, Fresh, Early
<1> QED
  BY <1>1, <1>2, <1>3, <1>4, <1>5 DEF HoldInv

LEMMA OpenEffect ==
  ASSUME TypeInv, Open("reset") \/ Open("ddr") \/ Open(IF job = "burn" THEN "id" ELSE "info")
  PROVE  /\ UNCHANGED <<args, at, live, first, phase, tag, payload, lba, target>>
         /\ \/ Fails /\ UNCHANGED board
            \/ /\ pc' \in {"reset", "ddr", "id", "info"} /\ opened' = opened \cup {at} /\ UNCHANGED partial
BY RaiseEffect DEF Open, Raise, Fails, cmdVars

LEMMA UploadEffect ==
  ASSUME TypeInv, Upload
  PROVE  /\ UNCHANGED <<args, at, live, first, owned, phase, tag, payload, lba, target>>
         /\ \/ Fails /\ UNCHANGED board
            \/ /\ \E code \in {"471", "472"} : \E c : RomTakes(at, code, c)
               /\ pc' \in {"ddr", "plug", "wait_plug"} /\ opened' \subseteq opened /\ UNCHANGED partial
BY RaiseEffect, CloseEffect DEF Upload, Raise, Fails, cmdVars

\* What a board does alone.
LEMMA BoardStepEffect ==
  ASSUME NEW b \in Boards, Appear(b) \/ UsbplugRuns(b) \/ Leaves(b) \/ Vanish(b)
  PROVE  /\ UNCHANGED <<session, job, extent, pin, pc, at, first, owned, opened,
                         phase, tag, payload, lba, partial, target>>
         /\ live' => live
         /\ UsbplugRuns(b) \/ (live' => b # at)
<1>1. CASE Appear(b)
  BY <1>1 DEF Appear, args, cmdVars, files, ghost
<1>2. CASE UsbplugRuns(b)
  BY <1>2 DEF UsbplugRuns, args, cmdVars, files
<1>3. CASE Leaves(b)
  BY <1>3 DEF Leaves, args, cmdVars, files, ghost
<1>4. CASE Vanish(b)
  BY <1>4 DEF Vanish, args, cmdVars, files
<1> QED
  BY <1>1, <1>2, <1>3, <1>4

LEMMA HoldStep ==
  ASSUME IInv, [Next]_vars
  PROVE  HoldInv'
<1> USE DEF IInv
<1>1. CASE Start
  <2>1. opened = {} /\ opened' = {}
    BY <1>1, StartEffect DEF HoldInv
  <2> QED
    BY <1>1, <2>1, StartEffect DEF HoldInv, SameBoard, Bound, Fresh
<1>2. CASE Resolve
  BY <1>2, HoldKept, RaiseEffect DEF Resolve, Raise, args, Early
<1>3. CASE PowerCycle
  BY <1>3, HoldKept DEF PowerCycle, args, Early
<1>4. CASE Find
  <2>1. CASE Fails /\ UNCHANGED <<at, live, first>>
    BY <1>4, <2>1, FindEffect, HoldKept DEF Fails, args
  <2>2. CASE ~ (Fails /\ UNCHANGED <<at, live, first>>)
    <3>1. pc' \in {"open_plug", "open_stale", "open_rom"}
      BY <1>4, <2>2, FindEffect
    <3>2. pc' \in Bound /\ pc' \notin Early \cup {"idle"}
      BY <3>1 DEF Bound, Fresh, Early
    <3>3. SameBoard'
      BY <1>4, <2>2, FindEffect DEF HoldInv, SameBoard, args
    <3> QED
      BY <1>4, <2>2, <3>2, <3>3, FindEffect DEF HoldInv
  <2> QED
    BY <2>1, <2>2
<1>5. CASE FindNothing
  BY <1>5, HoldKept, RaiseEffect DEF FindNothing, WaitExpires, Raise, args
<1>6. CASE OpenStale \/ OpenRom \/ OpenPlug
  <2>1. pc \in Bound
    BY <1>6 DEF OpenStale, OpenRom, OpenPlug, Bound, Fresh
  <2>2. pc' \in Bound \cup {"failed"} /\ opened' \subseteq opened \cup {at} /\ UNCHANGED <<args, at, live, first>>
    BY <1>6, OpenEffect DEF OpenStale, OpenRom, OpenPlug, Bound, Fresh, Fails
  <2> QED
    BY <2>1, <2>2, HoldKept DEF args
<1>7. CASE Upload
  <2>1. pc \in Bound
    BY <1>7 DEF Upload, Bound, Fresh
  <2>2. pc' \in Bound \cup {"failed"} /\ opened' \subseteq opened /\ UNCHANGED <<args, at, live, first>>
    BY <1>7, UploadEffect DEF Bound, Fresh, Fails
  <2> QED
    BY <2>1, <2>2, HoldKept DEF args
<1>8. CASE Command
  <2>1. pc \in Bound /\ pc \in {"reset", "id", "info", "dump"}
    BY <1>8 DEF Command, Bound, Fresh
  <2>2. CASE SendCbw(Op, Packets, lba)
    BY <2>1, <2>2, HoldKept, RaiseEffect DEF SendCbw, Raise, args
  <2>3. CASE ReadData(Packets)
    BY <2>1, <2>3, HoldKept, RaiseEffect DEF ReadData, Raise, args
  <2>4. CASE ReadCsw
    <3>1. pc' \in Bound \cup {"failed"} /\ opened' \subseteq opened
      BY <2>1, <2>4, BoundBoard, CswEffect
         DEF Fails, EndsReset, EndsId, EndsInfo, EndsRead, Bound, Fresh
    <3> QED
      BY <2>1, <2>4, <3>1, HoldKept DEF ReadCsw, args
  <2> QED
    BY <1>8, <2>2, <2>3, <2>4 DEF Command
<1>9. CASE Replace
  BY <1>9, HoldKept, RaiseEffect DEF Replace, Raise, args, Bound, Fresh
<1>10. CASE Finish
  BY <1>10, HoldKept, CloseEffect DEF Finish, args
<1>11. CASE Exit
  BY <1>11 DEF Exit, Gone, args, HoldInv, SameBoard, Early, Bound, Fresh
<1>12. CASE Kill
  BY <1>12, HoldKept DEF Kill, Gone, args
<1>13. CASE BoardStep
  <2>1. PICK b \in Boards : Appear(b) \/ UsbplugRuns(b) \/ Leaves(b) \/ Vanish(b)
    BY <1>13 DEF BoardStep
  <2>2. UNCHANGED <<at, first, pin, pc, owned, opened>> /\ (live' => live)
    BY <2>1, BoardStepEffect
  <2> QED
    BY <2>2, HoldKept
<1>14. CASE UNCHANGED vars
  BY <1>14, HoldKept DEF vars, args
<1> QED
  BY <1>1, <1>2, <1>3, <1>4, <1>5, <1>6, <1>7, <1>8, <1>9, <1>10, <1>11, <1>12, <1>13, <1>14
     DEF Next, HostStep, Ended

---------------------------------------------------------------------------
(* The usbplug is the invocation's own.                                    *)

\* How a step may change the board a fresh invocation holds.
StaysOwn(b) ==
  board'[b].mode \in {"loader", "leaving"} =>
    \/ board[b].mode \in {"loader", "leaving"} /\ board'[b].by = board[b].by
    \/ board'[b].by = session

LEMMA FreshKept ==
  ASSUME FreshInv, pc' \in Fresh => pc \in Fresh /\ StaysOwn(first), UNCHANGED <<first, session>>
  PROVE  FreshInv'
BY DEF FreshInv, StaysOwn

LEMMA BoardsOwn ==
  ASSUME TypeInv, NEW b \in Boards, NEW x \in Boards,
         Appear(x) \/ UsbplugRuns(x) \/ Leaves(x) \/ Vanish(x)
  PROVE  StaysOwn(b)
<1>1. b # x => board'[b] = board[b]
  BY DEF Appear, UsbplugRuns, Leaves, Vanish, TypeInv
<1>2. CASE b = x /\ Appear(x)
  BY <1>2 DEF Appear, TypeInv, BoardT, StaysOwn
<1>3. CASE b = x /\ UsbplugRuns(x)
  <2>1. PICK s \in Seq(Packet), m \in {"loader", "leaving", "resetting"} :
           board' = [board EXCEPT ![x].cmd = NoCmd, ![x].pipe = s, ![x].mode = m]
    BY <1>3, RunsEffect
  <2>2. board'[x].by = board[x].by
    BY <2>1 DEF TypeInv, BoardT
  <2>3. board[x].mode = "loader"
    BY <1>3 DEF UsbplugRuns
  <2> QED
    BY <1>3, <2>2, <2>3 DEF StaysOwn
<1>4. CASE b = x /\ Leaves(x)
  BY <1>4 DEF Leaves, TypeInv, BoardT, StaysOwn
<1>5. CASE b = x /\ Vanish(x)
  BY <1>5 DEF Vanish, TypeInv, StaysOwn
<1> QED
  BY <1>1, <1>2, <1>3, <1>4, <1>5 DEF StaysOwn

LEMMA TransferOwn ==
  ASSUME TypeInv, at \in Boards, NEW s,
         \/ board' = board
         \/ board' = [board EXCEPT ![at].pipe = s]
         \/ board' = [board EXCEPT ![at].cmd = s]
  PROVE  StaysOwn(at)
BY DEF TypeInv, BoardT, StaysOwn

LEMMA FreshStep ==
  ASSUME IInv, [Next]_vars
  PROVE  FreshInv'
<1> USE DEF IInv
<1>0. ASSUME board' = board
      PROVE  \A b \in Boards : StaysOwn(b)
  BY <1>0 DEF StaysOwn
<1>1. CASE Start
  BY <1>1, StartEffect DEF FreshInv, Fresh
<1>2. CASE Resolve \/ FindNothing \/ Exit \/ Kill \/ Finish \/ PowerCycle
  <2>1. pc' \notin Fresh
    BY <1>2, RaiseEffect
       DEF Resolve, FindNothing, WaitExpires, Raise, Exit, Kill, Finish, PowerCycle, Fresh
  <2> QED
    BY <2>1 DEF FreshInv
<1>3. CASE Find
  <2>1. CASE pc' \notin Fresh
    BY <2>1 DEF FreshInv
  <2>2. CASE pc' \in Fresh
    <3>1. pc' # "failed"
      BY <2>2 DEF Fresh
    <3>2. /\ board' = board /\ session' = session /\ first' = at'
          /\ \/ pc = "wait_plug" /\ first' = first
             \/ Mode(at') # "loader"
      BY <1>3, <2>2, <3>1, FindEffect DEF Fails, args, Fresh
    <3>3. CASE pc = "wait_plug" /\ first' = first
      BY <3>2, <3>3 DEF FreshInv, Fresh
    <3>4. CASE Mode(at') # "loader"
      BY <3>2, <3>4 DEF FreshInv, Mode
    <3> QED
      BY <3>2, <3>3, <3>4
  <2> QED
    BY <2>1, <2>2
<1>4. CASE OpenStale \/ OpenRom \/ OpenPlug
  <2>1. pc \in Bound /\ (pc' \in Fresh => pc \in Fresh)
    BY <1>4, OpenEffect DEF OpenStale, OpenRom, OpenPlug, Bound, Fresh, Open, Raise, RaiseAs
  <2>2. StaysOwn(first)
    BY <1>4, <2>1, BoundBoard, OpenPipe, TransferOwn DEF OpenStale, OpenRom, OpenPlug
  <2>3. UNCHANGED <<first, session>>
    BY <1>4, OpenEffect DEF OpenStale, OpenRom, OpenPlug, args
  <2> QED
    BY <2>1, <2>2, <2>3, FreshKept
<1>5. CASE Upload
  <2>1. pc \in Bound /\ pc \in Fresh
    BY <1>5 DEF Upload, Bound, Fresh
  <2>2. StaysOwn(first)
    <3>1. CASE board' = board
      BY <1>0, <2>1, <3>1, BoundBoard
    <3>2. ASSUME NEW m \in {board[at].mode, "starting"}, NEW g \in {"471", "472", "bad"},
                 board' = [board EXCEPT ![at].mode = m, ![at].stage = g]
          PROVE  StaysOwn(first)
      <4>1. board'[at].mode = m /\ board'[at].by = board[at].by
        BY <2>1, <3>2, BoundBoard DEF TypeInv, BoardT
      <4> QED
        BY <2>1, <4>1, BoundBoard DEF StaysOwn
    <3> QED
      BY <1>5, <2>1, <3>1, <3>2, BoundBoard, UploadEffect, RomEffect
  <2>3. UNCHANGED <<first, session>>
    BY <1>5, UploadEffect DEF args
  <2> QED
    BY <2>1, <2>2, <2>3, FreshKept
<1>6. CASE Command
  <2>1. pc \in Bound /\ pc \in {"reset", "id", "info", "dump"}
    BY <1>6 DEF Command, Bound, Fresh
  <2>2. CASE SendCbw(Op, Packets, lba)
    <3>1. StaysOwn(first)
      BY <2>1, <2>2, BoundBoard, TransferOwn DEF SendCbw
    <3>2. pc' \in {pc, "failed"} /\ UNCHANGED <<first, session>>
      BY <2>2 DEF SendCbw, Raise, RaiseAs, args
    <3> QED
      BY <3>1, <3>2, FreshKept DEF Fresh
  <2>3. CASE ReadData(Packets)
    <3>1. StaysOwn(first)
      BY <2>1, <2>3, BoundBoard, DataEffect, TransferOwn
    <3>2. pc' \in {pc, "failed"} /\ UNCHANGED <<first, session>>
      BY <2>3 DEF ReadData, Raise, RaiseAs, args
    <3> QED
      BY <3>1, <3>2, FreshKept DEF Fresh
  <2>4. CASE ReadCsw
    <3>1. StaysOwn(first)
      BY <2>1, <2>4, BoundBoard, CswEffect, TransferOwn
    <3>2. pc' \in Fresh => pc \in Fresh
      BY <2>1, <2>4, BoundBoard, CswEffect DEF Fails, EndsReset, EndsId, EndsInfo, EndsRead, Fresh
    <3>3. UNCHANGED <<first, session>>
      BY <2>4 DEF ReadCsw, args
    <3> QED
      BY <3>1, <3>2, <3>3, FreshKept
  <2> QED
    BY <1>6, <2>2, <2>3, <2>4 DEF Command
<1>7. CASE Replace
  <2>1. pc \in Bound /\ pc \in Fresh /\ board' = board /\ UNCHANGED <<first, session>>
    BY <1>7 DEF Replace, args, Bound, Fresh
  <2> QED
    BY <1>0, <2>1, BoundBoard, FreshKept
<1>8. CASE BoardStep
  <2>1. PICK x \in Boards : Appear(x) \/ UsbplugRuns(x) \/ Leaves(x) \/ Vanish(x)
    BY <1>8 DEF BoardStep
  <2>2. pc' \in Fresh => pc \in Fresh /\ StaysOwn(first)
    <3>1. pc' = pc
      BY <2>1, BoardStepEffect
    <3>2. pc \in Fresh => first \in Boards
      BY DEF HoldInv, Bound
    <3> QED
      BY <2>1, <3>1, <3>2, BoardsOwn
  <2> QED
    BY <2>1, <2>2, BoardStepEffect, FreshKept
<1>9. CASE UNCHANGED vars
  BY <1>9 DEF vars, bus, args, FreshInv
<1> QED
  BY <1>1, <1>2, <1>3, <1>4, <1>5, <1>6, <1>7, <1>8, <1>9 DEF Next, HostStep, Ended

---------------------------------------------------------------------------
(* The job and the tags.                                                   *)

LEMMA JobStep ==
  ASSUME IInv, [Next]_vars
  PROVE  JobInv'
<1> USE DEF IInv
<1> DEFINE Work == {"info", "dump", "replace", "id"}
<1>0. ASSUME job' = job, pc' \in Work => pc' = pc \/ (pc \in Work /\ pc' # "id" /\ pc # "id")
      PROVE  JobInv'
  BY <1>0 DEF JobInv
<1>1. CASE Start
  BY <1>1, StartEffect DEF JobInv
<1>2. CASE Resolve \/ FindNothing \/ Exit \/ Kill \/ Finish \/ PowerCycle
  BY <1>2 DEF Resolve, FindNothing, WaitExpires, Raise, RaiseAs, Exit, Kill, Finish, PowerCycle, JobInv
<1>3. CASE Find
  BY <1>3, FindEffect DEF Fails, JobInv
<1>4. CASE OpenStale \/ OpenRom
  BY <1>4 DEF OpenStale, OpenRom, Open, Raise, RaiseAs, JobInv
<1>5. CASE OpenPlug
  BY <1>5 DEF OpenPlug, Open, Raise, RaiseAs, JobInv, TypeInv, args
<1>6. CASE Upload
  BY <1>6, UploadEffect DEF Fails, JobInv
<1>7. CASE Command
  <2>1. pc \in Bound /\ pc \in {"reset", "id", "info", "dump"}
    BY <1>7 DEF Command, Bound, Fresh
  <2>2. CASE SendCbw(Op, Packets, lba)
    BY <1>0, <2>2 DEF SendCbw, Raise, RaiseAs, args
  <2>3. CASE ReadData(Packets)
    BY <1>0, <2>3 DEF ReadData, Raise, RaiseAs, args
  <2>4. CASE ReadCsw
    <3>1. job' = job
      BY <2>4 DEF ReadCsw, args
    <3> QED
      BY <1>0, <2>1, <2>4, <3>1, BoundBoard, CswEffect DEF Fails, EndsReset, EndsId, EndsInfo, EndsRead
  <2> QED
    BY <1>7, <2>2, <2>3, <2>4 DEF Command
<1>8. CASE Replace
  BY <1>0, <1>8 DEF Replace, Raise, RaiseAs, args
<1>9. CASE BoardStep
  BY <1>0, <1>9, BoardStepEffect DEF BoardStep
<1>10. CASE UNCHANGED vars
  BY <1>0, <1>10 DEF vars, args
<1> QED
  BY <1>1, <1>2, <1>3, <1>4, <1>5, <1>6, <1>7, <1>8, <1>9, <1>10 DEF Next, HostStep, Ended

TagOK(r, t) == r.cmd.tag <= t /\ \A i \in DOMAIN r.pipe : r.pipe[i].tag <= t

LEMMA TagBoards ==
  ASSUME TypeInv, TagInv
  PROVE  \A b \in Boards : TagOK(board[b], tag)
BY DEF TagInv, TagOK

LEMMA TagOne ==
  ASSUME TypeInv, TagInv, NEW x \in Boards, NEW r, tag' = tag,
         board' = [board EXCEPT ![x] = r], TagOK(r, tag)
  PROVE  TagInv'
<1>1. \A b \in Boards : board'[b] = IF b = x THEN r ELSE board[b]
  BY DEF TypeInv
<1> QED
  BY <1>1 DEF TagInv, TagOK

LEMMA RestTags ==
  ASSUME TypeInv, TagInv, NEW b \in Boards, NEW j \in Nat, tag' = tag,
         board' = [board EXCEPT ![b].pipe = Rest(board[b].pipe, j)]
  PROVE  TagInv'
<1> DEFINE s == Rest(board[b].pipe, j)
           r == [board[b] EXCEPT !.pipe = s]
<1>1. \A i \in DOMAIN s : s[i].tag <= tag
  <2>1. \A i \in DOMAIN s : i + j \in DOMAIN board[b].pipe /\ s[i] = board[b].pipe[i + j]
    BY BoardTypes, RestType
  <2> HIDE DEF s
  <2> QED
    BY <2>1 DEF TagInv
<1>2. r.cmd = board[b].cmd /\ r.pipe = s
  BY BoardTypes DEF BoardT
<1>3. TagOK(r, tag)
  BY <1>1, <1>2, TagBoards DEF TagOK
<1>4. board' = [board EXCEPT ![b] = r]
  OBVIOUS
<1> HIDE DEF r
<1> QED
  BY <1>3, <1>4, TagOne

LEMMA EmptyTags ==
  ASSUME NEW r, r.pipe = <<>>, r.cmd = NoCmd, NEW t \in Nat
  PROVE  TagOK(r, t)
BY DEF TagOK, NoCmd

LEMMA TagStep ==
  ASSUME IInv, [Next]_vars
  PROVE  TagInv'
<1> USE DEF IInv
<1>0. ASSUME UNCHANGED <<board, tag>>
      PROVE  TagInv'
  BY <1>0 DEF TagInv
<1>1. CASE Start
  BY <1>0, <1>1, StartEffect
<1>2. CASE Resolve \/ FindNothing \/ Exit \/ Kill \/ Finish \/ Replace
  BY <1>0, <1>2 DEF Resolve, FindNothing, WaitExpires, Exit, Kill, Finish, Replace, cmdVars
<1>3. CASE Find
  BY <1>0, <1>3, FindEffect
<1>4. CASE PowerCycle
  <2>1. tag' = tag
    BY <1>4 DEF PowerCycle, cmdVars
  <2>2. CASE board' = board
    BY <1>0, <2>1, <2>2
  <2>3. ASSUME NEW b \in Boards, board' = [board EXCEPT ![b] = [mode |-> "gone", stage |-> "471", pipe |-> <<>>,
                                                                 cmd |-> NoCmd, by |-> 0]]
        PROVE  TagInv'
    <3> DEFINE r == [mode |-> "gone", stage |-> "471", pipe |-> <<>>, cmd |-> NoCmd, by |-> 0]
    <3>1. TagOK(r, tag)
      BY EmptyTags DEF TypeInv
    <3> HIDE DEF r
    <3>2. board' = [board EXCEPT ![b] = r]
      BY <2>3 DEF r
    <3> QED
      BY <2>1, <3>1, <3>2, TagOne
  <2> QED
    BY <1>4, <2>2, <2>3 DEF PowerCycle, bus
<1>5. CASE OpenStale \/ OpenRom \/ OpenPlug
  <2>1. pc \in Bound
    BY <1>5 DEF OpenStale, OpenRom, OpenPlug, Bound, Fresh
  <2>2. tag' = tag
    BY <1>5, OpenEffect DEF OpenStale, OpenRom, OpenPlug
  <2>3. board' = board \/ \E j \in Nat : board' = [board EXCEPT ![at].pipe = Rest(board[at].pipe, j)]
    BY <1>5, <2>1, BoundBoard, OpenPipe DEF OpenStale, OpenRom, OpenPlug
  <2> QED
    BY <1>0, <2>1, <2>2, <2>3, BoundBoard, RestTags
<1>6. CASE Upload
  <2>1. pc \in Bound
    BY <1>6 DEF Upload, Bound, Fresh
  <2>2. tag' = tag
    BY <1>6, UploadEffect
  <2>3. ASSUME NEW m, NEW g, board' = [board EXCEPT ![at].mode = m, ![at].stage = g]
        PROVE  TagInv'
    <3> DEFINE r == [board[at] EXCEPT !.mode = m, !.stage = g]
    <3>1. r.cmd = board[at].cmd /\ r.pipe = board[at].pipe
      BY <2>1, BoundBoard, BoardTypes DEF BoardT
    <3>2. board' = [board EXCEPT ![at] = r]
      BY <2>1, <2>3, BoundBoard DEF TypeInv
    <3>3. TagOK(r, tag)
      BY <2>1, <3>1, BoundBoard, TagBoards DEF TagOK
    <3> HIDE DEF r
    <3> QED
      BY <2>1, <2>2, <3>2, <3>3, BoundBoard, TagOne
  <2> QED
    BY <1>0, <1>6, <2>1, <2>2, <2>3, UploadEffect, RomEffect, BoundBoard
<1>7. CASE Command
  <2>1. pc \in Bound /\ pc \in {"reset", "id", "info", "dump"} /\ at \in Boards
    BY <1>7, BoundBoard DEF Command, Bound, Fresh
  <2>2. CASE SendCbw(Op, Packets, lba)
    <3>1. CASE UNCHANGED <<board, tag, phase>>
      BY <1>0, <3>1
    <3>2. CASE /\ board' = [board EXCEPT ![at].cmd = [op |-> Op, tag |-> tag + 1, lba |-> lba, n |-> Packets]]
               /\ tag' = tag + 1
      <4>1. ASSUME NEW b \in Boards
            PROVE  board'[b].cmd.tag <= tag + 1 /\ board'[b].pipe = board[b].pipe
        <5>1. board[b].cmd.tag <= tag /\ board[b].cmd.tag \in Nat /\ tag \in Nat
          BY BoardTypes DEF TagInv, TypeInv, CommandT
        <5>2. CASE b = at
          BY <2>1, <3>2, <5>1, <5>2 DEF TypeInv, BoardT
        <5>3. CASE b # at
          BY <2>1, <3>2, <5>1, <5>3 DEF TypeInv
        <5> QED
          BY <5>2, <5>3
      <4>2. ASSUME NEW b \in Boards, NEW i \in DOMAIN board[b].pipe
            PROVE  board[b].pipe[i].tag <= tag + 1
        <5>1. board[b].pipe[i].tag <= tag /\ board[b].pipe[i] \in Packet /\ tag \in Nat
          BY BoardTypes DEF TagInv, TypeInv
        <5>2. board[b].pipe[i].tag \in Nat
          BY <5>1 DEF Packet
        <5> QED
          BY <5>1, <5>2
      <4> QED
        BY <3>2, <4>1, <4>2 DEF TagInv
    <3> QED
      BY <2>2, <3>1, <3>2 DEF SendCbw
  <2>3. CASE ReadData(Packets)
    <3>1. tag' = tag
      BY <2>3 DEF ReadData
    <3>2. board' = board \/ \E j \in Nat : board' = [board EXCEPT ![at].pipe = Rest(board[at].pipe, j)]
      BY <2>1, <2>3, DataEffect, BoardTypes
    <3> QED
      BY <1>0, <2>1, <3>1, <3>2, RestTags
  <2>4. CASE ReadCsw
    <3>1. tag' = tag
      BY <2>4 DEF ReadCsw
    <3>2. CASE board[at].pipe # <<>> /\ board' = [board EXCEPT ![at].pipe = Tail(@)]
      <4>1. Tail(board[at].pipe) = Rest(board[at].pipe, 1)
        BY <2>1, <3>2, BoardTypes DEF Rest
      <4>2. board' = [board EXCEPT ![at].pipe = Rest(board[at].pipe, 1)]
        BY <3>2, <4>1
      <4> QED
        BY <2>1, <3>1, <4>2, RestTags
    <3> QED
      BY <1>0, <2>1, <2>4, <3>1, <3>2, CswEffect
  <2> QED
    BY <1>7, <2>2, <2>3, <2>4 DEF Command
<1>8. ASSUME NEW x \in Boards, Appear(x) \/ UsbplugRuns(x) \/ Leaves(x) \/ Vanish(x)
      PROVE  TagInv'
  <2>1. tag' = tag /\ tag \in Nat /\ TagOK(board[x], tag)
    BY <1>8, BoardStepEffect, TagBoards DEF TypeInv
  <2>2. CASE Appear(x)
    <3>1. \A b \in Boards : board'[b].cmd = board[b].cmd /\ board'[b].pipe = board[b].pipe
      <4>1. CASE board' = [board EXCEPT ![x].mode = "loader", ![x].by = session]
        BY <4>1 DEF TypeInv, BoardT
      <4>2. CASE board' = [board EXCEPT ![x].mode = "maskrom", ![x].stage = "471", ![x].by = 0]
        BY <4>2 DEF TypeInv, BoardT
      <4>3. CASE board' = [board EXCEPT ![x].mode = "maskrom", ![x].stage = "471"]
        BY <4>3 DEF TypeInv, BoardT
      <4> QED
        BY <2>2, <4>1, <4>2, <4>3 DEF Appear
    <3> QED
      BY <2>1, <3>1 DEF TagInv
  <2>3. CASE UsbplugRuns(x)
    <3>1. PICK s \in Seq(Packet), m \in {"loader", "leaving", "resetting"} :
             /\ IsAnswer(board[x].cmd, s)
             /\ board' = [board EXCEPT ![x].cmd = NoCmd, ![x].pipe = s, ![x].mode = m]
      BY <2>3, RunsEffect
    <3> DEFINE r == [board[x] EXCEPT !.cmd = NoCmd, !.pipe = s, !.mode = m]
    <3>2. r.cmd = NoCmd /\ r.pipe = s
      BY BoardTypes DEF BoardT
    <3>3. board' = [board EXCEPT ![x] = r]
      BY <3>1 DEF TypeInv
    <3>4. \A i \in DOMAIN s : s[i].tag = board[x].cmd.tag
      BY <3>1, BoardTypes, AnswerType
    <3>5. TagOK(r, tag)
      BY <2>1, <3>2, <3>4 DEF TagOK, NoCmd
    <3> HIDE DEF r
    <3> QED
      BY <2>1, <3>3, <3>5, TagOne
  <2>4. CASE Leaves(x)
    <3> DEFINE r == [board[x] EXCEPT !.mode = "resetting", !.pipe = <<>>]
    <3>1. r.cmd = board[x].cmd /\ r.pipe = <<>>
      BY BoardTypes DEF BoardT
    <3>2. board' = [board EXCEPT ![x] = r]
      BY <2>4 DEF Leaves, TypeInv
    <3>3. TagOK(r, tag)
      BY <2>1, <3>1 DEF TagOK
    <3> HIDE DEF r
    <3> QED
      BY <2>1, <3>2, <3>3, TagOne
  <2>5. CASE Vanish(x)
    <3> DEFINE r == [mode |-> "gone", stage |-> "471", pipe |-> <<>>, cmd |-> NoCmd, by |-> 0]
    <3>1. TagOK(r, tag)
      BY <2>1, EmptyTags
    <3>2. board' = [board EXCEPT ![x] = r]
      BY <2>5 DEF Vanish
    <3> HIDE DEF r
    <3> QED
      BY <2>1, <3>1, <3>2, TagOne
  <2> QED
    BY <1>8, <2>2, <2>3, <2>4, <2>5
<1>9. CASE UNCHANGED vars
  BY <1>0, <1>9 DEF vars, bus, cmdVars
<1> QED
  BY <1>1, <1>2, <1>3, <1>4, <1>5, <1>6, <1>7, <1>8, <1>9 DEF Next, HostStep, Ended, BoardStep

---------------------------------------------------------------------------
(* A read whose status wrapper arrives has its data in place.              *)

LEMMA ReadKept ==
  ASSUME ReadInv, UNCHANGED <<pc, lba, tag, payload, phase, at, extent>>,
         live' => live /\ board'[at] = board[at]
  PROVE  ReadInv'
<1>1. Current' = Current
  BY DEF Current, Packets, Transfer, End
<1>2. \A s : InPlace(s)' = InPlace(s)
  BY DEF InPlace
<1> QED
  BY <1>1, <1>2 DEF ReadInv, InPlace

LEMMA SendRead ==
  ASSUME IInv, pc = "dump", at \in Boards, SendCbw(Op, Packets, lba)
  PROVE  ReadInv'
<1> USE DEF IInv
<1>1. CASE pc' # "dump"
  BY <1>1 DEF ReadInv
<1>2. CASE pc' = "dump"
  <2>1. /\ board' = [board EXCEPT ![at].cmd = [op |-> Op, tag |-> tag + 1, lba |-> lba, n |-> Packets]]
        /\ tag' = tag + 1 /\ phase' = "data" /\ UNCHANGED <<pc, lba, at, extent>>
    BY <1>2, PacketsType DEF SendCbw, Raise, RaiseAs, args
  <2>2. Op = "read" /\ Packets' = Packets
    BY <2>1 DEF Op, Packets, Transfer, End
  <2>3. board'[at].cmd = Current' /\ board'[at].pipe = board[at].pipe
    BY <2>1, <2>2 DEF Current, TypeInv, BoardT
  <2>4. ASSUME NEW i \in DOMAIN board[at].pipe
        PROVE  board[at].pipe[i].tag < tag + 1
    <3>1. board[at].pipe[i].tag <= tag /\ board[at].pipe[i] \in Packet /\ tag \in Nat
      BY BoardTypes DEF TagInv, TypeInv
    <3>2. board[at].pipe[i].tag \in Nat
      BY <3>1 DEF Packet
    <3> QED
      BY <3>1, <3>2
  <2> QED
    BY <2>1, <2>3, <2>4 DEF ReadInv
<1> QED
  BY <1>1, <1>2

LEMMA DataRead ==
  ASSUME IInv, pc = "dump", at \in Boards, ReadData(Packets)
  PROVE  ReadInv'
<1> USE DEF IInv
<1>1. CASE pc' # "dump"
  BY <1>1 DEF ReadInv
<1>2. CASE pc' = "dump"
  <2> DEFINE s == board[at].pipe
  <2>1. PICK j \in 0..Len(s) :
          /\ payload' \in Seq(Packet) /\ Len(payload') = j /\ \A i \in 1..j : payload'[i] = s[i]
          /\ board' = [board EXCEPT ![at].pipe = Rest(s, j)]
          /\ phase' = "csw" /\ live
    BY <1>2, DataEffect
  <2>2. UNCHANGED <<pc, lba, tag, at, extent, live>> /\ phase = "data"
    BY <1>2 DEF ReadData, args
  <2>3. s \in Seq(Packet) /\ Len(s) \in Nat /\ DOMAIN s = 1..Len(s) /\ j \in Nat
    BY BoardTypes
  <2>4. board'[at].cmd = board[at].cmd /\ board'[at].pipe = Rest(s, j)
    BY <2>1 DEF TypeInv, BoardT
  <2>5. Current' = Current
    BY <2>2 DEF Current, Packets, Transfer, End
  <2>6. CASE board[at].cmd = Current /\ \A i \in DOMAIN s : s[i].tag < tag
    <3>1. ASSUME Rest(s, j) # <<>>
          PROVE  Rest(s, j)[1].tag # tag
      <4>1. Rest(s, j) \in Seq(Packet) /\ (\A i \in DOMAIN Rest(s, j) : i + j \in DOMAIN s /\ Rest(s, j)[i] = s[i + j])
        BY <2>3, RestType
      <4>2. 1 \in DOMAIN Rest(s, j)
        BY <3>1, <4>1
      <4>3. 1 + j \in DOMAIN s /\ Rest(s, j)[1] = s[1 + j]
        BY <4>1, <4>2
      <4>4. s[1 + j].tag < tag /\ tag \in Nat /\ s[1 + j] \in Packet
        <5>1. tag \in Nat
          BY DEF TypeInv
        <5>2. s[1 + j] \in Packet
          BY <2>3, <4>3
        <5>3. s[1 + j].tag < tag
          BY <2>6, <4>3
        <5> QED
          BY <5>1, <5>2, <5>3
      <4>5. s[1 + j].tag \in Nat
        BY <4>4 DEF Packet
      <4> QED
        BY <4>3, <4>4, <4>5
    <3>2. board'[at].cmd = Current' /\ (board'[at].pipe # <<>> => board'[at].pipe[1].tag # tag)
      BY <2>4, <2>5, <2>6, <3>1
    <3> QED
      BY <2>1, <2>2, <3>2 DEF ReadInv
  <2>7. CASE board[at].cmd = NoCmd /\ InPlace(s)
    <3>1. ASSUME NEW i \in DOMAIN payload', payload'[i].k = "data"
          PROVE  payload'[i].lba = lba + i - 1
      <4>1. i \in 1..j
        BY <2>1
      <4>2. i \in DOMAIN s /\ payload'[i] = s[i]
        BY <2>1, <2>3, <4>1
      <4> QED
        BY <2>7, <3>1, <4>2 DEF InPlace
    <3>2. InPlace(payload)'
      BY <2>2, <3>1 DEF InPlace
    <3> QED
      BY <2>1, <3>2 DEF ReadInv
  <2> QED
    BY <2>1, <2>2, <2>6, <2>7 DEF ReadInv
<1> QED
  BY <1>1, <1>2

LEMMA RunsRead ==
  ASSUME IInv, pc = "dump", at \in Boards, UsbplugRuns(at)
  PROVE  ReadInv'
<1> USE DEF IInv
<1>1. CASE ~ live'
  BY <1>1 DEF ReadInv
<1>2. CASE live'
  <2>1. live /\ UNCHANGED <<pc, lba, tag, payload, phase, at, extent>>
    BY <1>2, BoardStepEffect
  <2>2. PICK s \in Seq(Packet), m \in {"loader", "leaving", "resetting"} :
           /\ IsAnswer(board[at].cmd, s)
           /\ board' = [board EXCEPT ![at].cmd = NoCmd, ![at].pipe = s, ![at].mode = m]
    BY RunsEffect
  <2>3. board'[at].cmd = NoCmd /\ board'[at].pipe = s
    BY <2>2 DEF TypeInv, BoardT
  <2>4. /\ \A i \in DOMAIN s : s[i].tag = board[at].cmd.tag
                                /\ (s[i].k = "data" => s[i].lba = board[at].cmd.lba + i - 1)
        /\ board[at].cmd.n # 0 /\ s # <<>> => s[1].k # "csw"
    BY <2>2, BoardTypes, AnswerType
  <2>5. board[at].cmd # NoCmd
    BY DEF UsbplugRuns
  <2>6. ASSUME board[at].cmd = Current
        PROVE  InPlace(s) /\ (s # <<>> => s[1].k # "csw")
    <3>1. board[at].cmd.n = Packets /\ board[at].cmd.lba = lba
      BY <2>6 DEF Current
    <3> QED
      BY <2>4, <3>1, PacketsType DEF InPlace
  <2>7. ASSUME phase = "data"
        PROVE  InPlace(s)'
    <3>1. board[at].cmd = Current
      BY <2>1, <2>5, <2>7 DEF ReadInv
    <3> QED
      BY <2>1, <2>6, <3>1 DEF InPlace
  <2>8. ASSUME phase = "csw"
        PROVE  InPlace(payload)' \/ (s # <<>> => s[1].k # "csw")
    <3>1. InPlace(payload) \/ board[at].cmd = Current
      BY <2>1, <2>5, <2>8 DEF ReadInv
    <3>2. InPlace(payload) => InPlace(payload)'
      BY <2>1 DEF InPlace
    <3> QED
      BY <2>6, <3>1, <3>2
  <2> QED
    BY <2>1, <2>3, <2>7, <2>8 DEF ReadInv, InPlace
<1> QED
  BY <1>1, <1>2

LEMMA ReadStep ==
  ASSUME IInv, [Next]_vars
  PROVE  ReadInv'
<1> USE DEF IInv
<1>0. ASSUME pc' # "dump"
      PROVE  ReadInv'
  BY <1>0 DEF ReadInv
<1>1. CASE Start
  BY <1>0, <1>1, StartEffect
<1>2. CASE Resolve \/ FindNothing \/ Exit \/ Kill \/ Finish \/ PowerCycle \/ Replace
  BY <1>0, <1>2
     DEF Resolve, FindNothing, WaitExpires, Raise, RaiseAs, Exit, Kill, Finish, PowerCycle, Replace
<1>3. CASE Find
  BY <1>0, <1>3, FindEffect DEF Fails
<1>4. CASE OpenStale \/ OpenRom \/ OpenPlug
  BY <1>0, <1>4, OpenEffect DEF OpenStale, OpenRom, OpenPlug, Fails
<1>5. CASE Upload
  BY <1>0, <1>5, UploadEffect DEF Fails
<1>6. CASE Command
  <2>1. pc \in Bound /\ pc \in {"reset", "id", "info", "dump"} /\ at \in Boards
    BY <1>6, BoundBoard DEF Command, Bound, Fresh
  <2>2. CASE SendCbw(Op, Packets, lba)
    <3>1. CASE pc = "dump"
      BY <2>1, <2>2, <3>1, SendRead
    <3>2. CASE pc # "dump"
      BY <1>0, <2>2, <3>2 DEF SendCbw, Raise, RaiseAs
    <3> QED
      BY <3>1, <3>2
  <2>3. CASE ReadData(Packets)
    <3>1. CASE pc = "dump"
      BY <2>1, <2>3, <3>1, DataRead
    <3>2. CASE pc # "dump"
      BY <1>0, <2>3, <3>2 DEF ReadData, Raise, RaiseAs
    <3> QED
      BY <3>1, <3>2
  <2>4. CASE ReadCsw
    <3>1. pc' # "dump" \/ phase' = "cbw"
      BY <2>1, <2>4, CswEffect DEF Fails, EndsReset, EndsId, EndsInfo, EndsRead
    <3> QED
      BY <3>1 DEF ReadInv
  <2> QED
    BY <1>6, <2>2, <2>3, <2>4 DEF Command
<1>7. ASSUME NEW x \in Boards, Appear(x) \/ UsbplugRuns(x) \/ Leaves(x) \/ Vanish(x)
      PROVE  ReadInv'
  <2>1. UNCHANGED <<pc, lba, tag, payload, phase, at, extent>> /\ (live' => live)
    BY <1>7, BoardStepEffect
  <2>2. CASE pc # "dump"
    BY <1>0, <2>1, <2>2
  <2>3. CASE pc = "dump" /\ UsbplugRuns(x) /\ x = at
    BY <2>3, RunsRead
  <2>4. CASE pc = "dump" /\ ~ (UsbplugRuns(x) /\ x = at)
    <3>1. at \in Boards
      BY <2>4, BoundBoard DEF Bound, Fresh
    <3>2. live' => x # at
      BY <1>7, <2>4, BoardStepEffect
    <3>3. x # at => board'[at] = board[at]
      BY <1>7, <3>1 DEF Appear, UsbplugRuns, Leaves, Vanish, TypeInv
    <3> QED
      BY <2>1, <3>2, <3>3, ReadKept
  <2> QED
    BY <2>2, <2>3, <2>4
<1>8. CASE UNCHANGED vars
  BY <1>8, ReadKept DEF vars, bus, args, cmdVars
<1> QED
  BY <1>1, <1>2, <1>3, <1>4, <1>5, <1>6, <1>7, <1>8 DEF Next, HostStep, Ended, BoardStep

---------------------------------------------------------------------------
(* The files.                                                              *)

\* The sectors from first to last of an extent.
Saved(b, from, n) == [i \in 1..n |-> [board |-> b, lba |-> from + i - 1]]

LEMMA SavedType ==
  ASSUME NEW b \in Boards, NEW from \in Nat, NEW n \in Nat
  PROVE  /\ Saved(b, from, n) \in Seq(Items) /\ Len(Saved(b, from, n)) = n
         /\ \A i \in 1..n : Saved(b, from, n)[i] = [board |-> b, lba |-> from + i - 1]
<1>1. \A i \in 1..n : Saved(b, from, n)[i] = [board |-> b, lba |-> from + i - 1]
  BY DEF Saved
<1>2. ASSUME NEW i \in 1..n
      PROVE  Saved(b, from, n)[i] \in Items
  <2>1. from + i - 1 \in Nat
    OBVIOUS
  <2>2. [board |-> b, lba |-> from + i - 1] \in Items
    BY <2>1 DEF Items
  <2> QED
    BY <1>1, <2>2
<1>3. Saved(b, from, n) = [i \in 1..n |-> Saved(b, from, n)[i]]
  BY DEF Saved
<1> QED
  BY <1>1, <1>2, <1>3, FunctionIsSeq

\* A read appends the sectors that follow.
LEMMA SavedConcat ==
  ASSUME NEW b \in Boards, NEW from \in Nat, NEW n \in Nat, NEW s \in Seq(Items),
         \A i \in 1..Len(s) : s[i] = [board |-> b, lba |-> from + n + i - 1]
  PROVE  Saved(b, from, n) \o s = Saved(b, from, n + Len(s))
<1> DEFINE m == Len(s)
           u == Saved(b, from, n)
           v == Saved(b, from, n + m)
<1>1. u \in Seq(Items) /\ Len(u) = n /\ \A i \in 1..n : u[i] = [board |-> b, lba |-> from + i - 1]
  BY SavedType
<1>2. v \in Seq(Items) /\ Len(v) = n + m /\ \A i \in 1..n + m : v[i] = [board |-> b, lba |-> from + i - 1]
  <2>1. n + m \in Nat
    OBVIOUS
  <2> QED
    BY <2>1, SavedType
<1> HIDE DEF u, v
<1>3. /\ u \o s \in Seq(Items) /\ Len(u \o s) = Len(u) + Len(s)
      /\ \A i \in 1..Len(u) + Len(s) : (u \o s)[i] = IF i <= Len(u) THEN u[i] ELSE s[i - Len(u)]
  BY <1>1, ConcatProperties, Zenon
<1>4. ASSUME NEW t, t \in Seq(Items), Len(t) = Len(u) + Len(s),
             \A i \in 1..Len(u) + Len(s) : t[i] = IF i <= Len(u) THEN u[i] ELSE s[i - Len(u)]
      PROVE  t = v
  <2>1. ASSUME NEW i \in 1..n + m
        PROVE  t[i] = v[i]
    <3>1. CASE i <= n
      <4>1. i \in 1..n
        BY <3>1
      <4>2. t[i] = u[i]
        BY <1>1, <1>4, <3>1
      <4> QED
        BY <1>1, <1>2, <4>1, <4>2
    <3>2. CASE i > n
      <4>1. i - n \in 1..m /\ from + n + (i - n) - 1 = from + i - 1
        BY <3>2
      <4>2. t[i] = s[i - n]
        BY <1>1, <1>4, <3>2
      <4>3. s[i - n] = [board |-> b, lba |-> from + n + (i - n) - 1]
        BY <4>1
      <4> QED
        BY <1>2, <4>1, <4>2, <4>3
    <3> QED
      BY <3>1, <3>2
  <2>2. Len(t) = n + m
    BY <1>1, <1>4
  <2> QED
    BY <1>2, <1>4, <2>1, <2>2, SeqEqual
<1>5. u \o s = v
  BY <1>3, <1>4, Zenon
<1> QED
  BY <1>5 DEF u, v

LEMMA ReadSaves ==
  ASSUME IInv, at \in Boards, at = first, EndsRead
  PROVE  partial' = Saved(first, extent[1], lba + Packets - extent[1])
<1> USE DEF IInv
<1>1. /\ lba \in Nat /\ extent[1] \in Nat /\ extent[1] <= lba /\ Packets \in Nat
      /\ partial = Saved(first, extent[1], lba - extent[1])
  BY ExtentType, PacketsType DEF EndsRead, FileInv, TypeInv, Saved
<1>2. Head(board[at].pipe) = board[at].pipe[1]
  BY BoardTypes DEF EndsRead
<1>3. InPlace(payload)
  BY <1>2 DEF EndsRead, StatusOK, ReadInv
<1>4. Len(payload) = Packets /\ \A i \in DOMAIN payload : payload[i].k = "data"
  BY PacketsType DEF EndsRead, StatusOK, LengthOK
<1>5. payload \in Seq(Packet) /\ DOMAIN payload = 1..Packets
  BY <1>4 DEF TypeInv
<1>6. \A i \in 1..Packets : Content(payload)[i] = [board |-> at, lba |-> payload[i].lba]
  BY <1>4, <1>5, ContentType
<1>7. \A i \in 1..Packets : payload[i].lba = extent[1] + (lba - extent[1]) + i - 1
  BY <1>1, <1>3, <1>4, <1>5 DEF InPlace
<1>8. \A i \in 1..Packets : Content(payload)[i] = [board |-> first, lba |-> extent[1] + (lba - extent[1]) + i - 1]
  BY <1>6, <1>7
<1>9. Content(payload) \in Seq(Items) /\ Len(Content(payload)) = Packets
  BY <1>4, ContentType
<1>10. lba - extent[1] \in Nat
  BY <1>1
<1>11. Saved(first, extent[1], lba - extent[1]) \o Content(payload)
          = Saved(first, extent[1], (lba - extent[1]) + Packets)
  <2> DEFINE n == lba - extent[1]
             d == Content(payload)
             from == extent[1]
  <2>1. /\ first \in Boards /\ from \in Nat /\ n \in Nat /\ d \in Seq(Items) /\ Len(d) = Packets
        /\ \A i \in 1..Len(d) : d[i] = [board |-> first, lba |-> from + n + i - 1]
    BY <1>1, <1>8, <1>9, <1>10
  <2> HIDE DEF n, d, from
  <2>2. Saved(first, from, n) \o d = Saved(first, from, n + Len(d))
    BY <2>1, SavedConcat
  <2> QED
    BY <2>1, <2>2, Zenon DEF n, d, from
<1>12. (lba - extent[1]) + Packets = lba + Packets - extent[1]
  BY <1>1
<1> QED
  BY <1>1, <1>11, <1>12 DEF EndsRead

LEMMA ImageSaved ==
  ASSUME TypeInv, first \in Boards
  PROVE  Image(first, extent) = Saved(first, extent[1], End - extent[1])
<1>1. End - extent[1] = extent[2]
  BY ExtentType DEF End
<1> QED
  BY <1>1 DEF Image, Saved

LEMMA FileStep ==
  ASSUME IInv, [Next]_vars
  PROVE  FileInv'
<1> USE DEF IInv
<1>0. ASSUME pc' \notin {"dump", "replace", "close", "ok"}
      PROVE  FileInv'
  BY <1>0 DEF FileInv, DumpIsRight
<1>1. ASSUME UNCHANGED <<pc, lba, extent, first, job, partial, target>>
      PROVE  FileInv'
  BY <1>1 DEF FileInv, DumpIsRight, End, Image
<1>2. CASE Start
  BY <1>0, <1>2, StartEffect
<1>3. CASE Resolve \/ FindNothing \/ Exit \/ Kill \/ PowerCycle
  BY <1>0, <1>3 DEF Resolve, FindNothing, WaitExpires, Raise, RaiseAs, Exit, Kill, PowerCycle
<1>4. CASE Find
  BY <1>0, <1>4, FindEffect DEF Fails
<1>5. CASE OpenStale \/ OpenRom \/ OpenPlug
  BY <1>0, <1>5, OpenEffect DEF OpenStale, OpenRom, OpenPlug, Fails
<1>6. CASE Upload
  BY <1>0, <1>6, UploadEffect DEF Fails
<1>7. CASE Command
  <2>1. pc \in Bound /\ pc \in {"reset", "id", "info", "dump"} /\ at \in Boards /\ at = first
    BY <1>7, BoundBoard DEF Command, Bound, Fresh
  <2>2. CASE SendCbw(Op, Packets, lba)
    BY <1>0, <1>1, <2>2 DEF SendCbw, Raise, RaiseAs, args
  <2>3. CASE ReadData(Packets)
    BY <1>0, <1>1, <2>3 DEF ReadData, Raise, RaiseAs, args
  <2>4. CASE ReadCsw
    <3>1. UNCHANGED <<extent, first, job, target>>
      BY <2>4 DEF ReadCsw, args
    <3>2. CASE EndsId
      <4>1. job = "burn" /\ pc' = "close"
        BY <3>2 DEF EndsId, JobInv
      <4> QED
        BY <3>1, <4>1 DEF FileInv, DumpIsRight
    <3>3. CASE EndsInfo
      <4>1. /\ pc' = "dump" /\ partial' = <<>> /\ lba' = extent[1] /\ extent[1] \in Nat
            /\ extent[1] < End /\ End' = End
        BY <3>1, <3>3, ExtentType DEF EndsInfo, End
      <4>2. partial' = [i \in 1..(extent[1] - extent[1]) |-> [board |-> first, lba |-> extent[1] + i - 1]]
        BY <4>1
      <4> QED
        BY <3>1, <4>1, <4>2 DEF FileInv, DumpIsRight
    <3>4. CASE EndsRead
      <4>1. partial' = Saved(first, extent[1], lba + Packets - extent[1])
        BY <2>1, <3>4, ReadSaves
      <4>2. /\ lba' = lba + Packets /\ lba \in Nat /\ Packets \in Nat /\ lba + Packets <= End /\ extent[1] <= lba
            /\ pc' = (IF lba + Packets = End THEN "replace" ELSE "dump") /\ End \in Nat /\ extent[1] \in Nat
        BY <3>4, PacketsType, ExtentType DEF EndsRead, FileInv, TypeInv
      <4>3. CASE lba + Packets = End
        <5>1. partial' = Image(first, extent) /\ pc' = "replace"
          BY <2>1, <4>1, <4>2, <4>3, ImageSaved
        <5>2. Image(first, extent)' = Image(first, extent)
          BY <3>1 DEF Image
        <5> QED
          BY <5>1, <5>2 DEF FileInv, DumpIsRight
      <4>4. CASE lba + Packets # End
        <5>1. pc' = "dump" /\ End' = End /\ extent[1] <= lba + Packets /\ lba + Packets < End
          BY <3>1, <4>2, <4>4 DEF End
        <5>2. partial' = [i \in 1..(lba' - extent[1]) |-> [board |-> first, lba |-> extent[1] + i - 1]]
          BY <4>1, <4>2 DEF Saved
        <5> QED
          BY <3>1, <4>2, <5>1, <5>2 DEF FileInv, DumpIsRight
      <4> QED
        BY <4>3, <4>4
    <3> QED
      BY <1>0, <2>1, <2>4, <3>2, <3>3, <3>4, CswEffect DEF Fails, EndsReset
  <2> QED
    BY <1>7, <2>2, <2>3, <2>4 DEF Command
<1>8. CASE Replace
  <2>1. CASE pc' = "failed"
    BY <1>0, <2>1
  <2>2. CASE pc' # "failed"
    <3>1. target' = partial /\ pc' = "close" /\ UNCHANGED <<first, extent, job>>
      BY <1>8, <2>2 DEF Replace, Raise, RaiseAs, args
    <3>2. partial = Image(first, extent)
      BY <1>8 DEF Replace, FileInv
    <3>3. Image(first, extent)' = Image(first, extent)
      BY <3>1 DEF Image
    <3> QED
      BY <3>1, <3>2, <3>3 DEF FileInv, DumpIsRight
  <2> QED
    BY <2>1, <2>2
<1>9. CASE Finish
  <2>1. pc = "close" /\ pc' = "ok" /\ UNCHANGED <<first, extent, job, target>>
    BY <1>9 DEF Finish, args, files
  <2>2. Image(first, extent)' = Image(first, extent)
    BY <2>1 DEF Image
  <2> QED
    BY <2>1, <2>2 DEF FileInv, DumpIsRight
<1>10. CASE BoardStep
  BY <1>1, <1>10, BoardStepEffect DEF BoardStep
<1>11. CASE UNCHANGED vars
  BY <1>1, <1>11 DEF vars, args, files
<1> QED
  BY <1>2, <1>3, <1>4, <1>5, <1>6, <1>7, <1>8, <1>9, <1>10, <1>11 DEF Next, HostStep, Ended

---------------------------------------------------------------------------
(* The theorems.                                                           *)

LEMMA InitBoards ==
  ASSUME Init
  PROVE  board \in [Boards -> BoardT] /\ \A b \in Boards : TagOK(board[b], 0)
<1> DEFINE p(n) == [i \in 1..n |-> [k |-> IF i = n THEN "csw" ELSE "data",
                                     tag |-> 0, lba |-> 0, ok |-> TRUE, res |-> FALSE]]
           A == {[mode |-> m, stage |-> "471", pipe |-> <<>>, cmd |-> NoCmd, by |-> 0] : m \in {"gone", "maskrom"}}
           B == {[mode |-> "loader", stage |-> "471", cmd |-> NoCmd, by |-> 0, pipe |-> p(k)] : k \in Leftovers}
<1>1. NoCmd \in CommandT /\ NoCmd.tag = 0 /\ <<>> \in Seq(Packet)
  BY DEF NoCmd, CommandT
<1>2. ASSUME NEW n \in Nat
      PROVE  p(n) \in Seq(Packet) /\ \A i \in DOMAIN p(n) : p(n)[i].tag <= 0
  <2>1. \A i \in 1..n : p(n)[i] \in Packet
    BY DEF Packet
  <2>2. p(n) = [i \in 1..n |-> p(n)[i]]
    OBVIOUS
  <2>3. \A i \in 1..n : p(n)[i].tag = 0
    OBVIOUS
  <2>4. DOMAIN p(n) = 1..n
    OBVIOUS
  <2> HIDE DEF p
  <2>5. p(n) \in Seq(Packet)
    BY <2>1, <2>2, FunctionIsSeq
  <2> QED
    BY <2>3, <2>4, <2>5
<1>3. ASSUME NEW r \in A
      PROVE  r \in BoardT /\ TagOK(r, 0)
  <2> DEFINE e == <<>>
  <2>0. PICK m \in {"gone", "maskrom"} : r = [mode |-> m, stage |-> "471", pipe |-> e, cmd |-> NoCmd, by |-> 0]
    OBVIOUS
  <2>1. r \in BoardT
    <3>1. e \in Seq(Packet) /\ m \in {"gone", "maskrom", "starting", "loader", "leaving", "resetting"}
      BY <1>1
    <3> HIDE DEF e
    <3> QED
      BY <1>1, <2>0, <3>1 DEF BoardT
  <2>2. r.cmd = NoCmd /\ r.pipe = <<>>
    BY <2>0
  <2> QED
    BY <2>1, <2>2, EmptyTags
<1>4. ASSUME NEW r \in B
      PROVE  r \in BoardT /\ TagOK(r, 0)
  <2> HIDE DEF p
  <2>1. PICK k \in Leftovers : r = [mode |-> "loader", stage |-> "471", cmd |-> NoCmd, by |-> 0, pipe |-> p(k)]
    BY <1>4
  <2>2. p(k) \in Seq(Packet) /\ \A i \in DOMAIN p(k) : p(k)[i].tag <= 0
    BY <1>2, UsbAssumption
  <2>3. r \in BoardT
    BY <1>1, <2>1, <2>2 DEF BoardT
  <2>4. r.cmd = NoCmd /\ r.pipe = p(k)
    BY <2>1
  <2> QED
    BY <1>1, <2>2, <2>3, <2>4 DEF TagOK
<1>5. board \in [Boards -> A \cup B]
  BY Zenon DEF Init
<1> HIDE DEF A, B
<1>6. \A b \in Boards : board[b] \in A \/ board[b] \in B
  BY <1>5
<1> QED
  BY <1>3, <1>4, <1>5, <1>6

LEMMA InitInv ==
  ASSUME Init
  PROVE  IInv
<1>1. /\ driver = [b \in Boards |-> "bound"]
      /\ session = 0 /\ job = "burn" /\ extent = <<0, Sectors>> /\ pin = NoBoard
      /\ pc = "idle" /\ at = NoBoard /\ live = FALSE /\ first = NoBoard /\ owned = FALSE /\ opened = {}
      /\ chunk = 1 /\ phase = "cbw" /\ tag = 0 /\ payload = <<>> /\ lba = 0
      /\ partial = NoFile /\ target = NoFile
  BY DEF Init
<1>2. NoFile \in Seq(Items)
  BY DEF NoFile, Items
<1>3. TypeInv
  <2>1. extent \in AllExtents /\ pc \in Early \cup Bound \cup {"idle", "ok", "failed"} /\ payload \in Seq(Packet)
    BY <1>1 DEF AllExtents
  <2>2. live \in BOOLEAN /\ owned \in BOOLEAN /\ opened \subseteq Boards
    BY <1>1, Zenon
  <2>3. driver \in [Boards -> {"bound", "ours", "lost"}] /\ chunk \in Nat \ {0} /\ tag \in Nat /\ lba \in Nat
        /\ session \in Nat
    BY <1>1
  <2> QED
    BY <1>1, <1>2, <2>1, <2>2, <2>3, InitBoards, Zenon DEF TypeInv
<1>4. HoldInv /\ FreshInv /\ JobInv /\ ReadInv /\ FileInv
  BY <1>1 DEF HoldInv, SameBoard, FreshInv, JobInv, ReadInv, FileInv, DumpIsRight, Early, Bound, Fresh
<1>5. TagInv
  BY <1>1, InitBoards DEF TagInv, TagOK
<1> QED
  BY <1>3, <1>4, <1>5 DEF IInv

LEMMA NextInv ==
  ASSUME IInv, [Next]_vars
  PROVE  IInv'
BY TypeStep, HoldStep, FreshStep, JobStep, TagStep, ReadStep, FileStep DEF IInv

LEMMA Invariance == Spec => []IInv
<1>1. Init => IInv
  BY InitInv
<1>2. IInv /\ [Next]_vars => IInv'
  BY NextInv
<1> QED
  BY <1>1, <1>2, PTL DEF Spec

LEMMA CommandOwn ==
  ASSUME IInv, [Next]_vars, NEW b \in Boards,
         board'[b].cmd # board[b].cmd, board'[b].cmd.op \notin {"none", "reset"}
  PROVE  board[b].by = session
<1> USE DEF IInv
<1>1. NoCmd.op = "none"
  BY DEF NoCmd
<1>2. CASE SendCbw(Op, Packets, lba) /\ pc \in {"reset", "id", "info", "dump"}
  <2>1. at \in Boards /\ at = first
    BY <1>2, BoundBoard DEF Bound, Fresh
  <2>2. /\ Held = "loader"
        /\ board' = [board EXCEPT ![at].cmd = [op |-> Op, tag |-> tag + 1, lba |-> lba, n |-> Packets]]
    BY <1>2 DEF SendCbw
  <2>3. b = at
    BY <2>1, <2>2 DEF TypeInv
  <2>4. board'[at].cmd.op = Op
    BY <2>1, <2>2 DEF TypeInv, BoardT
  <2>5. pc \in Fresh
    BY <1>2, <2>3, <2>4 DEF Op, Fresh
  <2>6. board[at].mode \in {"loader", "leaving"}
    BY <2>2 DEF Held, Mode
  <2> QED
    BY <2>1, <2>3, <2>5, <2>6 DEF FreshInv
<1>3. CASE board' = board
  BY <1>3
<1>4. ASSUME NEW x \in Boards, NEW r, board' = [board EXCEPT ![x] = r], r.cmd = board[x].cmd \/ r.cmd = NoCmd
      PROVE  FALSE
  BY <1>1, <1>4 DEF TypeInv
<1>5. CASE Start
  BY <1>3, <1>5, StartEffect
<1>6. CASE Resolve \/ FindNothing \/ Exit \/ Kill \/ Finish \/ Replace \/ Find
  BY <1>3, <1>6 DEF Resolve, FindNothing, WaitExpires, Exit, Kill, Finish, Replace, Find, WaitForDevice
<1>7. CASE PowerCycle
  <2> DEFINE r == [mode |-> "gone", stage |-> "471", pipe |-> <<>>, cmd |-> NoCmd, by |-> 0]
  <2>1. board' = board \/ \E x \in Boards : board' = [board EXCEPT ![x] = r]
    BY <1>7 DEF PowerCycle, bus
  <2>2. r.cmd = NoCmd
    OBVIOUS
  <2> HIDE DEF r
  <2> QED
    BY <1>3, <1>4, <2>1, <2>2
<1>8. ASSUME at \in Boards, NEW s, board' = [board EXCEPT ![at].pipe = s]
      PROVE  FALSE
  <2>1. board'[b].cmd = board[b].cmd
    BY <1>8 DEF TypeInv, BoardT
  <2> QED
    BY <2>1
<1>9. CASE OpenStale \/ OpenRom \/ OpenPlug
  <2>1. pc \in Bound
    BY <1>9 DEF OpenStale, OpenRom, OpenPlug, Bound, Fresh
  <2> QED
    BY <1>3, <1>8, <1>9, <2>1, BoundBoard, OpenPipe DEF OpenStale, OpenRom, OpenPlug
<1>10. CASE Upload
  <2>1. pc \in Bound
    BY <1>10 DEF Upload, Bound, Fresh
  <2>2. ASSUME NEW m, NEW g, board' = [board EXCEPT ![at].mode = m, ![at].stage = g]
        PROVE  FALSE
    <3>1. board'[b].cmd = board[b].cmd
      BY <2>1, <2>2, BoundBoard DEF TypeInv, BoardT
    <3> QED
      BY <3>1
  <2> QED
    BY <1>3, <1>10, <2>1, <2>2, UploadEffect, RomEffect, BoundBoard
<1>11. CASE Command /\ ~ SendCbw(Op, Packets, lba)
  <2>1. pc \in Bound /\ pc \in {"reset", "id", "info", "dump"} /\ at \in Boards
    BY <1>11, BoundBoard DEF Command, Bound, Fresh
  <2>2. CASE ReadData(Packets)
    BY <1>3, <1>8, <2>1, <2>2, DataEffect
  <2>3. CASE ReadCsw
    BY <1>3, <1>8, <2>1, <2>3, CswEffect
  <2> QED
    BY <1>11, <2>2, <2>3 DEF Command
<1>12. ASSUME NEW x \in Boards, Appear(x) \/ UsbplugRuns(x) \/ Leaves(x) \/ Vanish(x)
       PROVE  FALSE
  <2>1. b # x => board'[b] = board[b]
    BY <1>12 DEF Appear, UsbplugRuns, Leaves, Vanish, TypeInv
  <2>2. CASE UsbplugRuns(x)
    <3>1. PICK s \in Seq(Packet), m \in {"loader", "leaving", "resetting"} :
             board' = [board EXCEPT ![x].cmd = NoCmd, ![x].pipe = s, ![x].mode = m]
      BY <2>2, RunsEffect
    <3>2. board'[x].cmd = NoCmd
      BY <3>1 DEF TypeInv, BoardT
    <3> QED
      BY <1>1, <2>1, <3>2
  <2>3. CASE Appear(x)
    <3>1. board'[x].cmd = board[x].cmd
      BY <2>3 DEF Appear, TypeInv, BoardT
    <3> QED
      BY <2>1, <3>1
  <2>4. CASE Leaves(x)
    <3>1. board'[x].cmd = board[x].cmd
      BY <2>4 DEF Leaves, TypeInv, BoardT
    <3> QED
      BY <2>1, <3>1
  <2>5. CASE Vanish(x)
    <3>1. board'[x].cmd = NoCmd
      BY <2>5 DEF Vanish, TypeInv
    <3> QED
      BY <1>1, <2>1, <3>1
  <2> QED
    BY <1>12, <2>2, <2>3, <2>4, <2>5
<1>13. CASE UNCHANGED vars
  BY <1>3, <1>13 DEF vars, bus
<1> QED
  BY <1>2, <1>5, <1>6, <1>7, <1>9, <1>10, <1>11, <1>12, <1>13 DEF Next, HostStep, Ended, BoardStep, Command

\* The variables keep their types.
THEOREM TypeCorrect == Spec => []TypeOK
<1>1. IInv => TypeOK
  <2>1. TypeInv => \A b \in Boards : board[b].mode
                      \in {"gone", "maskrom", "starting", "loader", "leaving", "resetting"}
    BY DEF TypeInv, BoardT
  <2> QED
    BY <2>1 DEF IInv, TypeInv, TypeOK
<1> QED
  BY <1>1, Invariance, PTL

\* An invocation keeps to the board it found, whatever boards come and go
\* (wait_for_device with the first board's usb_path).
THEOREM SameBoardHolds == Spec => []SameBoard
<1>1. IInv => SameBoard
  BY DEF IInv, HoldInv
<1> QED
  BY <1>1, Invariance, PTL

\* The dump an invocation reports is the extent asked for, of the board it
\* found (command, dump_image, .partial and tmp.replace).
THEOREM DumpIsRightHolds == Spec => []DumpIsRight
<1>1. IInv => DumpIsRight
  BY DEF IInv, FileInv
<1> QED
  BY <1>1, Invariance, PTL

\* A flash command only goes to a usbplug the same invocation uploaded
\* (_open_usb_target resets one it finds).
THEOREM FreshLoaderHolds == Spec => FreshLoader
<1> DEFINE A == \A b \in Boards :
                  (board'[b].cmd # board[b].cmd /\ board'[b].cmd.op \notin {"none", "reset"})
                    => board[b].by = session
<1>1. ASSUME IInv, [Next]_vars
      PROVE  [A]_vars
  BY <1>1, CommandOwn
<1> QED
  BY <1>1, Invariance, PTL DEF Spec, FreshLoader

(* The refinement: the file the dump replaces behaves as BackupFile says.  *)

LEMMA BackupStep ==
  ASSUME IInv, [Next]_vars
  PROVE  [Backup!Next]_<<target, job, DumpState>>
<1> USE DEF IInv
<1> DEFINE Ends == {"idle", "ok", "failed"}
<1>1. ASSUME pc \notin Ends, pc' = "failed", UNCHANGED <<target, job>>
      PROVE  Backup!Fail
  BY <1>1 DEF Backup!Fail, DumpState
<1>2. ASSUME pc \notin Ends, pc' \notin Ends, pc # "close", pc' # "close" \/ job = "burn", UNCHANGED <<target, job>>
      PROVE  UNCHANGED <<target, job, DumpState>>
  BY <1>2 DEF DumpState
<1>3. ASSUME pc' = pc, UNCHANGED <<target, job>>
      PROVE  UNCHANGED <<target, job, DumpState>>
  BY <1>3 DEF DumpState
<1>4. CASE Start
  <2>1. pc = "idle" /\ pc' = "resolve" /\ target' = target
    BY <1>4, StartEffect
  <2>2. job' \in {"burn", "dump"}
    BY <1>4 DEF Start
  <2>3. Backup!Begin
    BY <2>1, <2>2 DEF Backup!Begin, DumpState
  <2> QED
    BY <2>3 DEF Backup!Next
<1>5. CASE Resolve \/ FindNothing \/ Kill \/ PowerCycle
  <2>1. /\ pc \notin Ends /\ UNCHANGED <<target, job>>
        /\ pc' = "failed" \/ (pc' \in {"power", "wait"} /\ pc # "close")
    BY <1>5 DEF Resolve, FindNothing, WaitExpires, Raise, RaiseAs, Kill, PowerCycle, args, files
  <2> QED
    BY <1>1, <1>2, <2>1 DEF Backup!Next
<1>6. CASE Find
  <2>1. /\ pc \notin Ends /\ UNCHANGED <<target, job>>
        /\ pc' = "failed" \/ (pc' \in {"open_plug", "open_stale", "open_rom"} /\ pc # "close")
    BY <1>6, FindEffect DEF Fails, Find, args
  <2> QED
    BY <1>1, <1>2, <2>1 DEF Backup!Next
<1>7. CASE OpenStale \/ OpenRom \/ OpenPlug
  <2>1. /\ pc \notin Ends /\ UNCHANGED <<target, job>>
        /\ pc' = "failed" \/ (pc' \in {"reset", "ddr", "id", "info"} /\ pc # "close")
    BY <1>7, OpenEffect DEF OpenStale, OpenRom, OpenPlug, Fails, args
  <2> QED
    BY <1>1, <1>2, <2>1 DEF Backup!Next
<1>8. CASE Upload
  <2>1. /\ pc \notin Ends /\ UNCHANGED <<target, job>>
        /\ pc' = "failed" \/ (pc' \in {"ddr", "plug", "wait_plug"} /\ pc # "close")
    BY <1>8, UploadEffect DEF Upload, Fails, args
  <2> QED
    BY <1>1, <1>2, <2>1 DEF Backup!Next
<1>9. CASE Command
  <2>1. pc \in Bound /\ pc \in {"reset", "id", "info", "dump"} /\ at \in Boards
    BY <1>9, BoundBoard DEF Command, Bound, Fresh
  <2>2. UNCHANGED <<target, job>>
    BY <1>9 DEF Command, SendCbw, ReadData, ReadCsw, args
  <2>3. pc' = "failed" \/ pc' = pc \/ pc' \in {"wait_rom", "dump", "replace"} \/ (pc' = "close" /\ job = "burn")
    <3>1. CASE SendCbw(Op, Packets, lba) \/ ReadData(Packets)
      BY <3>1 DEF SendCbw, ReadData, Raise, RaiseAs
    <3>2. CASE ReadCsw
      BY <2>1, <3>2, CswEffect DEF Fails, EndsReset, EndsId, EndsInfo, EndsRead, JobInv
    <3> QED
      BY <1>9, <3>1, <3>2 DEF Command
  <2> QED
    BY <1>1, <1>2, <2>1, <2>2, <2>3 DEF Backup!Next
<1>10. CASE Replace
  <2>1. CASE pc' = "failed"
    <3>1. UNCHANGED <<target, job>> /\ pc \notin Ends
      BY <1>10, <2>1 DEF Replace, args
    <3> QED
      BY <1>1, <2>1, <3>1 DEF Backup!Next
  <2>2. CASE pc' # "failed"
    <3>1. pc = "replace" /\ pc' = "close" /\ target' = partial /\ job' = job
      BY <1>10, <2>2 DEF Replace, Raise, RaiseAs, args
    <3>2. job = "dump" /\ partial = Image(first, extent) /\ first \in Boards /\ extent \in AllExtents
      BY <3>1 DEF JobInv, FileInv, HoldInv, TypeInv, Bound, Fresh
    <3>3. target' \in DumpImages
      BY <3>1, <3>2 DEF DumpImages, AllExtents
    <3>4. Backup!Commit
      BY <3>1, <3>2, <3>3 DEF Backup!Commit, DumpState
    <3> QED
      BY <3>4 DEF Backup!Next
  <2> QED
    BY <2>1, <2>2
<1>11. CASE Finish
  <2>1. pc = "close" /\ pc' = "ok" /\ UNCHANGED <<target, job>> /\ job \in {"burn", "dump"}
    BY <1>11 DEF Finish, args, files, TypeInv
  <2>2. Backup!Succeed
    BY <2>1 DEF Backup!Succeed, DumpState
  <2> QED
    BY <2>2 DEF Backup!Next
<1>12. CASE Exit
  <2>1. pc \in {"ok", "failed"} /\ pc' = "idle" /\ UNCHANGED <<target, job>>
    BY <1>12 DEF Exit, args, files
  <2>2. Backup!End
    BY <2>1 DEF Backup!End, DumpState
  <2> QED
    BY <2>2 DEF Backup!Next
<1>13. CASE BoardStep
  BY <1>3, <1>13, BoardStepEffect DEF BoardStep
<1>14. CASE UNCHANGED vars
  BY <1>3, <1>14 DEF vars, args, files
<1> QED
  BY <1>4, <1>5, <1>6, <1>7, <1>8, <1>9, <1>10, <1>11, <1>12, <1>13, <1>14 DEF Next, HostStep, Ended

\* dump-flash implements the safety part of BackupFile: the file under the
\* target's name is at every moment what it was or a complete image, and
\* success follows its replacement.
THEOREM ImplementsBackup == Spec => Backup!Safety
<1>1. Init => Backup!Init
  BY DEF Init, Backup!Init, DumpState
<1>2. IInv /\ [Next]_vars => [Backup!Next]_<<target, job, DumpState>>
  BY BackupStep
<1> QED
  BY <1>1, <1>2, Invariance, PTL DEF Spec, Backup!Safety

---------------------------------------------------------------------------
(* What an invocation leaves behind.                                       *)

\* Where an invocation owns a usbplug that runs.
Owning == {"id", "info", "dump", "replace", "close"}

CleanInv ==
  /\ killed \in BOOLEAN
  /\ killed \/ pc \in {"dump", "replace"} \/ partial = NoFile
  /\ owned => first \in Boards /\ pc \in Owning \cup {"ok", "failed", "idle"}
  /\ \A b \in Boards : board[b].by <= session
  /\ pc \in Early \cup Bound => \A b \in Boards :
       driver[b] = "lost" /\ board[b].mode \in {"loader", "leaving"} => board[b].by # session
  /\ pc = "open_plug" /\ live => board[at].mode # "maskrom"
  /\ pc \in Owning => owned /\ driver[first] # "lost"
  /\ CleanedUp

\* A usbplug that begins to run does so with its kernel driver bound, and a
\* board that comes back in MaskROM is not the one a current handle is for.
Changes(b) ==
  /\ board'[b].by \in {board[b].by, session, 0}
  /\ board'[b].mode \in {"loader", "leaving"} =>
       \/ board[b].mode \in {"loader", "leaving"} /\ board'[b].by = board[b].by
       \/ board'[b].by = session /\ driver'[b] = "bound"
  /\ board'[b].mode = "maskrom" => board[b].mode = "maskrom" \/ (live' => b # at)

LEMMA TransferChanges ==
  ASSUME TypeInv, at \in Boards, NEW s, NEW b \in Boards,
         \/ board' = board
         \/ board' = [board EXCEPT ![at].pipe = s]
         \/ board' = [board EXCEPT ![at].cmd = s]
  PROVE  Changes(b)
<1>1. board'[b].by = board[b].by /\ board'[b].mode = board[b].mode
  <2>1. CASE board' = board
    BY <2>1
  <2>2. CASE board' = [board EXCEPT ![at].pipe = s]
    BY <2>2 DEF TypeInv, BoardT
  <2>3. CASE board' = [board EXCEPT ![at].cmd = s]
    BY <2>3 DEF TypeInv, BoardT
  <2> QED
    BY <2>1, <2>2, <2>3
<1> QED
  BY <1>1 DEF Changes

LEMMA BoardsChange ==
  ASSUME TypeInv, NEW b \in Boards, NEW x \in Boards,
         Appear(x) \/ UsbplugRuns(x) \/ Leaves(x) \/ Vanish(x)
  PROVE  Changes(b)
<1>1. b # x => board'[b] = board[b]
  BY DEF Appear, UsbplugRuns, Leaves, Vanish, TypeInv
<1>2. CASE b = x /\ Appear(x)
  <2>1. driver'[x] = "bound" /\ (live' => x # at)
    BY <1>2 DEF Appear, TypeInv
  <2>2. CASE board' = [board EXCEPT ![x].mode = "loader", ![x].by = session]
    BY <1>2, <2>1, <2>2 DEF TypeInv, BoardT, Changes
  <2>3. CASE board' = [board EXCEPT ![x].mode = "maskrom", ![x].stage = "471", ![x].by = 0]
    BY <1>2, <2>1, <2>3 DEF TypeInv, BoardT, Changes
  <2>4. CASE board' = [board EXCEPT ![x].mode = "maskrom", ![x].stage = "471"]
    BY <1>2, <2>1, <2>4 DEF TypeInv, BoardT, Changes
  <2> QED
    BY <1>2, <2>2, <2>3, <2>4 DEF Appear
<1>3. CASE b = x /\ UsbplugRuns(x)
  <2>1. PICK s \in Seq(Packet), m \in {"loader", "leaving", "resetting"} :
           board' = [board EXCEPT ![x].cmd = NoCmd, ![x].pipe = s, ![x].mode = m]
    BY <1>3, RunsEffect
  <2>2. board'[x].by = board[x].by /\ board'[x].mode = m
    BY <2>1 DEF TypeInv, BoardT
  <2>3. board[x].mode = "loader"
    BY <1>3 DEF UsbplugRuns
  <2> QED
    BY <1>3, <2>2, <2>3 DEF Changes
<1>4. CASE b = x /\ Leaves(x)
  BY <1>4 DEF Leaves, TypeInv, BoardT, Changes
<1>5. CASE b = x /\ Vanish(x)
  BY <1>5 DEF Vanish, TypeInv, Changes
<1> QED
  BY <1>1, <1>2, <1>3, <1>4, <1>5 DEF Changes

LEMMA AllChange ==
  ASSUME IInv, [Next]_vars, NEW b \in Boards
  PROVE  Changes(b)
<1> USE DEF IInv
<1>0. ASSUME board' = board
      PROVE  Changes(b)
  BY <1>0 DEF Changes
<1>1. CASE Start
  BY <1>0, <1>1, StartEffect
<1>2. CASE Resolve \/ FindNothing \/ Exit \/ Kill \/ Finish \/ Replace \/ Find
  BY <1>0, <1>2 DEF Resolve, FindNothing, WaitExpires, Exit, Kill, Finish, Replace, Find, WaitForDevice
<1>3. CASE PowerCycle
  <2> DEFINE r == [mode |-> "gone", stage |-> "471", pipe |-> <<>>, cmd |-> NoCmd, by |-> 0]
  <2>1. board' = board \/ \E x \in Boards : board' = [board EXCEPT ![x] = r]
    BY <1>3 DEF PowerCycle, bus
  <2>2. r.by = 0 /\ r.mode = "gone"
    OBVIOUS
  <2> HIDE DEF r
  <2>3. board'[b] = board[b] \/ board'[b] = r
    BY <2>1 DEF TypeInv
  <2> QED
    BY <2>2, <2>3 DEF Changes
<1>4. CASE OpenStale \/ OpenRom \/ OpenPlug
  <2>1. pc \in Bound
    BY <1>4 DEF OpenStale, OpenRom, OpenPlug, Bound, Fresh
  <2> QED
    BY <1>4, <2>1, BoundBoard, OpenPipe, TransferChanges DEF OpenStale, OpenRom, OpenPlug
<1>5. CASE Upload
  <2>1. pc \in Bound
    BY <1>5 DEF Upload, Bound, Fresh
  <2>2. ASSUME NEW m \in {board[at].mode, "starting"}, NEW g \in {"471", "472", "bad"},
               board' = [board EXCEPT ![at].mode = m, ![at].stage = g]
        PROVE  Changes(b)
    <3>1. board'[b].by = board[b].by /\ board'[b].mode \in {board[b].mode, "starting"}
      BY <2>1, <2>2, BoundBoard DEF TypeInv, BoardT
    <3> QED
      BY <3>1 DEF Changes
  <2> QED
    BY <1>0, <1>5, <2>1, <2>2, UploadEffect, RomEffect, BoundBoard
<1>6. CASE Command
  <2>1. pc \in Bound /\ pc \in {"reset", "id", "info", "dump"} /\ at \in Boards
    BY <1>6, BoundBoard DEF Command, Bound, Fresh
  <2>2. CASE SendCbw(Op, Packets, lba)
    BY <2>1, <2>2, TransferChanges DEF SendCbw
  <2>3. CASE ReadData(Packets)
    BY <2>1, <2>3, DataEffect, TransferChanges
  <2>4. CASE ReadCsw
    BY <2>1, <2>4, CswEffect, TransferChanges
  <2> QED
    BY <1>6, <2>2, <2>3, <2>4 DEF Command
<1>7. CASE BoardStep
  BY <1>7, BoardsChange DEF BoardStep
<1>8. CASE UNCHANGED vars
  BY <1>0, <1>8 DEF vars, bus
<1> QED
  BY <1>1, <1>2, <1>3, <1>4, <1>5, <1>6, <1>7, <1>8 DEF Next, HostStep, Ended

\* The end of an invocation that raised.
LEMMA RaiseClean ==
  ASSUME IInv, CleanInv, NEW kind, RaiseAs(kind), owned' => owned,
         pc \notin {"idle", "ok", "failed"}, UNCHANGED <<at, first, killed>>
  PROVE  /\ pc' = "failed" /\ killed' \in BOOLEAN /\ (killed' \/ partial' = NoFile)
         /\ CleanedUp'
         /\ \A b \in Boards : driver'[b] = "lost" => driver[b] = "lost"
<1> USE DEF IInv
<1>1. pc' = "failed" /\ killed' \in BOOLEAN /\ (killed' \/ partial' = NoFile)
  BY DEF RaiseAs, CleanInv
<1>2. ASSUME NEW b \in Boards, driver'[b] = "lost"
      PROVE  driver[b] = "lost"
  BY <1>2 DEF RaiseAs, Close, TypeInv
<1>3. ASSUME owned'
      PROVE  opened' = {} /\ driver'[first] = "bound"
  <2>1. owned /\ pc \in Owning /\ pc \in Bound
    BY <1>3 DEF CleanInv, Owning, Bound, Fresh
  <2>2. at = first /\ first \in Boards /\ driver[first] # "lost"
    BY <2>1 DEF HoldInv, CleanInv
  <2>3. Close
    BY <2>1 DEF RaiseAs
  <2>4. driver'[first] = "bound"
    BY <2>2, <2>3 DEF Close, TypeInv
  <2>5. opened' = {}
    BY <2>2, <2>3 DEF Close, HoldInv, SameBoard
  <2> QED
    BY <2>4, <2>5
<1>4. CleanedUp'
  BY <1>1, <1>3 DEF CleanedUp
<1> QED
  BY <1>1, <1>2, <1>4

LEMMA ByStep ==
  ASSUME IInv, CleanInv, [Next]_vars, NEW b \in Boards
  PROVE  board'[b].by <= session'
<1> USE DEF IInv
<1>1. session' \in {session, session + 1}
  <2>1. CASE Start
    BY <2>1, StartEffect
  <2>2. CASE HostStep
    BY <2>2 DEF HostStep, Resolve, PowerCycle, Find, WaitForDevice, FindNothing, WaitExpires, OpenStale, OpenRom,
                OpenPlug, Open, Upload, Command, SendCbw, ReadData, ReadCsw, Replace, Finish, Exit, args
  <2>3. CASE Kill
    BY <2>3 DEF Kill, args
  <2>4. CASE BoardStep
    BY <2>4, BoardStepEffect DEF BoardStep
  <2>5. CASE UNCHANGED vars
    BY <2>5 DEF vars, args
  <2> QED
    BY <2>1, <2>2, <2>3, <2>4, <2>5 DEF Next, Ended
<1>2. session \in Nat /\ board[b].by \in Nat /\ board[b].by <= session
  BY BoardTypes DEF TypeInv, CleanInv
<1>3. board'[b].by \in {board[b].by, session, 0}
  BY AllChange DEF Changes
<1> QED
  BY <1>1, <1>2, <1>3

\* The part of the invariant that says where a driver may be lost, for the
\* steps within an invocation.
LEMMA LostKept ==
  ASSUME IInv, CleanInv, [Next]_vars, session' = session,
         pc' \in Early \cup Bound => pc \in Early \cup Bound
                                     /\ \A b \in Boards : driver'[b] = "lost" => driver[b] = "lost",
         NEW b \in Boards, pc' \in Early \cup Bound,
         driver'[b] = "lost", board'[b].mode \in {"loader", "leaving"}
  PROVE  board'[b].by # session'
BY AllChange DEF Changes, CleanInv

\* A board found again runs its usbplug.
LEMMA PlugStep ==
  ASSUME IInv, CleanInv, [Next]_vars, pc' = "open_plug", live'
  PROVE  board'[at'].mode # "maskrom"
<1> USE DEF IInv
<1>1. CASE pc = "open_plug" /\ UNCHANGED at /\ live
  <2>1. at \in Boards
    BY <1>1, BoundBoard DEF Bound, Fresh
  <2> QED
    BY <1>1, <2>1, AllChange DEF Changes, CleanInv
<1>2. CASE Find
  <2>1. pc' # "failed"
    OBVIOUS
  <2>2. PICK x \in FindDevices(Path) :
          /\ Wanted = "any" \/ Mode(x) = Wanted
          /\ at' = x /\ pc' = (IF pc = "wait_plug" THEN "open_plug"
                               ELSE IF Mode(x) = "loader" THEN "open_stale" ELSE "open_rom")
    BY <1>2 DEF Find, WaitForDevice, Raise, RaiseAs
  <2>3. pc = "wait_plug" /\ Wanted = "loader"
    BY <2>2 DEF Wanted
  <2>4. board[x].mode # "maskrom" /\ board' = board
    BY <1>2, <2>2, <2>3 DEF Mode, Find, WaitForDevice
  <2> QED
    BY <2>2, <2>4
<1>3. CASE Start
  BY <1>3, StartEffect
<1>4. CASE Resolve \/ FindNothing \/ Exit \/ Kill \/ Finish \/ PowerCycle \/ Replace
  BY <1>4 DEF Resolve, FindNothing, WaitExpires, Raise, RaiseAs, Exit, Kill, Finish, PowerCycle, Replace
<1>5. CASE OpenStale \/ OpenRom \/ OpenPlug
  BY <1>5, OpenEffect DEF OpenStale, OpenRom, OpenPlug, Fails
<1>6. CASE Upload
  BY <1>6, UploadEffect DEF Fails
<1>7. CASE Command
  <2>1. pc \in {"reset", "id", "info", "dump"} /\ at \in Boards
    BY <1>7, BoundBoard DEF Command, Bound, Fresh
  <2>2. CASE SendCbw(Op, Packets, lba) \/ ReadData(Packets)
    BY <2>1, <2>2 DEF SendCbw, ReadData, Raise, RaiseAs
  <2>3. CASE ReadCsw
    BY <2>1, <2>3, CswEffect DEF Fails, EndsReset, EndsId, EndsInfo, EndsRead
  <2> QED
    BY <1>7, <2>2, <2>3 DEF Command
<1>8. CASE BoardStep
  BY <1>1, <1>8, BoardStepEffect DEF BoardStep
<1>9. CASE UNCHANGED vars
  BY <1>1, <1>9 DEF vars
<1> QED
  BY <1>2, <1>3, <1>4, <1>5, <1>6, <1>7, <1>8, <1>9 DEF Next, HostStep, Ended

Over == {"idle", "ok", "failed"}

LEMMA CleanRaise ==
  ASSUME IInv, CleanInv, [Next]_vars, NEW kind, RaiseAs(kind), owned' => owned,
         pc \notin Over, UNCHANGED <<at, first, killed>>
  PROVE  CleanInv'
<1>1. /\ pc' = "failed" /\ killed' \in BOOLEAN /\ (killed' \/ partial' = NoFile) /\ CleanedUp'
  BY RaiseClean DEF Over
<1>2. pc' \notin Early \cup Bound /\ pc' \notin Owning
  BY <1>1 DEF Early, Bound, Fresh, Owning
<1>3. (\A b \in Boards : board[b].by <= session)'
  BY ByStep
<1> QED
  BY <1>1, <1>2, <1>3 DEF CleanInv

LEMMA CleanOn ==
  ASSUME IInv, CleanInv, [Next]_vars, UNCHANGED <<session, killed>>, pc \notin Over, pc' \notin Over,
         pc' \in {"dump", "replace"} \/ partial' = NoFile \/ (partial' = partial /\ pc \notin {"dump", "replace"}),
         \A b \in Boards : driver'[b] = "lost" => driver[b] = "lost",
         owned' = owned, pc' \in Owning <=> pc \in Owning, pc' \in Owning => first' = first
  PROVE  CleanInv'
<1> USE DEF IInv
<1>1. pc \in Early \cup Bound
  BY DEF TypeInv, Over
<1>2. (\A b \in Boards : board[b].by <= session)'
  BY ByStep
<1>3. (pc \in Early \cup Bound => \A b \in Boards :
        driver[b] = "lost" /\ board[b].mode \in {"loader", "leaving"} => board[b].by # session)'
  BY <1>1, LostKept
<1>4. (pc = "open_plug" /\ live => board[at].mode # "maskrom")'
  BY PlugStep
<1>5. (pc \in Owning => owned /\ driver[first] # "lost")'
  <2>1. ASSUME pc' \in Owning
        PROVE  owned' /\ driver'[first'] # "lost"
    <3>1. pc \in Owning /\ first' = first
      BY <2>1
    <3>2. first \in Boards /\ owned /\ driver[first] # "lost"
      BY <3>1 DEF CleanInv, HoldInv, Owning, Bound, Fresh
    <3> QED
      BY <3>1, <3>2
  <2> QED
    BY <2>1
<1>6. (owned => first \in Boards /\ pc \in Owning \cup {"ok", "failed", "idle"})'
  BY DEF CleanInv, Over
<1>7. CleanedUp'
  BY DEF CleanedUp, Over
<1>8. (killed \in BOOLEAN /\ (killed \/ pc \in {"dump", "replace"} \/ partial = NoFile))'
  BY DEF CleanInv
<1> QED
  BY <1>2, <1>3, <1>4, <1>5, <1>6, <1>7, <1>8 DEF CleanInv

LEMMA CloseKeeps ==
  ASSUME TypeInv, Close \/ UNCHANGED <<driver, opened>>, NEW b \in Boards, driver'[b] = "lost"
  PROVE  driver[b] = "lost"
BY DEF TypeInv, Close

\* The usbplug just found has its driver, and is owned from here on.
LEMMA CleanOpen ==
  ASSUME IInv, CleanInv, [Next]_vars, OpenPlug, pc' # "failed"
  PROVE  CleanInv'
<1> USE DEF IInv
<1>1. /\ pc = "open_plug" /\ pc' \in {"id", "info"} /\ owned' /\ Held # "absent"
      /\ UNCHANGED <<session, killed, first, at, partial, live>>
      /\ driver' \in {driver, [driver EXCEPT ![at] = "ours"]}
  BY DEF OpenPlug, Open, Raise, RaiseAs, args
<1>2. at \in Boards /\ at = first
  BY <1>1, BoundBoard DEF Bound, Fresh
<1>3. driver[at] # "lost"
  <2>1. live /\ Mode(at) # "absent"
    BY <1>1 DEF Held
  <2>2. board[at].mode \in {"loader", "leaving"}
    BY <1>1, <2>1 DEF Mode, CleanInv
  <2>3. board[at].by = session
    BY <1>1, <1>2, <2>2 DEF FreshInv, Fresh
  <2> QED
    BY <1>1, <1>2, <2>2, <2>3 DEF CleanInv, Bound, Fresh
<1>4. \A b \in Boards : driver'[b] = "lost" => driver[b] = "lost"
  BY <1>1, <1>2 DEF TypeInv
<1>5. (\A b \in Boards : board[b].by <= session)'
  BY ByStep
<1>6. (pc \in Early \cup Bound => \A b \in Boards :
        driver[b] = "lost" /\ board[b].mode \in {"loader", "leaving"} => board[b].by # session)'
  BY <1>1, <1>4, LostKept DEF Bound, Fresh
<1>7. (pc \in Owning => owned /\ driver[first] # "lost")'
  BY <1>1, <1>2, <1>3, <1>4
<1>8. (killed \in BOOLEAN /\ (killed \/ pc \in {"dump", "replace"} \/ partial = NoFile))'
  BY <1>1 DEF CleanInv
<1>9. CleanedUp' /\ (owned => first \in Boards /\ pc \in Owning \cup {"ok", "failed", "idle"})'
  BY <1>1, <1>2 DEF CleanedUp, Owning
<1> QED
  BY <1>1, <1>5, <1>6, <1>7, <1>8, <1>9 DEF CleanInv

LEMMA CleanCommand ==
  ASSUME IInv, CleanInv, [Next]_vars, Command
  PROVE  CleanInv'
<1> USE DEF IInv
<1>1. pc \in {"reset", "id", "info", "dump"} /\ pc \notin Over
  BY DEF Command, Over
<1>2. UNCHANGED <<session, killed, at, first, owned>>
  BY DEF Command, SendCbw, ReadData, ReadCsw, args
<1>3. ASSUME NEW kind, RaiseAs(kind)
      PROVE  CleanInv'
  BY <1>1, <1>2, <1>3, CleanRaise
<1>4. ASSUME UNCHANGED <<pc, partial, driver, opened>>
      PROVE  CleanInv'
  <2>1. pc' \in {"dump", "replace"} \/ partial' = NoFile \/ (partial' = partial /\ pc \notin {"dump", "replace"})
    BY <1>4
  <2> QED
    BY <1>1, <1>2, <1>4, <2>1, CleanOn
<1>5. CASE SendCbw(Op, Packets, lba) \/ ReadData(Packets)
  BY <1>3, <1>4, <1>5 DEF SendCbw, ReadData, Raise
<1>6. ASSUME pc = "reset", Close, pc' = "wait_rom", UNCHANGED partial
      PROVE  CleanInv'
  <2>1. pc' \notin Over /\ pc' \notin Owning /\ pc \notin Owning
    BY <1>6 DEF Over, Owning
  <2>2. \A b \in Boards : driver'[b] = "lost" => driver[b] = "lost"
    BY <1>6, CloseKeeps
  <2> QED
    BY <1>1, <1>2, <1>6, <2>1, <2>2, CleanOn
<1>7. ASSUME CommandDone
      PROVE  CleanInv'
  <2>1. CASE AfterReset
    BY <1>6, <2>1 DEF AfterReset
  <2>2. ASSUME pc \in {"id", "info", "dump"}, pc' \in {"close", "dump", "replace"}, UNCHANGED <<driver, opened>>,
               pc' = "close" => pc = "id" /\ partial' = partial
        PROVE  CleanInv'
    <3>1. pc' \notin Over /\ pc' \in Owning /\ pc \in Owning
      BY <2>2 DEF Over, Owning
    <3>2. pc' \in {"dump", "replace"} \/ partial' = NoFile \/ (partial' = partial /\ pc \notin {"dump", "replace"})
      BY <2>2
    <3> QED
      BY <1>1, <1>2, <2>2, <3>1, <3>2, CleanOn
  <2>3. CASE AfterId
    BY <2>2, <2>3 DEF AfterId
  <2>4. CASE AfterInfo
    BY <1>3, <2>2, <2>4 DEF AfterInfo, Raise
  <2>5. CASE AfterRead
    <3>1. CASE Raise
      BY <1>3, <3>1 DEF Raise
    <3>2. CASE ~ Raise
      <4>1. pc = "dump" /\ pc' \in {"dump", "replace"} /\ UNCHANGED <<driver, opened>>
        BY <2>5, <3>2 DEF AfterRead
      <4> QED
        BY <2>2, <4>1
    <3> QED
      BY <3>1, <3>2
  <2> QED
    BY <1>7, <2>1, <2>3, <2>4, <2>5 DEF CommandDone
<1>8. CASE ReadCsw
  <2>1. \/ CommandDone \/ (\E kind \in {"plain", "usb"} : RaiseAs(kind))
        \/ (Op = "reset" /\ Close /\ pc' = "wait_rom" /\ UNCHANGED partial)
    BY <1>8, Zenon DEF ReadCsw, Raise
  <2>2. Op = "reset" => pc = "reset"
    BY <1>1 DEF Op
  <2> QED
    BY <1>3, <1>6, <1>7, <2>1, <2>2
<1> QED
  BY <1>5, <1>8 DEF Command

LEMMA CleanStep ==
  ASSUME IInv, CleanInv, [Next]_vars
  PROVE  CleanInv'
<1> USE DEF IInv
<1>0. (\A b \in Boards : board[b].by <= session)' /\ (pc = "open_plug" /\ live => board[at].mode # "maskrom")'
  BY ByStep, PlugStep
<1>1. CASE Start
  <2>1. ASSUME NEW b \in Boards
        PROVE  board'[b].by # session'
    <3>1. board' = board /\ session' = session + 1
      BY <1>1, StartEffect
    <3>2. session \in Nat /\ board[b].by \in Nat /\ board[b].by <= session
      BY BoardTypes DEF TypeInv, CleanInv
    <3> QED
      BY <3>1, <3>2
  <2>2. killed' = killed
    BY <1>1, Zenon DEF Start
  <2> QED
    BY <1>0, <1>1, <2>1, <2>2, StartEffect DEF CleanInv, CleanedUp, Owning
<1>2. CASE Resolve
  <2>1. pc \notin Over /\ UNCHANGED <<session, killed, at, first, owned>> /\ pc = "resolve"
    BY <1>2 DEF Resolve, args, Over
  <2>2. CASE Raise
    BY <2>1, <2>2, CleanRaise DEF Raise
  <2>3. CASE pc' = "power" /\ UNCHANGED <<partial, driver, opened>>
    <3>1. pc' \notin Over /\ pc' \notin Owning /\ pc \notin Owning
      BY <2>1, <2>3 DEF Over, Owning
    <3> QED
      BY <2>1, <2>3, <3>1, CleanOn
  <2> QED
    BY <1>2, <2>2, <2>3 DEF Resolve
<1>3. CASE PowerCycle
  <2>1. /\ UNCHANGED <<session, killed, first, owned, partial, driver>> /\ pc = "power" /\ pc' = "wait"
    BY <1>3 DEF PowerCycle, args, bus, files, ghost
  <2>2. pc \notin Over /\ pc' \notin Over /\ pc' \notin Owning /\ pc \notin Owning
    BY <2>1 DEF Over, Owning
  <2> QED
    BY <2>1, <2>2, CleanOn
<1>4. CASE Find
  <2>1. pc \in {"wait", "wait_rom", "wait_plug"} /\ UNCHANGED <<session, killed, owned>>
    BY <1>4 DEF Find, WaitForDevice, args
  <2>2. CASE Raise /\ UNCHANGED <<at, live, first>>
    BY <2>1, <2>2, CleanRaise DEF Raise, Over
  <2>3. CASE ~ (Raise /\ UNCHANGED <<at, live, first>>)
    <3>1. pc' \in {"open_plug", "open_stale", "open_rom"} /\ UNCHANGED <<partial, driver>>
      BY <1>4, <2>3 DEF Find, WaitForDevice
    <3>2. pc \notin Over /\ pc' \notin Over /\ pc' \notin Owning /\ pc \notin Owning
      BY <2>1, <3>1 DEF Over, Owning
    <3> QED
      BY <2>1, <3>1, <3>2, CleanOn
  <2> QED
    BY <2>2, <2>3
<1>5. CASE FindNothing
  BY <1>5, CleanRaise DEF FindNothing, WaitExpires, Raise, Over
<1>6. CASE OpenStale \/ OpenRom \/ OpenPlug
  <2>1. pc \in {"open_stale", "open_rom", "open_plug"} /\ UNCHANGED <<session, killed, at, first>>
    BY <1>6 DEF OpenStale, OpenRom, OpenPlug, Open, args
  <2>2. CASE Raise
    <3>1. ~ owned'
      BY <1>6, <2>2 DEF OpenStale, OpenRom, OpenPlug, Open, Raise, RaiseAs
    <3> QED
      BY <2>1, <2>2, <3>1, CleanRaise DEF Raise, Over
  <2>3. CASE OpenPlug /\ ~ Raise
    <3>1. pc' # "failed"
      BY <2>3 DEF OpenPlug, Open
    <3> QED
      BY <2>3, <3>1, CleanOpen
  <2>4. CASE (OpenStale \/ OpenRom) /\ ~ Raise
    <3>1. /\ pc \in {"open_stale", "open_rom"} /\ pc' \in {"reset", "ddr"} /\ partial' = partial
          /\ driver' \in {driver, [driver EXCEPT ![at] = "ours"]} /\ owned' = FALSE
      <4>1. ASSUME NEW to \in {"reset", "ddr"}, Open(to)
            PROVE  /\ pc' = to /\ partial' = partial
                   /\ driver' = driver \/ driver' = [driver EXCEPT ![at] = "ours"]
        BY <2>4, <4>1, Zenon DEF Open
      <4>2. ASSUME NEW to \in {"reset", "ddr"}, Open(to)
            PROVE  owned' = FALSE
        <5>1. owned' = (pc' \in {"id", "info"})
          BY <4>2, Zenon DEF Open
        <5>2. (pc' \in {"id", "info"}) = FALSE
          BY <4>1, <4>2
        <5> QED
          BY <5>1, <5>2, Zenon
      <4> QED
        BY <2>4, <4>1, <4>2 DEF OpenStale, OpenRom
    <3>2. pc \notin Over /\ pc' \notin Over /\ pc' \notin Owning /\ pc \notin Owning
      BY <3>1 DEF Over, Owning
    <3>3. owned' = owned
      <4>1. ~ owned
        BY <3>1, <3>2 DEF CleanInv, Over
      <4> QED
        BY <3>1, <4>1 DEF TypeInv
    <3>4. \A b \in Boards : driver'[b] = "lost" => driver[b] = "lost"
      BY <3>1 DEF TypeInv
    <3> QED
      BY <2>1, <3>1, <3>2, <3>3, <3>4, CleanOn
  <2> QED
    BY <1>6, <2>2, <2>3, <2>4
<1>7. CASE Upload
  <2>1. pc \in {"ddr", "plug"} /\ UNCHANGED <<session, killed, at, first, owned>>
    BY <1>7 DEF Upload, args
  <2>2. CASE Raise
    BY <2>1, <2>2, CleanRaise DEF Raise, Over
  <2>3. CASE ~ Raise
    <3>1. pc' \in {"ddr", "plug", "wait_plug"} /\ partial' = partial /\ (Close \/ UNCHANGED <<driver, opened>>)
      BY <1>7, <2>3 DEF Upload
    <3>2. pc \notin Over /\ pc' \notin Over /\ pc' \notin Owning /\ pc \notin Owning
      BY <2>1, <3>1 DEF Over, Owning
    <3>3. \A b \in Boards : driver'[b] = "lost" => driver[b] = "lost"
      BY <3>1, CloseKeeps
    <3> QED
      BY <2>1, <3>1, <3>2, <3>3, CleanOn
  <2> QED
    BY <2>2, <2>3
<1>8. CASE Command
  BY <1>8, CleanCommand
<1>9. CASE Replace
  <2>1. pc = "replace" /\ UNCHANGED <<session, killed, at, first, owned>>
    BY <1>9 DEF Replace, args
  <2>2. CASE Raise
    BY <2>1, <2>2, CleanRaise DEF Raise, Over
  <2>3. CASE ~ Raise
    <3>1. pc' = "close" /\ partial' = NoFile /\ UNCHANGED driver
      BY <1>9, <2>3 DEF Replace
    <3>2. pc \notin Over /\ pc' \notin Over /\ pc' \in Owning /\ pc \in Owning
      BY <2>1, <3>1 DEF Over, Owning
    <3> QED
      BY <2>1, <3>1, <3>2, CleanOn
  <2> QED
    BY <2>2, <2>3
<1>10. CASE Finish
  <2>1. pc = "close" /\ pc' = "ok" /\ Close /\ UNCHANGED <<killed, first, partial>>
    BY <1>10 DEF Finish, files, ghost
  <2>2. at = first /\ first \in Boards /\ driver[first] # "lost"
    BY <2>1 DEF CleanInv, HoldInv, Owning, Bound, Fresh
  <2>3. driver'[first] = "bound" /\ opened' = {}
    BY <2>1, <2>2 DEF Close, TypeInv, HoldInv, SameBoard
  <2>4. CleanedUp'
    BY <2>1, <2>3 DEF CleanedUp, CleanInv
  <2> QED
    BY <1>0, <2>1, <2>4 DEF CleanInv, Owning, Early, Bound, Fresh
<1>11. CASE Exit
  <2>1. pc \in {"ok", "failed"} /\ pc' = "idle" /\ UNCHANGED <<killed, partial, owned, first>>
    BY <1>11 DEF Exit, files, ghost
  <2> QED
    BY <1>0, <2>1 DEF CleanInv, CleanedUp, Owning, Early, Bound, Fresh
<1>12. CASE Kill
  <2>1. /\ pc \notin Over /\ pc' = "failed" /\ killed' = TRUE /\ opened' = {} /\ UNCHANGED <<first, owned>>
        /\ driver' = [b \in Boards |-> IF driver[b] = "ours" THEN "lost" ELSE driver[b]]
    BY <1>12 DEF Kill, Gone, Over
  <2>2. ASSUME owned
        PROVE  driver'[first] \in {"bound", "lost"}
    <3>1. pc \in Bound
      BY <2>1, <2>2 DEF CleanInv, Owning, Over, Bound, Fresh
    <3>2. first \in Boards /\ driver[first] \in {"bound", "ours", "lost"}
      BY <3>1 DEF HoldInv, TypeInv
    <3> QED
      BY <2>1, <3>2
  <2>3. CleanedUp'
    BY <2>1, <2>2 DEF CleanedUp
  <2> QED
    BY <1>0, <2>1, <2>3 DEF CleanInv, Owning, Early, Bound, Fresh
<1>13. ASSUME NEW x \in Boards, Appear(x) \/ UsbplugRuns(x) \/ Leaves(x) \/ Vanish(x)
       PROVE  CleanInv'
  <2>1. UNCHANGED <<session, pc, at, first, owned, opened, partial, killed>>
    BY <1>13, BoardStepEffect DEF Appear, UsbplugRuns, Leaves, Vanish, ghost
  <2>2. driver' \in {driver, [driver EXCEPT ![x] = "bound"]}
    BY <1>13 DEF Appear, UsbplugRuns, Leaves, Vanish
  <2>3. \A b \in Boards : driver'[b] = driver[b] \/ driver'[b] = "bound"
    BY <2>2 DEF TypeInv
  <2>4. CASE pc \notin Over
    <3>1. pc' \in {"dump", "replace"} \/ partial' = NoFile \/ (partial' = partial /\ pc \notin {"dump", "replace"})
      BY <2>1
    <3> QED
      BY <2>1, <2>3, <2>4, <3>1, CleanOn
  <2>5. CASE pc \in Over
    <3>1. CleanedUp'
      <4>1. owned => driver'[first] = driver[first] \/ driver'[first] = "bound"
        BY <2>3 DEF CleanInv
      <4> QED
        BY <2>1, <4>1 DEF CleanedUp, CleanInv
    <3> QED
      BY <1>0, <2>1, <2>5, <3>1 DEF CleanInv, Over, Owning, Early, Bound, Fresh
  <2> QED
    BY <2>4, <2>5
<1>14. CASE UNCHANGED vars
  BY <1>14 DEF vars, bus, args, files, ghost, CleanInv, CleanedUp
<1> QED
  BY <1>1, <1>2, <1>3, <1>4, <1>5, <1>6, <1>7, <1>8, <1>9, <1>10, <1>11, <1>12, <1>13, <1>14
     DEF Next, HostStep, Ended, BoardStep

\* Only a killed process leaves a .partial file, and an invocation whose
\* usbplug ran leaves no handle open and, unless killed, the kernel driver
\* attached (the finally blocks of the USB commands, close).
THEOREM CleanedUpHolds == Spec => []CleanedUp
<1>1. Init => CleanInv
  <2>1. ASSUME Init
        PROVE  CleanInv
    <3>1. /\ pc = "idle" /\ owned = FALSE /\ killed = FALSE /\ partial = NoFile /\ session = 0
      BY <2>1 DEF Init
    <3>2. ASSUME NEW b \in Boards
          PROVE  board[b].by = 0
      <4>1. board[b] \in {[mode |-> m, stage |-> "471", pipe |-> <<>>, cmd |-> NoCmd, by |-> 0] :
                              m \in {"gone", "maskrom"}}
                       \cup {[mode |-> "loader", stage |-> "471", cmd |-> NoCmd, by |-> 0,
                              pipe |-> [i \in 1..k |-> [k |-> IF i = k THEN "csw" ELSE "data",
                                                        tag |-> 0, lba |-> 0, ok |-> TRUE, res |-> FALSE]]] :
                              k \in Leftovers}
        BY <2>1 DEF Init
      <4> QED
        BY <4>1
    <3>3. \A b \in Boards : board[b].by <= session
      BY <3>1, <3>2
    <3>4. pc \notin Early \cup Bound /\ pc \notin Owning
      BY <3>1 DEF Owning, Early, Bound, Fresh
    <3>5. ~ owned /\ ~ killed /\ killed \in BOOLEAN /\ CleanedUp
      BY <3>1 DEF CleanedUp
    <3>6. pc # "open_plug"
      BY <3>1
    <3> QED
      BY <3>1, <3>3, <3>4, <3>5, <3>6, Zenon DEF CleanInv
  <2> QED
    BY <2>1
<1>2. IInv /\ CleanInv /\ [Next]_vars => CleanInv'
  BY CleanStep
<1>3. CleanInv => CleanedUp
  BY DEF CleanInv
<1> QED
  BY <1>1, <1>2, <1>3, Invariance, PTL DEF Spec

---------------------------------------------------------------------------
(* An invocation that meets no fault succeeds.                             *)

\* Where a command is under way, or about to be.
Commanding == {"reset", "id", "info", "dump"}

\* The command the invocation is at, and its answer.
Asked == [op |-> Op, tag |-> tag, lba |-> lba, n |-> Packets]
Answer(c) == Data(c) \o Csw(c, TRUE, c.op # "read")

\* A board that runs no usbplug has nothing queued.
QuietInv ==
  /\ sizes \in {<<n, n>> : n \in BlobSizes}
  /\ \A b \in Boards : board[b].mode \notin {"loader", "leaving"} => board[b].pipe = <<>>

\* No board has a command but the one the invocation is at, and no upload was
\* refused.
BoardsInv ==
  \A b \in Boards :
    /\ board[b].stage # "bad"
    /\ board[b].cmd # NoCmd => b = at /\ pc \in Commanding /\ phase # "cbw"
    /\ pc \in Early \cup {"open_stale"} => Len(board[b].pipe) <= DrainReads

\* The upload: its place, the stage it has reached, the board on its way.
PlaceInv ==
  /\ pc \in {"ddr", "plug"} => chunk <= Len(Chunks)
  /\ pc \notin {"ddr", "plug"} => chunk = 1
  /\ pc = "plug" /\ live => board[at].stage = "472"
  /\ pc = "wait_rom" => board[first].mode \in {"leaving", "resetting", "maskrom"}
  /\ pc = "wait_plug" => board[first].mode \in {"starting", "loader"}
  /\ pc \in {"wait_plug", "open_plug"} => board[first].pipe = <<>>

\* A command is taken by an idle usbplug, and what is queued is its answer.
\* The board may drop off the bus before the status wrapper of its reset, or
\* after it.
StepInv ==
  /\ pc \notin Commanding => phase = "cbw"
  /\ pc \in Commanding /\ phase = "cbw" => board[at].pipe = <<>>
  /\ pc = "reset" /\ phase # "cbw" =>
       /\ phase = "csw"
       /\ \/ board[at].cmd = Asked /\ board[at].pipe = <<>>
          \/ /\ board[at].cmd = NoCmd /\ board[at].mode \in {"leaving", "resetting", "maskrom"}
             /\ board[at].pipe \in {<<>>, Csw(Asked, TRUE, TRUE)}
             /\ board[at].pipe # <<>> => board[at].mode = "leaving"
  /\ pc \in Commanding \ {"reset"} /\ phase = "data" =>
       \/ board[at].cmd = Asked /\ board[at].pipe = <<>>
       \/ board[at].cmd = NoCmd /\ board[at].mode = "loader" /\ board[at].pipe = Answer(Asked)
  /\ pc \in Commanding \ {"reset"} /\ phase = "csw" =>
       /\ board[at].cmd = NoCmd /\ board[at].mode = "loader"
       /\ payload = Data(Asked) /\ board[at].pipe = Csw(Asked, TRUE, Op # "read")

SmoothInv ==
  /\ QuietInv /\ faults \in Nat
  /\ pc \in Early \cup Bound /\ ~ trouble => BoardsInv /\ PlaceInv /\ StepInv
  /\ CleanSucceeds

LEMMA Quotient ==
  ASSUME NEW c \in Nat \ {0}, NEW q \in Nat, NEW r \in 0..c-1
  PROVE  (c * q + r) \div c = q
OBVIOUS

LEMMA Remainder ==
  ASSUME NEW c \in Nat \ {0}, NEW n \in Nat
  PROVE  \E q \in Nat : \E r \in 0..c-1 : n = c * q + r /\ n % c = r
<1>1. n \div c \in Nat /\ n % c \in 0..c-1 /\ n = (c * (n \div c)) + (n % c)
  OBVIOUS
<1> QED
  BY <1>1

\* The full chunks of a transfer end where its last one begins.
LEMMA FullChunks ==
  ASSUME NEW c \in Nat \ {0}, NEW m \in Nat, NEW i \in 1..m
  PROVE  (c * (i - 1)) + c <= c * m
<1>1. (c * (i - 1)) + c = c * i
  OBVIOUS
<1>2. c * i <= c * m
  OBVIOUS
<1> QED
  BY <1>1, <1>2

LEMMA TwoElements ==
  ASSUME NEW x \in Int
  PROVE  Cardinality({x, x + 1}) = 2
<1>1. IsFiniteSet({x}) /\ Cardinality({x}) = 1
  BY FS_Singleton
<1>2. x + 1 \notin {x} /\ {x} \cup {x + 1} = {x, x + 1}
  OBVIOUS
<1> QED
  BY <1>1, <1>2, FS_AddElement

\* Every chunk but the last is full, the last is not, and no chunk has one byte
\* of the CRC without the other, whatever the length of the image.
LEMMA Framing ==
  ASSUME NEW len \in Nat
  PROVE  LET s == BuildMaskromChunks(len) IN
         /\ Len(s) \in Nat \ {0}
         /\ \A i \in 1..Len(s) : /\ s[i].crc # 1
                                 /\ i < Len(s) => s[i].n = ChunkSize
                                 /\ i = Len(s) => s[i].n # ChunkSize
<1>0. ChunkSize \in Nat /\ ChunkSize > 2 /\ ChunkSize \in Nat \ {0}
  BY UsbAssumption
<1> DEFINE C == ChunkSize
           rest == len % C
           padded == IF rest = C - 1 THEN len + 1 ELSE len
           total == padded + 2
           last == (total + C - 1) \div C
           size(i) == IF i < last THEN C ELSE total - C * (last - 1)
           held(i) == {j \in {padded + 1, padded + 2} : j > C * (i - 1) /\ j <= C * (i - 1) + size(i)}
           body == [i \in 1..last |-> [n |-> size(i), crc |-> Cardinality(held(i))]]
           end == IF rest = C - 2 THEN <<[n |-> 1, crc |-> 0]>> ELSE <<>>
<1>1. BuildMaskromChunks(len) = body \o end
  BY DEF BuildMaskromChunks
<1>2. PICK q \in Nat, r \in 0..C-1 : len = C * q + r /\ rest = r
  BY <1>0, Remainder
<1> DEFINE m == IF r = C - 1 THEN q + 1 ELSE q
           t == IF r = C - 1 THEN 2 ELSE r + 2
<1>3. m \in Nat /\ t \in 2..C /\ total = (C * m) + t /\ padded \in Nat /\ (t = C <=> rest = C - 2)
  BY <1>0, <1>2
<1>4. last = m + 1
  <2>1. total + C - 1 = (C * (m + 1)) + (t - 1) /\ t - 1 \in 0..C-1 /\ m + 1 \in Nat
    BY <1>0, <1>3
  <2>2. ((C * (m + 1)) + (t - 1)) \div C = m + 1
    BY <1>0, <2>1, Quotient
  <2> HIDE DEF total, m, t
  <2> QED
    BY <2>1, <2>2
<1> HIDE DEF rest, padded, m, t
<1>5. padded + 2 = (C * m) + t /\ padded + 1 = (C * m) + (t - 1)
  BY <1>0, <1>3
<1> HIDE DEF last
<1>6. size(m + 1) = t /\ \A i \in 1..m : size(i) = C
  BY <1>0, <1>3, <1>4
<1>7. Cardinality(held(m + 1)) = 2
  <2>1. C * ((m + 1) - 1) = C * m
    BY <1>3
  <2>2. held(m + 1) = {padded + 1, (padded + 1) + 1}
    BY <1>0, <1>3, <1>5, <1>6, <2>1
  <2> QED
    BY <1>3, <2>2, TwoElements
<1>8. ASSUME NEW i \in 1..m
      PROVE  Cardinality(held(i)) = 0
  <2>1. (C * (i - 1)) + C <= C * m
    BY <1>0, <1>3, FullChunks
  <2>2. held(i) = {}
    BY <1>0, <1>3, <1>5, <1>6, <2>1
  <2> QED
    BY <2>2, FS_EmptySet
<1>9. /\ \A i \in 1..m : body[i].n = C /\ body[i].crc = 0
      /\ body[m + 1].n = t /\ body[m + 1].crc = 2
  <2> HIDE DEF size, held
  <2> QED
    BY <1>3, <1>4, <1>6, <1>7, <1>8
<1> DEFINE Parts == [n : Int, crc : Int]
<1>10. body \in Seq(Parts) /\ Len(body) = m + 1
  <2>1. \A i \in 1..m+1 : body[i] \in Parts
    <3>1. ASSUME NEW i \in 1..m+1
          PROVE  body[i] \in Parts
      <4>1. body[i] = [n |-> size(i), crc |-> Cardinality(held(i))]
        BY <1>4, <3>1
      <4>2. size(i) \in Int /\ Cardinality(held(i)) \in Int
        <5> HIDE DEF size, held
        <5> QED
          BY <1>0, <1>3, <1>6, <1>7, <1>8, <3>1
      <4> HIDE DEF size, held
      <4> QED
        BY <4>1, <4>2
    <3> QED
      BY <3>1
  <2>2. body = [i \in 1..m+1 |-> body[i]]
    BY <1>4
  <2>3. m + 1 \in Nat
    BY <1>3
  <2> HIDE DEF body, Parts
  <2> QED
    BY <2>1, <2>2, <2>3, FunctionIsSeq
<1> HIDE DEF body
<1>11. CASE rest = C - 2
  <2>1. end = <<[n |-> 1, crc |-> 0]>> /\ end \in Seq(Parts) /\ Len(end) = 1 /\ t = C
    BY <1>3, <1>11
  <2> HIDE DEF end
  <2>2. /\ Len(body \o end) = m + 2
        /\ \A i \in 1..m+1 : (body \o end)[i] = body[i]
        /\ (body \o end)[m + 2] = end[1]
    BY <1>3, <1>10, <2>1
  <2>3. end[1].n = 1 /\ end[1].crc = 0
    BY <2>1
  <2> DEFINE s == body \o end
  <2>4. Len(s) = m + 2 /\ m + 2 \in Nat \ {0} /\ BuildMaskromChunks(len) = s
    <3>1. m + 2 \in Nat \ {0}
      BY <1>3
    <3> QED
      BY <1>1, <2>2, <3>1, Zenon
  <2>5. \A i \in 1..m+1 : s[i].crc # 1 /\ s[i].n = C
    <3>1. \A i \in 1..m+1 : body[i].crc # 1 /\ body[i].n = C
      BY <1>3, <1>9, <2>1
    <3> QED
      BY <2>2, <3>1, Zenon
  <2>6. s[m + 2].crc # 1 /\ s[m + 2].n # C
    BY <1>0, <2>2, <2>3
  <2> HIDE DEF s, Parts
  <2>7. \A i \in 1..m+2 : /\ s[i].crc # 1 /\ (i < m + 2 => s[i].n = C)
                           /\ (i = m + 2 => s[i].n # C)
    BY <1>3, <2>5, <2>6
  <2> QED
    BY <2>4, <2>7
<1>12. CASE rest # C - 2
  <2>1. body \o end = body /\ t # C
    BY <1>3, <1>10, <1>12
  <2> HIDE DEF end, Parts
  <2>2. BuildMaskromChunks(len) = body /\ Len(body) = m + 1 /\ m + 1 \in Nat \ {0}
    BY <1>1, <1>3, <1>10, <2>1
  <2>3. \A i \in 1..m+1 : /\ body[i].crc # 1 /\ (i < m + 1 => body[i].n = C)
                           /\ (i = m + 1 => body[i].n # C)
    BY <1>0, <1>3, <1>9, <2>1
  <2> QED
    BY <2>2, <2>3
<1> QED
  BY <1>11, <1>12

\* Both images have the same length, so the chunks are the same for both.
LEMMA ChunksAre ==
  ASSUME QuietInv, sizes' = sizes
  PROVE  /\ sizes[1] \in Nat
         /\ Chunks = BuildMaskromChunks(sizes[1]) /\ Chunks' = BuildMaskromChunks(sizes[1])
<1>1. PICK n \in BlobSizes : sizes = <<n, n>>
  BY DEF QuietInv
<1>2. sizes[1] = n /\ sizes[2] = n /\ n \in Nat
  BY <1>1, UsbAssumption
<1>3. Blob = sizes[1] /\ Blob' = sizes[1]
  BY <1>2 DEF Blob
<1> QED
  BY <1>2, <1>3 DEF Chunks

LEMMA AskedType ==
  ASSUME TypeInv, FileInv, pc \in Commanding
  PROVE  /\ Asked \in CommandT /\ Asked.op = Op /\ Asked.tag = tag /\ Asked.n = Packets
         /\ pc = "reset" => Packets = 0 /\ Op = "reset"
         /\ pc # "reset" => Packets \in Nat \ {0} /\ Op # "reset"
<1>1. Op \in {"reset", "id", "info", "read"} /\ (Op = "reset" <=> pc = "reset")
  BY DEF Op, Commanding
<1>2. Packets \in Nat /\ (pc = "reset" => Packets = 0) /\ (pc # "reset" => Packets > 0)
  BY PacketsType DEF Packets, Commanding
<1>3. tag \in Nat /\ lba \in Nat
  BY DEF TypeInv
<1> QED
  BY <1>1, <1>2, <1>3 DEF Asked, CommandT

LEMMA AskedKept ==
  ASSUME UNCHANGED <<pc, tag, lba, extent>>
  PROVE  Asked' = Asked /\ Op' = Op /\ Packets' = Packets
BY DEF Asked, Op, Packets, Transfer, End

\* The data phase of a clean answer takes its data and leaves its status.
LEMMA AnswerParts ==
  ASSUME NEW c \in CommandT
  PROVE  /\ Answer(c) \in Seq(Packet) /\ Answer(c) # <<>>
         /\ c.n = 0 => Answer(c) = Csw(c, TRUE, c.op # "read")
         /\ c.n # 0 => /\ Taken(Answer(c), c.n) = c.n
                       /\ SubSeq(Answer(c), 1, c.n) = Data(c)
                       /\ SubSeq(Answer(c), c.n + 1, Len(Answer(c))) = Csw(c, TRUE, c.op # "read")
<1> DEFINE d == Data(c)
           t == Csw(c, TRUE, c.op # "read")
           s == d \o t
<1>1. d \in Seq(Packet) /\ Len(d) = c.n /\ c.n \in Nat
  BY DataType DEF CommandT
<1>2. t \in Seq(Packet) /\ Len(t) = 1 /\ t[1].k = "csw"
  <2>1. TRUE \in BOOLEAN /\ (c.op # "read") \in BOOLEAN
    BY Zenon
  <2> QED
    BY <2>1, CswType, Zenon
<1>3. \A i \in 1..c.n : d[i].k = "data"
  BY DEF Data
<1>4. Answer(c) = s
  BY DEF Answer
<1> HIDE DEF d, t
<1>5. /\ s \in Seq(Packet) /\ Len(s) = c.n + 1
      /\ \A i \in 1..c.n : s[i] = d[i]
      /\ s[c.n + 1] = t[1]
  <2>1. /\ s \in Seq(Packet) /\ Len(s) = Len(d) + Len(t)
        /\ \A i \in 1..Len(d) + Len(t) : s[i] = IF i <= Len(d) THEN d[i] ELSE t[i - Len(d)]
    BY <1>1, <1>2, ConcatProperties, Zenon
  <2> HIDE DEF s
  <2>2. Len(s) = c.n + 1 /\ \A i \in 1..c.n+1 : s[i] = IF i <= c.n THEN d[i] ELSE t[i - c.n]
    BY <1>1, <1>2, <2>1
  <2>3. \A i \in 1..c.n : s[i] = d[i]
    BY <1>1, <2>2
  <2>4. s[c.n + 1] = t[1]
    <3>1. (c.n + 1) - c.n = 1 /\ c.n + 1 \in 1..c.n+1 /\ ~ (c.n + 1 <= c.n)
      BY <1>1
    <3> QED
      BY <2>2, <3>1
  <2> QED
    BY <2>1, <2>2, <2>3, <2>4
<1>6. CASE c.n = 0
  <2>1. d = <<>>
    BY <1>1, <1>6
  <2>2. s = t
    BY <1>2, <2>1
  <2>3. t # <<>>
    BY <1>2
  <2> HIDE DEF s
  <2> QED
    BY <1>4, <1>5, <1>6, <2>2, <2>3, Zenon DEF t
<1>7. CASE c.n # 0
  <2> HIDE DEF s
  <2>1. Taken(s, c.n) = c.n
    <3> DEFINE short == {i \in DOMAIN s : s[i].k # "data"}
    <3>1. DOMAIN s = 1..c.n+1
      BY <1>1, <1>5
    <3>2. short = {c.n + 1}
      BY <1>1, <1>2, <1>3, <1>5, <3>1
    <3> HIDE DEF short
    <3>3. (CHOOSE i \in short : \A j \in short : i <= j) = c.n + 1
      BY <1>1, <3>2
    <3>4. short # {}
      BY <3>2
    <3>5. Taken(s, c.n) = IF c.n + 1 < c.n THEN c.n + 1 ELSE c.n
      BY <3>3, <3>4 DEF Taken, short
    <3> QED
      BY <1>1, <3>5
  <2>2. SubSeq(s, 1, c.n) = d
    <3>1. SubSeq(s, 1, c.n) \in Seq(Packet) /\ Len(SubSeq(s, 1, c.n)) = c.n
      BY <1>1, <1>5
    <3>2. \A i \in 1..c.n : SubSeq(s, 1, c.n)[i] = d[i]
      BY <1>1, <1>5
    <3> QED
      BY <1>1, <3>1, <3>2
  <2>3. SubSeq(s, c.n + 1, Len(s)) = t
    <3> DEFINE z == SubSeq(s, c.n + 1, Len(s))
    <3>1. z \in Seq(Packet) /\ Len(z) = 1 /\ z[1] = s[c.n + 1]
      BY <1>1, <1>5
    <3> HIDE DEF z
    <3>2. z = t
      BY <1>2, <1>5, <3>1
    <3> QED
      BY <3>2 DEF z
  <2>4. s # <<>>
    BY <1>1, <1>5
  <2> QED
    BY <1>4, <1>5, <1>7, <2>1, <2>2, <2>3, <2>4, Zenon DEF d, t
<1> QED
  BY <1>6, <1>7

\* What a usbplug does with a command when nothing goes wrong.
LEMMA RunsClean ==
  ASSUME TypeInv, NEW b \in Boards, UsbplugRuns(b), ~ trouble'
  PROVE  /\ board[b].mode = "loader" /\ board[b].cmd # NoCmd
         /\ \A x \in Boards : x # b => board'[x] = board[x]
         /\ board'[b].cmd = NoCmd /\ board'[b].stage = board[b].stage
         /\ \/ board[b].cmd.op = "reset" /\ board'[b].mode = "resetting" /\ board'[b].pipe = <<>>
            \/ /\ board'[b].pipe = Answer(board[b].cmd)
               /\ board'[b].mode = IF board[b].cmd.op = "reset" THEN "leaving" ELSE "loader"
<1> DEFINE c == board[b].cmd
<1>1. board[b] \in BoardT /\ board[b].mode = "loader" /\ c # NoCmd /\ board[b].pipe = <<>>
  BY BoardTypes DEF UsbplugRuns
<1>2. \/ c.op = "reset" /\ board' = [board EXCEPT ![b].cmd = NoCmd, ![b].mode = "resetting"]
      \/ board' = [board EXCEPT ![b].cmd = NoCmd, ![b].pipe = Answer(c),
                                ![b].mode = IF c.op = "reset" THEN "leaving" ELSE @]
  BY Zenon DEF UsbplugRuns, Answer
<1>3. CASE c.op = "reset" /\ board' = [board EXCEPT ![b].cmd = NoCmd, ![b].mode = "resetting"]
  BY <1>1, <1>3 DEF TypeInv, BoardT
<1>4. CASE board' = [board EXCEPT ![b].cmd = NoCmd, ![b].pipe = Answer(c),
                                  ![b].mode = IF c.op = "reset" THEN "leaving" ELSE @]
  BY <1>1, <1>4 DEF TypeInv, BoardT
<1> QED
  BY <1>2, <1>3, <1>4

\* A board that runs no usbplug has nothing queued, whatever happens.
Quiet(r) == r.mode \notin {"loader", "leaving"} => r.pipe = <<>>

LEMMA QuietOne ==
  ASSUME TypeInv, QuietInv, sizes' = sizes, NEW x \in Boards, NEW r,
         board' = [board EXCEPT ![x] = r], Quiet(r)
  PROVE  QuietInv'
<1>1. \A b \in Boards : board'[b] = IF b = x THEN r ELSE board[b]
  BY DEF TypeInv
<1> QED
  BY <1>1 DEF QuietInv, Quiet

LEMMA QuietTransfer ==
  ASSUME TypeInv, QuietInv, sizes' = sizes, at \in Boards, NEW s, board[at].pipe = <<>> => s = <<>>,
         board' = [board EXCEPT ![at].pipe = s]
  PROVE  QuietInv'
<1> DEFINE r == [board[at] EXCEPT !.pipe = s]
<1>1. r.mode = board[at].mode /\ r.pipe = s
  BY BoardTypes DEF BoardT
<1>2. Quiet(r)
  BY <1>1 DEF Quiet, QuietInv
<1>3. board' = [board EXCEPT ![at] = r]
  OBVIOUS
<1> HIDE DEF r
<1> QED
  BY <1>2, <1>3, QuietOne

LEMMA RestOfNothing ==
  ASSUME NEW j \in Nat
  PROVE  Rest(<<>>, j) = <<>>
BY DEF Rest

LEMMA QuietStep ==
  ASSUME IInv, QuietInv, [Next]_vars
  PROVE  QuietInv'
<1> USE DEF IInv
<1>0. ASSUME UNCHANGED <<board, sizes>>
      PROVE  QuietInv'
  BY <1>0 DEF QuietInv
<1>1. sizes' = sizes
  <2>1. CASE Start
    BY <2>1, Zenon DEF Start
  <2>2. CASE HostStep
    <3>1. CASE Resolve \/ PowerCycle \/ Find \/ FindNothing
      BY <3>1 DEF Resolve, PowerCycle, Find, WaitForDevice, FindNothing, WaitExpires, args
    <3>2. CASE OpenStale \/ OpenRom \/ OpenPlug \/ Upload
      BY <3>2, Zenon DEF OpenStale, OpenRom, OpenPlug, Open, Upload, args
    <3>3. CASE Command
      BY <3>3, Zenon DEF Command, SendCbw, ReadData, ReadCsw, args
    <3>4. CASE Replace \/ Finish \/ Exit
      BY <3>4 DEF Replace, Finish, Exit, args
    <3> QED
      BY <2>2, <3>1, <3>2, <3>3, <3>4 DEF HostStep
  <2>3. CASE Kill \/ Ended \/ UNCHANGED vars
    BY <2>3 DEF Kill, Ended, vars, args
  <2>4. CASE BoardStep
    BY <2>4, Zenon DEF BoardStep, Appear, UsbplugRuns, Leaves, Vanish, args
  <2> QED
    BY <2>1, <2>2, <2>3, <2>4 DEF Next
<1>2. CASE Start
  BY <1>0, <1>1, <1>2, StartEffect
<1>3. CASE Resolve \/ FindNothing \/ Exit \/ Kill \/ Finish \/ Replace \/ Find
  BY <1>0, <1>1, <1>3 DEF Resolve, FindNothing, WaitExpires, Exit, Kill, Finish, Replace, Find, WaitForDevice
<1>4. CASE PowerCycle
  <2> DEFINE r == [mode |-> "gone", stage |-> "471", pipe |-> <<>>, cmd |-> NoCmd, by |-> 0]
  <2>1. board' = board \/ \E x \in Boards : board' = [board EXCEPT ![x] = r]
    BY <1>4 DEF PowerCycle, bus
  <2>2. Quiet(r)
    BY DEF Quiet
  <2> HIDE DEF r
  <2> QED
    BY <1>0, <1>1, <2>1, <2>2, QuietOne
<1>5. CASE OpenStale \/ OpenRom \/ OpenPlug
  <2>1. at \in Boards
    BY <1>5, BoundBoard DEF OpenStale, OpenRom, OpenPlug, Bound, Fresh
  <2>2. board' = board \/ \E j \in Nat : board' = [board EXCEPT ![at].pipe = Rest(board[at].pipe, j)]
    BY <1>5, <2>1, OpenPipe DEF OpenStale, OpenRom, OpenPlug
  <2> QED
    BY <1>0, <1>1, <2>1, <2>2, RestOfNothing, QuietTransfer
<1>6. CASE Upload
  <2>1. at \in Boards
    BY <1>6, BoundBoard DEF Upload, Bound, Fresh
  <2>2. CASE board' = board
    BY <1>0, <1>1, <2>2
  <2>3. CASE board' # board
    <3>1. Held = "maskrom" /\ \E code, c : RomTakes(at, code, c)
      BY <1>6, <2>3 DEF Upload
    <3>2. board[at].pipe = <<>>
      BY <2>1, <3>1 DEF Held, Mode, QuietInv
    <3>3. PICK m \in {board[at].mode, "starting"}, g \in {"471", "472", "bad"} :
            board' = [board EXCEPT ![at].mode = m, ![at].stage = g]
      BY <2>1, <3>1, RomEffect
    <3> DEFINE r == [board[at] EXCEPT !.mode = m, !.stage = g]
    <3>4. r.pipe = <<>>
      BY <2>1, <3>2, BoardTypes DEF BoardT
    <3>5. board' = [board EXCEPT ![at] = r]
      BY <3>3 DEF TypeInv
    <3>6. Quiet(r)
      BY <3>4 DEF Quiet
    <3> HIDE DEF r
    <3> QED
      BY <1>1, <2>1, <3>5, <3>6, QuietOne
  <2> QED
    BY <2>2, <2>3
<1>7. CASE Command
  <2>1. pc \in {"reset", "id", "info", "dump"} /\ at \in Boards
    BY <1>7, BoundBoard DEF Command, Bound, Fresh
  <2>2. CASE SendCbw(Op, Packets, lba)
    <3>1. CASE board' = board
      BY <1>0, <1>1, <3>1
    <3>2. ASSUME NEW c, board' = [board EXCEPT ![at].cmd = c]
          PROVE  QuietInv'
      <4> DEFINE r == [board[at] EXCEPT !.cmd = c]
      <4>1. r.pipe = board[at].pipe /\ r.mode = board[at].mode
        BY <2>1, BoardTypes DEF BoardT
      <4>2. board' = [board EXCEPT ![at] = r]
        BY <3>2
      <4>3. Quiet(r)
        BY <2>1, <4>1 DEF Quiet, QuietInv
      <4> HIDE DEF r
      <4> QED
        BY <1>1, <2>1, <4>2, <4>3, QuietOne
    <3> QED
      BY <2>2, <3>1, <3>2 DEF SendCbw
  <2>3. CASE ReadData(Packets)
    <3>1. \/ board' = board
          \/ \E j \in 0..Len(board[at].pipe) : board' = [board EXCEPT ![at].pipe = Rest(board[at].pipe, j)]
      BY <2>1, <2>3, DataEffect
    <3>2. \A j \in 0..Len(board[at].pipe) : j \in Nat
      BY <2>1, BoardTypes
    <3> QED
      BY <1>0, <1>1, <2>1, <3>1, <3>2, RestOfNothing, QuietTransfer
  <2>4. CASE ReadCsw
    <3>1. board' = board \/ (board[at].pipe # <<>> /\ board' = [board EXCEPT ![at].pipe = Tail(board[at].pipe)])
      BY <2>1, <2>4, CswEffect
    <3> QED
      BY <1>0, <1>1, <2>1, <3>1, QuietTransfer
  <2> QED
    BY <1>7, <2>2, <2>3, <2>4 DEF Command
<1>8. ASSUME NEW x \in Boards, Appear(x) \/ UsbplugRuns(x) \/ Leaves(x) \/ Vanish(x)
      PROVE  QuietInv'
  <2>1. ASSUME NEW b \in Boards, b # x
        PROVE  board'[b] = board[b]
    BY <1>8, <2>1 DEF Appear, UsbplugRuns, Leaves, Vanish, TypeInv
  <2>2. Quiet(board'[x])
    <3>1. CASE Appear(x)
      BY <3>1, BoardTypes DEF Appear, Quiet, QuietInv, TypeInv, BoardT
    <3>2. CASE UsbplugRuns(x)
      <4>1. board[x].pipe = <<>> /\ board[x].mode = "loader" /\ board[x] \in BoardT
        BY <3>2, BoardTypes DEF UsbplugRuns
      <4>2. CASE board' = [board EXCEPT ![x].cmd = NoCmd, ![x].mode = "resetting"]
        BY <4>1, <4>2 DEF Quiet, TypeInv, BoardT
      <4>3. ASSUME NEW s, board' = [board EXCEPT ![x].cmd = NoCmd, ![x].pipe = s]
            PROVE  Quiet(board'[x])
        BY <4>1, <4>3 DEF Quiet, TypeInv, BoardT
      <4>4. ASSUME NEW s, board' = [board EXCEPT ![x].cmd = NoCmd, ![x].pipe = s,
                                    ![x].mode = IF board[x].cmd.op = "reset" THEN "leaving" ELSE @]
            PROVE  Quiet(board'[x])
        BY <4>1, <4>4 DEF Quiet, TypeInv, BoardT
      <4> QED
        BY <3>2, <4>2, <4>3, <4>4, Zenon DEF UsbplugRuns
    <3>3. CASE Leaves(x)
      BY <3>3, BoardTypes DEF Leaves, Quiet, TypeInv, BoardT
    <3>4. CASE Vanish(x)
      BY <3>4 DEF Vanish, Quiet, TypeInv
    <3> QED
      BY <1>8, <3>1, <3>2, <3>3, <3>4
  <2> QED
    BY <1>1, <2>1, <2>2 DEF QuietInv, Quiet
<1>9. CASE UNCHANGED vars
  BY <1>0, <1>9 DEF vars, bus, args
<1> QED
  BY <1>2, <1>3, <1>4, <1>5, <1>6, <1>7, <1>8, <1>9 DEF Next, HostStep, Ended, BoardStep

\* The boards are as a clean invocation left them, and so is what it is at.
Smooth == BoardsInv /\ PlaceInv /\ StepInv

\* What has to be shown of a step: no failure, and what comes next is smooth.
Goes == pc' # "failed" /\ (pc' \in Early \cup Bound => Smooth')

\* A step on to a place where no command is under way and that is not waited at.
LEMMA SmoothOn ==
  ASSUME BoardsInv, UNCHANGED board, pc \notin Commanding \/ \A b \in Boards : board[b].cmd = NoCmd,
         phase' = "cbw", chunk' = 1,
         pc' \notin Commanding \cup {"ddr", "plug", "wait_rom", "wait_plug", "open_plug", "failed"},
         pc' \in Early \cup {"open_stale"} => pc \in Early \cup {"open_stale"}
  PROVE  Goes
<1>1. \A b \in Boards : board[b].cmd = NoCmd
  BY DEF BoardsInv
<1>2. BoardsInv'
  BY <1>1 DEF BoardsInv
<1>3. PlaceInv'
  BY DEF PlaceInv
<1>4. StepInv'
  BY DEF StepInv, Commanding
<1> QED
  BY <1>2, <1>3, <1>4 DEF Goes, Smooth

LEMMA SmoothStart ==
  ASSUME TypeInv, Start, ~ trouble'
  PROVE  Goes
<1>1. \A b \in Boards : ~ (Len(board[b].pipe) > DrainReads) /\ board[b].cmd = NoCmd /\ board[b].stage # "bad"
  BY Zenon DEF Start
<1>2. ASSUME NEW b \in Boards
      PROVE  Len(board[b].pipe) <= DrainReads
  <2>1. Len(board[b].pipe) \in Nat /\ DrainReads \in Nat
    BY BoardTypes, UsbAssumption
  <2> QED
    BY <1>1, <2>1
<1>3. pc' = "resolve" /\ phase' = "cbw" /\ chunk' = 1 /\ board' = board
  BY StartEffect
<1>4. BoardsInv'
  BY <1>1, <1>2, <1>3 DEF BoardsInv
<1>5. PlaceInv' /\ StepInv'
  BY <1>3 DEF PlaceInv, StepInv, Commanding
<1> QED
  BY <1>3, <1>4, <1>5 DEF Goes, Smooth

LEMMA SmoothPower ==
  ASSUME TypeInv, Smooth, PowerCycle
  PROVE  Goes
<1> USE DEF Smooth
<1>1. pc = "power" /\ pc' = "wait" /\ phase' = phase /\ chunk' = chunk /\ at' = at
  BY DEF PowerCycle, cmdVars
<1>2. phase = "cbw" /\ chunk = 1
  BY <1>1 DEF StepInv, PlaceInv, Commanding
<1> DEFINE r == [mode |-> "gone", stage |-> "471", pipe |-> <<>>, cmd |-> NoCmd, by |-> 0]
<1>3. board' = board \/ \E x \in Boards : board' = [board EXCEPT ![x] = r]
  BY DEF PowerCycle, bus
<1>4. r.stage = "471" /\ r.cmd = NoCmd /\ Len(r.pipe) = 0
  OBVIOUS
<1> HIDE DEF r
<1>5. ASSUME NEW b \in Boards
      PROVE  board'[b].stage # "bad" /\ board'[b].cmd = NoCmd /\ Len(board'[b].pipe) <= DrainReads
  <2>1. board'[b] = board[b] \/ board'[b] = r
    BY <1>3 DEF TypeInv
  <2>2. board[b].stage # "bad" /\ board[b].cmd = NoCmd /\ Len(board[b].pipe) <= DrainReads
    BY <1>1, <1>2 DEF BoardsInv, Early
  <2> QED
    BY <1>4, <2>1, <2>2, UsbAssumption
<1>6. BoardsInv' /\ PlaceInv' /\ StepInv'
  BY <1>1, <1>2, <1>5 DEF BoardsInv, PlaceInv, StepInv, Commanding
<1> QED
  BY <1>1, <1>6 DEF Goes

LEMMA SmoothFind ==
  ASSUME TypeInv, HoldInv, Smooth, Find, ~ trouble'
  PROVE  Goes
<1> USE DEF Smooth
<1>1. /\ pc \in {"wait", "wait_rom", "wait_plug"} /\ board' = board /\ phase' = phase /\ chunk' = chunk
  BY DEF Find, WaitForDevice, cmdVars
<1>2. phase' = "cbw" /\ chunk' = 1 /\ pc \notin Commanding
  BY <1>1 DEF StepInv, PlaceInv, Commanding
<1>3. PICK b \in FindDevices(Path) :
        /\ Wanted = "any" \/ Mode(b) = Wanted
        /\ at' = b /\ first' = (IF first = NoBoard THEN b ELSE first)
        /\ pc' = (IF pc = "wait_plug" THEN "open_plug"
                  ELSE IF Mode(b) = "loader" THEN "open_stale" ELSE "open_rom")
  BY Zenon DEF Find, WaitForDevice
<1>4. CASE pc \in {"wait", "wait_rom"}
  <2>1. pc = "wait_rom" => pc' = "open_rom"
    BY <1>3 DEF Wanted
  <2>2. pc' \in {"open_stale", "open_rom"} /\ (pc' = "open_stale" => pc = "wait")
    BY <1>3, <1>4, <2>1
  <2> QED
    BY <1>1, <1>2, <2>2, SmoothOn DEF Commanding, Early
<1>5. CASE pc = "wait_plug"
  <2>1. first \in Boards /\ first # NoBoard
    BY <1>5, UsbAssumption DEF HoldInv, Bound, Fresh
  <2>2. pc' = "open_plug" /\ first' = first
    BY <1>3, <1>5, <2>1
  <2>3. BoardsInv'
    BY <1>1, <1>2, <2>2 DEF BoardsInv, Early
  <2>4. PlaceInv' /\ StepInv'
    BY <1>1, <1>2, <1>5, <2>2 DEF PlaceInv, StepInv, Commanding
  <2> QED
    BY <2>2, <2>3, <2>4 DEF Goes
<1> QED
  BY <1>1, <1>4, <1>5

\* A wait for the board to come back ends well: the board is there or on its way.
LEMMA SmoothWait ==
  ASSUME TypeInv, HoldInv, Smooth, FindNothing, faults \in Nat
  PROVE  trouble'
<1> USE DEF Smooth
<1> SUFFICES ASSUME ~ trouble' PROVE FALSE
  OBVIOUS
<1>1. trouble' = (trouble \/ Wanted = "any" \/ faults' > faults)
  BY Zenon DEF FindNothing, WaitExpires
<1>2. Wanted # "any" /\ ~ (faults' > faults)
  BY <1>1
<1>3. faults' # faults + 1
  BY <1>2
<1>4. /\ ~ \E b \in FindDevices(Path) : Mode(b) = Wanted
      /\ \A b \in Boards : ~ Coming(b)
  BY <1>3, Zenon DEF FindNothing, WaitExpires
<1>5. pc \in {"wait_rom", "wait_plug"}
  BY <1>2 DEF FindNothing, Wanted
<1>6. first \in Boards /\ Path = first
  BY <1>5 DEF HoldInv, Bound, Fresh, Path
<1>7. board[first].mode \notin {"starting", "resetting", "leaving"}
  BY <1>4, <1>6 DEF Coming
<1>8. CASE pc = "wait_rom"
  <2>1. Mode(first) = "maskrom" /\ Wanted = "maskrom"
    BY <1>7, <1>8 DEF PlaceInv, Mode, Wanted
  <2> QED
    BY <1>4, <1>6, <2>1 DEF FindDevices
<1>9. CASE pc = "wait_plug"
  <2>1. Mode(first) = "loader" /\ Wanted = "loader"
    BY <1>7, <1>9 DEF PlaceInv, Mode, Wanted
  <2> QED
    BY <1>4, <1>6, <2>1 DEF FindDevices
<1> QED
  BY <1>5, <1>8, <1>9

LEMMA SmoothOpen ==
  ASSUME TypeInv, HoldInv, QuietInv, Smooth, OpenStale \/ OpenRom \/ OpenPlug, ~ trouble'
  PROVE  Goes
<1> USE DEF Smooth
<1>1. pc \in {"open_stale", "open_rom", "open_plug"} /\ pc \in Bound /\ pc \notin Commanding
  BY DEF OpenStale, OpenRom, OpenPlug, Bound, Fresh, Commanding
<1>2. at \in Boards /\ at = first
  BY <1>1, BoundBoard
<1>3. UNCHANGED <<sizes, at, first, phase, chunk>> /\ phase' = "cbw" /\ chunk' = 1
  BY <1>1 DEF OpenStale, OpenRom, OpenPlug, Open, args, cmdVars, StepInv, PlaceInv
<1> DEFINE p == board[at].pipe
           q == SubSeq(p, IF Len(p) < DrainReads THEN Len(p) + 1 ELSE DrainReads + 1, Len(p))
<1>4. /\ board' = [board EXCEPT ![at].pipe = q] \/ (board' = board /\ Held = "maskrom")
      /\ pc = "open_stale" => pc' = "reset"
      /\ pc = "open_rom" => pc' = "ddr"
      /\ pc = "open_plug" => pc' \in {"id", "info"}
  <2>1. Held = "loader" \/ Held = "maskrom" \/ Held = "absent"
    BY DEF Held, Mode
  <2>2. ASSUME NEW to, Open(to)
        PROVE  /\ board' = [board EXCEPT ![at].pipe = q] \/ (board' = board /\ Held = "maskrom")
               /\ pc' = to
    <3>1. PICK bulk \in BOOLEAN :
            /\ Held # "absent" /\ (Held = "loader" => bulk) /\ pc' = to
            /\ board' = IF bulk
                        THEN [board EXCEPT ![at].pipe =
                                SubSeq(@, IF Len(@) < DrainReads THEN Len(@) + 1 ELSE DrainReads + 1, Len(@))]
                        ELSE board
      BY <2>2, Zenon DEF Open
    <3> QED
      BY <1>2, <2>1, <3>1 DEF TypeInv
  <2> HIDE DEF q
  <2> QED
    BY <1>1, <2>2 DEF OpenStale, OpenRom, OpenPlug
<1>5. p \in Seq(Packet) /\ Len(p) \in Nat /\ DrainReads \in Nat
  BY <1>2, BoardTypes, UsbAssumption
<1>6. ASSUME Len(p) <= DrainReads
      PROVE  q = <<>>
  <2>1. (IF Len(p) < DrainReads THEN Len(p) + 1 ELSE DrainReads + 1) = Len(p) + 1
    BY <1>5, <1>6
  <2>2. q = SubSeq(p, Len(p) + 1, Len(p))
    BY <2>1
  <2> HIDE DEF p
  <2>3. SubSeq(p, Len(p) + 1, Len(p)) = <<>>
    BY <1>5
  <2> QED
    BY <2>2, <2>3
<1> HIDE DEF p, q
<1>7. Held = "maskrom" => p = <<>>
  BY <1>2 DEF Held, Mode, QuietInv, p
<1>8. pc \in {"open_stale", "open_plug"} => board'[at].pipe = <<>>
  <2>1. Len(<<>>) = 0
    OBVIOUS
  <2>2. pc = "open_stale" => Len(p) <= DrainReads
    BY <1>2 DEF BoardsInv, p
  <2>3. pc = "open_plug" => p = <<>>
    BY <1>2 DEF PlaceInv, p
  <2>4. pc \in {"open_stale", "open_plug"} => q = <<>>
    BY <1>5, <1>6, <2>1, <2>2, <2>3
  <2>5. board' = [board EXCEPT ![at].pipe = q] => board'[at].pipe = q
    BY <1>2 DEF TypeInv, BoardT
  <2> QED
    BY <1>4, <1>7, <2>4, <2>5 DEF p
<1>9. pc' \in {"reset", "ddr", "id", "info"} /\ (pc' # "ddr" => pc \in {"open_stale", "open_plug"})
  BY <1>1, <1>4
<1>10. BoardsInv'
  <2>1. ASSUME NEW b \in Boards
        PROVE  board'[b].stage = board[b].stage /\ board'[b].cmd = board[b].cmd
    <3>1. CASE board' = board
      BY <3>1
    <3>2. CASE board' = [board EXCEPT ![at].pipe = q]
      BY <1>2, <3>2 DEF TypeInv, BoardT
    <3> QED
      BY <1>4, <3>1, <3>2
  <2>2. \A b \in Boards : board[b].stage # "bad" /\ board[b].cmd = NoCmd
    BY <1>1 DEF BoardsInv
  <2> QED
    BY <1>9, <2>1, <2>2 DEF BoardsInv, Early
<1>11. PlaceInv'
  <2>1. Len(Chunks') \in Nat \ {0}
    BY <1>3, ChunksAre, Framing
  <2>2. 1 <= Len(Chunks')
    BY <2>1
  <2> QED
    BY <1>3, <1>9, <2>2 DEF PlaceInv
<1>12. StepInv'
  BY <1>3, <1>8, <1>9 DEF StepInv, Commanding
<1> QED
  BY <1>9, <1>10, <1>11, <1>12 DEF Goes

\* The boot ROM takes a full chunk without a word, and the last one as the end
\* of an image.
LEMMA SmoothUpload ==
  ASSUME TypeInv, HoldInv, QuietInv, Smooth, Upload, ~ trouble'
  PROVE  Goes
<1> USE DEF Smooth
<1>1. pc \in {"ddr", "plug"} /\ pc \in Bound /\ pc \notin Commanding
  BY DEF Upload, Bound, Fresh, Commanding
<1>2. at \in Boards /\ at = first
  BY <1>1, BoundBoard
<1> DEFINE s == BuildMaskromChunks(sizes[1])
           c == s[chunk]
<1>3. Held = "maskrom" /\ RomTakes(at, IF pc = "ddr" THEN "471" ELSE "472", Chunks[chunk])
  BY Zenon DEF Upload
<1>4. /\ UNCHANGED <<sizes, at, live, first, phase>>
      /\ IF chunk < Len(Chunks) THEN chunk' = chunk + 1 /\ pc' = pc
         ELSE chunk' = 1 /\ pc' = IF pc = "ddr" THEN "plug" ELSE "wait_plug"
  BY DEF Upload, args, cmdVars
<1>5. Chunks = s /\ Chunks' = s /\ sizes[1] \in Nat
  BY <1>4, ChunksAre
<1>6. /\ Len(s) \in Nat \ {0}
      /\ \A i \in 1..Len(s) : /\ s[i].crc # 1
                              /\ i < Len(s) => s[i].n = ChunkSize
                              /\ i = Len(s) => s[i].n # ChunkSize
  BY <1>5, Framing
<1>7. chunk \in 1..Len(s)
  BY <1>1, <1>5, <1>6 DEF PlaceInv, TypeInv
<1> HIDE DEF s
<1>8. c.crc # 1 /\ (chunk < Len(s) => c.n = ChunkSize) /\ (~ (chunk < Len(s)) => c.n # ChunkSize)
  BY <1>6, <1>7
<1>9. RomTakes(at, IF pc = "ddr" THEN "471" ELSE "472", c)
  BY <1>3, <1>5
<1> HIDE DEF c
<1>10. /\ live /\ board[at].mode = "maskrom" /\ board[at].pipe = <<>> /\ board[at].stage # "bad"
       /\ board[at] \in BoardT /\ phase = "cbw"
  BY <1>1, <1>2, <1>3, BoardTypes DEF Held, Mode, QuietInv, BoardsInv, StepInv
<1>11. \A b \in Boards : board[b].stage # "bad" /\ board[b].cmd = NoCmd
  BY <1>1 DEF BoardsInv
<1>12. CASE chunk < Len(s)
  <2>1. board' = board
    BY <1>2, <1>8, <1>9, <1>12 DEF RomTakes, TypeInv
  <2>2. chunk' = chunk + 1 /\ pc' = pc /\ chunk + 1 <= Len(s)
    BY <1>4, <1>5, <1>6, <1>7, <1>12
  <2>3. BoardsInv'
    BY <1>1, <1>11, <2>1, <2>2 DEF BoardsInv, Early
  <2>4. PlaceInv'
    BY <1>1, <1>4, <1>5, <2>1, <2>2 DEF PlaceInv
  <2>5. StepInv'
    BY <1>1, <1>4, <1>10, <2>2 DEF StepInv, Commanding
  <2> QED
    BY <1>1, <2>2, <2>3, <2>4, <2>5 DEF Goes
<1>13. CASE ~ (chunk < Len(s)) /\ pc = "ddr"
  <2>1. board' = [board EXCEPT ![at].stage = "472"]
    BY <1>2, <1>8, <1>9, <1>10, <1>13 DEF RomTakes, TypeInv
  <2>2. chunk' = 1 /\ pc' = "plug" /\ 1 <= Len(s)
    BY <1>4, <1>5, <1>6, <1>13
  <2>3. board'[at].stage = "472" /\ \A b \in Boards : board'[b].stage # "bad" /\ board'[b].cmd = NoCmd
    BY <1>2, <1>11, <2>1 DEF TypeInv, BoardT
  <2>4. BoardsInv'
    BY <2>2, <2>3 DEF BoardsInv, Early
  <2>5. PlaceInv'
    BY <1>4, <1>5, <2>2, <2>3 DEF PlaceInv
  <2>6. StepInv'
    BY <1>4, <1>10, <2>2 DEF StepInv, Commanding
  <2> QED
    BY <2>2, <2>4, <2>5, <2>6 DEF Goes
<1>14. CASE ~ (chunk < Len(s)) /\ pc = "plug"
  <2>1. board[at].stage = "472"
    BY <1>10, <1>14 DEF PlaceInv
  <2>2. board' = [board EXCEPT ![at].mode = "starting"]
    BY <1>2, <1>8, <1>9, <1>10, <1>14, <2>1 DEF RomTakes, TypeInv
  <2>3. chunk' = 1 /\ pc' = "wait_plug"
    BY <1>4, <1>5, <1>14
  <2>4. /\ board'[at].mode = "starting" /\ board'[at].pipe = <<>>
        /\ \A b \in Boards : board'[b].stage # "bad" /\ board'[b].cmd = NoCmd
    BY <1>2, <1>10, <1>11, <2>2 DEF TypeInv, BoardT
  <2>5. BoardsInv'
    BY <2>3, <2>4 DEF BoardsInv, Early
  <2>6. PlaceInv'
    BY <1>2, <1>4, <2>3, <2>4 DEF PlaceInv
  <2>7. StepInv'
    BY <1>4, <1>10, <2>3 DEF StepInv, Commanding
  <2> QED
    BY <2>3, <2>5, <2>6, <2>7 DEF Goes
<1> QED
  BY <1>1, <1>12, <1>13, <1>14

---------------------------------------------------------------------------
(* A command that meets no fault.                                          *)

LEMMA SmoothSend ==
  ASSUME TypeInv, FileInv, Smooth, pc \in Commanding, at \in Boards, SendCbw(Op, Packets, lba), ~ trouble'
  PROVE  Goes
<1> USE DEF Smooth
<1>1. /\ phase = "cbw" /\ tag' = tag + 1 /\ phase' = (IF Packets > 0 THEN "data" ELSE "csw")
      /\ board' = [board EXCEPT ![at].cmd = [op |-> Op, tag |-> tag + 1, lba |-> lba, n |-> Packets]]
      /\ UNCHANGED <<pc, extent, at, live, first, chunk, lba>>
  BY Zenon DEF SendCbw, NoTransfer, args
<1>2. Op' = Op /\ Packets' = Packets /\ Asked' = [op |-> Op, tag |-> tag + 1, lba |-> lba, n |-> Packets]
  BY <1>1 DEF Asked, Op, Packets, Transfer, End
<1>3. board' = [board EXCEPT ![at].cmd = Asked']
  BY <1>1, <1>2, Zenon
<1>4. /\ board'[at].cmd = Asked' /\ board'[at].pipe = board[at].pipe
      /\ \A b \in Boards : board'[b].stage = board[b].stage /\ (b # at => board'[b] = board[b])
  BY <1>3 DEF TypeInv, BoardT
<1>5. board[at].pipe = <<>>
  BY <1>1 DEF StepInv
<1>6. pc' \in Commanding /\ phase' # "cbw" /\ pc' \notin Early \cup {"open_stale", "failed"}
  BY <1>1 DEF Commanding, Early
<1>7. BoardsInv'
  BY <1>1, <1>4, <1>6 DEF BoardsInv
<1>8. PlaceInv'
  BY <1>1 DEF PlaceInv, Commanding
<1>9. StepInv'
  <2>1. /\ pc' = "reset" => phase' = "csw"
        /\ pc' # "reset" => phase' = "data"
    BY <1>1, AskedType
  <2> QED
    BY <1>1, <1>4, <1>5, <1>6, <2>1 DEF StepInv
<1> QED
  BY <1>6, <1>7, <1>8, <1>9 DEF Goes

LEMMA SmoothData ==
  ASSUME TypeInv, FileInv, Smooth, pc \in Commanding, at \in Boards, ReadData(Packets), ~ trouble'
  PROVE  Goes
<1> USE DEF Smooth
<1>1. phase = "data" /\ pc # "reset" /\ UNCHANGED <<extent, at, live, first, chunk, tag, lba>>
  BY Zenon DEF ReadData, args, StepInv
<1>2. \/ board[at].cmd = Asked /\ board[at].pipe = <<>>
      \/ board[at].cmd = NoCmd /\ board[at].mode = "loader" /\ board[at].pipe = Answer(Asked)
  BY <1>1 DEF StepInv
<1>3. /\ Asked \in CommandT /\ Asked.n = Packets /\ Asked.op = Op /\ Packets \in Nat \ {0} /\ Asked # NoCmd
  <2>1. Asked \in CommandT /\ Asked.n = Packets /\ Asked.op = Op /\ Packets \in Nat \ {0}
    BY <1>1, AskedType
  <2> QED
    BY <2>1 DEF NoCmd
<1>4. /\ Answer(Asked) # <<>> /\ Taken(Answer(Asked), Packets) = Packets
      /\ SubSeq(Answer(Asked), 1, Packets) = Data(Asked)
      /\ SubSeq(Answer(Asked), Packets + 1, Len(Answer(Asked))) = Csw(Asked, TRUE, Op # "read")
  <2>1. Packets # 0
    BY <1>3
  <2> QED
    BY <1>3, <2>1, AnswerParts, Zenon
<1>5. ~ Silent
  BY <1>2, <1>3, <1>4 DEF Silent
<1>6. /\ board[at].pipe # <<>> /\ phase' = "csw" /\ pc' = pc
      /\ payload' = SubSeq(board[at].pipe, 1, Taken(board[at].pipe, Packets))
      /\ board' = [board EXCEPT ![at].pipe = SubSeq(@, Taken(board[at].pipe, Packets) + 1, Len(@))]
  BY <1>5, Zenon DEF ReadData, NoTransfer
<1>7. board[at].cmd = NoCmd /\ board[at].mode = "loader" /\ board[at].pipe = Answer(Asked)
  BY <1>2, <1>6
<1>8. payload' = Data(Asked)
  BY <1>4, <1>6, <1>7, Zenon
<1> DEFINE r == SubSeq(Answer(Asked), Packets + 1, Len(Answer(Asked)))
<1>9. board' = [board EXCEPT ![at].pipe = r]
  <2>1. board' = [board EXCEPT ![at].pipe = SubSeq(board[at].pipe, Taken(board[at].pipe, Packets) + 1, Len(board[at].pipe))]
    BY <1>6
  <2>2. Taken(board[at].pipe, Packets) = Packets
    BY <1>4, <1>7, Zenon
  <2> QED
    BY <1>7, <2>1, <2>2, Zenon
<1> HIDE DEF r
<1>10. /\ board'[at].pipe = r /\ board'[at].cmd = NoCmd /\ board'[at].mode = "loader"
       /\ \A b \in Boards : board'[b].stage = board[b].stage /\ board'[b].cmd = board[b].cmd
  BY <1>7, <1>9 DEF TypeInv, BoardT
<1>11. board'[at].pipe = Csw(Asked, TRUE, Op # "read")
  BY <1>4, <1>10, Zenon DEF r
<1>12. pc' \in Commanding \ {"reset"} /\ pc' \notin Early \cup {"open_stale", "failed"}
  BY <1>1, <1>6 DEF Commanding, Early
<1>13. BoardsInv'
  BY <1>1, <1>6, <1>10, <1>12 DEF BoardsInv
<1>14. PlaceInv'
  BY <1>1, <1>6 DEF PlaceInv, Commanding
<1>15. StepInv'
  <2>1. Asked' = Asked /\ Op' = Op
    BY <1>1, <1>6, AskedKept
  <2>2. at' = at /\ phase' = "csw"
    BY <1>1, <1>6
  <2>3. board'[at'].cmd = NoCmd /\ board'[at'].mode = "loader"
    BY <1>10, <2>2
  <2>4. payload' = Data(Asked') /\ board'[at'].pipe = Csw(Asked', TRUE, Op' # "read")
    BY <1>8, <1>11, <2>1, <2>2, Zenon
  <2>5. "csw" # "cbw" /\ "csw" # "data" /\ pc' # "reset"
    BY <1>12
  <2> QED
    BY <1>12, <2>2, <2>3, <2>4, <2>5, Zenon DEF StepInv
<1> QED
  BY <1>12, <1>13, <1>14, <1>15 DEF Goes

\* The status wrapper of a clean answer is accepted.
LEMMA CleanStatus ==
  ASSUME TypeInv, FileInv, pc \in Commanding, NEW w,
         NEW res, res => Op # "read", w = Csw(Asked, TRUE, res)[1],
         pc # "reset" => payload = Data(Asked)
  PROVE  w.k = "csw" /\ StatusOK(Op, Packets, w)
<1>1. w.k = "csw" /\ w.tag = tag /\ w.ok = TRUE /\ w.res = res
  BY DEF Csw, Asked
<1>2. ASSUME Packets > 0
      PROVE  LengthOK(Op, payload, Packets)
  <2>1. pc # "reset" /\ Asked \in CommandT /\ Asked.n = Packets /\ Packets \in Nat \ {0}
    BY <1>2, AskedType
  <2>2. payload \in Seq(Packet) /\ Len(payload) = Packets
    BY <2>1, DataType
  <2>3. \A i \in 1..Packets : payload[i].k = "data"
    BY <2>1 DEF Data
  <2>4. payload # <<>> /\ payload[1].k = "data" /\ DOMAIN payload = 1..Packets
    BY <2>1, <2>2, <2>3
  <2> QED
    BY <2>2, <2>3, <2>4 DEF LengthOK
<1> QED
  BY <1>1, <1>2 DEF StatusOK

LEMMA SmoothCsw ==
  ASSUME TypeInv, HoldInv, FileInv, Smooth, pc \in Commanding, at \in Boards, ReadCsw, ~ trouble'
  PROVE  Goes
<1> USE DEF Smooth
<1>1. /\ phase = "csw" /\ UNCHANGED <<at, first, chunk>> /\ chunk = 1 /\ at = first
  <2>1. phase = "csw" /\ UNCHANGED <<at, first, chunk>>
    BY Zenon DEF ReadCsw
  <2>2. chunk = 1
    BY DEF PlaceInv, Commanding
  <2>3. pc \in Bound
    BY DEF Commanding, Bound, Fresh
  <2> QED
    BY <2>1, <2>2, <2>3, BoundBoard
\* Where a command has ended: nothing queued, nothing asked.
<1>2. ASSUME phase' = "cbw", pc' \in {"close", "dump", "replace", "wait_rom"},
             board'[at].pipe = <<>>, \A b \in Boards : board'[b].stage = board[b].stage /\ board'[b].cmd = NoCmd,
             pc' = "wait_rom" => board'[at].mode \in {"leaving", "resetting", "maskrom"}
      PROVE  Goes
  <2>1. BoardsInv'
    BY <1>2 DEF BoardsInv, Early
  <2>2. PlaceInv'
    BY <1>1, <1>2 DEF PlaceInv
  <2>3. StepInv'
    BY <1>1, <1>2 DEF StepInv, Commanding
  <2> QED
    BY <1>2, <2>1, <2>2, <2>3 DEF Goes
<1>3. ASSUME board[at].cmd = NoCmd
      PROVE  \A b \in Boards : board[b].cmd = NoCmd
  BY <1>3 DEF BoardsInv
<1> DEFINE w == Head(board[at].pipe)
<1>4. ASSUME NEW res, res => Op # "read", board[at].pipe = Csw(Asked, TRUE, res), board[at].cmd = NoCmd,
             pc # "reset" => payload = Data(Asked),
             pc = "reset" => board[at].mode = "leaving"
      PROVE  Goes
  <2>1. /\ board[at].pipe # <<>> /\ w = Csw(Asked, TRUE, res)[1] /\ Tail(board[at].pipe) = <<>>
    BY <1>4 DEF Csw
  <2> HIDE DEF w
  <2>2. w.k = "csw" /\ StatusOK(Op, Packets, w)
    BY <1>4, <2>1, CleanStatus
  <2>3. ~ Silent
    BY <2>1 DEF Silent
  <2>4. /\ board' = [board EXCEPT ![at].pipe = Tail(@)] /\ CommandDone
    BY <2>2, <2>3, Zenon DEF ReadCsw, NoTransfer, w
  <2>5. /\ board'[at].pipe = <<>> /\ board'[at].mode = board[at].mode
        /\ \A b \in Boards : board'[b].stage = board[b].stage /\ board'[b].cmd = board[b].cmd
    BY <2>1, <2>4 DEF TypeInv, BoardT
  <2>6. phase' = "cbw" /\ pc' \in {"close", "dump", "replace", "wait_rom"} /\ (pc' = "wait_rom" => pc = "reset")
    <3>1. CASE AfterReset \/ AfterId
      BY <2>4, <3>1 DEF CommandDone, AfterReset, AfterId
    <3>2. CASE AfterInfo
      BY <2>4, <3>2 DEF CommandDone, AfterInfo
    <3>3. CASE AfterRead
      <4>1. pc' = (IF lba + Packets = End THEN "replace" ELSE "dump")
        BY <3>3, Zenon DEF AfterRead
      <4> QED
        BY <2>4, <4>1 DEF CommandDone
    <3> QED
      BY <2>4, <3>1, <3>2, <3>3 DEF CommandDone
  <2> QED
    BY <1>2, <1>3, <1>4, <2>5, <2>6
<1>5. CASE pc # "reset"
  <2>1. /\ board[at].cmd = NoCmd /\ payload = Data(Asked) /\ board[at].pipe = Csw(Asked, TRUE, Op # "read")
    BY <1>1, <1>5, Zenon DEF StepInv
  <2> DEFINE res == Op # "read"
  <2>2. (res => Op # "read") /\ board[at].pipe = Csw(Asked, TRUE, res)
    BY <2>1, Zenon
  <2> HIDE DEF res
  <2> QED
    BY <1>4, <1>5, <2>1, <2>2
<1>6. CASE pc = "reset"
  <2>1. Op = "reset"
    BY <1>6 DEF Op
  <2>2. \/ board[at].cmd = Asked /\ board[at].pipe = <<>>
        \/ /\ board[at].cmd = NoCmd /\ board[at].mode \in {"leaving", "resetting", "maskrom"}
           /\ board[at].pipe \in {<<>>, Csw(Asked, TRUE, TRUE)}
           /\ board[at].pipe # <<>> => board[at].mode = "leaving"
    BY <1>1, <1>6 DEF StepInv
  <2>3. CASE board[at].pipe # <<>>
    <3>1. /\ board[at].cmd = NoCmd /\ board[at].pipe = Csw(Asked, TRUE, TRUE) /\ board[at].mode = "leaving"
      BY <2>2, <2>3, Zenon
    <3>2. TRUE => Op # "read"
      BY <2>1
    <3> QED
      BY <1>4, <1>6, <3>1, <3>2
  <2>4. CASE board[at].pipe = <<>>
    <3>1. Silent /\ board' = board /\ pc' = "wait_rom" /\ phase' = "cbw"
      BY <2>1, <2>4, Zenon DEF ReadCsw, NoTransfer
    <3>2. board[at].cmd = NoCmd
      BY <3>1 DEF Silent
    <3>3. Asked # NoCmd
      BY <2>1 DEF Asked, NoCmd
    <3>4. board[at].mode \in {"leaving", "resetting", "maskrom"}
      BY <2>2, <3>2, <3>3
    <3> QED
      BY <1>2, <1>3, <2>4, <3>1, <3>2, <3>4
  <2> QED
    BY <2>3, <2>4
<1> QED
  BY <1>5, <1>6

---------------------------------------------------------------------------
(* The boards of a clean invocation.                                       *)

LEMMA SmoothAppear ==
  ASSUME TypeInv, HoldInv, QuietInv, Smooth, pc \in Early \cup Bound, NEW x \in Boards, Appear(x)
  PROVE  Goes
<1> USE DEF Smooth
<1>1. UNCHANGED <<sizes, pc, at, first, phase, tag, lba, extent, payload, chunk>> /\ live' = (live /\ x # at)
  BY DEF Appear, args, cmdVars
<1>2. /\ \A b \in Boards : b # x => board'[b] = board[b]
      /\ board'[x].cmd = board[x].cmd /\ board'[x].pipe = board[x].pipe
      /\ board'[x].stage \in {board[x].stage, "471"}
      /\ \/ board[x].mode = "starting" /\ board'[x].mode = "loader"
         \/ board[x].mode \in {"resetting", "gone"} /\ board'[x].mode = "maskrom"
  <2>1. board[x] \in BoardT
    BY BoardTypes
  <2>2. CASE board[x].mode = "starting" /\ board' = [board EXCEPT ![x].mode = "loader", ![x].by = session]
    BY <2>1, <2>2 DEF TypeInv, BoardT
  <2>3. CASE /\ board[x].mode = "resetting"
             /\ board' = [board EXCEPT ![x].mode = "maskrom", ![x].stage = "471", ![x].by = 0]
    BY <2>1, <2>3 DEF TypeInv, BoardT
  <2>4. CASE board[x].mode = "gone" /\ board' = [board EXCEPT ![x].mode = "maskrom", ![x].stage = "471"]
    BY <2>1, <2>4 DEF TypeInv, BoardT
  <2> QED
    BY <2>2, <2>3, <2>4, Zenon DEF Appear
<1>3. pc \in Bound => at \in Boards /\ at = first
  BY BoundBoard
<1>4. BoardsInv'
  BY <1>1, <1>2 DEF BoardsInv
<1>5. PlaceInv'
  <2>1. Chunks' = Chunks
    BY <1>1, ChunksAre
  <2>2. pc \in {"plug", "wait_rom", "wait_plug", "open_plug"} => at \in Boards /\ at = first
    BY <1>3 DEF Bound, Fresh
  <2>3. pc = "plug" /\ live' => board'[at].stage = "472"
    BY <1>1, <1>2, <2>2 DEF PlaceInv
  <2>4. pc = "wait_rom" => board'[first].mode \in {"leaving", "resetting", "maskrom"}
    BY <1>2, <2>2 DEF PlaceInv
  <2>5. pc = "wait_plug" => board'[first].mode \in {"starting", "loader"}
    BY <1>2, <2>2 DEF PlaceInv
  <2>6. pc \in {"wait_plug", "open_plug"} => board'[first].pipe = <<>>
    BY <1>2, <2>2 DEF PlaceInv
  <2> QED
    BY <1>1, <2>1, <2>3, <2>4, <2>5, <2>6 DEF PlaceInv
<1>6. StepInv'
  <2>1. CASE pc \notin Commanding
    BY <1>1, <2>1 DEF StepInv, Commanding
  <2>2. CASE pc \in Commanding
    <3>1. at \in Boards
      BY <1>3, <2>2 DEF Commanding, Bound, Fresh
    <3>2. Asked' = Asked /\ Op' = Op
      BY <1>1, AskedKept
    <3>3. board'[at].cmd = board[at].cmd /\ board'[at].pipe = board[at].pipe
      BY <1>2, <3>1
    <3>4. /\ board[at].mode = "loader" => board'[at].mode = "loader"
          /\ board[at].mode = "leaving" => board'[at].mode = "leaving"
          /\ board[at].mode \in {"resetting", "maskrom"} => board'[at].mode \in {"resetting", "maskrom"}
      BY <1>2, <3>1
    <3>5. CASE pc = "reset"
      <4>1. phase # "cbw" => phase = "csw"
        BY <3>5 DEF StepInv
      <4>2. (phase = "cbw" => board[at].pipe = <<>>)
        BY <2>2 DEF StepInv
      <4>3. phase # "cbw" =>
              \/ board[at].cmd = Asked /\ board[at].pipe = <<>>
              \/ /\ board[at].cmd = NoCmd /\ board'[at].mode \in {"leaving", "resetting", "maskrom"}
                 /\ board[at].pipe \in {<<>>, Csw(Asked, TRUE, TRUE)}
                 /\ board[at].pipe # <<>> => board'[at].mode = "leaving"
        BY <3>4, <3>5 DEF StepInv
      <4> QED
        BY <1>1, <2>2, <3>2, <3>3, <3>5, <4>1, <4>2, <4>3 DEF StepInv
    <3>6. CASE pc # "reset"
      BY <1>1, <2>2, <3>2, <3>3, <3>4, <3>6, Zenon DEF StepInv
    <3> QED
      BY <3>5, <3>6
  <2> QED
    BY <2>1, <2>2
<1>7. pc' # "failed"
  BY <1>1 DEF Early, Bound, Fresh
<1> QED
  BY <1>4, <1>5, <1>6, <1>7 DEF Goes

LEMMA SmoothLeaves ==
  ASSUME TypeInv, HoldInv, QuietInv, Smooth, pc \in Early \cup Bound, NEW x \in Boards, Leaves(x)
  PROVE  Goes
<1> USE DEF Smooth
<1>1. UNCHANGED <<sizes, pc, at, first, phase, tag, lba, extent, payload, chunk>> /\ live' = (live /\ x # at)
  BY DEF Leaves, args, cmdVars
<1>2. /\ \A b \in Boards : b # x => board'[b] = board[b]
      /\ board'[x].cmd = board[x].cmd /\ board'[x].pipe = <<>> /\ board'[x].stage = board[x].stage
      /\ board[x].mode = "leaving" /\ board'[x].mode = "resetting"
  BY BoardTypes DEF Leaves, TypeInv, BoardT
<1>3. pc \in Bound => at \in Boards /\ at = first
  BY BoundBoard
<1>4. BoardsInv'
  <2>1. Len(board'[x].pipe) <= DrainReads
    BY <1>2, UsbAssumption
  <2> QED
    BY <1>1, <1>2, <2>1 DEF BoardsInv
<1>5. PlaceInv'
  <2>1. Chunks' = Chunks
    BY <1>1, ChunksAre
  <2>2. pc \in {"plug", "wait_rom", "wait_plug", "open_plug"} => at \in Boards /\ at = first
    BY <1>3 DEF Bound, Fresh
  <2>3. pc = "plug" /\ live' => board'[at].stage = "472"
    BY <1>1, <1>2, <2>2 DEF PlaceInv
  <2>4. pc = "wait_rom" => board'[first].mode \in {"leaving", "resetting", "maskrom"}
    BY <1>2, <2>2 DEF PlaceInv
  <2>5. pc = "wait_plug" => board'[first].mode \in {"starting", "loader"}
    BY <1>2, <2>2 DEF PlaceInv
  <2>6. pc \in {"wait_plug", "open_plug"} => board'[first].pipe = <<>>
    BY <1>2, <2>2 DEF PlaceInv
  <2> QED
    BY <1>1, <2>1, <2>3, <2>4, <2>5, <2>6 DEF PlaceInv
<1>6. StepInv'
  <2>1. CASE pc \notin Commanding
    BY <1>1, <2>1 DEF StepInv, Commanding
  <2>2. CASE pc \in Commanding
    <3>1. at \in Boards
      BY <1>3, <2>2 DEF Commanding, Bound, Fresh
    <3>2. Asked' = Asked /\ Op' = Op
      BY <1>1, AskedKept
    <3>3. CASE x # at
      <4>1. board'[at] = board[at]
        BY <1>2, <3>1, <3>3
      <4> QED
        BY <1>1, <2>2, <3>2, <4>1, Zenon DEF StepInv
    <3>4. CASE x = at
      <4>1. board'[at].cmd = board[at].cmd /\ board'[at].pipe = <<>> /\ board'[at].mode = "resetting"
        BY <1>2, <3>4
      <4>2. board[at].mode # "loader"
        BY <1>2, <3>4
      <4>3. CASE pc = "reset"
        <5>1. phase # "cbw" => phase = "csw" /\ board[at].cmd \in {Asked, NoCmd}
          BY <4>3 DEF StepInv
        <5> QED
          BY <1>1, <2>2, <3>2, <4>1, <4>3, <5>1 DEF StepInv
      <4>4. CASE pc # "reset"
        <5>1. phase = "data" => board[at].cmd = Asked
          BY <2>2, <4>2, <4>4, Zenon DEF StepInv
        <5>2. phase # "csw"
          BY <2>2, <4>2, <4>4, Zenon DEF StepInv
        <5> QED
          BY <1>1, <2>2, <3>2, <4>1, <4>4, <5>1, <5>2, Zenon DEF StepInv
      <4> QED
        BY <4>3, <4>4
    <3> QED
      BY <3>3, <3>4
  <2> QED
    BY <2>1, <2>2
<1>7. pc' # "failed"
  BY <1>1 DEF Early, Bound, Fresh
<1> QED
  BY <1>4, <1>5, <1>6, <1>7 DEF Goes

LEMMA SmoothRuns ==
  ASSUME TypeInv, FileInv, Smooth, pc \in Early \cup Bound, NEW x \in Boards, UsbplugRuns(x), ~ trouble'
  PROVE  Goes
<1> USE DEF Smooth
<1>1. UNCHANGED <<pc, at, first, phase, tag, lba, extent, payload, chunk>>
  BY Zenon DEF UsbplugRuns, args, cmdVars
<1>2. x = at /\ pc \in Commanding /\ phase # "cbw" /\ board[at].cmd # NoCmd /\ board[at].mode = "loader"
  BY RunsClean DEF BoardsInv
<1>3. board[at].cmd = Asked /\ (pc # "reset" => phase # "csw")
  <2>1. CASE pc = "reset"
    BY <1>2, <2>1 DEF StepInv
  <2>2. CASE pc # "reset"
    <3>1. phase \in {"data", "csw"}
      BY <1>2 DEF TypeInv
    <3> QED
      BY <1>2, <2>2, <3>1, Zenon DEF StepInv
  <2> QED
    BY <2>1, <2>2
<1>4. /\ \A b \in Boards : b # at => board'[b] = board[b]
      /\ board'[at].cmd = NoCmd /\ board'[at].stage = board[at].stage
      /\ \/ Asked.op = "reset" /\ board'[at].mode = "resetting" /\ board'[at].pipe = <<>>
         \/ /\ board'[at].pipe = Answer(Asked)
            /\ board'[at].mode = IF Asked.op = "reset" THEN "leaving" ELSE "loader"
  BY <1>2, <1>3, RunsClean
<1>5. Asked' = Asked /\ Op' = Op
  BY <1>1, AskedKept
<1>6. /\ Asked \in CommandT /\ Asked.op = Op
      /\ pc = "reset" => Asked.n = 0 /\ Op = "reset"
      /\ pc # "reset" => Op # "reset"
  BY <1>2, AskedType
<1>7. BoardsInv'
  BY <1>1, <1>2, <1>4 DEF BoardsInv, Commanding, Early
<1>8. PlaceInv'
  BY <1>1, <1>2 DEF PlaceInv, Commanding
<1>9. StepInv'
  <2>1. CASE pc = "reset"
    <3>1. Answer(Asked) = Csw(Asked, TRUE, Asked.op # "read")
      BY <1>6, <2>1, AnswerParts
    <3>2. (Asked.op # "read") = TRUE
      BY <1>6, <2>1
    <3>3. Answer(Asked) = Csw(Asked, TRUE, TRUE)
      BY <3>1, <3>2, Zenon
    <3>4. /\ board'[at].mode \in {"leaving", "resetting"} /\ board'[at].pipe \in {<<>>, Csw(Asked, TRUE, TRUE)}
          /\ board'[at].pipe # <<>> => board'[at].mode = "leaving"
      BY <1>4, <1>6, <2>1, <3>3
    <3>5. phase = "csw"
      BY <1>2, <2>1 DEF StepInv
    <3> QED
      BY <1>1, <1>2, <1>4, <1>5, <2>1, <3>4, <3>5 DEF StepInv
  <2>2. CASE pc # "reset"
    <3>1. phase = "data"
      BY <1>2, <1>3, <2>2 DEF TypeInv
    <3>2. board'[at].pipe = Answer(Asked) /\ board'[at].mode = "loader"
      BY <1>4, <1>6, <2>2
    <3>3. "data" # "cbw" /\ "data" # "csw"
      OBVIOUS
    <3> QED
      BY <1>1, <1>2, <1>4, <1>5, <2>2, <3>1, <3>2, <3>3, Zenon DEF StepInv
  <2> QED
    BY <2>1, <2>2
<1>10. pc' # "failed"
  BY <1>1, <1>2 DEF Commanding
<1> QED
  BY <1>7, <1>8, <1>9, <1>10 DEF Goes

---------------------------------------------------------------------------

\* Trouble stays until the next invocation starts, and faults are counted.
LEMMA TroubleStays ==
  ASSUME [Next]_vars
  PROVE  /\ Start \/ (trouble => trouble')
         /\ (faults' = faults \/ faults' = faults + 1)
<1>1. CASE Start
  BY <1>1, Zenon DEF Start
<1>2. CASE Resolve \/ PowerCycle \/ Replace \/ Finish \/ Exit \/ Kill
  BY <1>2 DEF Resolve, PowerCycle, Replace, Finish, Exit, Kill, ghost
<1>3. CASE Find
  BY <1>3 DEF Find, WaitForDevice
<1>4. CASE FindNothing
  <2>1. faults' = faults \/ faults' = faults + 1
    BY <1>4, Zenon DEF FindNothing, WaitExpires
  <2>2. trouble' = (trouble \/ Wanted = "any" \/ faults' > faults)
    BY <1>4, Zenon DEF FindNothing, WaitExpires
  <2> QED
    BY <2>1, <2>2, Zenon
<1>5. ASSUME NEW to, Open(to)
      PROVE  (trouble => trouble') /\ (faults' = faults \/ faults' = faults + 1)
  <2>1. \/ faults' = faults /\ trouble' = trouble
        \/ trouble' = TRUE /\ faults' = (IF Held = "absent" THEN faults ELSE faults + 1)
    BY <1>5, Zenon DEF Open
  <2> QED
    BY <2>1
<1>6. CASE Upload
  <2>1. \/ faults' = faults /\ trouble' = trouble
        \/ trouble' = TRUE /\ faults' = (IF Held = "maskrom" THEN faults + 1 ELSE faults)
    BY <1>6, Zenon DEF Upload
  <2> QED
    BY <2>1
<1>7. CASE Command
  <2>1. CASE SendCbw(Op, Packets, lba) \/ ReadData(Packets)
    BY <2>1 DEF SendCbw, ReadData, NoTransfer
  <2>2. CASE ReadCsw
    <3>1. (faults' = faults /\ trouble' = trouble) \/ NoTransfer \/ AfterInfo \/ AfterRead
      BY <2>2, Zenon DEF ReadCsw, CommandDone, AfterReset, AfterId
    <3>2. CASE NoTransfer \/ AfterRead
      BY <3>2 DEF NoTransfer, AfterRead
    <3>3. CASE AfterInfo
      <4>1. \/ faults' = faults /\ trouble' = trouble
            \/ trouble' = TRUE /\ faults' = (IF End > Sectors THEN faults ELSE faults + 1)
        BY <3>3, Zenon DEF AfterInfo
      <4> QED
        BY <4>1
    <3> QED
      BY <3>1, <3>2, <3>3
  <2> QED
    BY <1>7, <2>1, <2>2 DEF Command
<1>8. CASE BoardStep
  <2>1. PICK x \in Boards : Appear(x) \/ UsbplugRuns(x) \/ Leaves(x) \/ Vanish(x)
    BY <1>8 DEF BoardStep
  <2>2. CASE Appear(x) \/ Leaves(x) \/ Vanish(x)
    BY <2>2 DEF Appear, Leaves, Vanish, ghost
  <2>3. CASE UsbplugRuns(x)
    <3>1. UNCHANGED <<faults, trouble>> \/ (faults' = faults + 1 /\ trouble' = TRUE)
      BY <2>3, Zenon DEF UsbplugRuns
    <3> QED
      BY <3>1
  <2> QED
    BY <2>1, <2>2, <2>3
<1>9. CASE UNCHANGED vars
  BY <1>9 DEF vars, ghost
<1> QED
  BY <1>1, <1>2, <1>3, <1>4, <1>5, <1>6, <1>7, <1>8, <1>9
     DEF Next, HostStep, OpenStale, OpenRom, OpenPlug, Ended

LEMMA SmoothStep ==
  ASSUME IInv, SmoothInv, [Next]_vars, ~ trouble'
  PROVE  Goes
<1> USE DEF IInv
<1>1. CASE Start
  BY <1>1, SmoothStart
<1>2. CASE ~ Start /\ pc \in {"idle", "ok", "failed"}
  <2>1. pc # "failed" /\ pc' \in {"idle", "ok"}
    <3>1. pc # "failed"
      BY <1>2, TroubleStays DEF SmoothInv, CleanSucceeds
    <3>2. CASE Exit \/ Ended \/ UNCHANGED vars
      BY <1>2, <3>1, <3>2 DEF Exit, Ended, vars
    <3>3. CASE BoardStep
      BY <1>2, <3>1, <3>3, BoardStepEffect DEF BoardStep
    <3>4. ~ (Resolve \/ PowerCycle \/ Find \/ FindNothing \/ OpenStale \/ OpenRom \/ OpenPlug
              \/ Upload \/ Command \/ Replace \/ Finish \/ Kill)
      BY <1>2 DEF Resolve, PowerCycle, Find, FindNothing, OpenStale, OpenRom, OpenPlug, Upload, Command,
                  Replace, Finish, Kill
    <3> QED
      BY <1>2, <3>2, <3>3, <3>4 DEF Next, HostStep
  <2> QED
    BY <2>1 DEF Goes, Early, Bound, Fresh
<1>3. CASE ~ Start /\ pc \in Early \cup Bound
  <2>1. Smooth /\ QuietInv /\ faults \in Nat
    BY <1>3, TroubleStays DEF SmoothInv, Smooth
  <2>2. pc \in Commanding => at \in Boards
    BY BoundBoard DEF Commanding, Bound, Fresh
  <2>3. pc \notin Commanding \cup {"ddr", "plug"} => phase = "cbw" /\ chunk = 1
    BY <2>1 DEF Smooth, StepInv, PlaceInv
  <2>4. CASE Resolve
    <3>1. /\ pc = "resolve" /\ pc' = "power" /\ UNCHANGED <<board, phase, chunk>>
      BY <2>4 DEF Resolve, cmdVars
    <3> QED
      BY <2>1, <2>3, <3>1, SmoothOn DEF Smooth, Commanding, Early
  <2>5. CASE PowerCycle
    BY <2>1, <2>5, SmoothPower
  <2>6. CASE Find
    BY <2>1, <2>6, SmoothFind
  <2>7. CASE FindNothing
    BY <2>1, <2>7, SmoothWait
  <2>8. CASE OpenStale \/ OpenRom \/ OpenPlug
    BY <2>1, <2>8, SmoothOpen
  <2>9. CASE Upload
    BY <2>1, <2>9, SmoothUpload
  <2>10. CASE Command
    <3>1. pc \in Commanding
      BY <2>10 DEF Command, Commanding
    <3> QED
      BY <2>1, <2>2, <2>10, <3>1, SmoothSend, SmoothData, SmoothCsw DEF Command
  <2>11. CASE Replace
    <3>1. /\ pc = "replace" /\ pc' = "close" /\ UNCHANGED <<board, phase, chunk>>
      BY <2>11 DEF Replace, cmdVars
    <3> QED
      BY <2>1, <2>3, <3>1, SmoothOn DEF Smooth, Commanding, Early
  <2>12. CASE Finish \/ Exit
    BY <2>12 DEF Finish, Exit, Goes, Early, Bound, Fresh
  <2>13. CASE Kill
    BY <2>13 DEF Kill
  <2>14. ASSUME NEW x \in Boards, Appear(x) \/ UsbplugRuns(x) \/ Leaves(x) \/ Vanish(x)
         PROVE  Goes
    <3>1. ~ Vanish(x)
      BY DEF Vanish
    <3> QED
      BY <1>3, <2>1, <2>14, <3>1, SmoothAppear, SmoothLeaves, SmoothRuns
  <2>15. CASE UNCHANGED vars
    <3>1. UNCHANGED <<board, sizes, pc, at, first, live, phase, tag, lba, extent, payload, chunk>>
      BY <2>15 DEF vars, bus, args, cmdVars
    <3>2. Chunks' = Chunks /\ Asked' = Asked /\ Op' = Op
      BY <2>1, <3>1, ChunksAre, AskedKept
    <3>3. BoardsInv'
      BY <2>1, <3>1 DEF Smooth, BoardsInv
    <3>4. PlaceInv'
      BY <2>1, <3>1, <3>2 DEF Smooth, PlaceInv
    <3>5. StepInv'
      BY <2>1, <3>1, <3>2, Zenon DEF Smooth, StepInv
    <3> QED
      BY <1>3, <3>1, <3>3, <3>4, <3>5 DEF Goes, Smooth, Early, Bound, Fresh
  <2> QED
    BY <1>3, <2>4, <2>5, <2>6, <2>7, <2>8, <2>9, <2>10, <2>11, <2>12, <2>13, <2>14, <2>15
       DEF Next, HostStep, Ended, BoardStep
<1> QED
  BY <1>1, <1>2, <1>3 DEF TypeInv

\* An invocation that meets no fault succeeds, whatever the sizes of the images
\* (build_maskrom_chunks) and whatever up to DrainReads packets an earlier one
\* left unread in the usbplug it found (_drain_stale_input).
THEOREM CleanSucceedsHolds == Spec => []CleanSucceeds
<1>1. Init => SmoothInv
  <2>1. ASSUME Init
        PROVE  SmoothInv
    <3>1. pc = "idle" /\ faults = 0 /\ sizes \in {<<n, n>> : n \in BlobSizes}
      BY <2>1, Zenon DEF Init
    <3>2. ASSUME NEW b \in Boards
          PROVE  board[b].mode \notin {"loader", "leaving"} => board[b].pipe = <<>>
      <4>1. board[b] \in {[mode |-> m, stage |-> "471", pipe |-> <<>>, cmd |-> NoCmd, by |-> 0] :
                              m \in {"gone", "maskrom"}}
                       \cup {[mode |-> "loader", stage |-> "471", cmd |-> NoCmd, by |-> 0,
                              pipe |-> [i \in 1..k |-> [k |-> IF i = k THEN "csw" ELSE "data",
                                                        tag |-> 0, lba |-> 0, ok |-> TRUE, res |-> FALSE]]] :
                              k \in Leftovers}
        BY <2>1 DEF Init
      <4> QED
        BY <4>1
    <3>3. pc \notin Early \cup Bound /\ CleanSucceeds /\ faults \in Nat
      BY <3>1 DEF Early, Bound, Fresh, CleanSucceeds
    <3> QED
      BY <3>1, <3>2, <3>3, Zenon DEF SmoothInv, QuietInv
  <2> QED
    BY <2>1
<1>2. IInv /\ SmoothInv /\ [Next]_vars => SmoothInv'
  <2>1. ASSUME IInv, SmoothInv, [Next]_vars
        PROVE  SmoothInv'
    <3>1. QuietInv'
      BY <2>1, QuietStep DEF SmoothInv
    <3>2. faults' \in Nat
      BY <2>1, TroubleStays DEF SmoothInv
    <3>3. ~ trouble' => Goes
      BY <2>1, SmoothStep
    <3> QED
      BY <3>1, <3>2, <3>3, Zenon DEF SmoothInv, CleanSucceeds, Goes, Smooth
  <2> QED
    BY <2>1
<1>3. SmoothInv => CleanSucceeds
  BY DEF SmoothInv
<1> QED
  BY <1>1, <1>2, <1>3, Invariance, PTL DEF Spec
=============================================================================
