-------------------------- MODULE FlashDumpProofs --------------------------
(***************************************************************************)
(* Proofs about dumping a flash through the U-Boot console: types, and     *)
(* that the file is a prefix of the flash under the faults the retries,    *)
(* the CRC and the resumption are there for.                               *)
(***************************************************************************)
EXTENDS FlashDump, WellFoundedInduction, TLAPS

Values == 0..Damaged
ItemKinds == {"md", "crc", "ok", "unknown", "error", "prompt", "noise", "ragged"}
PCs == {"off", "start", "size", "probe", "read", "sanity", "detect", "md", "nudge", "crc", "write",
        "done", "cancelled", "failed"}
Asks == {"size", "probe", "read", "sanity", "detect", "md", "nudge", "crc"}
Ends == {"done", "cancelled", "failed"}
Places == {"md", "nudge", "crc", "write"}

\* What the console prints, line by line: a line of md.b has an address of the
\* flash and one value.
Records == [k : ItemKinds, addr : 0..Size, val : Seq(Values)]
Items == {r \in Records : r.k = "md" => (r.addr \in 1..Size /\ Len(r.val) = 1)}

\* A command asks for lines of the flash only.
Fields == [by : Runs, op : Asks, addr : 1..Size, n : 1..Size]
Commands == {c \in Fields : c.addr + c.n - 1 <= Size}

\* What parse_md_output makes of the answer o.
MdLines(o) == {i \in DOMAIN o : o[i].k = "md"}
Addrs(o) == {o[i].addr : i \in MdLines(o)}
LineAt(o, a) == {i \in MdLines(o) : o[i].addr = a}
MinOf(S) == CHOOSE a \in S : \A b \in S : a <= b
MaxOf(S) == CHOOSE a \in S : \A b \in S : a >= b
ValueAt(o, a) == IF LineAt(o, a) = {} THEN Zero ELSE o[MaxOf(LineAt(o, a))].val[1]
Parse(o) ==
  IF Addrs(o) = {} THEN <<>>
  ELSE [i \in 1..(MaxOf(Addrs(o)) - MinOf(Addrs(o)) + 1) |-> ValueAt(o, MinOf(Addrs(o)) + i - 1)]

TypeInv ==
  /\ ui \in {"cli", "tui"} /\ hasCrc \in BOOLEAN /\ flag \in BOOLEAN
  /\ pc \in [Runs -> PCs] /\ sent \in [Runs -> BOOLEAN]
  /\ off \in [Runs -> Nat] /\ att \in [Runs -> 0..MaxRetries]
  /\ crc \in [Runs -> BOOLEAN] /\ chunk \in [Runs -> Seq(Values)]
  /\ file \in [Runs -> Seq(Values)]
  /\ inbox \in Seq(Commands) /\ out \in Seq(Items)
  /\ ram \in BOOLEAN /\ hung \in BOOLEAN /\ faults \in 0..MaxFaults

\* Dumps that do not overlap come one after another, as those of the CLI do.
Serial == ui = "cli" \/ "overlap" \notin kinds
OrderInv == Serial => \A v, w \in Runs : (v < w /\ pc[w] # "off") => pc[v] \in Ends

\* A dump that reads blocks is inside the flash and not past its file's end.
PlaceOne(w) ==
  /\ pc[w] \in Places => (off[w] < Size /\ off[w] <= Len(file[FileOf(w)]))
  /\ sent[w] => pc[w] \in Asks
PlaceInv == \A w \in Runs : PlaceOne(w)

\* The faults FileIsFlash allows.
Allowed == {"tail", "kill", "error"} \cup IF hasCrc THEN {"damage", "gap"} ELSE {}
Clean == kinds \subseteq Allowed /\ faults <= MaxRetries

\* A piece of the flash behind the offset of a dump; and the next block.
Segment(w, g) == Len(g) <= Remaining(w) /\ \A i \in 1..Len(g) : g[i] = off[w] + i
NextBlock(w) == [i \in 1..Remaining(w) |-> off[w] + i]

\* An answer may only be wrong where it will be noticed, and then a fault of
\* this block has not been answered by a retry yet.
MdOk(w, g) ==
  \/ Segment(w, g) /\ (g = <<>> => att[w] < faults)
  \/ hasCrc /\ Len(g) = Remaining(w) /\ att[w] < faults
AnswerOk(w) ==
  /\ pc[w] = "read" => (Has("ok") => ram)
  /\ pc[w] = "detect" => (Has("unknown") <=> ~hasCrc)
  /\ pc[w] = "md" => MdOk(w, Parse(out)) /\ ~Has("ragged")
  /\ pc[w] = "crc" => out[1].k = "crc" /\ out[1].val = NextBlock(w)

\* The line holds the command of the dump that waits, or its answer.
LineInv ==
  /\ ~hung
  /\ (\A w \in Runs : ~sent[w]) => inbox = <<>>
  /\ \A w \in Runs : sent[w] =>
       \/ inbox = <<Now(w)>> /\ out = <<>>
       \/ inbox = <<>> /\ out # <<>> /\ AnswerOk(w)

\* The block a dump holds is right where it is written, and a wrong one still
\* has an attempt left.
HeldOne(w) ==
  /\ att[w] <= faults /\ pc[w] # "nudge"
  /\ pc[w] \in {"sanity", "detect", "md", "crc", "write"} => ram
  /\ pc[w] \in {"md", "crc", "write"} => crc[w] = hasCrc
  /\ pc[w] = "crc" => /\ hasCrc /\ Len(chunk[w]) = Remaining(w)
                      /\ chunk[w] = NextBlock(w) \/ att[w] < faults
  /\ pc[w] = "write" => Segment(w, chunk[w])
HeldInv == \A w \in Runs : HeldOne(w)

Good(f) == Len(f) <= Size /\ \A i \in 1..Len(f) : f[i] = i
NoneLater(w) == \A v \in Runs : v > w => pc[v] = "off"

\* Every file is a piece of the flash from its start on, and the last dump's,
\* when it is done, all of it.
FileDone(w) == pc[w] = "done" => Len(file[FileOf(w)]) = Size
FilesInv ==
  /\ \A w \in Runs : Good(file[w])
  /\ \A w \in Runs : NoneLater(w) => FileDone(w)

CleanInv == Clean => LineInv /\ HeldInv /\ FilesInv

Inv == TypeInv /\ OrderInv /\ PlaceInv /\ CleanInv

---------------------------------------------------------------------------
(* The answer of md.b.                                                     *)

LEMMA HasMin ==
  ASSUME NEW S \in SUBSET Nat, S # {}
  PROVE  MinOf(S) \in S /\ \A b \in S : MinOf(S) <= b
  <1>1. \E a \in S : \A b \in S : ~ (<<b, a>> \in OpToRel(<, Nat))
    BY NatLessThanWellFounded, WFMin, Zenon
  <1>2. PICK a \in S : \A b \in S : ~ (<<b, a>> \in OpToRel(<, Nat))
    BY <1>1
  <1>3. \A b \in S : a <= b
    <2> SUFFICES ASSUME NEW b \in S PROVE a <= b
      OBVIOUS
    <2>1. ~ (<<b, a>> \in OpToRel(<, Nat))
      BY <1>2
    <2>2. ~ (b < a)
      BY <2>1 DEF OpToRel
    <2> QED
      BY <2>2
  <1>4. \E x \in S : \A b \in S : x <= b
    BY <1>3
  <1> QED
    BY <1>4, Zenon DEF MinOf

LEMMA HasMax ==
  ASSUME NEW S \in SUBSET Nat, S # {}, NEW n \in Nat, \A a \in S : a <= n
  PROVE  MaxOf(S) \in S /\ \A b \in S : MaxOf(S) >= b
  <1> DEFINE D == {n - a : a \in S}
  <1>1. D \in SUBSET Nat /\ D # {}
    <2>1. \A a \in S : a \in Nat /\ n - a \in Nat
      OBVIOUS
    <2>2. PICK a \in S : TRUE
      OBVIOUS
    <2>3. n - a \in D
      OBVIOUS
    <2> QED
      BY <2>1, <2>3
  <1>2. MinOf(D) \in D /\ \A b \in D : MinOf(D) <= b
    BY <1>1, HasMin, Zenon
  <1>3. PICK a \in S : MinOf(D) = n - a
    BY <1>2
  <1>4. \A b \in S : a >= b
    <2> SUFFICES ASSUME NEW b \in S PROVE a >= b
      OBVIOUS
    <2>1. n - a <= n - b
      BY <1>2, <1>3
    <2> QED
      BY <2>1
  <1>5. \E x \in S : \A b \in S : x >= b
    BY <1>4
  <1> QED
    BY <1>5, Zenon DEF MaxOf

LEMMA ParseMdIs == ParseMd = Parse(out)
  BY DEF ParseMd, Parse, MdLines, Addrs, LineAt, MinOf, MaxOf, ValueAt

LEMMA ItemFacts ==
  ASSUME NEW o \in Seq(Items), NEW i \in MdLines(o)
  PROVE  /\ i \in Nat /\ i <= Len(o) /\ o[i].addr \in 1..Size
         /\ o[i].val[1] \in Values
  <1>1. i \in 1..Len(o) /\ o[i] \in Items /\ o[i].k = "md"
    BY DEF MdLines
  <1>2. o[i].val \in Seq(Values) /\ Len(o[i].val) = 1 /\ o[i].addr \in 1..Size
    BY <1>1 DEF Items, Records
  <1> QED
    BY <1>1, <1>2

LEMMA ValueAtFacts ==
  ASSUME NEW o \in Seq(Items), NEW a
  PROVE  /\ ValueAt(o, a) \in Values
         /\ LineAt(o, a) = {} => ValueAt(o, a) = Zero
         /\ \A i \in LineAt(o, a) : (\A j \in LineAt(o, a) : j = i) => ValueAt(o, a) = o[i].val[1]
  <1>1. CASE LineAt(o, a) = {}
    BY <1>1, DumpAssumption DEF ValueAt, Values, Zero, Damaged
  <1>2. CASE LineAt(o, a) # {}
    <2>1. LineAt(o, a) \in SUBSET Nat /\ (\A i \in LineAt(o, a) : i <= Len(o)) /\ Len(o) \in Nat
      BY ItemFacts DEF LineAt
    <2>2. MaxOf(LineAt(o, a)) \in LineAt(o, a)
      BY <1>2, <2>1, HasMax
    <2>3. MaxOf(LineAt(o, a)) \in MdLines(o)
      BY <2>2 DEF LineAt
    <2> QED
      BY <1>2, <2>2, <2>3, ItemFacts DEF ValueAt
  <1> QED
    BY <1>1, <1>2

LEMMA ParseType ==
  ASSUME NEW o \in Seq(Items)
  PROVE  Parse(o) \in Seq(Values)
  <1>1. CASE Addrs(o) = {}
    BY <1>1 DEF Parse
  <1>2. CASE Addrs(o) # {}
    <2>1. Addrs(o) \in SUBSET Nat /\ (\A a \in Addrs(o) : a <= Size) /\ Size \in Nat
      BY ItemFacts, DumpAssumption DEF Addrs
    <2>2. MinOf(Addrs(o)) \in Addrs(o) /\ MaxOf(Addrs(o)) \in Addrs(o) /\ MinOf(Addrs(o)) <= MaxOf(Addrs(o))
      BY <1>2, <2>1, HasMin, HasMax
    <2> DEFINE n == MaxOf(Addrs(o)) - MinOf(Addrs(o)) + 1
               V(i) == ValueAt(o, MinOf(Addrs(o)) + i - 1)
    <2>3. n \in Nat
      BY <2>1, <2>2
    <2>4. \A i \in 1..n : V(i) \in Values
      BY ValueAtFacts
    <2>5. Parse(o) = [i \in 1..n |-> V(i)]
      BY <1>2 DEF Parse
    <2> HIDE DEF n, V
    <2> QED
      BY <2>3, <2>4, <2>5
  <1> QED
    BY <1>1, <1>2

\* An answer with the addresses lo to hi has a value for each of them.
LEMMA ParseIs ==
  ASSUME NEW o \in Seq(Items), NEW lo \in Nat, NEW hi \in Nat,
         lo \in Addrs(o), hi \in Addrs(o), \A a \in Addrs(o) : lo <= a /\ a <= hi
  PROVE  /\ Len(Parse(o)) = hi - lo + 1 /\ DOMAIN Parse(o) = 1..(hi - lo + 1)
         /\ \A i \in 1..(hi - lo + 1) : Parse(o)[i] = ValueAt(o, lo + i - 1)
  <1>1. Addrs(o) \in SUBSET Nat /\ Addrs(o) # {} /\ \A a \in Addrs(o) : a <= hi
    BY ItemFacts DEF Addrs
  <1>2. MinOf(Addrs(o)) = lo
    <2>1. MinOf(Addrs(o)) \in Addrs(o) /\ MinOf(Addrs(o)) <= lo
      BY <1>1, HasMin
    <2> QED
      BY <1>1, <2>1
  <1>3. MaxOf(Addrs(o)) = hi
    <2>1. MaxOf(Addrs(o)) \in Addrs(o) /\ MaxOf(Addrs(o)) >= hi
      BY <1>1, HasMax
    <2> QED
      BY <1>1, <2>1
  <1>4. Parse(o) = [i \in 1..(hi - lo + 1) |-> ValueAt(o, lo + i - 1)]
    BY <1>1, <1>2, <1>3 DEF Parse
  <1>5. hi - lo + 1 \in Nat
    OBVIOUS
  <1> QED
    BY <1>4, <1>5

\* The whole of an answer, or its first m lines.
LEMMA GoodAnswer ==
  ASSUME NEW o \in Seq(Items), NEW a \in Nat, NEW m \in Nat, Len(o) >= m, \A i \in (m + 1)..Len(o) : o[i].k # "md",
         \A i \in 1..m : o[i].k = "md" /\ o[i].addr = a + i /\ o[i].val[1] = a + i
  PROVE  /\ Len(Parse(o)) = m /\ \A i \in 1..m : Parse(o)[i] = a + i
         /\ Parse(o) = <<>> => m = 0
  <1>1. MdLines(o) = 1..m
    <2>1. DOMAIN o = 1..Len(o) /\ \A i \in DOMAIN o : i \in 1..m \/ i \in (m + 1)..Len(o)
      OBVIOUS
    <2> QED
      BY <2>1 DEF MdLines
  <1>2. CASE m = 0
    <2>1. Addrs(o) = {}
      BY <1>1, <1>2 DEF Addrs
    <2>2. Parse(o) = <<>>
      BY <2>1 DEF Parse
    <2> QED
      BY <1>2, <2>2
  <1>3. CASE m # 0
    <2>1. a + 1 \in Addrs(o) /\ a + m \in Addrs(o) /\ \A x \in Addrs(o) : a + 1 <= x /\ x <= a + m
      <3>1. 1 \in 1..m /\ m \in 1..m
        BY <1>3
      <3>2. o[1].addr = a + 1 /\ o[m].addr = a + m
        BY <3>1
      <3> QED
        BY <1>1, <3>1, <3>2 DEF Addrs
    <2>2. Len(Parse(o)) = m /\ \A i \in 1..m : Parse(o)[i] = ValueAt(o, a + i)
      <3>1. (a + m) - (a + 1) + 1 = m /\ a + 1 \in Nat /\ a + m \in Nat
        OBVIOUS
      <3>2. Len(Parse(o)) = (a + m) - (a + 1) + 1 /\ \A i \in 1..((a + m) - (a + 1) + 1) : Parse(o)[i] = ValueAt(o, a + 1 + i - 1)
        BY <2>1, <3>1, ParseIs
      <3>3. \A i \in 1..m : a + 1 + i - 1 = a + i
        OBVIOUS
      <3> QED
        BY <3>1, <3>2, <3>3
    <2>3. ASSUME NEW i \in 1..m PROVE ValueAt(o, a + i) = a + i
      <3>1. i \in LineAt(o, a + i) /\ \A j \in LineAt(o, a + i) : j = i
        BY <1>1 DEF LineAt
      <3>2. ValueAt(o, a + i) = o[i].val[1]
        BY <3>1, ValueAtFacts
      <3> QED
        BY <3>2
    <2>4. Parse(o) # <<>>
      BY <1>3, <2>2
    <2> QED
      BY <2>2, <2>3, <2>4
  <1> QED
    BY <1>2, <1>3

\* An answer with its first and its last line has the right length.
LEMMA LongAnswer ==
  ASSUME NEW o \in Seq(Items), NEW a \in Nat, NEW n \in Nat \ {0},
         a + 1 \in Addrs(o), a + n \in Addrs(o), \A x \in Addrs(o) : a + 1 <= x /\ x <= a + n
  PROVE  Len(Parse(o)) = n
  <1>1. (a + n) - (a + 1) + 1 = n /\ a + 1 \in Nat /\ a + n \in Nat
    OBVIOUS
  <1>2. Len(Parse(o)) = (a + n) - (a + 1) + 1
    BY <1>1, ParseIs
  <1> QED
    BY <1>1, <1>2

---------------------------------------------------------------------------
(* What the camera prints.                                                 *)

LEMMA PromptFacts ==
  /\ Prompt \in Seq(Items) /\ Len(Prompt) = 1 /\ Prompt[1].k = "prompt"
  <1>1. <<>> \in Seq(Values) /\ 0 \in 0..Size
    BY DumpAssumption
  <1>2. [k |-> "prompt", addr |-> 0, val |-> <<>>] \in Items
    BY <1>1 DEF Items, Records, ItemKinds
  <1> QED
    BY <1>2 DEF Prompt, Item

LEMMA OneItem ==
  ASSUME NEW k \in ItemKinds \ {"md"}, NEW v \in Seq(Values)
  PROVE  Item(k, 0, v) \in Seq(Items) /\ Len(Item(k, 0, v)) = 1 /\ Item(k, 0, v)[1].k = k /\ Item(k, 0, v)[1].val = v
  <1>1. 0 \in 0..Size
    BY DumpAssumption
  <1>2. [k |-> k, addr |-> 0, val |-> v] \in Items
    BY <1>1 DEF Items, Records
  <1> QED
    BY <1>2 DEF Item

LEMMA LineFacts ==
  ASSUME TypeInv, NEW a \in 1..Size, NEW n \in 1..Size, a + n - 1 <= Size
  PROVE  /\ Lines(a, n) \in Seq(Items) /\ Len(Lines(a, n)) = n /\ DOMAIN Lines(a, n) = 1..n
         /\ \A i \in 1..n : /\ Lines(a, n)[i].k = "md" /\ Lines(a, n)[i].addr = a + i - 1
                            /\ ram => Lines(a, n)[i].val = <<a + i - 1>>
  <1> DEFINE R(i) == [k |-> "md", addr |-> a + i - 1, val |-> <<IF ram THEN a + i - 1 ELSE Zero>>]
  <1>1. \A i \in 1..n : R(i) \in Items /\ R(i).k = "md" /\ R(i).addr = a + i - 1 /\ (ram => R(i).val = <<a + i - 1>>)
    <2> SUFFICES ASSUME NEW i \in 1..n PROVE R(i) \in Items /\ R(i).k = "md" /\ R(i).addr = a + i - 1 /\ (ram => R(i).val = <<a + i - 1>>)
      OBVIOUS
    <2> DEFINE v == IF ram THEN a + i - 1 ELSE Zero
    <2>1. a + i - 1 \in 1..Size /\ v \in Values /\ (ram => v = a + i - 1)
      BY DumpAssumption DEF Values, Zero, Damaged
    <2> HIDE DEF v
    <2>2. <<v>> \in Seq(Values) /\ Len(<<v>>) = 1
      BY <2>1
    <2>3. [k |-> "md", addr |-> a + i - 1, val |-> <<v>>] \in Items
      <3>1. a + i - 1 \in 0..Size
        BY <2>1
      <3> QED
        BY <2>1, <2>2, <3>1 DEF Items, Records, ItemKinds
    <2>4. R(i) = [k |-> "md", addr |-> a + i - 1, val |-> <<v>>]
      BY DEF v
    <2> HIDE DEF R
    <2> QED
      BY <2>1, <2>3, <2>4
  <1>2. Lines(a, n) = [i \in 1..n |-> R(i)]
    BY DEF Lines
  <1> HIDE DEF R
  <1>3. n \in Nat
    BY DumpAssumption
  <1> QED
    BY <1>1, <1>2, <1>3

LEMMA CommandFacts ==
  ASSUME NEW c \in Commands
  PROVE  /\ c.by \in Runs /\ c.op \in Asks /\ c.addr \in 1..Size /\ c.n \in 1..Size
         /\ c.addr + c.n - 1 <= Size
  BY DEF Commands, Fields

\* What crc32 prints is the contents of the lines.
LEMMA SumFacts ==
  ASSUME TypeInv, NEW a \in 1..Size, NEW n \in 1..Size, a + n - 1 <= Size
  PROVE  [i \in 1..n |-> IF ram THEN a + i - 1 ELSE Zero] \in Seq(Values)
  <1> DEFINE v(i) == IF ram THEN a + i - 1 ELSE Zero
  <1>1. \A i \in 1..n : v(i) \in Values
    BY DumpAssumption DEF Values, Zero, Damaged
  <1>2. n \in Nat
    BY DumpAssumption
  <1> HIDE DEF v
  <1>3. [i \in 1..n |-> v(i)] \in Seq(Values)
    BY <1>1, <1>2
  <1> QED
    BY <1>3 DEF v

LEMMA PrintsType ==
  ASSUME TypeInv, NEW c \in Commands
  PROVE  Prints(c) \in Seq(Items)
  <1>1. CASE c.op \in {"md", "sanity"}
    <2>1. Prints(c) = Lines(c.addr, c.n)
      BY <1>1 DEF Prints
    <2> QED
      BY <2>1, CommandFacts, LineFacts
  <1>2. CASE c.op = "crc" /\ hasCrc
    <2>1. Prints(c) = Item("crc", 0, [i \in 1..c.n |-> IF ram THEN c.addr + i - 1 ELSE Zero])
      BY <1>2 DEF Prints
    <2>2. [i \in 1..c.n |-> IF ram THEN c.addr + i - 1 ELSE Zero] \in Seq(Values)
      BY CommandFacts, SumFacts
    <2> QED
      BY <2>1, <2>2, OneItem DEF ItemKinds
  <1>3. CASE c.op \notin {"md", "sanity"} /\ ~(c.op = "crc" /\ hasCrc)
    <2>1. Prints(c) \in {<<>>, Item("ok", 0, <<>>), Item("unknown", 0, <<>>)}
      BY <1>3 DEF Prints
    <2>2. <<>> \in Seq(Values) /\ <<>> \in Seq(Items)
      OBVIOUS
    <2>3. Item("ok", 0, <<>>) \in Seq(Items) /\ Item("unknown", 0, <<>>) \in Seq(Items)
      BY <2>2, OneItem DEF ItemKinds
    <2> QED
      BY <2>1, <2>2, <2>3
  <1> QED
    BY <1>1, <1>2, <1>3

LEMMA GarbledFacts ==
  ASSUME NEW p \in Seq(Items), NEW lost, NEW bad, \A i \in bad : i \in 1..Len(p) => p[i].k = "md"
  PROVE  LET q == Garbled(p, lost, bad)
         IN  /\ q \in Seq(Items) /\ Len(q) = Len(p)
             /\ \A j \in 1..Len(p) :
                  /\ j \in lost => q[j].k = "noise"
                  /\ j \notin lost => q[j].k = p[j].k /\ q[j].addr = p[j].addr
                  /\ j \notin lost /\ j \notin bad => q[j] = p[j]
  <1> DEFINE r(i) == [p[i] EXCEPT !.val = <<Damaged>>]
             z == [k |-> "noise", addr |-> 0, val |-> <<>>]
             e(i) == IF i \in lost THEN z ELSE IF i \in bad THEN r(i) ELSE p[i]
  <1>1. z \in Items /\ z.k = "noise"
    <2>1. <<>> \in Seq(Values) /\ 0 \in 0..Size
      BY DumpAssumption
    <2> QED
      BY <2>1 DEF Items, Records, ItemKinds
  <1>2. ASSUME NEW i \in 1..Len(p), i \in bad
        PROVE  r(i) \in Items /\ r(i).k = p[i].k /\ r(i).addr = p[i].addr
    <2>0. p[i] \in Items /\ p[i].k = "md" /\ Damaged \in Values
      BY <1>2, DumpAssumption DEF Values, Damaged
    <2>1. p[i] \in [k : ItemKinds, addr : 0..Size, val : Seq(Values)] /\ p[i].addr \in 1..Size
      BY <2>0 DEF Items, Records
    <2>2. <<Damaged>> \in Seq(Values) /\ Len(<<Damaged>>) = 1
      BY <2>0
    <2>3. r(i) = [k |-> p[i].k, addr |-> p[i].addr, val |-> <<Damaged>>]
      BY <2>1
    <2> HIDE DEF r
    <2>4. r(i).k = p[i].k /\ r(i).addr = p[i].addr /\ r(i).val = <<Damaged>>
      BY <2>3
    <2>5. r(i) \in Records
      BY <2>1, <2>2, <2>3 DEF Records
    <2> QED
      BY <2>1, <2>2, <2>4, <2>5 DEF Items
  <1>3. Garbled(p, lost, bad) = [i \in 1..Len(p) |-> e(i)]
    BY DEF Garbled
  <1> HIDE DEF r, z
  <1>4. \A i \in 1..Len(p) : e(i) \in Items
    BY <1>1, <1>2
  <1>5. ASSUME NEW j \in 1..Len(p)
        PROVE  /\ j \in lost => e(j).k = "noise"
               /\ j \notin lost => e(j).k = p[j].k /\ e(j).addr = p[j].addr
               /\ j \notin lost /\ j \notin bad => e(j) = p[j]
    BY <1>1, <1>2
  <1> HIDE DEF e
  <1> DEFINE q == [i \in 1..Len(p) |-> e(i)]
  <1>6. q \in Seq(Items) /\ Len(q) = Len(p) /\ \A j \in 1..Len(p) : q[j] = e(j)
    <2>1. Len(p) \in Nat
      OBVIOUS
    <2> QED
      BY <1>4, <2>1
  <1> HIDE DEF q
  <1> QED
    BY <1>3, <1>5, <1>6 DEF q

---------------------------------------------------------------------------
(* What the steps of a dump have in common.                                *)

\* A step of the dump w, and nothing of the others.
Local(w) ==
  /\ Active(w) /\ pc'[w] # "off" /\ ui' = ui /\ hasCrc' = hasCrc
  /\ ram' = ram /\ hung' = hung
  /\ \A v \in Runs \ {w} : pc'[v] = pc[v] /\ sent'[v] = sent[v] /\ off'[v] = off[v] /\ att'[v] = att[v]
  /\ \A v \in Runs : v # FileOf(w) => file'[v] = file[v]
  /\ kinds \subseteq kinds' /\ faults <= faults'

\* What it must see to for its own part.
Own(w) == HeldOne(w)' /\ Good(file[FileOf(w)])' /\ FileDone(w)'

LEMMA CleanBefore ==
  ASSUME TypeInv, TypeInv', hasCrc' = hasCrc, kinds \subseteq kinds', faults <= faults', Clean'
  PROVE  Clean /\ "overlap" \notin kinds
  <1>1. kinds \subseteq Allowed /\ "overlap" \notin Allowed
    BY DEF Clean, Allowed
  <1>2. faults <= MaxRetries
    BY DumpAssumption DEF Clean, TypeInv
  <1> QED
    BY <1>1, <1>2 DEF Clean

LEMMA FileOfType ==
  ASSUME TypeInv, NEW w \in Runs
  PROVE  FileOf(w) \in Runs
  BY DumpAssumption DEF FileOf, Runs

LEMMA OneActive ==
  ASSUME TypeInv, OrderInv, Serial, NEW w \in Runs, NEW v \in Runs, Active(w), v # w
  PROVE  pc[v] \in {"off"} \cup Ends /\ (v < w => pc[v] \in Ends) /\ (w < v => pc[v] = "off")
  <1>1. pc[w] # "off" /\ pc[w] \notin Ends
    BY DEF Active, Ends
  <1>2. v < w \/ w < v
    BY DumpAssumption DEF Runs
  <1>3. v < w => pc[v] \in Ends
    BY <1>1 DEF OrderInv
  <1>4. w < v => pc[v] = "off"
    BY <1>1 DEF OrderInv
  <1> QED
    BY <1>2, <1>3, <1>4

LEMMA OrderLocal ==
  ASSUME TypeInv, OrderInv, NEW w \in Runs, Local(w)
  PROVE  OrderInv'
  <1> SUFFICES ASSUME Serial', NEW v \in Runs, NEW u \in Runs, v < u, pc'[u] # "off" PROVE pc'[v] \in Ends
    BY DEF OrderInv
  <1>1. Serial
    BY DEF Serial, Local
  <1>2. pc[w] # "off" /\ pc[w] \notin Ends /\ (v # w => pc'[v] = pc[v]) /\ (u # w => pc'[u] = pc[u])
    BY DEF Local, Active, Ends
  <1>3. pc[u] # "off"
    BY <1>2
  <1>4. pc[v] \in Ends
    BY <1>1, <1>3 DEF OrderInv
  <1> QED
    BY <1>2, <1>4

LEMMA PlaceLocal ==
  ASSUME TypeInv, OrderInv, PlaceInv, NEW w \in Runs, Local(w), PlaceOne(w)'
  PROVE  PlaceInv'
  <1> SUFFICES ASSUME NEW v \in Runs, v # w PROVE PlaceOne(v)'
    BY DEF PlaceInv
  <1>1. PlaceOne(v) /\ pc'[v] = pc[v] /\ off'[v] = off[v] /\ sent'[v] = sent[v] /\ FileOf(v)' = FileOf(v)
    BY DEF PlaceInv, Local, FileOf
  <1>2. CASE ui = "cli"
    <2>1. pc[v] \in {"off"} \cup Ends
      BY <1>2, OneActive DEF Serial, Local
    <2>2. pc[v] \notin Places
      BY <2>1 DEF Ends, Places
    <2> QED
      BY <1>1, <2>2 DEF PlaceOne
  <1>3. CASE ui # "cli"
    <2>1. FileOf(v) = v /\ FileOf(w) = w
      BY <1>3 DEF FileOf
    <2>2. file'[v] = file[v]
      BY <2>1 DEF Local
    <2> QED
      BY <1>1, <2>1, <2>2 DEF PlaceOne
  <1> QED
    BY <1>2, <1>3

LEMMA CleanLocal ==
  ASSUME TypeInv, TypeInv', OrderInv, PlaceInv, CleanInv, NEW w \in Runs, Local(w),
         Clean' => (LineInv' /\ Own(w))
  PROVE  CleanInv'
  <1> SUFFICES ASSUME Clean' PROVE LineInv' /\ HeldInv' /\ FilesInv'
    BY DEF CleanInv
  <1>1. Clean /\ Serial /\ LineInv /\ HeldInv /\ FilesInv
    BY CleanBefore DEF CleanInv, Local, Serial
  <1>2. ASSUME NEW v \in Runs, v # w PROVE HeldOne(v)'
    <2>1. pc'[v] = pc[v] /\ att'[v] = att[v] /\ att[v] <= faults /\ faults <= faults'
      BY <1>1, <1>2 DEF HeldInv, HeldOne, Local
    <2>2. pc[v] \in {"off"} \cup Ends
      BY <1>1, <1>2, OneActive DEF Local
    <2>3. pc[v] \notin {"nudge", "sanity", "detect", "md", "crc", "write"}
      BY <2>2 DEF Ends
    <2>4. att'[v] <= faults'
      <3>1. att[v] \in Int /\ faults \in Int /\ faults' \in Int
        BY DumpAssumption DEF TypeInv
      <3> QED
        BY <2>1, <3>1
    <2> QED
      BY <2>1, <2>3, <2>4 DEF HeldOne
  <1>3. HeldInv'
    BY <1>2 DEF HeldInv, Own
  <1>4. \A v \in Runs : Good(file[v])'
    <2>1. FileOf(w)' = FileOf(w)
      BY DEF FileOf, Local
    <2>2. ASSUME NEW v \in Runs, v # FileOf(w) PROVE Good(file[v])'
      <3>1. file'[v] = file[v] /\ Good(file[v])
        BY <1>1, <2>2 DEF FilesInv, Local
      <3> QED
        BY <3>1 DEF Good
    <2>3. Good(file[FileOf(w)])'
      BY DEF Own
    <2>4. Good(file'[FileOf(w)])
      BY <2>1, <2>3 DEF Good
    <2> QED
      BY <2>2, <2>4 DEF Good
  <1>5. ASSUME NEW v \in Runs, NoneLater(v)', v # w PROVE FileDone(v)'
    <2>1. pc[v] \in {"off"} \cup Ends /\ (v < w => pc[v] \in Ends) /\ (w < v => pc[v] = "off")
      BY <1>1, <1>5, OneActive DEF Local
    <2>2. pc'[w] # "off" /\ pc'[v] = pc[v]
      BY <1>5 DEF Local
    <2>3. ~ (w > v)
      BY <1>5, <2>2 DEF NoneLater
    <2>4. w < v
      BY <1>5, <2>3, DumpAssumption DEF Runs
    <2> QED
      BY <2>1, <2>2, <2>4 DEF FileDone
  <1> QED
    BY <1>3, <1>4, <1>5 DEF FilesInv, Own

\* A dump that does not wait, when the others do not: the line is idle.
LEMMA IdleLine ==
  ASSUME NEW w \in Runs, TypeInv, OrderInv, PlaceInv, Local(w), Serial, ~hung', sent'[w] = FALSE, inbox' = <<>>
  PROVE  LineInv'
  <1>1. ASSUME NEW v \in Runs, v # w PROVE ~sent'[v]
    <2>1. pc[v] \in {"off"} \cup Ends /\ PlaceOne(v) /\ sent'[v] = sent[v]
      BY <1>1, OneActive DEF Local, PlaceInv
    <2> QED
      BY <2>1 DEF PlaceOne, Ends, Asks
  <1>2. \A v \in Runs : ~sent'[v]
    BY <1>1
  <1> QED
    BY <1>2 DEF LineInv

---------------------------------------------------------------------------
(* The answer of a command.                                                *)

LEMMA FaultFacts ==
  ASSUME TypeInv, NEW kind, Fault(kind)
  PROVE  kinds \subseteq kinds' /\ kind \in kinds' /\ faults' = faults + 1 /\ faults' \in 0..MaxFaults /\ faults <= faults'
  BY DumpAssumption DEF Fault, TypeInv

LEMMA ReturnedFacts ==
  ASSUME TypeInv, NEW w \in Runs, Returned(w)
  PROVE  /\ sent[w] /\ sent' = [sent EXCEPT ![w] = FALSE] /\ out' = <<>>
         /\ kinds \subseteq kinds' /\ faults <= faults' /\ faults' \in 0..MaxFaults
  <1>1. (faults' = faults /\ kinds' = kinds) \/ Fault("late")
    BY DEF Returned
  <1>2. kinds \subseteq kinds' /\ faults <= faults' /\ faults' \in 0..MaxFaults
    BY <1>1, FaultFacts, DumpAssumption DEF TypeInv
  <1> QED
    BY <1>2 DEF Returned

\* With nothing but the allowed faults, an answer is that of the command.
LEMMA CleanAnswer ==
  ASSUME TypeInv, NEW w \in Runs, CleanInv, Returned(w), Clean, Clean', hasCrc' = hasCrc
  PROVE  /\ inbox = <<>> /\ out # <<>> /\ AnswerOk(w) /\ ~hung
         /\ faults' = faults /\ kinds' = kinds
  <1>1. sent[w] /\ LineInv
    BY DEF Returned, CleanInv
  <1>2. ~ ("late" \in kinds')
    BY DEF Clean, Allowed
  <1>3. ~ Fault("late")
    BY <1>2, FaultFacts
  <1>4. out # <<>> \/ (hung \/ ~ \E i \in DOMAIN inbox : inbox[i].by = w)
    BY <1>3 DEF Returned
  <1>5. faults' = faults /\ kinds' = kinds
    BY <1>3 DEF Returned
  <1>6. ~hung /\ ((inbox = <<Now(w)>> /\ out = <<>>) \/ (inbox = <<>> /\ out # <<>> /\ AnswerOk(w)))
    BY <1>1 DEF LineInv
  <1>7. ~ (inbox = <<Now(w)>> /\ out = <<>>)
    <2> SUFFICES ASSUME inbox = <<Now(w)>>, out = <<>> PROVE FALSE
      OBVIOUS
    <2>1. Now(w).by = w
      BY DEF Now, Cmd
    <2>2. 1 \in DOMAIN inbox /\ inbox[1] = Now(w)
      OBVIOUS
    <2> QED
      BY <1>4, <1>6, <2>1, <2>2
  <1> QED
    BY <1>5, <1>6, <1>7

LEMMA RemainingFacts ==
  ASSUME TypeInv, NEW w \in Runs, off[w] < Size
  PROVE  /\ Remaining(w) \in 1..Size /\ off[w] + Remaining(w) <= Size /\ off[w] \in Nat
         /\ Remaining(w) <= Block
  <1>1. off[w] \in Nat /\ Size \in Nat /\ Block \in Nat \ {0}
    BY DumpAssumption DEF TypeInv
  <1> QED
    BY <1>1 DEF Remaining

LEMMA NowType ==
  ASSUME TypeInv, NEW w \in Runs, pc[w] \in Asks, PlaceOne(w)
  PROVE  Now(w) \in Commands
  <1>1. CASE pc[w] \in {"md", "crc"}
    <2>1. off[w] < Size
      BY <1>1 DEF PlaceOne, Places
    <2>2. Remaining(w) \in 1..Size /\ off[w] + Remaining(w) <= Size /\ off[w] \in Nat
      BY <2>1, RemainingFacts
    <2>3. Now(w) = [by |-> w, op |-> pc[w], addr |-> off[w] + 1, n |-> Remaining(w)]
      BY <1>1 DEF Now, Cmd
    <2>4. off[w] + 1 \in 1..Size /\ (off[w] + 1) + Remaining(w) - 1 <= Size
      BY <2>1, <2>2, DumpAssumption
    <2>5. Now(w) \in Fields
      BY <2>2, <2>3, <2>4 DEF Fields
    <2>6. Now(w).addr = off[w] + 1 /\ Now(w).n = Remaining(w)
      BY <2>3
    <2> QED
      BY <2>4, <2>5, <2>6 DEF Commands
  <1>2. CASE pc[w] \notin {"md", "crc"}
    <2>1. Now(w) = [by |-> w, op |-> pc[w], addr |-> 1, n |-> 1]
      BY <1>2 DEF Now, Cmd
    <2>2. 1 \in 1..Size /\ 1 + 1 - 1 <= Size
      BY DumpAssumption
    <2>3. Now(w) \in Fields
      BY <2>1, <2>2 DEF Fields
    <2>4. Now(w).addr = 1 /\ Now(w).n = 1
      BY <2>1
    <2> QED
      BY <2>2, <2>3, <2>4 DEF Commands
  <1> QED
    BY <1>1, <1>2

---------------------------------------------------------------------------
(* The steps of a dump.                                                    *)

\* An answer that only decides where to go on.
LEMMA SimpleAnswer ==
  ASSUME Inv, NEW w \in Runs, NEW to \in {"probe", "failed", "read", "sanity", "detect", "md"},
         pc[w] \in Asks, Returned(w), Goto(w, to), UNCHANGED <<off, att, crc, chunk, file>>, Quiet,
         to = "md" => pc[w] = "nudge",
         (to \in {"sanity", "detect"} /\ AnswerOk(w) /\ HeldOne(w)) => ram
  PROVE  Inv'
  <1>0. TypeInv /\ OrderInv /\ PlaceInv /\ CleanInv
    BY DEF Inv
  <1>1. /\ sent[w] /\ sent' = [sent EXCEPT ![w] = FALSE] /\ out' = <<>>
        /\ kinds \subseteq kinds' /\ faults <= faults' /\ faults' \in 0..MaxFaults
    BY <1>0, ReturnedFacts
  <1>2. TypeInv'
    <2>1. out' \in Seq(Items)
      BY <1>1
    <2>2. sent' \in [Runs -> BOOLEAN] /\ pc' \in [Runs -> PCs]
      BY <1>0, <1>1 DEF TypeInv, Goto, PCs
    <2> QED
      BY <1>0, <1>1, <2>1, <2>2 DEF TypeInv, Quiet
  <1>3. pc'[w] = to /\ sent'[w] = FALSE
    BY <1>0, <1>1 DEF TypeInv, Goto
  <1>4. Local(w)
    <2>1. Active(w) /\ pc'[w] # "off"
      BY <1>3 DEF Active, Asks
    <2>2. \A v \in Runs \ {w} : pc'[v] = pc[v] /\ sent'[v] = sent[v]
      BY <1>0, <1>1 DEF TypeInv, Goto
    <2> QED
      BY <1>1, <2>1, <2>2 DEF Local, Quiet
  <1>5. PlaceOne(w)'
    <2>1. to \in Places => pc[w] \in Places
      BY DEF Places
    <2>2. PlaceOne(w) /\ FileOf(w)' = FileOf(w)
      BY <1>0 DEF PlaceInv, FileOf, Quiet
    <2> QED
      BY <1>3, <2>1, <2>2 DEF PlaceOne
  <1>6. ASSUME Clean' PROVE LineInv' /\ Own(w)
    <2>1. Clean /\ Serial /\ HeldOne(w) /\ Good(file[FileOf(w)]) /\ hasCrc' = hasCrc
      BY <1>0, <1>1, <1>2, <1>6, CleanBefore, FileOfType DEF Quiet, CleanInv, HeldInv, FilesInv, Serial
    <2>2. inbox = <<>> /\ AnswerOk(w) /\ ~hung /\ faults' = faults
      BY <1>0, <1>6, <2>1, CleanAnswer
    <2>3. LineInv'
      <3>1. ~hung' /\ inbox' = <<>>
        BY <2>2 DEF Quiet
      <3> QED
        BY <1>0, <1>3, <1>4, <2>1, <3>1, IdleLine
    <2>4. HeldOne(w)'
      <3>1. to # "md"
        BY <2>1 DEF HeldOne
      <3>2. att'[w] <= faults' /\ (to \in {"sanity", "detect"} => ram')
        BY <2>1, <2>2 DEF HeldOne, Quiet
      <3> QED
        BY <1>3, <3>1, <3>2 DEF HeldOne
    <2>5. Good(file[FileOf(w)])' /\ FileDone(w)'
      <3>1. FileOf(w)' = FileOf(w)
        BY DEF FileOf, Quiet
      <3> QED
        BY <1>3, <2>1, <3>1 DEF FileDone, Good
    <2> QED
      BY <2>3, <2>4, <2>5 DEF Own
  <1>7. OrderInv' /\ PlaceInv' /\ CleanInv'
    BY <1>0, <1>2, <1>4, <1>5, <1>6, OrderLocal, PlaceLocal, CleanLocal
  <1> QED
    BY <1>2, <1>7 DEF Inv

LEMMA DetectStep ==
  ASSUME Inv, NEW w \in Runs, Detect(w)
  PROVE  Inv'
  <1> DEFINE to == IF Has("ok") THEN "probe" ELSE "failed"
  <1>1. pc[w] \in Asks /\ Returned(w) /\ Goto(w, to) /\ UNCHANGED <<off, att, crc, chunk, file>> /\ Quiet
    BY DEF Detect, Asks
  <1>2. to \in {"probe", "failed"}
    OBVIOUS
  <1> HIDE DEF to
  <1> QED
    BY <1>1, <1>2, SimpleAnswer

LEMMA ProbeStep ==
  ASSUME Inv, NEW w \in Runs, Probe(w)
  PROVE  Inv'
  <1> DEFINE to == IF Has("error") THEN "failed" ELSE "read"
  <1>1. pc[w] \in Asks /\ Returned(w) /\ Goto(w, to) /\ UNCHANGED <<off, att, crc, chunk, file>> /\ Quiet
    BY DEF Probe, Asks
  <1>2. to \in {"read", "failed"}
    OBVIOUS
  <1> HIDE DEF to
  <1> QED
    BY <1>1, <1>2, SimpleAnswer

LEMMA SfReadStep ==
  ASSUME Inv, NEW w \in Runs, SfRead(w)
  PROVE  Inv'
  <1> DEFINE to == IF Has("ok") THEN "sanity" ELSE "failed"
  <1>1. pc[w] \in Asks /\ Returned(w) /\ Goto(w, to) /\ UNCHANGED <<off, att, crc, chunk, file>> /\ Quiet
    BY DEF SfRead, Asks
  <1>2. to \in {"sanity", "failed"} /\ (to = "sanity" => Has("ok"))
    OBVIOUS
  <1>3. (to = "sanity" /\ AnswerOk(w)) => ram
    BY <1>2 DEF AnswerOk, SfRead
  <1> HIDE DEF to
  <1> QED
    BY <1>1, <1>2, <1>3, SimpleAnswer

LEMMA SanityStep ==
  ASSUME Inv, NEW w \in Runs, Sanity(w)
  PROVE  Inv'
  <1> DEFINE to == IF ParseMd = <<Zero>> THEN "failed" ELSE "detect"
  <1>1. pc[w] \in Asks /\ Returned(w) /\ Goto(w, to) /\ UNCHANGED <<off, att, crc, chunk, file>> /\ Quiet
    BY DEF Sanity, Asks
  <1>2. to \in {"detect", "failed"}
    OBVIOUS
  <1>3. HeldOne(w) => ram
    BY DEF HeldOne, Sanity
  <1> HIDE DEF to
  <1> QED
    BY <1>1, <1>2, <1>3, SimpleAnswer

LEMMA NudgedStep ==
  ASSUME Inv, NEW w \in Runs, Nudged(w)
  PROVE  Inv'
  <1>1. /\ pc[w] \in Asks /\ pc[w] = "nudge" /\ Returned(w) /\ Goto(w, "md")
        /\ UNCHANGED <<off, att, crc, chunk, file>> /\ Quiet
    BY DEF Nudged, Asks
  <1> QED
    BY <1>1, SimpleAnswer

LEMMA LocalStep ==
  ASSUME Inv, TypeInv', NEW w \in Runs, Local(w), PlaceOne(w)', Clean' => (LineInv' /\ Own(w))
  PROVE  Inv'
  BY OrderLocal, PlaceLocal, CleanLocal DEF Inv

LEMMA CleanFacts ==
  ASSUME Inv, TypeInv', NEW w \in Runs, Local(w), Clean'
  PROVE  Clean /\ Serial /\ LineInv /\ HeldOne(w) /\ Good(file[FileOf(w)])
  BY CleanBefore, FileOfType DEF Inv, Local, CleanInv, HeldInv, FilesInv, Serial

LEMMA AnswerLine ==
  ASSUME Inv, TypeInv', NEW w \in Runs, Local(w), Clean', Returned(w), Quiet
  PROVE  /\ Clean /\ HeldOne(w) /\ Good(file[FileOf(w)])
         /\ out # <<>> /\ AnswerOk(w) /\ faults' = faults /\ faults <= MaxRetries /\ LineInv'
  <1>1. TypeInv /\ OrderInv /\ PlaceInv /\ CleanInv /\ hasCrc' = hasCrc
    BY DEF Inv, Quiet
  <1>2. Clean /\ Serial /\ HeldOne(w) /\ Good(file[FileOf(w)])
    BY CleanFacts
  <1>3. inbox = <<>> /\ out # <<>> /\ AnswerOk(w) /\ ~hung /\ faults' = faults
    BY <1>1, <1>2, CleanAnswer
  <1>4. ~hung' /\ inbox' = <<>>
    BY <1>3 DEF Quiet
  <1>5. sent'[w] = FALSE
    BY <1>1, ReturnedFacts DEF TypeInv
  <1>6. LineInv'
    BY <1>1, <1>2, <1>4, <1>5, IdleLine
  <1> QED
    BY <1>2, <1>3, <1>6 DEF Clean

LEMMA WholeBlocks ==
  ASSUME NEW a \in Nat, NEW b \in Nat \ {0}
  PROVE  (a \div b) * b \in Nat /\ (a \div b) * b <= a
  OBVIOUS

LEMMA ResumeStep ==
  ASSUME Inv, NEW w \in Runs, Resume(w)
  PROVE  Inv'
  <1> DEFINE old == Len(file[FileOf(w)])
             from == (old \div Block) * Block
  <1>0. TypeInv /\ OrderInv /\ PlaceInv /\ CleanInv /\ FileOf(w) \in Runs
    BY FileOfType DEF Inv
  <1>1. /\ sent[w] /\ sent' = [sent EXCEPT ![w] = FALSE] /\ out' = <<>>
        /\ kinds \subseteq kinds' /\ faults <= faults' /\ faults' \in 0..MaxFaults
    BY <1>0, ReturnedFacts DEF Resume
  <1>2. /\ pc[w] = "detect" /\ Returned(w) /\ Goto(w, "md") /\ Quiet /\ att' = att /\ chunk' = chunk
        /\ crc' = [crc EXCEPT ![w] = ~Has("unknown")]
    BY DEF Resume
  <1>3. old \in Nat /\ from \in Nat /\ from <= old
    <2>1. old \in Nat
      BY <1>0 DEF TypeInv
    <2> HIDE DEF old
    <2> QED
      BY <2>1, WholeBlocks, DumpAssumption
  <1>4. \/ from < Size /\ off' = [off EXCEPT ![w] = from] /\ file' = file
        \/ off' = [off EXCEPT ![w] = 0] /\ file' = [file EXCEPT ![FileOf(w)] = <<>>]
    BY DEF Resume
  <1> HIDE DEF old, from
  <1>5. off' \in [Runs -> Nat] /\ file' \in [Runs -> Seq(Values)]
    <2>1. <<>> \in Seq(Values) /\ 0 \in Nat
      OBVIOUS
    <2>2. off \in [Runs -> Nat] /\ file \in [Runs -> Seq(Values)]
      BY <1>0 DEF TypeInv
    <2>3. off' \in [Runs -> Nat]
      BY <1>3, <1>4, <2>1, <2>2
    <2>4. file' \in [Runs -> Seq(Values)]
      BY <1>4, <2>1, <2>2
    <2> QED
      BY <2>3, <2>4
  <1>6. TypeInv'
    <2>1. out' \in Seq(Items)
      BY <1>1
    <2>2. sent' \in [Runs -> BOOLEAN] /\ pc' \in [Runs -> PCs]
      BY <1>0, <1>1, <1>2 DEF TypeInv, Goto, PCs
    <2>3. crc' \in [Runs -> BOOLEAN]
      BY <1>0, <1>2 DEF TypeInv
    <2> QED
      BY <1>0, <1>1, <1>2, <1>5, <2>1, <2>2, <2>3 DEF TypeInv, Quiet
  <1>7. pc'[w] = "md" /\ sent'[w] = FALSE
    BY <1>0, <1>1, <1>2 DEF TypeInv, Goto
  <1>8. Local(w)
    <2>1. Active(w) /\ pc'[w] # "off"
      BY <1>2, <1>7 DEF Active
    <2>2. \A v \in Runs \ {w} : pc'[v] = pc[v] /\ sent'[v] = sent[v] /\ off'[v] = off[v] /\ att'[v] = att[v]
      BY <1>0, <1>1, <1>2, <1>4 DEF TypeInv, Goto
    <2>3. \A v \in Runs : v # FileOf(w) => file'[v] = file[v]
      BY <1>0, <1>4 DEF TypeInv
    <2> QED
      BY <1>1, <1>2, <2>1, <2>2, <2>3 DEF Local, Quiet
  <1>9. PlaceOne(w)'
    <2>1. FileOf(w)' = FileOf(w)
      BY <1>2 DEF FileOf, Quiet
    <2>2. off'[w] < Size /\ off'[w] <= Len(file'[FileOf(w)])
      <3>1. CASE from < Size /\ off' = [off EXCEPT ![w] = from] /\ file' = file
        BY <1>0, <1>3, <3>1 DEF TypeInv, old
      <3>2. CASE off' = [off EXCEPT ![w] = 0] /\ file' = [file EXCEPT ![FileOf(w)] = <<>>]
        <4>1. off'[w] = 0 /\ file'[FileOf(w)] = <<>>
          BY <1>0, <3>2 DEF TypeInv
        <4> QED
          BY <4>1, DumpAssumption
      <3> QED
        BY <1>4, <3>1, <3>2
    <2> QED
      BY <1>7, <2>1, <2>2 DEF PlaceOne
  <1>10. ASSUME Clean' PROVE LineInv' /\ Own(w)
    <2>1. HeldOne(w) /\ Good(file[FileOf(w)]) /\ AnswerOk(w) /\ faults' = faults /\ LineInv'
      BY <1>2, <1>6, <1>8, <1>10, AnswerLine
    <2>2. HeldOne(w)'
      <3>1. att'[w] <= faults' /\ ram'
        BY <1>2, <2>1 DEF HeldOne, Quiet
      <3>2. Has("unknown") <=> ~hasCrc
        BY <1>2, <2>1 DEF AnswerOk
      <3>3. crc'[w] = ~Has("unknown") /\ hasCrc \in BOOLEAN /\ hasCrc' = hasCrc
        BY <1>0, <1>2 DEF TypeInv, Quiet
      <3>4. crc'[w] = hasCrc'
        BY <3>2, <3>3, Zenon
      <3> QED
        BY <1>7, <3>1, <3>4 DEF HeldOne
    <2>3. Good(file[FileOf(w)])' /\ FileDone(w)'
      <3>1. FileOf(w)' = FileOf(w)
        BY <1>2 DEF FileOf, Quiet
      <3>2. file'[FileOf(w)] = file[FileOf(w)] \/ file'[FileOf(w)] = <<>>
        BY <1>0, <1>4 DEF TypeInv
      <3>3. Good(<<>>)
        BY DumpAssumption DEF Good
      <3>4. Good(file'[FileOf(w)])
        BY <2>1, <3>2, <3>3
      <3> QED
        BY <1>7, <3>1, <3>4 DEF FileDone, Good
    <2> QED
      BY <2>1, <2>2, <2>3 DEF Own
  <1> QED
    BY <1>6, <1>8, <1>9, <1>10, LocalStep

\* A step that leaves the offset and the file alone.
LEMMA ReadStep ==
  ASSUME Inv, NEW w \in Runs, NEW to \in {"md", "nudge", "crc", "write"}, NEW a \in 0..MaxRetries,
         NEW d \in Seq(Values), pc[w] \in {"md", "crc"},
         pc' = [pc EXCEPT ![w] = to], att' = [att EXCEPT ![w] = a], chunk' = [chunk EXCEPT ![w] = d],
         sent' = [sent EXCEPT ![w] = FALSE], UNCHANGED <<off, crc, file>>, Quiet, out' \in Seq(Items),
         kinds \subseteq kinds', faults <= faults', faults' \in 0..MaxFaults
  PROVE  /\ TypeInv' /\ Local(w) /\ PlaceOne(w)'
         /\ FileOf(w)' = FileOf(w) /\ Remaining(w)' = Remaining(w)
         /\ pc'[w] = to /\ att'[w] = a /\ chunk'[w] = d
  <1>0. TypeInv /\ PlaceOne(w)
    BY DEF Inv, PlaceInv
  <1>1. pc' \in [Runs -> PCs] /\ att' \in [Runs -> 0..MaxRetries] /\ sent' \in [Runs -> BOOLEAN]
    BY <1>0 DEF TypeInv, PCs
  <1>2. chunk' \in [Runs -> Seq(Values)]
    BY <1>0 DEF TypeInv
  <1>3. TypeInv'
    BY <1>0, <1>1, <1>2 DEF TypeInv, Quiet
  <1>4. pc'[w] = to /\ att'[w] = a /\ chunk'[w] = d /\ sent'[w] = FALSE
    BY <1>0 DEF TypeInv
  <1>5. FileOf(w)' = FileOf(w) /\ Remaining(w)' = Remaining(w)
    BY DEF FileOf, Remaining, Quiet
  <1>6. PlaceOne(w)'
    <2>1. off[w] < Size /\ off[w] <= Len(file[FileOf(w)])
      BY <1>0 DEF PlaceOne, Places
    <2> QED
      BY <1>4, <1>5, <2>1 DEF PlaceOne
  <1>7. Local(w)
    <2>1. Active(w) /\ pc'[w] # "off"
      BY <1>4 DEF Active
    <2>2. \A v \in Runs \ {w} : pc'[v] = pc[v] /\ sent'[v] = sent[v] /\ off'[v] = off[v] /\ att'[v] = att[v]
      BY <1>0 DEF TypeInv
    <2> QED
      BY <2>1, <2>2 DEF Local, Quiet
  <1> QED
    BY <1>3, <1>4, <1>5, <1>6, <1>7

\* Again and its two outcomes.
LEMMA AgainFacts ==
  ASSUME TypeInv, NEW w \in Runs, NEW to, Again(w, to)
  PROVE  \/ /\ att[w] < MaxRetries /\ pc' = [pc EXCEPT ![w] = to]
            /\ att' = [att EXCEPT ![w] = att[w] + 1] /\ att[w] + 1 \in 0..MaxRetries
         \/ /\ ~ (att[w] < MaxRetries) /\ pc' = [pc EXCEPT ![w] = "write"]
            /\ att' = [att EXCEPT ![w] = att[w]] /\ att[w] \in 0..MaxRetries
  <1>1. att \in [Runs -> 0..MaxRetries] /\ MaxRetries \in Nat
    BY DumpAssumption DEF TypeInv
  <1>2. CASE att[w] < MaxRetries
    BY <1>1, <1>2 DEF Again, Goto
  <1>3. CASE ~ (att[w] < MaxRetries)
    <2>1. att' = att /\ pc' = [pc EXCEPT ![w] = "write"]
      BY <1>3 DEF Again, Goto
    <2>2. [att EXCEPT ![w] = att[w]] = att
      BY <1>1
    <2> QED
      BY <1>1, <1>3, <2>1, <2>2
  <1> QED
    BY <1>2, <1>3

LEMMA ZerosType ==
  ASSUME TypeInv, NEW w \in Runs, off[w] < Size
  PROVE  Zeros(w) \in Seq(Values)
  <1>1. Remaining(w) \in Nat
    BY RemainingFacts, DumpAssumption
  <1>2. Zero \in Values
    BY DumpAssumption DEF Zero, Values, Damaged
  <1> QED
    BY <1>1, <1>2 DEF Zeros

LEMMA Same ==
  ASSUME NEW S, NEW f \in [Runs -> S], NEW w \in Runs
  PROVE  [f EXCEPT ![w] = f[w]] = f /\ f[w] \in S
  OBVIOUS

LEMMA MdRaisedStep ==
  ASSUME Inv, NEW w \in Runs, MdRaised(w)
  PROVE  Inv'
  <1>0. TypeInv /\ PlaceOne(w) /\ pc[w] = "md" /\ Quiet /\ Again(w, "nudge")
    BY DEF Inv, PlaceInv, MdRaised
  <1>1. Zeros(w) \in Seq(Values)
    BY <1>0, ZerosType DEF PlaceOne, Places
  <1>2. kinds \subseteq kinds' /\ "raise" \in kinds' /\ faults <= faults' /\ faults' \in 0..MaxFaults
    BY <1>0, FaultFacts DEF MdRaised
  <1>3. out' \in Seq(Items)
    BY <1>0 DEF MdRaised, TypeInv
  <1>4. PICK to \in {"md", "nudge", "crc", "write"}, a \in 0..MaxRetries :
          pc' = [pc EXCEPT ![w] = to] /\ att' = [att EXCEPT ![w] = a]
    BY <1>0, AgainFacts
  <1>5. TypeInv' /\ Local(w) /\ PlaceOne(w)'
    BY <1>0, <1>1, <1>2, <1>3, <1>4, ReadStep DEF MdRaised
  <1>6. ~Clean'
    BY <1>2 DEF Clean, Allowed
  <1> QED
    BY <1>5, <1>6, LocalStep

LEMMA CrcRaisedStep ==
  ASSUME Inv, NEW w \in Runs, CrcRaised(w)
  PROVE  Inv'
  <1>0. TypeInv /\ pc[w] = "crc" /\ Quiet
    BY DEF Inv, CrcRaised
  <1>2. kinds \subseteq kinds' /\ "raise" \in kinds' /\ faults <= faults' /\ faults' \in 0..MaxFaults
    BY <1>0, FaultFacts DEF CrcRaised
  <1>3. out' \in Seq(Items)
    BY <1>0 DEF CrcRaised, TypeInv
  <1>4. /\ att' = [att EXCEPT ![w] = att[w]] /\ chunk' = [chunk EXCEPT ![w] = chunk[w]]
        /\ att[w] \in 0..MaxRetries /\ chunk[w] \in Seq(Values)
    BY <1>0, Same DEF CrcRaised, TypeInv
  <1>5. TypeInv' /\ Local(w) /\ PlaceOne(w)'
    BY <1>0, <1>2, <1>3, <1>4, ReadStep DEF CrcRaised, Goto
  <1>6. ~Clean'
    BY <1>2 DEF Clean, Allowed
  <1> QED
    BY <1>5, <1>6, LocalStep

LEMMA SetupRaisedStep ==
  ASSUME Inv, NEW w \in Runs, SetupRaised(w)
  PROVE  Inv'
  <1> DEFINE to == IF pc[w] = "nudge" THEN "md" ELSE "failed"
  <1>0. /\ TypeInv /\ PlaceOne(w) /\ pc[w] \in Asks \ {"md", "crc"} /\ Quiet /\ pc' = [pc EXCEPT ![w] = to]
        /\ sent' = [sent EXCEPT ![w] = FALSE] /\ UNCHANGED <<off, att, crc, chunk, file, out>>
    BY DEF Inv, PlaceInv, SetupRaised, Goto, Asks
  <1>1. kinds \subseteq kinds' /\ "raise" \in kinds' /\ faults <= faults' /\ faults' \in 0..MaxFaults
    BY <1>0, FaultFacts DEF SetupRaised
  <1>2. to \in PCs /\ to # "off" /\ (to \in Places => pc[w] \in Places) /\ to \in {"md", "failed"}
    BY DEF PCs, Places
  <1> HIDE DEF to
  <1>3. sent' \in [Runs -> BOOLEAN] /\ pc' \in [Runs -> PCs] /\ pc'[w] = to /\ sent'[w] = FALSE
    BY <1>0, <1>2 DEF TypeInv
  <1>4. TypeInv'
    BY <1>0, <1>1, <1>3 DEF TypeInv, Quiet
  <1>5. PlaceOne(w)'
    <2>1. FileOf(w)' = FileOf(w)
      BY <1>0 DEF FileOf, Quiet
    <2> QED
      BY <1>0, <1>2, <1>3, <2>1 DEF PlaceOne
  <1>6. Local(w)
    <2>1. Active(w) /\ pc'[w] # "off"
      BY <1>0, <1>2, <1>3 DEF Active, Asks
    <2>2. \A v \in Runs \ {w} : pc'[v] = pc[v] /\ sent'[v] = sent[v]
      BY <1>0 DEF TypeInv
    <2> QED
      BY <1>0, <1>1, <2>1, <2>2 DEF Local, Quiet
  <1>7. ~Clean'
    BY <1>1 DEF Clean, Allowed
  <1> QED
    BY <1>4, <1>5, <1>6, <1>7, LocalStep

\* A piece of the flash as long as the block is the block.
LEMMA WholeSegment ==
  ASSUME TypeInv, NEW w \in Runs, off[w] < Size, NEW g \in Seq(Values), Segment(w, g), Len(g) = Remaining(w)
  PROVE  g = NextBlock(w)
  <1>1. Remaining(w) \in Nat /\ DOMAIN g = 1..Remaining(w)
    BY RemainingFacts, DumpAssumption
  <1>2. \A i \in 1..Remaining(w) : g[i] = off[w] + i
    BY DEF Segment
  <1>3. g = [i \in 1..Remaining(w) |-> g[i]]
    BY <1>1
  <1>4. [i \in 1..Remaining(w) |-> g[i]] = [i \in 1..Remaining(w) |-> off[w] + i]
    BY <1>2
  <1> QED
    BY <1>3, <1>4 DEF NextBlock

LEMMA MdAnsweredStep ==
  ASSUME Inv, NEW w \in Runs, MdAnswered(w)
  PROVE  Inv'
  <1> DEFINE g == Parse(out)
             full == crc[w] /\ Len(g) = Remaining(w) /\ ~Has("ragged")
  <1>0. TypeInv /\ PlaceOne(w) /\ pc[w] = "md" /\ Quiet /\ Returned(w) /\ off[w] < Size
    BY DEF Inv, PlaceInv, MdAnswered, PlaceOne, Places
  <1>1. /\ sent' = [sent EXCEPT ![w] = FALSE] /\ out' = <<>>
        /\ kinds \subseteq kinds' /\ faults <= faults' /\ faults' \in 0..MaxFaults
    BY <1>0, ReturnedFacts
  <1>2. g \in Seq(Values) /\ Zeros(w) \in Seq(Values)
    BY <1>0, ParseType, ZerosType DEF TypeInv
  <1>3. /\ chunk' = [chunk EXCEPT ![w] = IF g = <<>> THEN Zeros(w) ELSE g]
        /\ UNCHANGED <<off, crc, file>>
        /\ g = <<>> => Again(w, "md")
        /\ g # <<>> => /\ pc' = [pc EXCEPT ![w] = IF full THEN "crc" ELSE "write"]
                       /\ att' = att
    BY ParseMdIs DEF MdAnswered, Goto
  <1> HIDE DEF g, full
  <1>4. PICK to \in {"md", "crc", "write"}, a \in 0..MaxRetries, d \in Seq(Values) :
          /\ pc' = [pc EXCEPT ![w] = to] /\ att' = [att EXCEPT ![w] = a] /\ chunk' = [chunk EXCEPT ![w] = d]
          /\ g = <<>> => \/ att[w] < MaxRetries /\ to = "md" /\ a = att[w] + 1
                         \/ ~ (att[w] < MaxRetries)
          /\ g # <<>> => /\ d = g /\ a = att[w]
                         /\ to = IF full THEN "crc" ELSE "write"
    <2>1. CASE g = <<>>
      <3>1. chunk' = [chunk EXCEPT ![w] = Zeros(w)] /\ Again(w, "md")
        BY <1>3, <2>1
      <3>2. CASE att[w] < MaxRetries
        <4>1. pc' = [pc EXCEPT ![w] = "md"] /\ att' = [att EXCEPT ![w] = att[w] + 1] /\ att[w] + 1 \in 0..MaxRetries
          BY <1>0, <3>1, <3>2, AgainFacts
        <4> QED
          BY <1>2, <2>1, <3>1, <3>2, <4>1
      <3>3. CASE ~ (att[w] < MaxRetries)
        <4>1. pc' = [pc EXCEPT ![w] = "write"] /\ att' = [att EXCEPT ![w] = att[w]] /\ att[w] \in 0..MaxRetries
          BY <1>0, <3>1, <3>3, AgainFacts
        <4> QED
          BY <1>2, <2>1, <3>1, <3>3, <4>1
      <3> QED
        BY <3>2, <3>3
    <2>2. CASE g # <<>>
      <3> DEFINE to == IF full THEN "crc" ELSE "write"
      <3>1. att' = [att EXCEPT ![w] = att[w]] /\ att[w] \in 0..MaxRetries
        BY <1>0, <1>3, <2>2, Same DEF TypeInv
      <3>2. pc' = [pc EXCEPT ![w] = to] /\ chunk' = [chunk EXCEPT ![w] = g] /\ to \in {"crc", "write"}
        BY <1>3, <2>2
      <3> QED
        BY <1>2, <2>2, <3>1, <3>2
    <2> QED
      BY <2>1, <2>2
  <1>5. out' \in Seq(Items)
    BY <1>1
  <1>6. /\ TypeInv' /\ Local(w) /\ PlaceOne(w)' /\ FileOf(w)' = FileOf(w) /\ Remaining(w)' = Remaining(w)
        /\ pc'[w] = to /\ att'[w] = a /\ chunk'[w] = d
    BY <1>0, <1>1, <1>3, <1>4, <1>5, ReadStep
  <1>7. ASSUME Clean' PROVE LineInv' /\ Own(w)
    <2>1. /\ HeldOne(w) /\ Good(file[FileOf(w)]) /\ AnswerOk(w) /\ faults' = faults /\ LineInv' /\ faults <= MaxRetries
      BY <1>0, <1>6, <1>7, AnswerLine
    <2>2. MdOk(w, g) /\ crc[w] = hasCrc /\ att[w] <= faults /\ ram /\ hasCrc' = hasCrc /\ ram' = ram
      BY <1>0, <2>1 DEF AnswerOk, HeldOne, Quiet, g
    <2>3. att[w] \in Nat /\ faults \in Nat /\ MaxRetries \in Nat /\ Remaining(w) \in Nat \ {0}
      BY <1>0, RemainingFacts, DumpAssumption DEF TypeInv
    <2>4. HeldOne(w)'
      <3>1. CASE g = <<>>
        <4>1. Len(g) = 0
          BY <3>1
        <4>2. att[w] < faults
          BY <2>2, <2>3, <3>1, <4>1 DEF MdOk
        <4>3. to = "md" /\ a = att[w] + 1 /\ a <= faults
          BY <1>4, <2>1, <2>3, <3>1, <4>2
        <4> QED
          BY <1>3, <1>6, <2>1, <2>2, <4>3 DEF HeldOne
      <3>0. full <=> crc[w] /\ Len(g) = Remaining(w)
        BY <1>0, <2>1 DEF full, AnswerOk
      <3>2. CASE g # <<>> /\ crc[w] /\ Len(g) = Remaining(w)
        <4>1. to = "crc" /\ d = g /\ a = att[w] /\ hasCrc
          BY <1>4, <2>2, <3>0, <3>2
        <4>2. g = NextBlock(w) \/ att[w] < faults
          BY <1>0, <1>2, <2>2, <3>2, WholeSegment DEF MdOk
        <4>3. NextBlock(w)' = NextBlock(w)
          BY <1>3, <1>6 DEF NextBlock
        <4> QED
          BY <1>3, <1>6, <2>1, <2>2, <3>2, <4>1, <4>2, <4>3 DEF HeldOne
      <3>3. CASE g # <<>> /\ ~ (crc[w] /\ Len(g) = Remaining(w))
        <4>1. to = "write" /\ d = g /\ a = att[w]
          BY <1>4, <3>0, <3>3
        <4>2. Segment(w, g)
          BY <2>2, <3>3 DEF MdOk
        <4>3. Segment(w, chunk[w])'
          BY <1>3, <1>6, <4>1, <4>2 DEF Segment
        <4> QED
          BY <1>3, <1>6, <2>1, <2>2, <4>1, <4>3 DEF HeldOne
      <3> QED
        BY <3>1, <3>2, <3>3
    <2>5. Good(file[FileOf(w)])' /\ FileDone(w)'
      BY <1>3, <1>4, <1>6, <2>1 DEF FileDone, Good
    <2> QED
      BY <2>1, <2>4, <2>5 DEF Own
  <1> QED
    BY <1>6, <1>7, LocalStep

LEMMA CrcAnsweredStep ==
  ASSUME Inv, NEW w \in Runs, CrcAnswered(w)
  PROVE  Inv'
  <1>0. TypeInv /\ PlaceOne(w) /\ pc[w] = "crc" /\ Quiet /\ Returned(w) /\ off[w] < Size
    BY DEF Inv, PlaceInv, CrcAnswered, PlaceOne, Places
  <1>1. /\ sent' = [sent EXCEPT ![w] = FALSE] /\ out' = <<>>
        /\ kinds \subseteq kinds' /\ faults <= faults' /\ faults' \in 0..MaxFaults
    BY <1>0, ReturnedFacts
  <1>2. /\ chunk' = [chunk EXCEPT ![w] = chunk[w]] /\ chunk[w] \in Seq(Values)
        /\ UNCHANGED <<off, crc, chunk, file>>
    BY <1>0, Same DEF CrcAnswered, TypeInv
  <1>3. PICK to \in {"md", "write"}, a \in 0..MaxRetries :
          /\ pc' = [pc EXCEPT ![w] = to] /\ att' = [att EXCEPT ![w] = a]
          /\ Verified(w) => to = "write" /\ a = att[w]
          /\ ~Verified(w) => \/ att[w] < MaxRetries /\ to = "md" /\ a = att[w] + 1
                             \/ ~ (att[w] < MaxRetries)
    <2>1. CASE ~Verified(w)
      <3>1. Again(w, "md")
        BY <2>1 DEF CrcAnswered
      <3> QED
        BY <1>0, <2>1, <3>1, AgainFacts
    <2>2. CASE Verified(w)
      <3>1. att' = [att EXCEPT ![w] = att[w]] /\ att[w] \in 0..MaxRetries
        BY <1>0, <2>2, Same DEF TypeInv, CrcAnswered
      <3>2. pc' = [pc EXCEPT ![w] = "write"]
        BY <2>2 DEF CrcAnswered, Goto
      <3> QED
        BY <2>2, <3>1, <3>2
    <2> QED
      BY <2>1, <2>2
  <1>5. out' \in Seq(Items)
    BY <1>1
  <1>6. /\ TypeInv' /\ Local(w) /\ PlaceOne(w)' /\ FileOf(w)' = FileOf(w) /\ Remaining(w)' = Remaining(w)
        /\ pc'[w] = to /\ att'[w] = a
    BY <1>0, <1>1, <1>2, <1>3, <1>5, ReadStep
  <1>7. ASSUME Clean' PROVE LineInv' /\ Own(w)
    <2>1. /\ HeldOne(w) /\ Good(file[FileOf(w)]) /\ AnswerOk(w) /\ faults' = faults /\ LineInv' /\ faults <= MaxRetries
      BY <1>0, <1>6, <1>7, AnswerLine
    <2>2. crc[w] = hasCrc /\ att[w] <= faults /\ ram /\ hasCrc' = hasCrc /\ ram' = ram
      BY <1>0, <2>1 DEF HeldOne, Quiet
    <2>3. att[w] \in Nat /\ faults \in Nat /\ MaxRetries \in Nat
      BY <1>0, DumpAssumption DEF TypeInv
    <2>4. out[1].k = "crc" /\ out[1].val = NextBlock(w) /\ (chunk[w] = NextBlock(w) \/ att[w] < faults)
      BY <1>0, <2>1 DEF AnswerOk, HeldOne
    <2>5. 1 \in DOMAIN out
      <3>1. out # <<>>
        BY <1>0, <1>6, <1>7, AnswerLine
      <3>2. out \in Seq(Items)
        BY <1>0 DEF TypeInv
      <3> QED
        BY <3>1, <3>2
    <2>6. Verified(w) <=> chunk[w] = NextBlock(w)
      <3>1. Verified(w) => chunk[w] = NextBlock(w)
        BY <2>4, <2>5 DEF Verified
      <3>2. ASSUME chunk[w] = NextBlock(w), NEW i \in DOMAIN out, out[i].k = "crc", \A j \in 1..(i - 1) : out[j].k # "crc"
            PROVE  out[i].val = chunk[w]
        <4>1. out \in Seq(Items)
          BY <1>0 DEF TypeInv
        <4>2. i \in Nat /\ i >= 1
          BY <4>1
        <4>3. i = 1
          BY <2>4, <3>2, <4>2
        <4> QED
          BY <2>4, <3>2, <4>3
      <3> QED
        BY <3>1, <3>2 DEF Verified
    <2>7. HeldOne(w)'
      <3>1. CASE Verified(w)
        <4>1. to = "write" /\ a = att[w] /\ chunk[w] = NextBlock(w)
          BY <1>3, <2>6, <3>1
        <4>2. Remaining(w) \in Nat
          BY <1>0, RemainingFacts, DumpAssumption
        <4>3. Segment(w, NextBlock(w))
          BY <4>2 DEF Segment, NextBlock
        <4>4. Segment(w, chunk[w])'
          BY <1>2, <1>6, <4>1, <4>3 DEF Segment
        <4> QED
          BY <1>2, <1>6, <2>1, <2>2, <4>1, <4>4 DEF HeldOne
      <3>2. CASE ~Verified(w)
        <4>1. att[w] < faults
          BY <2>4, <2>6, <3>2
        <4>2. to = "md" /\ a = att[w] + 1 /\ a <= faults
          BY <1>3, <2>1, <2>3, <3>2, <4>1
        <4> QED
          BY <1>2, <1>6, <2>1, <2>2, <4>2 DEF HeldOne
      <3> QED
        BY <3>1, <3>2
    <2>8. Good(file[FileOf(w)])' /\ FileDone(w)'
      BY <1>2, <1>3, <1>6, <2>1 DEF FileDone, Good
    <2> QED
      BY <2>1, <2>7, <2>8 DEF Own
  <1> QED
    BY <1>6, <1>7, LocalStep

\* A dump that has not asked finds the line idle.
LEMMA IdleBefore ==
  ASSUME Inv, NEW w \in Runs, Active(w), ~sent[w], Clean
  PROVE  inbox = <<>> /\ ~hung
  <1>1. LineInv /\ Serial /\ TypeInv /\ OrderInv /\ PlaceInv
    BY DEF Inv, CleanInv, Clean, Serial, Allowed
  <1>2. ASSUME NEW v \in Runs, v # w PROVE ~sent[v]
    <2>1. pc[v] \in {"off"} \cup Ends /\ PlaceOne(v)
      BY <1>1, <1>2, OneActive DEF PlaceInv
    <2> QED
      BY <2>1 DEF PlaceOne, Ends, Asks
  <1>3. \A v \in Runs : ~sent[v]
    BY <1>2
  <1> QED
    BY <1>1, <1>3 DEF LineInv

LEMMA NotSent ==
  ASSUME Inv, NEW w \in Runs, pc[w] \in {"start", "write"}
  PROVE  sent[w] = FALSE
  <1>1. sent[w] \in BOOLEAN /\ (sent[w] => pc[w] \in Asks)
    BY DEF Inv, TypeInv, PlaceInv, PlaceOne
  <1> QED
    BY <1>1 DEF Asks

LEMMA BeginStep ==
  ASSUME Inv, NEW w \in Runs, Begin(w)
  PROVE  Inv'
  <1>0. TypeInv /\ OrderInv /\ PlaceInv /\ pc[w] = "start" /\ Quiet /\ sent[w] = FALSE
    BY NotSent DEF Inv, Begin
  <1>1. PICK to \in {"size", "probe"} : pc' = [pc EXCEPT ![w] = to]
    BY DEF Begin, Goto
  <1>2. UNCHANGED <<sent, off, att, crc, chunk, file, faults, kinds, out>>
    BY DEF Begin
  <1>3. TypeInv'
    <2>1. pc' \in [Runs -> PCs]
      BY <1>0, <1>1 DEF TypeInv, PCs
    <2> QED
      BY <1>0, <1>2, <2>1 DEF TypeInv, Quiet
  <1>4. pc'[w] = to /\ sent'[w] = FALSE
    BY <1>0, <1>1, <1>2 DEF TypeInv
  <1>5. Local(w)
    <2>1. Active(w) /\ pc'[w] # "off"
      BY <1>0, <1>4 DEF Active
    <2>2. \A v \in Runs \ {w} : pc'[v] = pc[v]
      BY <1>0, <1>1 DEF TypeInv
    <2>3. faults <= faults'
      BY <1>0, <1>2, DumpAssumption DEF TypeInv
    <2> QED
      BY <1>0, <1>2, <2>1, <2>2, <2>3 DEF Local, Quiet
  <1>6. PlaceOne(w)'
    BY <1>4 DEF PlaceOne, Places
  <1>7. ASSUME Clean' PROVE LineInv' /\ Own(w)
    <2>1. Clean /\ Serial /\ HeldOne(w) /\ Good(file[FileOf(w)])
      BY <1>3, <1>5, <1>7, CleanFacts
    <2>2. inbox = <<>> /\ ~hung
      BY <1>0, <1>5, <2>1, IdleBefore DEF Local
    <2>3. inbox' = <<>> /\ ~hung'
      BY <1>0, <2>2 DEF Quiet
    <2>4. LineInv'
      BY <1>0, <1>4, <1>5, <2>1, <2>3, IdleLine
    <2>5. HeldOne(w)'
      BY <1>2, <1>4, <2>1 DEF HeldOne
    <2>6. FileOf(w)' = FileOf(w)
      BY <1>0 DEF FileOf, Quiet
    <2>7. Good(file[FileOf(w)])' /\ FileDone(w)'
      BY <1>2, <1>4, <2>1, <2>6 DEF FileDone, Good
    <2> QED
      BY <2>4, <2>5, <2>7 DEF Own
  <1> QED
    BY <1>3, <1>5, <1>6, <1>7, LocalStep

LEMMA OverwriteFacts ==
  ASSUME NEW f \in Seq(Values), NEW d \in Seq(Values), NEW n \in Nat, n <= Len(f)
  PROVE  LET m == n + Len(d)
             o == Overwrite(f, n, d)
         IN  /\ o \in Seq(Values) /\ Len(o) = IF Len(f) > m THEN Len(f) ELSE m
             /\ \A i \in 1..Len(o) : o[i] = IF i > n /\ i <= m THEN d[i - n] ELSE f[i]
  <1> DEFINE m == n + Len(d)
             l == IF Len(f) > m THEN Len(f) ELSE m
             v(i) == IF i > n /\ i <= m THEN d[i - n] ELSE f[i]
  <1>1. l \in Nat /\ m \in Nat /\ Len(f) \in Nat
    OBVIOUS
  <1>2. \A i \in 1..l : v(i) \in Values
    <2> SUFFICES ASSUME NEW i \in 1..l PROVE v(i) \in Values
      OBVIOUS
    <2>1. CASE i > n /\ i <= m
      <3>1. i - n \in 1..Len(d)
        BY <2>1
      <3>2. d[i - n] \in Values
        BY <3>1
      <3> QED
        BY <2>1, <3>2
    <2>2. CASE ~ (i > n /\ i <= m)
      <3>1. i \in 1..Len(f)
        BY <2>2
      <3>2. f[i] \in Values
        BY <3>1
      <3> QED
        BY <2>2, <3>2
    <2> QED
      BY <2>1, <2>2
  <1>3. Overwrite(f, n, d) = [i \in 1..l |-> v(i)]
    BY DEF Overwrite
  <1> HIDE DEF l, v
  <1>4. /\ [i \in 1..l |-> v(i)] \in Seq(Values) /\ Len([i \in 1..l |-> v(i)]) = l
        /\ \A i \in 1..l : [j \in 1..l |-> v(j)][i] = v(i)
    BY <1>1, <1>2
  <1>5. Overwrite(f, n, d) \in Seq(Values) /\ Len(Overwrite(f, n, d)) = l /\ \A i \in 1..l : Overwrite(f, n, d)[i] = v(i)
    BY <1>3, <1>4
  <1> QED
    BY <1>5 DEF l, v

\* A right block goes where it belongs.
LEMMA OverwriteGood ==
  ASSUME NEW f \in Seq(Values), NEW d \in Seq(Values), NEW n \in Nat, n <= Len(f),
         Good(f), n + Len(d) <= Size, \A i \in 1..Len(d) : d[i] = n + i
  PROVE  Good(Overwrite(f, n, d)) /\ (n + Len(d) = Size => Len(Overwrite(f, n, d)) = Size)
  <1> DEFINE o == Overwrite(f, n, d)
  <1>1. /\ o \in Seq(Values) /\ Len(o) = IF Len(f) > n + Len(d) THEN Len(f) ELSE n + Len(d)
        /\ \A i \in 1..Len(o) : o[i] = IF i > n /\ i <= n + Len(d) THEN d[i - n] ELSE f[i]
    BY OverwriteFacts
  <1> HIDE DEF o
  <1>2. Len(o) \in Nat /\ Len(d) \in Nat /\ Len(f) \in Nat /\ Size \in Nat /\ Len(f) <= Size
    BY <1>1, DumpAssumption DEF Good
  <1>3. Len(o) = Len(f) \/ Len(o) = n + Len(d)
    BY <1>1
  <1>4. Len(o) <= Size /\ (n + Len(d) = Size => Len(o) = Size)
    <2>1. Len(o) = IF Len(f) > n + Len(d) THEN Len(f) ELSE n + Len(d)
      BY <1>1
    <2> QED
      BY <1>2, <2>1
  <1>5. ASSUME NEW i \in 1..Len(o) PROVE o[i] = i
    <2>1. CASE i > n /\ i <= n + Len(d)
      <3>1. i - n \in 1..Len(d) /\ n + (i - n) = i
        BY <1>2, <2>1
      <3> QED
        BY <1>1, <2>1, <3>1
    <2>2. CASE ~ (i > n /\ i <= n + Len(d))
      <3>1. i \in 1..Len(f)
        <4>1. Len(o) = IF Len(f) > n + Len(d) THEN Len(f) ELSE n + Len(d)
          BY <1>1
        <4> QED
          BY <1>2, <2>2, <4>1
      <3> QED
        BY <1>1, <2>2, <3>1 DEF Good
    <2> QED
      BY <2>1, <2>2
  <1>6. Good(o)
    BY <1>4, <1>5 DEF Good
  <1> QED
    BY <1>4, <1>6 DEF o

LEMMA WriteStep ==
  ASSUME Inv, NEW w \in Runs, Write(w)
  PROVE  Inv'
  <1> DEFINE end == off[w] + Len(chunk[w])
             f == file[FileOf(w)]
             o == Overwrite(f, off[w], chunk[w])
  <1>0. TypeInv /\ OrderInv /\ PlaceInv /\ PlaceOne(w) /\ pc[w] = "write" /\ Quiet /\ sent[w] = FALSE /\ FileOf(w) \in Runs
    BY NotSent, FileOfType DEF Inv, PlaceInv, Write
  <1>1. /\ off[w] \in Nat /\ chunk[w] \in Seq(Values) /\ f \in Seq(Values)
        /\ off[w] < Size /\ off[w] <= Len(f)
    BY <1>0 DEF TypeInv, PlaceOne, Places
  <1>2. Len(chunk[w]) \in Nat /\ Len(f) \in Nat
    BY <1>1
  <1>3. end \in Nat
    BY <1>1, <1>2
  <1>4. o \in Seq(Values) /\ Len(o) = IF Len(f) > end THEN Len(f) ELSE end
    BY <1>1, OverwriteFacts
  <1>5. end <= Len(o)
    <2>1. Len(o) = IF Len(f) > end THEN Len(f) ELSE end
      BY <1>4
    <2> HIDE DEF o, f, end
    <2> QED
      BY <1>2, <1>3, <2>1
  <1>6. PICK to \in {"cancelled", "md", "done"} :
          pc' = [pc EXCEPT ![w] = to] /\ (to = "md" => end < Size) /\ (to = "done" => ~ (end < Size))
    <2> DEFINE to == IF ui = "tui" /\ ~ flag THEN "cancelled" ELSE IF end < Size THEN "md" ELSE "done"
    <2>1. pc' = [pc EXCEPT ![w] = to]
      BY DEF Write, Goto
    <2> QED
      BY <2>1
  <1>7. /\ file' = [file EXCEPT ![FileOf(w)] = o]
        /\ off' = [off EXCEPT ![w] = end] /\ att' = [att EXCEPT ![w] = 0]
        /\ UNCHANGED <<sent, crc, chunk, faults, kinds, out>>
    BY DEF Write
  <1> HIDE DEF end, o
  <1>8. TypeInv'
    <2>1. pc' \in [Runs -> PCs]
      BY <1>0, <1>6 DEF TypeInv, PCs
    <2>2. off' \in [Runs -> Nat] /\ att' \in [Runs -> 0..MaxRetries]
      BY <1>0, <1>3, <1>7, DumpAssumption DEF TypeInv
    <2>3. file' \in [Runs -> Seq(Values)]
      BY <1>0, <1>4, <1>7 DEF TypeInv
    <2> QED
      BY <1>0, <1>7, <2>1, <2>2, <2>3 DEF TypeInv, Quiet
  <1>9. pc'[w] = to /\ sent'[w] = FALSE /\ off'[w] = end /\ att'[w] = 0 /\ file'[FileOf(w)] = o /\ FileOf(w)' = FileOf(w)
    BY <1>0, <1>6, <1>7 DEF TypeInv, FileOf, Quiet
  <1>10. Local(w)
    <2>1. Active(w) /\ pc'[w] # "off"
      BY <1>0, <1>9 DEF Active
    <2>2. \A v \in Runs \ {w} : pc'[v] = pc[v] /\ off'[v] = off[v] /\ att'[v] = att[v]
      BY <1>0, <1>6, <1>7 DEF TypeInv
    <2>3. \A v \in Runs : v # FileOf(w) => file'[v] = file[v]
      BY <1>0, <1>7 DEF TypeInv
    <2>4. faults <= faults'
      BY <1>0, <1>7, DumpAssumption DEF TypeInv
    <2> QED
      BY <1>0, <1>7, <2>1, <2>2, <2>3, <2>4 DEF Local, Quiet
  <1>11. PlaceOne(w)'
    BY <1>5, <1>6, <1>9 DEF PlaceOne, Places
  <1>12. ASSUME Clean' PROVE LineInv' /\ Own(w)
    <2>1. Clean /\ Serial /\ HeldOne(w) /\ Good(f)
      BY <1>8, <1>10, <1>12, CleanFacts
    <2>2. inbox = <<>> /\ ~hung
      BY <1>0, <1>10, <2>1, IdleBefore DEF Local
    <2>3. inbox' = <<>> /\ ~hung'
      BY <1>0, <2>2 DEF Quiet
    <2>4. LineInv'
      BY <1>0, <1>9, <1>10, <2>1, <2>3, IdleLine
    <2>5. HeldOne(w)'
      <3>1. ram /\ crc[w] = hasCrc
        BY <1>0, <2>1 DEF HeldOne
      <3>2. ram' /\ crc'[w] = hasCrc'
        BY <1>0, <1>7, <3>1 DEF Quiet
      <3>3. 0 <= faults'
        BY <1>8, DumpAssumption DEF TypeInv
      <3> QED
        BY <1>9, <3>2, <3>3 DEF HeldOne
    <2>6. Len(chunk[w]) <= Remaining(w) /\ \A i \in 1..Len(chunk[w]) : chunk[w][i] = off[w] + i
      BY <1>0, <2>1 DEF HeldOne, Segment
    <2>7. off[w] + Remaining(w) <= Size /\ Remaining(w) \in Nat
      BY <1>0, <1>1, RemainingFacts, DumpAssumption
    <2>8. off[w] + Len(chunk[w]) <= Size
      <3>1. Len(chunk[w]) <= Remaining(w)
        BY <2>6
      <3> QED
        BY <1>1, <1>2, <2>7, <3>1, DumpAssumption
    <2>9. Good(o) /\ (end = Size => Len(o) = Size)
      BY <1>1, <2>1, <2>6, <2>8, OverwriteGood DEF o, end
    <2>10. to = "done" => end = Size
      BY <1>3, <1>6, <2>8, DumpAssumption DEF end
    <2>11. Good(file[FileOf(w)])' /\ FileDone(w)'
      BY <1>9, <2>9, <2>10 DEF FileDone, Good
    <2> QED
      BY <2>4, <2>5, <2>11 DEF Own
  <1> QED
    BY <1>8, <1>10, <1>11, <1>12, LocalStep

LEMMA KilledStep ==
  ASSUME Inv, NEW w \in Runs, Killed(w)
  PROVE  Inv'
  <1>0. TypeInv /\ OrderInv /\ PlaceInv /\ ui = "cli" /\ Active(w) /\ FileOf(w) = 1 /\ 1 \in Runs
    BY DumpAssumption DEF Inv, Killed, FileOf, Runs
  <1>1. PICK n \in 0..Len(file[1]) : file' = [file EXCEPT ![1] = SubSeq(file[1], 1, n)]
    BY DEF Killed
  <1>2. /\ pc' = [pc EXCEPT ![w] = "failed"] /\ sent' = [sent EXCEPT ![w] = FALSE]
        /\ UNCHANGED <<ui, hasCrc, flag, off, att, crc, chunk, inbox, out, ram, hung>>
    BY DEF Killed, Goto, camera
  <1> DEFINE kind == IF sent[w] THEN "late" ELSE "kill"
  <1>3. Fault(kind)
    BY DEF Killed
  <1>4. kinds \subseteq kinds' /\ kind \in kinds' /\ faults <= faults' /\ faults' \in 0..MaxFaults
    <2> HIDE DEF kind
    <2> QED
      BY <1>0, <1>3, FaultFacts
  <1>5. file[1] \in Seq(Values)
    BY <1>0 DEF TypeInv
  <1> DEFINE s == SubSeq(file[1], 1, n)
  <1>6. s \in Seq(Values) /\ Len(s) = n /\ \A i \in 1..n : s[i] = file[1][i]
    BY <1>5
  <1>7. file' = [file EXCEPT ![1] = s]
    BY <1>1
  <1> HIDE DEF s
  <1>8. TypeInv'
    <2>1. pc' \in [Runs -> PCs] /\ sent' \in [Runs -> BOOLEAN]
      BY <1>0, <1>2 DEF TypeInv, PCs
    <2>2. file' \in [Runs -> Seq(Values)]
      BY <1>0, <1>6, <1>7 DEF TypeInv
    <2> QED
      BY <1>0, <1>2, <1>4, <2>1, <2>2 DEF TypeInv
  <1>9. pc'[w] = "failed" /\ sent'[w] = FALSE /\ file'[1] = s /\ FileOf(w)' = 1
    BY <1>0, <1>2, <1>7 DEF TypeInv, FileOf
  <1>10. Local(w)
    <2>2. \A v \in Runs \ {w} : pc'[v] = pc[v] /\ sent'[v] = sent[v]
      BY <1>0, <1>2 DEF TypeInv
    <2>3. \A v \in Runs : v # FileOf(w) => file'[v] = file[v]
      BY <1>0, <1>7 DEF TypeInv
    <2> QED
      BY <1>0, <1>2, <1>4, <1>9, <2>2, <2>3 DEF Local
  <1>11. PlaceOne(w)'
    BY <1>9 DEF PlaceOne, Places
  <1>12. ASSUME Clean' PROVE LineInv' /\ Own(w)
    <2>1. Clean /\ Serial /\ HeldOne(w) /\ Good(file[1])
      BY <1>0, <1>8, <1>10, <1>12, CleanFacts
    <2>2. ~sent[w]
      BY <1>4, <1>12 DEF Clean, Allowed
    <2>3. inbox' = <<>> /\ ~hung'
      BY <1>0, <1>2, <2>1, <2>2, IdleBefore
    <2>4. LineInv'
      BY <1>0, <1>9, <1>10, <2>1, <2>3, IdleLine
    <2>5. HeldOne(w)'
      <3>1. att[w] \in Int /\ faults \in Int /\ faults' \in Int
        BY <1>0, <1>4, DumpAssumption DEF TypeInv
      <3>2. att[w] <= faults
        BY <2>1 DEF HeldOne
      <3>3. att'[w] <= faults'
        BY <1>2, <1>4, <3>1, <3>2
      <3> QED
        BY <1>9, <3>3 DEF HeldOne
    <2>6. Good(s)
      <3>1. n <= Size /\ \A i \in 1..n : i \in 1..Len(file[1])
        BY <1>5, <2>1, DumpAssumption DEF Good
      <3> QED
        BY <1>6, <2>1, <3>1 DEF Good
    <2>7. Good(file[FileOf(w)])' /\ FileDone(w)'
      BY <1>9, <2>6 DEF FileDone, Good
    <2> QED
      BY <2>4, <2>5, <2>7 DEF Own
  <1> QED
    BY <1>8, <1>10, <1>11, <1>12, LocalStep

LEMMA SendStep ==
  ASSUME Inv, NEW w \in Runs, Send(w)
  PROVE  Inv'
  <1>0. TypeInv /\ OrderInv /\ PlaceInv /\ PlaceOne(w) /\ Active(w) /\ sent[w] = FALSE
    BY DEF Inv, PlaceInv, Send, TypeInv
  <1>1. pc[w] \in Asks
    <2>1. pc[w] \in PCs /\ pc[w] \notin {"start", "write"}
      BY <1>0 DEF TypeInv, Send
    <2> QED
      BY <1>0, <2>1 DEF PCs, Asks, Active
  <1>2. /\ sent' = [sent EXCEPT ![w] = TRUE] /\ out' = <<>> /\ (inbox' = inbox \/ inbox' = Append(inbox, Now(w)))
        /\ (~hung => inbox' = Append(inbox, Now(w)))
        /\ UNCHANGED <<ui, hasCrc, flag, pc, off, att, crc, chunk, file, ram, hung, faults, kinds>>
    BY DEF Send, ghosts
  <1>3. TypeInv'
    <2>1. Now(w) \in Commands /\ inbox \in Seq(Commands)
      BY <1>0, <1>1, NowType DEF TypeInv
    <2>2. inbox' \in Seq(Commands)
      BY <1>2, <2>1
    <2>3. sent' \in [Runs -> BOOLEAN]
      BY <1>0, <1>2 DEF TypeInv
    <2>4. out' \in Seq(Items)
      BY <1>2
    <2> QED
      BY <1>0, <1>2, <2>2, <2>3, <2>4 DEF TypeInv
  <1>4. Local(w)
    <2>1. \A v \in Runs \ {w} : sent'[v] = sent[v]
      BY <1>0, <1>2 DEF TypeInv
    <2>2. faults <= faults'
      BY <1>0, <1>2, DumpAssumption DEF TypeInv
    <2> QED
      BY <1>0, <1>1, <1>2, <2>1, <2>2 DEF Local, Asks
  <1>5. FileOf(w)' = FileOf(w)
    BY <1>2 DEF FileOf
  <1>6. PlaceOne(w)'
    BY <1>0, <1>1, <1>2, <1>5 DEF PlaceOne
  <1>7. ASSUME Clean' PROVE LineInv' /\ Own(w)
    <2>1. Clean /\ Serial /\ HeldOne(w) /\ Good(file[FileOf(w)])
      BY <1>3, <1>4, <1>7, CleanFacts
    <2>2. inbox = <<>> /\ ~hung
      BY <1>0, <2>1, IdleBefore
    <2>3. Now(w)' = Now(w)
      BY <1>2 DEF Now, Cmd, Remaining
    <2>4. inbox' = <<Now(w)>>
      <3>1. inbox' = Append(inbox, Now(w))
        BY <1>2, <2>2
      <3>2. inbox' = Append(<<>>, Now(w))
        BY <2>2, <3>1
      <3> QED
        BY <3>2
    <2>5. ASSUME NEW v \in Runs, v # w PROVE ~sent'[v]
      <3>1. pc[v] \in {"off"} \cup Ends /\ PlaceOne(v) /\ sent'[v] = sent[v]
        BY <1>0, <1>4, <2>1, <2>5, OneActive DEF Local, PlaceInv
      <3> QED
        BY <3>1 DEF PlaceOne, Ends, Asks
    <2>6. sent'[w] = TRUE
      BY <1>0, <1>2 DEF TypeInv
    <2>7. ~hung'
      BY <1>2, <2>2
    <2>8. (\A v \in Runs : ~sent'[v]) => inbox' = <<>>
      BY <2>6
    <2>9. \A v \in Runs : sent'[v] => v = w
      BY <2>5
    <2>10. (inbox = <<Now(w)>> /\ out = <<>>)'
      BY <1>2, <2>3, <2>4
    <2>11. ASSUME NEW v \in Runs, sent'[v]
           PROVE (\/ inbox = <<Now(v)>> /\ out = <<>>
                  \/ inbox = <<>> /\ out # <<>> /\ AnswerOk(v))'
      BY <2>9, <2>10, <2>11
    <2>12. LineInv'
      BY <2>7, <2>8, <2>11 DEF LineInv
    <2>13. HeldOne(w)'
      <3>1. Segment(w, chunk[w])' <=> Segment(w, chunk[w])
        BY <1>2 DEF Segment, Remaining
      <3>2. Remaining(w)' = Remaining(w)
        BY <1>2 DEF Remaining
      <3>3. pc[w] # "write" /\ NextBlock(w)' = NextBlock(w)
        BY <1>1, <1>2, <3>2 DEF Asks, NextBlock
      <3> QED
        BY <1>2, <2>1, <3>2, <3>3 DEF HeldOne
    <2>14. Good(file[FileOf(w)])' /\ FileDone(w)'
      BY <1>1, <1>2, <1>5, <2>1 DEF FileDone, Good, Asks
    <2> QED
      BY <2>12, <2>13, <2>14 DEF Own
  <1> QED
    BY <1>3, <1>4, <1>6, <1>7, LocalStep

---------------------------------------------------------------------------
(* The steps of the others.                                                *)

\* A step that moves no dump.
LEMMA KeepStep ==
  ASSUME Inv, TypeInv', UNCHANGED <<ui, hasCrc, dump, file>>, ram => ram',
         kinds \subseteq kinds', faults <= faults', Clean' => LineInv'
  PROVE  Inv'
  <1>0. TypeInv /\ OrderInv /\ PlaceInv /\ CleanInv
    BY DEF Inv
  <1>1. UNCHANGED <<ui, hasCrc, pc, sent, off, att, crc, chunk, file>>
    BY DEF dump
  <1>2. OrderInv'
    <2>1. Serial' => Serial
      BY <1>1 DEF Serial
    <2> QED
      BY <1>0, <1>1, <2>1 DEF OrderInv
  <1>3. PlaceInv'
    BY <1>0, <1>1 DEF PlaceInv, PlaceOne, FileOf
  <1>4. ASSUME Clean' PROVE HeldInv' /\ FilesInv'
    <2>1. HeldInv /\ FilesInv
      BY <1>0, <1>4, CleanBefore DEF CleanInv
    <2>2. ASSUME NEW w \in Runs PROVE HeldOne(w)'
      <3>1. HeldOne(w) /\ att[w] \in Int /\ faults \in Int /\ faults' \in Int
        BY <1>0, <2>1, DumpAssumption DEF HeldInv, TypeInv
      <3>2. Remaining(w)' = Remaining(w)
        BY <1>1 DEF Remaining
      <3>3. NextBlock(w)' = NextBlock(w) /\ (Segment(w, chunk[w]) => Segment(w, chunk[w])')
        BY <1>1, <3>2 DEF NextBlock, Segment
      <3>4. (att[w] <= faults => att[w] <= faults') /\ (att[w] < faults => att[w] < faults')
        BY <3>1
      <3> QED
        BY <1>1, <3>1, <3>2, <3>3, <3>4 DEF HeldOne
    <2>3. FilesInv'
      BY <1>1, <2>1 DEF FilesInv, FileDone, FileOf, NoneLater, Good
    <2> QED
      BY <2>2, <2>3 DEF HeldInv
  <1> QED
    BY <1>2, <1>3, <1>4 DEF Inv, CleanInv

LEMMA LineKept ==
  ASSUME Inv, UNCHANGED <<ui, hasCrc, dump, file, camera, faults, kinds>>, Clean'
  PROVE  LineInv'
  <1>1. UNCHANGED <<hasCrc, pc, sent, off, att, crc, chunk, inbox, out, ram, hung, faults, kinds>>
    BY DEF dump, camera
  <1>2. Clean
    BY <1>1 DEF Clean, Allowed
  <1>3. LineInv
    BY <1>2 DEF Inv, CleanInv
  <1>4. ASSUME NEW w \in Runs PROVE Now(w)' = Now(w) /\ (AnswerOk(w) => AnswerOk(w)')
    <2>1. Remaining(w)' = Remaining(w)
      BY <1>1 DEF Remaining
    <2>2. Now(w)' = Now(w) /\ NextBlock(w)' = NextBlock(w)
      BY <1>1, <2>1 DEF Now, Cmd, NextBlock
    <2>3. MdOk(w, Parse(out)) => MdOk(w, Parse(out))'
      BY <1>1, <2>1 DEF MdOk, Segment
    <2> QED
      BY <1>1, <2>2, <2>3 DEF AnswerOk, Has
  <1> QED
    BY <1>1, <1>3, <1>4 DEF LineInv

LEMMA HangStep ==
  ASSUME Inv, Hang
  PROVE  Inv'
  <1>0. TypeInv /\ UNCHANGED <<ui, hasCrc, flag, dump, file, inbox, out, ram>> /\ hung' = TRUE
    BY DEF Inv, Hang
  <1>1. kinds \subseteq kinds' /\ "hang" \in kinds' /\ faults <= faults' /\ faults' \in 0..MaxFaults
    BY <1>0, FaultFacts DEF Hang
  <1>2. TypeInv'
    BY <1>0, <1>1 DEF TypeInv, dump
  <1>3. ~Clean'
    BY <1>1 DEF Clean, Allowed
  <1> QED
    BY <1>0, <1>1, <1>2, <1>3, KeepStep

LEMMA CancelStep ==
  ASSUME Inv, Cancel
  PROVE  Inv'
  <1>0. TypeInv /\ UNCHANGED <<ui, hasCrc, dump, file, camera, faults, kinds>> /\ flag' = FALSE
    BY DEF Inv, Cancel
  <1>1. TypeInv'
    BY <1>0 DEF TypeInv, dump, camera
  <1>2. faults <= faults' /\ kinds \subseteq kinds' /\ ram' = ram
    BY <1>0, DumpAssumption DEF TypeInv, camera
  <1>3. Clean' => LineInv'
    BY <1>0, LineKept DEF Inv
  <1> QED
    BY <1>0, <1>1, <1>2, <1>3, KeepStep

\* When no dump runs, none waits.
LEMMA NoneWaits ==
  ASSUME Inv, \A v \in Runs : ~Active(v)
  PROVE  \A v \in Runs : ~sent[v]
  <1> SUFFICES ASSUME NEW v \in Runs PROVE ~sent[v]
    OBVIOUS
  <1>1. PlaceOne(v) /\ ~Active(v)
    BY DEF Inv, PlaceInv
  <1> QED
    BY <1>1 DEF PlaceOne, Active, Asks

LEMMA CleanupStep ==
  ASSUME Inv, NEW w \in Runs, CleanupAfterDump(w)
  PROVE  Inv'
  <1>0. /\ TypeInv /\ UNCHANGED <<ui, hasCrc, dump, file, ram, hung, faults>> /\ flag' = FALSE
        /\ inbox' = <<>> /\ out' = <<>>
        /\ kinds' = kinds \cup (IF \E v \in Runs : Active(v) THEN {"overlap"} ELSE {})
    BY DEF Inv, CleanupAfterDump
  <1>1. TypeInv'
    <2>1. inbox' \in Seq(Commands) /\ out' \in Seq(Items)
      BY <1>0
    <2> QED
      BY <1>0, <2>1 DEF TypeInv, dump
  <1>2. faults <= faults' /\ kinds \subseteq kinds'
    BY <1>0, DumpAssumption DEF TypeInv
  <1>3. ASSUME Clean' PROVE LineInv'
    <2>1. Clean
      BY <1>0, <1>1, <1>2, <1>3, CleanBefore
    <2>2. "overlap" \notin kinds'
      BY <1>3 DEF Clean, Allowed
    <2>3. \A v \in Runs : ~Active(v)
      BY <1>0, <2>2
    <2>4. (\A v \in Runs : ~sent[v]) /\ sent' = sent /\ ~hung'
      BY <1>0, <2>1, <2>3, NoneWaits DEF dump, Inv, CleanInv, LineInv
    <2> QED
      BY <1>0, <2>4 DEF LineInv
  <1> QED
    BY <1>0, <1>1, <1>2, <1>3, KeepStep

LEMMA StartDumpStep ==
  ASSUME Inv, NEW w \in Runs, StartDump(w)
  PROVE  Inv'
  <1>0. /\ TypeInv /\ OrderInv /\ PlaceInv /\ CleanInv /\ pc[w] = "off" /\ pc' = [pc EXCEPT ![w] = "start"]
        /\ UNCHANGED <<ui, hasCrc, sent, off, att, crc, chunk, file, inbox, out, ram, hung, faults>>
        /\ flag' = TRUE /\ (\A v \in Runs : v < w => pc[v] # "off") /\ (ui # "tui" => \A v \in Runs : ~Active(v))
        /\ kinds' = kinds \cup (IF \E v \in Runs : Active(v) THEN {"overlap"} ELSE {})
    BY DEF Inv, StartDump, camera, Goto
  <1>1. TypeInv'
    <2>1. pc' \in [Runs -> PCs]
      BY <1>0 DEF TypeInv, PCs
    <2> QED
      BY <1>0, <2>1 DEF TypeInv
  <1>2. pc'[w] = "start" /\ \A v \in Runs \ {w} : pc'[v] = pc[v]
    BY <1>0 DEF TypeInv
  <1>3. Serial' => (Serial /\ \A v \in Runs : ~Active(v))
    BY <1>0 DEF Serial, TypeInv
  <1>4. OrderInv'
    <2> SUFFICES ASSUME Serial', NEW v \in Runs, NEW u \in Runs, v < u, pc'[u] # "off" PROVE pc'[v] \in Ends
      BY DEF OrderInv
    <2>1. Serial /\ ~Active(v)
      BY <1>3
    <2>2. CASE u = w
      <3>1. pc[v] # "off" /\ v # w
        BY <1>0, <2>2, DumpAssumption DEF Runs
      <3> QED
        BY <1>2, <2>1, <3>1 DEF Active, Ends
    <2>3. CASE u # w
      <3>1. pc[v] \in Ends
        BY <1>0, <1>2, <2>1, <2>3 DEF OrderInv
      <3> QED
        BY <1>0, <1>2, <3>1 DEF Ends
    <2> QED
      BY <2>2, <2>3
  <1>5. PlaceInv'
    <2> SUFFICES ASSUME NEW v \in Runs PROVE PlaceOne(v)'
      BY DEF PlaceInv
    <2>1. PlaceOne(v) /\ FileOf(v)' = FileOf(v)
      BY <1>0 DEF PlaceInv, FileOf
    <2>2. CASE v = w
      BY <1>0, <1>2, <2>1, <2>2 DEF PlaceOne, Places, Asks
    <2>3. CASE v # w
      BY <1>0, <1>2, <2>1, <2>3 DEF PlaceOne
    <2> QED
      BY <2>2, <2>3
  <1>6. ASSUME Clean' PROVE LineInv' /\ HeldInv' /\ FilesInv'
    <2>1. faults <= faults' /\ kinds \subseteq kinds' /\ hasCrc' = hasCrc
      BY <1>0, DumpAssumption DEF TypeInv
    <2>2. Clean /\ LineInv /\ HeldInv /\ FilesInv
      BY <1>0, <1>1, <1>6, <2>1, CleanBefore DEF CleanInv
    <2>3. "overlap" \notin kinds'
      BY <1>6 DEF Clean, Allowed
    <2>4. Serial /\ \A v \in Runs : ~Active(v)
      BY <1>3, <2>3 DEF Serial
    <2>5. LineInv'
      <3>1. \A v \in Runs : ~sent[v]
        BY <2>4, NoneWaits
      <3>2. inbox = <<>> /\ ~hung
        BY <2>2, <3>1 DEF LineInv
      <3> QED
        BY <1>0, <3>1, <3>2 DEF LineInv
    <2>6. ASSUME NEW v \in Runs PROVE HeldOne(v)'
      <3>1. pc'[v] \notin {"nudge", "sanity", "detect", "md", "crc", "write"}
        BY <1>2, <2>4 DEF Active
      <3>2. att[v] <= faults
        BY <2>2 DEF HeldInv, HeldOne
      <3> QED
        BY <1>0, <3>1, <3>2 DEF HeldOne
    <2>7. ASSUME NEW v \in Runs, NoneLater(v)' PROVE FileDone(v)'
      <3>1. CASE v = w
        BY <1>2, <3>1 DEF FileDone
      <3>2. CASE v < w
        BY <1>2, <2>7, <3>2, DumpAssumption DEF NoneLater, Runs
      <3>3. CASE w < v
        <4>1. pc[v] = "off" /\ v # w
          BY <1>0, <2>4, <3>3, DumpAssumption DEF OrderInv, Ends, Runs
        <4> QED
          BY <1>2, <4>1 DEF FileDone
      <3> QED
        BY <3>1, <3>2, <3>3, DumpAssumption DEF Runs
    <2>8. \A v \in Runs : Good(file[v])'
      BY <1>0, <2>2 DEF FilesInv, Good
    <2> QED
      BY <2>5, <2>6, <2>7, <2>8 DEF HeldInv, FilesInv
  <1> QED
    BY <1>1, <1>4, <1>5, <1>6 DEF Inv, CleanInv

---------------------------------------------------------------------------
(* The steps of the camera.                                                *)

\* What an answer ends with: a prompt, or one behind a line that lost bytes.
Ending(t) == Item(t, 0, <<>>)

LEMMA EndingFacts ==
  ASSUME NEW t \in {"prompt", "ragged"}
  PROVE  Ending(t) \in Seq(Items) /\ Len(Ending(t)) = 1 /\ Ending(t)[1].k = t
  <1>1. <<>> \in Seq(Values) /\ t \in ItemKinds \ {"md"}
    BY DEF ItemKinds
  <1> QED
    BY <1>1, OneItem DEF Ending

LEMMA ReplyFacts ==
  ASSUME NEW q \in Seq(Items), NEW o \in Seq(Items), NEW t \in {"prompt", "ragged"}
  PROVE  /\ o \o q \o Ending(t) \in Seq(Items) /\ o \o q \o Ending(t) # <<>>
         /\ o = <<>> => /\ Len(o \o q \o Ending(t)) = Len(q) + 1
                        /\ \A i \in 1..Len(q) : (o \o q \o Ending(t))[i] = q[i]
                        /\ (o \o q \o Ending(t))[Len(q) + 1].k = t
  <1> DEFINE p == Ending(t)
  <1>1. p \in Seq(Items) /\ Len(p) = 1 /\ p[1].k = t
    BY EndingFacts
  <1> HIDE DEF p
  <1>2. p \in Seq(Items) /\ Len(p) = 1
    BY <1>1
  <1>3. o \o q \in Seq(Items)
    OBVIOUS
  <1> DEFINE r == o \o q
  <1>4. r \in Seq(Items)
    BY <1>3
  <1>5. o = <<>> => r = q
    OBVIOUS
  <1> HIDE DEF r
  <1>6. r \o p \in Seq(Items) /\ Len(r \o p) = Len(r) + 1 /\ r \o p # <<>>
    <2>0. p \in Seq(Items) /\ Len(r) \in Nat
      BY <1>2, <1>4
    <2>1. r \o p \in Seq(Items)
      BY <1>4, <2>0
    <2>2. Len(r \o p) = Len(r) + Len(p)
      BY <1>4, <2>0
    <2>3. Len(r \o p) # 0
      BY <1>2, <2>0, <2>2
    <2> QED
      BY <1>2, <2>1, <2>2, <2>3
  <1>7. (\A i \in 1..Len(r) : (r \o p)[i] = r[i]) /\ (r \o p)[Len(r) + 1] = p[1]
    <2>0. p \in Seq(Items) /\ Len(r) \in Nat /\ 1 \in 1..Len(p) /\ (Len(r) + 1) - Len(r) = 1
      BY <1>2, <1>4
    <2>1. \A i \in 1..Len(r) : (r \o p)[i] = r[i]
      BY <1>4, <2>0
    <2>2. (r \o p)[Len(r) + 1] = p[1]
      BY <1>4, <2>0
    <2> QED
      BY <2>1, <2>2
  <1> QED
    BY <1>1, <1>5, <1>6, <1>7 DEF r, p

\* The same for the first answer in the line.
LEMMA ReplyAlone ==
  ASSUME NEW q \in Seq(Items), out = <<>>, NEW t \in {"prompt", "ragged"}, out' = out \o q \o Ending(t)
  PROVE  /\ Len(out') = Len(q) + 1 /\ out'[Len(q) + 1].k = t
         /\ \A i \in 1..Len(q) : out'[i] = q[i]
  <1> DEFINE r == <<>> \o q \o Ending(t)
  <1>1. <<>> \in Seq(Items)
    OBVIOUS
  <1>2. Len(r) = Len(q) + 1 /\ r[Len(q) + 1].k = t /\ \A i \in 1..Len(q) : r[i] = q[i]
    BY <1>1, ReplyFacts
  <1>3. out' = r
    OBVIOUS
  <1> HIDE DEF r
  <1> QED
    BY <1>2, <1>3

LEMMA PromptEnds == Prompt = Ending("prompt")
  BY DEF Prompt, Ending

LEMMA HeadFacts ==
  ASSUME NEW S, NEW q \in Seq(S), q # <<>>
  PROVE  Head(q) \in S /\ Tail(q) \in Seq(S)
  OBVIOUS

\* With nothing but the allowed faults a command in the line is that of the
\* dump that waits.
LEMMA CleanAsk ==
  ASSUME Inv, Clean, inbox # <<>>
  PROVE  \E w \in Runs :
           /\ sent[w] /\ inbox = <<Now(w)>> /\ out = <<>> /\ pc[w] \in Asks /\ HeldOne(w) /\ PlaceOne(w)
           /\ \A v \in Runs : sent[v] => v = w
  <1>1. TypeInv /\ OrderInv /\ PlaceInv /\ LineInv /\ HeldInv /\ Serial
    BY DEF Inv, CleanInv, Clean, Allowed, Serial
  <1>2. PICK w \in Runs : sent[w]
    BY <1>1 DEF LineInv
  <1>3. inbox = <<Now(w)>> /\ out = <<>>
    BY <1>1, <1>2 DEF LineInv
  <1>4. pc[w] \in Asks /\ PlaceOne(w) /\ HeldOne(w)
    BY <1>1, <1>2 DEF PlaceInv, PlaceOne, HeldInv
  <1>5. ASSUME NEW v \in Runs, v # w PROVE ~sent[v]
    <2>1. Active(w)
      BY <1>4 DEF Active, Asks
    <2>2. pc[v] \in {"off"} \cup Ends /\ PlaceOne(v)
      BY <1>1, <1>5, <2>1, OneActive DEF PlaceInv
    <2> QED
      BY <2>2 DEF PlaceOne, Ends, Asks
  <1> QED
    BY <1>2, <1>3, <1>4, <1>5

LEMMA CleanReply ==
  ASSUME NEW w \in Runs, sent[w], \A v \in Runs : sent[v] => v = w, sent' = sent, ~hung',
         inbox' = <<>>, out' # <<>>, AnswerOk(w)'
  PROVE  LineInv'
  <1>1. (\A v \in Runs : ~sent'[v]) => inbox' = <<>>
    OBVIOUS
  <1>2. ASSUME NEW v \in Runs, sent'[v]
        PROVE (\/ inbox = <<Now(v)>> /\ out = <<>>
               \/ inbox = <<>> /\ out # <<>> /\ AnswerOk(v))'
    BY <1>2
  <1> QED
    BY <1>1, <1>2 DEF LineInv

LEMMA CameraRefusesStep ==
  ASSUME Inv, CameraRefuses
  PROVE  Inv'
  <1> DEFINE e == Item("error", 0, <<>>)
  <1>0. /\ TypeInv /\ inbox # <<>> /\ inbox' = Tail(inbox) /\ ~hung /\ Head(inbox).op \in {"size", "probe", "read"}
        /\ out' = out \o e \o Ending("prompt") /\ UNCHANGED <<ui, hasCrc, flag, dump, file, ram, hung>>
    BY PromptEnds DEF Inv, CameraRefuses
  <1>1. kinds \subseteq kinds' /\ faults <= faults' /\ faults' \in 0..MaxFaults
    BY <1>0, FaultFacts DEF CameraRefuses
  <1>2. e \in Seq(Items) /\ Len(e) = 1 /\ e[1].k = "error"
    <2>1. <<>> \in Seq(Values) /\ "error" \in ItemKinds \ {"md"}
      BY DEF ItemKinds
    <2> QED
      BY <2>1, OneItem
  <1> HIDE DEF e
  <1>3. inbox \in Seq(Commands) /\ out \in Seq(Items)
    BY <1>0 DEF TypeInv
  <1>4. inbox' \in Seq(Commands) /\ out' \in Seq(Items) /\ out' # <<>>
    BY <1>0, <1>2, <1>3, HeadFacts, ReplyFacts
  <1>5. TypeInv'
    BY <1>0, <1>1, <1>4 DEF TypeInv, dump
  <1>6. ASSUME Clean' PROVE LineInv'
    <2>1. Clean
      BY <1>0, <1>1, <1>5, <1>6, CleanBefore
    <2>2. PICK w \in Runs :
           /\ sent[w] /\ inbox = <<Now(w)>> /\ out = <<>> /\ pc[w] \in Asks
           /\ \A v \in Runs : sent[v] => v = w
      BY <1>0, <2>1, CleanAsk
    <2>3. inbox' = <<>> /\ Head(inbox) = Now(w)
      BY <1>0, <2>2
    <2>4. pc[w] \in {"size", "probe", "read"}
      BY <1>0, <2>3 DEF Now, Cmd
    <2>5. Len(out') = 2 /\ out'[1].k = "error" /\ out'[2].k = "prompt"
      <3>1. /\ Len(out') = Len(e) + 1 /\ (\A i \in 1..Len(e) : out'[i] = e[i]) /\ out'[Len(e) + 1].k = "prompt"
        BY <1>0, <1>2, <2>2, ReplyAlone
      <3>2. 1 \in 1..Len(e) /\ Len(e) + 1 = 2
        BY <1>2
      <3> QED
        BY <1>2, <3>1, <3>2
    <2>6. ~Has("ok")'
      <3>1. DOMAIN out' = 1..2
        BY <1>4, <2>5
      <3>2. \A i \in DOMAIN out' : out'[i].k # "ok"
        BY <2>5, <3>1
      <3> QED
        BY <3>2 DEF Has
    <2>7. AnswerOk(w)'
      BY <1>0, <2>4, <2>6 DEF AnswerOk, dump
    <2> QED
      BY <1>0, <1>4, <2>2, <2>3, <2>7, CleanReply DEF dump
  <1> QED
    BY <1>0, <1>1, <1>5, <1>6, KeepStep

\* The lines md.b prints for the block behind the offset a.
LEMMA BlockLines ==
  ASSUME TypeInv, ram, NEW a \in Nat, NEW n \in 1..Size, a + n <= Size
  PROVE  /\ Lines(a + 1, n) \in Seq(Items) /\ Len(Lines(a + 1, n)) = n
         /\ \A i \in 1..n : /\ Lines(a + 1, n)[i].k = "md" /\ Lines(a + 1, n)[i].addr = a + i
                            /\ Lines(a + 1, n)[i].val[1] = a + i
  <1> DEFINE L == Lines(a + 1, n)
  <1>1. a + 1 \in 1..Size /\ (a + 1) + n - 1 <= Size
    BY DumpAssumption
  <1>2. /\ L \in Seq(Items) /\ Len(L) = n
        /\ \A i \in 1..n : L[i].k = "md" /\ L[i].addr = (a + 1) + i - 1 /\ L[i].val = <<(a + 1) + i - 1>>
    BY <1>1, LineFacts
  <1>3. \A i \in 1..n : (a + 1) + i - 1 = a + i
    BY DumpAssumption
  <1> HIDE DEF L
  <1>4. \A i \in 1..n : L[i].k = "md" /\ L[i].addr = a + i /\ L[i].val = <<a + i>>
    BY <1>2, <1>3
  <1>5. \A i \in 1..n : L[i].val[1] = a + i
    BY <1>4
  <1> QED
    BY <1>2, <1>4, <1>5 DEF L

\* The first m of them are a piece of the flash.
LEMMA ReplyGood ==
  ASSUME TypeInv, ram, NEW a \in Nat, NEW n \in 1..Size, a + n <= Size, NEW o \in Seq(Items), NEW m \in 0..n,
         Len(o) = n + 1, o[n + 1].k = "prompt", \A i \in 1..m : o[i] = Lines(a + 1, n)[i],
         \A i \in (m + 1)..n : o[i].k = "noise"
  PROVE  /\ Len(Parse(o)) = m /\ \A i \in 1..m : Parse(o)[i] = a + i
         /\ Parse(o) = <<>> => m = 0
  <1>1. m \in Nat /\ n \in Nat /\ m <= n /\ \A i \in 1..m : i \in 1..n
    BY DumpAssumption
  <1>2. \A i \in 1..m : o[i].k = "md" /\ o[i].addr = a + i /\ o[i].val[1] = a + i
    <2> DEFINE L == Lines(a + 1, n)
    <2>1. \A i \in 1..n : L[i].k = "md" /\ L[i].addr = a + i /\ L[i].val[1] = a + i
      BY BlockLines
    <2>2. \A i \in 1..m : o[i] = L[i]
      OBVIOUS
    <2> HIDE DEF L
    <2> QED
      BY <1>1, <2>1, <2>2
  <1>3. \A i \in (m + 1)..Len(o) : o[i].k # "md"
    <2>1. \A i \in (m + 1)..Len(o) : i \in (m + 1)..n \/ i = n + 1
      BY <1>1
    <2> QED
      BY <2>1
  <1>4. m \in Nat /\ Len(o) >= m
    BY <1>1
  <1> QED
    BY <1>2, <1>3, <1>4, GoodAnswer

\* With the first and the last of them the answer has the length of the block.
LEMMA ReplyLong ==
  ASSUME NEW a \in Nat, NEW n \in 1..Size, NEW o \in Seq(Items), NEW x \in MdLines(o), NEW y \in MdLines(o),
         o[x].addr = a + 1, o[y].addr = a + n,
         \A i \in MdLines(o) : a + 1 <= o[i].addr /\ o[i].addr <= a + n
  PROVE  Len(Parse(o)) = n
  <1>1. n \in Nat \ {0}
    BY DumpAssumption
  <1>2. a + 1 \in Addrs(o) /\ a + n \in Addrs(o) /\ \A z \in Addrs(o) : a + 1 <= z /\ z <= a + n
    BY DEF Addrs
  <1> QED
    BY <1>1, <1>2, LongAnswer

LEMMA ReplyKept ==
  ASSUME NEW a \in Nat, NEW n \in 1..Size, NEW o \in Seq(Items), Len(o) = n + 1, o[n + 1].k # "md",
         o[1].k = "md", o[n].k = "md", \A i \in 1..n : o[i].k = "md" => o[i].addr = a + i
  PROVE  Len(Parse(o)) = n
  <1>1. n \in Nat /\ 1 \in 1..n /\ n \in 1..n /\ DOMAIN o = 1..(n + 1) /\ \A i \in 1..(n + 1) : i \in 1..n \/ i = n + 1
    BY DumpAssumption
  <1>2. \A i \in MdLines(o) : i \in 1..n /\ o[i].addr = a + i
    BY <1>1 DEF MdLines
  <1>3. \A i \in MdLines(o) : a + 1 <= o[i].addr /\ o[i].addr <= a + n
    BY <1>1, <1>2
  <1>4. 1 \in MdLines(o) /\ n \in MdLines(o)
    BY <1>1 DEF MdLines
  <1>5. o[1].addr = a + 1 /\ o[n].addr = a + n
    BY <1>2, <1>4
  <1> QED
    BY <1>3, <1>4, <1>5, ReplyLong

\* What CameraRuns leaves in the line, in two forms.
Whole(p) == out' = out \o p \o Ending("prompt") /\ faults' = faults /\ kinds' = kinds
Marred(p, op, lost, bad, t) ==
  /\ lost \subseteq 1..Len(p) /\ bad \subseteq 1..Len(p) /\ lost \cup bad # {} /\ t \in {"prompt", "ragged"}
  /\ op # "md" => bad = {}
  /\ out' = out \o Garbled(p, lost, bad) \o Ending(t)
  /\ Fault(Harm(op, Len(p), lost, bad, t))
Harmed(p, op) == \E lost, bad, t : Marred(p, op, lost, bad, t)

LEMMA CameraForms ==
  ASSUME TypeInv, CameraRuns
  PROVE  LET c == Head(inbox)
             p == Prints(c)
         IN  /\ inbox # <<>> /\ ~hung /\ inbox' = Tail(inbox) /\ ram' = (ram \/ c.op = "read")
             /\ UNCHANGED <<ui, hasCrc, flag, dump, file, hung>>
             /\ c \in Commands /\ p \in Seq(Items)
             /\ Whole(p) \/ Harmed(p, c.op)
  <1> DEFINE c == Head(inbox)
             p == Prints(c)
  <1>1. inbox # <<>> /\ inbox \in Seq(Commands)
    BY DEF CameraRuns, TypeInv
  <1>2. c \in Commands
    BY <1>1, HeadFacts
  <1>3. p \in Seq(Items)
    BY <1>2, PrintsType
  <1>4. DOMAIN p = 1..Len(p)
    BY <1>3
  <1>5. Whole(p) \/ Harmed(p, c.op)
    <2> DEFINE Case(lost, bad, t) ==
                 /\ lost \cup bad # {} /\ lost \cap bad = {}
                 /\ c.op # "md" => bad = {}
                 /\ t = "ragged" => Len(p) \in bad
                 /\ out' = out \o Garbled(p, lost, bad) \o Item(t, 0, <<>>)
                 /\ Fault(Harm(c.op, Len(p), lost, bad, t))
    <2>1. \/ out' = out \o p \o Prompt /\ UNCHANGED <<faults, kinds>>
          \/ \E lost, bad \in SUBSET DOMAIN p, t \in {"prompt", "ragged"} : Case(lost, bad, t)
      BY DEF CameraRuns
    <2>2. CASE out' = out \o p \o Prompt /\ UNCHANGED <<faults, kinds>>
      <3> HIDE DEF c, p
      <3> QED
        BY <2>2, PromptEnds DEF Whole
    <2>3. ASSUME NEW lost \in SUBSET DOMAIN p, NEW bad \in SUBSET DOMAIN p, NEW t \in {"prompt", "ragged"}, Case(lost, bad, t)
          PROVE  Harmed(p, c.op)
      <3> HIDE DEF c, p
      <3>1. Marred(p, c.op, lost, bad, t)
        BY <1>4, <2>3 DEF Marred, Ending
      <3> QED
        BY <3>1 DEF Harmed
    <2> HIDE DEF Case
    <2> QED
      BY <2>1, <2>2, <2>3
  <1>6. /\ inbox # <<>> /\ ~hung /\ inbox' = Tail(inbox) /\ ram' = (ram \/ c.op = "read")
        /\ UNCHANGED <<ui, hasCrc, flag, dump, file, hung>>
    BY DEF CameraRuns
  <1> QED
    BY <1>2, <1>3, <1>5, <1>6

LEMMA CameraType ==
  ASSUME TypeInv, CameraRuns
  PROVE  /\ TypeInv' /\ out' # <<>>
         /\ kinds \subseteq kinds' /\ faults <= faults'
  <1> DEFINE c == Head(inbox)
             p == Prints(c)
  <1>1. /\ inbox # <<>> /\ inbox' = Tail(inbox) /\ ram' = (ram \/ c.op = "read")
        /\ UNCHANGED <<ui, hasCrc, flag, dump, file, hung>>
        /\ c \in Commands /\ p \in Seq(Items)
        /\ Whole(p) \/ Harmed(p, c.op)
    BY CameraForms
  <1>2. inbox \in Seq(Commands) /\ out \in Seq(Items)
    BY DEF TypeInv
  <1>3. inbox' \in Seq(Commands)
    BY <1>1, <1>2, HeadFacts
  <1>4. \E kind : (faults' = faults /\ kinds' = kinds) \/ Fault(kind)
    <2> HIDE DEF c, p
    <2> QED
      BY <1>1 DEF Whole, Harmed, Marred
  <1>5. faults' \in 0..MaxFaults /\ faults <= faults' /\ kinds \subseteq kinds'
    BY <1>4, FaultFacts, DumpAssumption DEF TypeInv
  <1>6. \A i \in 1..Len(p) : c.op = "md" => p[i].k = "md"
    <2>1. c.op = "md" => p = Lines(c.addr, c.n)
      BY DEF Prints
    <2> HIDE DEF p
    <2> QED
      BY <1>1, <2>1, CommandFacts, LineFacts
  <1> HIDE DEF p, c
  <1>7. PICK q \in Seq(Items), t \in {"prompt", "ragged"} : out' = out \o q \o Ending(t)
    <2>1. CASE Whole(p)
      BY <1>1, <2>1 DEF Whole
    <2>2. CASE Harmed(p, c.op)
      <3>1. PICK lost, bad, t : Marred(p, c.op, lost, bad, t)
        BY <2>2 DEF Harmed
      <3>2. \A i \in bad : i \in 1..Len(p) => p[i].k = "md"
        BY <1>6, <3>1 DEF Marred
      <3>3. Garbled(p, lost, bad) \in Seq(Items)
        BY <1>1, <3>2, GarbledFacts
      <3> QED
        BY <3>1, <3>3 DEF Marred
    <2> QED
      BY <1>1, <2>1, <2>2
  <1>8. out' \in Seq(Items) /\ out' # <<>>
    BY <1>2, <1>7, ReplyFacts
  <1>9. ram' \in BOOLEAN
    BY <1>1
  <1> QED
    BY <1>1, <1>3, <1>5, <1>8, <1>9 DEF TypeInv, dump

\* The answer of md.b to a dump that waits for it.
LEMMA MdAnswerOk ==
  ASSUME TypeInv, TypeInv', NEW w \in Runs, pc[w] = "md", PlaceOne(w), HeldOne(w), out = <<>>, Clean',
         UNCHANGED <<ui, hasCrc, dump, file>>,
         LET p == Lines(off[w] + 1, Remaining(w)) IN Whole(p) \/ Harmed(p, "md")
  PROVE  MdOk(w, Parse(out))' /\ ~Has("ragged")'
  <1> DEFINE a == off[w]
             n == Remaining(w)
             p == Lines(a + 1, n)
  <1>1. a \in Nat /\ n \in 1..Size /\ a + n <= Size /\ n \in Nat /\ n >= 1
    BY RemainingFacts, DumpAssumption DEF PlaceOne, Places
  <1>2. ram /\ att[w] <= faults /\ att[w] \in Nat /\ faults \in Nat
    BY DumpAssumption DEF HeldOne, TypeInv
  <1>3. p \in Seq(Items) /\ Len(p) = n /\ \A i \in 1..n : p[i].k = "md" /\ p[i].addr = a + i
    BY <1>1, <1>2, BlockLines
  <1>4. /\ off'[w] = a /\ att'[w] = att[w] /\ hasCrc' = hasCrc /\ Remaining(w)' = n
    BY DEF dump, Remaining
  <1>5. Whole(p) \/ Harmed(p, "md")
    OBVIOUS
  <1>6. out' \in Seq(Items) /\ <<>> \in Seq(Items)
    BY DEF TypeInv
  <1> DEFINE g == Parse(out')
             P(m) == Len(g) = m /\ (\A i \in 1..m : g[i] = a + i) /\ (g = <<>> => m = 0)
  <1>7. ASSUME NEW m \in 0..n, P(m), m = 0 => att[w] < faults' PROVE MdOk(w, Parse(out))'
    <2>1. Segment(w, Parse(out))'
      <3>1. Len(g) <= n /\ \A i \in 1..Len(g) : g[i] = a + i
        BY <1>1, <1>7
      <3> QED
        BY <1>4, <3>1 DEF Segment
    <2>2. Parse(out') = <<>> => att'[w] < faults'
      BY <1>4, <1>7
    <2> QED
      BY <2>1, <2>2 DEF MdOk
  <1>8. ASSUME Len(g) = n, hasCrc, att[w] < faults' PROVE MdOk(w, Parse(out))'
    BY <1>4, <1>8 DEF MdOk
  <1>9. ASSUME Len(out') = n + 1, out'[n + 1].k = "prompt", \A i \in 1..n : out'[i].k \in {"md", "noise"}
        PROVE  ~Has("ragged")'
    <2>1. DOMAIN out' = 1..(n + 1) /\ \A i \in 1..(n + 1) : i \in 1..n \/ i = n + 1
      BY <1>1, <1>6, <1>9
    <2>2. \A i \in DOMAIN out' : out'[i].k # "ragged"
      BY <1>9, <2>1
    <2> QED
      BY <2>2 DEF Has
  <1>10. CASE Whole(p)
    <2> HIDE DEF p
    <2>1. /\ Len(out') = Len(p) + 1 /\ (\A i \in 1..Len(p) : out'[i] = p[i]) /\ out'[Len(p) + 1].k = "prompt"
      BY <1>3, <1>10, ReplyAlone DEF Whole
    <2>2. n \in 0..n /\ Len(out') = n + 1 /\ out'[n + 1].k = "prompt" /\ \A i \in 1..n : out'[i] = p[i]
      BY <1>1, <1>3, <2>1
    <2>3. \A i \in (n + 1)..n : out'[i].k = "noise"
      BY <1>1
    <2>4. P(n)
      BY <1>1, <1>2, <1>6, <2>2, <2>3, ReplyGood DEF p
    <2>5. n # 0
      BY <1>1
    <2>6. \A i \in 1..n : out'[i].k \in {"md", "noise"}
      BY <1>3, <2>2
    <2> QED
      BY <1>7, <1>9, <2>2, <2>4, <2>5, <2>6
  <1>11. CASE Harmed(p, "md")
    <2> HIDE DEF p
    <2>1. PICK lost, bad, t : Marred(p, "md", lost, bad, t)
      BY <1>11 DEF Harmed
    <2> DEFINE K == Harm("md", Len(p), lost, bad, t)
    <2>2. K \in kinds' /\ faults' = faults + 1
      <3>1. Fault(K)
        BY <2>1 DEF Marred
      <3> HIDE DEF K
      <3> QED
        BY <3>1, FaultFacts
    <2>3. K \in {"tail", "kill", "error"} \/ (hasCrc /\ K \in {"damage", "gap"})
      <3>1. kinds' \subseteq ({"tail", "kill", "error"} \cup IF hasCrc THEN {"damage", "gap"} ELSE {})
        BY <1>4 DEF Clean, Allowed
      <3> HIDE DEF K
      <3> QED
        BY <2>2, <3>1
    <2>4. att[w] < faults'
      BY <1>2, <2>2
    <2>5. t = "prompt" /\ \/ hasCrc /\ 1 \notin lost /\ n \notin lost
                          \/ bad = {} /\ \E m \in 0..(n - 1) : lost = (m + 1)..n
      <3>1. Len(p) = n /\ t \in {"prompt", "ragged"}
        BY <1>3, <2>1 DEF Marred
      <3> QED
        BY <2>3, <3>1 DEF Harm
    <2> DEFINE q == Garbled(p, lost, bad)
    <2>6. /\ q \in Seq(Items) /\ Len(q) = n
          /\ \A j \in 1..n : /\ j \in lost => q[j].k = "noise"
                             /\ j \notin lost => q[j].k = p[j].k /\ q[j].addr = p[j].addr
                             /\ j \notin lost /\ j \notin bad => q[j] = p[j]
      <3>1. \A i \in bad : i \in 1..Len(p) => p[i].k = "md"
        BY <1>3
      <3> QED
        BY <1>3, <3>1, GarbledFacts
    <2>7. out' = out \o q \o Ending("prompt")
      BY <2>1, <2>5 DEF Marred
    <2> HIDE DEF q
    <2>8. Len(out') = n + 1 /\ (\A i \in 1..n : out'[i] = q[i]) /\ out'[n + 1].k = "prompt"
      <3>1. /\ Len(out') = Len(q) + 1 /\ (\A i \in 1..Len(q) : out'[i] = q[i]) /\ out'[Len(q) + 1].k = "prompt"
        BY <2>6, <2>7, ReplyAlone
      <3> QED
        BY <2>6, <3>1
    <2>9. \A i \in 1..n : out'[i].k \in {"md", "noise"} /\ (out'[i].k = "md" => out'[i].addr = a + i)
      BY <1>3, <2>6, <2>8
    <2>10. ~Has("ragged")'
      BY <1>9, <2>8, <2>9
    <2>11. CASE hasCrc /\ 1 \notin lost /\ n \notin lost
      <3>1. out'[1].k = "md" /\ out'[n].k = "md"
        <4>1. 1 \in 1..n /\ n \in 1..n
          BY <1>1
        <4> QED
          BY <1>3, <2>6, <2>8, <2>11, <4>1
      <3>2. out'[n + 1].k # "md" /\ \A i \in 1..n : out'[i].k = "md" => out'[i].addr = a + i
        BY <2>8, <2>9
      <3>3. Len(g) = n
        BY <1>1, <1>6, <2>8, <3>1, <3>2, ReplyKept
      <3> QED
        BY <1>8, <2>4, <2>10, <2>11, <3>3
    <2>12. CASE bad = {} /\ \E m \in 0..(n - 1) : lost = (m + 1)..n
      <3>1. PICK m \in 0..(n - 1) : lost = (m + 1)..n
        BY <2>12
      <3>2. m \in 0..n /\ (\A i \in 1..m : i \in 1..n /\ i \notin lost) /\ \A i \in (m + 1)..n : i \in 1..n /\ i \in lost
        BY <1>1, <3>1
      <3>3. (\A i \in 1..m : out'[i] = p[i]) /\ \A i \in (m + 1)..n : out'[i].k = "noise"
        BY <2>6, <2>8, <2>12, <3>2
      <3>4. P(m)
        <4>1. m \in 0..n /\ Len(out') = n + 1 /\ out'[n + 1].k = "prompt"
          BY <2>8, <3>2
        <4>2. (\A i \in 1..m : out'[i] = p[i]) /\ \A i \in (m + 1)..n : out'[i].k = "noise"
          BY <3>3
        <4> HIDE <3>1, <2>12
        <4> QED
          BY <1>1, <1>2, <1>6, <4>1, <4>2, ReplyGood DEF p
      <3> QED
        BY <1>7, <2>4, <2>10, <3>2, <3>4
    <2> QED
      BY <2>5, <2>11, <2>12
  <1> QED
    BY <1>5, <1>10, <1>11

\* The answers of the other commands.
LEMMA OtherAnswerOk ==
  ASSUME TypeInv, TypeInv', NEW w \in Runs, pc[w] \in Asks \ {"md"}, PlaceOne(w), HeldOne(w), out = <<>>, Clean',
         UNCHANGED <<ui, hasCrc, dump, file>>, ram' = (ram \/ pc[w] = "read"),
         Whole(Prints(Now(w))) \/ Harmed(Prints(Now(w)), pc[w])
  PROVE  AnswerOk(w)'
  <1> DEFINE p == Prints(Now(w))
  <1>0. pc' = pc /\ off' = off /\ hasCrc' = hasCrc /\ pc[w] # "md" /\ Now(w).op = pc[w]
    BY DEF dump, Now, Cmd
  <1>1. "answer" \notin kinds'
    BY DEF Clean, Allowed
  <1>2. Whole(p)
    <2> SUFFICES ASSUME Harmed(p, pc[w]) PROVE FALSE
      OBVIOUS
    <2> HIDE DEF p
    <2>1. Fault("answer")
      BY <1>0 DEF Harmed, Marred, Harm
    <2> QED
      BY <1>1, <2>1, FaultFacts
  <1>3. p \in Seq(Items)
    BY NowType, PrintsType
  <1>4. out' = out \o p \o Ending("prompt") /\ <<>> \in Seq(Items) /\ out' \in Seq(Items)
    BY <1>2 DEF Whole, TypeInv
  <1>5. /\ Len(out') = Len(p) + 1 /\ (\A i \in 1..Len(p) : out'[i] = p[i]) /\ out'[Len(p) + 1].k = "prompt"
    <2> HIDE DEF p
    <2> QED
      BY <1>3, <1>4, ReplyAlone
  <1>6. CASE pc[w] = "read"
    <2>1. ram' = TRUE
      BY <1>6
    <2> QED
      BY <1>0, <1>6, <2>1 DEF AnswerOk
  <1>7. CASE pc[w] = "detect"
    <2> DEFINE k == IF hasCrc THEN "ok" ELSE "unknown"
    <2>1. p = Item(k, 0, <<>>)
      BY <1>0, <1>7 DEF Prints
    <2>2. <<>> \in Seq(Values) /\ k \in ItemKinds \ {"md"}
      BY DEF ItemKinds
    <2> HIDE DEF p, k
    <2>3. Len(p) = 1 /\ p[1].k = k
      BY <2>1, <2>2, OneItem
    <2>4. Len(out') = 2 /\ out'[1].k = k /\ out'[2].k = "prompt"
      <3>1. 1 \in 1..Len(p) /\ Len(p) + 1 = 2
        BY <2>3
      <3> QED
        BY <1>5, <2>3, <3>1
    <2>5. DOMAIN out' = 1..2
      BY <1>4, <2>4
    <2>6. (\E i \in DOMAIN out' : out'[i].k = "unknown") <=> k = "unknown"
      BY <2>4, <2>5
    <2>7. Has("unknown")' <=> ~hasCrc
      BY <2>6 DEF Has, k
    <2>8. pc'[w] = "detect" /\ hasCrc' = hasCrc
      BY <1>0, <1>7
    <2> QED
      BY <2>7, <2>8 DEF AnswerOk
  <1>8. CASE pc[w] = "crc"
    <2> DEFINE n == Remaining(w)
               a == off[w]
               v == [i \in 1..n |-> IF ram THEN (a + 1) + i - 1 ELSE Zero]
    <2>1. ram /\ off[w] < Size
      BY <1>8 DEF HeldOne, PlaceOne, Places
    <2>2. a \in Nat /\ n \in 1..Size /\ a + n <= Size
      BY <2>1, RemainingFacts
    <2>3. p = Item("crc", 0, v)
      <3>1. Now(w) = [by |-> w, op |-> "crc", addr |-> a + 1, n |-> n]
        BY <1>8 DEF Now, Cmd
      <3>2. Now(w).op = "crc" /\ Now(w).addr = a + 1 /\ Now(w).n = n
        BY <3>1
      <3>3. hasCrc
        BY <1>8 DEF HeldOne
      <3> QED
        BY <3>2, <3>3 DEF Prints
    <2>4. v \in Seq(Values)
      <3>1. a + 1 \in 1..Size /\ (a + 1) + n - 1 <= Size
        BY <2>2, DumpAssumption
      <3> QED
        BY <2>2, <3>1, SumFacts
    <2>5. v = NextBlock(w)
      <3>1. \A i \in 1..n : (a + 1) + i - 1 = a + i
        BY <2>2, DumpAssumption
      <3>2. v = [i \in 1..n |-> a + i]
        BY <2>1, <3>1
      <3> QED
        BY <3>2 DEF NextBlock
    <2> HIDE DEF v, p
    <2>6. Len(p) = 1 /\ p[1].k = "crc" /\ p[1].val = v
      <3>1. "crc" \in ItemKinds \ {"md"}
        BY DEF ItemKinds
      <3> QED
        BY <2>3, <2>4, <3>1, OneItem
    <2>7. out'[1].k = "crc" /\ out'[1].val = v
      <3>1. 1 \in 1..Len(p)
        BY <2>6
      <3> QED
        BY <1>5, <2>6, <3>1
    <2>8. NextBlock(w)' = NextBlock(w)
      BY <1>0 DEF NextBlock, Remaining
    <2>9. pc'[w] = "crc"
      BY <1>0, <1>8
    <2> QED
      BY <2>5, <2>7, <2>8, <2>9 DEF AnswerOk
  <1>9. CASE pc[w] \notin {"read", "detect", "crc"}
    BY <1>0, <1>9 DEF AnswerOk
  <1> QED
    BY <1>6, <1>7, <1>8, <1>9

LEMMA CameraRunsStep ==
  ASSUME Inv, CameraRuns
  PROVE  Inv'
  <1> DEFINE c == Head(inbox)
             p == Prints(c)
  <1>0. TypeInv
    BY DEF Inv
  <1>1. /\ inbox # <<>> /\ ~hung /\ inbox' = Tail(inbox) /\ ram' = (ram \/ c.op = "read")
        /\ UNCHANGED <<ui, hasCrc, flag, dump, file, hung>>
        /\ Whole(p) \/ Harmed(p, c.op)
    BY <1>0, CameraForms
  <1>2. TypeInv' /\ out' # <<>> /\ kinds \subseteq kinds' /\ faults <= faults'
    BY <1>0, CameraType
  <1>3. ASSUME Clean' PROVE LineInv'
    <2>1. Clean
      BY <1>0, <1>1, <1>2, <1>3, CleanBefore
    <2>2. PICK w \in Runs :
           /\ sent[w] /\ inbox = <<Now(w)>> /\ out = <<>> /\ pc[w] \in Asks /\ HeldOne(w) /\ PlaceOne(w)
           /\ \A v \in Runs : sent[v] => v = w
      BY <1>1, <2>1, CleanAsk
    <2>3. inbox' = <<>> /\ c = Now(w)
      BY <1>1, <2>2
    <2>4. c.op = pc[w]
      BY <2>3 DEF Now, Cmd
    <2>5. p = Prints(Now(w))
      BY <2>3
    <2>6. CASE pc[w] = "md"
      <3> DEFINE l == Lines(off[w] + 1, Remaining(w))
      <3>1. p = l
        <4>1. Now(w) = [by |-> w, op |-> "md", addr |-> off[w] + 1, n |-> Remaining(w)]
          BY <2>6 DEF Now, Cmd
        <4>2. Now(w).op = "md" /\ Now(w).addr = off[w] + 1 /\ Now(w).n = Remaining(w)
          BY <4>1
        <4> QED
          BY <2>5, <4>2 DEF Prints
      <3> HIDE DEF p, c
      <3>2. Whole(l) \/ Harmed(l, "md")
        BY <1>1, <2>4, <2>6, <3>1
      <3>3. MdOk(w, Parse(out))' /\ ~Has("ragged")'
        BY <1>0, <1>1, <1>2, <1>3, <2>2, <2>6, <3>2, MdAnswerOk
      <3>4. pc'[w] = "md"
        BY <1>1, <2>6 DEF dump
      <3>5. AnswerOk(w)'
        BY <3>3, <3>4 DEF AnswerOk
      <3> QED
        BY <1>1, <1>2, <2>2, <2>3, <3>5, CleanReply DEF dump
    <2>7. CASE pc[w] # "md"
      <3> HIDE DEF p, c
      <3>1. Whole(Prints(Now(w))) \/ Harmed(Prints(Now(w)), pc[w])
        BY <1>1, <2>4, <2>5, <2>7
      <3>2. ram' = (ram \/ pc[w] = "read")
        BY <1>1, <2>4
      <3>3. AnswerOk(w)'
        BY <1>0, <1>1, <1>2, <1>3, <2>2, <2>7, <3>1, <3>2, OtherAnswerOk
      <3> QED
        BY <1>1, <1>2, <2>2, <2>3, <3>3, CleanReply DEF dump
    <2> QED
      BY <2>6, <2>7
  <1>4. ram => ram'
    BY <1>1
  <1> QED
    BY <1>1, <1>2, <1>3, <1>4, KeepStep

---------------------------------------------------------------------------
(* The theorems.                                                           *)

LEMMA InitInv == Init => Inv
  <1> SUFFICES ASSUME Init PROVE Inv
    OBVIOUS
  <1>1. <<>> \in Seq(Values) /\ <<>> \in Seq(Commands) /\ <<>> \in Seq(Items) /\ 0 \in 0..MaxFaults /\ 0 \in 0..MaxRetries
    BY DumpAssumption
  <1>2. TypeInv
    <2>1. pc \in [Runs -> PCs] /\ sent \in [Runs -> BOOLEAN] /\ off \in [Runs -> Nat] /\ att \in [Runs -> 0..MaxRetries]
      BY <1>1 DEF Init, PCs
    <2>2. crc \in [Runs -> BOOLEAN] /\ chunk \in [Runs -> Seq(Values)] /\ file \in [Runs -> Seq(Values)]
      BY <1>1 DEF Init
    <2>3. ui \in {"cli", "tui"}
      BY DumpAssumption DEF Init
    <2> QED
      BY <1>1, <2>1, <2>2, <2>3 DEF Init, TypeInv
  <1>3. \A w \in Runs : pc[w] = "off" /\ sent[w] = FALSE /\ att[w] = 0 /\ file[w] = <<>>
    BY DEF Init
  <1>4. OrderInv
    BY <1>3 DEF OrderInv
  <1>5. PlaceInv
    BY <1>3 DEF PlaceInv, PlaceOne, Places
  <1>6. LineInv
    BY <1>3 DEF LineInv, Init
  <1>7. HeldInv
    <2>1. 0 <= faults
      BY DEF Init
    <2> QED
      BY <1>3, <2>1 DEF HeldInv, HeldOne
  <1>8. FilesInv
    <2>1. Good(<<>>)
      BY DumpAssumption DEF Good
    <2> QED
      BY <1>3, <2>1 DEF FilesInv, FileDone
  <1> QED
    BY <1>2, <1>4, <1>5, <1>6, <1>7, <1>8 DEF Inv, CleanInv

LEMMA StutterStep ==
  ASSUME Inv, UNCHANGED vars
  PROVE  Inv'
  <1>0. UNCHANGED <<ui, hasCrc, flag, dump, file, camera, faults, kinds>>
    BY DEF vars, ghosts
  <1>1. TypeInv'
    BY <1>0 DEF Inv, TypeInv, dump, camera
  <1>2. faults <= faults' /\ kinds \subseteq kinds' /\ ram' = ram
    BY <1>0, DumpAssumption DEF Inv, TypeInv, camera
  <1>3. Clean' => LineInv'
    BY <1>0, LineKept
  <1> QED
    BY <1>0, <1>1, <1>2, <1>3, KeepStep

\* Every step keeps the invariant.
LEMMA NextInv ==
  ASSUME Inv, [Next]_vars
  PROVE  Inv'
  <1>1. ASSUME NEW w \in Runs, DumpStep(w) PROVE Inv'
    BY <1>1, BeginStep, SendStep, DetectStep, ProbeStep, SfReadStep, SanityStep, ResumeStep,
       MdAnsweredStep, NudgedStep, CrcAnsweredStep, WriteStep, CleanupStep DEF DumpStep
  <1>2. ASSUME NEW w \in Runs, StartDump(w) \/ MdRaised(w) \/ CrcRaised(w) \/ SetupRaised(w) \/ Killed(w) PROVE Inv'
    BY <1>2, StartDumpStep, MdRaisedStep, CrcRaisedStep, SetupRaisedStep, KilledStep
  <1>3. CASE CameraRuns \/ CameraRefuses \/ Hang \/ Cancel
    BY <1>3, CameraRunsStep, CameraRefusesStep, HangStep, CancelStep
  <1>4. CASE UNCHANGED vars
    BY <1>4, StutterStep
  <1> QED
    BY <1>1, <1>2, <1>3, <1>4 DEF Next, Ended

\* Inv holds in every state: the types, the order of the dumps, their places
\* in flash and file, and, under the faults dump_flash is to stand, what the
\* line, the held block and the files hold.
THEOREM Invariance == Spec => []Inv
  <1>1. Init => Inv
    BY InitInv
  <1>2. Inv /\ [Next]_vars => Inv'
    BY NextInv
  <1> QED
    BY <1>1, <1>2, PTL DEF Spec

\* The variables of dump_flash and its callers keep their types: the attempts
\* never pass max_retries, and what is written to a file are values of lines.
THEOREM TypeCorrect == Spec => []TypeOK
  <1>1. Inv => TypeOK
    BY DEF Inv, TypeInv, TypeOK, Values
  <1> QED
    BY <1>1, Invariance, PTL

\* Killed runs, refused commands, answers without their last line and, with
\* crc32, damaged values and gaps never show in the file dump_flash writes, as
\* long as there are no more of them than retries, for every size of flash and
\* block and any number of runs.
THEOREM FileHolds == Spec => []FileIsFlash
  <1>1. Inv => FileIsFlash
    <2> SUFFICES ASSUME Inv, Clean, NEW w \in Runs
                 PROVE  /\ IsPrefix(file[w], Flash)
                        /\ (pc[w] = "done" /\ \A v \in Runs : v > w => pc[v] = "off") => file[FileOf(w)] = Flash
      BY DEF FileIsFlash, Clean, Allowed
    <2>1. FilesInv /\ TypeInv
      BY DEF Inv, CleanInv
    <2>2. Flash \in Seq(Values) /\ Len(Flash) = Size /\ \A i \in 1..Size : Flash[i] = i
      <3>1. \A i \in 1..Size : i \in Values
        BY DumpAssumption DEF Values, Damaged
      <3> QED
        BY <3>1, DumpAssumption DEF Flash
    <2>3. IsPrefix(file[w], Flash)
      <3> DEFINE f == file[w]
      <3>1. f \in Seq(Values) /\ Len(f) <= Size /\ \A i \in 1..Len(f) : f[i] = i
        BY <2>1 DEF TypeInv, FilesInv, Good
      <3> HIDE DEF f
      <3>2. f \in Seq(Values) /\ Len(f) \in Nat /\ Len(f) <= Len(Flash) /\ Flash \in Seq(Values)
        BY <2>2, <3>1
      <3>3. SubSeq(f, 1, Len(f)) = [i \in 1..Len(f) |-> f[i]]
        BY <3>2
      <3>4. SubSeq(Flash, 1, Len(f)) = [i \in 1..Len(f) |-> Flash[i]]
        BY <3>2
      <3>5. \A i \in 1..Len(f) : f[i] = Flash[i]
        BY <2>2, <3>1, <3>2, DumpAssumption
      <3>6. SubSeq(f, 1, Len(f)) = SubSeq(Flash, 1, Len(f))
        BY <3>3, <3>4, <3>5
      <3> QED
        BY <3>2, <3>6 DEF IsPrefix, f
    <2>4. ASSUME pc[w] = "done", \A v \in Runs : v > w => pc[v] = "off" PROVE file[FileOf(w)] = Flash
      <3> DEFINE f == file[FileOf(w)]
      <3>1. Len(f) = Size
        BY <2>1, <2>4 DEF FilesInv, FileDone, NoneLater
      <3>2. f \in Seq(Values) /\ \A i \in 1..Len(f) : f[i] = i
        BY <2>1, FileOfType DEF TypeInv, FilesInv, Good
      <3> HIDE DEF f
      <3>3. f = [i \in 1..Size |-> f[i]]
        BY <3>1, <3>2
      <3>4. [i \in 1..Size |-> f[i]] = [i \in 1..Size |-> i]
        BY <3>1, <3>2
      <3> QED
        BY <3>3, <3>4 DEF Flash, f
    <2> QED
      BY <2>3, <2>4
  <1> QED
    BY <1>1, Invariance, PTL
=============================================================================
