------------------------- MODULE FlashStreamProofs -------------------------
(***************************************************************************)
(* Proofs about FlashStream for every flash geometry, image, packet-loss   *)
(* and fault bound.                                                        *)
(***************************************************************************)
EXTENDS FlashStream, TLAPS

Running == {"recv", "flush", "flushSkip", "flushLast", "eraseSkip", "ack"}

\* The host is inside its loop over the sectors, or behind it.
Streaming == hpc \in {"send", "progress", "final"}

\* The image's geometry.
ImgInv ==
  /\ (img.ns = 0) <=> (img.last = 0)
  /\ session # "none" => ~Rejected

\* Where write_flash is tells how much of sector hs it has sent.
HostInv ==
  /\ hs <= img.ns
  /\ hpc \in {"start", "ack"} => hs = 0 /\ hsent = 0
  /\ hpc = "send" => hs < img.ns /\ HasData(img, hs) /\ hsent < PagesOf(img, hs)
  /\ hpc = "progress" =>
       hs < img.ns /\ hsent = (IF HasData(img, hs) THEN PagesOf(img, hs) ELSE 0)
  /\ hpc = "final" => hs = img.ns /\ hsent = 0
  /\ hsent > 0 => hs < img.ns /\ HasData(img, hs) /\ hsent <= PagesOf(img, hs)

\* Before the agent has accepted the request nothing but the request is under
\* way, and no positive reply.
FreshInv ==
  session = "none" =>
    /\ ~Streaming /\ hpc # "true"
    /\ Len(h2a) <= (IF hpc = "start" THEN 0 ELSE 1)
    /\ emitted = 0 /\ apc \in {"idle", "dead"}
    /\ \A i \in 1..Len(a2h) : a2h[i].t \in {"READY", "ERR"}

\* Afterwards the packets under way are pages of the host's sector, in order:
\* a packet that is missing leaves a gap in the page numbers, never a swap.
WireInv ==
  session # "none" =>
    /\ hpc # "start"
    /\ \A i \in 1..Len(h2a) :
         h2a[i].t # "STREAM" /\ h2a[i].s = hs /\ h2a[i].p \in 1..hsent
    /\ \A i, j \in 1..Len(h2a) : i < j => h2a[j].p - h2a[i].p >= j - i

\* The host is never ahead of the sectors the agent has reported, and what it
\* sent for a reported sector has been read.
SyncInv ==
  /\ hs <= emitted /\ emitted <= img.ns
  /\ \A s \in hs+1..emitted-1 : ~HasData(img, s)
  /\ session # "none" /\ hs < emitted =>
       h2a = <<>> /\ (HasData(img, hs) => hsent = PagesOf(img, hs))

\* Replies: progress packets number the sectors in order, none of them is older
\* than the host's sector, and an ACK_OK read inside the loop is the final one.
ReplyInv ==
  /\ \A i \in 1..Len(a2h) : a2h[i].t = "PROG" => hs < a2h[i].n /\ a2h[i].n <= emitted
  /\ \A i, j \in 1..Len(a2h) :
       i < j /\ a2h[i].t = "PROG" /\ a2h[j].t = "PROG" => a2h[i].n < a2h[j].n
  /\ session # "ok" =>
       /\ hpc # "true"
       /\ Streaming => \A i \in 1..Len(a2h) : a2h[i].t # "OK"
       /\ \A i, j \in 1..Len(a2h) : i < j => ~(a2h[i].t = "OK" /\ a2h[j].t = "OK")

\* The agent's loop.
AgentInv ==
  /\ apc \in Running => session = "open"
  /\ apc \in {"recv", "flushSkip", "eraseSkip"} => asec < img.ns /\ emitted = asec
  /\ apc = "flush" => asec < img.ns /\ emitted = asec + 1
  /\ apc \in {"flushLast", "ack"} => asec = img.ns /\ emitted = asec
  /\ apc \in {"recv", "flush"} => HasData(img, asec)
  /\ apc \in {"flushSkip", "eraseSkip"} => ~HasData(img, asec)
  /\ apc \in {"flushSkip", "flushLast"} => HasPend
  /\ apc = "eraseSkip" => ~HasPend
  /\ apc \in Running /\ aop = "program" =>
       HasPend /\ apc \in {"flush", "flushSkip", "flushLast"}
  /\ apc \in {"idle"} => aop = "erase"

\* What is being received, together with what is still under way, are pages of
\* the sector in order; a full buffer therefore holds every page.
RecvInv ==
  apc = "recv" =>
    /\ Len(buf[rx]) < PagesOf(img, asec)
    /\ \A i \in 1..Len(buf[rx]) :
         buf[rx][i][1] = asec /\ buf[rx][i][2] >= i
    /\ \A i, j \in 1..Len(buf[rx]) :
         i < j => buf[rx][j][2] - buf[rx][i][2] >= j - i
    /\ Len(buf[rx]) > 0 => hs = asec
    /\ hs = asec =>
         \A i \in 1..Len(buf[rx]) : buf[rx][i][2] <= hsent
    /\ hs = asec =>
         \A j \in 1..Len(h2a) :
           /\ h2a[j].p >= Len(buf[rx]) + j
           /\ \A i \in 1..Len(buf[rx]) :
                h2a[j].p - buf[rx][i][2] >= Len(buf[rx]) + j - i

Holds(b, s) ==
  /\ Len(buf[b]) = PagesOf(img, s)
  /\ \A p \in 1..PagesOf(img, s) : buf[b][p] = <<s, p>>

BufferInv ==
  /\ apc = "flush" => Holds(rx, asec)
  /\ session = "open" /\ HasPend =>
       pend.s < img.ns /\ pend.s < emitted /\ Holds(pend.b, pend.s)
  /\ apc \in Running /\ HasPend /\ apc # "ack" =>
       pend.b = 1 - rx /\ pend.s < asec
  /\ apc \in {"flushSkip", "eraseSkip"} => Len(buf[rx]) = 0

\* The sector holds what the image says, cells the chip failed on apart.
Good(s) ==
  ~img.tail =>
    \A p \in PageNos : \/ flash[Base + s][p] = Want(img, s, p)
                       \/ <<Base + s, p>> \in hwlost

\* The chip: the sectors behind the loop are done, except the pending one.
ChipInv ==
  /\ apc \in Running =>
       \A s \in 0..img.ns-1 :
         s < asec /\ ~(HasPend /\ apc # "ack" /\ s = pend.s) => Good(s)
  /\ apc \in Running /\ aop = "program" =>
       \A p \in PageNos : \/ flash[Base + pend.s][p] = Erased
                          \/ <<Base + pend.s, p>> \in hwlost
  /\ session = "ok" => \A s \in 0..img.ns-1 : Good(s)

IInv ==
  /\ TypeOK /\ ImgInv /\ HostInv /\ FreshInv /\ WireInv /\ SyncInv /\ ReplyInv
  /\ AgentInv /\ RecvInv /\ BufferInv /\ ChipInv /\ UntouchedUntilReceived

---------------------------------------------------------------------------
\* A sector of the image has between one page and a full sector of them.
LEMMA PagesOfRange ==
  ASSUME NEW i, i \in [ns : Nat, last : 0..SectorPages, blank : SUBSET (Nat \X Nat),
                       tail : BOOLEAN],
         (i.ns = 0) <=> (i.last = 0),
         NEW s \in Nat
  PROVE  /\ PagesOf(i, s) \in 0..SectorPages
         /\ s < i.ns => PagesOf(i, s) \in 1..SectorPages
  BY SizeAssumption DEF PagesOf

\* What Append adds to a sequence, and what it keeps.
LEMMA AppendFacts ==
  ASSUME NEW S, NEW q \in Seq(S), NEW e \in S
  PROVE  /\ Append(q, e) \in Seq(S)
         /\ Len(Append(q, e)) = Len(q) + 1
         /\ \A i \in 1..Len(q) : Append(q, e)[i] = q[i]
         /\ Append(q, e)[Len(q) + 1] = e
  OBVIOUS

\* What is left of a sequence without its head.
LEMMA TailFacts ==
  ASSUME NEW S, NEW q \in Seq(S), q # <<>>
  PROVE  /\ Tail(q) \in Seq(S) /\ Head(q) \in S /\ Head(q) = q[1]
         /\ Len(q) \in Nat \ {0} /\ Len(Tail(q)) = Len(q) - 1
         /\ \A i \in 1..Len(q)-1 : Tail(q)[i] = q[i + 1]
  OBVIOUS

\* Page b is at least d pages behind page a, and so behind every later one.
LEMMA GapWidens ==
  ASSUME NEW h \in Int, NEW a \in Int, NEW b \in Int, NEW d \in Int, a <= h, a - b >= d
  PROVE  h - b >= d
  OBVIOUS

\* One more page, and one more packet under way.
LEMMA GapGrows ==
  ASSUME NEW h \in Int, NEW b \in Int, NEW l \in Int, NEW m \in Int, NEW i \in Int,
         h - b >= l + m - i
  PROVE  (h + 1) - b >= l + (m + 1) - i
  OBVIOUS

\* The distance kept by a packet that moves forward in the queue, from k to j.
LEMMA GapMoves ==
  ASSUME NEW x \in Int, NEW y \in Int, NEW l \in Int, NEW k \in Int, NEW j \in Int,
         NEW i \in Int, x - y >= l + k - i, k >= j
  PROVE  x - y >= l + j - i
  OBVIOUS

\* The types of the two buffers and the sector counters.
LEMMA BufferLen ==
  ASSUME TypeOK
  PROVE  /\ rx \in 0..1
         /\ \A b \in 0..1 : /\ buf[b] \in Seq(Nat \X Nat) /\ Len(buf[b]) \in Nat
                           /\ \A i \in 1..Len(buf[b]) : buf[b][i] \in Nat \X Nat
         /\ Len(buf[rx]) \in Nat /\ asec \in Nat /\ emitted \in Nat /\ hs \in Nat
         /\ hsent \in Nat /\ Len(h2a) \in Nat /\ Len(a2h) \in Nat
  <1>1. /\ asec \in Nat /\ emitted \in Nat /\ hs \in Nat /\ hsent \in Nat /\ rx \in 0..1
        /\ buf \in [0..1 -> Seq(Nat \X Nat)]
    BY DEF TypeOK, TypeAgent, TypeHost
  <1>2. ASSUME NEW b \in 0..1
        PROVE  /\ buf[b] \in Seq(Nat \X Nat) /\ Len(buf[b]) \in Nat
               /\ \A i \in 1..Len(buf[b]) : buf[b][i] \in Nat \X Nat
    <2>1. buf[b] \in Seq(Nat \X Nat)
      BY <1>1
    <2> QED
      BY <2>1
  <1>3. Len(h2a) \in Nat /\ Len(a2h) \in Nat
    BY DEF TypeOK, TypeWire
  <1> QED
    BY <1>1, <1>2, <1>3

\* The types of the packets under way to the agent.
LEMMA PacketTypes ==
  ASSUME TypeOK
  PROVE  \A i \in 1..Len(h2a) : h2a[i] \in Packet /\ h2a[i].p \in Nat /\ h2a[i].s \in Nat
  <1>1. \A i \in 1..Len(h2a) : h2a[i] \in Packet
    BY DEF TypeOK, TypeWire
  <1> QED
    BY <1>1 DEF Packet

\* The invariant holds before write_flash is called.
LEMMA InitIInv == Init => IInv
  <1> SUFFICES ASSUME Init PROVE IInv
    OBVIOUS
  <1>1. PICK g \in Geometries : img \in [ns : {g.ns}, last : {g.last},
                                        blank : SUBSET ImagePages(g), tail : Tails]
    BY DEF Init
  <1>2. g \in [ns : Nat, last : 0..SectorPages] /\ ((g.ns = 0) <=> (g.last = 0))
    BY SizeAssumption
  <1>3. ImagePages(g) \subseteq Nat \X Nat
    BY <1>2, SizeAssumption DEF ImagePages, PageNos
  <1>4. /\ img \in [ns : Nat, last : 0..SectorPages, blank : SUBSET (Nat \X Nat),
                     tail : BOOLEAN]
        /\ (img.ns = 0) <=> (img.last = 0)
    BY <1>1, <1>2, <1>3, SizeAssumption
  <1>5. TypeOK
    BY <1>4, SizeAssumption DEF Init, TypeOK, TypeHost, TypeWire, TypeAgent, TypeChip, NoPend, Old, Packet, Reply, PageNos
  <1>6. ImgInv /\ HostInv /\ FreshInv /\ WireInv /\ SyncInv /\ ReplyInv
    BY <1>4, <1>5 DEF Init, TypeOK, TypeHost, ImgInv, HostInv, FreshInv, WireInv, SyncInv, ReplyInv,
       Streaming
  <1>7. AgentInv /\ RecvInv /\ BufferInv /\ ChipInv /\ UntouchedUntilReceived
    BY DEF Init, AgentInv, RecvInv, BufferInv, ChipInv, UntouchedUntilReceived, Running,
       HasPend, NoPend
  <1> QED
    BY <1>4, <1>5, <1>6, <1>7 DEF IInv

(* What the wires do to what is sent.                                      *)

\* The packet is lost, or appended with its page, intact or damaged.
LEMMA SentToAgent ==
  ASSUME h2a \in Seq(Packet), lost \in Nat, NEW pkt \in Packet, SendToAgent(pkt)
  PROVE  /\ lost' \in Nat /\ h2a' \in Seq(Packet)
         /\ \/ h2a' = h2a
            \/ \E e \in Packet : /\ h2a' = Append(h2a, e)
                                /\ e.t \in {pkt.t, "BAD"} /\ e.s = pkt.s /\ e.p = pkt.p
  <1>1. [pkt EXCEPT !.t = "BAD"] \in Packet
    BY DEF Packet
  <1>2. /\ [pkt EXCEPT !.t = "BAD"].t = "BAD"
        /\ [pkt EXCEPT !.t = "BAD"].s = pkt.s /\ [pkt EXCEPT !.t = "BAD"].p = pkt.p
    BY DEF Packet
  <1>3. h2a' \in {h2a, Append(h2a, pkt), Append(h2a, [pkt EXCEPT !.t = "BAD"])}
    BY DEF SendToAgent
  <1>4. lost' \in Nat
    BY DEF SendToAgent
  <1>5. CASE h2a' = h2a
    BY <1>4, <1>5
  <1>6. CASE h2a' = Append(h2a, pkt)
    BY <1>4, <1>6, AppendFacts
  <1>7. CASE h2a' = Append(h2a, [pkt EXCEPT !.t = "BAD"])
    BY <1>1, <1>2, <1>4, <1>7, AppendFacts
  <1> QED
    BY <1>3, <1>5, <1>6, <1>7

\* A reply is lost, or appended.
LEMMA SentToHost ==
  ASSUME a2h \in Seq(Reply), rlost \in Nat,
         NEW type \in {"READY", "OK", "ERR", "PROG"}, NEW done \in Nat,
         SendToHost(type, done)
  PROVE  /\ rlost' \in Nat /\ a2h' \in Seq(Reply)
         /\ [t |-> type, n |-> done] \in Reply
         /\ a2h' \in {a2h, Append(a2h, [t |-> type, n |-> done])}
  <1>1. [t |-> type, n |-> done] \in Reply
    BY DEF Reply
  <1>2. rlost' \in Nat /\ a2h' \in {a2h, Append(a2h, [t |-> type, n |-> done])}
    BY DEF SendToHost
  <1>3. Append(a2h, [t |-> type, n |-> done]) \in Seq(Reply)
    BY <1>1, AppendFacts
  <1> QED
    BY <1>1, <1>2, <1>3

(* What a step that leaves certain variables alone cannot disturb.          *)

\* A step that leaves the agent alone keeps AgentInv.
LEMMA AgentFrame ==
  ASSUME AgentInv, UNCHANGED <<img, agentVars>>
  PROVE  AgentInv'
  BY DEF AgentInv, agentVars, HasPend

\* A step that leaves the agent alone keeps BufferInv.
LEMMA BufferFrame ==
  ASSUME BufferInv, UNCHANGED <<img, agentVars>>
  PROVE  BufferInv'
  BY DEF BufferInv, agentVars, HasPend, Holds

\* A step that leaves the chip and the agent's progress alone keeps ChipInv.
LEMMA ChipFrame ==
  ASSUME ChipInv, UNCHANGED <<img, apc, asec, pend, aop, session, flash, hwlost>>
  PROVE  ChipInv'
  BY DEF ChipInv, HasPend, Good

\* A step that leaves the chip alone keeps UntouchedUntilReceived.
LEMMA UntouchedFrame ==
  ASSUME UntouchedUntilReceived, UNCHANGED <<img, emitted, flash>>
  PROVE  UntouchedUntilReceived'
  BY DEF UntouchedUntilReceived

\* A step that leaves the buffers, the wire and the host's position alone keeps RecvInv.
LEMMA RecvFrame ==
  ASSUME RecvInv, UNCHANGED <<img, agentVars, hs, hsent, h2a>>
  PROVE  RecvInv'
  BY DEF RecvInv, agentVars

---------------------------------------------------------------------------
\* The request is the only packet under way when the agent reads it.
LEMMA HostStartStep == IInv /\ HostStart => IInv'
  <1> SUFFICES ASSUME IInv, HostStart PROVE IInv'
    OBVIOUS
  <1> USE DEF IInv, HostStart, HostReturn
  <1>1. TypeOK'
    <2>1. [t |-> "STREAM", s |-> 0, p |-> 0] \in Packet
      BY DEF Packet
    <2>3. TypeWire' /\ lost' \in Nat
      BY <2>1, SentToAgent, AppendFacts DEF TypeOK, TypeWire, TypeChip, upVars
    <2>4. QED
      BY <2>3 DEF TypeOK, TypeHost, TypeAgent, TypeChip, upVars, agentVars, chipVars
  <1>2. session = "none" /\ h2a = <<>> /\ Len(h2a') <= 1
    BY DEF TypeOK, TypeWire, TypeAgent, TypeHost, WireInv, FreshInv, SendToAgent
  <1>3. ImgInv' /\ HostInv' /\ FreshInv' /\ WireInv' /\ SyncInv' /\ ReplyInv'
    BY <1>2 DEF TypeOK, TypeHost, TypeWire, TypeAgent, upVars, agentVars, ImgInv,
       HostInv, FreshInv, WireInv, SyncInv, ReplyInv, Streaming, Rejected
  <1>4. AgentInv' /\ BufferInv' /\ ChipInv' /\ UntouchedUntilReceived'
    BY AgentFrame, BufferFrame, ChipFrame, UntouchedFrame DEF agentVars, chipVars
  <1>5. RecvInv'
    BY <1>2 DEF FreshInv, RecvInv, agentVars
  <1> QED
    BY <1>1, <1>3, <1>4, <1>5 DEF IInv

\* The first reply is read.
LEMMA ReplyRead ==
  ASSUME a2h \in Seq(Reply), a2h # <<>>, a2h' = Tail(a2h)
  PROVE  /\ a2h' \in Seq(Reply) /\ Head(a2h) = a2h[1] /\ 1 \in 1..Len(a2h)
         /\ a2h[1] \in Reply
         /\ \A i \in 1..Len(a2h') : i + 1 \in 1..Len(a2h) /\ a2h'[i] = a2h[i + 1]
  BY TailFacts

\* What ReplyInv says of the replies behind the one that is read.
LEMMA ReplyOrder ==
  ASSUME TypeOK, ReplyInv, a2h # <<>>, a2h' = Tail(a2h)
  PROVE  /\ \A i \in 1..Len(a2h') : a2h'[i].t = "PROG" =>
              /\ hs < a2h'[i].n /\ a2h'[i].n <= emitted
              /\ a2h[1].t = "PROG" => hs + 1 < a2h'[i].n
         /\ \A i, j \in 1..Len(a2h') :
              i < j /\ a2h'[i].t = "PROG" /\ a2h'[j].t = "PROG" => a2h'[i].n < a2h'[j].n
         /\ session # "ok" =>
              /\ a2h[1].t = "OK" => \A i \in 1..Len(a2h') : a2h'[i].t # "OK"
              /\ Streaming => \A i \in 1..Len(a2h') : a2h'[i].t # "OK"
              /\ \A i, j \in 1..Len(a2h') :
                   i < j => ~(a2h'[i].t = "OK" /\ a2h'[j].t = "OK")
  <1>1. /\ a2h' \in Seq(Reply) /\ 1 \in 1..Len(a2h) /\ a2h[1] \in Reply
        /\ \A i \in 1..Len(a2h') : i + 1 \in 1..Len(a2h) /\ a2h'[i] = a2h[i + 1]
    BY ReplyRead DEF TypeOK, TypeWire
  <1>2. \A i \in 1..Len(a2h') : i \in Nat /\ 1 < i + 1 /\ a2h'[i].n \in Nat
    <2>1. \A i \in 1..Len(a2h') : i \in Nat /\ 1 < i + 1 /\ a2h'[i] \in Reply
      BY <1>1
    <2> QED
      BY <2>1 DEF Reply
  <1>3. hs \in Nat /\ a2h[1].n \in Nat
    BY <1>1 DEF TypeOK, TypeHost, Reply
  <1>4. ASSUME NEW i \in 1..Len(a2h'), a2h'[i].t = "PROG"
        PROVE  /\ hs < a2h'[i].n /\ a2h'[i].n <= emitted
               /\ a2h[1].t = "PROG" => hs + 1 < a2h'[i].n
    BY <1>1, <1>2, <1>3, <1>4 DEF ReplyInv
  <1>5. ASSUME NEW i \in 1..Len(a2h'), NEW j \in 1..Len(a2h'), i < j
        PROVE  /\ i + 1 \in 1..Len(a2h) /\ j + 1 \in 1..Len(a2h) /\ i + 1 < j + 1
               /\ a2h'[i] = a2h[i + 1] /\ a2h'[j] = a2h[j + 1]
    BY <1>1, <1>2, <1>5
  <1>6. \A i, j \in 1..Len(a2h') :
          i < j /\ a2h'[i].t = "PROG" /\ a2h'[j].t = "PROG" => a2h'[i].n < a2h'[j].n
    BY <1>5 DEF ReplyInv
  <1>7. ASSUME session # "ok"
        PROVE  /\ a2h[1].t = "OK" => \A i \in 1..Len(a2h') : a2h'[i].t # "OK"
               /\ Streaming => \A i \in 1..Len(a2h') : a2h'[i].t # "OK"
               /\ \A i, j \in 1..Len(a2h') :
                    i < j => ~(a2h'[i].t = "OK" /\ a2h'[j].t = "OK")
    BY <1>1, <1>2, <1>5, <1>7 DEF ReplyInv
  <1> QED
    BY <1>4, <1>6, <1>7

\* The ACK_OK of the request is read, and the first sector begins.
LEMMA HostAckStep == IInv /\ HostAck => IInv'
  <1> SUFFICES ASSUME IInv, HostAck PROVE IInv'
    OBVIOUS
  <1> USE DEF IInv
  <1>1. /\ hpc = "ack" /\ a2h # <<>> /\ a2h' = Tail(a2h)
        /\ UNCHANGED <<img, downVars, rlost, agentVars, chipVars, stalls>>
    BY DEF HostAck
  <1>2. /\ a2h' \in Seq(Reply) /\ Head(a2h) = a2h[1] /\ 1 \in 1..Len(a2h)
        /\ a2h[1] \in Reply
        /\ \A i \in 1..Len(a2h') : i + 1 \in 1..Len(a2h) /\ a2h'[i] = a2h[i + 1]
    BY <1>1, ReplyRead DEF TypeOK, TypeWire
  <1>3. \/ a2h[1].t = "READY" /\ UNCHANGED hostVars
        \/ a2h[1].t = "OK" /\ HostSector(0)
        \/ HostReturn("false")
    BY <1>2 DEF HostAck
  <1>4. /\ hs' = hs /\ hsent' = hsent /\ hs = 0 /\ hsent = 0
        /\ \/ hpc' \in {"ack", "false"}
           \/ /\ a2h[1].t = "OK"
              /\ hpc' = IF 0 >= img.ns THEN "final"
                        ELSE IF HasData(img, 0) THEN "send" ELSE "progress"
    BY <1>1, <1>3 DEF HostInv, HostSector, HostReturn, hostVars
  <1>5. TypeOK'
    BY <1>1, <1>2, <1>4 DEF TypeOK, TypeHost, TypeWire, TypeAgent, TypeChip, downVars,
       agentVars, chipVars
  <1>6. a2h[1].t = "OK" => session # "none"
    BY <1>2 DEF FreshInv
  <1>7. ImgInv' /\ FreshInv' /\ WireInv' /\ SyncInv'
    BY <1>1, <1>2, <1>4, <1>6 DEF TypeOK, TypeHost, TypeWire, TypeAgent, ImgInv, FreshInv,
       WireInv, SyncInv, Streaming, Rejected, downVars, agentVars
  <1>8. HostInv'
    <2>1. 0 < img.ns => PagesOf(img, 0) > 0
      BY PagesOfRange DEF TypeOK, TypeHost, ImgInv
    <2> QED
      BY <1>1, <1>4, <1>6, <2>1 DEF TypeOK, TypeHost, HostInv, SyncInv, ImgInv, Rejected
  <1>9. ReplyInv'
    BY <1>1, <1>4, ReplyOrder DEF ReplyInv, Streaming, agentVars
  <1>10. AgentInv' /\ BufferInv' /\ ChipInv' /\ UntouchedUntilReceived' /\ RecvInv'
    BY <1>1, <1>4, AgentFrame, BufferFrame, ChipFrame, UntouchedFrame, RecvFrame
       DEF agentVars, chipVars, downVars
  <1> QED
    BY <1>5, <1>7, <1>8, <1>9, <1>10 DEF IInv

\* A reply read inside the loop that does not start another sector.
LEMMA HostReadStep ==
  ASSUME IInv, Streaming, a2h # <<>>, a2h' = Tail(a2h),
         UNCHANGED <<img, downVars, rlost, agentVars, chipVars, stalls, hs, hsent>>,
         hpc' \in {hpc, "false"} \/ (hpc' = "true" /\ a2h[1].t = "OK")
  PROVE  IInv'
  <1> USE DEF IInv
  <1>1. a2h' \in Seq(Reply) /\ 1 \in 1..Len(a2h)
    BY ReplyRead DEF TypeOK, TypeWire
  <1>2. session # "none"
    BY DEF FreshInv
  <1>3. hpc' = "true" => session = "ok"
    BY <1>1 DEF ReplyInv, Streaming
  <1>4. TypeOK'
    BY <1>1 DEF TypeOK, TypeHost, TypeWire, TypeAgent, TypeChip, downVars, agentVars,
       chipVars
  <1>5. ImgInv' /\ FreshInv' /\ WireInv' /\ HostInv' /\ SyncInv'
    BY <1>2 DEF TypeOK, TypeHost, TypeWire, TypeAgent, ImgInv, FreshInv, WireInv, HostInv,
       SyncInv, Streaming, Rejected, downVars, agentVars
  <1>6. ReplyInv'
    BY <1>3, ReplyOrder DEF ReplyInv, Streaming, agentVars
  <1> QED
    BY <1>4, <1>5, <1>6, AgentFrame, BufferFrame, ChipFrame, UntouchedFrame, RecvFrame
       DEF agentVars, chipVars, downVars

\* A progress packet takes the host to the sector after the one it sent.
LEMMA HostProgressStep == IInv /\ HostProgress => IInv'
  <1> SUFFICES ASSUME IInv, HostProgress PROVE IInv'
    OBVIOUS
  <1> USE DEF IInv
  <1>1. /\ hpc = "progress" /\ a2h # <<>> /\ a2h' = Tail(a2h)
        /\ UNCHANGED <<img, downVars, rlost, agentVars, chipVars, stalls>>
    BY DEF HostProgress
  <1>2. /\ a2h' \in Seq(Reply) /\ Head(a2h) = a2h[1] /\ 1 \in 1..Len(a2h)
        /\ a2h[1] \in Reply
        /\ \A i \in 1..Len(a2h') : i + 1 \in 1..Len(a2h) /\ a2h'[i] = a2h[i + 1]
    BY <1>1, ReplyRead DEF TypeOK, TypeWire
  <1>3. session # "none"
    BY <1>1 DEF FreshInv, Streaming
  <1>4. CASE a2h[1].t = "PROG" /\ HostSector(hs + 1)
    <2>1. hs < emitted /\ h2a = <<>> /\ hs < img.ns
      BY <1>1, <1>2, <1>3, <1>4 DEF ReplyInv, SyncInv, Reply, TypeOK, TypeHost, TypeAgent,
         HostInv
    <2>2. /\ hs' = hs + 1 /\ hsent' = 0
          /\ hpc' = IF hs + 1 >= img.ns THEN "final"
                    ELSE IF HasData(img, hs + 1) THEN "send" ELSE "progress"
      BY <1>4 DEF HostSector
    <2>3. TypeOK'
      <3>1. TypeHost'
        BY <1>1, <2>2 DEF TypeOK, TypeHost
      <3> QED
        BY <1>1, <1>2, <3>1 DEF TypeOK, TypeWire, TypeAgent, TypeChip, downVars, agentVars,
           chipVars
    <2>4. ImgInv' /\ FreshInv' /\ WireInv'
      BY <1>1, <1>2, <1>3, <2>1, <2>2 DEF TypeOK, TypeHost, TypeWire, TypeAgent, ImgInv,
         FreshInv, WireInv, Streaming, Rejected, downVars, agentVars
    <2>5. hs + 1 < img.ns => PagesOf(img, hs + 1) > 0
      BY PagesOfRange DEF TypeOK, TypeHost, ImgInv
    <2>6. HostInv' /\ SyncInv'
      BY <1>1, <1>3, <2>1, <2>2, <2>5 DEF TypeOK, TypeHost, TypeAgent, HostInv, SyncInv,
         downVars, agentVars
    <2>7. ReplyInv'
      BY <1>1, <1>4, <2>2, ReplyOrder DEF ReplyInv, Streaming, agentVars
    <2>8. RecvInv'
      <3>1. Len(buf[rx]) \in Nat /\ asec \in Nat /\ emitted \in Nat /\ hs \in Nat
        BY BufferLen
      <3>2. apc = "recv" => Len(buf[rx]) = 0
        BY <3>1, <2>1 DEF RecvInv, AgentInv
      <3>3. Len(h2a) = 0
        BY <2>1
      <3> QED
        BY <3>1, <3>2, <3>3, <1>1, <2>2 DEF RecvInv, downVars, agentVars
    <2> QED
      BY <1>1, <2>3, <2>4, <2>6, <2>7, <2>8, AgentFrame, BufferFrame, ChipFrame,
         UntouchedFrame DEF agentVars, chipVars
  <1>5. CASE /\ hs' = hs /\ hsent' = hsent
             /\ hpc' \in {hpc, "false"} \/ (hpc' = "true" /\ a2h[1].t = "OK")
    BY <1>1, <1>5, HostReadStep DEF Streaming
  <1> QED
    BY <1>1, <1>2, <1>4, <1>5 DEF HostProgress, HostReturn, hostVars

\* The final reply decides what write_flash returns.
LEMMA HostFinalStep == IInv /\ HostFinal => IInv'
  <1> SUFFICES ASSUME IInv, HostFinal PROVE IInv'
    OBVIOUS
  <1>1. /\ hpc = "final" /\ a2h # <<>> /\ a2h' = Tail(a2h)
        /\ UNCHANGED <<img, downVars, rlost, agentVars, chipVars, stalls>>
    BY DEF HostFinal
  <1>2. Head(a2h) = a2h[1]
    BY <1>1, ReplyRead DEF IInv, TypeOK, TypeWire
  <1>3. /\ hs' = hs /\ hsent' = hsent
        /\ hpc' \in {hpc, "false"} \/ (hpc' = "true" /\ a2h[1].t = "OK")
    BY <1>2 DEF HostFinal, HostReturn, hostVars
  <1> QED
    BY <1>1, <1>3, HostReadStep DEF Streaming

\* write_flash raises: struct.error, or TransportTimeout.
LEMMA HostRaiseStep == IInv /\ (HostSeqOverflow \/ HostTimeout) => IInv'
  <1> SUFFICES ASSUME IInv, HostSeqOverflow \/ HostTimeout PROVE IInv'
    OBVIOUS
  <1> USE DEF IInv
  <1>1. /\ hpc \in {"ack", "send", "progress", "final"} /\ hpc' = "raised"
        /\ hs' = hs /\ hsent' = hsent
        /\ UNCHANGED <<img, downVars, upVars, agentVars, chipVars>>
        /\ stalls' \in {stalls, stalls + 1}
    BY DEF HostSeqOverflow, HostTimeout, HostReturn
  <1>2. TypeOK'
    BY <1>1 DEF TypeOK, TypeHost, TypeWire, TypeAgent, TypeChip, downVars, upVars,
       agentVars, chipVars
  <1>3. ImgInv' /\ FreshInv' /\ WireInv' /\ HostInv' /\ SyncInv' /\ ReplyInv'
    BY <1>1 DEF TypeOK, TypeHost, TypeWire, TypeAgent, ImgInv, FreshInv, WireInv, HostInv,
       SyncInv, ReplyInv, Streaming, Rejected, downVars, upVars, agentVars
  <1> QED
    BY <1>1, <1>2, <1>3, AgentFrame, BufferFrame, ChipFrame, UntouchedFrame, RecvFrame
       DEF agentVars, chipVars, downVars

\* The replies nobody reads any more are dropped.
LEMMA HostGoneStep == IInv /\ HostGone => IInv'
  <1> SUFFICES ASSUME IInv, HostGone PROVE IInv'
    OBVIOUS
  <1> USE DEF IInv
  <1>1. /\ Len(a2h') = 0 /\ a2h' \in Seq(Reply)
        /\ UNCHANGED <<img, hostVars, downVars, rlost, agentVars, chipVars, stalls>>
    BY DEF HostGone
  <1>2. TypeOK'
    BY <1>1 DEF TypeOK, TypeHost, TypeWire, TypeAgent, TypeChip, hostVars, downVars,
       agentVars, chipVars
  <1>3. ImgInv' /\ FreshInv' /\ WireInv' /\ HostInv' /\ SyncInv' /\ ReplyInv'
    BY <1>1 DEF TypeOK, TypeHost, TypeWire, TypeAgent, ImgInv, FreshInv, WireInv, HostInv,
       SyncInv, ReplyInv, Streaming, Rejected, downVars, hostVars, agentVars
  <1> QED
    BY <1>1, <1>2, <1>3, AgentFrame, BufferFrame, ChipFrame, UntouchedFrame, RecvFrame
       DEF agentVars, chipVars, downVars, hostVars

\* A page is sent: it is younger than every page under way or received.
LEMMA HostSendStep == IInv /\ HostSend => IInv'
  <1> SUFFICES ASSUME IInv, HostSend PROVE IInv'
    OBVIOUS
  <1>inv. /\ TypeOK /\ ImgInv /\ HostInv /\ FreshInv /\ WireInv /\ SyncInv /\ ReplyInv
          /\ AgentInv /\ RecvInv /\ BufferInv /\ ChipInv /\ UntouchedUntilReceived
    BY DEF IInv
  <1> DEFINE pkt == [t |-> "DATA", s |-> hs, p |-> hsent + 1]
  <1>0. /\ Len(buf[rx]) \in Nat /\ asec \in Nat /\ emitted \in Nat /\ hs \in Nat
        /\ hsent \in Nat /\ Len(h2a) \in Nat
    BY BufferLen, <1>inv
  <1>1. /\ hpc = "send" /\ SendToAgent(pkt) /\ hsent' = hsent + 1 /\ hs' = hs
        /\ hpc' = IF hsent + 1 = PagesOf(img, hs) THEN "progress" ELSE "send"
        /\ UNCHANGED <<img, nsoft, spill, upVars, agentVars, chipVars, stalls>>
    BY DEF HostSend
  <1>2. pkt \in Packet
    BY <1>0 DEF Packet
  <1>3. /\ lost' \in Nat /\ h2a' \in Seq(Packet)
        /\ \/ h2a' = h2a
           \/ \E e \in Packet : /\ h2a' = Append(h2a, e) /\ e.t \in {"DATA", "BAD"}
                               /\ e.s = hs /\ e.p = hsent + 1
    BY <1>1, <1>2, SentToAgent, <1>inv DEF TypeOK, TypeWire, TypeChip
  <1>4. /\ Len(h2a') \in Len(h2a)..Len(h2a) + 1
        /\ \A i \in 1..Len(h2a) : h2a'[i] = h2a[i]
        /\ Len(h2a') = Len(h2a) + 1 =>
             LET e == h2a'[Len(h2a) + 1]
             IN  e.t \in {"DATA", "BAD"} /\ e.s = hs /\ e.p = hsent + 1
    BY <1>0, <1>3, AppendFacts, <1>inv DEF TypeOK, TypeWire
  <1>5. session # "none" /\ hs < img.ns /\ HasData(img, hs) /\ hsent < PagesOf(img, hs)
    BY <1>1, <1>inv DEF FreshInv, Streaming, HostInv
  <1>6. hs = emitted
    BY <1>0, <1>5, <1>inv DEF SyncInv
  <1>7. TypeOK'
    <2>1. TypeHost'
      BY <1>0, <1>1, <1>inv DEF TypeOK, TypeHost
    <2>2. TypeWire'
      BY <1>0, <1>1, <1>3, <1>4, <1>inv DEF TypeOK, TypeWire, upVars
    <2>3. TypeAgent' /\ TypeChip'
      BY <1>1, <1>3, <1>inv DEF TypeOK, TypeAgent, TypeChip, upVars, agentVars, chipVars
    <2> QED
      BY <2>1, <2>2, <2>3 DEF TypeOK
  <1>8. PagesOf(img, hs) \in Nat
    BY <1>0, PagesOfRange, SizeAssumption, <1>inv DEF TypeOK, TypeHost, ImgInv
  <1>9. ImgInv' /\ FreshInv' /\ HostInv' /\ SyncInv' /\ ReplyInv'
    BY <1>0, <1>8, <1>1, <1>5, <1>6, <1>inv DEF ImgInv, FreshInv, HostInv, SyncInv, ReplyInv,
       Streaming, Rejected, upVars, agentVars
  <1>10. \A i \in 1..Len(h2a) : h2a[i].p \in Nat
    BY PacketTypes, <1>inv
  <1>11. ASSUME NEW i \in 1..Len(h2a)
         PROVE  hsent + 1 - h2a[i].p >= Len(h2a) + 1 - i
    <2>1. Len(h2a) \in 1..Len(h2a) /\ i \in Nat /\ i <= Len(h2a)
      BY <1>0
    <2>2. h2a[Len(h2a)].p <= hsent
      BY <1>0, <1>10, <2>1, <1>5, <1>inv DEF WireInv
    <2>3. i < Len(h2a) => h2a[Len(h2a)].p - h2a[i].p >= Len(h2a) - i
      BY <1>0, <1>10, <2>1, <1>5, <1>inv DEF WireInv
    <2>4. /\ hsent \in Nat /\ Len(h2a) \in Nat /\ i \in Nat
          /\ h2a[i].p \in Nat /\ h2a[Len(h2a)].p \in Nat
      BY <1>0, <1>10, <2>1
    <2>5. CASE i < Len(h2a)
      <3>1. /\ hsent \in Int /\ h2a[Len(h2a)].p \in Int /\ h2a[i].p \in Int
            /\ Len(h2a) - i \in Int
        BY <2>4
      <3>2. hsent - h2a[i].p >= Len(h2a) - i
        BY <2>2, <2>3, <2>5, <3>1, GapWidens, Zenon
      <3> QED
        BY <2>4, <3>2
    <2>6. CASE i = Len(h2a)
      BY <2>2, <2>4, <2>6
    <2> QED
      BY <2>1, <2>4, <2>5, <2>6
  <1>12. WireInv'
    <2>1. ASSUME NEW i \in 1..Len(h2a')
          PROVE  h2a'[i].t # "STREAM" /\ h2a'[i].s = hs' /\ h2a'[i].p \in 1..hsent'
      <3>1. CASE i \in 1..Len(h2a)
        <4>1. h2a[i].t # "STREAM" /\ h2a[i].s = hs /\ h2a[i].p \in 1..hsent
          BY <3>1, <1>5, <1>inv DEF WireInv
        <4> QED
          BY <1>0, <4>1, <3>1, <1>1, <1>4
      <3>2. CASE i = Len(h2a) + 1 /\ Len(h2a') = Len(h2a) + 1
        BY <1>0, <3>2, <1>1, <1>4
      <3> QED
        BY <1>0, <1>4, <3>1, <3>2
    <2>2. ASSUME NEW i \in 1..Len(h2a'), NEW j \in 1..Len(h2a'), i < j
          PROVE  h2a'[j].p - h2a'[i].p >= j - i
      <3>1. i \in 1..Len(h2a) /\ h2a'[i] = h2a[i]
        BY <1>0, <1>4, <2>2
      <3>2. CASE j \in 1..Len(h2a)
        BY <1>0, <1>10, <3>1, <3>2, <2>2, <1>4, <1>5, <1>inv DEF WireInv
      <3>3. CASE j = Len(h2a) + 1 /\ Len(h2a') = Len(h2a) + 1
        BY <1>0, <1>10, <3>1, <3>3, <1>4, <1>11
      <3> QED
        BY <1>0, <1>4, <3>2, <3>3
    <2> QED
      BY <2>1, <2>2, <1>1, <1>inv DEF WireInv
  <1>13. RecvInv'
    <2> SUFFICES ASSUME apc = "recv" PROVE RecvInv'
      BY <1>1, <1>inv DEF RecvInv, agentVars
    <2>1. hs = asec
      BY <1>6, <1>inv DEF AgentInv
    <2>2. \A i \in 1..Len(buf[rx]) : buf[rx][i][2] \in Nat
      BY BufferLen, <1>inv
    <2>3. \A i \in 1..Len(buf[rx]) : i \in Nat /\ i <= Len(buf[rx])
      BY <1>0
    <2> DEFINE Behind == /\ hsent >= Len(buf[rx]) + Len(h2a)
                         /\ \A i \in 1..Len(buf[rx]) :
                              hsent - buf[rx][i][2] >= Len(buf[rx]) + Len(h2a) - i
    <2>4. ASSUME Len(h2a) = 0 PROVE Behind
      <3>1. ASSUME Len(buf[rx]) > 0
            PROVE  /\ Len(buf[rx]) \in 1..Len(buf[rx])
                   /\ buf[rx][Len(buf[rx])][2] >= Len(buf[rx])
                   /\ buf[rx][Len(buf[rx])][2] <= hsent
        BY <1>0, <2>2, <2>1, <3>1, <1>inv DEF RecvInv
      <3>2. hsent >= Len(buf[rx])
        BY <1>0, <2>2, <3>1
      <3>3. ASSUME NEW i \in 1..Len(buf[rx])
            PROVE  hsent - buf[rx][i][2] >= Len(buf[rx]) - i
        <4>1. /\ Len(buf[rx]) \in 1..Len(buf[rx])
              /\ buf[rx][Len(buf[rx])][2] <= hsent
          BY <1>0, <3>1
        <4>2. CASE i < Len(buf[rx])
          <5>1. \A k, j \in 1..Len(buf[rx]) :
                  k < j => buf[rx][j][2] - buf[rx][k][2] >= j - k
            BY <1>inv DEF RecvInv
          <5>2. buf[rx][Len(buf[rx])][2] - buf[rx][i][2] >= Len(buf[rx]) - i
            BY <1>0, <2>2, <4>1, <4>2, <5>1
          <5>3. /\ hsent \in Nat /\ Len(buf[rx]) \in Nat /\ i \in Nat
                /\ buf[rx][i][2] \in Nat /\ buf[rx][Len(buf[rx])][2] \in Nat
            BY <1>0, <2>2, <2>3, <4>1
          <5> QED
            BY <5>3, <4>1, <5>2
        <4>3. CASE i = Len(buf[rx])
          BY <1>0, <2>2, <2>3, <4>1, <4>3
        <4> QED
          BY <1>0, <2>3, <4>2, <4>3
      <3>4. Len(buf[rx]) + Len(h2a) = Len(buf[rx])
        BY <1>0, <2>4
      <3> QED
        BY <3>2, <3>3, <3>4
    <2>5. ASSUME Len(h2a) > 0 PROVE Behind
      <3>1. Len(h2a) \in 1..Len(h2a) /\ h2a[Len(h2a)].p <= hsent
        BY <1>0, <1>10, <2>5, <1>5, <1>inv DEF WireInv
      <3>2. h2a[Len(h2a)].p >= Len(buf[rx]) + Len(h2a)
        BY <1>0, <1>10, <2>1, <3>1, <1>inv DEF RecvInv
      <3>3. ASSUME NEW i \in 1..Len(buf[rx])
            PROVE  hsent - buf[rx][i][2] >= Len(buf[rx]) + Len(h2a) - i
        <4>1. h2a[Len(h2a)].p - buf[rx][i][2] >= Len(buf[rx]) + Len(h2a) - i
          BY <1>0, <1>10, <2>2, <2>3, <2>1, <3>1, <1>inv DEF RecvInv
        <4>2. /\ hsent \in Nat /\ Len(buf[rx]) \in Nat /\ Len(h2a) \in Nat /\ i \in Nat
              /\ buf[rx][i][2] \in Nat /\ h2a[Len(h2a)].p \in Nat
          BY <1>0, <1>10, <2>2, <2>3, <3>1
        <4>3. /\ hsent \in Int /\ h2a[Len(h2a)].p \in Int /\ buf[rx][i][2] \in Int
              /\ Len(buf[rx]) + Len(h2a) - i \in Int
          BY <4>2
        <4> QED
          BY <3>1, <4>1, <4>3, GapWidens, Zenon
      <3> QED
        BY <1>0, <1>10, <3>1, <3>2, <3>3
    <2>6. Behind
      BY <1>0, <2>4, <2>5
    <2>9. ASSUME NEW x, x = hsent + 1, NEW j, j = Len(h2a) + 1
          PROVE  /\ x >= Len(buf[rx]) + j
                 /\ \A i \in 1..Len(buf[rx]) : x - buf[rx][i][2] >= Len(buf[rx]) + j - i
      <3>1. x \in Nat /\ j \in Nat /\ x - 1 = hsent /\ j - 1 = Len(h2a)
        BY <1>0, <2>9
      <3>2. x >= Len(buf[rx]) + j
        BY <1>0, <3>1, <2>6
      <3>3. ASSUME NEW i \in 1..Len(buf[rx])
            PROVE  x - buf[rx][i][2] >= Len(buf[rx]) + j - i
        <4>1. hsent - buf[rx][i][2] >= Len(buf[rx]) + Len(h2a) - i
          BY <2>6
        <4>2. /\ hsent \in Int /\ buf[rx][i][2] \in Int /\ Len(buf[rx]) \in Int
              /\ Len(h2a) \in Int /\ i \in Int
          BY <1>0, <2>2, <2>3
        <4>3. (hsent + 1) - buf[rx][i][2] >= Len(buf[rx]) + (Len(h2a) + 1) - i
          BY <4>1, <4>2, GapGrows, Zenon
        <4> QED
          BY <2>9, <4>3, Zenon
      <3> QED
        BY <3>2, <3>3
    <2>7. ASSUME NEW j \in 1..Len(h2a')
          PROVE  /\ h2a'[j].p >= Len(buf[rx]) + j
                 /\ \A i \in 1..Len(buf[rx]) :
                      h2a'[j].p - buf[rx][i][2] >= Len(buf[rx]) + j - i
      <3>1. CASE j \in 1..Len(h2a)
        <4>1. /\ h2a[j].p >= Len(buf[rx]) + j
              /\ \A i \in 1..Len(buf[rx]) :
                   h2a[j].p - buf[rx][i][2] >= Len(buf[rx]) + j - i
          BY <2>1, <3>1, <1>inv DEF RecvInv
        <4> QED
          BY <4>1, <3>1, <1>4
      <3>2. CASE j = Len(h2a) + 1 /\ Len(h2a') = Len(h2a) + 1
        <4>1. h2a'[j].p = hsent + 1
          BY <3>2, <1>4
        <4>2. j = Len(h2a) + 1
          BY <3>2
        <4> QED
          BY <2>9, <4>1, <4>2
      <3> QED
        BY <1>0, <1>4, <3>1, <3>2
    <2>8. \A i \in 1..Len(buf[rx]) : buf[rx][i][2] <= hsent + 1
      BY <1>0, <2>2, <2>3, <2>6
    <2> QED
      BY <2>1, <2>7, <2>8, <1>1, <1>inv DEF RecvInv, agentVars
  <1> QED
    BY <1>1, <1>7, <1>9, <1>12, <1>13, AgentFrame, BufferFrame, ChipFrame, UntouchedFrame, <1>inv
       DEF agentVars, chipVars, IInv

---------------------------------------------------------------------------
(* soft_rx.                                                                *)

\* Damaging a packet keeps its page; no packet is reordered.
LEMMA ArriveStep == IInv /\ Arrive => IInv'
  <1> SUFFICES ASSUME IInv, Arrive PROVE IInv'
    OBVIOUS
  <1>inv. /\ TypeOK /\ ImgInv /\ HostInv /\ FreshInv /\ WireInv /\ SyncInv /\ ReplyInv
          /\ AgentInv /\ RecvInv /\ BufferInv /\ ChipInv /\ UntouchedUntilReceived
    BY DEF IInv
  <1>1. /\ nsoft \in Nat /\ Len(h2a) \in Nat /\ h2a \in Seq(Packet) /\ nsoft < Len(h2a)
        /\ nsoft + 1 \in 1..Len(h2a)
    BY <1>inv DEF Arrive, TypeOK, TypeWire
  <1>2. /\ nsoft' = nsoft + 1 /\ spill' \in {"none", "dropped", "torn"}
        /\ \/ h2a' = h2a
           \/ h2a' = [h2a EXCEPT ![nsoft + 1] = [h2a[nsoft + 1] EXCEPT !.t = "BAD"]]
        /\ UNCHANGED <<img, hostVars, lost, upVars, agentVars, chipVars, stalls>>
    BY <1>inv DEF Arrive, TypeOK, TypeWire
  <1>3. [h2a[nsoft + 1] EXCEPT !.t = "BAD"] \in Packet
    BY <1>1, PacketTypes, <1>inv DEF Packet
  <1>4. /\ h2a' \in Seq(Packet) /\ Len(h2a') = Len(h2a)
        /\ \A i \in 1..Len(h2a) : \/ h2a'[i] = h2a[i]
                                 \/ h2a'[i] = [h2a[i] EXCEPT !.t = "BAD"]
    <2>1. CASE h2a' = h2a
      BY <1>1, <2>1
    <2>2. CASE h2a' = [h2a EXCEPT ![nsoft + 1] = [h2a[nsoft + 1] EXCEPT !.t = "BAD"]]
      <3> DEFINE e == [h2a[nsoft + 1] EXCEPT !.t = "BAD"]
      <3>1. e \in Packet /\ h2a' = [h2a EXCEPT ![nsoft + 1] = e]
        BY <1>3, <2>2
      <3>2. e = [h2a[nsoft + 1] EXCEPT !.t = "BAD"]
        OBVIOUS
      <3> HIDE DEF e
      <3>3. /\ h2a' \in Seq(Packet) /\ Len(h2a') = Len(h2a)
            /\ \A i \in 1..Len(h2a) : h2a'[i] = IF i = nsoft + 1 THEN e ELSE h2a[i]
        BY <1>1, <3>1
      <3> QED
        BY <3>2, <3>3
    <2> QED
      BY <1>2, <2>1, <2>2
  <1>5. \A i \in 1..Len(h2a) : /\ h2a'[i].s = h2a[i].s /\ h2a'[i].p = h2a[i].p
                              /\ h2a'[i].t \in {h2a[i].t, "BAD"}
    BY <1>4, PacketTypes, <1>inv DEF Packet
  <1>6. TypeOK'
    <2>1. TypeWire'
      BY <1>1, <1>4, <1>2, <1>inv DEF TypeOK, TypeWire, upVars
    <2> QED
      BY <2>1, <1>2, <1>inv DEF TypeOK, TypeHost, TypeAgent, TypeChip, hostVars, upVars,
         agentVars, chipVars
  <1>7. ImgInv' /\ HostInv' /\ FreshInv' /\ WireInv' /\ ReplyInv'
    BY <1>1, <1>2, <1>4, <1>5, <1>inv DEF ImgInv, HostInv, FreshInv, WireInv, ReplyInv,
       Streaming, Rejected, hostVars, upVars, agentVars
  <1>8. SyncInv'
    <2>1. h2a # <<>>
      BY <1>1
    <2> QED
      BY <2>1, <1>2, <1>inv DEF SyncInv, hostVars, agentVars
  <1>9. RecvInv'
    BY <1>1, <1>2, <1>4, <1>5, <1>inv DEF RecvInv, hostVars, agentVars
  <1> QED
    BY <1>2, <1>6, <1>7, <1>8, <1>9, AgentFrame, BufferFrame, ChipFrame, UntouchedFrame, <1>inv
       DEF agentVars, chipVars, IInv

\* Dropping a packet only widens the gaps.
LEMMA OverflowStep == IInv /\ Overflow => IInv'
  <1> SUFFICES ASSUME IInv, Overflow PROVE IInv'
    OBVIOUS
  <1>inv. /\ TypeOK /\ ImgInv /\ HostInv /\ FreshInv /\ WireInv /\ SyncInv /\ ReplyInv
          /\ AgentInv /\ RecvInv /\ BufferInv /\ ChipInv /\ UntouchedUntilReceived
    BY DEF IInv
  <1>1. /\ nsoft \in Nat /\ Len(h2a) \in Nat /\ h2a \in Seq(Packet) /\ nsoft < Len(h2a)
    BY <1>inv DEF Overflow, TypeOK, TypeWire
  <1>2. /\ spill' \in {"none", "dropped", "torn"}
        /\ h2a' = SubSeq(h2a, 1, nsoft) \o SubSeq(h2a, nsoft + 2, Len(h2a))
        /\ UNCHANGED <<img, hostVars, nsoft, lost, upVars, agentVars, chipVars, stalls>>
    BY DEF Overflow
  <1>3. /\ SubSeq(h2a, 1, nsoft) \in Seq(Packet) /\ Len(SubSeq(h2a, 1, nsoft)) = nsoft
        /\ \A i \in 1..nsoft : SubSeq(h2a, 1, nsoft)[i] = h2a[i]
    BY <1>1
  <1>4. /\ SubSeq(h2a, nsoft + 2, Len(h2a)) \in Seq(Packet)
        /\ Len(SubSeq(h2a, nsoft + 2, Len(h2a))) = Len(h2a) - nsoft - 1
        /\ \A i \in 1..Len(h2a) - nsoft - 1 :
             SubSeq(h2a, nsoft + 2, Len(h2a))[i] = h2a[nsoft + 1 + i]
    BY <1>1
  <1>5. /\ h2a' \in Seq(Packet) /\ Len(h2a') = Len(h2a) - 1 /\ Len(h2a') \in Nat
        /\ \A i \in 1..Len(h2a) - 1 : h2a'[i] = IF i <= nsoft THEN h2a[i] ELSE h2a[i + 1]
    <2> DEFINE q == SubSeq(h2a, 1, nsoft)
               r == SubSeq(h2a, nsoft + 2, Len(h2a))
    <2>0. /\ q \in Seq(Packet) /\ r \in Seq(Packet) /\ h2a' = q \o r
          /\ Len(q) = nsoft /\ Len(r) = Len(h2a) - nsoft - 1
          /\ \A i \in 1..nsoft : q[i] = h2a[i]
          /\ \A i \in 1..Len(h2a) - nsoft - 1 : r[i] = h2a[nsoft + 1 + i]
      BY <1>2, <1>3, <1>4
    <2> HIDE DEF q, r
    <2>1. h2a' \in Seq(Packet) /\ Len(h2a') = Len(h2a) - 1 /\ Len(h2a') \in Nat
      BY <1>1, <2>0
    <2>2. ASSUME NEW i \in 1..Len(h2a) - 1
          PROVE  h2a'[i] = IF i <= nsoft THEN h2a[i] ELSE h2a[i + 1]
      <3>1. CASE i <= nsoft
        BY <1>1, <2>0, <3>1
      <3>2. CASE i > nsoft
        <4>1. h2a'[i] = r[i - nsoft]
          BY <1>1, <2>0, <3>2
        <4>2. i - nsoft \in 1..Len(h2a) - nsoft - 1 /\ nsoft + 1 + (i - nsoft) = i + 1
          BY <1>1, <3>2
        <4>3. r[i - nsoft] = h2a[nsoft + 1 + (i - nsoft)]
          BY <2>0, <4>2
        <4> QED
          BY <1>1, <3>2, <4>1, <4>2, <4>3
      <3> QED
        BY <1>1, <3>1, <3>2
    <2> QED
      BY <2>1, <2>2
  <1> DEFINE k(i) == IF i <= nsoft THEN i ELSE i + 1
  <1>6. \A i \in 1..Len(h2a') : k(i) \in 1..Len(h2a) /\ k(i) >= i /\ h2a'[i] = h2a[k(i)]
    BY <1>1, <1>5
  <1>7. \A i, j \in 1..Len(h2a') : i < j => k(i) < k(j) /\ k(j) - k(i) >= j - i
    BY <1>1, <1>5
  <1> HIDE DEF k
  <1>8. TypeOK'
    <2>0. nsoft \in 0..Len(h2a')
      <3>1. nsoft \in Nat /\ Len(h2a) \in Nat /\ nsoft < Len(h2a) /\ Len(h2a') = Len(h2a) - 1
        BY <1>1, <1>5
      <3> QED
        BY <3>1
    <2>1. TypeWire'
      BY <2>0, <1>5, <1>2, <1>inv DEF TypeOK, TypeWire, upVars
    <2> QED
      BY <2>1, <1>2, <1>inv DEF TypeOK, TypeHost, TypeAgent, TypeChip, hostVars, upVars,
         agentVars, chipVars
  <1>9. ImgInv' /\ HostInv' /\ FreshInv' /\ ReplyInv'
    BY <1>1, <1>5, <1>2, <1>inv DEF ImgInv, HostInv, FreshInv, ReplyInv, Streaming, Rejected,
       hostVars, upVars, agentVars
  <1>10. WireInv'
    <2> SUFFICES ASSUME session # "none" PROVE WireInv'
      BY <1>2 DEF WireInv, agentVars
    <2>1. \A i \in 1..Len(h2a') :
            h2a'[i].t # "STREAM" /\ h2a'[i].s = hs /\ h2a'[i].p \in 1..hsent
      BY <1>6, <1>inv DEF WireInv
    <2>2. ASSUME NEW i \in 1..Len(h2a'), NEW j \in 1..Len(h2a'), i < j
          PROVE  h2a'[j].p - h2a'[i].p >= j - i
      <3>1. /\ k(i) \in Nat /\ k(j) \in Nat /\ h2a[k(i)].p \in Nat /\ h2a[k(j)].p \in Nat
            /\ i \in Nat /\ j \in Nat
        BY <1>1, <1>5, <1>6, PacketTypes, <1>inv
      <3>2. h2a[k(j)].p - h2a[k(i)].p >= k(j) - k(i)
        BY <3>1, <1>6, <1>7, <2>2, <1>inv DEF WireInv
      <3>3. k(j) - k(i) >= j - i /\ h2a'[i] = h2a[k(i)] /\ h2a'[j] = h2a[k(j)]
        BY <1>6, <1>7, <2>2
      <3> QED
        BY <3>1, <3>2, <3>3
    <2> QED
      BY <2>1, <2>2, <1>2, <1>inv DEF WireInv, hostVars, agentVars
  <1>11. SyncInv'
    <2>1. h2a # <<>>
      BY <1>1
    <2> QED
      BY <2>1, <1>2, <1>inv DEF SyncInv, hostVars, agentVars
  <1>12. RecvInv'
    <2> SUFFICES ASSUME apc = "recv" PROVE RecvInv'
      BY <1>2 DEF RecvInv, agentVars
    <2>1. ASSUME hs = asec, NEW j \in 1..Len(h2a')
          PROVE  /\ h2a'[j].p >= Len(buf[rx]) + j
                 /\ \A i \in 1..Len(buf[rx]) :
                      h2a'[j].p - buf[rx][i][2] >= Len(buf[rx]) + j - i
      <3>1. /\ k(j) \in Nat /\ h2a[k(j)].p \in Nat /\ j \in Nat /\ Len(buf[rx]) \in Nat
            /\ \A i \in 1..Len(buf[rx]) : buf[rx][i][2] \in Nat
        <4>1. k(j) \in 1..Len(h2a) /\ j \in Nat
          BY <1>5, <1>6
        <4>2. k(j) \in Nat /\ h2a[k(j)].p \in Nat
          BY <4>1, <1>1, PacketTypes, <1>inv
        <4>3. Len(buf[rx]) \in Nat /\ \A i \in 1..Len(buf[rx]) : buf[rx][i] \in Nat \X Nat
          BY BufferLen, <1>inv
        <4> QED
          BY <4>1, <4>2, <4>3
      <3>2. /\ h2a[k(j)].p >= Len(buf[rx]) + k(j)
            /\ \A i \in 1..Len(buf[rx]) :
                 h2a[k(j)].p - buf[rx][i][2] >= Len(buf[rx]) + k(j) - i
        BY <2>1, <1>6, <1>inv DEF RecvInv
      <3>3. k(j) >= j
        BY <1>6
      <3>4. ASSUME NEW i \in 1..Len(buf[rx])
            PROVE  h2a'[j].p - buf[rx][i][2] >= Len(buf[rx]) + j - i
        <4>1. /\ h2a[k(j)].p - buf[rx][i][2] >= Len(buf[rx]) + k(j) - i
              /\ buf[rx][i][2] \in Nat /\ i \in Nat /\ h2a'[j] = h2a[k(j)]
          BY <3>1, <3>2, <1>6
        <4>2. k(j) \in Nat /\ h2a[k(j)].p \in Nat /\ j \in Nat /\ Len(buf[rx]) \in Nat
          BY <3>1
        <4>3. /\ k(j) \in Int /\ h2a[k(j)].p \in Int /\ j \in Int /\ Len(buf[rx]) \in Int
              /\ buf[rx][i][2] \in Int /\ i \in Int
          BY <4>1, <4>2
        <4>4. h2a[k(j)].p - buf[rx][i][2] >= Len(buf[rx]) + j - i
          BY <3>3, <4>1, <4>3, GapMoves, Zenon
        <4> QED
          BY <4>1, <4>4
      <3> QED
        BY <3>1, <3>2, <3>3, <3>4, <1>6
    <2> QED
      BY <2>1, <1>2, <1>inv DEF RecvInv, hostVars, agentVars
  <1> QED
    BY <1>2, <1>8, <1>9, <1>10, <1>11, <1>12, AgentFrame, BufferFrame, ChipFrame,
       UntouchedFrame, <1>inv DEF agentVars, chipVars, IInv
---------------------------------------------------------------------------
(* What the chip's operations and the agent's replies do.                  *)

\* flash_erase_sector changes one sector only, and what it fails to erase is in hwlost.
LEMMA EraseEffect ==
  ASSUME TypeOK, NEW sec \in Sectors, NEW ok \in BOOLEAN, EraseSector(sec, ok)
  PROVE  /\ flash' \in [Sectors -> [PageNos -> Int \X Int]]
         /\ hwlost' \subseteq Nat \X PageNos /\ hwlost \subseteq hwlost'
         /\ faults' \in Nat
         /\ \A q \in Sectors : q # sec => flash'[q] = flash[q]
         /\ \A p \in PageNos : flash'[sec][p] = Erased \/ <<sec, p>> \in hwlost'
  <1>0. /\ flash \in [Sectors -> [PageNos -> Int \X Int]] /\ faults \in Nat
        /\ hwlost \subseteq Nat \X PageNos /\ sec \in Nat /\ Erased \in Int \X Int
    BY SizeAssumption DEF TypeOK, TypeChip, Sectors, Erased
  <1>1. CASE /\ flash' = [flash EXCEPT ![sec] = [p \in PageNos |-> Erased]]
             /\ UNCHANGED <<hwlost, faults>>
    BY <1>0, <1>1
  <1>2. ASSUME NEW keep \in SUBSET PageNos, faults' = faults + 1,
               flash' = [flash EXCEPT ![sec] =
                           [p \in PageNos |-> IF p \in keep THEN @[p] ELSE Erased]],
               hwlost' = hwlost \union ({sec} \X keep)
        PROVE  /\ flash' \in [Sectors -> [PageNos -> Int \X Int]]
               /\ hwlost' \subseteq Nat \X PageNos /\ hwlost \subseteq hwlost'
               /\ faults' \in Nat
               /\ \A q \in Sectors : q # sec => flash'[q] = flash[q]
               /\ \A p \in PageNos : flash'[sec][p] = Erased \/ <<sec, p>> \in hwlost'
    BY <1>0, <1>2
  <1> QED
    BY <1>1, <1>2 DEF EraseSector

\* Programming an erased sector leaves it with the pages given, hwlost apart.
LEMMA ProgramEffect ==
  ASSUME TypeOK, NEW sec \in Sectors, NEW pages \in Seq(Nat \X Nat),
         Len(pages) <= SectorPages, ProgramSector(sec, pages)
  PROVE  /\ flash' \in [Sectors -> [PageNos -> Int \X Int]]
         /\ hwlost' \subseteq Nat \X PageNos /\ hwlost \subseteq hwlost'
         /\ faults' \in Nat
         /\ \A q \in Sectors : q # sec => flash'[q] = flash[q]
         /\ \A p \in PageNos :
              flash[sec][p] = Erased \/ <<sec, p>> \in hwlost =>
                \/ <<sec, p>> \in hwlost'
                \/ flash'[sec][p] = IF p > Len(pages) THEN Erased
                                    ELSE IF PageIsFF(img, pages[p]) THEN Erased
                                    ELSE pages[p]
  <1>0. /\ flash \in [Sectors -> [PageNos -> Int \X Int]] /\ faults \in Nat
        /\ hwlost \subseteq Nat \X PageNos /\ sec \in Nat /\ Garbage \in Int \X Int
        /\ Len(pages) \in Nat /\ SectorPages \in Nat
    BY SizeAssumption DEF TypeOK, TypeChip, Sectors, Garbage
  <1>1. PICK drop \in SUBSET (1..Len(pages)) :
          /\ flash' = [flash EXCEPT ![sec] = [p \in PageNos |->
               IF p > Len(pages) THEN @[p]
               ELSE IF PageIsFF(img, pages[p]) \/ p \in drop THEN @[p]
               ELSE IF @[p] = Erased THEN pages[p] ELSE Garbage]]
          /\ hwlost' = hwlost \union ({sec} \X drop)
          /\ faults' \in {faults, faults + 1}
    BY DEF ProgramSector
  <1>2. drop \subseteq PageNos
    BY <1>0 DEF PageNos
  <1>3. hwlost' \subseteq Nat \X PageNos /\ hwlost \subseteq hwlost' /\ faults' \in Nat
    <2>1. hwlost' = hwlost \union ({sec} \X drop) /\ {sec} \X drop \subseteq Nat \X PageNos
      BY <1>0, <1>1, <1>2
    <2>2. hwlost' \subseteq Nat \X PageNos /\ hwlost \subseteq hwlost'
      BY <1>0, <2>1
    <2>3. faults' \in Nat
      BY <1>0, <1>1
    <2> QED
      BY <2>2, <2>3
  <1>4. ASSUME NEW p \in PageNos, ~(p > Len(pages)) PROVE pages[p] \in Int \X Int
    <2>1. p \in 1..Len(pages)
      BY <1>0, <1>4 DEF PageNos
    <2>2. pages[p] \in Nat \X Nat
      BY <2>1
    <2> QED
      BY <2>2
  <1> DEFINE new == [p \in PageNos |->
               IF p > Len(pages) THEN flash[sec][p]
               ELSE IF PageIsFF(img, pages[p]) \/ p \in drop THEN flash[sec][p]
               ELSE IF flash[sec][p] = Erased THEN pages[p] ELSE Garbage]
  <1>5. new \in [PageNos -> Int \X Int]
    BY <1>0, <1>4
  <1>6. flash' = [flash EXCEPT ![sec] = new]
    BY <1>1
  <1>7. \A p \in PageNos : <<sec, p>> \notin hwlost' => p \notin drop /\ <<sec, p>> \notin hwlost
    BY <1>1
  <1>8. ASSUME NEW p \in PageNos, flash[sec][p] = Erased, p \notin drop
        PROVE  new[p] = IF p > Len(pages) THEN Erased
                        ELSE IF PageIsFF(img, pages[p]) THEN Erased ELSE pages[p]
    BY <1>8
  <1> HIDE DEF new
  <1>9. /\ flash' \in [Sectors -> [PageNos -> Int \X Int]]
        /\ flash'[sec] = new /\ \A q \in Sectors : q # sec => flash'[q] = flash[q]
    BY <1>0, <1>5, <1>6
  <1> QED
    BY <1>3, <1>7, <1>8, <1>9

\* A sector that is written stays written while it is not touched.
LEMMA GoodKept ==
  ASSUME NEW s, Good(s), flash'[Base + s] = flash[Base + s], hwlost \subseteq hwlost',
         img' = img
  PROVE  Good(s)'
  BY DEF Good

\* A reply of the agent keeps ReplyInv if it is as new as the sector it reports.
LEMMA ReplySent ==
  ASSUME TypeOK, ReplyInv, NEW type \in {"READY", "OK", "ERR", "PROG"}, NEW done \in Nat,
         SendToHost(type, done), hs' = hs, hpc' = hpc,
         emitted' \in Nat, emitted <= emitted',
         type = "PROG" => emitted < done /\ done <= emitted' /\ hs < done,
         session' # "ok" => session # "ok",
         type = "OK" => session' = "ok" \/ (session = "none" /\ FreshInv)
  PROVE  ReplyInv'
  <1> DEFINE e == [t |-> type, n |-> done]
  <1>1. /\ a2h \in Seq(Reply) /\ Len(a2h) \in Nat /\ e \in Reply /\ hs \in Nat /\ emitted \in Nat
        /\ a2h' \in {a2h, Append(a2h, e)}
    <2>1. a2h \in Seq(Reply) /\ rlost \in Nat /\ hs \in Nat /\ emitted \in Nat
      BY DEF TypeOK, TypeWire, TypeHost, TypeAgent, TypeChip
    <2> QED
      BY <2>1, SentToHost
  <1>2. CASE a2h' = a2h
    <2>1. \A i \in 1..Len(a2h) : a2h[i] \in Reply
      BY <1>1
    <2>2. \A i \in 1..Len(a2h) : a2h[i].n \in Nat
      BY <2>1 DEF Reply
    <2> QED
      BY <1>1, <1>2, <2>2 DEF ReplyInv, Streaming
  <1>3. CASE a2h' = Append(a2h, e)
    <2>1. /\ Len(a2h') = Len(a2h) + 1 /\ a2h'[Len(a2h) + 1] = e
          /\ \A i \in 1..Len(a2h) : a2h'[i] = a2h[i] /\ a2h[i] \in Reply
      BY <1>1, <1>3, AppendFacts
    <2>2. \A i \in 1..Len(a2h) : a2h[i].n \in Nat
      BY <2>1 DEF Reply
    <2>3. ASSUME NEW i \in 1..Len(a2h')
          PROVE  i \in 1..Len(a2h) \/ i = Len(a2h) + 1
      BY <1>1, <2>1
    <2>4. ASSUME NEW i \in 1..Len(a2h'), a2h'[i].t = "PROG"
          PROVE  hs' < a2h'[i].n /\ a2h'[i].n <= emitted'
      <3>1. CASE i \in 1..Len(a2h)
        <4>1. hs < a2h[i].n /\ a2h[i].n <= emitted
          BY <2>4, <3>1, <2>1 DEF ReplyInv
        <4> QED
          BY <1>1, <2>1, <2>2, <3>1, <4>1
      <3>2. CASE i = Len(a2h) + 1
        BY <1>1, <2>1, <2>4, <3>2
      <3> QED
        BY <2>3, <3>1, <3>2
    <2>5. ASSUME NEW i \in 1..Len(a2h'), NEW j \in 1..Len(a2h'), i < j
          PROVE  i \in 1..Len(a2h) /\ (j \in 1..Len(a2h) \/ j = Len(a2h) + 1)
      BY <1>1, <2>1, <2>5
    <2>6. ASSUME NEW i \in 1..Len(a2h'), NEW j \in 1..Len(a2h'), i < j,
                 a2h'[i].t = "PROG", a2h'[j].t = "PROG"
          PROVE  a2h'[i].n < a2h'[j].n
      <3>1. CASE j \in 1..Len(a2h)
        BY <2>1, <2>5, <2>6, <3>1 DEF ReplyInv
      <3>2. CASE j = Len(a2h) + 1
        <4>1. /\ a2h[i].n <= emitted /\ a2h[i].n \in Nat /\ a2h'[i].n = a2h[i].n
              /\ type = "PROG" /\ a2h'[j].n = done
          BY <2>1, <2>2, <2>5, <2>6, <3>2 DEF ReplyInv
        <4> QED
          BY <1>1, <4>1
      <3> QED
        BY <2>5, <2>6, <3>1, <3>2
    <2>7. ASSUME session' # "ok"
          PROVE  /\ hpc' # "true"
                 /\ Streaming' => \A i \in 1..Len(a2h') : a2h'[i].t # "OK"
                 /\ \A i, j \in 1..Len(a2h') : i < j => ~(a2h'[i].t = "OK" /\ a2h'[j].t = "OK")
      <3>1. CASE type # "OK"
        BY <2>1, <2>3, <2>5, <2>7, <3>1 DEF ReplyInv, Streaming
      <3>2. CASE type = "OK"
        <4>1. ~Streaming /\ hpc # "true" /\ \A i \in 1..Len(a2h) : a2h[i].t # "OK"
          BY <2>7, <3>2 DEF FreshInv
        <4> QED
          BY <2>1, <2>5, <4>1 DEF Streaming
      <3> QED
        BY <3>1, <3>2
    <2> QED
      BY <2>4, <2>6, <2>7 DEF ReplyInv
  <1> QED
    BY <1>1, <1>2, <1>3
---------------------------------------------------------------------------
(* The agent.                                                              *)

\* proto_recv takes the oldest packet.
LEMMA SoftRead ==
  ASSUME TypeOK, ReadSoft
  PROVE  /\ h2a # <<>> /\ 1 \in 1..Len(h2a) /\ Head(h2a) = h2a[1] /\ h2a[1] \in Packet
         /\ h2a' \in Seq(Packet) /\ Len(h2a') = Len(h2a) - 1 /\ Len(h2a') \in Nat
         /\ \A i \in 1..Len(h2a') : i + 1 \in 1..Len(h2a) /\ h2a'[i] = h2a[i + 1]
         /\ nsoft' \in 0..Len(h2a') /\ spill' = spill /\ lost' = lost
  <1>1. /\ h2a \in Seq(Packet) /\ nsoft \in 0..Len(h2a) /\ nsoft > 0 /\ nsoft' = nsoft - 1
        /\ h2a' = Tail(h2a) /\ spill' = spill /\ lost' = lost
    BY DEF TypeOK, TypeWire, ReadSoft
  <1>2. h2a # <<>>
    BY <1>1
  <1>3. /\ Tail(h2a) \in Seq(Packet) /\ Head(h2a) \in Packet /\ Head(h2a) = h2a[1]
        /\ Len(h2a) \in Nat \ {0} /\ Len(Tail(h2a)) = Len(h2a) - 1
        /\ \A i \in 1..Len(h2a)-1 : Tail(h2a)[i] = h2a[i + 1]
    BY <1>1, <1>2, TailFacts
  <1> QED
    BY <1>1, <1>2, <1>3

\* Reading the oldest packet keeps the order of the others.
LEMMA SoftReadWire ==
  ASSUME TypeOK, WireInv, ReadSoft, session # "none", UNCHANGED hostVars
  PROVE  WireInv'
  <1>1. /\ Len(h2a') \in Nat /\ hs' = hs /\ hsent' = hsent /\ hpc' = hpc
        /\ \A i \in 1..Len(h2a') : i + 1 \in 1..Len(h2a) /\ h2a'[i] = h2a[i + 1]
    BY SoftRead DEF hostVars
  <1>2. \A i \in 1..Len(h2a') :
          h2a'[i].t # "STREAM" /\ h2a'[i].s = hs /\ h2a'[i].p \in 1..hsent
    BY <1>1 DEF WireInv
  <1>3. ASSUME NEW i \in 1..Len(h2a'), NEW j \in 1..Len(h2a'), i < j
        PROVE  h2a'[j].p - h2a'[i].p >= j - i
    <2>1. /\ i + 1 \in 1..Len(h2a) /\ j + 1 \in 1..Len(h2a) /\ i + 1 < j + 1
          /\ h2a'[i] = h2a[i + 1] /\ h2a'[j] = h2a[j + 1] /\ (j + 1) - (i + 1) = j - i
      BY <1>1, <1>3
    <2>2. h2a[j + 1].p - h2a[i + 1].p >= (j + 1) - (i + 1)
      BY <2>1 DEF WireInv
    <2> QED
      BY <2>1, <2>2
  <1> QED
    BY <1>1, <1>2, <1>3 DEF WireInv

\* Between commands: a packet that starts nothing is read, a reply that promises
\* nothing is sent.
LEMMA IdleStep ==
  ASSUME IInv, apc = "idle", ReadSoft \/ UNCHANGED downVars,
         UNCHANGED upVars \/ \E type \in {"READY", "ERR"} : SendToHost(type, 0),
         UNCHANGED <<img, hostVars, agentVars, chipVars, stalls>>
  PROVE  IInv'
  <1>inv. /\ TypeOK /\ ImgInv /\ HostInv /\ FreshInv /\ WireInv /\ SyncInv /\ ReplyInv
          /\ AgentInv /\ RecvInv /\ BufferInv /\ ChipInv /\ UntouchedUntilReceived
    BY DEF IInv
  <1>1. /\ h2a' \in Seq(Packet) /\ nsoft' \in 0..Len(h2a') /\ spill' = spill /\ lost' = lost
        /\ Len(h2a') \in Nat /\ Len(h2a) \in Nat /\ Len(h2a') <= Len(h2a)
        /\ h2a = <<>> => h2a' = <<>>
    BY <1>inv, SoftRead DEF downVars, TypeOK, TypeWire
  <1>2. /\ a2h \in Seq(Reply) /\ a2h' \in Seq(Reply) /\ rlost' \in Nat
        /\ \/ a2h' = a2h
           \/ \E type \in {"READY", "ERR"} : /\ a2h' = Append(a2h, [t |-> type, n |-> 0])
                                            /\ [t |-> type, n |-> 0] \in Reply
    BY <1>inv, SentToHost DEF TypeOK, TypeWire, TypeChip, upVars
  <1>3. TypeOK'
    BY <1>1, <1>2, <1>inv DEF TypeOK, TypeHost, TypeWire, TypeAgent, TypeChip, hostVars,
       agentVars, chipVars
  <1>4. ReplyInv'
    <2>1. CASE UNCHANGED upVars
      BY <2>1, <1>inv DEF ReplyInv, upVars, hostVars, agentVars, Streaming
    <2>2. ASSUME NEW type \in {"READY", "ERR"}, SendToHost(type, 0) PROVE ReplyInv'
      BY <2>2, <1>inv, ReplySent DEF hostVars, agentVars, TypeOK, TypeAgent
    <2> QED
      BY <2>1, <2>2
  <1>5. FreshInv'
    <2> SUFFICES ASSUME session = "none" PROVE FreshInv'
      BY DEF FreshInv, agentVars
    <2>1. \A i \in 1..Len(a2h') : a2h'[i].t \in {"READY", "ERR"}
      <3>1. \A i \in 1..Len(a2h) : a2h[i].t \in {"READY", "ERR"}
        BY <1>inv DEF FreshInv
      <3>2. ASSUME NEW type \in {"READY", "ERR"}, a2h' = Append(a2h, [t |-> type, n |-> 0]),
                   [t |-> type, n |-> 0] \in Reply
            PROVE  \A i \in 1..Len(a2h') : a2h'[i].t \in {"READY", "ERR"}
        <4>1. /\ Len(a2h) \in Nat /\ Len(a2h') = Len(a2h) + 1
              /\ \A i \in 1..Len(a2h) : a2h'[i] = a2h[i]
              /\ a2h'[Len(a2h) + 1] = [t |-> type, n |-> 0]
          BY <1>2, <3>2, AppendFacts
        <4> QED
          BY <3>1, <4>1
      <3> QED
        BY <1>2, <3>1, <3>2
    <2>2. Len(h2a') <= IF hpc = "start" THEN 0 ELSE 1
      BY <1>1, <1>inv DEF FreshInv
    <2> QED
      BY <2>1, <2>2, <1>inv DEF FreshInv, hostVars, agentVars, Streaming
  <1>6. WireInv'
    <2>1. CASE session = "none"
      BY <2>1 DEF WireInv, agentVars
    <2>2. CASE session # "none" /\ ReadSoft
      BY <2>2, <1>inv, SoftReadWire
    <2>3. CASE UNCHANGED downVars
      BY <2>3, <1>inv DEF WireInv, downVars, hostVars, agentVars
    <2> QED
      BY <2>1, <2>2, <2>3
  <1>7. ImgInv' /\ HostInv' /\ SyncInv' /\ RecvInv'
    BY <1>1, <1>inv DEF ImgInv, HostInv, SyncInv, RecvInv, Rejected, hostVars, agentVars
  <1> QED
    BY <1>3, <1>4, <1>5, <1>6, <1>7, AgentFrame, BufferFrame, ChipFrame, UntouchedFrame, <1>inv
       DEF agentVars, chipVars, IInv

\* The idle agent's READY packet disturbs nothing.
LEMMA AgentReadyStep == IInv /\ AgentReady => IInv'
  <1> SUFFICES ASSUME IInv, AgentReady PROVE IInv'
    OBVIOUS
  <1>1. /\ apc = "idle" /\ SendToHost("READY", 0) /\ UNCHANGED downVars
        /\ UNCHANGED <<img, hostVars, agentVars, chipVars, stalls>>
    BY DEF AgentReady, SendToHost
  <1> QED
    BY <1>1, IdleStep

\* The main loop's dispatch: the request opens the session, the rest is refused or ignored.
LEMMA AgentCommandStep == IInv /\ AgentCommand => IInv'
  <1> SUFFICES ASSUME IInv, AgentCommand PROVE IInv'
    OBVIOUS
  <1>inv. /\ TypeOK /\ ImgInv /\ HostInv /\ FreshInv /\ WireInv /\ SyncInv /\ ReplyInv
          /\ AgentInv /\ RecvInv /\ BufferInv /\ ChipInv /\ UntouchedUntilReceived
    BY DEF IInv
  <1>1. apc = "idle" /\ ReadSoft /\ UNCHANGED <<img, hostVars, chipVars, stalls>>
    BY DEF AgentCommand
  <1>2. CASE UNCHANGED agentVars /\ (UNCHANGED upVars \/ SendToHost("ERR", 0))
    BY <1>1, <1>2, IdleStep
  <1>3. CASE /\ Head(h2a).t = "STREAM" /\ ~Rejected /\ AgentSector(0, FALSE)
             /\ session' = "open" /\ buf' = [b \in 0..1 |-> <<>>] /\ rx' = 0
             /\ pend' = NoPend /\ SendToHost("OK", 0) /\ UNCHANGED <<aop, emitted>>
    <2>1. /\ h2a[1].t = "STREAM" /\ 1 \in 1..Len(h2a) /\ h2a' \in Seq(Packet)
          /\ Len(h2a') = Len(h2a) - 1 /\ Len(h2a) \in Nat
          /\ nsoft' \in 0..Len(h2a') /\ spill' = spill /\ lost' = lost
      BY <1>1, <1>3, <1>inv, SoftRead DEF TypeOK, TypeWire
    <2>2. session = "none"
      BY <2>1, <1>inv DEF WireInv
    <2>3. /\ Len(h2a') = 0 /\ hpc # "start" /\ emitted = 0 /\ hs = 0
          /\ ~Streaming /\ hpc # "true"
      BY <2>1, <2>2, <1>inv DEF FreshInv, SyncInv, TypeOK, TypeHost
    <2>4. /\ img.ns \in Nat \ {0} /\ asec' = 0
          /\ apc' = IF HasData(img, 0) THEN "recv" ELSE "eraseSkip"
      BY <1>3, <1>inv DEF AgentSector, Rejected, TypeOK, TypeHost
    <2>5. TypeOK'
      <3>1. a2h' \in Seq(Reply) /\ rlost' \in Nat
        BY <1>3, <1>inv, SentToHost DEF TypeOK, TypeWire, TypeChip
      <3>2. TypeWire'
        BY <3>1, <2>1, <1>inv DEF TypeOK, TypeWire
      <3>3. TypeAgent'
        BY <1>3, <2>4, <1>inv DEF TypeOK, TypeAgent, NoPend
      <3> QED
        BY <3>1, <3>2, <3>3, <1>1, <2>1, <1>inv DEF TypeOK, TypeHost, TypeChip, hostVars, chipVars
    <2>6. ReplyInv'
      BY <1>1, <1>3, <2>2, <2>3, <1>inv, ReplySent DEF hostVars, TypeOK, TypeAgent
    <2>7. ImgInv' /\ HostInv' /\ FreshInv' /\ WireInv'
      BY <1>1, <1>3, <2>2, <2>3, <1>inv DEF ImgInv, HostInv, FreshInv, WireInv, Rejected, hostVars
    <2>8. SyncInv'
      BY <1>1, <1>3, <2>3, <1>inv DEF SyncInv, hostVars
    <2>9. ~HasPend' /\ aop' = "erase" /\ Len(buf'[rx']) = 0
      BY <1>1, <1>3, <1>inv DEF HasPend, NoPend, AgentInv
    <2>10. AgentInv'
      BY <1>1, <1>3, <2>3, <2>4, <2>9 DEF AgentInv, Running
    <2>11. RecvInv'
      <3>1. PagesOf(img, 0) > 0
        BY <2>4, <1>inv, PagesOfRange DEF TypeOK, TypeHost, ImgInv
      <3> QED
        BY <3>1, <1>1, <2>3, <2>4, <2>9 DEF RecvInv
    <2>12. BufferInv' /\ ChipInv'
      BY <1>1, <1>3, <2>4, <2>9, <1>inv DEF BufferInv, ChipInv
    <2>13. UntouchedUntilReceived'
      BY <1>1, <1>3, <1>inv, UntouchedFrame DEF chipVars
    <2> QED
      BY <2>5, <2>6, <2>7, <2>8, <2>10, <2>11, <2>12, <2>13 DEF IInv
  <1> QED
    BY <1>2, <1>3 DEF AgentCommand

\* The session is given up, in the middle of a sector or of an erase.
LEMMA AbortStep ==
  ASSUME IInv, apc \in Running, aop = "erase", Abort, ReadSoft \/ UNCHANGED downVars,
         UNCHANGED <<img, hostVars>>, TypeChip', UntouchedUntilReceived'
  PROVE  IInv'
  <1>inv. /\ TypeOK /\ ImgInv /\ HostInv /\ FreshInv /\ WireInv /\ SyncInv /\ ReplyInv
          /\ AgentInv /\ RecvInv /\ BufferInv /\ ChipInv /\ UntouchedUntilReceived
    BY DEF IInv
  <1>1. /\ apc' = "idle" /\ session' = "aborted" /\ SendToHost("ERR", 0)
        /\ UNCHANGED <<asec, buf, rx, pend, aop, emitted>>
    BY DEF Abort
  <1>2. session = "open"
    BY <1>inv DEF AgentInv
  <1>3. /\ h2a' \in Seq(Packet) /\ nsoft' \in 0..Len(h2a') /\ spill' = spill
        /\ h2a = <<>> => h2a' = <<>>
    BY <1>inv, SoftRead DEF downVars, TypeOK, TypeWire
  <1>4. a2h' \in Seq(Reply)
    BY <1>1, <1>inv, SentToHost DEF TypeOK, TypeWire, TypeChip
  <1>5. TypeOK'
    BY <1>1, <1>3, <1>4, <1>inv DEF TypeOK, TypeHost, TypeWire, TypeAgent, hostVars
  <1>6. ReplyInv'
    BY <1>1, <1>2, <1>inv, ReplySent DEF hostVars, TypeOK, TypeAgent
  <1>7. WireInv'
    <2>1. CASE ReadSoft
      BY <2>1, <1>2, <1>inv, SoftReadWire
    <2>2. CASE UNCHANGED downVars
      BY <2>2, <1>1, <1>2, <1>inv DEF WireInv, downVars, hostVars
    <2> QED
      BY <2>1, <2>2
  <1>8. ImgInv' /\ HostInv' /\ FreshInv' /\ SyncInv'
    BY <1>1, <1>2, <1>3, <1>inv DEF ImgInv, HostInv, FreshInv, SyncInv, Rejected, hostVars
  <1>9. AgentInv' /\ RecvInv' /\ BufferInv' /\ ChipInv'
    BY <1>1, <1>inv DEF AgentInv, RecvInv, BufferInv, ChipInv, Running
  <1> QED
    BY <1>5, <1>6, <1>7, <1>8, <1>9 DEF IInv

\* The agent gives up waiting for a packet.
LEMMA AgentRecvTimeoutStep == IInv /\ AgentRecvTimeout => IInv'
  <1> SUFFICES ASSUME IInv, AgentRecvTimeout PROVE IInv'
    OBVIOUS
  <1>inv. TypeOK /\ AgentInv /\ UntouchedUntilReceived
    BY DEF IInv
  <1>1. /\ apc = "recv" /\ Abort /\ stalls' \in {stalls, stalls + 1}
        /\ UNCHANGED <<img, hostVars, downVars, chipVars>>
    BY DEF AgentRecvTimeout
  <1>2. apc \in Running /\ aop = "erase"
    BY <1>1, <1>inv DEF Running, AgentInv, TypeOK, TypeAgent
  <1>3. UntouchedUntilReceived'
    BY <1>1, <1>inv, UntouchedFrame DEF chipVars, Abort
  <1>4. TypeChip'
    <2>1. stalls' \in Nat
      <3>1. stalls \in Nat
        BY <1>inv DEF TypeOK, TypeChip
      <3> QED
        BY <3>1, <1>1
    <2>2. rlost' \in Nat
      BY <1>1, <1>inv, SentToHost DEF Abort, TypeOK, TypeWire, TypeChip
    <2> QED
      BY <2>1, <2>2, <1>1, <1>inv DEF TypeOK, TypeChip, downVars, chipVars
  <1> QED
    BY <1>1, <1>2, <1>3, <1>4, AbortStep
\* A page is received.  The pages received and under way have growing numbers
\* that end at hsent, so the buffer is full only when none was missed.
LEMMA AgentRecvStep == IInv /\ AgentRecv => IInv'
  <1> SUFFICES ASSUME IInv, AgentRecv PROVE IInv'
    OBVIOUS
  <1>inv. /\ TypeOK /\ ImgInv /\ HostInv /\ FreshInv /\ WireInv /\ SyncInv /\ ReplyInv
          /\ AgentInv /\ RecvInv /\ BufferInv /\ ChipInv /\ UntouchedUntilReceived
    BY DEF IInv
  <1>0. /\ rx \in 0..1 /\ buf \in [0..1 -> Seq(Nat \X Nat)] /\ buf[rx] \in Seq(Nat \X Nat)
        /\ Len(buf[rx]) \in Nat /\ asec \in Nat /\ emitted \in Nat /\ hs \in Nat
        /\ hsent \in Nat /\ Len(h2a) \in Nat
    BY BufferLen, <1>inv DEF TypeOK, TypeAgent
  <1>1. apc = "recv" /\ ReadSoft /\ UNCHANGED <<img, hostVars, chipVars, stalls>>
    BY DEF AgentRecv
  <1>2. CASE Abort
    <2>1. apc \in Running /\ aop = "erase"
      BY <1>1, <1>inv DEF Running, AgentInv, TypeOK, TypeAgent
    <2>2. UntouchedUntilReceived'
      BY <1>1, <1>2, <1>inv, UntouchedFrame DEF chipVars, Abort
    <2>3. rlost' \in Nat /\ lost' = lost
      BY <1>1, <1>2, <1>inv, SentToHost DEF Abort, ReadSoft, TypeOK, TypeWire, TypeChip
    <2>4. TypeChip'
      BY <2>3, <1>1, <1>inv DEF TypeOK, TypeChip, chipVars
    <2> QED
      BY <1>1, <1>2, <2>1, <2>2, <2>4, AbortStep
  <1> DEFINE e == <<h2a[1].s, h2a[1].p>>
             n == Len(buf[rx])
             N == PagesOf(img, asec)
  <1>3. /\ 1 \in 1..Len(h2a) /\ h2a[1] \in Packet /\ Head(h2a) = h2a[1] /\ h2a # <<>>
        /\ h2a' \in Seq(Packet) /\ Len(h2a') = Len(h2a) - 1
        /\ \A i \in 1..Len(h2a') : i + 1 \in 1..Len(h2a) /\ h2a'[i] = h2a[i + 1]
        /\ nsoft' \in 0..Len(h2a') /\ spill' = spill /\ lost' = lost
    BY <1>1, <1>inv, SoftRead
  <1>4. session = "open" /\ asec < img.ns /\ emitted = asec /\ HasData(img, asec) /\ hs = asec
    <2>1. session = "open" /\ asec < img.ns /\ emitted = asec /\ HasData(img, asec)
      BY <1>1, <1>inv DEF AgentInv, Running
    <2>2. ~(hs < emitted) /\ hs <= emitted
      BY <2>1, <1>3, <1>inv DEF SyncInv
    <2> QED
      BY <1>0, <2>1, <2>2
  <1>5. /\ h2a[1].s = asec /\ h2a[1].p \in Nat /\ h2a[1].p <= hsent /\ e \in Nat \X Nat
        /\ e[1] = asec /\ e[2] = h2a[1].p
    <2>1. h2a[1].s = hs /\ h2a[1].p \in 1..hsent
      BY <1>3, <1>4, <1>inv DEF WireInv
    <2> QED
      BY <1>0, <1>4, <2>1
  <1>6. N \in Nat /\ n < N /\ hsent <= N
    <2>1. N \in 1..SectorPages
      BY <1>0, <1>4, <1>inv, PagesOfRange DEF TypeOK, TypeHost, ImgInv
    <2>2. n < N
      BY <1>1, <1>inv DEF RecvInv
    <2>3. hsent > 0 => hsent <= N
      BY <1>4, <1>inv DEF HostInv
    <2> QED
      BY <1>0, <2>1, <2>2, <2>3, SizeAssumption
  <1>7. \A i \in 1..Len(h2a) : h2a[i].p \in Nat
    BY PacketTypes, <1>inv
  <1>8. \A i \in 1..n : buf[rx][i] \in Nat \X Nat /\ buf[rx][i][2] \in Nat /\ i \in Nat
    BY <1>0
  <1>9. /\ e[2] >= n + 1
        /\ \A i \in 1..n : e[2] - buf[rx][i][2] >= n + 1 - i
    BY <1>1, <1>3, <1>4, <1>5, <1>inv DEF RecvInv
  <1> DEFINE b2 == Append(buf[rx], e)
  <1>10. /\ b2 \in Seq(Nat \X Nat) /\ Len(b2) = n + 1 /\ b2[n + 1] = e
         /\ \A i \in 1..n : b2[i] = buf[rx][i]
    BY <1>0, <1>5, AppendFacts
  <1> HIDE DEF e, n, N, b2
  <1>11. \A i \in 1..n+1 : i \in 1..n \/ i = n + 1
    BY <1>0 DEF n
  <1>12. ASSUME NEW i \in 1..n+1
         PROVE  /\ b2[i] \in Nat \X Nat /\ b2[i][1] = asec /\ b2[i][2] >= i
                /\ b2[i][2] <= hsent /\ b2[i][2] \in Nat
    <2>1. CASE i \in 1..n
      <3>1. /\ buf[rx][i][1] = asec /\ buf[rx][i][2] >= i /\ buf[rx][i][2] <= hsent
        BY <2>1, <1>1, <1>4, <1>inv DEF RecvInv, n
      <3> QED
        BY <2>1, <3>1, <1>8, <1>10
    <2>2. CASE i = n + 1
      BY <2>2, <1>5, <1>9, <1>10
    <2> QED
      BY <2>1, <2>2, <1>11
  <1>13. ASSUME NEW i \in 1..n+1, NEW j \in 1..n+1, i < j
         PROVE  b2[j][2] - b2[i][2] >= j - i
    <2>0. n \in Nat
      BY <1>0 DEF n
    <2>1. i \in 1..n
      BY <2>0, <1>13
    <2>2. CASE j \in 1..n
      <3>1. buf[rx][j][2] - buf[rx][i][2] >= j - i
        BY <2>1, <2>2, <1>1, <1>13, <1>inv DEF RecvInv, n
      <3> QED
        BY <3>1, <2>1, <2>2, <1>10
    <2>3. CASE j = n + 1
      <3>1. e[2] - buf[rx][i][2] >= n + 1 - i /\ b2[i] = buf[rx][i] /\ b2[j] = e
        BY <2>1, <2>3, <1>9, <1>10
      <3>2. b2[i][2] \in Nat /\ b2[j][2] \in Nat
        BY <1>12
      <3>3. b2[j][2] - b2[i][2] >= n + 1 - i
        BY <3>1
      <3> QED
        BY <2>0, <2>3, <3>2, <3>3
    <2> QED
      BY <2>2, <2>3, <1>11
  <1>14. CASE /\ buf' = [buf EXCEPT ![rx] = b2]
              /\ UNCHANGED <<asec, rx, pend, aop, session>>
              /\ \/ /\ n + 1 = N /\ apc' = "flush" /\ emitted' = asec + 1
                    /\ SendToHost("PROG", asec + 1)
                 \/ n + 1 # N /\ UNCHANGED <<apc, emitted, upVars>>
    <2>1. buf' \in [0..1 -> Seq(Nat \X Nat)] /\ buf'[rx] = b2 /\ buf'[1 - rx] = buf[1 - rx]
      BY <1>0, <1>10, <1>14
    <2>2. a2h' \in Seq(Reply) /\ rlost' \in Nat
      <3>1. a2h \in Seq(Reply) /\ rlost \in Nat /\ asec + 1 \in Nat
        BY <1>0, <1>inv DEF TypeOK, TypeWire, TypeChip
      <3>2. CASE SendToHost("PROG", asec + 1)
        BY <3>1, <3>2, SentToHost
      <3>3. CASE UNCHANGED upVars
        BY <3>1, <3>3 DEF upVars
      <3> QED
        BY <1>14, <3>2, <3>3
    <2>3. TypeOK'
      <3>1. TypeWire'
        BY <2>2, <1>3, <1>inv DEF TypeOK, TypeWire
      <3>2. TypeAgent'
        BY <1>0, <2>1, <1>14, <1>inv DEF TypeOK, TypeAgent
      <3> QED
        BY <3>1, <3>2, <2>2, <1>1, <1>3, <1>inv DEF TypeOK, TypeHost, TypeChip, hostVars, chipVars
    <2>4. emitted' \in {emitted, emitted + 1} /\ session' = session
      BY <1>4, <1>14
    <2>5. WireInv'
      BY <1>1, <1>4, <1>inv, SoftReadWire
    <2>6. ImgInv' /\ HostInv' /\ FreshInv'
      BY <1>1, <1>4, <2>4, <1>inv DEF ImgInv, HostInv, FreshInv, Rejected, hostVars
    <2>7. UntouchedUntilReceived'
      <3>1. \A sec \in Sectors : sec - Base < emitted => sec - Base < emitted'
        BY <1>0, <2>4, SizeAssumption DEF Sectors
      <3> QED
        BY <3>1, <1>1, <1>inv DEF UntouchedUntilReceived, chipVars
    <2>8. session' # "ok" /\ apc' \in {"recv", "flush"} /\ aop = "erase"
      BY <1>1, <1>4, <1>14, <1>inv DEF AgentInv, TypeOK, TypeAgent, Running
    <2>9. ChipInv'
      BY <1>1, <1>14, <2>8, <1>inv DEF ChipInv, HasPend, Good, chipVars, Running
    <2>10. AgentInv'
      BY <1>0, <1>1, <1>4, <1>14, <2>8 DEF AgentInv, HasPend, Running
    <2>11. HasPend => /\ pend.b = 1 - rx /\ pend.s < asec /\ pend.s < img.ns
                     /\ pend.s \in Nat /\ Holds(pend.b, pend.s)
      BY <1>1, <1>4, <1>inv DEF BufferInv, Running, TypeOK, TypeAgent
    <2>12. HasPend => Holds(pend.b, pend.s)'
      BY <1>1, <1>14, <2>1, <2>11 DEF Holds
    <2>13. CASE n + 1 # N
      <3>1. /\ n + 1 < N /\ apc' = "recv" /\ emitted' = emitted /\ UNCHANGED upVars
        BY <1>0, <1>1, <1>6, <1>14, <2>13 DEF n
      <3>2. ReplyInv'
        BY <3>1, <1>1, <2>4, <1>inv DEF ReplyInv, Streaming, hostVars, upVars
      <3>3. SyncInv'
        BY <3>1, <1>0, <1>1, <1>4, <2>4, <1>inv DEF SyncInv, hostVars
      <3>4. BufferInv'
        BY <3>1, <1>0, <1>1, <1>4, <1>14, <2>11, <2>12, <2>4 DEF BufferInv, HasPend
      <3>5. ASSUME NEW j \in 1..Len(h2a')
            PROVE  /\ h2a'[j].p >= (n + 1) + j
                   /\ \A i \in 1..n+1 : h2a'[j].p - b2[i][2] >= (n + 1) + j - i
        <4>0. n \in Nat /\ j \in Nat /\ 1 < j + 1 /\ e[2] \in Nat
          BY <1>0, <1>3, <1>5 DEF n, e
        <4>1. /\ j + 1 \in 1..Len(h2a) /\ h2a'[j] = h2a[j + 1] /\ h2a[j + 1].p \in Nat
          BY <1>3, <1>7
        <4>2. /\ h2a[j + 1].p >= n + (j + 1)
              /\ \A i \in 1..n : h2a[j + 1].p - buf[rx][i][2] >= n + (j + 1) - i
          BY <4>1, <1>1, <1>4, <1>inv DEF RecvInv, n
        <4>3. h2a[j + 1].p - h2a[1].p >= (j + 1) - 1
          BY <4>0, <4>1, <1>3, <1>4, <1>inv DEF WireInv
        <4>4. ASSUME NEW i \in 1..n+1
              PROVE  h2a[j + 1].p - b2[i][2] >= (n + 1) + j - i
          <5>1. CASE i \in 1..n
            <6>1. /\ h2a[j + 1].p - b2[i][2] >= n + (j + 1) - i
                  /\ b2[i][2] \in Nat /\ i \in Nat
              BY <5>1, <4>2, <1>8, <1>10, <1>12
            <6> QED
              BY <6>1, <4>0, <4>1
          <5>2. CASE i = n + 1
            <6>1. b2[i][2] = h2a[1].p /\ h2a[1].p \in Nat
              BY <5>2, <1>10, <1>5
            <6> QED
              BY <6>1, <5>2, <4>0, <4>1, <4>3
          <5> QED
            BY <5>1, <5>2, <1>11
        <4>5. h2a[j + 1].p >= (n + 1) + j
          BY <4>0, <4>1, <4>2
        <4> QED
          BY <4>1, <4>4, <4>5
      <3>6. RecvInv'
        <4>1. Len(buf'[rx]) = n + 1 /\ buf'[rx] = b2 /\ rx' = rx /\ asec' = asec
          BY <1>10, <1>14, <2>1
        <4>2. PagesOf(img, asec)' = N /\ hs' = hs /\ hsent' = hsent
          BY <1>1, <1>14 DEF N, hostVars
        <4> QED
          BY <4>1, <4>2, <3>1, <3>5, <1>4, <1>12, <1>13 DEF RecvInv
      <3> QED
        BY <2>3, <2>5, <2>6, <2>7, <2>9, <2>10, <3>2, <3>3, <3>4, <3>6 DEF IInv
    <2>14. CASE n + 1 = N
      <3>1. /\ apc' = "flush" /\ emitted' = asec + 1 /\ SendToHost("PROG", asec + 1)
        BY <1>14, <2>14
      <3>2. ReplyInv'
        BY <3>1, <1>0, <1>1, <1>4, <2>4, <1>inv, ReplySent DEF hostVars
      <3>3. hsent = N /\ Len(h2a) = 1
        <4>0. n \in Nat /\ h2a[1].p >= n + 1
          BY <1>0, <1>5, <1>9 DEF n
        <4>1. hsent = N
          BY <4>0, <1>0, <1>5, <1>6, <2>14
        <4>2. ASSUME Len(h2a) # 1 PROVE FALSE
          <5>1. 2 \in 1..Len(h2a)
            BY <4>2, <1>0, <1>3
          <5>2. h2a[2].p >= n + 2
            BY <5>1, <1>1, <1>4, <1>inv DEF RecvInv, n
          <5>3. h2a[2].p \in 1..hsent
            BY <5>1, <1>4, <1>inv DEF WireInv
          <5> QED
            BY <5>2, <5>3, <4>0, <4>1, <1>0, <2>14
        <4> QED
          BY <4>1, <4>2
      <3>4. SyncInv'
        <4>1. h2a' = <<>>
          BY <3>3, <1>3
        <4>2. emitted' <= img.ns /\ hs <= emitted' /\ hs+1..emitted'-1 = {} /\ img.ns \in Nat
          BY <3>1, <1>0, <1>4, <1>inv DEF TypeOK, TypeHost
        <4> QED
          BY <4>1, <4>2, <3>3, <1>1, <1>4 DEF SyncInv, hostVars, N
      <3>5. Holds(rx, asec)'
        <4>1. ASSUME NEW p \in 1..N PROVE b2[p] = <<asec, p>>
          <5>0. n \in Nat /\ p \in 1..n+1 /\ p \in Nat /\ n + 1 \in 1..n+1
            BY <1>0, <2>14 DEF n
          <5>1. /\ b2[p] \in Nat \X Nat /\ b2[p][1] = asec /\ b2[p][2] >= p /\ b2[p][2] \in Nat
                /\ b2[n + 1][2] <= n + 1 /\ b2[n + 1][2] \in Nat
            BY <5>0, <1>12, <2>14, <3>3
          <5>2. p < n + 1 => b2[n + 1][2] - b2[p][2] >= n + 1 - p
            BY <5>0, <1>13
          <5>3. b2[p][2] = p
            BY <5>0, <5>1, <5>2
          <5> QED
            BY <5>1, <5>3
        <4> QED
          BY <4>1, <1>1, <1>10, <1>14, <2>1, <2>14 DEF Holds, N
      <3>6. BufferInv'
        BY <3>1, <3>5, <1>0, <1>1, <1>4, <1>14, <2>11, <2>12, <2>4 DEF BufferInv, HasPend
      <3>7. RecvInv'
        BY <3>1 DEF RecvInv
      <3> QED
        BY <2>3, <2>5, <2>6, <2>7, <2>9, <2>10, <3>2, <3>4, <3>6, <3>7 DEF IInv
    <2> QED
      BY <2>13, <2>14
  <1> QED
    BY <1>2, <1>3, <1>14 DEF AgentRecv, e, n, N, b2
\* What a step of the agent that sends and receives nothing leaves alone.
LEMMA QuietFrame ==
  ASSUME IInv, session # "none",
         UNCHANGED <<img, hostVars, downVars, upVars, emitted, session>>
  PROVE  ImgInv' /\ HostInv' /\ FreshInv' /\ WireInv' /\ SyncInv' /\ ReplyInv' /\ TypeHost' /\ TypeWire'
  BY DEF IInv, TypeOK, TypeHost, TypeWire, ImgInv, HostInv, FreshInv, WireInv, SyncInv, ReplyInv, Rejected,
     Streaming, hostVars, downVars, upVars

\* The request was checked: the image's sectors exist.
LEMMA SectorExists ==
  ASSUME TypeOK, ImgInv, session # "none", NEW s \in Nat, s < img.ns
  PROVE  Base + s \in Sectors
  BY SizeAssumption DEF TypeOK, TypeHost, ImgInv, Rejected, Sectors

\* Erasing or programming a received sector keeps UntouchedUntilReceived.
LEMMA TouchedSector ==
  ASSUME TypeOK, UntouchedUntilReceived, NEW s \in Nat, s < img.ns, Base + s \in Sectors,
         \A q \in Sectors : q # Base + s => flash'[q] = flash[q],
         img' = img, emitted' \in Nat, emitted <= emitted', HasData(img, s) => s < emitted'
  PROVE  UntouchedUntilReceived'
  <1>0. /\ emitted \in Nat /\ img.ns \in Nat /\ Base \in Nat /\ FlashSectors \in Nat
    BY SizeAssumption DEF TypeOK, TypeHost, TypeAgent
  <1>1. ASSUME NEW sec \in Sectors
        PROVE  \/ flash'[sec] = [p \in PageNos |-> Old]
               \/ /\ sec \in Base..Base + img.ns - 1
                  /\ HasData(img, sec - Base) => sec - Base < emitted'
    <2>0. sec \in Nat
      BY <1>0 DEF Sectors
    <2>1. CASE sec = Base + s
      <3>1. sec - Base = s /\ sec \in Base..Base + img.ns - 1
        BY <1>0, <2>1
      <3> QED
        BY <3>1
    <2>2. CASE sec # Base + s
      <3>1. \/ flash[sec] = [p \in PageNos |-> Old]
            \/ /\ sec \in Base..Base + img.ns - 1
               /\ HasData(img, sec - Base) => sec - Base < emitted
        BY DEF UntouchedUntilReceived
      <3>2. sec - Base < emitted => sec - Base < emitted'
        BY <1>0, <2>0
      <3> QED
        BY <2>2, <3>1, <3>2
    <2> QED
      BY <2>1, <2>2
  <1> QED
    BY <1>1 DEF UntouchedUntilReceived

\* The received sector becomes the pending one, and the other buffer is free.
LEMMA RotateStep ==
  ASSUME IInv, apc = "flush", Rotate, aop' = "erase",
         UNCHANGED <<img, hostVars, downVars, emitted, session>>
  PROVE  /\ TypeAgent' /\ AgentInv' /\ RecvInv' /\ BufferInv'
         /\ apc' \in Running /\ apc' # "ack" /\ asec' = asec + 1
         /\ HasPend' /\ pend'.s = asec /\ session' = "open"
  <1>inv. /\ TypeOK /\ ImgInv /\ HostInv /\ FreshInv /\ WireInv /\ SyncInv /\ ReplyInv
          /\ AgentInv /\ RecvInv /\ BufferInv /\ ChipInv /\ UntouchedUntilReceived
    BY DEF IInv
  <1>0. /\ rx \in 0..1 /\ buf \in [0..1 -> Seq(Nat \X Nat)] /\ asec \in Nat /\ img.ns \in Nat
        /\ emitted \in Nat /\ hs \in Nat /\ Len(h2a) \in Nat
    BY <1>inv, BufferLen DEF TypeOK, TypeAgent, TypeHost
  <1>1. /\ session = "open" /\ asec < img.ns /\ emitted = asec + 1 /\ Holds(rx, asec)
    BY <1>inv DEF AgentInv, BufferInv, Running
  <1>2. /\ pend' = [b |-> rx, s |-> asec] /\ rx' = 1 - rx /\ buf' = [buf EXCEPT ![1 - rx] = <<>>]
        /\ asec' = asec + 1
        /\ apc' = IF asec + 1 >= img.ns THEN "flushLast"
                  ELSE IF HasData(img, asec + 1) THEN "recv" ELSE "flushSkip"
    BY DEF Rotate, AgentSector
  <1>3. /\ rx' \in 0..1 /\ buf' \in [0..1 -> Seq(Nat \X Nat)] /\ Len(buf'[rx']) = 0
        /\ buf'[rx] = buf[rx] /\ HasPend' /\ pend'.s = asec /\ pend'.b = rx /\ rx = 1 - rx'
        /\ pend' \in [b : -1..1, s : Nat]
    BY <1>0, <1>2 DEF HasPend
  <1>4. TypeAgent'
    BY <1>0, <1>2, <1>3, <1>inv DEF TypeOK, TypeAgent
  <1>5. AgentInv'
    <2>1. asec + 1 >= img.ns => asec + 1 = img.ns
      BY <1>0, <1>1
    <2>2. /\ apc' = "flushLast" => asec' = img.ns /\ emitted = asec'
          /\ apc' # "flushLast" => asec' < img.ns /\ emitted = asec'
      BY <1>0, <1>1, <1>2, <2>1
    <2> QED
      BY <2>2, <1>1, <1>2, <1>3 DEF AgentInv, Running
  <1>6. RecvInv'
    <2> SUFFICES ASSUME apc' = "recv" PROVE RecvInv'
      BY DEF RecvInv
    <2>1. PagesOf(img, asec + 1) > 0
      <3>1. asec + 1 \in Nat /\ asec + 1 < img.ns
        BY <1>0, <1>2
      <3>2. PagesOf(img, asec + 1) \in 1..SectorPages
        BY <3>1, <1>inv, PagesOfRange DEF TypeOK, TypeHost, ImgInv
      <3> QED
        BY <3>2
    <2>2. ASSUME NEW j \in 1..Len(h2a) PROVE h2a[j].p >= j
      <3>1. j \in Nat /\ 1 \in 1..Len(h2a) /\ h2a[j].p \in Nat /\ h2a[1].p \in Nat
        BY <1>0, PacketTypes, <1>inv
      <3>2. h2a[1].p >= 1 /\ h2a[j].p >= 1
        BY <3>1, <1>1, <1>inv DEF WireInv
      <3>3. 1 < j => h2a[j].p - h2a[1].p >= j - 1
        BY <3>1, <1>1, <1>inv DEF WireInv
      <3> QED
        BY <3>1, <3>2, <3>3
    <2> QED
      BY <2>1, <2>2, <1>0, <1>2, <1>3 DEF RecvInv, downVars, hostVars
  <1>7. BufferInv'
    <2>2. /\ Len(buf'[pend'.b]) = PagesOf(img', pend'.s)
          /\ \A p \in 1..PagesOf(img', pend'.s) : buf'[pend'.b][p] = <<pend'.s, p>>
      BY <1>1, <1>3 DEF Holds
    <2> QED
      BY <2>2, <1>0, <1>1, <1>2, <1>3 DEF BufferInv, Holds
  <1> QED
    BY <1>1, <1>2, <1>3, <1>4, <1>5, <1>6, <1>7 DEF Running

\* The buffers are exchanged when nothing is pending.
LEMMA AgentRotateStep == IInv /\ AgentRotate => IInv'
  <1> SUFFICES ASSUME IInv, AgentRotate PROVE IInv'
    OBVIOUS
  <1>inv. TypeOK /\ AgentInv /\ ChipInv /\ UntouchedUntilReceived
    BY DEF IInv
  <1>1. /\ apc = "flush" /\ ~HasPend /\ Rotate
        /\ UNCHANGED <<img, hostVars, downVars, upVars, aop, emitted, session, chipVars, stalls>>
    BY DEF AgentRotate
  <1>2. session = "open" /\ aop = "erase" /\ asec \in Nat
    BY <1>1, <1>inv DEF AgentInv, Running, TypeOK, TypeAgent
  <1>3. /\ TypeAgent' /\ AgentInv' /\ RecvInv' /\ BufferInv'
        /\ apc' \in Running /\ apc' # "ack" /\ asec' = asec + 1
        /\ HasPend' /\ pend'.s = asec /\ session' = "open"
    BY <1>1, <1>2, RotateStep
  <1>4. TypeChip'
    BY <1>1, <1>inv DEF TypeOK, TypeChip, downVars, upVars, chipVars
  <1>5. ChipInv'
    <2>1. ASSUME NEW s \in 0..img.ns-1, s < asec + 1, s # asec PROVE Good(s)'
      <3>1. s < asec /\ apc \in Running
        BY <2>1, <1>1, <1>2, <1>inv DEF TypeOK, TypeHost, Running
      <3>2. Good(s)
        BY <3>1, <1>1, <1>inv DEF ChipInv
      <3> QED
        BY <3>2, <1>1 DEF Good, chipVars
    <2> QED
      BY <2>1, <1>1, <1>2, <1>3 DEF ChipInv
  <1>6. UntouchedUntilReceived'
    BY <1>1, <1>inv, UntouchedFrame DEF chipVars
  <1> QED
    BY <1>1, <1>2, <1>3, <1>4, <1>5, <1>6, QuietFrame DEF IInv, TypeOK

\* The pending sector is erased, or the session aborted.
LEMMA AgentEraseStep == IInv /\ AgentErase => IInv'
  <1> SUFFICES ASSUME IInv, AgentErase PROVE IInv'
    OBVIOUS
  <1>inv. TypeOK /\ ImgInv /\ AgentInv /\ BufferInv /\ ChipInv /\ UntouchedUntilReceived
    BY DEF IInv
  <1>1. /\ apc \in {"flush", "flushSkip", "flushLast"} /\ HasPend /\ aop = "erase"
        /\ UNCHANGED <<img, hostVars, downVars, stalls>>
    BY DEF AgentErase
  <1>2. /\ session = "open" /\ apc \in Running /\ apc # "ack" /\ apc # "recv"
        /\ pend.s \in Nat /\ pend.s < img.ns /\ pend.s < emitted /\ emitted \in Nat
    BY <1>1, <1>inv DEF AgentInv, BufferInv, Running, TypeOK, TypeAgent
  <1> DEFINE sec == Base + pend.s
  <1>3. sec \in Sectors
    BY <1>2, <1>inv, SectorExists
  <1>4. PICK ok \in BOOLEAN : EraseSector(sec, ok)
    BY DEF AgentErase
  <1>5. /\ flash' \in [Sectors -> [PageNos -> Int \X Int]]
        /\ hwlost' \subseteq Nat \X PageNos /\ hwlost \subseteq hwlost'
        /\ faults' \in Nat
        /\ \A q \in Sectors : q # sec => flash'[q] = flash[q]
        /\ \A p \in PageNos : flash'[sec][p] = Erased \/ <<sec, p>> \in hwlost'
    BY <1>3, <1>4, <1>inv, EraseEffect
  <1>6. emitted' = emitted
    BY DEF AgentErase, Abort
  <1>7. UntouchedUntilReceived'
    BY <1>1, <1>2, <1>3, <1>5, <1>6, <1>inv, TouchedSector
  <1>8. CASE Abort
    <2>1. rlost' \in Nat
      BY <1>8, <1>inv, SentToHost DEF Abort, TypeOK, TypeWire, TypeChip
    <2>2. TypeChip'
      BY <2>1, <1>1, <1>5, <1>inv DEF TypeOK, TypeChip, downVars
    <2> QED
      BY <1>1, <1>2, <1>7, <1>8, <2>2, AbortStep
  <1>9. CASE aop' = "program" /\ UNCHANGED <<apc, asec, buf, rx, pend, emitted, session, upVars>>
    <2>1. TypeAgent' /\ TypeChip'
      BY <1>1, <1>5, <1>9, <1>inv DEF TypeOK, TypeAgent, TypeChip, downVars, upVars
    <2>2. AgentInv' /\ RecvInv' /\ BufferInv'
      BY <1>1, <1>2, <1>9, <1>inv DEF AgentInv, RecvInv, BufferInv, Holds, HasPend
    <2>3. ChipInv'
      <3>1. ASSUME NEW s \in 0..img.ns-1, s < asec, s # pend.s PROVE Good(s)'
        <4>1. s \in Nat /\ s < img.ns
          BY <1>inv DEF TypeOK, TypeHost
        <4>2. Good(s)
          BY <3>1, <1>2, <1>inv DEF ChipInv
        <4>3. Base + s \in Sectors /\ Base + s # sec
          BY <4>1, <1>2, <3>1, <1>inv, SectorExists, SizeAssumption
        <4> QED
          BY <4>2, <4>3, <1>1, <1>5, GoodKept
      <3> QED
        BY <3>1, <1>1, <1>2, <1>5, <1>9 DEF ChipInv, HasPend
    <2> QED
      BY <1>1, <1>2, <1>7, <1>9, <2>1, <2>2, <2>3, QuietFrame DEF IInv, TypeOK
  <1> QED
    BY <1>8, <1>9 DEF AgentErase

\* The pending sector is programmed from its buffer.
LEMMA AgentProgramStep == IInv /\ AgentProgram => IInv'
  <1> SUFFICES ASSUME IInv, AgentProgram PROVE IInv'
    OBVIOUS
  <1>inv. TypeOK /\ ImgInv /\ AgentInv /\ BufferInv /\ ChipInv /\ UntouchedUntilReceived
    BY DEF IInv
  <1>1. /\ apc \in {"flush", "flushSkip", "flushLast"} /\ HasPend /\ aop = "program"
        /\ aop' = "erase" /\ ProgramSector(Base + pend.s, buf[pend.b])
        /\ UNCHANGED <<img, hostVars, downVars, upVars, emitted, session, stalls>>
    BY DEF AgentProgram
  <1>2. /\ session = "open" /\ apc \in Running /\ apc # "ack" /\ apc # "recv"
        /\ pend.s \in Nat /\ pend.s < img.ns /\ pend.s < emitted /\ emitted \in Nat
        /\ Holds(pend.b, pend.s) /\ pend.b \in 0..1 /\ asec \in Nat /\ img.ns \in Nat
    BY <1>1, <1>inv DEF AgentInv, BufferInv, Running, TypeOK, TypeAgent, TypeHost, HasPend
  <1> DEFINE sec == Base + pend.s
             N == PagesOf(img, pend.s)
  <1>3. sec \in Sectors
    BY <1>2, <1>inv, SectorExists
  <1>4. /\ N \in 0..SectorPages /\ SectorPages \in Nat /\ buf[pend.b] \in Seq(Nat \X Nat)
        /\ Len(buf[pend.b]) = N /\ \A p \in 1..N : buf[pend.b][p] = <<pend.s, p>>
    BY <1>2, <1>inv, PagesOfRange, BufferLen, SizeAssumption DEF TypeOK, TypeHost, ImgInv, Holds
  <1>5. /\ flash' \in [Sectors -> [PageNos -> Int \X Int]]
        /\ hwlost' \subseteq Nat \X PageNos /\ hwlost \subseteq hwlost'
        /\ faults' \in Nat
        /\ \A q \in Sectors : q # sec => flash'[q] = flash[q]
        /\ \A p \in PageNos :
             flash[sec][p] = Erased \/ <<sec, p>> \in hwlost =>
               \/ <<sec, p>> \in hwlost'
               \/ flash'[sec][p] = IF p > N THEN Erased
                                   ELSE IF PageIsFF(img, buf[pend.b][p]) THEN Erased
                                   ELSE buf[pend.b][p]
    BY <1>1, <1>3, <1>4, <1>inv, ProgramEffect
  <1>6. UntouchedUntilReceived'
    BY <1>1, <1>2, <1>3, <1>5, <1>inv, TouchedSector
  <1>8. ASSUME NEW p \in PageNos, ~img.tail
        PROVE  flash'[sec][p] = Want(img, pend.s, p) \/ <<sec, p>> \in hwlost'
    <2>1. flash[sec][p] = Erased \/ <<sec, p>> \in hwlost
      BY <1>1, <1>2, <1>inv DEF ChipInv
    <2>2. CASE p > N
      BY <2>1, <2>2, <1>5 DEF Want
    <2>3. CASE ~(p > N)
      <3>0. p \in 1..N
        BY <2>3, <1>4 DEF PageNos
      <3>1. buf[pend.b][p] = <<pend.s, p>>
        BY <3>0, <1>4
      <3>2. \/ <<sec, p>> \in hwlost'
            \/ flash'[sec][p] = IF PageIsFF(img, buf[pend.b][p]) THEN Erased
                                ELSE buf[pend.b][p]
        BY <2>1, <2>3, <1>5
      <3>3. PageIsFF(img, <<pend.s, p>>) <=> <<pend.s, p>> \in img.blank
        BY <1>8 DEF PageIsFF
      <3> QED
        BY <2>3, <3>1, <3>2, <3>3 DEF Want
    <2> QED
      BY <2>2, <2>3
  <1>9. ASSUME NEW s \in 0..img.ns-1, s < asec
        PROVE  ~img.tail => \A p \in PageNos : \/ flash'[Base + s][p] = Want(img, s, p)
                                             \/ <<Base + s, p>> \in hwlost'
    <2>1. CASE s = pend.s
      BY <2>1, <1>8
    <2>2. CASE s # pend.s
      <3>1. s \in Nat /\ s < img.ns
        BY <1>2
      <3>2. Good(s)
        BY <2>2, <1>2, <1>9, <1>inv DEF ChipInv
      <3>3. Base + s \in Sectors /\ Base + s # sec
        BY <3>1, <1>2, <2>2, <1>inv, SectorExists, SizeAssumption
      <3> QED
        BY <3>2, <3>3, <1>5 DEF Good
    <2> QED
      BY <2>1, <2>2
  <1>10. TypeChip'
    BY <1>1, <1>5, <1>inv DEF TypeOK, TypeChip, downVars, upVars
  <1>11. CASE apc = "flush" /\ Rotate
    <2>1. /\ TypeAgent' /\ AgentInv' /\ RecvInv' /\ BufferInv'
          /\ apc' \in Running /\ apc' # "ack" /\ asec' = asec + 1
          /\ HasPend' /\ pend'.s = asec /\ session' = "open"
      BY <1>1, <1>11, RotateStep
    <2>2. \A s \in 0..img.ns-1 : s < asec + 1 /\ s # asec => s < asec
      BY <1>2
    <2>3. ChipInv'
      BY <2>1, <2>2, <1>1, <1>9 DEF ChipInv, Good
    <2> QED
      BY <2>1, <2>3, <1>1, <1>2, <1>6, <1>10, QuietFrame DEF IInv, TypeOK
  <1>12. CASE /\ apc = "flushSkip" /\ pend' = NoPend /\ apc' = "eraseSkip"
              /\ UNCHANGED <<asec, buf, rx>>
    <2>1. ~HasPend'
      BY <1>12 DEF HasPend, NoPend
    <2>2. TypeAgent'
      BY <1>1, <1>12, <1>inv DEF TypeOK, TypeAgent, NoPend
    <2>3. AgentInv' /\ RecvInv' /\ BufferInv'
      BY <2>1, <1>1, <1>2, <1>12, <1>inv DEF AgentInv, RecvInv, BufferInv
    <2>4. ChipInv'
      BY <2>1, <1>1, <1>2, <1>9, <1>12 DEF ChipInv, Good
    <2> QED
      BY <2>2, <2>3, <2>4, <1>1, <1>2, <1>6, <1>10, QuietFrame DEF IInv, TypeOK
  <1>13. CASE apc = "flushLast" /\ apc' = "ack" /\ UNCHANGED <<asec, buf, rx, pend>>
    <2>1. TypeAgent'
      BY <1>1, <1>13, <1>inv DEF TypeOK, TypeAgent
    <2>2. AgentInv' /\ RecvInv' /\ BufferInv'
      BY <1>1, <1>2, <1>13, <1>inv DEF AgentInv, RecvInv, BufferInv, Holds, HasPend
    <2>3. ChipInv'
      BY <1>1, <1>2, <1>9, <1>13 DEF ChipInv, Good
    <2> QED
      BY <2>1, <2>2, <2>3, <1>1, <1>2, <1>6, <1>10, QuietFrame DEF IInv, TypeOK
  <1> QED
    BY <1>1, <1>11, <1>12, <1>13 DEF AgentProgram

\* A sector without data is erased and not received.
LEMMA AgentEraseSkipStep == IInv /\ AgentEraseSkip => IInv'
  <1> SUFFICES ASSUME IInv, AgentEraseSkip PROVE IInv'
    OBVIOUS
  <1>inv. /\ TypeOK /\ ImgInv /\ HostInv /\ FreshInv /\ WireInv /\ SyncInv /\ ReplyInv
          /\ AgentInv /\ RecvInv /\ BufferInv /\ ChipInv /\ UntouchedUntilReceived
    BY DEF IInv
  <1>1. apc = "eraseSkip" /\ UNCHANGED <<img, hostVars, downVars, stalls>>
    BY DEF AgentEraseSkip
  <1>2. /\ session = "open" /\ apc \in Running /\ aop = "erase" /\ ~HasPend
        /\ asec \in Nat /\ asec < img.ns /\ emitted = asec /\ ~HasData(img, asec)
        /\ img.ns \in Nat /\ hs \in Nat /\ hsent \in Nat /\ Len(h2a) \in Nat
        /\ Len(buf[rx]) = 0
    BY <1>1, <1>inv DEF AgentInv, BufferInv, Running, TypeOK, TypeAgent, TypeHost, TypeWire
  <1> DEFINE sec == Base + asec
  <1>3. sec \in Sectors
    BY <1>2, <1>inv, SectorExists
  <1>4. PICK ok \in BOOLEAN : EraseSector(sec, ok)
    BY DEF AgentEraseSkip
  <1>5. /\ flash' \in [Sectors -> [PageNos -> Int \X Int]]
        /\ hwlost' \subseteq Nat \X PageNos /\ hwlost \subseteq hwlost'
        /\ faults' \in Nat
        /\ \A q \in Sectors : q # sec => flash'[q] = flash[q]
        /\ \A p \in PageNos : flash'[sec][p] = Erased \/ <<sec, p>> \in hwlost'
    BY <1>3, <1>4, <1>inv, EraseEffect
  <1>6. emitted' \in {emitted, emitted + 1}
    BY <1>2 DEF AgentEraseSkip, Abort
  <1>7. UntouchedUntilReceived'
    BY <1>1, <1>2, <1>3, <1>5, <1>6, <1>inv, TouchedSector
  <1>8. CASE Abort
    <2>1. rlost' \in Nat
      BY <1>8, <1>inv, SentToHost DEF Abort, TypeOK, TypeWire, TypeChip
    <2>2. TypeChip'
      BY <2>1, <1>1, <1>5, <1>inv DEF TypeOK, TypeChip, downVars
    <2> QED
      BY <1>1, <1>2, <1>7, <1>8, <2>2, AbortStep
  <1>9. CASE /\ AgentSector(asec + 1, FALSE) /\ emitted' = asec + 1
             /\ SendToHost("PROG", asec + 1) /\ UNCHANGED <<buf, rx, pend, aop, session>>
    <2>1. /\ asec' = asec + 1
          /\ apc' = IF asec + 1 >= img.ns THEN "ack"
                    ELSE IF HasData(img, asec + 1) THEN "recv" ELSE "eraseSkip"
      BY <1>9 DEF AgentSector
    <2>2. a2h' \in Seq(Reply) /\ rlost' \in Nat
      <3>1. a2h \in Seq(Reply) /\ rlost \in Nat /\ asec + 1 \in Nat
        BY <1>2, <1>inv DEF TypeOK, TypeWire, TypeChip
      <3> QED
        BY <3>1, <1>9, SentToHost
    <2>3. TypeOK'
      <3>1. TypeHost' /\ TypeWire' /\ TypeChip'
        BY <1>1, <1>5, <2>2, <1>inv DEF TypeOK, TypeHost, TypeWire, TypeChip, hostVars, downVars
      <3>2. TypeAgent'
        BY <1>2, <1>9, <2>1, <1>inv DEF TypeOK, TypeAgent
      <3> QED
        BY <3>1, <3>2 DEF TypeOK
    <2>4. ImgInv' /\ HostInv' /\ FreshInv' /\ WireInv'
      BY <1>1, <1>2, <1>9, <1>inv DEF ImgInv, HostInv, FreshInv, WireInv, Rejected, hostVars,
         downVars
    <2>5. hs <= asec
      BY <1>2, <1>inv DEF SyncInv
    <2>6. ReplyInv'
      BY <1>1, <1>2, <1>9, <2>5, <1>inv, ReplySent DEF hostVars
    <2>7. SyncInv'
      <3>1. h2a = <<>> /\ (HasData(img, hs) => hsent = PagesOf(img, hs))
        <4>1. CASE hs < asec
          BY <4>1, <1>2, <1>inv DEF SyncInv
        <4>2. CASE hs = asec
          <5>1. hsent = 0
            BY <4>2, <1>2, <1>inv DEF HostInv
          <5>2. ASSUME Len(h2a) # 0 PROVE FALSE
            <6>1. 1 \in 1..Len(h2a)
              BY <5>2, <1>2
            <6>2. h2a[1].p \in 1..hsent
              BY <6>1, <1>2, <1>inv DEF WireInv
            <6> QED
              BY <5>1, <6>2
          <5>3. h2a = <<>>
            BY <5>2, <1>inv DEF TypeOK, TypeWire
          <5> QED
            BY <4>2, <5>3, <1>2
        <4> QED
          BY <4>1, <4>2, <2>5, <1>2
      <3>2. ASSUME NEW s \in hs+1..(asec + 1)-1 PROVE ~HasData(img, s)
        <4>1. CASE s = asec
          BY <4>1, <1>2
        <4>2. CASE s # asec
          <5>1. s \in hs+1..emitted-1
            BY <4>2, <1>2
          <5> QED
            BY <5>1, <1>inv DEF SyncInv
        <4> QED
          BY <4>1, <4>2
      <3>3. hs <= asec + 1 /\ asec + 1 <= img.ns
        BY <2>5, <1>2
      <3> QED
        BY <3>1, <3>2, <3>3, <1>1, <1>9 DEF SyncInv, hostVars, downVars
    <2>8. ~HasPend'
      BY <1>2, <1>9 DEF HasPend
    <2>9. AgentInv'
      <3>1. asec + 1 >= img.ns => asec + 1 = img.ns
        BY <1>2
      <3>2. /\ apc' = "ack" => asec' = img.ns /\ emitted' = asec'
            /\ apc' # "ack" => asec' < img.ns /\ emitted' = asec'
        BY <1>2, <1>9, <2>1, <3>1
      <3> QED
        BY <3>2, <1>1, <1>2, <1>9, <2>1, <2>8 DEF AgentInv, Running
    <2>10. RecvInv'
      <3>1. hs' # asec'
        BY <1>1, <1>2, <2>1, <2>5 DEF hostVars
      <3>2. apc' = "recv" => PagesOf(img, asec + 1) > 0
        <4> SUFFICES ASSUME apc' = "recv" PROVE PagesOf(img, asec + 1) > 0
          OBVIOUS
        <4>1. asec + 1 \in Nat /\ asec + 1 < img.ns
          BY <1>2, <2>1
        <4>2. PagesOf(img, asec + 1) \in 1..SectorPages
          BY <4>1, <1>inv, PagesOfRange DEF TypeOK, TypeHost, ImgInv
        <4> QED
          BY <4>2
      <3> QED
        BY <3>1, <3>2, <1>1, <1>2, <1>9, <2>1 DEF RecvInv
    <2>11. BufferInv'
      BY <2>1, <2>8, <1>2, <1>9 DEF BufferInv
    <2>12. ChipInv'
      <3>1. ASSUME NEW p \in PageNos PROVE Want(img, asec, p) = Erased
        <4>1. PagesOf(img, asec) \in Nat /\ p \in Nat /\ p >= 1
          BY <1>2, <1>inv, PagesOfRange, SizeAssumption DEF TypeOK, TypeHost, ImgInv, PageNos
        <4>2. ~(p > PagesOf(img, asec)) => p \in 1..PagesOf(img, asec)
          BY <4>1
        <4>3. p \in 1..PagesOf(img, asec) => <<asec, p>> \in img.blank
          BY <1>2 DEF HasData
        <4> QED
          BY <4>2, <4>3 DEF Want
      <3>2. ASSUME NEW s \in 0..img.ns-1, s < asec + 1
            PROVE  ~img.tail => \A p \in PageNos : \/ flash'[Base + s][p] = Want(img, s, p)
                                                 \/ <<Base + s, p>> \in hwlost'
        <4>1. CASE s = asec
          BY <3>1, <4>1, <1>5
        <4>2. CASE s # asec
          <5>1. s \in Nat /\ s < img.ns /\ s < asec
            BY <3>2, <4>2, <1>2
          <5>2. Good(s)
            BY <5>1, <1>2, <1>inv DEF ChipInv
          <5>3. Base + s \in Sectors /\ Base + s # sec
            BY <5>1, <1>2, <1>inv, SectorExists, SizeAssumption
          <5> QED
            BY <5>2, <5>3, <1>5 DEF Good
        <4> QED
          BY <4>1, <4>2
      <3> QED
        BY <3>2, <1>1, <1>2, <1>9, <2>1 DEF ChipInv, Good
    <2> QED
      BY <1>7, <2>3, <2>4, <2>6, <2>7, <2>9, <2>10, <2>11, <2>12 DEF IInv
  <1> QED
    BY <1>8, <1>9 DEF AgentEraseSkip

\* ACK_OK is sent when every sector of the image is on the chip.
LEMMA AgentFinalAckStep == IInv /\ AgentFinalAck => IInv'
  <1> SUFFICES ASSUME IInv, AgentFinalAck PROVE IInv'
    OBVIOUS
  <1>inv. /\ TypeOK /\ ImgInv /\ HostInv /\ FreshInv /\ WireInv /\ SyncInv /\ ReplyInv
          /\ AgentInv /\ RecvInv /\ BufferInv /\ ChipInv /\ UntouchedUntilReceived
    BY DEF IInv
  <1>1. /\ apc = "ack" /\ apc' = "idle" /\ session' = "ok" /\ SendToHost("OK", 0)
        /\ UNCHANGED <<img, hostVars, downVars, asec, buf, rx, pend, aop, emitted, chipVars,
                       stalls>>
    BY DEF AgentFinalAck
  <1>2. /\ session = "open" /\ aop = "erase" /\ asec = img.ns
    BY <1>1, <1>inv DEF AgentInv, Running, TypeOK, TypeAgent
  <1>3. a2h' \in Seq(Reply) /\ rlost' \in Nat
    BY <1>1, <1>inv, SentToHost DEF TypeOK, TypeWire, TypeChip
  <1>4. TypeOK'
    BY <1>1, <1>3, <1>inv DEF TypeOK, TypeHost, TypeWire, TypeAgent, TypeChip, hostVars, downVars,
       chipVars
  <1>5. ReplyInv'
    BY <1>1, <1>2, <1>inv, ReplySent DEF hostVars, TypeOK, TypeAgent
  <1>6. ImgInv' /\ HostInv' /\ FreshInv' /\ WireInv' /\ SyncInv'
    BY <1>1, <1>2, <1>inv DEF ImgInv, HostInv, FreshInv, WireInv, SyncInv, Rejected, hostVars,
       downVars
  <1>7. AgentInv' /\ RecvInv' /\ BufferInv'
    BY <1>1, <1>2 DEF AgentInv, RecvInv, BufferInv, Running
  <1>8. ChipInv'
    <2>1. ASSUME NEW s \in 0..img.ns-1 PROVE Good(s)
      <3>1. s < asec
        BY <1>2, <1>inv DEF TypeOK, TypeHost
      <3> QED
        BY <3>1, <1>1, <1>inv DEF ChipInv, Running
    <2> QED
      BY <2>1, <1>1 DEF ChipInv, Good, chipVars, Running
  <1> QED
    BY <1>1, <1>4, <1>5, <1>6, <1>7, <1>8, <1>inv, UntouchedFrame DEF IInv, chipVars

\* Power loss.
LEMMA AgentDiesStep == IInv /\ AgentDies => IInv'
  <1> SUFFICES ASSUME IInv, AgentDies PROVE IInv'
    OBVIOUS
  <1>inv. /\ TypeOK /\ ImgInv /\ HostInv /\ FreshInv /\ WireInv /\ SyncInv /\ ReplyInv
          /\ AgentInv /\ RecvInv /\ BufferInv /\ ChipInv /\ UntouchedUntilReceived
    BY DEF IInv
  <1>1. /\ apc' = "dead" /\ faults' = faults + 1
        /\ UNCHANGED <<img, hostVars, downVars, upVars, asec, buf, rx, pend, aop,
                       emitted, session, flash, hwlost, stalls>>
    BY DEF AgentDies
  <1>2. TypeOK'
    <2>1. faults' \in Nat
      BY <1>1, <1>inv DEF TypeOK, TypeChip
    <2> QED
      BY <2>1, <1>1, <1>inv DEF TypeOK, TypeHost, TypeWire, TypeAgent, TypeChip, hostVars,
         downVars, upVars
  <1>3. ImgInv' /\ HostInv' /\ FreshInv' /\ WireInv' /\ SyncInv' /\ ReplyInv'
    BY <1>1, <1>inv DEF ImgInv, HostInv, FreshInv, WireInv, SyncInv, ReplyInv, Rejected,
       Streaming, hostVars, downVars, upVars
  <1>4. AgentInv' /\ RecvInv' /\ BufferInv' /\ ChipInv'
    BY <1>1, <1>inv DEF AgentInv, RecvInv, BufferInv, ChipInv, Running, HasPend, Holds, Good
  <1> QED
    BY <1>1, <1>2, <1>3, <1>4, <1>inv, UntouchedFrame DEF IInv

\* A stuttering step.
LEMMA StutterStep == IInv /\ UNCHANGED vars => IInv'
  <1> SUFFICES ASSUME IInv, UNCHANGED vars PROVE IInv'
    OBVIOUS
  <1>inv. /\ TypeOK /\ ImgInv /\ HostInv /\ FreshInv /\ WireInv /\ SyncInv /\ ReplyInv
          /\ AgentInv /\ RecvInv /\ BufferInv /\ ChipInv /\ UntouchedUntilReceived
    BY DEF IInv
  <1>1. UNCHANGED <<img, hostVars, downVars, upVars, agentVars, chipVars, stalls>>
    BY DEF vars
  <1>2. TypeOK'
    BY <1>1, <1>inv DEF TypeOK, TypeHost, TypeWire, TypeAgent, TypeChip, hostVars,
       downVars, upVars, agentVars, chipVars
  <1>3. ImgInv' /\ HostInv' /\ FreshInv' /\ WireInv' /\ SyncInv' /\ ReplyInv'
    BY <1>1, <1>inv DEF ImgInv, HostInv, FreshInv, WireInv, SyncInv, ReplyInv, Rejected,
       Streaming, hostVars, downVars, upVars, agentVars
  <1> QED
    BY <1>1, <1>2, <1>3, <1>inv, AgentFrame, BufferFrame, ChipFrame, UntouchedFrame, RecvFrame
       DEF IInv, hostVars, downVars, agentVars, chipVars

---------------------------------------------------------------------------
(* The theorems.                                                           *)

\* IInv is inductive: no action of the host, the agent, the wire or the chip
\* leads out of it.
THEOREM Inductive == Spec => []IInv
  <1>1. IInv /\ [Next]_vars => IInv'
    <2> SUFFICES ASSUME IInv, [Next]_vars PROVE IInv'
      OBVIOUS
    <2>1. CASE HostNext
      BY <2>1, HostStartStep, HostAckStep, HostSendStep, HostRaiseStep, HostProgressStep,
         HostFinalStep DEF HostNext
    <2>2. CASE AgentNext
      BY <2>2, AgentCommandStep, AgentReadyStep, AgentRecvStep, AgentRecvTimeoutStep,
         AgentRotateStep, AgentEraseStep, AgentProgramStep, AgentEraseSkipStep,
         AgentFinalAckStep DEF AgentNext
    <2>3. CASE Arrive \/ Overflow \/ HostGone \/ AgentDies
      BY <2>3, ArriveStep, OverflowStep, HostGoneStep, AgentDiesStep
    <2>4. CASE Stopped \/ UNCHANGED vars
      BY <2>4, StutterStep DEF Stopped
    <2> QED
      BY <2>1, <2>2, <2>3, <2>4 DEF Next
  <1> QED
    BY <1>1, InitIInv, PTL DEF Spec

\* Type correctness of write_flash, handle_flash_stream, soft_rx and the chip.
THEOREM TypeCorrect == Spec => []TypeOK
  <1>1. IInv => TypeOK
    BY DEF IInv
  <1> QED
    BY <1>1, Inductive, PTL

\* write_flash returns True only when the chip holds the image, whatever packets
\* were lost, damaged or late, provided the image does not end in a tail that
\* page_is_ff ignores.
THEOREM FlashedImageHolds == Spec => [](~img.tail => FlashedImage)
  <1>1. IInv => (~img.tail => FlashedImage)
    <2> SUFFICES ASSUME IInv, ~img.tail, hpc = "true" PROVE FlashedImage
      BY DEF FlashedImage
    <2>1. session = "ok"
      BY DEF IInv, ReplyInv
    <2>2. \A s \in 0..img.ns-1 : Good(s)
      BY <2>1 DEF IInv, ChipInv
    <2> QED
      BY <2>2 DEF Good, FlashedImage
  <1> QED
    BY <1>1, Inductive, PTL

\* handle_flash_stream never erases a sector before its data is in RAM, nor a
\* sector outside the image.
THEOREM SectorsUntouched == Spec => []UntouchedUntilReceived
  <1>1. IInv => UntouchedUntilReceived
    BY DEF IInv
  <1> QED
    BY <1>1, Inductive, PTL

\* The double buffer of handle_flash_stream: the sector waiting to be programmed
\* is never disturbed by the one being received.
THEOREM PendingIntact == Spec => []PendingHoldsItsSector
  <1>1. IInv => PendingHoldsItsSector
    <2> SUFFICES ASSUME IInv, session = "open", HasPend
                 PROVE  buf[pend.b] = [p \in 1..PagesOf(img, pend.s) |-> <<pend.s, p>>]
      BY DEF PendingHoldsItsSector
    <2>1. pend.b \in 0..1 /\ Holds(pend.b, pend.s) /\ buf[pend.b] \in Seq(Nat \X Nat)
      BY DEF IInv, BufferInv, TypeOK, TypeAgent, HasPend
    <2>2. /\ Len(buf[pend.b]) = PagesOf(img, pend.s)
          /\ \A p \in 1..PagesOf(img, pend.s) : buf[pend.b][p] = <<pend.s, p>>
      BY <2>1 DEF Holds
    <2>3. buf[pend.b] = [p \in 1..Len(buf[pend.b]) |-> buf[pend.b][p]]
      BY <2>1
    <2> QED
      BY <2>2, <2>3
  <1> QED
    BY <1>1, Inductive, PTL

\* soft_rx, with room for one sector, never drops a byte: the host waits for a
\* sector's progress packet, and the agent sends it when it has read the sector.
THEOREM SoftRxSuffices == ASSUME RxCap >= SectorPages PROVE Spec => []SoftRxNeverOverflows
  <1>1. IInv => Len(h2a) <= RxCap
    <2> SUFFICES ASSUME IInv PROVE Len(h2a) <= RxCap
      OBVIOUS
    <2>inv. TypeOK /\ ImgInv /\ HostInv /\ FreshInv /\ WireInv
      BY DEF IInv
    <2>0. /\ Len(h2a) \in Nat /\ hsent \in Nat /\ hs \in Nat
          /\ SectorPages \in Nat \ {0} /\ RxCap \in Nat
      BY <2>inv, SizeAssumption, BoundAssumption DEF TypeOK, TypeWire, TypeHost
    <2>1. CASE session = "none" \/ Len(h2a) <= 1
      <3>1. Len(h2a) <= 1
        BY <2>0, <2>1, <2>inv DEF FreshInv
      <3> QED
        BY <2>0, <3>1
    <2>2. CASE session # "none" /\ Len(h2a) > 1
      <3>1. 1 \in 1..Len(h2a) /\ Len(h2a) \in 1..Len(h2a) /\ 1 < Len(h2a)
        BY <2>0, <2>2
      <3>2. /\ h2a[1].p \in 1..hsent /\ h2a[Len(h2a)].p \in 1..hsent
            /\ h2a[Len(h2a)].p - h2a[1].p >= Len(h2a) - 1
        BY <3>1, <2>2, <2>inv DEF WireInv
      <3>3. Len(h2a) <= hsent
        BY <2>0, <3>2
      <3>4. hsent <= PagesOf(img, hs)
        <4>1. hsent > 0
          BY <2>0, <2>2, <3>3
        <4> QED
          BY <4>1, <2>inv DEF HostInv
      <3>5. PagesOf(img, hs) \in 0..SectorPages
        BY <2>0, <2>inv, PagesOfRange DEF TypeOK, TypeHost, ImgInv
      <3> QED
        BY <2>0, <3>3, <3>4, <3>5
    <2> QED
      BY <2>0, <2>1, <2>2
  <1>2. IInv /\ SoftRxNeverOverflows /\ [Next]_vars => SoftRxNeverOverflows'
    <2> SUFFICES ASSUME IInv, spill = "none", [Next]_vars PROVE spill' = "none"
      BY DEF SoftRxNeverOverflows
    <2>1. ~Overflow
      <3>1. nsoft \in Nat /\ Len(h2a) \in Nat /\ RxCap \in Nat
        BY BoundAssumption DEF IInv, TypeOK, TypeWire
      <3>2. Len(h2a) <= RxCap
        BY <1>1
      <3>3. Overflow => nsoft < Len(h2a) /\ nsoft >= RxCap
        BY DEF Overflow
      <3> QED
        BY <3>1, <3>2, <3>3
    <2>2. CASE HostNext
      BY <2>2 DEF HostNext, HostStart, HostAck, HostSend, HostSeqOverflow, HostProgress,
         HostFinal, HostTimeout, downVars
    <2>3. CASE AgentNext
      BY <2>3 DEF AgentNext, AgentCommand, AgentReady, AgentRecv, AgentRecvTimeout,
         AgentRotate, AgentErase, AgentProgram, AgentEraseSkip, AgentFinalAck, ReadSoft, downVars
    <2>4. CASE Arrive \/ HostGone \/ AgentDies \/ Stopped \/ UNCHANGED vars
      BY <2>4 DEF Arrive, HostGone, AgentDies, Stopped, vars, downVars
    <2> QED
      BY <2>1, <2>2, <2>3, <2>4 DEF Next
  <1>3. Init => SoftRxNeverOverflows
    BY DEF Init, SoftRxNeverOverflows
  <1> QED
    BY <1>2, <1>3, Inductive, PTL DEF Spec
---------------------------------------------------------------------------
(* A transfer in which nothing goes wrong.                                 *)

\* Every page of an image that fits has a 16-bit sequence number.
SeqSuffices(g) ==
  Base + g.ns <= FlashSectors => (g.ns - 1) * SectorPages + g.last <= SeqMax + 1

\* The image fits, and nothing has been lost, failed or stalled so far.
Clean ==
  /\ img.ns > 0 /\ Base + img.ns <= FlashSectors
  /\ lost = 0 /\ rlost = 0 /\ faults = 0 /\ stalls = 0

\* Neither side has given up, and the agent leaves its loop only when done.
QuietInv ==
  /\ hpc \notin {"false", "raised"}
  /\ apc # "dead" /\ session # "aborted"
  /\ session = "open" => apc # "idle"
  /\ session = "ok" => emitted = img.ns

\* What is under way is intact, and the request is all there is before it is read.
IntactInv ==
  /\ \A i \in 1..Len(h2a) : h2a[i].t # "BAD"
  /\ session = "none" => \A i \in 1..Len(h2a) : h2a[i].t = "STREAM"
  /\ \A i \in 1..Len(a2h) : a2h[i].t # "ERR"

\* Of the sector the agent has not reported yet, every page the host has sent is
\* under way or in the agent's buffer.
CountInv ==
  session = "open" /\ hs = emitted =>
    Len(h2a) + (IF apc = "recv" THEN Len(buf[rx]) ELSE 0) = hsent

\* An answer the host waits for and the agent has given is under way: the ACK of
\* the request before everything else, and every progress packet since.
AnswerInv ==
  session # "none" =>
    /\ hpc = "ack" => \E i \in 1..Len(a2h) :
         a2h[i].t = "OK" /\ \A j \in 1..i-1 : a2h[j].t = "READY"
    /\ hpc \in {"ack", "send", "progress"} =>
         \A n \in hs+1..emitted :
           \E i \in 1..Len(a2h) : a2h[i].t = "PROG" /\ a2h[i].n = n

CleanInv ==
  /\ SeqSuffices(img)
  /\ Clean => QuietInv /\ IntactInv /\ CountInv /\ AnswerInv

GoodInv == QuietInv /\ IntactInv /\ CountInv /\ AnswerInv

\* The faults only grow: what is clean now was clean before.
LEMMA CleanBefore ==
  ASSUME IInv, [Next]_vars, Clean'
  PROVE  Clean /\ img' = img
  <1>1. lost \in Nat /\ rlost \in Nat /\ faults \in Nat /\ stalls \in Nat
    BY DEF IInv, TypeOK, TypeChip
  <1> DEFINE Grows ==
        /\ img' = img
        /\ lost' \in {lost, lost + 1} /\ rlost' \in {rlost, rlost + 1}
        /\ faults' \in {faults, faults + 1} /\ stalls' \in {stalls, stalls + 1}
  <1>2. CASE HostNext
    <2>1. Grows
      BY <1>2 DEF HostNext, HostStart, HostAck, HostSend, HostSeqOverflow, HostProgress,
         HostFinal, HostTimeout, SendToAgent, downVars, upVars, chipVars
    <2> QED
      BY <1>1, <2>1 DEF Clean
  <1>3. CASE AgentNext
    <2>1. CASE AgentCommand \/ AgentReady
      <3>1. Grows
        BY <2>1 DEF AgentCommand, AgentReady, SendToHost, ReadSoft, downVars, upVars, chipVars
      <3> QED
        BY <1>1, <3>1 DEF Clean
    <2>2. CASE AgentRecv \/ AgentRecvTimeout
      <3>1. Grows
        BY <2>2 DEF AgentRecv, AgentRecvTimeout, Abort, SendToHost, ReadSoft, downVars, upVars,
           chipVars
      <3> QED
        BY <1>1, <3>1 DEF Clean
    <2>3. CASE AgentRotate \/ AgentFinalAck
      <3>1. Grows
        BY <2>3 DEF AgentRotate, AgentFinalAck, SendToHost, downVars, upVars, chipVars
      <3> QED
        BY <1>1, <3>1 DEF Clean
    <2>4. CASE AgentErase \/ AgentEraseSkip
      <3>1. Grows
        BY <2>4 DEF AgentErase, AgentEraseSkip, EraseSector, Abort, SendToHost, downVars, upVars
      <3> QED
        BY <1>1, <3>1 DEF Clean
    <2>5. CASE AgentProgram
      <3>1. Grows
        BY <2>5 DEF AgentProgram, ProgramSector, downVars, upVars
      <3> QED
        BY <1>1, <3>1 DEF Clean
    <2> QED
      BY <1>3, <2>1, <2>2, <2>3, <2>4, <2>5 DEF AgentNext
  <1>4. CASE Arrive \/ Overflow \/ HostGone \/ AgentDies \/ Stopped \/ UNCHANGED vars
    <2>1. Grows
      BY <1>4 DEF Arrive, Overflow, HostGone, AgentDies, Stopped, vars, downVars, upVars, chipVars
    <2> QED
      BY <1>1, <2>1 DEF Clean
  <1> QED
    BY <1>2, <1>3, <1>4 DEF Next

\* What is sent without a loss arrives at the end of the queue.
LEMMA CleanSent ==
  ASSUME TypeOK, NEW pkt, SendToAgent(pkt), lost' = 0
  PROVE  h2a' = Append(h2a, pkt)
  <1>1. lost \in Nat
    BY DEF TypeOK, TypeChip
  <1> QED
    BY <1>1 DEF SendToAgent

LEMMA CleanReplied ==
  ASSUME TypeOK, NEW type \in {"READY", "OK", "ERR", "PROG"}, NEW done \in Nat,
         SendToHost(type, done), rlost' = 0
  PROVE  /\ a2h' = Append(a2h, [t |-> type, n |-> done])
         /\ [t |-> type, n |-> done] \in Reply
  <1>1. rlost \in Nat
    BY DEF TypeOK, TypeChip
  <1>2. [t |-> type, n |-> done] \in Reply
    BY DEF Reply
  <1> QED
    BY <1>1, <1>2 DEF SendToHost

\* A reply that is appended leaves those before it where they are.
LEMMA AnswerAppend ==
  ASSUME TypeOK, AnswerInv, session # "none", NEW e \in Reply, a2h' = Append(a2h, e),
         hpc' = hpc, hs' = hs,
         \/ emitted' = emitted
         \/ emitted' = emitted + 1 /\ e.t = "PROG" /\ e.n = emitted + 1
  PROVE  AnswerInv'
  <1>1. /\ a2h \in Seq(Reply) /\ Len(a2h) \in Nat /\ hs \in Nat /\ emitted \in Nat
    BY DEF TypeOK, TypeWire, TypeHost, TypeAgent
  <1>2. /\ Len(a2h') = Len(a2h) + 1
        /\ \A i \in 1..Len(a2h) : a2h'[i] = a2h[i]
        /\ a2h'[Len(a2h) + 1] = e
    BY <1>1, AppendFacts
  <1>3. ASSUME hpc = "ack"
        PROVE  \E i \in 1..Len(a2h') : a2h'[i].t = "OK" /\ \A j \in 1..i-1 : a2h'[j].t = "READY"
    <2>1. PICK i \in 1..Len(a2h) : a2h[i].t = "OK" /\ \A j \in 1..i-1 : a2h[j].t = "READY"
      BY <1>3 DEF AnswerInv
    <2>2. i \in 1..Len(a2h') /\ a2h'[i].t = "OK"
      BY <1>1, <1>2, <2>1
    <2>3. \A j \in 1..i-1 : a2h'[j].t = "READY"
      BY <1>1, <1>2, <2>1
    <2> QED
      BY <2>2, <2>3
  <1>4. ASSUME hpc \in {"ack", "send", "progress"}, NEW n \in hs+1..emitted'
        PROVE  \E i \in 1..Len(a2h') : a2h'[i].t = "PROG" /\ a2h'[i].n = n
    <2>1. CASE n \in hs+1..emitted
      <3>1. PICK i \in 1..Len(a2h) : a2h[i].t = "PROG" /\ a2h[i].n = n
        BY <1>4, <2>1 DEF AnswerInv
      <3>2. i \in 1..Len(a2h') /\ a2h'[i] = a2h[i]
        BY <1>1, <1>2
      <3> QED
        BY <3>1, <3>2
    <2>2. CASE n \notin hs+1..emitted
      <3>1. e.t = "PROG" /\ e.n = n
        BY <1>1, <2>2
      <3>2. Len(a2h) + 1 \in 1..Len(a2h')
        BY <1>1, <1>2
      <3> QED
        BY <1>2, <3>1, <3>2
    <2> QED
      BY <2>1, <2>2
  <1> QED
    BY <1>3, <1>4 DEF AnswerInv

\* The answers are as they were when neither the host nor the replies change.
LEMMA AnswerFrame ==
  ASSUME AnswerInv, UNCHANGED <<a2h, hpc, hs, emitted, session>>
  PROVE  AnswerInv'
  BY DEF AnswerInv

\* An intact reply keeps the replies intact.
LEMMA IntactAppend ==
  ASSUME TypeOK, IntactInv, NEW e \in Reply, a2h' = Append(a2h, e), e.t # "ERR"
  PROVE  \A i \in 1..Len(a2h') : a2h'[i].t # "ERR"
  <1>1. a2h \in Seq(Reply) /\ Len(a2h) \in Nat
    BY DEF TypeOK, TypeWire
  <1>2. /\ Len(a2h') = Len(a2h) + 1
        /\ \A i \in 1..Len(a2h) : a2h'[i] = a2h[i]
        /\ a2h'[Len(a2h) + 1] = e
    BY <1>1, AppendFacts
  <1>3. \A i \in 1..Len(a2h) : a2h[i].t # "ERR"
    BY DEF IntactInv
  <1>4. ASSUME NEW i \in 1..Len(a2h') PROVE a2h'[i].t # "ERR"
    <2>1. i \in 1..Len(a2h) \/ i = Len(a2h) + 1
      BY <1>1, <1>2
    <2> QED
      BY <1>2, <1>3, <2>1
  <1> QED
    BY <1>4

\* A reply that is read leaves the others intact.
LEMMA IntactTail ==
  ASSUME TypeOK, IntactInv, a2h # <<>>, a2h' = Tail(a2h), UNCHANGED <<h2a, session>>
  PROVE  IntactInv'
  <1>1. a2h \in Seq(Reply)
    BY DEF TypeOK, TypeWire
  <1>2. /\ Len(a2h) \in Nat \ {0} /\ Len(a2h') = Len(a2h) - 1
        /\ \A i \in 1..Len(a2h)-1 : a2h'[i] = a2h[i + 1]
    BY <1>1, TailFacts
  <1>3. \A i \in 1..Len(a2h) : a2h[i].t # "ERR"
    BY DEF IntactInv
  <1>4. \A i \in 1..Len(a2h') : a2h'[i].t # "ERR"
    <2> TAKE i \in 1..Len(a2h')
    <2>1. i \in 1..Len(a2h)-1 /\ i + 1 \in 1..Len(a2h)
      BY <1>2
    <2> QED
      BY <1>2, <1>3, <2>1
  <1> QED
    BY <1>4 DEF IntactInv

---------------------------------------------------------------------------
\* A step of a transfer in which nothing has gone wrong, nor does now.
CleanStep == IInv /\ IInv' /\ Clean /\ Clean' /\ spill = "none" /\ GoodInv

\* Without a loss the request arrives.
LEMMA CleanStart == CleanStep /\ HostStart => GoodInv'
  <1> SUFFICES ASSUME CleanStep, HostStart PROVE GoodInv'
    OBVIOUS
  <1>0. TypeOK /\ HostInv /\ FreshInv /\ WireInv /\ GoodInv /\ lost' = 0
    BY DEF CleanStep, IInv, Clean
  <1>1. h2a' = Append(h2a, [t |-> "STREAM", s |-> 0, p |-> 0])
    BY <1>0, CleanSent DEF HostStart
  <1>2. /\ session = "none" /\ session' = session /\ a2h' = a2h /\ hpc' = "ack"
        /\ apc' = apc /\ emitted' = emitted /\ img' = img
    BY <1>0 DEF HostStart, HostReturn, WireInv, agentVars, upVars, TypeOK, TypeAgent
  <1>3. h2a \in Seq(Packet) /\ Len(h2a) \in Nat /\ Len(h2a) <= 0
    BY <1>0, <1>2 DEF TypeOK, TypeWire, FreshInv, HostStart
  <1>4. [t |-> "STREAM", s |-> 0, p |-> 0] \in Packet
    BY DEF Packet
  <1>5. Len(h2a') = 1 /\ h2a'[1].t = "STREAM"
    BY <1>1, <1>3, <1>4, AppendFacts
  <1>6. QuietInv'
    BY <1>0, <1>2 DEF QuietInv, GoodInv
  <1>7. IntactInv'
    <2>1. \A i \in 1..Len(h2a') : i = 1
      BY <1>5
    <2>2. \A i \in 1..Len(h2a') : h2a'[i].t = "STREAM"
      BY <1>5, <2>1
    <2> QED
      BY <1>0, <1>2, <2>2 DEF IntactInv, GoodInv
  <1> QED
    BY <1>2, <1>6, <1>7 DEF GoodInv, CountInv, AnswerInv

\* A reply that is not a progress packet can be read without missing one.
LEMMA ProgressKept ==
  ASSUME TypeOK, AnswerInv, session # "none", a2h # <<>>, a2h' = Tail(a2h),
         hpc \in {"ack", "send", "progress"},
         NEW n \in hs+1..emitted, ~(Head(a2h).t = "PROG" /\ Head(a2h).n = n)
  PROVE  \E i \in 1..Len(a2h') : a2h'[i].t = "PROG" /\ a2h'[i].n = n
  <1>1. a2h \in Seq(Reply)
    BY DEF TypeOK, TypeWire
  <1>2. /\ Len(a2h) \in Nat \ {0} /\ Len(a2h') = Len(a2h) - 1 /\ Head(a2h) = a2h[1]
        /\ \A i \in 1..Len(a2h)-1 : a2h'[i] = a2h[i + 1]
    BY <1>1, TailFacts
  <1>3. PICK i \in 1..Len(a2h) : a2h[i].t = "PROG" /\ a2h[i].n = n
    BY DEF AnswerInv
  <1>4. i # 1
    BY <1>2, <1>3
  <1>5. i - 1 \in 1..Len(a2h)-1 /\ (i - 1) + 1 = i
    BY <1>2, <1>3, <1>4
  <1>6. i - 1 \in 1..Len(a2h') /\ a2h'[i - 1] = a2h[i]
    BY <1>2, <1>5
  <1> QED
    BY <1>3, <1>6

\* The first answer that is not READY is the ACK of the request.
LEMMA CleanAck == CleanStep /\ HostAck => GoodInv'
  <1> SUFFICES ASSUME CleanStep, HostAck PROVE GoodInv'
    OBVIOUS
  <1>0. /\ TypeOK /\ HostInv /\ FreshInv /\ SyncInv /\ ReplyInv /\ GoodInv
        /\ QuietInv /\ IntactInv /\ CountInv /\ AnswerInv
    BY DEF CleanStep, IInv, GoodInv
  <1>1. /\ hpc = "ack" /\ a2h # <<>> /\ a2h' = Tail(a2h)
        /\ UNCHANGED <<img, h2a, session, apc, emitted, buf, rx>>
    BY DEF HostAck, downVars, agentVars
  <1>2. /\ a2h \in Seq(Reply) /\ hs = 0 /\ hsent = 0 /\ emitted \in Nat
    BY <1>0, <1>1 DEF TypeOK, TypeWire, TypeAgent, HostInv
  <1>3. /\ Len(a2h) \in Nat \ {0} /\ Len(a2h') = Len(a2h) - 1 /\ Head(a2h) = a2h[1]
        /\ \A i \in 1..Len(a2h)-1 : a2h'[i] = a2h[i + 1]
    BY <1>1, <1>2, TailFacts
  <1>4. IntactInv'
    BY <1>0, <1>1, IntactTail
  <1>5. 1 \in 1..Len(a2h)
    BY <1>3
  <1>6. session = "none" => Head(a2h).t = "READY"
    <2>1. session = "none" => a2h[1].t \in {"READY", "ERR"}
      BY <1>0, <1>5 DEF FreshInv
    <2>2. a2h[1].t # "ERR"
      BY <1>0, <1>5 DEF IntactInv
    <2> QED
      BY <1>3, <2>1, <2>2
  <1>7. session # "none" => Head(a2h).t \in {"READY", "OK"}
    <2> SUFFICES ASSUME session # "none" PROVE Head(a2h).t \in {"READY", "OK"}
      OBVIOUS
    <2>1. PICK i \in 1..Len(a2h) : a2h[i].t = "OK" /\ \A j \in 1..i-1 : a2h[j].t = "READY"
      BY <1>0, <1>1 DEF AnswerInv
    <2>2. CASE i = 1
      BY <1>3, <2>1, <2>2
    <2>3. CASE i # 1
      <3>1. 1 \in 1..i-1
        BY <1>3, <2>1, <2>3
      <3> QED
        BY <1>3, <2>1, <3>1
    <2> QED
      BY <2>2, <2>3
  <1>8. CASE Head(a2h).t = "READY"
    <2>1. UNCHANGED <<hpc, hs, hsent>>
      BY <1>8 DEF HostAck, hostVars
    <2>2. QuietInv' /\ CountInv'
      BY <1>0, <1>1, <2>1 DEF QuietInv, CountInv
    <2>3. AnswerInv'
      <3> SUFFICES ASSUME session # "none" PROVE AnswerInv'
        BY <1>1 DEF AnswerInv
      <3>1. \E i \in 1..Len(a2h') : a2h'[i].t = "OK" /\ \A j \in 1..i-1 : a2h'[j].t = "READY"
        <4>1. PICK i \in 1..Len(a2h) : a2h[i].t = "OK" /\ \A j \in 1..i-1 : a2h[j].t = "READY"
          BY <1>0, <1>1 DEF AnswerInv
        <4>2. i # 1
          BY <1>3, <1>8, <4>1
        <4>3. i - 1 \in 1..Len(a2h)-1 /\ (i - 1) + 1 = i
          BY <1>3, <4>1, <4>2
        <4>4. i - 1 \in 1..Len(a2h') /\ a2h'[i - 1] = a2h[i]
          BY <1>3, <4>3
        <4>5. \A j \in 1..(i-1)-1 : a2h'[j].t = "READY"
          <5> TAKE j \in 1..(i-1)-1
          <5>1. j \in 1..Len(a2h)-1 /\ j + 1 \in 1..i-1
            BY <1>3, <4>1
          <5> QED
            BY <1>3, <4>1, <5>1
        <4> QED
          BY <4>1, <4>4, <4>5
      <3>2. \A n \in hs+1..emitted :
              \E i \in 1..Len(a2h') : a2h'[i].t = "PROG" /\ a2h'[i].n = n
        BY <1>0, <1>1, <1>8, ProgressKept
      <3> QED
        BY <1>1, <2>1, <3>1, <3>2 DEF AnswerInv
    <2> QED
      BY <1>4, <2>2, <2>3 DEF GoodInv
  <1>9. CASE Head(a2h).t = "OK"
    <2>1. session # "none"
      BY <1>6, <1>9
    <2>2. HostSector(0)
      BY <1>9 DEF HostAck
    <2>3. hs' = hs /\ hsent' = hsent /\ hpc' \in {"final", "send", "progress"}
      BY <1>2, <2>2 DEF HostSector
    <2>4. QuietInv' /\ CountInv'
      BY <1>0, <1>1, <2>3 DEF QuietInv, CountInv
    <2>5. \A n \in hs+1..emitted :
            \E i \in 1..Len(a2h') : a2h'[i].t = "PROG" /\ a2h'[i].n = n
      BY <1>0, <1>1, <1>9, <2>1, ProgressKept
    <2>6. AnswerInv'
      BY <1>1, <2>3, <2>5 DEF AnswerInv
    <2> QED
      BY <1>4, <2>4, <2>6 DEF GoodInv
  <1> QED
    BY <1>6, <1>7, <1>8, <1>9

\* The progress packets come in order: the one that is read is of the sector
\* the host has sent.
LEMMA CleanProgress == CleanStep /\ HostProgress => GoodInv'
  <1> SUFFICES ASSUME CleanStep, HostProgress PROVE GoodInv'
    OBVIOUS
  <1>0. /\ TypeOK /\ TypeOK' /\ HostInv /\ FreshInv /\ SyncInv /\ SyncInv' /\ ReplyInv /\ WireInv' /\ HostInv'
        /\ QuietInv /\ IntactInv /\ CountInv /\ AnswerInv
    BY DEF CleanStep, IInv, GoodInv
  <1>1. /\ hpc = "progress" /\ a2h # <<>> /\ a2h' = Tail(a2h)
        /\ UNCHANGED <<img, h2a, session, apc, emitted, buf, rx>>
    BY DEF HostProgress, downVars, agentVars
  <1>2. /\ a2h \in Seq(Reply) /\ hs \in Nat /\ hsent \in Nat /\ emitted \in Nat
        /\ session # "none"
    BY <1>0, <1>1 DEF TypeOK, TypeWire, TypeAgent, TypeHost, FreshInv, Streaming
  <1>3. /\ Len(a2h) \in Nat \ {0} /\ Len(a2h') = Len(a2h) - 1 /\ Head(a2h) = a2h[1]
        /\ Head(a2h) \in Reply
        /\ \A i \in 1..Len(a2h)-1 : a2h'[i] = a2h[i + 1]
    BY <1>1, <1>2, TailFacts
  <1>4. IntactInv'
    BY <1>0, <1>1, IntactTail
  <1>5. 1 \in 1..Len(a2h)
    BY <1>3
  <1>6. Head(a2h).t \in {"READY", "PROG", "OK"}
    <2>1. a2h[1].t # "ERR"
      BY <1>0, <1>5 DEF IntactInv
    <2> QED
      BY <1>3, <2>1 DEF Reply
  <1>7. CASE Head(a2h).t = "READY"
    <2>1. UNCHANGED <<hpc, hs, hsent>>
      BY <1>7 DEF HostProgress, hostVars
    <2>2. QuietInv' /\ CountInv'
      BY <1>0, <1>1, <2>1 DEF QuietInv, CountInv
    <2>3. \A n \in hs+1..emitted :
            \E i \in 1..Len(a2h') : a2h'[i].t = "PROG" /\ a2h'[i].n = n
      BY <1>0, <1>1, <1>2, <1>7, ProgressKept
    <2>4. AnswerInv'
      BY <1>1, <2>1, <2>3 DEF AnswerInv
    <2> QED
      BY <1>4, <2>2, <2>4 DEF GoodInv
  <1>8. CASE Head(a2h).t = "OK"
    <2>1. hpc' = "true" /\ UNCHANGED <<hs, hsent>>
      BY <1>8 DEF HostProgress, HostReturn
    <2>2. QuietInv' /\ CountInv' /\ AnswerInv'
      BY <1>0, <1>1, <2>1 DEF QuietInv, CountInv, AnswerInv
    <2> QED
      BY <1>4, <2>2 DEF GoodInv
  <1>9. CASE Head(a2h).t = "PROG"
    <2>1. HostSector(hs + 1)
      BY <1>9 DEF HostProgress
    <2>2. hs' = hs + 1 /\ hsent' = 0 /\ hpc' \in {"final", "send", "progress"}
      BY <2>1 DEF HostSector
    <2>3. hs < a2h[1].n /\ a2h[1].n <= emitted /\ a2h[1].n \in Nat
      BY <1>0, <1>3, <1>5, <1>9 DEF ReplyInv, Reply
    <2>4. a2h[1].n = hs + 1
      <3>1. hs + 1 \in hs+1..emitted
        BY <1>2, <2>3
      <3>2. PICK i \in 1..Len(a2h) : a2h[i].t = "PROG" /\ a2h[i].n = hs + 1
        BY <1>0, <1>1, <1>2, <3>1 DEF AnswerInv
      <3>3. CASE i = 1
        BY <3>2, <3>3
      <3>4. CASE i # 1
        <4>1. 1 < i
          BY <1>3, <3>2, <3>4
        <4>2. a2h[1].n < a2h[i].n
          BY <1>0, <1>3, <1>5, <1>9, <3>2, <4>1 DEF ReplyInv
        <4> QED
          BY <1>2, <2>3, <3>2, <4>2
      <3> QED
        BY <3>3, <3>4
    <2>5. ASSUME NEW n \in hs'+1..emitted'
          PROVE  \E i \in 1..Len(a2h') : a2h'[i].t = "PROG" /\ a2h'[i].n = n
      <3>1. n \in hs+1..emitted /\ n # hs + 1
        BY <1>1, <1>2, <2>2
      <3>2. ~(Head(a2h).t = "PROG" /\ Head(a2h).n = n)
        BY <1>3, <2>4, <3>1
      <3> QED
        BY <1>0, <1>1, <1>2, <3>1, <3>2, ProgressKept
    <2>6. AnswerInv'
      BY <2>2, <2>5 DEF AnswerInv
    <2>7. QuietInv'
      BY <1>0, <1>1, <2>2 DEF QuietInv
    <2>8. CountInv'
      <3>1. h2a = <<>>
        BY <1>0, <1>2, <2>3 DEF SyncInv
      <3>2. CASE apc = "recv"
        <4>1. RecvInv /\ AgentInv /\ TypeOK
          BY DEF CleanStep, IInv
        <4>2. Len(buf[rx]) \in Nat /\ asec \in Nat
          BY <4>1, BufferLen
        <4>3. emitted = asec
          BY <3>2, <4>1 DEF AgentInv
        <4>4. Len(buf[rx]) = 0
          BY <1>2, <2>3, <3>2, <4>1, <4>2, <4>3 DEF RecvInv
        <4> QED
          BY <1>1, <2>2, <3>1, <3>2, <4>4 DEF CountInv
      <3>3. CASE apc # "recv"
        BY <1>1, <2>2, <3>1, <3>3 DEF CountInv
      <3> QED
        BY <3>2, <3>3
    <2> QED
      BY <1>4, <2>6, <2>7, <2>8 DEF GoodInv
  <1> QED
    BY <1>6, <1>7, <1>8, <1>9

\* Behind the loop the host waits for the final ACK.
LEMMA CleanFinal == CleanStep /\ HostFinal => GoodInv'
  <1> SUFFICES ASSUME CleanStep, HostFinal PROVE GoodInv'
    OBVIOUS
  <1>0. /\ TypeOK /\ QuietInv /\ IntactInv /\ CountInv /\ AnswerInv
    BY DEF CleanStep, IInv, GoodInv
  <1>1. /\ hpc = "final" /\ a2h # <<>> /\ a2h' = Tail(a2h)
        /\ UNCHANGED <<img, h2a, session, apc, emitted, buf, rx>>
    BY DEF HostFinal, downVars, agentVars
  <1>2. a2h \in Seq(Reply)
    BY <1>0 DEF TypeOK, TypeWire
  <1>3. Len(a2h) \in Nat \ {0} /\ Head(a2h) = a2h[1]
    BY <1>1, <1>2, TailFacts
  <1>4. IntactInv'
    BY <1>0, <1>1, IntactTail
  <1>5. Head(a2h).t # "ERR"
    <2>1. 1 \in 1..Len(a2h)
      BY <1>3
    <2> QED
      BY <1>0, <1>3, <2>1 DEF IntactInv
  <1>6. Head(a2h).t \in {"READY", "PROG", "OK"}
    <2>1. Head(a2h) \in Reply
      BY <1>1, <1>2, TailFacts
    <2> QED
      BY <1>5, <2>1 DEF Reply
  <1>7. hpc' \in {"final", "true"} /\ UNCHANGED <<hs, hsent>>
    BY <1>1, <1>6 DEF HostFinal, HostReturn, hostVars
  <1>8. QuietInv' /\ CountInv' /\ AnswerInv'
    BY <1>0, <1>1, <1>7 DEF QuietInv, CountInv, AnswerInv
  <1> QED
    BY <1>4, <1>8 DEF GoodInv

\* Counting what is sent and received.
LEMMA OneMoreSent ==
  ASSUME NEW a \in Nat, NEW b \in Nat, NEW c \in Nat, a + b = c
  PROVE  (a + 1) + b = c + 1
  OBVIOUS

\* One more page is sent, and is under way.
LEMMA CleanHostSend == CleanStep /\ HostSend => GoodInv'
  <1> SUFFICES ASSUME CleanStep, HostSend PROVE GoodInv'
    OBVIOUS
  <1>0. /\ TypeOK /\ TypeOK' /\ FreshInv /\ QuietInv /\ IntactInv /\ CountInv /\ AnswerInv
        /\ lost' = 0
    BY DEF CleanStep, IInv, GoodInv, Clean
  <1> DEFINE pkt == [t |-> "DATA", s |-> hs, p |-> hsent + 1]
  <1>1. /\ hpc = "send" /\ hsent' = hsent + 1 /\ hpc' \in {"send", "progress"}
        /\ UNCHANGED <<img, hs, a2h, session, apc, emitted, buf, rx>>
    BY DEF HostSend, upVars, agentVars
  <1>2. h2a' = Append(h2a, pkt)
    BY <1>0, CleanSent DEF HostSend
  <1>3. /\ h2a \in Seq(Packet) /\ hs \in Nat /\ hsent \in Nat /\ Len(h2a) \in Nat
        /\ Len(buf[rx]) \in Nat /\ session # "none"
    BY <1>0, <1>1, BufferLen DEF TypeOK, TypeWire, FreshInv, Streaming
  <1>4. pkt \in Packet /\ pkt.t = "DATA"
    BY <1>3 DEF Packet
  <1> HIDE DEF pkt
  <1>5. /\ Len(h2a') = Len(h2a) + 1
        /\ \A i \in 1..Len(h2a) : h2a'[i] = h2a[i]
        /\ h2a'[Len(h2a) + 1] = pkt
    BY <1>2, <1>3, <1>4, AppendFacts
  <1>6. QuietInv'
    BY <1>0, <1>1 DEF QuietInv
  <1>7. IntactInv'
    <2>1. \A i \in 1..Len(h2a') : h2a'[i].t # "BAD"
      <3> TAKE i \in 1..Len(h2a')
      <3>1. i \in 1..Len(h2a) \/ i = Len(h2a) + 1
        BY <1>3, <1>5
      <3>2. \A k \in 1..Len(h2a) : h2a[k].t # "BAD"
        BY <1>0 DEF IntactInv
      <3> QED
        BY <1>4, <1>5, <3>1, <3>2
    <2> QED
      BY <1>0, <1>1, <1>3, <2>1 DEF IntactInv
  <1>8. CountInv'
    <2> SUFFICES ASSUME session = "open", hs = emitted
                 PROVE  Len(h2a') + (IF apc = "recv" THEN Len(buf[rx]) ELSE 0) = hsent'
      BY <1>1 DEF CountInv
    <2>1. Len(h2a) + (IF apc = "recv" THEN Len(buf[rx]) ELSE 0) = hsent
      BY <1>0 DEF CountInv
    <2>2. CASE apc = "recv"
      <3>1. Len(h2a) + Len(buf[rx]) = hsent
        BY <2>1, <2>2
      <3>2. (Len(h2a) + 1) + Len(buf[rx]) = hsent + 1
        <4>1. Len(h2a) \in Nat /\ Len(buf[rx]) \in Nat /\ hsent \in Nat
          BY <1>3
        <4> QED
          BY <3>1, <4>1, OneMoreSent
      <3>3. Len(h2a') + Len(buf[rx]) = hsent'
        BY <1>1, <1>5, <3>2
      <3> QED
        BY <2>2, <3>3
    <2>3. CASE apc # "recv"
      BY <1>1, <1>3, <1>5, <2>1, <2>3
    <2> QED
      BY <2>2, <2>3
  <1>9. AnswerInv'
    BY <1>0, <1>1 DEF AnswerInv
  <1> QED
    BY <1>6, <1>7, <1>8, <1>9 DEF GoodInv

\* The pages of the sectors before sector s have smaller numbers than those of
\* the last one.
LEMMA SectorStarts ==
  ASSUME NEW s \in Nat, NEW n \in Nat, NEW k \in Nat, s + 1 <= n
  PROVE  s * k + k <= n * k
  <1>1. PICK d \in Nat : n = (s + 1) + d
    <2>1. n - (s + 1) \in Nat /\ n = (s + 1) + (n - (s + 1))
      OBVIOUS
    <2> QED
      BY <2>1
  <1>2. n * k = s * k + k + d * k
    BY <1>1
  <1>3. d * k \in Nat /\ s * k \in Nat
    BY <1>1
  <1> QED
    BY <1>2, <1>3

\* Every page of an image that fits has a sequence number.
LEMMA CleanSeq == CleanStep /\ SeqSuffices(img) => ~HostSeqOverflow
  <1> SUFFICES ASSUME CleanStep, SeqSuffices(img), HostSeqOverflow PROVE FALSE
    OBVIOUS
  <1>0. TypeOK /\ ImgInv /\ HostInv /\ Clean
    BY DEF CleanStep, IInv
  <1>1. /\ hs \in Nat /\ hsent \in Nat /\ img.ns \in Nat /\ img.last \in 0..SectorPages
        /\ SectorPages \in Nat /\ SeqMax \in Nat
    BY <1>0, SizeAssumption, BoundAssumption DEF TypeOK, TypeHost
  <1>2. hs < img.ns /\ hsent < PagesOf(img, hs)
    BY <1>0 DEF HostSeqOverflow, HostInv
  <1>3. (img.ns - 1) * SectorPages + img.last <= SeqMax + 1
    BY <1>0 DEF Clean, SeqSuffices
  <1>4. hs * SectorPages + hsent > SeqMax
    BY DEF HostSeqOverflow, HostSeq
  <1> DEFINE a == hs * SectorPages
             b == (img.ns - 1) * SectorPages
  <1>5. a \in Nat /\ b \in Nat
    BY <1>1, <1>2
  <1>6. CASE hs = img.ns - 1
    <2>1. hsent < img.last /\ a = b
      BY <1>2, <1>6 DEF PagesOf
    <2> HIDE DEF a, b
    <2>2. a + hsent > SeqMax /\ b + img.last <= SeqMax + 1
      BY <1>3, <1>4 DEF a, b
    <2> QED
      BY <1>1, <1>5, <2>1, <2>2
  <1>7. CASE hs # img.ns - 1
    <2>1. hsent < SectorPages
      BY <1>2, <1>7 DEF PagesOf
    <2>2. img.ns - 1 \in Nat /\ hs + 1 <= img.ns - 1
      BY <1>1, <1>2, <1>7
    <2>3. a + SectorPages <= b
      BY <1>1, <2>2, SectorStarts
    <2>4. a + hsent > SeqMax /\ b + img.last <= SeqMax + 1
      BY <1>3, <1>4
    <2> HIDE DEF a, b
    <2> QED
      BY <1>1, <1>5, <2>1, <2>3, <2>4
  <1> QED
    BY <1>6, <1>7

\* The host never waits in vain.
LEMMA CleanNoTimeout == CleanStep => ~HostTimeout
  <1> SUFFICES ASSUME CleanStep, HostTimeout PROVE FALSE
    OBVIOUS
  <1>0. /\ TypeOK /\ AgentInv /\ QuietInv /\ AnswerInv /\ stalls = 0 /\ stalls' = 0
    BY DEF CleanStep, IInv, GoodInv, Clean
  <1>1. a2h = <<>> /\ hpc = "ack" /\ apc = "recv"
    BY <1>0 DEF HostTimeout, QuietInv
  <1>2. session = "open"
    BY <1>0, <1>1 DEF AgentInv, Running
  <1>3. PICK i \in 1..Len(a2h) : a2h[i].t = "OK"
    BY <1>0, <1>1, <1>2 DEF AnswerInv
  <1>4. Len(a2h) = 0
    BY <1>1
  <1> QED
    BY <1>3, <1>4

\* Nor does the agent: what it waits for is under way or about to be sent.
LEMMA CleanNoRecvTimeout == CleanStep => ~AgentRecvTimeout
  <1> SUFFICES ASSUME CleanStep, AgentRecvTimeout PROVE FALSE
    OBVIOUS
  <1>0. /\ TypeOK /\ AgentInv /\ HostInv /\ WireInv /\ SyncInv /\ ReplyInv /\ RecvInv
        /\ QuietInv /\ AnswerInv /\ CountInv
        /\ stalls = 0 /\ stalls' = 0
    BY DEF CleanStep, IInv, GoodInv, Clean
  <1>1. apc = "recv" /\ HostSilent
    BY <1>0 DEF AgentRecvTimeout
  <1>2. session = "open" /\ emitted = asec /\ asec < img.ns
    BY <1>0, <1>1 DEF AgentInv, Running
  <1>3. hpc # "true" /\ hpc # "start" /\ hpc # "false" /\ hpc # "raised"
    BY <1>0, <1>2 DEF ReplyInv, WireInv, QuietInv
  <1>4. h2a = <<>> /\ a2h = <<>> /\ hpc # "send"
    BY <1>1, <1>3 DEF HostSilent, Returned
  <1>5. Len(a2h) = 0 /\ Len(h2a) = 0
    BY <1>4
  <1>6. hpc # "ack"
    <2> SUFFICES ASSUME hpc = "ack" PROVE FALSE
      OBVIOUS
    <2>1. PICK i \in 1..Len(a2h) : a2h[i].t = "OK"
      BY <1>0, <1>2 DEF AnswerInv
    <2> QED
      BY <1>5, <2>1
  <1>7. /\ hs \in Nat /\ hsent \in Nat /\ emitted \in Nat /\ asec \in Nat /\ img.ns \in Nat
        /\ Len(buf[rx]) \in Nat
    BY <1>0, BufferLen DEF TypeOK, TypeHost
  <1>8. hpc = "progress"
    <2>1. hpc # "final"
      BY <1>0, <1>2, <1>7 DEF HostInv, SyncInv
    <2> QED
      BY <1>0, <1>3, <1>4, <1>6, <2>1 DEF TypeOK, TypeHost
  <1>9. hs = emitted
    <2> SUFFICES ASSUME hs < emitted PROVE FALSE
      BY <1>0, <1>7 DEF SyncInv
    <2>1. hs + 1 \in hs+1..emitted
      BY <1>7
    <2>2. PICK i \in 1..Len(a2h) : a2h[i].t = "PROG" /\ a2h[i].n = hs + 1
      BY <1>0, <1>2, <1>8, <2>1 DEF AnswerInv
    <2> QED
      BY <1>5, <2>2
  <1>10. Len(buf[rx]) = hsent
    BY <1>0, <1>1, <1>2, <1>5, <1>7, <1>9 DEF CountInv
  <1>11. HasData(img, asec) /\ Len(buf[rx]) < PagesOf(img, asec)
    BY <1>0, <1>1 DEF AgentInv, RecvInv
  <1>12. hsent = PagesOf(img, hs)
    BY <1>0, <1>2, <1>8, <1>9, <1>11 DEF HostInv
  <1>13. hsent < hsent
    BY <1>2, <1>9, <1>10, <1>11, <1>12
  <1> QED
    BY <1>7, <1>13

\* Once write_flash has returned, no answer is missed.
LEMMA CleanGone == CleanStep /\ HostGone => GoodInv'
  <1> SUFFICES ASSUME CleanStep, HostGone PROVE GoodInv'
    OBVIOUS
  <1>0. QuietInv /\ IntactInv /\ CountInv
    BY DEF CleanStep, GoodInv
  <1>1. /\ hpc \in {"true", "false", "raised"} /\ a2h' = <<>>
        /\ UNCHANGED <<img, hpc, hs, hsent, h2a, session, apc, emitted, buf, rx>>
    BY DEF HostGone, Returned, hostVars, downVars, agentVars
  <1>2. Len(a2h') = 0
    BY <1>1
  <1>3. QuietInv' /\ CountInv' /\ AnswerInv'
    BY <1>0, <1>1 DEF QuietInv, CountInv, AnswerInv
  <1>4. IntactInv'
    BY <1>0, <1>1, <1>2 DEF IntactInv
  <1> QED
    BY <1>3, <1>4 DEF GoodInv

\* A packet that goes into soft_rx, of which nothing was dropped, stays as it is.
LEMMA CleanArrive == CleanStep /\ (Arrive \/ UNCHANGED vars) => GoodInv'
  <1> SUFFICES ASSUME CleanStep, Arrive \/ UNCHANGED vars PROVE GoodInv'
    OBVIOUS
  <1>0. QuietInv /\ IntactInv /\ CountInv /\ AnswerInv /\ spill = "none"
    BY DEF CleanStep, GoodInv
  <1>1. UNCHANGED <<img, hpc, hs, hsent, h2a, a2h, session, apc, emitted, buf, rx>>
    BY <1>0 DEF Arrive, vars, hostVars, upVars, downVars, agentVars
  <1>2. QuietInv' /\ IntactInv' /\ CountInv' /\ AnswerInv'
    BY <1>0, <1>1 DEF QuietInv, IntactInv, CountInv, AnswerInv
  <1> QED
    BY <1>2 DEF GoodInv

\* A queue that is not empty and holds at most one packet holds one.
LEMMA OnlyOne ==
  ASSUME NEW n \in Nat, ~(n <= 0), n <= 1
  PROVE  n = 1
  OBVIOUS

\* The agent accepts the request, which is the first packet it reads.
LEMMA CleanCommand == CleanStep /\ AgentCommand => GoodInv'
  <1> SUFFICES ASSUME CleanStep, AgentCommand PROVE GoodInv'
    OBVIOUS
  <1>0. /\ TypeOK /\ TypeOK' /\ HostInv /\ FreshInv /\ WireInv /\ SyncInv /\ WireInv'
        /\ FreshInv' /\ QuietInv /\ IntactInv /\ CountInv /\ AnswerInv /\ Clean /\ rlost' = 0
        /\ ~Rejected
    BY SizeAssumption DEF CleanStep, IInv, GoodInv, Clean, Rejected, TypeOK, TypeHost
  <1>1. /\ apc = "idle" /\ nsoft > 0 /\ h2a' = Tail(h2a)
        /\ UNCHANGED <<img, hpc, hs, hsent>>
    BY DEF AgentCommand, ReadSoft, hostVars
  <1>2. /\ h2a \in Seq(Packet) /\ h2a # <<>> /\ Len(h2a) \in Nat \ {0}
        /\ hs \in Nat /\ hsent \in Nat /\ emitted \in Nat /\ img.ns \in Nat
        /\ a2h \in Seq(Reply) /\ Len(a2h) \in Nat
    BY <1>0, <1>1 DEF TypeOK, TypeWire, TypeHost, TypeAgent
  <1>3. Head(h2a) = h2a[1] /\ 1 \in 1..Len(h2a) /\ Len(Tail(h2a)) = Len(h2a) - 1
    BY <1>2, TailFacts
  <1>4. session = "none"
    <2> SUFFICES ASSUME session # "none" PROVE FALSE
      OBVIOUS
    <2>1. session = "ok" /\ emitted = img.ns
      BY <1>0, <1>1 DEF QuietInv, TypeOK, TypeAgent
    <2>2. hs = img.ns
      BY <1>0, <1>2, <2>1 DEF SyncInv, HostInv
    <2>3. hsent = 0
      BY <1>0, <1>2, <2>2 DEF HostInv
    <2>4. h2a[1].p \in 1..hsent
      BY <1>0, <1>3, <2>1 DEF WireInv
    <2> QED
      BY <2>3, <2>4
  <1>5. Head(h2a).t = "STREAM"
    BY <1>0, <1>3, <1>4 DEF IntactInv
  <1>6. Len(h2a) = 1 /\ hpc # "start" /\ ~Streaming /\ hpc # "true" /\ emitted = 0
    <2>1. Len(h2a) <= (IF hpc = "start" THEN 0 ELSE 1)
      BY <1>0, <1>4 DEF FreshInv
    <2>2. hpc # "start" /\ Len(h2a) = 1
      <3>1. hpc = "start" => Len(h2a) <= 0
        BY <2>1
      <3>2. hpc # "start" => Len(h2a) <= 1
        BY <2>1
      <3>3. Len(h2a) \in Nat /\ ~(Len(h2a) <= 0)
        BY <1>2
      <3>4. hpc # "start" /\ Len(h2a) <= 1
        BY <3>1, <3>2, <3>3
      <3> QED
        BY <3>3, <3>4, OnlyOne
    <2>3. ~Streaming /\ hpc # "true" /\ emitted = 0
      BY <1>0, <1>4 DEF FreshInv
    <2> QED
      BY <2>2, <2>3
  <1>7. hpc = "ack"
    BY <1>0, <1>6 DEF QuietInv, TypeOK, TypeHost, Streaming
  <1>8. /\ AgentSector(0, FALSE) /\ session' = "open" /\ SendToHost("OK", 0)
        /\ buf' = [b \in 0..1 |-> <<>>] /\ rx' = 0 /\ emitted' = emitted
    BY <1>0, <1>5 DEF AgentCommand
  <1>9. apc' \in {"ack", "recv", "eraseSkip"}
    BY <1>8 DEF AgentSector
  <1>10. /\ a2h' = Append(a2h, [t |-> "OK", n |-> 0]) /\ [t |-> "OK", n |-> 0] \in Reply
    BY <1>0, <1>8, CleanReplied
  <1>11. QuietInv'
    BY <1>0, <1>1, <1>8, <1>9 DEF QuietInv
  <1>12. Len(h2a') = 0
    BY <1>1, <1>2, <1>3, <1>6
  <1>13. IntactInv'
    <2>1. \A i \in 1..Len(a2h') : a2h'[i].t # "ERR"
      BY <1>0, <1>10, IntactAppend
    <2> QED
      BY <1>8, <1>12, <2>1 DEF IntactInv
  <1>14. CountInv'
    <2>1. hsent = 0
      BY <1>0, <1>7 DEF HostInv
    <2>2. Len(buf'[rx']) = 0
      BY <1>8
    <2> QED
      BY <1>1, <1>12, <2>1, <2>2 DEF CountInv
  <1>15. AnswerInv'
    <2>1. /\ Len(a2h') = Len(a2h) + 1
          /\ \A i \in 1..Len(a2h) : a2h'[i] = a2h[i]
          /\ a2h'[Len(a2h) + 1] = [t |-> "OK", n |-> 0]
      BY <1>2, <1>10, AppendFacts
    <2>2. \A i \in 1..Len(a2h) : a2h[i].t = "READY"
      <3>1. \A i \in 1..Len(a2h) : a2h[i].t \in {"READY", "ERR"}
        BY <1>0, <1>4 DEF FreshInv
      <3>2. \A i \in 1..Len(a2h) : a2h[i].t # "ERR"
        BY <1>0 DEF IntactInv
      <3> QED
        BY <3>1, <3>2
    <2>3. Len(a2h) + 1 \in 1..Len(a2h') /\ a2h'[Len(a2h) + 1].t = "OK"
      BY <1>2, <2>1
    <2>4. \A j \in 1..(Len(a2h) + 1) - 1 : a2h'[j].t = "READY"
      <3> TAKE j \in 1..(Len(a2h) + 1) - 1
      <3>1. j \in 1..Len(a2h)
        BY <1>2
      <3> QED
        BY <2>1, <2>2, <3>1
    <2>5. \E i \in 1..Len(a2h') : a2h'[i].t = "OK" /\ \A j \in 1..i-1 : a2h'[j].t = "READY"
      BY <2>3, <2>4
    <2>6. hs' + 1 > emitted'
      BY <1>1, <1>2, <1>6, <1>8
    <2>7. \A n \in hs'+1..emitted' :
            \E i \in 1..Len(a2h') : a2h'[i].t = "PROG" /\ a2h'[i].n = n
      BY <1>1, <1>2, <1>8, <2>6
    <2> QED
      BY <2>5, <2>7 DEF AnswerInv
  <1> QED
    BY <1>11, <1>13, <1>14, <1>15 DEF GoodInv

\* READY may come between other answers.
LEMMA CleanReady == CleanStep /\ AgentReady => GoodInv'
  <1> SUFFICES ASSUME CleanStep, AgentReady PROVE GoodInv'
    OBVIOUS
  <1>0. TypeOK /\ QuietInv /\ IntactInv /\ CountInv /\ AnswerInv
    BY DEF CleanStep, IInv, GoodInv
  <1> DEFINE e == [t |-> "READY", n |-> 0]
  <1>1. /\ a2h' = Append(a2h, e) /\ e \in Reply /\ e.t # "ERR"
        /\ UNCHANGED <<img, hpc, hs, hsent, h2a, session, apc, emitted, buf, rx>>
    BY DEF AgentReady, hostVars, downVars, agentVars, Reply
  <1> HIDE DEF e
  <1>2. QuietInv' /\ CountInv'
    BY <1>0, <1>1 DEF QuietInv, CountInv
  <1>3. \A i \in 1..Len(a2h') : a2h'[i].t # "ERR"
    BY <1>0, <1>1, IntactAppend
  <1>4. IntactInv'
    BY <1>0, <1>1, <1>3 DEF IntactInv
  <1>5. AnswerInv'
    <2>1. CASE session = "none"
      BY <1>1, <2>1 DEF AnswerInv
    <2>2. CASE session # "none"
      BY <1>0, <1>1, <2>2, AnswerAppend
    <2> QED
      BY <2>1, <2>2
  <1> QED
    BY <1>2, <1>4, <1>5 DEF GoodInv

\* A step that reads no packet, reports nothing and stays in the loop.
LEMMA CleanFlush ==
  ASSUME CleanStep, UNCHANGED <<img, hpc, hs, hsent, h2a, a2h, session, emitted>>,
         apc' \notin {"dead", "idle"},
         apc # "recv", apc' = "recv" => Len(buf'[rx']) = 0
  PROVE  GoodInv'
  <1>0. QuietInv /\ IntactInv /\ CountInv /\ AnswerInv
    BY DEF CleanStep, GoodInv
  <1>1. QuietInv' /\ IntactInv' /\ AnswerInv'
    BY <1>0 DEF QuietInv, IntactInv, AnswerInv
  <1>2. CountInv'
    BY <1>0 DEF CountInv
  <1> QED
    BY <1>1, <1>2 DEF GoodInv

\* The buffers change places: the next sector starts with an empty one.
LEMMA RotateEmpties ==
  ASSUME TypeOK, Rotate
  PROVE  Len(buf'[rx']) = 0 /\ apc' \notin {"dead", "idle"}
  <1>1. rx \in 0..1 /\ buf \in [0..1 -> Seq(Nat \X Nat)]
    BY DEF TypeOK, TypeAgent
  <1>2. 1 - rx \in 0..1
    BY <1>1
  <1>3. buf'[rx'] = <<>>
    BY <1>1, <1>2 DEF Rotate
  <1> QED
    BY <1>3 DEF Rotate, AgentSector

LEMMA CleanRotate == CleanStep /\ AgentRotate => GoodInv'
  <1> SUFFICES ASSUME CleanStep, AgentRotate PROVE GoodInv'
    OBVIOUS
  <1>1. TypeOK /\ Rotate /\ apc = "flush"
    BY DEF CleanStep, IInv, AgentRotate
  <1>2. UNCHANGED <<img, hpc, hs, hsent, h2a, a2h, session, emitted>>
    BY DEF AgentRotate, hostVars, downVars, upVars
  <1> QED
    BY <1>1, <1>2, RotateEmpties, CleanFlush

\* Without a fault an erase succeeds.
LEMMA CleanErase == CleanStep /\ AgentErase => GoodInv'
  <1> SUFFICES ASSUME CleanStep, AgentErase PROVE GoodInv'
    OBVIOUS
  <1>1. apc \in {"flush", "flushSkip", "flushLast"} /\ faults = 0 /\ faults' = 0
    BY DEF AgentErase, CleanStep, Clean
  <1>2. ~EraseSector(Base + pend.s, FALSE)
    BY <1>1 DEF EraseSector
  <1>3. /\ UNCHANGED <<img, hpc, hs, hsent, h2a, a2h, session, emitted>>
        /\ apc' = apc
    BY <1>2 DEF AgentErase, hostVars, downVars, upVars
  <1> QED
    BY <1>1, <1>3, CleanFlush

LEMMA CleanProgram == CleanStep /\ AgentProgram => GoodInv'
  <1> SUFFICES ASSUME CleanStep, AgentProgram PROVE GoodInv'
    OBVIOUS
  <1>1. TypeOK /\ apc \in {"flush", "flushSkip", "flushLast"}
    BY DEF CleanStep, IInv, AgentProgram
  <1>2. UNCHANGED <<img, hpc, hs, hsent, h2a, a2h, session, emitted>>
    BY DEF AgentProgram, hostVars, downVars, upVars
  <1>3. Rotate \/ apc' \in {"eraseSkip", "ack"}
    BY <1>1 DEF AgentProgram
  <1>4. CASE Rotate
    BY <1>1, <1>2, <1>4, RotateEmpties, CleanFlush
  <1>5. CASE apc' \in {"eraseSkip", "ack"}
    BY <1>1, <1>2, <1>5, CleanFlush
  <1> QED
    BY <1>3, <1>4, <1>5

\* A sector of 0xFF is erased and reported.
LEMMA CleanEraseSkip == CleanStep /\ AgentEraseSkip => GoodInv'
  <1> SUFFICES ASSUME CleanStep, AgentEraseSkip PROVE GoodInv'
    OBVIOUS
  <1>0. /\ TypeOK /\ AgentInv /\ HostInv /\ WireInv /\ SyncInv /\ SyncInv' /\ BufferInv /\ HostInv'
        /\ QuietInv /\ IntactInv /\ CountInv /\ AnswerInv
        /\ faults = 0 /\ faults' = 0 /\ rlost' = 0
    BY DEF CleanStep, IInv, GoodInv, Clean
  <1>1. ~EraseSector(Base + asec, FALSE)
    BY <1>0 DEF EraseSector
  <1>2. /\ apc = "eraseSkip" /\ AgentSector(asec + 1, FALSE) /\ emitted' = asec + 1
        /\ SendToHost("PROG", asec + 1)
        /\ UNCHANGED <<img, hpc, hs, hsent, h2a, session, buf, rx>>
    BY <1>1 DEF AgentEraseSkip, hostVars, downVars
  <1>3. session = "open" /\ emitted = asec
    BY <1>0, <1>2 DEF AgentInv, Running
  <1>4. asec \in Nat /\ hs \in Nat /\ emitted \in Nat /\ asec + 1 \in Nat
    BY <1>0 DEF TypeOK, TypeAgent, TypeHost
  <1> DEFINE e == [t |-> "PROG", n |-> asec + 1]
  <1>5. a2h' = Append(a2h, e) /\ e \in Reply
    BY <1>0, <1>2, <1>4, CleanReplied
  <1>6. e.t = "PROG" /\ e.n = emitted + 1
    BY <1>3
  <1> HIDE DEF e
  <1>7. apc' \in {"ack", "recv", "eraseSkip"}
    BY <1>2 DEF AgentSector
  <1>8. QuietInv'
    BY <1>0, <1>2, <1>3, <1>7 DEF QuietInv
  <1>9. \A i \in 1..Len(a2h') : a2h'[i].t # "ERR"
    BY <1>0, <1>5, <1>6, IntactAppend
  <1>10. IntactInv'
    BY <1>0, <1>2, <1>3, <1>9 DEF IntactInv
  <1>11. AnswerInv'
    BY <1>0, <1>2, <1>3, <1>5, <1>6, AnswerAppend
  <1>12. CountInv'
    <2>1. hs' < emitted'
      BY <1>0, <1>2, <1>3, <1>4 DEF SyncInv
    <2> QED
      BY <1>2, <1>4, <2>1 DEF CountInv
  <1> QED
    BY <1>8, <1>10, <1>11, <1>12 DEF GoodInv

\* The final ACK is sent when all sectors are reported.
LEMMA CleanFinalAck == CleanStep /\ AgentFinalAck => GoodInv'
  <1> SUFFICES ASSUME CleanStep, AgentFinalAck PROVE GoodInv'
    OBVIOUS
  <1>0. /\ TypeOK /\ AgentInv /\ QuietInv /\ IntactInv /\ AnswerInv /\ rlost' = 0
    BY DEF CleanStep, IInv, GoodInv, Clean
  <1>1. /\ apc = "ack" /\ apc' = "idle" /\ session' = "ok" /\ SendToHost("OK", 0)
        /\ UNCHANGED <<img, hpc, hs, hsent, h2a, emitted>>
    BY DEF AgentFinalAck, hostVars, downVars
  <1>2. session = "open" /\ emitted = img.ns
    BY <1>0, <1>1 DEF AgentInv, Running
  <1> DEFINE e == [t |-> "OK", n |-> 0]
  <1>3. a2h' = Append(a2h, e) /\ e \in Reply
    BY <1>0, <1>1, CleanReplied
  <1>4. e.t = "OK"
    OBVIOUS
  <1> HIDE DEF e
  <1>5. QuietInv' /\ CountInv'
    BY <1>0, <1>1, <1>2 DEF QuietInv, CountInv
  <1>6. \A i \in 1..Len(a2h') : a2h'[i].t # "ERR"
    BY <1>0, <1>3, <1>4, IntactAppend
  <1>7. IntactInv'
    BY <1>0, <1>1, <1>2, <1>6 DEF IntactInv
  <1>8. AnswerInv'
    BY <1>0, <1>1, <1>2, <1>3, AnswerAppend
  <1> QED
    BY <1>5, <1>7, <1>8 DEF GoodInv

\* Every packet the agent reads in its loop is a page, and moves to the buffer.
LEMMA CleanRecv == CleanStep /\ AgentRecv => GoodInv'
  <1> SUFFICES ASSUME CleanStep, AgentRecv PROVE GoodInv'
    OBVIOUS
  <1>0. /\ TypeOK /\ AgentInv /\ HostInv /\ WireInv /\ SyncInv /\ RecvInv
        /\ QuietInv /\ IntactInv /\ CountInv /\ AnswerInv /\ rlost' = 0
    BY DEF CleanStep, IInv, GoodInv, Clean
  <1>1. /\ apc = "recv" /\ nsoft > 0 /\ h2a' = Tail(h2a) /\ UNCHANGED <<img, hpc, hs, hsent>>
    BY DEF AgentRecv, ReadSoft, hostVars
  <1>2. /\ h2a \in Seq(Packet) /\ h2a # <<>> /\ hs \in Nat /\ hsent \in Nat /\ emitted \in Nat
        /\ asec \in Nat /\ asec + 1 \in Nat /\ Len(buf[rx]) \in Nat /\ rx \in 0..1
        /\ buf[rx] \in Seq(Nat \X Nat) /\ buf \in [0..1 -> Seq(Nat \X Nat)]
    BY <1>0, <1>1, BufferLen DEF TypeOK, TypeWire, TypeAgent
  <1>3. /\ Len(h2a) \in Nat \ {0} /\ Len(h2a') = Len(h2a) - 1 /\ Head(h2a) = h2a[1]
        /\ Head(h2a) \in Packet /\ \A i \in 1..Len(h2a)-1 : h2a'[i] = h2a[i + 1]
    BY <1>1, <1>2, TailFacts
  <1>4. session = "open" /\ emitted = asec
    BY <1>0, <1>1 DEF AgentInv, Running
  <1>5. Head(h2a).t = "DATA"
    <2>1. 1 \in 1..Len(h2a)
      BY <1>3
    <2>2. h2a[1].t # "STREAM" /\ h2a[1].t # "BAD"
      BY <1>0, <1>4, <2>1 DEF WireInv, IntactInv
    <2> QED
      BY <1>3, <2>2 DEF Packet
  <1> DEFINE pg == <<Head(h2a).s, Head(h2a).p>>
  <1>6. /\ buf' = [buf EXCEPT ![rx] = Append(@, pg)]
        /\ UNCHANGED <<rx, session>>
    BY <1>5 DEF AgentRecv
  <1>7. pg \in Nat \X Nat
    BY <1>3 DEF Packet
  <1> HIDE DEF pg
  <1>8. Len(buf'[rx']) = Len(buf[rx]) + 1
    <2>1. buf'[rx'] = Append(buf[rx], pg)
      BY <1>2, <1>6
    <2> QED
      BY <1>2, <1>7, <2>1, AppendFacts
  <1>9. \A i \in 1..Len(h2a') : h2a'[i].t # "BAD"
    <2> TAKE i \in 1..Len(h2a')
    <2>1. i \in 1..Len(h2a)-1 /\ i + 1 \in 1..Len(h2a)
      BY <1>3
    <2>2. \A k \in 1..Len(h2a) : h2a[k].t # "BAD"
      BY <1>0 DEF IntactInv
    <2> QED
      BY <1>3, <2>1, <2>2
  <1>10. CASE Len(buf[rx]) + 1 # PagesOf(img, asec)
    <2>1. UNCHANGED <<apc, emitted, a2h>>
      BY <1>5, <1>10 DEF AgentRecv, upVars
    <2>2. QuietInv' /\ AnswerInv'
      BY <1>0, <1>1, <1>6, <2>1 DEF QuietInv, AnswerInv
    <2>3. IntactInv'
      BY <1>0, <1>4, <1>6, <1>9, <2>1 DEF IntactInv
    <2>4. CountInv'
      <3> SUFFICES ASSUME hs = emitted PROVE Len(h2a') + Len(buf'[rx']) = hsent'
        BY <1>1, <2>1 DEF CountInv
      <3>1. Len(h2a) + Len(buf[rx]) = hsent
        BY <1>0, <1>1, <1>4 DEF CountInv
      <3> QED
        BY <1>1, <1>2, <1>3, <1>8, <3>1
    <2> QED
      BY <2>2, <2>3, <2>4 DEF GoodInv
  <1>11. CASE Len(buf[rx]) + 1 = PagesOf(img, asec)
    <2>1. apc' = "flush" /\ emitted' = asec + 1 /\ SendToHost("PROG", asec + 1)
      BY <1>5, <1>11 DEF AgentRecv
    <2> DEFINE e == [t |-> "PROG", n |-> asec + 1]
    <2>2. a2h' = Append(a2h, e) /\ e \in Reply
      BY <1>0, <1>2, <2>1, CleanReplied
    <2>3. e.t = "PROG" /\ e.n = emitted + 1
      BY <1>4
    <2> HIDE DEF e
    <2>4. QuietInv'
      BY <1>0, <1>1, <1>4, <1>6, <2>1 DEF QuietInv
    <2>5. \A i \in 1..Len(a2h') : a2h'[i].t # "ERR"
      BY <1>0, <2>2, <2>3, IntactAppend
    <2>6. IntactInv'
      BY <1>4, <1>6, <1>9, <2>5 DEF IntactInv
    <2>7. AnswerInv'
      BY <1>0, <1>1, <1>4, <1>6, <2>1, <2>2, <2>3, AnswerAppend
    <2>8. CountInv'
      <3>1. hs' # emitted'
        BY <1>0, <1>1, <1>2, <1>4, <2>1 DEF SyncInv
      <3> QED
        BY <3>1 DEF CountInv
    <2> QED
      BY <2>4, <2>6, <2>7, <2>8 DEF GoodInv
  <1> QED
    BY <1>10, <1>11

\* write_flash neither fails nor raises without need: over a link that loses
\* nothing, with a chip that works and answers in time, an image that fits, and
\* whose pages a 16-bit sequence number can count, is written.
THEOREM CleanLinkHolds ==
  ASSUME RxCap >= SectorPages, \A g \in Geometries : SeqSuffices(g)
  PROVE  Spec => []CleanLinkSucceeds
  <1>1. Init => CleanInv
    <2> SUFFICES ASSUME Init PROVE CleanInv
      OBVIOUS
    <2>1. PICK g \in Geometries : img \in [ns : {g.ns}, last : {g.last},
                                          blank : SUBSET ImagePages(g), tail : Tails]
      BY DEF Init
    <2>2. img.ns = g.ns /\ img.last = g.last
      BY <2>1
    <2>3. SeqSuffices(img)
      BY <2>2 DEF SeqSuffices
    <2>4. QuietInv /\ IntactInv /\ CountInv /\ AnswerInv
      BY DEF Init, QuietInv, IntactInv, CountInv, AnswerInv
    <2> QED
      BY <2>3, <2>4 DEF CleanInv
  <1>2. IInv /\ IInv' /\ SoftRxNeverOverflows /\ SoftRxNeverOverflows' /\ CleanInv /\ [Next]_vars
        => CleanInv'
    <2> SUFFICES ASSUME IInv, IInv', spill = "none", spill' = "none", CleanInv, [Next]_vars
                 PROVE  CleanInv'
      BY DEF SoftRxNeverOverflows
    <2>1. SeqSuffices(img)'
      <3>1. img' = img
        BY DEF Next, HostNext, AgentNext, HostStart, HostAck, HostSend, HostSeqOverflow,
           HostProgress, HostFinal, HostTimeout, AgentCommand, AgentReady, AgentRecv,
           AgentRecvTimeout, AgentRotate, AgentErase, AgentProgram, AgentEraseSkip,
           AgentFinalAck, Arrive, Overflow, HostGone, AgentDies, Stopped, vars
      <3> QED
        BY <3>1 DEF CleanInv, SeqSuffices
    <2>2. ASSUME Clean' PROVE GoodInv'
      <3>1. CleanStep /\ SeqSuffices(img)
        BY <2>2, CleanBefore DEF CleanStep, CleanInv, GoodInv
      <3>2. CASE HostNext
        BY <3>1, <3>2, CleanStart, CleanAck, CleanHostSend, CleanSeq, CleanProgress,
           CleanFinal, CleanNoTimeout DEF HostNext
      <3>3. CASE AgentNext
        BY <3>1, <3>3, CleanCommand, CleanReady, CleanRecv, CleanNoRecvTimeout, CleanRotate,
           CleanErase, CleanProgram, CleanEraseSkip, CleanFinalAck DEF AgentNext
      <3>4. CASE Arrive \/ UNCHANGED vars \/ Stopped
        BY <3>1, <3>4, CleanArrive DEF Stopped
      <3>5. CASE HostGone
        BY <3>1, <3>5, CleanGone
      <3>6. ~Overflow
        BY DEF Overflow
      <3>7. ~AgentDies
        <4>1. faults = 0 /\ faults' = 0
          BY <3>1 DEF CleanStep, Clean
        <4> QED
          BY <4>1 DEF AgentDies
      <3> QED
        BY <3>2, <3>3, <3>4, <3>5, <3>6, <3>7 DEF Next
    <2> QED
      BY <2>1, <2>2 DEF CleanInv, GoodInv
  <1>3. CleanInv => CleanLinkSucceeds
    BY DEF CleanInv, Clean, QuietInv, CleanLinkSucceeds
  <1> QED
    BY <1>1, <1>2, <1>3, Inductive, SoftRxSuffices, PTL DEF Spec
=============================================================================
