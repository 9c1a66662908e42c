---------------------------- MODULE FlashStream ----------------------------
(***************************************************************************)
(* CMD_FLASH_STREAM, the path every `defib agent flash` takes: the host's  *)
(* FlashAgentClient.write_flash (src/src/defib/agent/client.py) streams a  *)
(* firmware image over the UART, the agent's handle_flash_stream           *)
(* (src/agent/main.c) receives sector N+1 into one RAM buffer while it     *)
(* erases and programs sector N from the other.                            *)
(*                                                                         *)
(* One page of flash is what one DATA packet carries, and the content of   *)
(* page p of sector s of the image is the pair <<s, p>>: two pages are     *)
(* equal only if they are the same page.  Both wires are FIFO; a packet    *)
(* may be lost, or damaged so that its CRC-32 does not match.  A packet    *)
(* that reached the agent waits in soft_rx until the agent reads it: the   *)
(* first nsoft packets of h2a are in soft_rx, the others on the wire.      *)
(***************************************************************************)
EXTENDS Integers, Sequences, FiniteSets

CONSTANTS
  FlashSectors,  \* flash_info.size, in sectors
  SectorPages,   \* flash_info.sector_size, in pages
  Base,          \* flash_addr, in sectors: callers pass a sector boundary
  Geometries,    \* sizes of the images: [ns: sectors, last: pages of the last]
  Tails,         \* may the last page be 0xFF in its whole words only?
  RxCap,         \* packets soft_rx holds
  SeqMax,        \* largest value of a DATA packet's 16-bit sequence number
  MaxLoss,       \* bound: packets to the agent lost or damaged
  MaxReplyLoss,  \* bound: packets to the host lost or damaged
  MaxFaults,     \* bound: flash operations that fail, and power losses
  MaxStalls,     \* bound: timeouts that fire while an answer is on its way
  MaxReady       \* bound: READY packets the host has not read yet

ASSUME SizeAssumption ==
  /\ FlashSectors \in Nat \ {0} /\ SectorPages \in Nat \ {0} /\ Base \in Nat
  /\ \A g \in Geometries :
       /\ g \in [ns : Nat, last : 0..SectorPages]
       /\ (g.ns = 0) <=> (g.last = 0)
  /\ Tails \subseteq BOOLEAN
ASSUME BoundAssumption ==
  /\ RxCap \in Nat \ {0} /\ SeqMax \in Nat
  /\ {MaxLoss, MaxReplyLoss, MaxFaults, MaxStalls, MaxReady} \subseteq Nat

VARIABLES
  img,      \* the host's data: [ns, last, blank (all-0xFF pages), tail]
  hpc, hs, hsent,      \* write_flash: where it is, its s, packets sent of s
  h2a, nsoft, spill,   \* host to agent; packets in soft_rx; has it overflowed?
  a2h,                 \* agent to host
  apc, asec, buf, rx, pend, aop,  \* handle_flash_stream: s, buf, rx_buf, pending_*
  flash, hwlost,       \* the chip; cells on which it silently failed
  emitted, session,    \* history: sectors reported done; fate of the request
  lost, rlost, faults, stalls   \* how much of each bound has been used

hostVars  == <<hpc, hs, hsent>>
agentVars == <<apc, asec, buf, rx, pend, aop, emitted, session>>
chipVars  == <<flash, hwlost, faults>>
downVars  == <<h2a, nsoft, spill, lost>>
upVars    == <<a2h, rlost>>
vars == <<img, hostVars, downVars, upVars, agentVars, chipVars, stalls>>

---------------------------------------------------------------------------
(* The image and the chip.                                                 *)

Sectors == 0..FlashSectors-1
PageNos == 1..SectorPages

\* Contents of a flash cell other than a page of the image.
Erased  == <<-1, 0>>
Old     == <<-1, 1>>
Garbage == <<-1, 2>>   \* programmed over something that was not erased

\* sector_bytes, in pages: the last sector of the image may be short.
PagesOf(im, s) == IF s = im.ns - 1 THEN im.last ELSE SectorPages

ImagePages(g) ==
  {pg \in (0..g.ns-1) \X PageNos : pg[1] = g.ns - 1 => pg[2] <= g.last}

\* The host's bitmap: the sector holds something other than 0xFF.
HasData(im, s) == \E p \in 1..PagesOf(im, s) : <<s, p>> \notin im.blank

\* page_is_ff compares len / 4 words: a tail of 1..3 bytes is not looked at.
PageIsFF(im, pg) ==
  pg \in im.blank \/ (im.tail /\ pg = <<im.ns - 1, im.last>>)

\* What the cell must hold once the image is written.
Want(im, s, p) ==
  IF p > PagesOf(im, s) \/ <<s, p>> \in im.blank THEN Erased ELSE <<s, p>>

\* flash_erase_sector succeeds, or leaves some pages as they were; the check
\* after it reads the first and last 16 bytes, so it may or may not notice.
EraseSector(sec, ok) ==
  \/ /\ ok
     /\ flash' = [flash EXCEPT ![sec] = [p \in PageNos |-> Erased]]
     /\ UNCHANGED <<hwlost, faults>>
  \/ /\ faults < MaxFaults
     /\ faults' = faults + 1
     /\ \E keep \in (SUBSET PageNos) \ {{}} :
          /\ flash' = [flash EXCEPT ![sec] =
                         [p \in PageNos |-> IF p \in keep THEN @[p] ELSE Erased]]
          /\ hwlost' = hwlost \union ({sec} \X keep)

\* The page loop of erase_and_program: pages of 0xFF are skipped, and the
\* result of flash_write_page is not looked at.
ProgramSector(sec, pages) ==
  \E drop \in SUBSET (1..Len(pages)) :
    /\ flash' = [flash EXCEPT ![sec] = [p \in PageNos |->
         IF p > Len(pages) THEN @[p]
         ELSE IF PageIsFF(img, pages[p]) \/ p \in drop THEN @[p]
         ELSE IF @[p] = Erased THEN pages[p] ELSE Garbage]]
    /\ hwlost' = hwlost \union ({sec} \X drop)
    /\ IF drop = {} THEN UNCHANGED faults
       ELSE faults < MaxFaults /\ faults' = faults + 1

---------------------------------------------------------------------------
(* The wires.                                                              *)

Packet == [t : {"STREAM", "DATA", "BAD"}, s : Nat, p : Nat]
\* n is the number of sectors done in a progress packet, 0 in the others.
Reply  == [t : {"READY", "OK", "ERR", "PROG"}, n : Nat]

SendToAgent(pkt) ==
  \/ h2a' = Append(h2a, pkt) /\ UNCHANGED lost
  \/ /\ lost < MaxLoss
     /\ lost' = lost + 1
     /\ h2a' \in {h2a, Append(h2a, [pkt EXCEPT !.t = "BAD"])}

\* A damaged reply is skipped by recv_packet: it is as good as lost.
SendToHost(type, done) ==
  \/ a2h' = Append(a2h, [t |-> type, n |-> done]) /\ UNCHANGED rlost
  \/ rlost < MaxReplyLoss /\ rlost' = rlost + 1 /\ UNCHANGED a2h

\* soft_rx_drain: the next packet goes into soft_rx.  The rest of a packet
\* that was cut short by an overflow damages the packet after it.
Arrive ==
  /\ nsoft < Len(h2a) /\ apc # "dead"
  /\ nsoft < RxCap
  /\ nsoft' = nsoft + 1
  /\ h2a' = IF spill = "torn" THEN [h2a EXCEPT ![nsoft + 1].t = "BAD"] ELSE h2a
  /\ spill' = IF spill = "torn" THEN "dropped" ELSE spill
  /\ UNCHANGED <<img, hostVars, lost, upVars, agentVars, chipVars, stalls>>

\* soft_rx is full: what arrives is dropped, whole or from some byte on.
Overflow ==
  /\ nsoft < Len(h2a) /\ apc # "dead"
  /\ nsoft >= RxCap
  /\ h2a' = SubSeq(h2a, 1, nsoft) \o SubSeq(h2a, nsoft + 2, Len(h2a))
  /\ spill' \in {"dropped", "torn"}
  /\ UNCHANGED <<img, hostVars, nsoft, lost, upVars, agentVars, chipVars, stalls>>

ReadSoft == nsoft > 0 /\ nsoft' = nsoft - 1 /\ h2a' = Tail(h2a) /\ UNCHANGED <<spill, lost>>

---------------------------------------------------------------------------
(* The host: write_flash.                                                  *)

Returned == hpc \in {"true", "false", "raised"}

\* The top of the host's loop over the sectors, or what follows the loop.
HostSector(s) ==
  /\ hs' = s
  /\ hsent' = 0
  /\ hpc' = IF s >= img.ns THEN "final"
            ELSE IF HasData(img, s) THEN "send" ELSE "progress"

HostReturn(how) == hpc' = how /\ UNCHANGED <<hs, hsent>>

HostStart ==
  /\ hpc = "start"
  /\ HostReturn("ack")
  /\ SendToAgent([t |-> "STREAM", s |-> 0, p |-> 0])
  /\ UNCHANGED <<img, nsoft, spill, upVars, agentVars, chipVars, stalls>>

\* recv_response skips READY; any answer but ACK_OK is a rejection.
HostAck ==
  /\ hpc = "ack" /\ a2h # <<>>
  /\ a2h' = Tail(a2h)
  /\ CASE Head(a2h).t = "READY" -> UNCHANGED hostVars
       [] Head(a2h).t = "OK"    -> HostSector(0)
       [] OTHER               -> HostReturn("false")
  /\ UNCHANGED <<img, downVars, rlost, agentVars, chipVars, stalls>>

\* The sequence number of the next DATA packet, packed as "<H".
HostSeq == hs * SectorPages + hsent

\* Mutant: the next sector is sent without waiting for the progress packet.
HostSend_NoWait ==
  /\ hpc = "send" /\ HostSeq <= SeqMax
  /\ SendToAgent([t |-> "DATA", s |-> hs, p |-> hsent + 1])
  /\ IF hsent + 1 = PagesOf(img, hs) THEN HostSector(hs + 1)
     ELSE hsent' = hsent + 1 /\ UNCHANGED <<hpc, hs>>
  /\ UNCHANGED <<img, nsoft, spill, upVars, agentVars, chipVars, stalls>>

HostSend ==
  /\ hpc = "send" /\ HostSeq <= SeqMax
  /\ SendToAgent([t |-> "DATA", s |-> hs, p |-> hsent + 1])
  /\ hsent' = hsent + 1
  /\ hpc' = IF hsent + 1 = PagesOf(img, hs) THEN "progress" ELSE "send"
  /\ UNCHANGED <<img, hs, nsoft, spill, upVars, agentVars, chipVars, stalls>>

\* struct.pack("<H", seq) raises struct.error.
HostSeqOverflow ==
  /\ hpc = "send" /\ HostSeq > SeqMax
  /\ HostReturn("raised")
  /\ UNCHANGED <<img, downVars, upVars, agentVars, chipVars, stalls>>

\* Waiting for the sector's progress packet, then for the final ACK.  The
\* count inside a progress packet is only shown, never compared.
HostProgress ==
  /\ hpc = "progress" /\ a2h # <<>>
  /\ a2h' = Tail(a2h)
  /\ CASE Head(a2h).t = "READY" -> UNCHANGED hostVars
       [] Head(a2h).t = "PROG"  -> HostSector(hs + 1)
       [] Head(a2h).t = "OK"    -> HostReturn("true")
       [] OTHER               -> HostReturn("false")
  /\ UNCHANGED <<img, downVars, rlost, agentVars, chipVars, stalls>>

HostFinal ==
  /\ hpc = "final" /\ a2h # <<>>
  /\ a2h' = Tail(a2h)
  /\ CASE Head(a2h).t \in {"READY", "PROG"} -> UNCHANGED hostVars
       [] Head(a2h).t = "OK"                -> HostReturn("true")
       [] OTHER                           -> HostReturn("false")
  /\ UNCHANGED <<img, downVars, rlost, agentVars, chipVars, stalls>>

\* TransportTimeout: no packet for 10 s (the first ACK) or 120 s.  An idle
\* agent sends READY every 2 s and every READY restarts the wait, so without
\* a stall the silence is a dead agent's, or that of an agent which is itself
\* waiting 10 s for data because its ACK was lost.
HostTimeout ==
  /\ hpc \in {"ack", "progress", "final"} /\ a2h = <<>>
  /\ HostReturn("raised")
  /\ \/ (apc = "dead" \/ (hpc = "ack" /\ apc = "recv")) /\ UNCHANGED stalls
     \/ stalls < MaxStalls /\ stalls' = stalls + 1
  /\ UNCHANGED <<img, downVars, upVars, agentVars, chipVars>>

\* Nobody reads what the agent sends once write_flash has returned.
HostGone ==
  /\ Returned /\ a2h # <<>>
  /\ a2h' = <<>>
  /\ UNCHANGED <<img, hostVars, downVars, rlost, agentVars, chipVars, stalls>>

---------------------------------------------------------------------------
(* The agent: main and handle_flash_stream.                                *)

NoPend == [b |-> -1, s |-> 0]
HasPend == pend.b >= 0

\* Mutant: nothing is flushed after the loop.
AgentSector_LastLost(s, pending) ==
  /\ asec' = s
  /\ apc' = IF s >= img.ns THEN "ack"
            ELSE IF HasData(img, s) THEN "recv"
            ELSE IF pending THEN "flushSkip" ELSE "eraseSkip"

\* The top of the agent's loop over the sectors, with pending data or not.
AgentSector(s, pending) ==
  /\ asec' = s
  /\ apc' = IF s >= img.ns THEN (IF pending THEN "flushLast" ELSE "ack")
            ELSE IF HasData(img, s) THEN "recv"
            ELSE IF pending THEN "flushSkip" ELSE "eraseSkip"

\* Mutant: an image that ends where the flash ends is turned away.
Rejected_OffByOne == img.ns = 0 \/ Base + img.ns >= FlashSectors

\* size == 0 || flash_addr + size > flash_info.size
Rejected == img.ns = 0 \/ Base + img.ns > FlashSectors

\* Mutant: the agent gives up without an answer.
Abort_Silent ==
  /\ apc' = "idle"
  /\ session' = "aborted"
  /\ UNCHANGED <<asec, buf, rx, pend, aop, emitted, upVars>>

\* return after a failed erase or receive, with the error code as answer.
Abort ==
  /\ apc' = "idle"
  /\ session' = "aborted"
  /\ SendToHost("ERR", 0)
  /\ UNCHANGED <<asec, buf, rx, pend, aop, emitted>>

\* main: dispatch of what proto_recv returns.  A DATA packet is not a command
\* and is answered ACK_CRC_ERROR; a damaged packet looks like a timeout.
AgentCommand ==
  /\ apc = "idle" /\ ReadSoft
  /\ CASE Head(h2a).t = "STREAM" /\ ~Rejected ->
            /\ AgentSector(0, FALSE)
            /\ session' = "open"
            /\ buf' = [b \in 0..1 |-> <<>>] /\ rx' = 0 /\ pend' = NoPend
            /\ SendToHost("OK", 0)
            /\ UNCHANGED <<aop, emitted>>
       [] Head(h2a).t = "BAD" -> UNCHANGED <<agentVars, upVars>>
       [] OTHER -> SendToHost("ERR", 0) /\ UNCHANGED agentVars
  /\ UNCHANGED <<img, hostVars, chipVars, stalls>>

ReadyCount == Cardinality({i \in DOMAIN a2h : a2h[i].t = "READY"})

AgentReady ==
  /\ apc = "idle" /\ nsoft = 0 /\ ReadyCount < MaxReady
  /\ a2h' = Append(a2h, [t |-> "READY", n |-> 0])
  /\ UNCHANGED <<img, hostVars, downVars, rlost, agentVars, chipVars, stalls>>

\* The receive loop takes any DATA packet, whatever its sequence number; when
\* the sector is complete it is reported before anything is written.
AgentRecv ==
  /\ apc = "recv" /\ ReadSoft
  /\ IF Head(h2a).t = "DATA"
     THEN LET full == Len(buf[rx]) + 1 = PagesOf(img, asec) IN
          /\ buf' = [buf EXCEPT ![rx] = Append(@, <<Head(h2a).s, Head(h2a).p>>)]
          /\ UNCHANGED <<asec, rx, pend, aop, session>>
          /\ IF full THEN apc' = "flush" /\ emitted' = asec + 1 /\ SendToHost("PROG", asec + 1)
             ELSE UNCHANGED <<apc, emitted, upVars>>
     ELSE Abort
  /\ UNCHANGED <<img, hostVars, chipVars, stalls>>

\* Nothing the agent could still receive without acting first.
HostSilent ==
  h2a = <<>> /\ hpc # "send" /\ (a2h = <<>> \/ Returned)

\* proto_recv(pkt, &pkt_len, 10000) returned 0.
AgentRecvTimeout ==
  /\ apc = "recv" /\ nsoft = 0
  /\ \/ HostSilent /\ UNCHANGED stalls
     \/ ~HostSilent /\ stalls < MaxStalls /\ stalls' = stalls + 1
  /\ Abort
  /\ UNCHANGED <<img, hostVars, downVars, chipVars>>

\* Mutant: rx_buf ^= 1 is missing.
Rotate_NoSwap ==
  /\ pend' = [b |-> rx, s |-> asec]
  /\ buf' = [buf EXCEPT ![rx] = <<>>]
  /\ AgentSector(asec + 1, TRUE)
  /\ UNCHANGED rx

\* The buffer just filled becomes the pending one; receive into the other.
Rotate ==
  /\ pend' = [b |-> rx, s |-> asec]
  /\ rx' = 1 - rx
  /\ buf' = [buf EXCEPT ![1 - rx] = <<>>]
  /\ AgentSector(asec + 1, TRUE)

AgentRotate ==
  /\ apc = "flush" /\ ~HasPend
  /\ Rotate
  /\ UNCHANGED <<img, hostVars, downVars, upVars, aop, emitted, session,
                 chipVars, stalls>>

\* Mutant: erases the sector the loop is at, not the pending one.
AgentErase_WrongSector ==
  /\ apc \in {"flush", "flushSkip", "flushLast"} /\ HasPend /\ aop = "erase"
  /\ \/ /\ EraseSector(Base + asec, TRUE)
        /\ aop' = "program"
        /\ UNCHANGED <<apc, asec, buf, rx, pend, emitted, session, upVars>>
     \/ EraseSector(Base + asec, FALSE) /\ Abort
  /\ UNCHANGED <<img, hostVars, downVars, stalls>>

\* erase_and_program, first half.
AgentErase ==
  /\ apc \in {"flush", "flushSkip", "flushLast"} /\ HasPend /\ aop = "erase"
  /\ \/ /\ EraseSector(Base + pend.s, TRUE)
        /\ aop' = "program"
        /\ UNCHANGED <<apc, asec, buf, rx, pend, emitted, session, upVars>>
     \/ EraseSector(Base + pend.s, FALSE) /\ Abort
  /\ UNCHANGED <<img, hostVars, downVars, stalls>>

\* erase_and_program, second half, and what its three callers do next.
AgentProgram ==
  /\ apc \in {"flush", "flushSkip", "flushLast"} /\ HasPend /\ aop = "program"
  /\ ProgramSector(Base + pend.s, buf[pend.b])
  /\ aop' = "erase"
  /\ CASE apc = "flush"     -> Rotate
       [] apc = "flushSkip" -> /\ pend' = NoPend /\ apc' = "eraseSkip"
                               /\ UNCHANGED <<asec, buf, rx>>
       [] apc = "flushLast" -> apc' = "ack" /\ UNCHANGED <<asec, buf, rx, pend>>
  /\ UNCHANGED <<img, hostVars, downVars, upVars, emitted, session, stalls>>

\* A sector of 0xFF is erased and reported; nothing is received for it.
AgentEraseSkip ==
  /\ apc = "eraseSkip"
  /\ \/ /\ EraseSector(Base + asec, TRUE)
        /\ AgentSector(asec + 1, FALSE)
        /\ emitted' = asec + 1
        /\ SendToHost("PROG", asec + 1)
        /\ UNCHANGED <<buf, rx, pend, aop, session>>
     \/ EraseSector(Base + asec, FALSE) /\ Abort
  /\ UNCHANGED <<img, hostVars, downVars, stalls>>

AgentFinalAck ==
  /\ apc = "ack"
  /\ apc' = "idle"
  /\ session' = "ok"
  /\ SendToHost("OK", 0)
  /\ UNCHANGED <<img, hostVars, downVars, asec, buf, rx, pend, aop, emitted,
                 chipVars, stalls>>

\* The agent lives in RAM: a power loss ends it, wherever it is.
AgentDies ==
  /\ apc # "dead" /\ faults < MaxFaults
  /\ faults' = faults + 1
  /\ apc' = "dead"
  /\ UNCHANGED <<img, hostVars, downVars, upVars, asec, buf, rx, pend, aop,
                 emitted, session, flash, hwlost, stalls>>

\* The host program has ended and the device is off.
Stopped == apc = "dead" /\ Returned /\ UNCHANGED vars

---------------------------------------------------------------------------
Init ==
  /\ img \in UNION {[ns : {g.ns}, last : {g.last}, blank : SUBSET ImagePages(g),
                     tail : Tails] : g \in Geometries}
  /\ img.tail => <<img.ns - 1, img.last>> \in ImagePages(img) \ img.blank
  /\ hpc = "start" /\ hs = 0 /\ hsent = 0
  /\ h2a = <<>> /\ nsoft = 0 /\ spill = "none"
  /\ a2h = <<>>
  /\ apc = "idle" /\ asec = 0 /\ buf = [b \in 0..1 |-> <<>>] /\ rx = 0
  /\ pend = NoPend /\ aop = "erase"
  /\ emitted = 0 /\ session = "none"
  /\ flash = [sec \in Sectors |-> [p \in PageNos |-> Old]]
  /\ hwlost = {}
  /\ lost = 0 /\ rlost = 0 /\ faults = 0 /\ stalls = 0

HostNext ==
  \/ HostStart \/ HostAck \/ HostSend \/ HostSeqOverflow \/ HostProgress
  \/ HostFinal \/ HostTimeout
AgentNext ==
  \/ AgentCommand \/ AgentReady \/ AgentRecv \/ AgentRecvTimeout \/ AgentRotate
  \/ AgentErase \/ AgentProgram \/ AgentEraseSkip \/ AgentFinalAck

Next ==
  \/ HostNext \/ AgentNext \/ Arrive \/ Overflow
  \/ HostGone \/ AgentDies \/ Stopped

Spec == Init /\ [][Next]_vars

\* The wire delivers, and neither program stops on its own.
Fairness == WF_vars(HostNext) /\ WF_vars(AgentNext) /\ WF_vars(Arrive)
FairSpec == Spec /\ Fairness

---------------------------------------------------------------------------
(* Properties.                                                             *)

TypeHost ==
  /\ img \in [ns : Nat, last : 0..SectorPages, blank : SUBSET (Nat \X Nat),
              tail : BOOLEAN]
  /\ hpc \in {"start", "ack", "send", "progress", "final", "true", "false", "raised"}
  /\ hs \in Nat /\ hsent \in Nat
TypeWire ==
  /\ h2a \in Seq(Packet) /\ nsoft \in 0..Len(h2a)
  /\ spill \in {"none", "dropped", "torn"}
  /\ a2h \in Seq(Reply)
TypeAgent ==
  /\ apc \in {"idle", "recv", "flush", "flushSkip", "flushLast", "eraseSkip", "ack",
              "dead"}
  /\ asec \in Nat /\ rx \in 0..1
  /\ buf \in [0..1 -> Seq(Nat \X Nat)]
  /\ pend \in [b : -1..1, s : Nat] /\ aop \in {"erase", "program"}
  /\ emitted \in Nat /\ session \in {"none", "open", "ok", "aborted"}
TypeChip ==
  /\ flash \in [Sectors -> [PageNos -> Int \X Int]]
  /\ hwlost \subseteq Nat \X PageNos
  /\ lost \in Nat /\ rlost \in Nat /\ faults \in Nat /\ stalls \in Nat

\* Type correctness of the two programs, the wires and the chip; soft_rx never
\* holds more packets than are under way.
TypeOK == TypeHost /\ TypeWire /\ TypeAgent /\ TypeChip

\* If write_flash returns True, every page of every sector the image covers
\* holds what the image says (and 0xFF behind the image's end), except for
\* cells on which the chip itself failed without saying so: no lost, damaged
\* or late packet, and no stale reply, can make the host report success early.
FlashedImage ==
  hpc = "true" =>
    \A s \in 0..img.ns-1, p \in PageNos :
      \/ flash[Base + s][p] = Want(img, s, p)
      \/ <<Base + s, p>> \in hwlost

\* The chip is touched only inside the image's sectors, and a sector that is to
\* receive data keeps its old contents until all of its data is in RAM: a
\* transfer that breaks off never costs a sector it had not yet received.
UntouchedUntilReceived ==
  \A sec \in Sectors :
    \/ flash[sec] = [p \in PageNos |-> Old]
    \/ /\ sec \in Base..Base + img.ns - 1
       /\ HasData(img, sec - Base) => sec - Base < emitted

\* soft_rx never drops a byte: the host is at most one sector ahead of what the
\* agent has read, and soft_rx holds one sector.
SoftRxNeverOverflows == spill = "none"

\* An image that fits is written: without lost packets, failing flash
\* operations or stalls, write_flash neither fails nor raises.
CleanLinkSucceeds ==
  /\ img.ns > 0 /\ Base + img.ns <= FlashSectors
  /\ lost = 0 /\ rlost = 0 /\ faults = 0 /\ stalls = 0
  => hpc \notin {"false", "raised"}

\* While a received sector waits to be programmed, its buffer holds exactly the
\* pages of that sector: receiving the next one never disturbs it.
PendingHoldsItsSector ==
  session = "open" /\ HasPend =>
    buf[pend.b] = [p \in 1..PagesOf(img, pend.s) |-> <<pend.s, p>>]

\* Once the agent has accepted the request, write_flash returns or raises,
\* unless a reply was lost (then the agent's READY packets keep it waiting).
StreamReturns == session # "none" ~> (Returned \/ rlost > 0)
=============================================================================
