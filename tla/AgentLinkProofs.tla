------------------------- MODULE AgentLinkProofs -------------------------
(***************************************************************************)
(* Proofs about AgentLink, for flashes, blocks and windows of every size,  *)
(* every number of commands and every number of lost packets and late      *)
(* answers.                                                                *)
(*                                                                         *)
(* An answer does not name its request, so every part of the invariant     *)
(* says what the lines may hold at one place of one command: which packets *)
(* can be under way there, in which order, and what the flash or the RAM   *)
(* held when they were sent.  Most parts speak of a command that has heard *)
(* READY (Mine): before that, packets of an earlier command may be about.  *)
(***************************************************************************)
EXTENDS AgentLink, TLAPS

\* The packets of the two lines and the values of the variables.
Okay == Ack("ok")
Errors == Ack("error")
Contents == {"data", "empty", "image", "short", "bad_block"}
Rates == {"slow", "fast"}
Chunk == (1..(Blocks + 1)) \X (1..Chunks)

UpPackets ==
  [kind : {"info", "membw", "erase", "scan", "reboot", "mark_bad"}, val : {""}]
    \cup [kind : {"set_baud"}, val : Rates]
    \cup [kind : {"crc"}, val : {"ram", "flash"}]
    \cup [kind : {"crc_sector"}, val : 1..Sectors]
    \cup [kind : {"read"}, val : {x \in (1..Sectors) \X (1..Sectors) : x[1] <= x[2]}]
    \cup [kind : {"write"}, val : 1..(Blocks + 1)]
    \cup [kind : {"data"}, val : Chunk]

DownPackets ==
  [kind : {"ack"}, val : {"ok", "error"}]
    \cup [kind : {"ready", "info", "membw"}, val : {""}]
    \cup [kind : {"crc"}, val : [1..Blocks -> {"other", "new"}]]
    \cup [kind : {"crc"}, val : [1..Sectors -> Contents]]
    \cup [kind : {"crc"}, val : Contents]
    \cup [kind : {"scan"}, val : Contents \cup {"header"}]
    \cup [kind : {"data"}, val : [seq : 0..Sectors, val : Contents \cup {""}]]

Places == {"closed", "upload", "connect", "run", "go", "baud", "baud_verify", "answer", "stream",
           "window", "drain", "retry", "block_ack", "block_crc", "erase_ack", "erase", "erase_end",
           "scan_head", "scan", "scan_end", "compat", "compat_crc"}
Operations == {"info", "read", "verify", "write", "scan", "dump", "write_flash", "reboot", "membw",
               "erase", "mark_bad", "selfupdate"}

\* TypeOK, and the types of what it leaves out: the lines carry packets.
TypeInv ==
  /\ rate \in Rates /\ hostRate \in Rates /\ alive \in BOOLEAN /\ old \in BOOLEAN
  /\ task \in 0..(Blocks + 1) /\ buf \in Seq(Chunk) /\ Len(buf) <= Chunks
  /\ ram \in [1..Blocks -> {"other", "new"}] /\ flash \in [1..Sectors -> Contents]
  /\ up \in Seq(UpPackets) /\ down \in Seq(DownPackets) /\ stash \in 0..Len(down)
  /\ transport \in {"port", "rack", "tcp"}
  /\ cmd \in Commands /\ step \in 1..Len(Script(cmd)) /\ pc \in Places
  /\ got \in Seq(Contents \cup {"", "ff"}) /\ off \in Nat /\ acks \in Nat
  /\ found \in Seq(Contents \cup {"header", "read_error"}) /\ claims \subseteq Operations
  /\ sessions \in Nat /\ faults \in 0..MaxFaults /\ late \in Nat

\* The code of one operation is entered for that operation only.
PlaceInv ==
  /\ pc \in {"upload", "connect"} => step = 1 /\ claims = {}
  /\ pc \in {"baud", "baud_verify"} => Fast
  /\ pc = "answer" => Op \in {"info", "verify", "membw", "mark_bad", "reboot"}
  /\ pc = "stream" => Op \in {"read", "dump"}
  /\ pc \in {"window", "drain", "retry"} => Op = "write"
  /\ pc \in {"block_ack", "block_crc"} => Op \in {"write", "selfupdate"}
  /\ pc \in {"erase_ack", "erase", "erase_end"} => Op = "erase"
  /\ pc \in {"scan_head", "scan", "scan_end", "compat", "compat_crc"} => Op = "scan"

\* The operations before the current one have returned success and no other has,
\* but for the last one of a command that has ended.
ClaimInv ==
  /\ \A i \in 1..(step - 1) : Script(cmd)[i] \in claims
  /\ \A x \in claims : \E i \in 1..step : Script(cmd)[i] = x /\ (i < step \/ pc = "closed")

\* The command has heard READY.
Mine == pc \notin {"closed", "upload", "connect"} \/ claims # {}
\* Nothing but READY is under way to the host; one other packet; no ACK.
Quiet == \A i \in DOMAIN down : down[i] = Ready
Single == \A i, j \in DOMAIN down : down[i] # Ready /\ down[j] # Ready => i = j
NoOkay == \A i \in DOMAIN down : down[i] # Okay

\* The kinds of packets a command sends.
Flashes == {"flash", "flash_unverified"}
Sends(c) ==
  IF c = "read" THEN {"info", "set_baud", "read", "crc"}
  ELSE IF c = "write" THEN {"info", "set_baud", "write", "data", "crc"}
  ELSE IF c = "scan" THEN {"info", "set_baud", "scan", "crc_sector", "read"}
  ELSE IF c \in Flashes THEN {"info", "set_baud", "crc", "reboot"}
  ELSE IF c \in {"info", "upload"} THEN {"info"}
  ELSE IF c = "selfupdate" THEN {"write", "data"}
  ELSE {c}

\* Since READY, the agent has been sent packets of this command only.
MineInv ==
  Mine => /\ \A i \in DOMAIN up : up[i].kind \in Sends(cmd)
          /\ task # 0 => cmd \in {"write", "selfupdate"}

\* A READY that connect will find comes from an agent with nothing left to do.
ConnectInv ==
  pc = "connect" /\ (\E i \in DOMAIN down : down[i] = Ready) => alive /\ task = 0 /\ up = <<>> /\ down = <<Ready>>

\* Only agent flash reboots the camera.
AliveInv == Mine /\ cmd \notin Flashes => alive

\* scan_flash's result is never longer than the flash, and the compatible scan is
\* at the sector behind its last result.
FoundInv ==
  /\ Len(found) <= Sectors
  /\ pc = "scan" => Len(found) < Sectors
  /\ pc = "scan_end" => Len(found) = Sectors
  /\ pc = "compat" => Len(found) = off
  /\ pc = "compat_crc" => Len(found) = off /\ off < Sectors
  /\ acks = 1 /\ pc = "compat" => off < Sectors

\* write_memory is at a block there is, and repeats blocks of the window only.
OffInv ==
  cmd = "write" /\ step = 1 /\ pc \notin {"closed", "upload", "connect", "run"} =>
    off < Blocks /\ (pc \in {"retry", "block_ack", "block_crc"} => off < acks /\ acks <= Blocks)

\* Only agent read and agent scan read, and not in their first operation.
GotInv ==
  /\ cmd \notin {"read", "scan"} => got = <<>>
  /\ step = 1 => got = <<>>

\* read_memory: whatever DATA packet is under way holds the sector its sequence
\* number names, and so does what has been received.
ReadInv ==
  cmd = "read" /\ Mine =>
    /\ \A i \in DOMAIN up : up[i].kind = "read" => up[i].val = <<1, Sectors>>
    /\ \A i \in DOMAIN down : down[i].kind = "data" =>
         down[i].val.seq < Sectors /\ down[i].val.val = flash[down[i].val.seq + 1]
    /\ Len(got) <= Sectors /\ \A i \in 1..Len(got) : got[i] = flash[i]
    /\ "read" \in claims => Len(got) = Sectors

\* crc32 of the RAM: when its answer is under way the agent has nothing left to
\* do that could change the RAM.
VerifyInv ==
  cmd = "write" /\ Mine =>
    /\ \A i \in DOMAIN up : up[i].kind = "crc" =>
         /\ i = Len(up) /\ up[i].val = "ram" /\ pc \in {"answer", "closed"} /\ step = 2
         /\ \A j \in DOMAIN down : down[j].kind # "crc"
    /\ \A i \in DOMAIN down : down[i].kind = "crc" =>
         up = <<>> /\ task = 0 /\ down[i].val = ram /\ pc \in {"answer", "closed"} /\ step = 2
    /\ "verify" \in claims => ram = Written /\ up = <<>> /\ task = 0

\* agent flash: a CRC-32 under way is that of the flash after write_flash.
FlashInv ==
  cmd = "flash" /\ Mine =>
    /\ \A i \in DOMAIN up : up[i].kind = "crc" => up[i].val = "flash" /\ step >= 3
    /\ \A i \in DOMAIN down : down[i].kind = "crc" => down[i].val = flash /\ step >= 3
    /\ "verify" \in claims => flash = Imaged

\* agent flash sends CMD_REBOOT once the image has been verified.
RebootInv ==
  cmd = "flash" /\ Mine => \A i \in DOMAIN up : up[i].kind = "reboot" => flash = Imaged /\ step = 4

\* erase_flash: the second of two ACKs means that every sector has been erased.
AllEmpty == \A s \in 1..Sectors : flash[s] = "empty"

EraseInv ==
  cmd = "erase" /\ Mine =>
    /\ pc \in {"run", "go"} => up = <<>> /\ Quiet
    /\ pc = "erase_ack" =>
         /\ up # <<>> => Len(up) = 1 /\ Quiet
         /\ AllEmpty \/ \A i, j \in DOMAIN down : j < i /\ down[i] = Okay => down[j] = Ready
    /\ pc \in {"erase", "erase_end"} => up = <<>> /\ (AllEmpty \/ NoOkay)
    /\ claims # {} => up = <<>> /\ AllEmpty

\* The first switch of the baud rate, in agent write and agent scan.
Early == (cmd = "write" /\ step = 1) \/ (cmd = "scan" /\ step <= 2)
\* Nothing but one request, or its one answer, is under way.
SwitchAt ==
  /\ (pc \in {"run", "answer", "baud", "baud_verify"} \/ (pc = "go" /\ off = 0)) =>
       task = 0 /\ (up # <<>> => Len(up) = 1 /\ Quiet) /\ Single
  /\ (cmd = "scan" /\ pc = "go") \/ pc \in {"baud", "baud_verify"} => off = 0
  /\ pc = "run" => up = <<>> /\ Quiet
  /\ pc = "answer" => \A i \in DOMAIN up : up[i].kind = "info"
  /\ pc = "baud" =>
       /\ hostRate = "slow" /\ \A i \in DOMAIN up : up[i] = Packet("set_baud", "fast")
       /\ \A i \in DOMAIN down : down[i] # Ready => down[i] = Okay /\ rate = "fast"
  /\ pc = "baud_verify" =>
       /\ hostRate = "fast" /\ \A i \in DOMAIN up : up[i].kind = "info" /\ rate = "fast"
       /\ \A i \in DOMAIN down : down[i] # Ready => down[i].kind = "info"
  /\ pc = "go" /\ off = 0 =>
       Quiet /\ \A i \in DOMAIN up : up[i].kind = "info" /\ rate = "fast" /\ hostRate = "slow" /\ late > 0
SwitchInv == Early => SwitchAt

\* agent scan's dump: one read of one sector at a time, whose only DATA packet is
\* that sector's; the file has a sector, or 0xFF for it, in its place.
DumpInv ==
  cmd = "scan" /\ Mine =>
    /\ \A i \in DOMAIN got : got[i] \in {"ff", flash[i]}
    /\ Op # "dump" => got = <<>>
    /\ Op = "dump" =>
         /\ Len(got) <= Sectors
         /\ pc \in {"run", "go", "baud", "baud_verify"} => Len(got) = off
         /\ pc = "run" => off <= Len(found)
         /\ pc \in {"go", "baud", "baud_verify", "stream"} => off < Len(found)
    /\ pc \notin {"stream", "closed"} =>
         /\ \A i \in DOMAIN up : up[i].kind # "read"
         /\ \A i \in DOMAIN down : down[i].kind # "data"
    /\ pc = "stream" =>
         /\ Len(got) \in off..(off + 1)
         /\ \A i \in DOMAIN up : up[i].kind = "read" =>
              /\ i = Len(up) /\ up[i].val = <<off + 1, off + 1>> /\ Len(got) = off
              /\ \A j \in DOMAIN down : down[j].kind # "data"
         /\ \A i \in DOMAIN down : down[i].kind = "data" =>
              /\ down[i].val.seq = 0 /\ down[i].val.val = flash[off + 1] /\ Len(got) = off
              /\ \A j \in DOMAIN up : up[j].kind # "read"
              /\ \A j \in DOMAIN down : down[j].kind = "data" => i = j

\* scan_flash before the header: the request, or the answer behind some READYs.
\* The result of the first sector follows the header at once and all the others
\* are there, or an ACK comes early.
HeadUp ==
  \A i \in DOMAIN up :
    /\ Len(up) = 1 /\ Quiet /\ up[i].kind \in {"scan", "info"}
    /\ up[i].kind = "info" => rate = "fast" /\ hostRate = "slow" /\ late > 0
HeadOld == Single /\ \A i \in DOMAIN down : down[i] # Ready => down[i].kind = "ack"
Follows(i) ==
  \/ Len(down) >= i + Sectors /\ \A s \in 1..Sectors : down[i + s] = Packet("scan", flash[s])
  \/ \E e \in DOMAIN down : e > i /\ e <= i + Sectors /\ down[e].kind = "ack"
HeadNew ==
  \A i \in DOMAIN down : (\A j \in 1..(i - 1) : down[j] = Ready) /\ down[i] # Ready => down[i].kind = "scan" /\ Follows(i)
ScanRuns ==
  \/ /\ \A s \in 1..Len(found) : found[s] = flash[s]
     /\ Len(down) >= Sectors - Len(found)
     /\ \A j \in 1..(Sectors - Len(found)) : down[j] = Packet("scan", flash[Len(found) + j])
  \/ \E e \in DOMAIN down : e <= Sectors - Len(found) /\ down[e].kind = "ack"
AllFound == \A s \in 1..Sectors : found[s] = flash[s]

\* scan_flash: an agent with CMD_SCAN sends the header and every result in order.
ScanInv ==
  cmd = "scan" /\ Mine =>
    /\ pc \in {"scan", "scan_end"} => ~ old
    /\ pc \in {"compat", "compat_crc"} => old
    /\ pc = "scan_head" => HeadUp /\ (old => HeadOld) /\ (~ old => HeadNew)
    /\ pc = "scan" => ScanRuns
    /\ ~ old /\ Len(found) = Sectors /\ (pc = "scan_end" \/ "scan" \in claims) => AllFound

\* The scan by CRC-32s: while no answer is late, the one under way is that of the
\* sector the host is at.
CompatFine == \A s \in 1..Len(found) : found[s] = "read_error" \/ (found[s] = "empty" <=> flash[s] = "empty")
CompatLine ==
  /\ Single /\ (up # <<>> => Quiet /\ rate = hostRate /\ up = <<Packet("crc_sector", off + 1)>>)
  /\ \A i \in DOMAIN down : down[i] \in {Ready, Errors, Packet("crc", flash[off + 1])}

CompatInv ==
  cmd = "scan" /\ Mine /\ old /\ late = 0 =>
    /\ pc \in {"compat", "compat_crc"} \/ "scan" \in claims => CompatFine
    /\ pc = "scan_head" => acks = 0
    /\ pc \in {"compat", "compat_crc"} => (acks = 0 \/ flash[off + 1] # "empty")
    /\ pc = "compat" => up = <<>> /\ Quiet
    /\ pc = "compat_crc" => CompatLine

\* write_memory.  Kept: the first n blocks are in the RAM.  Lead and Seen: the
\* READY that is first on the line, and how many answers are behind it.
Kept(n) == \A b \in 1..n : ram[b] = "new"
NoHeader == \A i \in DOMAIN up : up[i].kind \notin {"write", "set_baud"}
Total == 2 * (WindowEnd - off)
Busy == IF task = 0 THEN 0 ELSE 1
Lead == IF down # <<>> /\ down[1] = Ready THEN 1 ELSE 0
Seen == Len(down) - Lead
\* The agent sends READY on an empty line only.
ReadyFirst == \A i \in DOMAIN down : down[i] = Ready => i = 1

\* A block that is being received is not complete yet.
BufInv == task # 0 => Len(buf) < Chunks

\* write_memory counts two ACKs for every block of a window.  When it has them
\* all, the blocks are in the RAM: the ACKs counted and under way, with one for
\* a block that is being received and two for every block that is still to come,
\* are never more than it waits for, and fewer once anything has gone wrong.
\* m is the last block whose header the agent has taken from the line.
Sum(m) == acks + Seen + 2 * (WindowEnd - m) + Busy
Counted(m) ==
  /\ \A i \in DOMAIN down : down[i] # Ready => down[i] = Okay
  /\ \A i \in DOMAIN up : up[i].kind = "write" => up[i].val > m
  /\ Sum(m) <= Total
  /\ Sum(m) = Total => task \in {0, m} /\ \A b \in 1..m : b # task => ram[b] = "new"
AllIn ==
  /\ Kept(WindowEnd) /\ task = 0 /\ NoHeader
  /\ \A i \in DOMAIN down : down[i] = Okay => acks + i - Lead <= Total
\* An answer that is no ACK comes before the last one the host waits for.
Spoilt == \E e \in DOMAIN down : down[e] # Ready /\ down[e] # Okay /\ acks + e - 1 - Lead < Total
WindowUp ==
  /\ \A i \in DOMAIN up : up[i].kind \in {"info", "data", "write"}
  /\ \A i \in DOMAIN up : up[i].kind = "write" => up[i].val \in (off + 1)..WindowEnd
  /\ \A i, j \in DOMAIN up : i < j /\ up[i].kind = "write" /\ up[j].kind = "write" => up[i].val < up[j].val
WindowAt ==
  /\ Kept(off) /\ acks < Total /\ (task # 0 => task > off) /\ WindowUp
  /\ AllIn \/ Spoilt \/ \E m \in off..WindowEnd : Counted(m)

\* Between two windows, and while the blocks of one that failed are repeated
\* one by one: no ACK of anything earlier is under way.
GoAt == Kept(off) /\ task = 0 /\ NoHeader /\ NoOkay
DrainAt ==
  /\ Kept(off) /\ (task # 0 => task > off)
  /\ \A i \in DOMAIN up : up[i].kind \in {"info", "data", "write"}
  /\ \A i \in DOMAIN up : up[i].kind = "write" => up[i].val > off
RetryAt == Kept(off) /\ NoHeader /\ NoOkay /\ (task # 0 => task > off /\ up = <<>>)
OneOkay == \A i, j \in DOMAIN down : down[i] = Okay /\ down[j] = Okay => i = j
AckAt ==
  /\ Kept(off) /\ OneOkay
  /\ task # 0 => task > off /\ \A i \in DOMAIN up : up[i].kind = "write"
  /\ \A i \in DOMAIN up : up[i].kind # "set_baud"
  /\ \A i \in DOMAIN up : up[i].kind = "write" => i = Len(up) /\ up[i].val = off + 1 /\ NoOkay
  /\ ~ NoOkay => up = <<>> /\ task = off + 1
CrcAt ==
  /\ Kept(off) /\ OneOkay /\ NoHeader
  /\ task \in {0, off + 1} /\ (task # 0 => NoOkay)
  /\ ~ NoOkay => ram[off + 1] = "new"

\* All the blocks are in the RAM, and nothing under way changes it.
AllWritten == Kept(Blocks) /\ task = 0 /\ \A i \in DOMAIN up : up[i].kind # "write"

\* write_memory on a transport that can drain it, while no answer is late.
WriteInv ==
  cmd = "write" /\ Mine /\ late = 0 /\ transport = "port" =>
    /\ "write" \in claims => AllWritten
    /\ step = 1 /\ pc = "go" => GoAt
    /\ step = 1 /\ pc = "window" => WindowAt
    /\ step = 1 /\ pc = "drain" => DrainAt
    /\ step = 1 /\ pc = "retry" => RetryAt
    /\ step = 1 /\ pc = "block_ack" => AckAt
    /\ step = 1 /\ pc = "block_crc" => CrcAt

---------------------------------------------------------------------------
(* Sequences.                                                              *)

\* The line r is the line q to which s has been sent: all of it, all but one
\* packet, or nothing.
Adds(q, r, s) == r = q \o s \/ (\E i \in DOMAIN s : r = q \o Without(s, i)) \/ r = q

\* Without drops the i-th element and keeps the order of the others.
LEMMA WithoutFacts ==
  ASSUME NEW S, NEW s \in Seq(S), NEW i \in DOMAIN s
  PROVE  /\ Without(s, i) \in Seq(S) /\ Len(Without(s, i)) = Len(s) - 1
         /\ \A k \in 1..(Len(s) - 1) : Without(s, i)[k] = IF k < i THEN s[k] ELSE s[k + 1]
<1> DEFINE a == SubSeq(s, 1, i - 1)
           b == SubSeq(s, i + 1, Len(s))
<1>1. i \in 1..Len(s) /\ Len(s) \in Nat
  OBVIOUS
<1>2. a \in Seq(S) /\ Len(a) = i - 1 /\ \A k \in 1..(i - 1) : a[k] = s[k]
  BY <1>1
<1>3. b \in Seq(S) /\ Len(b) = Len(s) - i /\ \A k \in 1..(Len(s) - i) : b[k] = s[i + k]
  BY <1>1
<1> HIDE DEF a, b
<1>4. a \o b \in Seq(S) /\ Len(a \o b) = Len(s) - 1
  BY <1>1, <1>2, <1>3
<1>5. \A k \in 1..(Len(s) - 1) : (a \o b)[k] = IF k < i THEN s[k] ELSE s[k + 1]
  BY <1>1, <1>2, <1>3
<1> QED
  BY <1>4, <1>5 DEF Without, a, b

\* What was on the line stays; what is new has been sent.
LEMMA AddsFacts ==
  ASSUME NEW S, NEW q \in Seq(S), NEW s \in Seq(S), NEW r, Adds(q, r, s)
  PROVE  /\ r \in Seq(S) /\ Len(q) <= Len(r) /\ Len(r) <= Len(q) + Len(s)
         /\ \A i \in 1..Len(q) : r[i] = q[i]
         /\ \A i \in (Len(q) + 1)..Len(r) : \E k \in 1..Len(s) : r[i] = s[k]
<1>1. CASE r = q \o s
  <2>1. r \in Seq(S) /\ Len(r) = Len(q) + Len(s) /\ Len(q) \in Nat /\ Len(s) \in Nat
    BY <1>1
  <2>2. \A i \in 1..Len(q) : r[i] = q[i]
    BY <1>1
  <2>3. \A i \in (Len(q) + 1)..Len(r) : r[i] = s[i - Len(q)] /\ i - Len(q) \in 1..Len(s)
    BY <1>1
  <2> QED
    BY <2>1, <2>2, <2>3
<1>2. CASE \E i \in DOMAIN s : r = q \o Without(s, i)
  <2>1. PICK i \in DOMAIN s : r = q \o Without(s, i)
    BY <1>2
  <2> DEFINE w == Without(s, i)
  <2>2. /\ w \in Seq(S) /\ Len(w) = Len(s) - 1
        /\ \A k \in 1..(Len(s) - 1) : w[k] = IF k < i THEN s[k] ELSE s[k + 1]
    BY WithoutFacts
  <2>3. r = q \o w
    BY <2>1
  <2> HIDE DEF w
  <2>4. r \in Seq(S) /\ Len(r) = Len(q) + Len(w) /\ Len(q) \in Nat /\ Len(s) \in Nat /\ Len(w) \in Nat
    <3>1. w \in Seq(S)
      BY <2>2
    <3> QED
      BY <2>3, <3>1
  <2>5. \A j \in 1..Len(q) : r[j] = q[j]
    BY <2>2, <2>3
  <2>6. \A j \in (Len(q) + 1)..Len(r) : r[j] = w[j - Len(q)] /\ j - Len(q) \in 1..Len(w)
    <3>1. w \in Seq(S)
      BY <2>2
    <3> QED
      BY <2>3, <2>4, <3>1
  <2>7. \A k \in 1..Len(w) : \E l \in 1..Len(s) : w[k] = s[l]
    <3> SUFFICES ASSUME NEW k \in 1..Len(w) PROVE \E l \in 1..Len(s) : w[k] = s[l]
      OBVIOUS
    <3>1. k \in 1..Len(s) /\ k + 1 \in 1..Len(s) /\ (w[k] = s[k] \/ w[k] = s[k + 1])
      BY <2>2, <2>4
    <3> QED
      BY <3>1
  <2> QED
    BY <2>2, <2>4, <2>5, <2>6, <2>7
<1>3. CASE r = q
  BY <1>3
<1> QED
  BY <1>1, <1>2, <1>3 DEF Adds

LEMMA AddsOne ==
  ASSUME NEW S, NEW q \in Seq(S), NEW x \in S, NEW r, Adds(q, r, <<x>>)
  PROVE  r = q \/ r = Append(q, x)
<1>1. CASE r = q \o <<x>>
  BY <1>1
<1>2. CASE \E i \in DOMAIN <<x>> : r = q \o Without(<<x>>, i)
  <2>1. PICK i \in DOMAIN <<x>> : r = q \o Without(<<x>>, i)
    BY <1>2
  <2> DEFINE w == Without(<<x>>, i)
  <2>2. w \in Seq(S) /\ Len(w) = 0
    <3> DEFINE o == <<x>>
    <3>1. o \in Seq(S) /\ Len(o) = 1 /\ i \in DOMAIN o
      BY <2>1
    <3> HIDE DEF o
    <3>2. Without(o, i) \in Seq(S) /\ Len(Without(o, i)) = Len(o) - 1
      BY <3>1, WithoutFacts
    <3> QED
      BY <3>1, <3>2 DEF o
  <2>3. r = q \o w
    BY <2>1
  <2> HIDE DEF w
  <2>4. w = <<>>
    BY <2>2
  <2> QED
    BY <2>3, <2>4
<1> QED
  BY <1>1, <1>2 DEF Adds

LEMMA ConcatFacts ==
  ASSUME NEW S, NEW q \in Seq(S), NEW s \in Seq(S)
  PROVE  /\ q \o s \in Seq(S) /\ Len(q \o s) = Len(q) + Len(s)
         /\ \A i \in 1..Len(q) : (q \o s)[i] = q[i]
         /\ \A i \in 1..Len(s) : (q \o s)[Len(q) + i] = s[i]
OBVIOUS

LEMMA FunctionIsSeq ==
  ASSUME NEW S, NEW n \in Nat, NEW f, f = [i \in 1..n |-> f[i]], \A i \in 1..n : f[i] \in S
  PROVE  f \in Seq(S) /\ Len(f) = n
OBVIOUS

LEMMA TailFacts ==
  ASSUME NEW S, NEW q \in Seq(S), q # <<>>
  PROVE  /\ Tail(q) \in Seq(S) /\ Len(Tail(q)) = Len(q) - 1 /\ Len(q) >= 1
         /\ \A i \in 1..(Len(q) - 1) : Tail(q)[i] = q[i + 1]
         /\ Head(q) = q[1] /\ q[1] \in S
OBVIOUS

LEMMA FrontFacts ==
  ASSUME NEW S, NEW q \in Seq(S), Len(q) >= 1
  PROVE  /\ SubSeq(q, 1, Len(q) - 1) \in Seq(S) /\ Len(SubSeq(q, 1, Len(q) - 1)) = Len(q) - 1
         /\ \A i \in 1..Len(SubSeq(q, 1, Len(q) - 1)) : SubSeq(q, 1, Len(q) - 1)[i] = q[i]
<1>1. ASSUME NEW m \in 1..Len(q)
      PROVE  SubSeq(q, 1, m - 1) \in Seq(S) /\ Len(SubSeq(q, 1, m - 1)) = m - 1 /\ \A k \in 1..(m - 1) : SubSeq(q, 1, m - 1)[k] = q[k]
  <2>1. m \in 1..Len(q) /\ Len(q) \in Nat
    OBVIOUS
  <2> QED
    BY <2>1
<1>2. Len(q) \in 1..Len(q)
  OBVIOUS
<1> QED
  BY <1>1, <1>2

LEMMA AppendFacts ==
  ASSUME NEW S, NEW q \in Seq(S), NEW x \in S
  PROVE  /\ Append(q, x) \in Seq(S) /\ Len(Append(q, x)) = Len(q) + 1
         /\ \A i \in 1..Len(q) : Append(q, x)[i] = q[i]
         /\ Append(q, x)[Len(q) + 1] = x
OBVIOUS

\* What is left of a line after some of it has been read.
Rest(q, r) == \E d \in 0..Len(q) : Len(r) = Len(q) - d /\ \A i \in 1..Len(r) : r[i] = q[i + d]

---------------------------------------------------------------------------
(* The scripts.                                                            *)

LEMMA ScriptTable ==
  /\ Len(Script("info")) = 1 /\ Script("info")[1] = "info"
  /\ Len(Script("upload")) = 1 /\ Script("upload")[1] = "info"
  /\ Len(Script("read")) = 3 /\ Script("read")[1] = "info" /\ Script("read")[2] = "read" /\ Script("read")[3] = "verify"
  /\ Len(Script("write")) = 2 /\ Script("write")[1] = "write" /\ Script("write")[2] = "verify"
  /\ Len(Script("scan")) = 3 /\ Script("scan")[1] = "info" /\ Script("scan")[2] = "scan" /\ Script("scan")[3] = "dump"
  /\ Len(Script("flash")) = 4 /\ Script("flash")[1] = "info" /\ Script("flash")[2] = "write_flash"
  /\ Script("flash")[3] = "verify" /\ Script("flash")[4] = "reboot"
  /\ Len(Script("flash_unverified")) = 3 /\ Script("flash_unverified")[1] = "info"
  /\ Script("flash_unverified")[2] = "write_flash" /\ Script("flash_unverified")[3] = "reboot"
  /\ \A c \in {"membw", "erase", "mark_bad", "selfupdate"} : Len(Script(c)) = 1 /\ Script(c)[1] = c
BY DEF Script, InfoScript, ReadScript, WriteScript, ScanScript, FlashScript, FlashUnverifiedScript, MembwScript

\* Which operation of which command Op is.
OpIs ==
  /\ Op \in Operations
  /\ Op = "info" => step = 1 /\ cmd \in {"info", "upload", "read", "scan"} \cup Flashes
  /\ Op = "read" => cmd = "read" /\ step = 2
  /\ Op = "verify" => (cmd = "read" /\ step = 3) \/ (cmd = "write" /\ step = 2) \/ (cmd = "flash" /\ step = 3)
  /\ Op = "write" => cmd = "write" /\ step = 1
  /\ Op = "scan" => cmd = "scan" /\ step = 2
  /\ Op = "dump" => cmd = "scan" /\ step = 3
  /\ Op = "write_flash" => cmd \in Flashes /\ step = 2
  /\ Op = "reboot" => (cmd = "flash" /\ step = 4) \/ (cmd = "flash_unverified" /\ step = 3)
  /\ Op \in {"membw", "erase", "mark_bad", "selfupdate"} => cmd = Op /\ step = 1

\* Which operation comes at which step.
CmdIs ==
  /\ cmd \in {"info", "upload"} => step = 1 /\ Op = "info" /\ Len(Script(cmd)) = 1
  /\ cmd = "read" => /\ step \in {1, 2, 3} /\ Len(Script(cmd)) = 3
                     /\ (step = 1 => Op = "info") /\ (step = 2 => Op = "read") /\ (step = 3 => Op = "verify")
  /\ cmd = "write" => step \in {1, 2} /\ Len(Script(cmd)) = 2 /\ (step = 1 => Op = "write") /\ (step = 2 => Op = "verify")
  /\ cmd = "scan" => /\ step \in {1, 2, 3} /\ Len(Script(cmd)) = 3
                     /\ (step = 1 => Op = "info") /\ (step = 2 => Op = "scan") /\ (step = 3 => Op = "dump")
  /\ cmd = "flash" => /\ step \in {1, 2, 3, 4} /\ Len(Script(cmd)) = 4
                      /\ (step = 1 => Op = "info") /\ (step = 2 => Op = "write_flash")
                      /\ (step = 3 => Op = "verify") /\ (step = 4 => Op = "reboot")
  /\ cmd = "flash_unverified" =>
       /\ step \in {1, 2, 3} /\ Len(Script(cmd)) = 3
       /\ (step = 1 => Op = "info") /\ (step = 2 => Op = "write_flash") /\ (step = 3 => Op = "reboot")
  /\ cmd \in {"membw", "erase", "mark_bad", "selfupdate"} => step = 1 /\ Op = cmd /\ Len(Script(cmd)) = 1

LEMMA OpTable ==
  ASSUME cmd \in Commands, step \in 1..Len(Script(cmd))
  PROVE  OpIs /\ CmdIs
<1>1. CASE cmd = "info" \/ cmd = "upload"
  <2>0. Len(Script(cmd)) = 1 /\ Script(cmd)[1] = "info"
    BY <1>1, ScriptTable
  <2>1. step = 1 /\ Op = "info" /\ Len(Script(cmd)) = 1
    BY <2>0 DEF Op
  <2> QED
    BY <1>1, <2>1 DEF OpIs, CmdIs, Operations
<1>2. CASE cmd = "read"
  <2>0. Len(Script(cmd)) = 3
    BY <1>2, ScriptTable
  <2>1. Len(Script(cmd)) = 3 /\ (step = 1 \/ step = 2 \/ step = 3)
    BY <2>0
  <2>2. (step = 1 => Op = "info") /\ (step = 2 => Op = "read") /\ (step = 3 => Op = "verify")
    BY <1>2, ScriptTable DEF Op
  <2> QED
    BY <1>2, <2>1, <2>2 DEF OpIs, CmdIs, Operations
<1>3. CASE cmd = "write"
  <2>0. Len(Script(cmd)) = 2
    BY <1>3, ScriptTable
  <2>1. Len(Script(cmd)) = 2 /\ (step = 1 \/ step = 2)
    BY <2>0
  <2>2. (step = 1 => Op = "write") /\ (step = 2 => Op = "verify")
    BY <1>3, ScriptTable DEF Op
  <2> QED
    BY <1>3, <2>1, <2>2 DEF OpIs, CmdIs, Operations
<1>4. CASE cmd = "scan"
  <2>0. Len(Script(cmd)) = 3
    BY <1>4, ScriptTable
  <2>1. Len(Script(cmd)) = 3 /\ (step = 1 \/ step = 2 \/ step = 3)
    BY <2>0
  <2>2. (step = 1 => Op = "info") /\ (step = 2 => Op = "scan") /\ (step = 3 => Op = "dump")
    BY <1>4, ScriptTable DEF Op
  <2> QED
    BY <1>4, <2>1, <2>2 DEF OpIs, CmdIs, Operations
<1>5. CASE cmd = "flash"
  <2>0. Len(Script(cmd)) = 4
    BY <1>5, ScriptTable
  <2>1. Len(Script(cmd)) = 4 /\ (step = 1 \/ step = 2 \/ step = 3 \/ step = 4)
    BY <2>0
  <2>2. /\ (step = 1 => Op = "info") /\ (step = 2 => Op = "write_flash")
        /\ (step = 3 => Op = "verify") /\ (step = 4 => Op = "reboot")
    BY <1>5, ScriptTable DEF Op
  <2> QED
    BY <1>5, <2>1, <2>2 DEF OpIs, CmdIs, Operations, Flashes
<1>7. CASE cmd = "flash_unverified"
  <2>0. Len(Script(cmd)) = 3
    BY <1>7, ScriptTable
  <2>1. Len(Script(cmd)) = 3 /\ (step = 1 \/ step = 2 \/ step = 3)
    BY <2>0
  <2>2. (step = 1 => Op = "info") /\ (step = 2 => Op = "write_flash") /\ (step = 3 => Op = "reboot")
    BY <1>7, ScriptTable DEF Op
  <2> QED
    BY <1>7, <2>1, <2>2 DEF OpIs, CmdIs, Operations, Flashes
<1>6. CASE cmd \in {"membw", "erase", "mark_bad", "selfupdate"}
  <2>0. Len(Script(cmd)) = 1 /\ Script(cmd)[1] = cmd
    BY <1>6, ScriptTable
  <2>1. step = 1 /\ Op = cmd /\ Len(Script(cmd)) = 1
    BY <2>0 DEF Op
  <2> QED
    BY <1>6, <2>1 DEF OpIs, CmdIs, Operations
<1> QED
  BY <1>1, <1>2, <1>3, <1>4, <1>5, <1>6, <1>7 DEF Commands

---------------------------------------------------------------------------
(* What the agent answers.                                                 *)

ReadPackets(a) ==
  [i \in 1..(a[2] - a[1] + 1) |-> Packet("data", [seq |-> i - 1, val |-> flash[a[1] + i - 1]])]
Progress(n) == [i \in 1..n |-> Packet("data", [seq |-> i, val |-> ""])]
ScanPackets == [s \in 1..Sectors |-> Packet("scan", flash[s])]

LEMMA DownTypes ==
  /\ Okay \in DownPackets /\ Errors \in DownPackets /\ Ready \in DownPackets
  /\ Packet("info", "") \in DownPackets /\ Packet("membw", "") \in DownPackets
  /\ Packet("scan", "header") \in DownPackets
  /\ \A v \in Contents : Packet("scan", v) \in DownPackets /\ Packet("crc", v) \in DownPackets
  /\ \A v \in [1..Sectors -> Contents] : Packet("crc", v) \in DownPackets
  /\ \A v \in [1..Blocks -> {"other", "new"}] : Packet("crc", v) \in DownPackets
  /\ \A i \in 0..Sectors, v \in Contents \cup {""} : Packet("data", [seq |-> i, val |-> v]) \in DownPackets
<1> USE DEF DownPackets, Packet
<1>1. /\ Okay \in DownPackets /\ Errors \in DownPackets /\ Ready \in DownPackets
      /\ Packet("info", "") \in DownPackets /\ Packet("membw", "") \in DownPackets
  BY DEF Okay, Errors, Ready, Ack
<1>2. /\ Packet("scan", "header") \in DownPackets
      /\ \A v \in Contents : Packet("scan", v) \in DownPackets /\ Packet("crc", v) \in DownPackets
  OBVIOUS
<1>3. /\ \A v \in [1..Sectors -> Contents] : Packet("crc", v) \in DownPackets
      /\ \A v \in [1..Blocks -> {"other", "new"}] : Packet("crc", v) \in DownPackets
  OBVIOUS
<1>4. \A i \in 0..Sectors, v \in Contents \cup {""} : Packet("data", [seq |-> i, val |-> v]) \in DownPackets
  OBVIOUS
<1> QED
  BY <1>1, <1>2, <1>3, <1>4

\* READY is told apart by its kind, and so are the ACKs.
LEMMA DownKinds ==
  /\ \A p \in DownPackets : (p.kind = "ready" => p = Ready) /\ (p.kind = "ack" => p = Okay \/ p = Errors)
  /\ Ready.kind = "ready" /\ Okay.kind = "ack" /\ Errors.kind = "ack"
  /\ Okay # Errors /\ Okay # Ready /\ Errors # Ready
  /\ \A k, v : Packet(k, v).kind = k /\ Packet(k, v).val = v
  /\ \A p : IsAck(p) <=> p = Okay
<1>1. ASSUME NEW p \in DownPackets
      PROVE  /\ p.kind = "ready" => p = Ready
             /\ p.kind = "ack" => p = Okay \/ p = Errors
  <2>1. CASE p \in [kind : {"ack"}, val : {"ok", "error"}]
    <3>1. p.kind = "ack" /\ p = [kind |-> "ack", val |-> p.val] /\ (p.val = "ok" \/ p.val = "error")
      BY <2>1
    <3> QED
      BY <3>1 DEF Okay, Errors, Ack, Packet
  <2>2. CASE p \in [kind : {"ready", "info", "membw"}, val : {""}]
    <3>1. p.kind # "ack" /\ p = [kind |-> p.kind, val |-> ""]
      BY <2>2
    <3> QED
      BY <3>1 DEF Ready, Packet
  <2>3. CASE p.kind \in {"crc", "scan", "data"}
    BY <2>3
  <2> QED
    BY <2>1, <2>2, <2>3 DEF DownPackets
<1>2. Ready.kind = "ready" /\ Okay.kind = "ack" /\ Errors.kind = "ack"
  BY DEF Ready, Okay, Errors, Ack, Packet
<1>5. \A k, v : Packet(k, v).kind = k /\ Packet(k, v).val = v
  BY DEF Packet
<1>6. Okay # Errors /\ Okay # Ready /\ Errors # Ready
  BY DEF Okay, Errors, Ack, Packet, Ready
<1>7. \A p : IsAck(p) <=> p = Okay
  BY DEF IsAck, Okay
<1> QED
  BY <1>1, <1>2, <1>5, <1>6, <1>7

LEMMA ReadPacketsFacts ==
  ASSUME TypeInv, NEW a \in 1..Sectors, NEW b \in 1..Sectors, a <= b
  PROVE  /\ ReadPackets(<<a, b>>) \in Seq(DownPackets) /\ Len(ReadPackets(<<a, b>>)) = b - a + 1
         /\ \A i \in 1..(b - a + 1) :
              ReadPackets(<<a, b>>)[i] = Packet("data", [seq |-> i - 1, val |-> flash[a + i - 1]])
<1>1. ReadPackets(<<a, b>>) = [i \in 1..(b - a + 1) |-> Packet("data", [seq |-> i - 1, val |-> flash[a + i - 1]])]
  BY DEF ReadPackets
<1>2. \A i \in 1..(b - a + 1) : Packet("data", [seq |-> i - 1, val |-> flash[a + i - 1]]) \in DownPackets
  <2> SUFFICES ASSUME NEW i \in 1..(b - a + 1)
               PROVE  Packet("data", [seq |-> i - 1, val |-> flash[a + i - 1]]) \in DownPackets
    OBVIOUS
  <2>1. i - 1 \in 0..Sectors /\ a + i - 1 \in 1..Sectors
    BY LinkAssumption
  <2>2. flash[a + i - 1] \in Contents
    BY <2>1 DEF TypeInv
  <2> QED
    BY <2>1, <2>2, DownTypes
<1>3. b - a + 1 \in Nat
  BY LinkAssumption
<1> DEFINE n == b - a + 1
           f == ReadPackets(<<a, b>>)
<1>4. f = [i \in 1..n |-> f[i]] /\ n \in Nat /\ \A i \in 1..n : f[i] \in DownPackets
  BY <1>1, <1>2, <1>3
<1> HIDE DEF n, f
<1>5. f \in Seq(DownPackets) /\ Len(f) = n
  BY <1>4, FunctionIsSeq
<1> QED
  BY <1>1, <1>5 DEF n, f

LEMMA ProgressFacts ==
  ASSUME NEW n \in 0..Sectors
  PROVE  /\ Progress(n) \in Seq(DownPackets) /\ Len(Progress(n)) = n
         /\ \A i \in 1..n : Progress(n)[i] = Packet("data", [seq |-> i, val |-> ""])
<1>1. \A i \in 1..n : Packet("data", [seq |-> i, val |-> ""]) \in DownPackets
  <2> SUFFICES ASSUME NEW i \in 1..n PROVE Packet("data", [seq |-> i, val |-> ""]) \in DownPackets
    OBVIOUS
  <2>1. i \in 0..Sectors
    BY LinkAssumption
  <2> QED
    BY <2>1, DownTypes
<1>2. Progress(n) = [i \in 1..n |-> Progress(n)[i]] /\ \A i \in 1..n : Progress(n)[i] \in DownPackets
  BY <1>1 DEF Progress
<1>3. Progress(n) \in Seq(DownPackets) /\ Len(Progress(n)) = n
  BY <1>2, FunctionIsSeq, LinkAssumption
<1> QED
  BY <1>3 DEF Progress

LEMMA ScanPacketsFacts ==
  ASSUME TypeInv
  PROVE  /\ ScanPackets \in Seq(DownPackets) /\ Len(ScanPackets) = Sectors
         /\ \A i \in 1..Sectors : ScanPackets[i] = Packet("scan", flash[i])
<1>1. \A i \in 1..Sectors : Packet("scan", flash[i]) \in DownPackets
  BY DownTypes DEF TypeInv
<1> QED
  BY <1>1, LinkAssumption DEF ScanPackets

\* One packet, a sequence and one packet.
LEMMA Between ==
  ASSUME NEW S, NEW x \in S, NEW s \in Seq(S), NEW y \in S
  PROVE  /\ <<x>> \o s \o <<y>> \in Seq(S) /\ Len(<<x>> \o s \o <<y>>) = Len(s) + 2
         /\ (<<x>> \o s \o <<y>>)[1] = x /\ (<<x>> \o s \o <<y>>)[Len(s) + 2] = y
         /\ \A i \in 1..Len(s) : (<<x>> \o s \o <<y>>)[i + 1] = s[i]
<1> DEFINE a == <<x>>
           b == <<y>>
           c == a \o s
<1>1. a \in Seq(S) /\ Len(a) = 1 /\ a[1] = x
  OBVIOUS
<1>2. b \in Seq(S) /\ Len(b) = 1 /\ b[1] = y
  OBVIOUS
<1>3. Len(s) \in Nat
  OBVIOUS
<1> HIDE DEF a, b
<1>4. /\ c \in Seq(S) /\ Len(c) = Len(a) + Len(s)
      /\ \A i \in 1..Len(a) : c[i] = a[i]
      /\ \A i \in 1..Len(s) : c[Len(a) + i] = s[i]
  <2>1. a \in Seq(S)
    BY <1>1
  <2> QED
    BY <2>1
<1> HIDE DEF c
<1>5. /\ c \o b \in Seq(S) /\ Len(c \o b) = Len(c) + Len(b)
      /\ \A i \in 1..Len(c) : (c \o b)[i] = c[i]
      /\ \A i \in 1..Len(b) : (c \o b)[Len(c) + i] = b[i]
  <2>1. b \in Seq(S) /\ c \in Seq(S)
    BY <1>2, <1>4
  <2> QED
    BY <2>1
<1>6. Len(c) = Len(s) + 1 /\ c[1] = x /\ \A i \in 1..Len(s) : c[i + 1] = s[i]
  BY <1>1, <1>3, <1>4
<1>7. /\ c \o b \in Seq(S) /\ Len(c \o b) = Len(s) + 2 /\ (c \o b)[1] = x
      /\ (c \o b)[Len(s) + 2] = y
  BY <1>2, <1>3, <1>5, <1>6
<1>8. \A i \in 1..Len(s) : (c \o b)[i + 1] = s[i]
  BY <1>3, <1>5, <1>6
<1> QED
  BY <1>7, <1>8 DEF a, b, c

LEMMA AgentSendsAdds ==
  ASSUME faults \in 0..MaxFaults, NEW s, AgentSends(s)
  PROVE  Adds(down, down', s) /\ (rate # hostRate => down' = down) /\ faults' \in 0..MaxFaults
BY LinkAssumption DEF AgentSends, Adds, Fault, NoFault

LEMMA HostSendsAdds ==
  ASSUME faults \in 0..MaxFaults, NEW s, HostSends(s)
  PROVE  /\ Adds(up, up', s) /\ (~(alive /\ rate = hostRate) => up' = up) /\ faults' \in 0..MaxFaults
BY LinkAssumption DEF HostSends, Adds, Fault, NoFault

LEMMA UpKinds ==
  ASSUME NEW p \in UpPackets
  PROVE  /\ p.kind \in {"info", "membw", "erase", "scan", "reboot", "mark_bad", "set_baud", "crc", "crc_sector",
                        "read", "write", "data"}
         /\ p = Packet(p.kind, p.val)
         /\ p.kind = "set_baud" => p.val \in Rates
         /\ p.kind = "crc" => p.val \in {"ram", "flash"}
         /\ p.kind = "crc_sector" => p.val \in 1..Sectors
         /\ p.kind = "read" => \E a, b \in 1..Sectors : a <= b /\ p.val = <<a, b>>
         /\ p.kind = "write" => p.val \in 1..(Blocks + 1)
         /\ p.kind = "data" => p.val \in Chunk
<1> USE DEF Packet
<1>1. CASE p \in [kind : {"info", "membw", "erase", "scan", "reboot", "mark_bad"}, val : {""}]
  BY <1>1
<1>2. CASE p \in [kind : {"set_baud"}, val : Rates]
  BY <1>2
<1>3. CASE p \in [kind : {"crc"}, val : {"ram", "flash"}]
  BY <1>3
<1>4. CASE p \in [kind : {"crc_sector"}, val : 1..Sectors]
  BY <1>4
<1>5. CASE p \in [kind : {"read"}, val : {x \in (1..Sectors) \X (1..Sectors) : x[1] <= x[2]}]
  <2>1. p.kind = "read" /\ p = [kind |-> p.kind, val |-> p.val]
    BY <1>5
  <2>2. p.val \in (1..Sectors) \X (1..Sectors) /\ p.val[1] <= p.val[2]
    BY <1>5
  <2>3. p.val[1] \in 1..Sectors /\ p.val[2] \in 1..Sectors /\ p.val = <<p.val[1], p.val[2]>>
    BY <2>2
  <2> QED
    BY <2>1, <2>2, <2>3
<1>6. CASE p \in [kind : {"write"}, val : 1..(Blocks + 1)]
  BY <1>6
<1>7. CASE p \in [kind : {"data"}, val : Chunk]
  BY <1>7
<1> QED
  BY <1>1, <1>2, <1>3, <1>4, <1>5, <1>6, <1>7 DEF UpPackets

LEMMA UpTypes ==
  /\ \A k \in {"info", "membw", "erase", "scan", "reboot", "mark_bad"} : Packet(k, "") \in UpPackets
  /\ \A r \in Rates : Packet("set_baud", r) \in UpPackets
  /\ \A v \in {"ram", "flash"} : Packet("crc", v) \in UpPackets
  /\ \A s \in 1..Sectors : Packet("crc_sector", s) \in UpPackets
  /\ \A a, b \in 1..Sectors : a <= b => Packet("read", <<a, b>>) \in UpPackets
  /\ \A b \in 1..(Blocks + 1) : Packet("write", b) \in UpPackets
  /\ \A c \in Chunk : Packet("data", c) \in UpPackets
<1> USE DEF Packet, UpPackets
<1>1. /\ \A k \in {"info", "membw", "erase", "scan", "reboot", "mark_bad"} : Packet(k, "") \in UpPackets
      /\ \A r \in Rates : Packet("set_baud", r) \in UpPackets
      /\ \A v \in {"ram", "flash"} : Packet("crc", v) \in UpPackets
  OBVIOUS
<1>2. /\ \A s \in 1..Sectors : Packet("crc_sector", s) \in UpPackets
      /\ \A b \in 1..(Blocks + 1) : Packet("write", b) \in UpPackets
      /\ \A c \in Chunk : Packet("data", c) \in UpPackets
  OBVIOUS
<1>3. ASSUME NEW a \in 1..Sectors, NEW b \in 1..Sectors, a <= b
      PROVE  Packet("read", <<a, b>>) \in UpPackets
  <2>1. <<a, b>> \in {x \in (1..Sectors) \X (1..Sectors) : x[1] <= x[2]}
    BY <1>3
  <2> QED
    BY <2>1
<1> QED
  BY <1>1, <1>2, <1>3

---------------------------------------------------------------------------
(* The agent's steps, by what they do.                                     *)

hostSide == <<old, stash, hostVars, late>>

\* The packet the agent takes, and its answer.
Replies ==
  /\ up[1].kind = "info" => Adds(down, down', <<Packet("info", "")>>)
  /\ up[1].kind = "crc" => \/ up[1].val = "ram" /\ Adds(down, down', <<Packet("crc", ram)>>)
                           \/ up[1].val = "flash" /\ Adds(down, down', <<Packet("crc", flash)>>)
  /\ up[1].kind = "crc_sector" => Adds(down, down', <<Packet("crc", flash[up[1].val])>>)
  /\ up[1].kind = "membw" => Adds(down, down', <<Packet("membw", "")>>) \/ Adds(down, down', <<Errors>>)
  /\ up[1].kind = "read" =>
       \/ Adds(down, down', Append(ReadPackets(up[1].val), Okay))
       \/ down' = down \o Append(SubSeq(ReadPackets(up[1].val), 1, Len(ReadPackets(up[1].val)) - 1), Errors)
  /\ up[1].kind = "erase" =>
       \/ /\ flash' = [s \in 1..Sectors |-> "empty"]
          /\ Adds(down, down', <<Okay>> \o Progress(Sectors) \o <<Okay>>)
       \/ /\ flash' = [s \in 1..Sectors |-> IF s < Sectors THEN "empty" ELSE flash[s]]
          /\ down' = down \o <<Okay>> \o Progress(Sectors - 1) \o <<Errors>>
  /\ up[1].kind = "scan" => \/ old /\ Adds(down, down', <<Errors>>)
                            \/ ~ old /\ Adds(down, down', <<Packet("scan", "header")>> \o ScanPackets \o <<Okay>>)
  /\ up[1].kind = "mark_bad" =>
       \/ Adds(down, down', <<Okay>>) /\ flash' = [flash EXCEPT ![Sectors] = "bad_block"]
       \/ Adds(down, down', <<Errors>>) /\ flash' = flash
  /\ up[1].kind \in {"set_baud", "write", "reboot"} => Adds(down, down', <<Okay>>)
  /\ up[1].kind = "data" => Adds(down, down', <<Errors>>)

Takes ==
  /\ alive /\ task = 0 /\ up # <<>> /\ up' = Tail(up)
  /\ rate' = IF up[1].kind = "set_baud" THEN up[1].val ELSE rate
  /\ task' = IF up[1].kind = "write" THEN up[1].val ELSE 0
  /\ buf' = IF up[1].kind = "write" THEN <<>> ELSE buf
  /\ alive' = (up[1].kind # "reboot")
  /\ ram' = ram /\ faults' \in 0..MaxFaults
  /\ up[1].kind \notin {"erase", "mark_bad"} => flash' = flash
  /\ rate # hostRate => down' = down
  /\ UNCHANGED hostSide

\* The agent gives up a block, or refuses a request.
Starves ==
  /\ alive /\ Adds(down, down', <<Errors>>) /\ (rate # hostRate => down' = down)
  /\ task' = 0 /\ faults' \in 0..MaxFaults
  /\ \/ task # 0 /\ up = <<>> /\ up' = up /\ ~(pc = "block_ack" /\ down # <<>>)
     \/ up # <<>> /\ up' = Tail(up) /\ (task # 0 \/ up[1].kind \in {"read", "crc", "crc_sector", "erase", "write"})
  /\ ram' = ram \/ (task \notin {0, Blocks + 1} /\ ram' = [ram EXCEPT ![task] = "other"])
  /\ UNCHANGED <<alive, rate, buf, flash>> /\ UNCHANGED hostSide

LEMMA TakeEffect ==
  ASSUME TypeInv, AgentTake
  PROVE  (Takes /\ Replies) \/ Starves
<1>1. up # <<>> /\ Head(up) = up[1] /\ up[1] \in UpPackets /\ alive /\ task = 0 /\ up' = Tail(up)
  <2>1. up \in Seq(UpPackets)
    BY DEF TypeInv
  <2>2. up # <<>> /\ alive /\ task = 0 /\ up' = Tail(up)
    BY DEF AgentTake
  <2> QED
    BY <2>1, <2>2, TailFacts
<1>2. UNCHANGED hostSide
  BY DEF AgentTake, Stays, hostSide
<1>3. faults \in 0..MaxFaults
  BY DEF TypeInv
<1> DEFINE k == up[1].kind
<1>4. k \in {"info", "membw", "erase", "scan", "reboot", "mark_bad", "set_baud", "crc", "crc_sector",
             "read", "write", "data"}
  BY <1>1, UpKinds
<1> DEFINE Same == UNCHANGED <<alive, rate, task, buf, ram, flash>>
<1>5. ASSUME NEW s, Answers(s)
      PROVE  Adds(down, down', s) /\ (rate # hostRate => down' = down) /\ faults' \in 0..MaxFaults /\ Same
  BY <1>3, <1>5, AgentSendsAdds DEF Answers
<1> USE DEF Okay, Errors
<1>6. CASE HandleInfo
  <2>1. k = "info" /\ Answers(<<Packet("info", "")>>)
    BY <1>1, <1>6 DEF HandleInfo
  <2>2. Adds(down, down', <<Packet("info", "")>>) /\ (rate # hostRate => down' = down) /\ faults' \in 0..MaxFaults /\ Same
    BY <2>1, <1>5
  <2> QED
    BY <1>1, <1>2, <2>1, <2>2 DEF Takes, Replies
<1>7. CASE HandleCrc32
  <2>1. CASE Head(up) = Packet("crc", "ram") /\ Answers(<<Packet("crc", ram)>>)
    <3>1. k = "crc" /\ up[1].val = "ram"
      BY <1>1, <2>1 DEF Packet
    <3>2. Adds(down, down', <<Packet("crc", ram)>>) /\ (rate # hostRate => down' = down) /\ faults' \in 0..MaxFaults /\ Same
      BY <2>1, <1>5
    <3> QED
      BY <1>1, <1>2, <3>1, <3>2 DEF Takes, Replies
  <2>2. CASE Head(up) = Packet("crc", "flash") /\ Answers(<<Packet("crc", flash)>>)
    <3>1. k = "crc" /\ up[1].val = "flash"
      BY <1>1, <2>2 DEF Packet
    <3>2. Adds(down, down', <<Packet("crc", flash)>>) /\ (rate # hostRate => down' = down) /\ faults' \in 0..MaxFaults /\ Same
      BY <2>2, <1>5
    <3> QED
      BY <1>1, <1>2, <3>1, <3>2 DEF Takes, Replies
  <2>3. CASE Head(up).kind = "crc_sector" /\ Answers(<<Packet("crc", flash[Head(up).val])>>)
    <3>1. k = "crc_sector" /\ Answers(<<Packet("crc", flash[up[1].val])>>)
      BY <1>1, <2>3
    <3>2. Adds(down, down', <<Packet("crc", flash[up[1].val])>>) /\ (rate # hostRate => down' = down) /\ faults' \in 0..MaxFaults /\ Same
      BY <3>1, <1>5
    <3> QED
      BY <1>1, <1>2, <3>1, <3>2 DEF Takes, Replies
  <2> QED
    BY <1>7, <2>1, <2>2, <2>3 DEF HandleCrc32
<1>8. CASE HandleMembw
  <2>1. k = "membw"
    BY <1>1, <1>8 DEF HandleMembw
  <2>2. Adds(down, down', <<Packet("membw", "")>>) \/ Adds(down, down', <<Errors>>)
    BY <1>8, <1>5 DEF HandleMembw
  <2>3. (rate # hostRate => down' = down) /\ faults' \in 0..MaxFaults /\ Same
    BY <1>8, <1>5 DEF HandleMembw
  <2> QED
    BY <1>1, <1>2, <2>1, <2>2, <2>3 DEF Takes, Replies
<1>9. CASE HandleRead
  <2> DEFINE pkts == ReadPackets(up[1].val)
  <2>1. k = "read"
    BY <1>1, <1>9 DEF HandleRead
  <2>2. \/ Answers(Append(pkts, Ack("ok")))
        \/ /\ Fault /\ rate = hostRate
           /\ down' = down \o Append(SubSeq(pkts, 1, Len(pkts) - 1), Ack("error"))
           /\ Same
    BY <1>1, <1>9 DEF HandleRead, ReadPackets
  <2> HIDE DEF pkts
  <2>3. \/ Adds(down, down', Append(pkts, Ack("ok")))
        \/ down' = down \o Append(SubSeq(pkts, 1, Len(pkts) - 1), Ack("error"))
    BY <2>2, <1>5
  <2>4. (rate # hostRate => down' = down) /\ faults' \in 0..MaxFaults /\ Same
    BY <2>2, <1>3, <1>5, LinkAssumption DEF Fault
  <2> QED
    BY <1>1, <1>2, <2>1, <2>3, <2>4 DEF Takes, Replies, pkts
<1>10. CASE HandleErase
  <2>1. k = "erase" /\ UNCHANGED <<alive, rate, task, buf, ram>>
    BY <1>1, <1>10 DEF HandleErase
  <2>2. \/ /\ flash' = [s \in 1..Sectors |-> "empty"]
           /\ AgentSends(<<Ack("ok")>> \o Progress(Sectors) \o <<Ack("ok")>>)
        \/ /\ Fault /\ rate = hostRate
           /\ flash' = [s \in 1..Sectors |-> IF s < Sectors THEN "empty" ELSE flash[s]]
           /\ down' = down \o <<Ack("ok")>> \o Progress(Sectors - 1) \o <<Ack("error")>>
    BY <1>10 DEF HandleErase, Progress
  <2>3. \/ /\ flash' = [s \in 1..Sectors |-> "empty"]
           /\ Adds(down, down', <<Ack("ok")>> \o Progress(Sectors) \o <<Ack("ok")>>)
        \/ /\ flash' = [s \in 1..Sectors |-> IF s < Sectors THEN "empty" ELSE flash[s]]
           /\ down' = down \o <<Ack("ok")>> \o Progress(Sectors - 1) \o <<Ack("error")>>
    BY <2>2, <1>3, AgentSendsAdds
  <2>4. (rate # hostRate => down' = down) /\ faults' \in 0..MaxFaults
    BY <2>2, <1>3, AgentSendsAdds, LinkAssumption DEF Fault
  <2> QED
    BY <1>1, <1>2, <2>1, <2>3, <2>4 DEF Takes, Replies
<1>11. CASE HandleScan
  <2>1. k = "scan" /\ (old = TRUE \/ old = FALSE)
    BY <1>1, <1>11 DEF HandleScan, TypeInv
  <2>2. \/ old /\ Answers(<<Ack("error")>>)
        \/ ~ old /\ Answers(<<Packet("scan", "header")>> \o ScanPackets \o <<Ack("ok")>>)
    BY <1>11, <2>1 DEF HandleScan, ScanPackets
  <2>3. \/ old /\ Adds(down, down', <<Ack("error")>>)
        \/ ~ old /\ Adds(down, down', <<Packet("scan", "header")>> \o ScanPackets \o <<Ack("ok")>>)
    BY <2>2, <1>5
  <2>4. (rate # hostRate => down' = down) /\ faults' \in 0..MaxFaults /\ Same
    BY <2>2, <1>5
  <2> QED
    BY <1>1, <1>2, <2>1, <2>3, <2>4 DEF Takes, Replies
<1>12. CASE HandleMarkBad
  <2>1. k = "mark_bad" /\ UNCHANGED <<alive, rate, task, buf, ram>>
    BY <1>1, <1>12 DEF HandleMarkBad
  <2>2. \/ Adds(down, down', <<Ack("ok")>>) /\ flash' = [flash EXCEPT ![Sectors] = "bad_block"]
        \/ Adds(down, down', <<Ack("error")>>) /\ flash' = flash
    BY <1>12, <1>3, AgentSendsAdds DEF HandleMarkBad
  <2>3. (rate # hostRate => down' = down) /\ faults' \in 0..MaxFaults
    BY <1>12, <1>3, AgentSendsAdds DEF HandleMarkBad
  <2> QED
    BY <1>1, <1>2, <2>1, <2>2, <2>3 DEF Takes, Replies
<1>13. CASE HandleSetBaud
  <2>1. k = "set_baud" /\ rate' = up[1].val /\ UNCHANGED <<alive, task, buf, ram, flash>>
    BY <1>1, <1>13 DEF HandleSetBaud
  <2>2. Adds(down, down', <<Ack("ok")>>) /\ (rate # hostRate => down' = down) /\ faults' \in 0..MaxFaults
    BY <1>13, <1>3, AgentSendsAdds DEF HandleSetBaud
  <2> QED
    BY <1>1, <1>2, <2>1, <2>2 DEF Takes, Replies
<1>14. CASE HandleWrite
  <2>1. k = "write" /\ task' = up[1].val /\ buf' = <<>> /\ UNCHANGED <<alive, rate, ram, flash>>
    BY <1>1, <1>14 DEF HandleWrite
  <2>2. Adds(down, down', <<Ack("ok")>>) /\ (rate # hostRate => down' = down) /\ faults' \in 0..MaxFaults
    BY <1>14, <1>3, AgentSendsAdds DEF HandleWrite
  <2> QED
    BY <1>1, <1>2, <2>1, <2>2 DEF Takes, Replies
<1>15. CASE HandleReboot
  <2>1. k = "reboot" /\ alive' = FALSE /\ UNCHANGED <<rate, task, buf, ram, flash>>
    BY <1>1, <1>15 DEF HandleReboot
  <2>2. Adds(down, down', <<Ack("ok")>>) /\ (rate # hostRate => down' = down) /\ faults' \in 0..MaxFaults
    BY <1>15, <1>3, AgentSendsAdds DEF HandleReboot
  <2> QED
    BY <1>1, <1>2, <2>1, <2>2 DEF Takes, Replies
<1>16. CASE HandleUnknown
  <2>1. k = "data" /\ Answers(<<Ack("error")>>)
    BY <1>1, <1>16 DEF HandleUnknown
  <2>2. Adds(down, down', <<Ack("error")>>) /\ (rate # hostRate => down' = down) /\ faults' \in 0..MaxFaults /\ Same
    BY <2>1, <1>5
  <2> QED
    BY <1>1, <1>2, <2>1, <2>2 DEF Takes, Replies
<1>17. CASE Rejected
  BY <1>1, <1>2, <1>5, <1>17 DEF Rejected, Starves
<1> QED
  BY <1>6, <1>7, <1>8, <1>9, <1>10, <1>11, <1>12, <1>13, <1>14, <1>15, <1>16, <1>17 DEF AgentTake

\* Receiving a block: the packet is taken; the last one is answered.
Receives ==
  /\ alive /\ task # 0 /\ up # <<>> /\ up' = Tail(up)
  /\ buf' = IF up[1].kind = "data" THEN Append(buf, up[1].val) ELSE buf
  /\ Len(buf') <= Chunks /\ faults' \in 0..MaxFaults
  /\ \/ Len(buf') < Chunks /\ task' = task /\ rate' = rate /\ ram' = ram /\ down' = down
     \/ /\ task' = 0 /\ rate' \in {rate, "slow"} /\ (task # Blocks + 1 => rate' = rate)
        /\ \/ /\ Adds(down, down', <<Okay>>)
              /\ ram' = IF task = Blocks + 1 THEN ram ELSE [ram EXCEPT ![task] = "new"]
           \/ /\ Adds(down, down', <<Errors>>)
              /\ ram' = IF task = Blocks + 1 THEN ram ELSE [ram EXCEPT ![task] = "other"]
        /\ up[1].kind = "data" \/ Len(buf) = Chunks
        /\ rate # hostRate => down' = down
  /\ UNCHANGED <<alive, flash>> /\ UNCHANGED hostSide

LEMMA RecvEffect ==
  ASSUME TypeInv, AgentRecv
  PROVE  Receives \/ Starves
<1>1. up # <<>> /\ Head(up) = up[1] /\ up[1] \in UpPackets /\ alive /\ task # 0 /\ up' = Tail(up)
  <2>1. up \in Seq(UpPackets)
    BY DEF TypeInv
  <2>2. up # <<>> /\ alive /\ task # 0 /\ up' = Tail(up)
    BY DEF AgentRecv
  <2> QED
    BY <2>1, <2>2, TailFacts
<1>2. UNCHANGED hostSide /\ UNCHANGED <<alive, flash>>
  BY DEF AgentRecv, Stays, hostSide
<1>3. faults \in 0..MaxFaults
  BY DEF TypeInv
<1> DEFINE B == buf' = IF up[1].kind = "data" THEN Append(buf, up[1].val) ELSE buf
<1>4. CASE Damaged
  <2>1. faults' \in 0..MaxFaults
    BY <1>3, <1>4, LinkAssumption DEF Damaged
  <2>2. Adds(down, down', <<Errors>>) /\ (rate # hostRate => down' = down)
    <3>1. down \in Seq(DownPackets)
      BY DEF TypeInv
    <3>2. Append(down, Errors) = down \o <<Errors>>
      BY <3>1
    <3> QED
      BY <1>4, <3>2 DEF Damaged, Adds, Errors
  <2> QED
    BY <1>1, <1>2, <1>4, <2>1, <2>2 DEF Damaged, GiveUp, Starves
<1>5. CASE B /\ Len(buf') = Chunks /\ Received(task)
  <2> DEFINE same == buf' = Block(task)
  <2>1. /\ AgentSends(<<Ack(IF same THEN "ok" ELSE "error")>>) /\ task' = 0
        /\ ram' = IF task = Blocks + 1 THEN ram
                  ELSE [ram EXCEPT ![task] = IF same THEN "new" ELSE "other"]
        /\ rate' = IF task = Blocks + 1 /\ same THEN "slow" ELSE rate
    BY <1>5 DEF Received
  <2> HIDE DEF same
  <2>2. /\ Adds(down, down', <<Ack(IF same THEN "ok" ELSE "error")>>)
        /\ (rate # hostRate => down' = down) /\ faults' \in 0..MaxFaults
    BY <2>1, <1>3, AgentSendsAdds
  <2>3. \/ /\ Adds(down, down', <<Okay>>)
           /\ ram' = IF task = Blocks + 1 THEN ram ELSE [ram EXCEPT ![task] = "new"]
        \/ /\ Adds(down, down', <<Errors>>)
           /\ ram' = IF task = Blocks + 1 THEN ram ELSE [ram EXCEPT ![task] = "other"]
    <3>1. CASE same
      BY <3>1, <2>1, <2>2 DEF Okay
    <3>2. CASE ~ same
      BY <3>2, <2>1, <2>2 DEF Errors
    <3> QED
      BY <3>1, <3>2
  <2>4. rate' \in {rate, "slow"} /\ (task # Blocks + 1 => rate' = rate)
    BY <2>1
  <2>5. Len(buf') <= Chunks /\ (up[1].kind = "data" \/ Len(buf) = Chunks)
    BY <1>5, LinkAssumption
  <2> QED
    BY <1>1, <1>2, <1>5, <2>1, <2>2, <2>3, <2>4, <2>5 DEF Receives
<1>6. CASE B /\ Len(buf') < Chunks /\ UNCHANGED <<rate, task, ram, down, faults>>
  <2>1. Len(buf') <= Chunks
    <3>1. buf' \in Seq(Chunk)
      <4>1. buf \in Seq(Chunk) /\ (up[1].kind = "data" => up[1].val \in Chunk)
        BY <1>1, UpKinds DEF TypeInv
      <4>2. up[1].kind = "data" => Append(buf, up[1].val) \in Seq(Chunk)
        BY <4>1
      <4> QED
        BY <1>6, <4>1, <4>2
    <3> QED
      BY <3>1, <1>6, LinkAssumption
  <2> QED
    BY <1>1, <1>2, <1>3, <1>6, <2>1 DEF Receives
<1> QED
  BY <1>1, <1>4, <1>5, <1>6 DEF AgentRecv

LEMMA StarveEffect ==
  ASSUME TypeInv, AgentStarve
  PROVE  Starves
<1>1. faults \in 0..MaxFaults
  BY DEF TypeInv
<1>2. /\ Adds(down, down', <<Errors>>) /\ (rate # hostRate => down' = down) /\ faults' \in 0..MaxFaults
  BY <1>1, AgentSendsAdds DEF AgentStarve, Errors
<1> QED
  BY <1>2 DEF AgentStarve, GiveUp, Starves, Stays, hostSide

\* The packets the agent sends come behind those under way, and are no READY.
Grows ==
  /\ down' \in Seq(DownPackets) /\ Len(down) <= Len(down')
  /\ \A i \in 1..Len(down) : down'[i] = down[i]
  /\ \A i \in (Len(down) + 1)..Len(down') : down'[i] # Ready

LEMMA GrowsBy ==
  ASSUME down \in Seq(DownPackets), NEW s \in Seq(DownPackets), \A i \in 1..Len(s) : s[i] # Ready,
         Adds(down, down', s)
  PROVE  Grows
<1>1. /\ down' \in Seq(DownPackets) /\ Len(down) <= Len(down')
      /\ \A i \in 1..Len(down) : down'[i] = down[i]
      /\ \A i \in (Len(down) + 1)..Len(down') : \E k \in 1..Len(s) : down'[i] = s[k]
  BY AddsFacts
<1> QED
  BY <1>1 DEF Grows

LEMMA GrowsByOne ==
  ASSUME down \in Seq(DownPackets), NEW x \in DownPackets, x # Ready, Adds(down, down', <<x>>)
  PROVE  Grows /\ (down' = down \/ down' = Append(down, x))
<1>1. down' = down \/ down' = Append(down, x)
  BY AddsOne
<1>2. CASE down' = down
  BY <1>2 DEF Grows
<1>3. CASE down' = Append(down, x)
  BY <1>3 DEF Grows
<1> QED
  BY <1>1, <1>2, <1>3

LEMMA TakeGrows ==
  ASSUME TypeInv, Takes, Replies
  PROVE  Grows
<1>1. down \in Seq(DownPackets) /\ up[1] \in UpPackets
  <2>1. up \in Seq(UpPackets) /\ up # <<>>
    BY DEF TypeInv, Takes
  <2> QED
    BY <2>1, TailFacts DEF TypeInv
<1>2. \A k, v : k # "ready" => Packet(k, v) # Ready
  BY DEF Packet, Ready
<1>3. CASE up[1].kind \in {"info", "membw"}
  <2>1. Packet("info", "") \in DownPackets /\ Packet("membw", "") \in DownPackets /\ Errors \in DownPackets
    BY DownTypes
  <2>2. \/ Adds(down, down', <<Packet("info", "")>>) \/ Adds(down, down', <<Packet("membw", "")>>)
        \/ Adds(down, down', <<Errors>>)
    BY <1>3 DEF Replies
  <2>3. Packet("info", "") # Ready /\ Packet("membw", "") # Ready /\ Errors # Ready
    BY <1>2, DownKinds
  <2> QED
    BY <1>1, <2>1, <2>2, <2>3, GrowsByOne
<1>4. CASE up[1].kind = "crc"
  <2>1. Packet("crc", ram) \in DownPackets /\ Packet("crc", flash) \in DownPackets
    BY DownTypes DEF TypeInv
  <2> QED
    BY <1>1, <1>2, <1>4, <2>1, GrowsByOne DEF Replies
<1>5. CASE up[1].kind = "crc_sector"
  <2>1. up[1].val \in 1..Sectors
    BY <1>1, <1>5, UpKinds
  <2>2. Packet("crc", flash[up[1].val]) \in DownPackets
    BY <2>1, DownTypes DEF TypeInv
  <2> QED
    BY <1>1, <1>2, <1>5, <2>2, GrowsByOne DEF Replies
<1>6. CASE up[1].kind = "read"
  <2>1. PICK a \in 1..Sectors, b \in 1..Sectors : a <= b /\ up[1].val = <<a, b>>
    BY <1>1, <1>6, UpKinds
  <2> DEFINE s == ReadPackets(up[1].val)
  <2>2. s \in Seq(DownPackets) /\ Len(s) >= 1 /\ \A i \in 1..Len(s) : s[i] # Ready
    <3>1. s \in Seq(DownPackets) /\ Len(s) = b - a + 1
      BY <2>1, ReadPacketsFacts
    <3>2. \A i \in 1..(b - a + 1) : s[i] = Packet("data", [seq |-> i - 1, val |-> flash[a + i - 1]])
      BY <2>1, ReadPacketsFacts
    <3>3. \A i \in 1..(b - a + 1) : s[i] # Ready
      BY <3>2, <1>2
    <3> HIDE DEF s
    <3> QED
      BY <2>1, <3>1, <3>3
  <2>3. Adds(down, down', Append(s, Okay)) \/ down' = down \o Append(SubSeq(s, 1, Len(s) - 1), Errors)
    BY <1>6 DEF Replies
  <2> HIDE DEF s
  <2> DEFINE t == SubSeq(s, 1, Len(s) - 1)
  <2>4. t \in Seq(DownPackets) /\ \A i \in 1..Len(t) : t[i] # Ready
    BY <2>2
  <2> HIDE DEF t
  <2> DEFINE s1 == Append(s, Okay)
             t1 == Append(t, Errors)
  <2>5. s1 \in Seq(DownPackets) /\ \A i \in 1..Len(s1) : s1[i] # Ready
    <3>1. Okay \in DownPackets /\ Okay # Ready
      BY DownTypes, DownKinds
    <3> QED
      BY <2>2, <3>1, AppendFacts
  <2>6. t1 \in Seq(DownPackets) /\ \A i \in 1..Len(t1) : t1[i] # Ready
    <3>1. Errors \in DownPackets /\ Errors # Ready
      BY DownTypes, DownKinds
    <3> QED
      BY <2>4, <3>1, AppendFacts
  <2>7. Adds(down, down', s1) \/ Adds(down, down', t1)
    BY <2>3 DEF Adds, t
  <2> HIDE DEF s1, t1
  <2> QED
    BY <1>1, <2>5, <2>6, <2>7, GrowsBy
<1>7. CASE up[1].kind = "erase"
  <2> DEFINE s == <<Okay>> \o Progress(Sectors) \o <<Okay>>
             t == <<Okay>> \o Progress(Sectors - 1) \o <<Errors>>
  <2>0. Sectors \in 0..Sectors /\ Sectors - 1 \in 0..Sectors
    BY LinkAssumption
  <2>1. s \in Seq(DownPackets) /\ \A i \in 1..Len(s) : s[i] # Ready
    <3> DEFINE p == Progress(Sectors)
    <3>1. p \in Seq(DownPackets) /\ Len(p) = Sectors /\ \A i \in 1..Sectors : p[i] # Ready
      BY <2>0, <1>2, ProgressFacts
    <3> HIDE DEF p
    <3>2. /\ s \in Seq(DownPackets) /\ Len(s) = Len(p) + 2
          /\ s[1] = Okay /\ s[Len(p) + 2] = Okay /\ \A i \in 1..Len(p) : s[i + 1] = p[i]
      <4>1. Okay \in DownPackets
        BY DownTypes
      <4> QED
        BY <3>1, <4>1, Between DEF p
    <3> HIDE DEF s
    <3>3. ASSUME NEW i \in 1..Len(s) PROVE s[i] # Ready
      <4>1. i = 1 \/ i = Sectors + 2 \/ (i - 1 \in 1..Sectors /\ i = (i - 1) + 1)
        BY <3>1, <3>2, LinkAssumption
      <4> QED
        BY <3>1, <3>2, <4>1, DownKinds
    <3> QED
      BY <3>2, <3>3
  <2>2. t \in Seq(DownPackets) /\ \A i \in 1..Len(t) : t[i] # Ready
    <3> DEFINE p == Progress(Sectors - 1)
    <3>1. p \in Seq(DownPackets) /\ Len(p) = Sectors - 1 /\ \A i \in 1..(Sectors - 1) : p[i] # Ready
      BY <2>0, <1>2, ProgressFacts
    <3> HIDE DEF p
    <3>2. /\ t \in Seq(DownPackets) /\ Len(t) = Len(p) + 2
          /\ t[1] = Okay /\ t[Len(p) + 2] = Errors /\ \A i \in 1..Len(p) : t[i + 1] = p[i]
      <4>1. Okay \in DownPackets /\ Errors \in DownPackets
        BY DownTypes
      <4> QED
        BY <3>1, <4>1, Between DEF p
    <3> HIDE DEF t
    <3>3. ASSUME NEW i \in 1..Len(t) PROVE t[i] # Ready
      <4>1. i = 1 \/ i = Sectors + 1 \/ (i - 1 \in 1..(Sectors - 1) /\ i = (i - 1) + 1)
        BY <3>1, <3>2, LinkAssumption
      <4> QED
        BY <3>1, <3>2, <4>1, DownKinds
    <3> QED
      BY <3>2, <3>3
  <2>3. Adds(down, down', s) \/ Adds(down, down', t)
    <3> DEFINE p == Progress(Sectors - 1)
               a == <<Okay>>
               b == <<Errors>>
    <3>1. p \in Seq(DownPackets) /\ a \in Seq(DownPackets) /\ b \in Seq(DownPackets)
      <4>1. Okay \in DownPackets /\ Errors \in DownPackets
        BY DownTypes
      <4>2. p \in Seq(DownPackets)
        BY <2>0, ProgressFacts
      <4> QED
        BY <4>1, <4>2
    <3>2. Adds(down, down', s) \/ down' = ((down \o a) \o p) \o b
      BY <1>7 DEF Replies
    <3> HIDE DEF p, a, b
    <3>3. ((down \o a) \o p) \o b = down \o ((a \o p) \o b)
      <4>1. down \in Seq(DownPackets) /\ a \o p \in Seq(DownPackets)
        BY <1>1, <3>1
      <4>2. (down \o a) \o p = down \o (a \o p)
        BY <3>1, <4>1
      <4>3. (down \o (a \o p)) \o b = down \o ((a \o p) \o b)
        <5> DEFINE c == a \o p
        <5>1. c \in Seq(DownPackets)
          BY <4>1
        <5> HIDE DEF c
        <5>2. (down \o c) \o b = down \o (c \o b)
          BY <3>1, <4>1, <5>1
        <5> QED
          BY <5>2 DEF c
      <4> QED
        BY <4>2, <4>3
    <3>4. Adds(down, down', s) \/ Adds(down, down', (a \o p) \o b)
      BY <3>2, <3>3 DEF Adds
    <3> QED
      BY <3>4 DEF p, a, b
  <2> HIDE DEF s, t
  <2> QED
    BY <1>1, <2>1, <2>2, <2>3, GrowsBy
<1>8. CASE up[1].kind = "scan"
  <2> DEFINE p == ScanPackets
             h == Packet("scan", "header")
             s == <<h>> \o p \o <<Okay>>
  <2>1. Adds(down, down', <<Errors>>) \/ Adds(down, down', s)
    BY <1>8 DEF Replies
  <2>2. p \in Seq(DownPackets) /\ Len(p) = Sectors /\ \A i \in 1..Sectors : p[i] # Ready
    BY <1>2, ScanPacketsFacts
  <2>3. h \in DownPackets /\ h # Ready
    BY <1>2, DownTypes
  <2> HIDE DEF p, h
  <2>4. /\ s \in Seq(DownPackets) /\ Len(s) = Len(p) + 2
        /\ s[1] = h /\ s[Len(p) + 2] = Okay /\ \A i \in 1..Len(p) : s[i + 1] = p[i]
    <3>1. Okay \in DownPackets
      BY DownTypes
    <3> QED
      BY <2>2, <2>3, <3>1, Between
  <2> HIDE DEF s
  <2>5. ASSUME NEW i \in 1..Len(s) PROVE s[i] # Ready
    <3>1. i = 1 \/ i = Sectors + 2 \/ (i - 1 \in 1..Sectors /\ i = (i - 1) + 1)
      BY <2>2, <2>4, LinkAssumption
    <3> QED
      BY <2>2, <2>3, <2>4, <3>1, DownKinds
  <2> QED
    BY <1>1, <2>1, <2>4, <2>5, GrowsBy, GrowsByOne, DownTypes, DownKinds
<1>9. CASE up[1].kind \in {"mark_bad", "set_baud", "write", "reboot", "data"}
  BY <1>1, <1>9, GrowsByOne, DownTypes, DownKinds DEF Replies
<1> QED
  BY <1>1, <1>3, <1>4, <1>5, <1>6, <1>7, <1>8, <1>9, UpKinds

LEMMA RecvGrows ==
  ASSUME TypeInv, Receives
  PROVE  Grows
<1>1. down \in Seq(DownPackets)
  BY DEF TypeInv
<1>2. CASE down' = down
  BY <1>1, <1>2 DEF Grows
<1>3. CASE Adds(down, down', <<Okay>>) \/ Adds(down, down', <<Errors>>)
  BY <1>1, <1>3, GrowsByOne, DownTypes, DownKinds
<1> QED
  BY <1>2, <1>3 DEF Receives

LEMMA StarveGrows ==
  ASSUME TypeInv, Starves
  PROVE  Grows /\ (down' = down \/ down' = Append(down, Errors))
BY GrowsByOne, DownTypes, DownKinds DEF TypeInv, Starves

\* All that it adds is an ACK that reports an error.
LEMMA StarveFacts ==
  ASSUME TypeInv, Starves
  PROVE  \A i \in DOMAIN down' :
           (i \in DOMAIN down /\ down'[i] = down[i]) \/ (down'[i] = Errors /\ down'[i].kind = "ack" /\ down' = Append(down, Errors))
<1>1. down \in Seq(DownPackets) /\ Errors \in DownPackets /\ Errors.kind = "ack"
  BY DownTypes, DownKinds DEF TypeInv
<1>2. CASE down' = down
  BY <1>1, <1>2
<1>3. CASE down' = Append(down, Errors)
  <2>1. DOMAIN down' = 1..(Len(down) + 1) /\ DOMAIN down = 1..Len(down) /\ Len(down) \in Nat
        /\ (\A i \in 1..Len(down) : down'[i] = down[i]) /\ down'[Len(down) + 1] = Errors
    BY <1>1, <1>3
  <2> QED
    BY <1>1, <1>3, <2>1
<1> QED
  BY <1>2, <1>3, StarveGrows

---------------------------------------------------------------------------
(* The window's packets.                                                   *)

LEMMA Quotient ==
  ASSUME NEW n \in Nat, NEW d \in Nat \ {0}, NEW k \in Nat, k < n * d
  PROVE  k \div d \in Nat /\ k \div d < n /\ k % d \in 0..(d - 1) /\ (k % d = 0 => k = d * (k \div d))
<1>1. d \in Int /\ d > 0 /\ k \in Int /\ k >= 0 /\ n \in Int
  OBVIOUS
<1>2. k \div d \in Int /\ k \div d >= 0
  BY <1>1
<1>3. k \div d < n
  BY <1>1
<1>4. k % d \in 0..(d - 1)
  BY <1>1
<1>5. ASSUME k % d = 0 PROVE k = d * (k \div d)
  BY <1>1, <1>5
<1> QED
  BY <1>2, <1>3, <1>4, <1>5

\* Of two multiples the larger has the larger quotient.
LEMMA QuotientGrows ==
  ASSUME NEW d \in Nat \ {0}, NEW q \in Nat, NEW p \in Nat, d * q < d * p
  PROVE  q < p
<1> SUFFICES ASSUME q >= p PROVE FALSE
  OBVIOUS
<1>1. d * q >= d * p
  OBVIOUS
<1> QED
  BY <1>1

LEMMA BlockPacketsFacts ==
  ASSUME NEW b \in 1..(Blocks + 1)
  PROVE  /\ BlockPackets(b) \in Seq(UpPackets) /\ Len(BlockPackets(b)) = Chunks + 1
         /\ BlockPackets(b)[1] = Packet("write", b)
         /\ \A j \in 1..Chunks : BlockPackets(b)[j + 1] = Packet("data", <<b, j>>)
<1> DEFINE h == <<Packet("write", b)>>
           s == [i \in 1..Chunks |-> Packet("data", Block(b)[i])]
<1>1. \A i \in 1..Chunks : s[i] = Packet("data", <<b, i>>) /\ s[i] \in UpPackets
  <2> SUFFICES ASSUME NEW i \in 1..Chunks PROVE s[i] = Packet("data", <<b, i>>) /\ s[i] \in UpPackets
    OBVIOUS
  <2>1. s[i] = Packet("data", <<b, i>>)
    BY DEF Block
  <2>2. <<b, i>> \in Chunk
    BY DEF Chunk
  <2> QED
    BY <2>1, <2>2, UpTypes
<1>2. s \in Seq(UpPackets) /\ Len(s) = Chunks
  <2>1. s = [i \in 1..Chunks |-> s[i]] /\ Chunks \in Nat
    BY LinkAssumption
  <2> HIDE DEF s
  <2> QED
    BY <1>1, <2>1, FunctionIsSeq
<1>3. h \in Seq(UpPackets) /\ Len(h) = 1 /\ h[1] = Packet("write", b)
  <2>1. Packet("write", b) \in UpPackets
    BY UpTypes
  <2> QED
    BY <2>1
<1> HIDE DEF h, s
<1>4. /\ h \o s \in Seq(UpPackets) /\ Len(h \o s) = Len(h) + Len(s)
      /\ \A i \in 1..Len(h) : (h \o s)[i] = h[i]
      /\ \A i \in 1..Len(s) : (h \o s)[Len(h) + i] = s[i]
  <2>1. h \in Seq(UpPackets) /\ s \in Seq(UpPackets)
    BY <1>2, <1>3
  <2> QED
    BY <2>1
<1>5. BlockPackets(b) = h \o s
  BY DEF BlockPackets, h, s
<1>6. (h \o s)[1] = Packet("write", b) /\ Len(h \o s) = Chunks + 1
  BY <1>2, <1>3, <1>4, LinkAssumption
<1>7. \A j \in 1..Chunks : (h \o s)[j + 1] = Packet("data", <<b, j>>)
  BY <1>1, <1>2, <1>3, <1>4, LinkAssumption
<1> QED
  BY <1>4, <1>5, <1>6, <1>7

LEMMA WindowPacketsFacts ==
  ASSUME off \in Nat, off < Blocks
  PROVE  /\ WindowEnd \in (off + 1)..Blocks /\ WindowPackets \in Seq(UpPackets)
         /\ \A i \in 1..Len(WindowPackets) :
              /\ WindowPackets[i].kind \in {"write", "data"}
              /\ WindowPackets[i].kind = "write" => WindowPackets[i].val \in (off + 1)..WindowEnd
         /\ \A i, j \in 1..Len(WindowPackets) :
              i < j /\ WindowPackets[i].kind = "write" /\ WindowPackets[j].kind = "write" =>
                WindowPackets[i].val < WindowPackets[j].val
<1>1. WindowEnd \in (off + 1)..Blocks
  BY LinkAssumption DEF WindowEnd, Least
<1> DEFINE n == WindowEnd - off
           d == Chunks + 1
           W == WindowPackets
           q(i) == (i - 1) \div d
           r(i) == (i - 1) % d
<1>2. n \in Nat /\ d \in Nat \ {0} /\ n * d \in Nat
  BY <1>1, LinkAssumption
<1>3. W = [i \in 1..(n * d) |-> BlockPackets(off + 1 + q(i))[r(i) + 1]]
  BY DEF WindowPackets
<1> HIDE DEF W, n
<1>4. ASSUME NEW i \in 1..(n * d)
      PROVE  /\ q(i) \in Nat /\ q(i) < n /\ r(i) \in 0..Chunks /\ (r(i) = 0 => i - 1 = d * q(i))
  <2>1. i - 1 \in Nat /\ i - 1 < n * d
    BY <1>2
  <2>2. q(i) \in Nat /\ q(i) < n /\ r(i) \in 0..(d - 1) /\ (r(i) = 0 => i - 1 = d * q(i))
    BY <1>2, <2>1, Quotient
  <2> QED
    BY <2>2, LinkAssumption
<1> HIDE DEF q, r
<1>5. ASSUME NEW i \in 1..(n * d)
      PROVE  /\ off + 1 + q(i) \in (off + 1)..WindowEnd /\ W[i] \in UpPackets
             /\ \/ r(i) = 0 /\ W[i] = Packet("write", off + 1 + q(i))
                \/ r(i) # 0 /\ W[i].kind = "data"
  <2>1. off + 1 + q(i) \in (off + 1)..WindowEnd /\ off + 1 + q(i) \in 1..(Blocks + 1)
    BY <1>1, <1>4, LinkAssumption DEF n
  <2>2. W[i] = BlockPackets(off + 1 + q(i))[r(i) + 1]
    BY <1>3
  <2>3. r(i) + 1 \in 1..(Chunks + 1)
    BY <1>4, LinkAssumption
  <2>4. W[i] \in UpPackets
    BY <2>1, <2>2, <2>3, BlockPacketsFacts
  <2>5. CASE r(i) = 0
    BY <2>1, <2>2, <2>4, <2>5, BlockPacketsFacts
  <2>6. CASE r(i) # 0
    <3>1. r(i) \in 1..Chunks
      BY <1>4, <2>6, LinkAssumption
    <3>2. W[i] = Packet("data", <<off + 1 + q(i), r(i)>>)
      BY <2>1, <2>2, <3>1, BlockPacketsFacts
    <3> QED
      BY <2>1, <2>4, <2>6, <3>2 DEF Packet
  <2> QED
    BY <2>5, <2>6
<1>6. W \in Seq(UpPackets) /\ Len(W) = n * d
  <2>1. W = [i \in 1..(n * d) |-> W[i]]
    BY <1>3
  <2> QED
    BY <1>2, <1>5, <2>1, FunctionIsSeq
<1>7. ASSUME NEW i \in 1..(n * d)
      PROVE  W[i].kind \in {"write", "data"} /\ (W[i].kind = "write" => W[i].val \in (off + 1)..WindowEnd)
  <2>1. Packet("write", off + 1 + q(i)).kind = "write" /\ Packet("write", off + 1 + q(i)).val = off + 1 + q(i)
    BY DEF Packet
  <2> QED
    BY <1>5, <2>1
<1>8. ASSUME NEW i \in 1..(n * d), NEW j \in 1..(n * d), i < j, W[i].kind = "write", W[j].kind = "write"
      PROVE  W[i].val < W[j].val
  <2>1. r(i) = 0 /\ r(j) = 0 /\ W[i].val = off + 1 + q(i) /\ W[j].val = off + 1 + q(j)
    <3>1. \A v : Packet("write", v).kind = "write" /\ Packet("write", v).val = v
      BY DEF Packet
    <3>2. \/ r(i) = 0 /\ W[i] = Packet("write", off + 1 + q(i))
          \/ r(i) # 0 /\ W[i].kind = "data"
      BY <1>5
    <3>3. \/ r(j) = 0 /\ W[j] = Packet("write", off + 1 + q(j))
          \/ r(j) # 0 /\ W[j].kind = "data"
      BY <1>5
    <3> QED
      BY <1>8, <3>1, <3>2, <3>3
  <2>2. q(i) \in Nat /\ q(j) \in Nat /\ i - 1 = d * q(i) /\ j - 1 = d * q(j)
    BY <1>4, <2>1
  <2>3. d * q(i) < d * q(j)
    <3>1. i - 1 < j - 1
      BY <1>2, <1>8
    <3> QED
      BY <2>2, <3>1
  <2>4. q(i) < q(j)
    BY <1>2, <2>2, <2>3, QuotientGrows
  <2> QED
    BY <2>1, <2>2, <2>4
<1> QED
  BY <1>1, <1>6, <1>7, <1>8 DEF W

---------------------------------------------------------------------------
(* The host's steps, by what they do to the line.                          *)

\* Some of what was under way to the host has been read.
Shrinks ==
  /\ down' \in Seq(DownPackets) /\ stash' \in 0..Len(down')
  /\ \E d \in 0..Len(down) : Len(down') = Len(down) - d /\ \A i \in 1..Len(down') : down'[i] = down[i + d]

\* The next packet has been read.
Reads ==
  /\ down # <<>> /\ down' = Tail(down) /\ down' \in Seq(DownPackets) /\ Len(down') = Len(down) - 1
  /\ \A i \in 1..Len(down') : down'[i] = down[i + 1]
  /\ stash' \in 0..Len(down') /\ Head(down) = down[1] /\ down[1] \in DownPackets

LEMMA ReadsEffect ==
  ASSUME TypeInv, NEW p, Recv(p)
  PROVE  p = down[1] /\ Reads /\ Shrinks
<1>1. down \in Seq(DownPackets) /\ stash \in 0..Len(down)
  BY DEF TypeInv
<1>2. down # <<>> /\ p = Head(down) /\ down' = Tail(down)
  BY DEF Recv
<1>3. /\ down' \in Seq(DownPackets) /\ Len(down') = Len(down) - 1 /\ Len(down) >= 1
      /\ \A i \in 1..(Len(down) - 1) : down'[i] = down[i + 1]
      /\ Head(down) = down[1] /\ down[1] \in DownPackets
  BY <1>1, <1>2, TailFacts
<1>4. stash' \in 0..Len(down')
  BY <1>1, <1>3 DEF Recv
<1> QED
  BY <1>1, <1>2, <1>3, <1>4 DEF Reads, Shrinks

LEMMA SameShrinks ==
  ASSUME TypeInv, down' = down, stash' = stash
  PROVE  Shrinks
<1>1. down' \in Seq(DownPackets) /\ stash' \in 0..Len(down')
  BY DEF TypeInv
<1>2. 0 \in 0..Len(down) /\ Len(down') = Len(down) - 0 /\ \A i \in 1..Len(down') : down'[i] = down[i + 0]
  BY <1>1
<1> QED
  BY <1>1, <1>2 DEF Shrinks

LEMMA FlushShrinks ==
  ASSUME TypeInv, down' = <<>>, stash' = 0
  PROVE  Shrinks
<1>0. down \in Seq(DownPackets)
  BY DEF TypeInv
<1>1. down' \in Seq(DownPackets) /\ Len(down') = 0 /\ Len(down) \in Nat
  BY <1>0
<1>2. Len(down) \in 0..Len(down) /\ Len(down') = Len(down) - Len(down) /\ stash' \in 0..Len(down')
  BY <1>1
<1>3. \A i \in 1..Len(down') : down'[i] = down[i + Len(down)]
  BY <1>1
<1> QED
  BY <1>1, <1>2, <1>3 DEF Shrinks

LEMMA ClearShrinks ==
  ASSUME TypeInv, Clear
  PROVE  Shrinks
<1>1. down \in Seq(DownPackets) /\ stash \in 0..Len(down)
  BY DEF TypeInv
<1>2. CASE transport = "port"
  <2>1. down' = SubSeq(down, stash + 1, Len(down)) /\ stash' = 0
    BY <1>2 DEF Clear
  <2>2. /\ down' \in Seq(DownPackets) /\ Len(down') = Len(down) - stash
        /\ \A i \in 1..(Len(down) - stash) : down'[i] = down[i + stash]
    BY <1>1, <2>1
  <2> QED
    BY <1>1, <2>1, <2>2 DEF Shrinks
<1>3. CASE transport # "port"
  BY <1>3, SameShrinks DEF Clear
<1> QED
  BY <1>2, <1>3

rcvFrame == Waiting /\ down # <<>> /\ UNCHANGED <<hostRest, cmd>>
agentSide == <<agentVars, transport, sessions, cmd>>

\* Steps of the host that send nothing.
Listens ==
  \/ DumpSkip \/ SkipReady \/ Timeout \/ Drain
  \/ /\ rcvFrame
     /\ \/ VerifyBaud(Head(down)) \/ Answered(Head(down)) \/ ReadStream(Head(down)) \/ WindowAck(Head(down))
        \/ BlockCrc(Head(down)) \/ EraseAck(Head(down)) \/ ScanAnswer(Head(down)) \/ CompatAnswer(Head(down))

LEMMA SilentEffect ==
  ASSUME TypeInv, Connect \/ Listens
  PROVE  UNCHANGED agentSide /\ UNCHANGED <<up, faults>> /\ Shrinks
<1> USE DEF agentSide, hostRest, NoFault
<1>1. CASE Connect
  <2>1. Shrinks
    BY <1>1, ReadsEffect, SameShrinks DEF Connect, Expired
  <2> QED
    BY <1>1, <2>1 DEF Connect, Expired
<1>2. CASE DumpSkip
  BY <1>2, SameShrinks DEF DumpSkip
<1>3. CASE SkipReady
  BY <1>3, ReadsEffect DEF SkipReady
<1>4. CASE Timeout
  <2>1. Shrinks
    BY <1>4, SameShrinks DEF Timeout, Expired
  <2>2. UNCHANGED up
    BY <1>4 DEF Timeout, CompatResult
  <2> QED
    BY <1>4, <2>1, <2>2 DEF Timeout, Expired
<1>5. CASE Drain
  <2>1. Shrinks
    BY <1>5, SameShrinks, FlushShrinks DEF Drain
  <2> QED
    BY <1>5, <2>1 DEF Drain
<1>6. CASE /\ rcvFrame
           /\ \/ VerifyBaud(Head(down)) \/ Answered(Head(down)) \/ ReadStream(Head(down)) \/ WindowAck(Head(down))
              \/ BlockCrc(Head(down)) \/ EraseAck(Head(down)) \/ ScanAnswer(Head(down)) \/ CompatAnswer(Head(down))
  <2>1. Recv(Head(down)) /\ NoFault /\ UNCHANGED up
    BY <1>6 DEF VerifyBaud, Answered, ReadStream, WindowAck, BlockCrc, EraseAck, ScanAnswer, CompatAnswer, CompatResult
  <2> QED
    BY <1>6, <2>1, ReadsEffect DEF rcvFrame
<1> QED
  BY <1>1, <1>2, <1>3, <1>4, <1>5, <1>6 DEF Listens

\* Steps of the host that send, and what.
Switches ==
  /\ UNCHANGED agentSide /\ Shrinks /\ faults' \in 0..MaxFaults
  /\ pc = "run" /\ Reading /\ acks' = 0 /\ off' = (IF Op = "dump" THEN off ELSE 0)
  /\ UNCHANGED <<hostRate, step, got, found, claims, late>>
  /\ \/ /\ Fast /\ hostRate = "slow" /\ pc' = "baud"
        /\ up' = up \/ (alive /\ rate = hostRate /\ up' = Append(up, Packet("set_baud", "fast")))
     \/ ~(Fast /\ hostRate = "slow") /\ pc' = "go" /\ up' = up

LEMMA SwitchEffect ==
  ASSUME TypeInv, SwitchBaud
  PROVE  Switches
<1>1. Shrinks
  BY ClearShrinks, SameShrinks DEF SwitchBaud
<1>2. up \in Seq(UpPackets) /\ Packet("set_baud", "fast") \in UpPackets /\ faults \in 0..MaxFaults
  BY UpTypes DEF TypeInv, Rates
<1>3. CASE Fast /\ hostRate = "slow"
  <2>1. HostSends(<<Packet("set_baud", "fast")>>) /\ pc' = "baud"
    BY <1>3 DEF SwitchBaud
  <2>2. /\ Adds(up, up', <<Packet("set_baud", "fast")>>) /\ (~(alive /\ rate = hostRate) => up' = up)
        /\ faults' \in 0..MaxFaults
    BY <1>2, <2>1, HostSendsAdds
  <2>3. up' = up \/ up' = Append(up, Packet("set_baud", "fast"))
    BY <1>2, <2>2, AddsOne
  <2> QED
    BY <1>1, <1>3, <2>1, <2>2, <2>3 DEF SwitchBaud, Switches, agentSide, hostRest
<1>4. CASE ~(Fast /\ hostRate = "slow")
  BY <1>1, <1>2, <1>4 DEF SwitchBaud, Switches, agentSide, hostRest
<1> QED
  BY <1>3, <1>4

Turns ==
  /\ UNCHANGED agentSide /\ Shrinks /\ faults' \in 0..MaxFaults
  /\ pc = "baud" /\ down # <<>> /\ down[1] # Ready
  /\ UNCHANGED <<step, claims, got, off, acks, found, late>>
  /\ \/ down[1] # Okay /\ pc' = "go" /\ hostRate' = hostRate /\ up' = up /\ Reads
     \/ /\ down[1] = Okay /\ transport = "tcp" /\ pc' = "go" /\ hostRate' = hostRate /\ Reads
        /\ up' = up \/ (rate = hostRate /\ up' = Append(up, Packet("set_baud", "slow")))
     \/ /\ down[1] = Okay /\ transport # "tcp" /\ hostRate' = "fast" /\ pc' = "baud_verify" /\ down' = <<>>
        /\ up' = up \/ (rate = "fast" /\ up' = Append(up, Packet("info", "")))

LEMMA TurnEffect ==
  ASSUME TypeInv, rcvFrame, SetBaud(Head(down))
  PROVE  Turns
<1>1. down # <<>> /\ Head(down) = down[1] /\ UNCHANGED agentSide /\ UNCHANGED late
  <2>1. down \in Seq(DownPackets) /\ down # <<>>
    BY DEF TypeInv, rcvFrame
  <2> QED
    BY <2>1 DEF rcvFrame, agentSide, hostRest
<1>2. up \in Seq(UpPackets) /\ Packet("set_baud", "slow") \in UpPackets /\ faults \in 0..MaxFaults
  BY UpTypes DEF TypeInv, Rates
<1>3. IsAck(down[1]) <=> down[1] = Okay
  BY DownKinds
<1>4. CASE ~ IsAck(down[1])
  BY <1>1, <1>2, <1>3, <1>4, ReadsEffect DEF SetBaud, Turns
<1>5. CASE IsAck(down[1]) /\ transport = "tcp"
  <2>1. HostSends(<<Packet("set_baud", "slow")>>) /\ pc' = "go" /\ Recv(down[1]) /\ UNCHANGED hostRate
    BY <1>1, <1>5 DEF SetBaud
  <2>2. /\ Adds(up, up', <<Packet("set_baud", "slow")>>) /\ (~(alive /\ rate = hostRate) => up' = up)
        /\ faults' \in 0..MaxFaults
    BY <1>2, <2>1, HostSendsAdds
  <2>3. up' = up \/ up' = Append(up, Packet("set_baud", "slow"))
    BY <1>2, <2>2, AddsOne
  <2>4. Reads /\ Shrinks
    BY <2>1, ReadsEffect
  <2> QED
    BY <1>1, <1>3, <1>5, <2>1, <2>2, <2>3, <2>4 DEF SetBaud, Turns
<1>6. CASE IsAck(down[1]) /\ transport # "tcp"
  <2>1. /\ hostRate' = "fast" /\ pc' = "baud_verify" /\ down' = <<>> /\ stash' = 0
        /\ \/ rate = "fast" /\ up' = Append(up, Packet("info", "")) /\ NoFault
           \/ rate = "fast" /\ up' = up /\ Fault
           \/ rate # "fast" /\ up' = up /\ NoFault
    BY <1>1, <1>6 DEF SetBaud
  <2>2. Shrinks
    BY <2>1, FlushShrinks
  <2>3. faults' \in 0..MaxFaults
    <3>1. Fault \/ NoFault
      BY <2>1
    <3> QED
      BY <1>2, <3>1, LinkAssumption DEF Fault, NoFault
  <2> QED
    BY <1>1, <1>3, <1>6, <2>1, <2>2, <2>3 DEF SetBaud, Turns
<1> QED
  BY <1>4, <1>5, <1>6

Issues ==
  /\ UNCHANGED agentSide /\ UNCHANGED <<down, stash>> /\ faults' \in 0..MaxFaults
  /\ pc = "go" /\ Op # "write_flash" /\ pc' = Waits /\ acks' = 0
  /\ got' = (IF Op = "read" THEN <<>> ELSE got)
  /\ Adds(up, up', Request) /\ (~(alive /\ rate = hostRate) => up' = up)
  /\ UNCHANGED <<hostRate, step, off, found, claims, late>>

LEMMA IssueEffect ==
  ASSUME TypeInv, Issue
  PROVE  Issues /\ Shrinks
<1>1. Adds(up, up', Request) /\ (~(alive /\ rate = hostRate) => up' = up) /\ faults' \in 0..MaxFaults
  BY HostSendsAdds DEF Issue, TypeInv
<1>2. Shrinks
  BY SameShrinks DEF Issue
<1> QED
  BY <1>1, <1>2 DEF Issue, Issues, agentSide, hostRest

\* A block's packets after its header, in answer to its first ACK.
Continues ==
  /\ UNCHANGED agentSide /\ Reads /\ Shrinks /\ faults' \in 0..MaxFaults
  /\ pc = "block_ack" /\ down[1] # Ready
  /\ UNCHANGED <<hostRate, got, off, acks, found, late, step, claims>>
  /\ \/ /\ down[1] = Okay /\ pc' = "block_crc"
        /\ Adds(up, up', Tail(BlockPackets(IF Op = "selfupdate" THEN Blocks + 1 ELSE off + 1)))
     \/ down[1] # Okay /\ pc' = "closed" /\ up' = up

LEMMA ContinueEffect ==
  ASSUME TypeInv, rcvFrame, BlockAck(Head(down))
  PROVE  Continues
<1>1. down # <<>> /\ Head(down) = down[1] /\ UNCHANGED agentSide /\ UNCHANGED late
  <2>1. down \in Seq(DownPackets) /\ down # <<>>
    BY DEF TypeInv, rcvFrame
  <2> QED
    BY <2>1 DEF rcvFrame, agentSide, hostRest
<1>2. IsAck(down[1]) <=> down[1] = Okay
  BY DownKinds
<1>3. Reads /\ Shrinks
  BY ReadsEffect DEF BlockAck
<1>4. faults \in 0..MaxFaults
  BY DEF TypeInv
<1> DEFINE block == IF Op = "selfupdate" THEN Blocks + 1 ELSE off + 1
           s == Tail(BlockPackets(block))
<1>5. CASE IsAck(down[1])
  <2>1. HostSends(s) /\ pc' = "block_crc" /\ UNCHANGED <<step, claims>>
    BY <1>1, <1>5 DEF BlockAck
  <2> HIDE DEF s
  <2>2. Adds(up, up', s) /\ faults' \in 0..MaxFaults
    BY <1>4, <2>1, HostSendsAdds
  <2> QED
    BY <1>1, <1>2, <1>3, <1>5, <2>1, <2>2 DEF BlockAck, Continues, keepRate, s
<1>6. CASE ~ IsAck(down[1])
  BY <1>1, <1>2, <1>3, <1>4, <1>6 DEF BlockAck, Continues, keepRate, Failed
<1> QED
  BY <1>5, <1>6

Asks ==
  /\ UNCHANGED agentSide /\ Shrinks /\ faults' \in 0..MaxFaults
  /\ pc = "compat" /\ UNCHANGED <<hostRate, got, acks, found, late>>
  /\ \/ off = Sectors /\ Done /\ off' = 0 /\ up' = up /\ UNCHANGED <<down, stash>>
     \/ /\ off # Sectors /\ pc' = "compat_crc" /\ UNCHANGED <<off, step, claims>>
        /\ \/ up' = up
           \/ alive /\ rate = hostRate /\ Adds(up, up', <<Packet("crc_sector", off + 1)>>)

LEMMA AskEffect ==
  ASSUME TypeInv, CompatSend
  PROVE  Asks
<1>1. faults \in 0..MaxFaults
  BY DEF TypeInv
<1>2. CASE off = Sectors
  BY <1>1, <1>2, SameShrinks DEF CompatSend, Asks, agentSide, hostRest
<1>3. CASE off # Sectors
  <2>1. Clear /\ HostSends(<<Packet("crc_sector", off + 1)>>) /\ pc' = "compat_crc" /\ UNCHANGED <<off, step, claims>>
    BY <1>3 DEF CompatSend
  <2>2. /\ Adds(up, up', <<Packet("crc_sector", off + 1)>>) /\ (~(alive /\ rate = hostRate) => up' = up)
        /\ faults' \in 0..MaxFaults
    BY <1>1, <2>1, HostSendsAdds
  <2> QED
    BY <1>3, <2>1, <2>2, ClearShrinks DEF CompatSend, Asks, agentSide, hostRest
<1> QED
  BY <1>2, <1>3

Retries ==
  /\ UNCHANGED agentSide /\ Shrinks /\ faults' \in 0..MaxFaults
  /\ pc = "retry" /\ pc' = "block_ack"
  /\ Adds(up, up', <<Packet("write", off + 1)>>)
  /\ UNCHANGED <<hostRate, step, got, off, acks, found, claims, late>>

LEMMA RetryEffect ==
  ASSUME TypeInv, Retry
  PROVE  Retries
<1>1. Adds(up, up', <<Packet("write", off + 1)>>) /\ faults' \in 0..MaxFaults
  BY HostSendsAdds DEF Retry, TypeInv
<1> QED
  BY <1>1, ClearShrinks DEF Retry, Retries, agentSide, hostRest

\* The agent that nobody hears, or talks to.
Idles ==
  /\ alive /\ task = 0 /\ up = <<>> /\ UNCHANGED <<alive, task, buf, ram, flash, up, faults>> /\ UNCHANGED hostSide
  /\ \/ down = <<>> /\ down' = <<Ready>> /\ rate' = rate /\ rate = hostRate /\ pc # "closed"
     \/ /\ rate = "fast" /\ rate' = "slow" /\ down' = down
        /\ pc \in {"closed", "upload"} \/ (pc \notin {"run", "go", "compat", "drain", "retry"} /\ Quiet)

LEMMA IdleEffect ==
  ASSUME SendReady \/ IdleRevert
  PROVE  Idles
BY DEF SendReady, IdleRevert, Idles, hostSide, Stays, Quiet

\* Every step but those that open a session and wait for READY.
silentSide == <<agentSide, up, faults>>
Works ==
  \/ UNCHANGED vars \/ WriteFlash \/ (Listens /\ Shrinks /\ UNCHANGED silentSide)
  \/ Switches \/ Turns \/ (Issues /\ Shrinks) \/ Continues \/ Asks \/ Retries
  \/ Idles \/ (Takes /\ Replies /\ Grows) \/ (Receives /\ Grows) \/ (Starves /\ Grows)

LEMMA StepKinds ==
  ASSUME TypeInv, [Next]_vars
  PROVE  Open \/ Upload \/ (Connect /\ Shrinks /\ UNCHANGED silentSide) \/ Works
<1>0. Connect \/ Listens => Shrinks /\ UNCHANGED silentSide
  BY SilentEffect DEF silentSide
<1>1. CASE Host
  <2>1. CASE Receive
    <3>1. rcvFrame
      BY <2>1 DEF Receive, rcvFrame
    <3>2. \/ SetBaud(Head(down)) \/ VerifyBaud(Head(down)) \/ Answered(Head(down)) \/ ReadStream(Head(down))
          \/ WindowAck(Head(down)) \/ BlockAck(Head(down)) \/ BlockCrc(Head(down)) \/ EraseAck(Head(down))
          \/ ScanAnswer(Head(down)) \/ CompatAnswer(Head(down))
      BY <2>1 DEF Receive
    <3> QED
      BY <1>0, <3>1, <3>2, TurnEffect, ContinueEffect DEF Works, Listens
  <2>2. CASE Upload \/ WriteFlash
    BY <2>2 DEF Works
  <2>3. CASE Connect
    BY <1>0, <2>3
  <2>4. CASE DumpSkip \/ SkipReady \/ Timeout \/ Drain
    BY <1>0, <2>4 DEF Works, Listens
  <2>5. CASE SwitchBaud \/ Issue \/ CompatSend \/ Retry
    BY <2>5, SwitchEffect, IssueEffect, AskEffect, RetryEffect DEF Works
  <2> QED
    BY <1>1, <2>1, <2>2, <2>3, <2>4, <2>5 DEF Host
<1>2. CASE Agent \/ IdleRevert
  BY <1>2, IdleEffect, TakeEffect, RecvEffect, StarveEffect, TakeGrows, RecvGrows, StarveGrows DEF Agent, Works
<1>3. CASE Open \/ Upload \/ Ended \/ UNCHANGED vars
  BY <1>3 DEF Works, Ended
<1> QED
  BY <1>1, <1>2, <1>3 DEF Next

---------------------------------------------------------------------------
(* Sessions.                                                               *)

\* READY has come, from an agent that has nothing to do.
Fresh ==
  /\ pc = "connect" /\ pc' = "run" /\ up = <<>> /\ task = 0 /\ down' = <<>> /\ stash' = 0
  /\ alive /\ step = 1 /\ claims = {}
  /\ UNCHANGED <<agentSide, up, hostRate, step, got, off, acks, found, claims, faults, late>>

LEMMA ExpiredEffect ==
  ASSUME late \in Nat, Expired
  PROVE  late' \in Nat /\ late' >= late /\ UNCHANGED <<down, stash, faults>> /\ down = <<>>
<1>1. late' = late \/ late' = late + 1
  BY DEF Expired
<1>2. UNCHANGED <<down, stash, faults>> /\ down = <<>>
  BY DEF Expired
<1> QED
  BY <1>1, <1>2

LEMMA ConnectEffect ==
  ASSUME TypeInv, PlaceInv, ConnectInv, Connect, UNCHANGED silentSide
  PROVE  \/ Fresh
         \/ /\ pc = "connect" /\ pc' = "connect" /\ Reads /\ down[1] # Ready
            /\ UNCHANGED <<hostRate, step, got, off, acks, found, claims, late>>
         \/ pc = "connect" /\ pc' = "closed" /\ late' \in Nat /\ UNCHANGED <<down, stash, hostRate, step, got, off, acks, found, claims>>
<1>1. pc = "connect" /\ UNCHANGED <<hostRate, step, got, off, acks, found, claims>> /\ step = 1 /\ claims = {}
  BY DEF Connect, PlaceInv
<1>2. CASE Expired /\ pc' = "closed"
  <2>1. late' \in Nat /\ UNCHANGED <<down, stash>>
    BY <1>2, ExpiredEffect DEF TypeInv
  <2> QED
    BY <1>1, <1>2, <2>1
<1>3. CASE /\ down # <<>> /\ Recv(Head(down)) /\ NoFault /\ UNCHANGED late
           /\ pc' = IF Head(down) = Ready THEN "run" ELSE pc
  <2>1. Head(down) = down[1] /\ Reads
    BY <1>3, ReadsEffect
  <2>2. CASE down[1] # Ready
    BY <1>1, <1>3, <2>1, <2>2
  <2>3. CASE down[1] = Ready
    <3>1. alive /\ task = 0 /\ up = <<>> /\ down = <<Ready>>
      <4>1. down \in Seq(DownPackets) /\ down # <<>>
        BY <1>3 DEF TypeInv
      <4>2. 1 \in DOMAIN down
        BY <4>1
      <4> QED
        BY <1>1, <2>3, <4>2 DEF ConnectInv
    <3>2. down' = <<>> /\ stash' = 0
      <4>1. down' = <<>>
        BY <3>1, <2>1 DEF Reads
      <4> QED
        BY <4>1, <2>1 DEF Reads
    <3> QED
      BY <1>1, <1>3, <2>1, <2>3, <3>1, <3>2 DEF Fresh, silentSide
  <2> QED
    BY <2>2, <2>3
<1> QED
  BY <1>2, <1>3 DEF Connect

LEMMA DoneEffect ==
  ASSUME cmd \in Commands, step \in 1..Len(Script(cmd)), Done
  PROVE  /\ claims' = claims \cup {Op} /\ Op = Script(cmd)[step]
         /\ \/ step = Len(Script(cmd)) /\ pc' = "closed" /\ step' = step
            \/ step < Len(Script(cmd)) /\ pc' = "run" /\ step' = step + 1
<1> DEFINE n == Len(Script(cmd))
<1>1. n \in Nat
  <2>1. n = 1 \/ n = 2 \/ n = 3 \/ n = 4
    BY OpTable DEF CmdIs, Commands
  <2> QED
    BY <2>1
<1>2. CASE step = n
  BY <1>1, <1>2 DEF Done, Op
<1>3. CASE step # n
  BY <1>1, <1>3 DEF Done, Op
<1> QED
  BY <1>2, <1>3

\* What a step does to the place in the command.
Proceeds ==
  \/ UNCHANGED <<step, claims>> /\ pc' \in Places \ {"upload", "connect"}
  \/ Done

LEMMA ListensProceeds ==
  ASSUME TypeInv, Listens
  PROVE  /\ Proceeds /\ pc \notin {"closed", "upload", "connect"} /\ late' \in Nat /\ late' >= late
         /\ (UNCHANGED late \/ pc' \notin {"run", "go"} \/ pc = "baud_verify" \/ (Op = "reboot" /\ Done))
<1> USE DEF Proceeds, Places, hostRest, Failed
<1>0. late \in Nat /\ pc \in Places
  BY DEF TypeInv
<1>1. CASE DumpSkip
  BY <1>0, <1>1 DEF DumpSkip
<1>2. CASE SkipReady
  BY <1>0, <1>2 DEF SkipReady, Waiting
<1>3. CASE Drain
  BY <1>0, <1>3 DEF Drain
<1>4. CASE Timeout
  <2>1. late' \in Nat /\ late' >= late
    BY <1>0, <1>4, ExpiredEffect DEF Timeout
  <2>2. pc \notin {"closed", "upload", "connect"}
    BY <1>4 DEF Timeout, Waiting
  <2>3. Proceeds /\ (pc' \notin {"run", "go"} \/ pc = "baud_verify" \/ (Op = "reboot" /\ Done))
    BY <1>0, <1>4 DEF Timeout, CompatResult
  <2> QED
    BY <2>1, <2>2, <2>3
<1>5. CASE rcvFrame /\ VerifyBaud(Head(down))
  BY <1>0, <1>5 DEF rcvFrame, VerifyBaud
<1>6. CASE rcvFrame /\ Answered(Head(down))
  <2>1. Done \/ Failed
    BY <1>6 DEF Answered
  <2> QED
    BY <1>0, <1>6, <2>1 DEF rcvFrame, Answered
<1>7. CASE rcvFrame /\ ReadStream(Head(down))
  BY <1>0, <1>7 DEF rcvFrame, ReadStream
<1>8. CASE rcvFrame /\ WindowAck(Head(down))
  BY <1>0, <1>8 DEF rcvFrame, WindowAck
<1>9. CASE rcvFrame /\ BlockCrc(Head(down))
  BY <1>0, <1>9 DEF rcvFrame, BlockCrc
<1>10. CASE rcvFrame /\ EraseAck(Head(down))
  BY <1>0, <1>10 DEF rcvFrame, EraseAck, Waiting
<1>11. CASE rcvFrame /\ ScanAnswer(Head(down))
  BY <1>0, <1>11 DEF rcvFrame, ScanAnswer, Waiting
<1>12. CASE rcvFrame /\ CompatAnswer(Head(down))
  BY <1>0, <1>12 DEF rcvFrame, CompatAnswer, CompatResult
<1> QED
  BY <1>1, <1>2, <1>3, <1>4, <1>5, <1>6, <1>7, <1>8, <1>9, <1>10, <1>11, <1>12 DEF Listens

LEMMA WaitsPlace == Waits \in {"stream", "window", "erase_ack", "scan_head", "block_ack", "answer"}
BY DEF Waits

\* The steps of a command: the agent leaves the host alone, and the host goes on.
LEMMA WorkEffect ==
  ASSUME TypeInv, Works
  PROVE  /\ UNCHANGED <<cmd, transport, old, sessions>> /\ late' \in Nat /\ late' >= late
         /\ \/ UNCHANGED hostVars /\ UNCHANGED <<stash, late>>
            \/ Proceeds /\ pc \notin {"closed", "upload", "connect"}
<1>0. late \in Nat /\ pc \in Places
  BY DEF TypeInv
<1> USE DEF Proceeds, Places
<1>1. CASE UNCHANGED vars
  BY <1>0, <1>1 DEF vars, hostVars, agentVars
<1>2. CASE WriteFlash
  BY <1>0, <1>2 DEF WriteFlash, Failed
<1>3. CASE Listens /\ UNCHANGED silentSide
  BY <1>3, ListensProceeds DEF silentSide, agentSide, agentVars
<1>4. CASE Switches
  BY <1>0, <1>4 DEF Switches, agentSide, agentVars
<1>5. CASE Turns
  <2>1. UNCHANGED agentSide /\ UNCHANGED <<step, claims, late>> /\ pc = "baud"
    BY <1>5 DEF Turns
  <2>2. pc' = "go" \/ pc' = "baud_verify"
    BY <1>5 DEF Turns
  <2> QED
    BY <1>0, <2>1, <2>2 DEF agentSide, agentVars
<1>6. CASE Issues
  BY <1>0, <1>6, WaitsPlace DEF Issues, agentSide, agentVars
<1>7. CASE Continues
  BY <1>0, <1>7 DEF Continues, agentSide, agentVars
<1>8. CASE Asks
  BY <1>0, <1>8 DEF Asks, agentSide, agentVars
<1>9. CASE Retries
  BY <1>0, <1>9 DEF Retries, agentSide, agentVars
<1>10. CASE Idles \/ Takes \/ Receives \/ Starves
  BY <1>0, <1>10 DEF Idles, Takes, Receives, Starves, hostSide, hostVars
<1> QED
  BY <1>1, <1>2, <1>3, <1>4, <1>5, <1>6, <1>7, <1>8, <1>9, <1>10 DEF Works

LEMMA MineStep ==
  ASSUME TypeInv, PlaceInv, ConnectInv, [Next]_vars
  PROVE  ~ Mine' \/ (Fresh /\ ~ Mine) \/ (Works /\ Mine)
<1>1. CASE Open
  BY <1>1 DEF Open, Mine
<1>2. CASE Upload
  BY <1>2 DEF Upload, UploadStandard, UploadCv6xx, Boots, PlaceInv, Mine
<1>3. CASE Connect /\ UNCHANGED silentSide
  <2>1. claims = {}
    BY <1>3 DEF Connect, PlaceInv
  <2> QED
    BY <1>3, <2>1, ConnectEffect DEF Mine, Fresh
<1>4. CASE Works
  <2>1. CASE UNCHANGED hostVars
    BY <1>4, <2>1 DEF hostVars, Mine
  <2>2. CASE pc \notin {"closed", "upload", "connect"}
    BY <1>4, <2>2 DEF Mine
  <2> QED
    BY <1>4, <2>1, <2>2, WorkEffect
<1> QED
  BY <1>1, <1>2, <1>3, <1>4, StepKinds

---------------------------------------------------------------------------
(* Types.                                                                  *)

LEMMA TakeTypes ==
  ASSUME TypeInv, Takes, Replies
  PROVE  /\ rate' \in Rates /\ alive' \in BOOLEAN /\ task' \in 0..(Blocks + 1)
         /\ buf' \in Seq(Chunk) /\ Len(buf') <= Chunks /\ flash' \in [1..Sectors -> Contents]
<1>1. up[1] \in UpPackets
  <2>1. up \in Seq(UpPackets) /\ up # <<>>
    BY DEF TypeInv, Takes
  <2> QED
    BY <2>1
<1>2. rate' \in Rates
  BY <1>1, UpKinds DEF Takes, TypeInv
<1>3. alive' \in BOOLEAN
  BY DEF Takes
<1>4. task' \in 0..(Blocks + 1)
  <2>1. up[1].kind = "write" => up[1].val \in 1..(Blocks + 1)
    BY <1>1, UpKinds
  <2> QED
    BY <2>1, LinkAssumption DEF Takes
<1>5. buf' \in Seq(Chunk) /\ Len(buf') <= Chunks
  <2>1. buf \in Seq(Chunk) /\ Len(buf) <= Chunks /\ (buf' = buf \/ buf' = <<>>)
    BY DEF Takes, TypeInv
  <2>2. CASE buf' = <<>>
    BY <2>2, LinkAssumption
  <2> QED
    BY <2>1, <2>2
<1>6. flash' \in [1..Sectors -> Contents]
  <2>0. flash \in [1..Sectors -> Contents]
    BY DEF TypeInv
  <2>1. CASE up[1].kind = "erase"
    BY <2>0, <2>1 DEF Replies, Contents
  <2>2. CASE up[1].kind = "mark_bad"
    BY <2>0, <2>2 DEF Replies, Contents
  <2>3. CASE up[1].kind \notin {"erase", "mark_bad"}
    BY <2>0, <2>3 DEF Takes
  <2> QED
    BY <2>1, <2>2, <2>3
<1> QED
  BY <1>2, <1>3, <1>4, <1>5, <1>6

LEMMA ReceiveTypes ==
  ASSUME TypeInv, Receives
  PROVE  /\ rate' \in Rates /\ task' \in 0..(Blocks + 1) /\ buf' \in Seq(Chunk) /\ Len(buf') <= Chunks
         /\ ram' \in [1..Blocks -> {"other", "new"}]
<1>1. up[1] \in UpPackets
  <2>1. up \in Seq(UpPackets) /\ up # <<>>
    BY DEF TypeInv, Receives
  <2> QED
    BY <2>1
<1>2. rate' \in Rates
  BY DEF Receives, TypeInv, Rates
<1>3. task' \in 0..(Blocks + 1)
  <2>1. task \in 0..(Blocks + 1) /\ (task' = task \/ task' = 0)
    BY DEF Receives, TypeInv
  <2> QED
    BY <2>1, LinkAssumption
<1>4. buf' \in Seq(Chunk)
  <2>1. up[1].kind = "data" => up[1].val \in Chunk
    BY <1>1, UpKinds
  <2>2. buf \in Seq(Chunk) /\ buf' = IF up[1].kind = "data" THEN Append(buf, up[1].val) ELSE buf
    BY DEF TypeInv, Receives
  <2> QED
    BY <2>1, <2>2
<1>5. Len(buf') <= Chunks
  BY DEF Receives
<1>6. ram' \in [1..Blocks -> {"other", "new"}]
  <2>1. ram \in [1..Blocks -> {"other", "new"}]
    BY DEF TypeInv
  <2>2. ram' = ram \/ ram' = [ram EXCEPT ![task] = "new"] \/ ram' = [ram EXCEPT ![task] = "other"]
    BY DEF Receives
  <2> QED
    BY <2>1, <2>2
<1> QED
  BY <1>2, <1>3, <1>4, <1>5, <1>6

LEMMA AgentTypes ==
  ASSUME TypeInv, PlaceInv, ConnectInv, [Next]_vars
  PROVE  /\ rate' \in Rates /\ alive' \in BOOLEAN /\ old' \in BOOLEAN /\ task' \in 0..(Blocks + 1)
         /\ buf' \in Seq(Chunk) /\ Len(buf') <= Chunks
         /\ ram' \in [1..Blocks -> {"other", "new"}] /\ flash' \in [1..Sectors -> Contents]
         /\ transport' \in {"port", "rack", "tcp"}
         /\ sessions' \in Nat /\ faults' \in 0..MaxFaults /\ late' \in Nat
<1> DEFINE Kept0 == UNCHANGED agentVars /\ UNCHANGED <<transport, sessions>>
           Goal == /\ rate' \in Rates /\ alive' \in BOOLEAN /\ old' \in BOOLEAN /\ task' \in 0..(Blocks + 1)
                   /\ buf' \in Seq(Chunk) /\ Len(buf') <= Chunks
                   /\ ram' \in [1..Blocks -> {"other", "new"}] /\ flash' \in [1..Sectors -> Contents]
           Rest0 == transport' \in {"port", "rack", "tcp"} /\ sessions' \in Nat
           Bounds == faults' \in 0..MaxFaults /\ late' \in Nat
<1>1. UNCHANGED agentVars => Goal
  BY DEF TypeInv, agentVars
<1>2. UNCHANGED <<transport, sessions>> => Rest0
  BY DEF TypeInv
<1>3. faults \in 0..MaxFaults /\ late \in Nat
  BY DEF TypeInv
<1>4. CASE Open
  <2>1. sessions' \in Nat
    <3>1. sessions \in Nat /\ sessions' = sessions + 1
      BY <1>4 DEF Open, TypeInv
    <3> QED
      BY <3>1
  <2> QED
    BY <1>1, <1>3, <1>4, <2>1 DEF Open, TypeInv
<1>5. CASE Upload
  <2>0. Rest0 /\ Bounds
    BY <1>2, <1>3, <1>5 DEF Upload
  <2>1. UNCHANGED <<old, ram, flash>>
    BY <1>5 DEF Upload
  <2>2. \/ UNCHANGED <<alive, rate, task, buf>>
        \/ alive' \in BOOLEAN /\ rate' = "slow" /\ task' = 0 /\ buf' = <<>>
    BY <1>5 DEF Upload, UploadStandard, UploadCv6xx, Boots
  <2>3. CASE UNCHANGED <<alive, rate, task, buf>>
    BY <1>1, <2>0, <2>1, <2>3 DEF agentVars
  <2>4. CASE alive' \in BOOLEAN /\ rate' = "slow" /\ task' = 0 /\ buf' = <<>>
    <3>1. buf' \in Seq(Chunk) /\ Len(buf') <= Chunks /\ 0 \in 0..(Blocks + 1)
      BY <2>4, LinkAssumption
    <3> QED
      BY <2>0, <2>1, <2>4, <3>1 DEF TypeInv, Rates
  <2> QED
    BY <2>2, <2>3, <2>4
<1>6. CASE Connect /\ UNCHANGED silentSide
  <2>1. late' \in Nat
    BY <1>3, <1>6, ConnectEffect DEF Fresh
  <2> QED
    BY <1>1, <1>2, <1>3, <1>6, <2>1 DEF silentSide, agentSide
<1>7. CASE Works
  <2>1. late' \in Nat /\ UNCHANGED <<transport, sessions, old>>
    BY <1>7, WorkEffect
  <2>2. CASE \/ Listens /\ UNCHANGED silentSide
             \/ Switches \/ Turns \/ Issues \/ Continues \/ Asks \/ Retries
    <3>1. UNCHANGED agentSide /\ faults' \in 0..MaxFaults
      BY <1>3, <2>2 DEF silentSide, Switches, Turns, Issues, Continues, Asks, Retries
    <3> QED
      BY <1>1, <1>2, <2>1, <3>1 DEF agentSide
  <2>3. CASE UNCHANGED vars
    BY <1>1, <1>2, <1>3, <2>3 DEF vars, hostVars
  <2>4. CASE WriteFlash
    <3>1. flash' \in [1..Sectors -> Contents]
      <4>1. Imaged \in [1..Sectors -> Contents] /\ [Imaged EXCEPT ![Sectors] = "short"] \in [1..Sectors -> Contents]
        BY DEF Imaged, Contents
      <4>2. [1..Sectors -> {"data", "empty", "image"}] \subseteq [1..Sectors -> Contents]
        BY DEF Contents
      <4> QED
        BY <2>4, <4>1, <4>2 DEF WriteFlash, TypeInv
    <3> QED
      BY <2>1, <1>2, <1>3, <2>4, <3>1 DEF WriteFlash, TypeInv
  <2>5. CASE Idles
    <3>1. rate' \in Rates
      BY <2>5 DEF Idles, TypeInv, Rates
    <3> QED
      BY <1>2, <1>3, <2>1, <2>5, <3>1 DEF Idles, TypeInv
  <2>6. CASE Takes /\ Replies
    <3>1. faults' \in 0..MaxFaults /\ ram' = ram
      BY <2>6 DEF Takes
    <3> QED
      BY <1>2, <2>1, <2>6, <3>1, TakeTypes DEF TypeInv
  <2>7. CASE Receives
    <3>1. faults' \in 0..MaxFaults /\ UNCHANGED <<alive, flash>>
      BY <2>7 DEF Receives
    <3> QED
      BY <1>2, <2>1, <2>7, <3>1, ReceiveTypes DEF TypeInv
  <2>8. CASE Starves
    <3>1. ram' \in [1..Blocks -> {"other", "new"}]
      BY <2>8 DEF Starves, TypeInv
    <3>2. task' \in 0..(Blocks + 1)
      BY <2>8, LinkAssumption DEF Starves
    <3> QED
      BY <1>2, <2>1, <2>8, <3>1, <3>2 DEF Starves, TypeInv
  <2> QED
    BY <1>7, <2>2, <2>3, <2>4, <2>5, <2>6, <2>7, <2>8 DEF Works
<1> QED
  BY <1>4, <1>5, <1>6, <1>7, StepKinds

\* The one packet of every request but write_memory's.
Asked ==
  IF Op \in {"info", "membw", "erase", "scan", "reboot", "mark_bad"} THEN Packet(Op, "")
  ELSE IF Op = "read" THEN Packet("read", <<1, Sectors>>)
  ELSE IF Op = "dump" THEN Packet("read", <<off + 1, off + 1>>)
  ELSE IF Op = "verify" THEN Packet("crc", IF cmd = "write" THEN "ram" ELSE "flash")
  ELSE Packet("write", Blocks + 1)

LEMMA AskedFacts ==
  ASSUME TypeInv, FoundInv, DumpInv, pc = "go", Op # "write_flash", Op # "write"
  PROVE  Request = <<Asked>> /\ Asked \in UpPackets /\ Asked.kind \in Sends(cmd)
<1>1. OpIs
  BY OpTable DEF TypeInv
<1>2. \A k, v : Packet(k, v).kind = k
  BY DEF Packet
<1>3. CASE Op \in {"info", "membw", "erase", "scan", "reboot", "mark_bad"}
  <2>1. Request = <<Asked>> /\ Asked = Packet(Op, "")
    BY <1>3 DEF Request, Asked
  <2>2. Asked \in UpPackets
    BY <1>3, <2>1, UpTypes
  <2>3. Op \in Sends(cmd)
    BY <1>1, <1>3 DEF OpIs, Sends, Flashes
  <2> QED
    BY <1>2, <2>1, <2>2, <2>3
<1>4. CASE Op = "read"
  <2>1. Request = <<Asked>> /\ Asked = Packet("read", <<1, Sectors>>)
    BY <1>4 DEF Request, Asked
  <2>2. 1 \in 1..Sectors /\ Sectors \in 1..Sectors /\ 1 <= Sectors
    BY LinkAssumption
  <2>3. Asked \in UpPackets
    BY <2>1, <2>2, UpTypes
  <2>4. "read" \in Sends(cmd)
    BY <1>1, <1>4 DEF OpIs, Sends
  <2> QED
    BY <1>2, <2>1, <2>3, <2>4
<1>5. CASE Op = "dump"
  <2>1. Request = <<Asked>> /\ Asked = Packet("read", <<off + 1, off + 1>>)
    BY <1>5 DEF Request, Asked
  <2>2. off + 1 \in 1..Sectors /\ off + 1 <= off + 1
    <3>1. cmd = "scan" /\ Mine
      BY <1>1, <1>5 DEF OpIs, Mine
    <3>2. off < Len(found) /\ Len(found) <= Sectors /\ off \in Nat /\ found \in Seq(Contents \cup {"header", "read_error"})
      BY <1>5, <3>1 DEF DumpInv, FoundInv, TypeInv
    <3>3. Len(found) \in Nat
      BY <3>2
    <3> QED
      BY <3>2, <3>3, LinkAssumption
  <2>3. Asked \in UpPackets
    BY <2>1, <2>2, UpTypes
  <2>4. "read" \in Sends(cmd)
    BY <1>1, <1>5 DEF OpIs, Sends
  <2> QED
    BY <1>2, <2>1, <2>3, <2>4
<1>6. CASE Op = "verify"
  <2>1. Request = <<Asked>> /\ (Asked = Packet("crc", "ram") \/ Asked = Packet("crc", "flash"))
    BY <1>6 DEF Request, Asked
  <2>2. Asked \in UpPackets
    BY <2>1, UpTypes
  <2>3. "crc" \in Sends(cmd)
    BY <1>1, <1>6 DEF OpIs, Sends, Flashes
  <2> QED
    BY <1>2, <2>1, <2>2, <2>3
<1>7. CASE Op = "selfupdate"
  <2>1. Request = <<Asked>> /\ Asked = Packet("write", Blocks + 1)
    BY <1>7 DEF Request, Asked
  <2>2. Blocks + 1 \in 1..(Blocks + 1)
    BY LinkAssumption
  <2>3. Asked \in UpPackets
    BY <2>1, <2>2, UpTypes
  <2>4. "write" \in Sends(cmd)
    BY <1>1, <1>7 DEF OpIs, Sends, Flashes
  <2> QED
    BY <1>2, <2>1, <2>3, <2>4
<1> QED
  BY <1>1, <1>3, <1>4, <1>5, <1>6, <1>7 DEF OpIs, Operations

LEMMA IssueOne ==
  ASSUME TypeInv, FoundInv, DumpInv, Issues, Op # "write"
  PROVE  up' = up \/ (alive /\ rate = hostRate /\ up' = Append(up, Asked))
<1>1. Request = <<Asked>> /\ Asked \in UpPackets
  BY AskedFacts DEF Issues
<1>2. Adds(up, up', <<Asked>>) /\ up \in Seq(UpPackets)
  BY <1>1 DEF Issues, TypeInv
<1>3. up' = up \/ up' = Append(up, Asked)
  BY <1>1, <1>2, AddsOne
<1> QED
  BY <1>3 DEF Issues

LEMMA AddsUp ==
  ASSUME up \in Seq(UpPackets), NEW s \in Seq(UpPackets), Adds(up, up', s)
  PROVE  /\ up' \in Seq(UpPackets) /\ Len(up) <= Len(up')
         /\ \A i \in 1..Len(up) : up'[i] = up[i]
         /\ \A i \in (Len(up) + 1)..Len(up') : \E k \in 1..Len(s) : up'[i] = s[k]
BY AddsFacts

\* What the host sends comes behind what is under way, and is of its command.
Sent ==
  /\ up' \in Seq(UpPackets) /\ Len(up) <= Len(up')
  /\ \A i \in 1..Len(up) : up'[i] = up[i]
  /\ \A i \in (Len(up) + 1)..Len(up') : up'[i].kind \in Sends(cmd)

LEMMA SentBy ==
  ASSUME up \in Seq(UpPackets), NEW s \in Seq(UpPackets), \A i \in 1..Len(s) : s[i].kind \in Sends(cmd),
         Adds(up, up', s)
  PROVE  Sent
<1>1. /\ up' \in Seq(UpPackets) /\ Len(up) <= Len(up')
      /\ \A i \in 1..Len(up) : up'[i] = up[i]
      /\ \A i \in (Len(up) + 1)..Len(up') : \E k \in 1..Len(s) : up'[i] = s[k]
  BY AddsUp
<1> QED
  BY <1>1 DEF Sent

LEMMA SentOne ==
  ASSUME up \in Seq(UpPackets), NEW x \in UpPackets, x.kind \in Sends(cmd), up' = up \/ up' = Append(up, x)
  PROVE  Sent
<1>1. CASE up' = up
  BY <1>1 DEF Sent
<1>2. CASE up' = Append(up, x)
  BY <1>2 DEF Sent
<1> QED
  BY <1>1, <1>2

LEMMA HostSent ==
  ASSUME TypeInv, PlaceInv, FoundInv, OffInv, DumpInv,
         Switches \/ Turns \/ Issues \/ Continues \/ Asks \/ Retries
  PROVE  Sent
<1>0. up \in Seq(UpPackets) /\ OpIs
  BY OpTable DEF TypeInv
<1>1. \A k, v : Packet(k, v).kind = k
  BY DEF Packet
<1>2. up' = up => Sent
  BY <1>0 DEF Sent
<1>3. CASE Switches
  <2>1. CASE Fast
    <3>1. "set_baud" \in Sends(cmd)
      BY <1>0, <2>1 DEF OpIs, Fast, Sends
    <3>2. Packet("set_baud", "fast") \in UpPackets /\ Packet("set_baud", "fast").kind \in Sends(cmd)
      BY <1>1, <3>1, UpTypes DEF Rates
    <3>3. up' = up \/ up' = Append(up, Packet("set_baud", "fast"))
      BY <1>3 DEF Switches
    <3> QED
      BY <1>0, <3>2, <3>3, SentOne
  <2>2. CASE ~ Fast
    BY <1>2, <1>3, <2>2 DEF Switches
  <2> QED
    BY <2>1, <2>2
<1>4. CASE Turns
  <2>1. Fast
    BY <1>4 DEF Turns, PlaceInv
  <2>2. "set_baud" \in Sends(cmd) /\ "info" \in Sends(cmd)
    BY <1>0, <2>1 DEF OpIs, Fast, Sends
  <2>3. /\ Packet("set_baud", "slow") \in UpPackets /\ Packet("set_baud", "slow").kind \in Sends(cmd)
        /\ Packet("info", "") \in UpPackets /\ Packet("info", "").kind \in Sends(cmd)
    BY <1>1, <2>2, UpTypes DEF Rates
  <2>4. up' = up \/ up' = Append(up, Packet("set_baud", "slow")) \/ up' = Append(up, Packet("info", ""))
    BY <1>4 DEF Turns
  <2> QED
    BY <1>0, <2>3, <2>4, SentOne
<1>5. CASE Issues /\ Op # "write"
  <2>1. Asked \in UpPackets /\ Asked.kind \in Sends(cmd)
    BY <1>5, AskedFacts DEF Issues
  <2>2. up' = up \/ up' = Append(up, Asked)
    BY <1>5, IssueOne
  <2> QED
    BY <1>0, <2>1, <2>2, SentOne
<1>6. CASE Issues /\ Op = "write"
  <2>1. cmd = "write" /\ step = 1 /\ pc = "go"
    BY <1>0, <1>6 DEF Issues, OpIs
  <2>2. off \in Nat /\ off < Blocks
    BY <2>1 DEF OffInv, TypeInv
  <2>3. WindowPackets \in Seq(UpPackets) /\ \A i \in 1..Len(WindowPackets) : WindowPackets[i].kind \in {"write", "data"}
    BY <2>2, WindowPacketsFacts
  <2>4. {"write", "data"} \subseteq Sends(cmd)
    BY <2>1 DEF Sends
  <2>5. Request = WindowPackets
    BY <1>6 DEF Request
  <2>6. Adds(up, up', WindowPackets)
    BY <1>6, <2>5 DEF Issues
  <2> QED
    BY <1>0, <2>3, <2>4, <2>6, SentBy
<1>7. CASE Continues
  <2> DEFINE b == IF Op = "selfupdate" THEN Blocks + 1 ELSE off + 1
             s == Tail(BlockPackets(b))
  <2>1. Op = "write" \/ Op = "selfupdate"
    BY <1>7 DEF Continues, PlaceInv
  <2>2. b \in 1..(Blocks + 1)
    <3>1. CASE Op = "selfupdate"
      BY <3>1, LinkAssumption
    <3>2. CASE Op = "write"
      <4>1. cmd = "write" /\ step = 1 /\ pc = "block_ack"
        BY <1>0, <1>7, <3>2 DEF Continues, OpIs
      <4>2. off \in Nat /\ off < Blocks
        BY <4>1 DEF OffInv, TypeInv
      <4> QED
        BY <3>2, <4>2, LinkAssumption
    <3> QED
      BY <2>1, <3>1, <3>2
  <2>3. s \in Seq(UpPackets) /\ \A i \in 1..Len(s) : s[i].kind = "data"
    <3> DEFINE q == BlockPackets(b)
    <3>1. q \in Seq(UpPackets) /\ Len(q) = Chunks + 1 /\ \A j \in 1..Chunks : q[j + 1] = Packet("data", <<b, j>>)
      BY <2>2, BlockPacketsFacts
    <3> HIDE DEF q
    <3>2. ASSUME NEW j \in 1..Chunks PROVE q[j + 1].kind = "data"
      <4>1. Packet("data", <<b, j>>).kind = "data"
        BY DEF Packet
      <4> QED
        BY <3>1, <4>1
    <3>3. q # <<>>
      BY <3>1, LinkAssumption
    <3>4. s \in Seq(UpPackets) /\ Len(s) = Chunks /\ \A i \in 1..Chunks : s[i] = q[i + 1]
      BY <3>1, <3>3, TailFacts, LinkAssumption DEF q
    <3> QED
      BY <3>2, <3>4
  <2>4. "data" \in Sends(cmd)
    BY <1>0, <2>1 DEF OpIs, Sends, Flashes
  <2>5. up' = up \/ Adds(up, up', s)
    BY <1>7 DEF Continues
  <2> HIDE DEF s
  <2> QED
    BY <1>0, <1>2, <2>3, <2>4, <2>5, SentBy
<1>8. CASE Asks
  <2>1. CASE off = Sectors \/ up' = up
    BY <1>2, <1>8, <2>1 DEF Asks
  <2>2. CASE off # Sectors /\ up' # up
    <3>1. off + 1 \in 1..Sectors
      <4>1. off \in Nat /\ off <= Sectors
        BY <1>8 DEF Asks, FoundInv, TypeInv
      <4> QED
        BY <2>2, <4>1, LinkAssumption
    <3> DEFINE x == Packet("crc_sector", off + 1)
    <3>2. x \in UpPackets /\ x.kind = "crc_sector"
      BY <1>1, <3>1, UpTypes
    <3>3. cmd = "scan"
      BY <1>0, <1>8 DEF Asks, PlaceInv, OpIs
    <3>4. x.kind \in Sends(cmd)
      BY <3>2, <3>3 DEF Sends
    <3>5. Adds(up, up', <<x>>)
      BY <1>8, <2>2 DEF Asks
    <3> HIDE DEF x
    <3> QED
      BY <1>0, <3>2, <3>4, <3>5, AddsOne, SentOne
  <2> QED
    BY <2>1, <2>2
<1>9. CASE Retries
  <2>1. cmd = "write" /\ step = 1 /\ pc = "retry"
    BY <1>0, <1>9 DEF Retries, PlaceInv, OpIs
  <2>2. off + 1 \in 1..(Blocks + 1)
    <3>1. off \in Nat /\ off < Blocks
      BY <2>1 DEF OffInv, TypeInv
    <3> QED
      BY <3>1, LinkAssumption
  <2> DEFINE x == Packet("write", off + 1)
  <2>3. x \in UpPackets /\ x.kind = "write"
    BY <1>1, <2>2, UpTypes
  <2>4. x.kind \in Sends(cmd)
    BY <2>1, <2>3 DEF Sends
  <2>5. Adds(up, up', <<x>>)
    BY <1>9 DEF Retries
  <2> HIDE DEF x
  <2> QED
    BY <1>0, <2>3, <2>4, <2>5, AddsOne, SentOne
<1> QED
  BY <1>3, <1>4, <1>5, <1>6, <1>7, <1>8, <1>9

LEMMA LineTypes ==
  ASSUME TypeInv, PlaceInv, ConnectInv, FoundInv, OffInv, DumpInv, [Next]_vars
  PROVE  up' \in Seq(UpPackets) /\ down' \in Seq(DownPackets) /\ stash' \in 0..Len(down')
<1>0. up \in Seq(UpPackets) /\ down \in Seq(DownPackets) /\ stash \in 0..Len(down)
  BY DEF TypeInv
<1>1. Ready \in DownPackets
  BY DownTypes
<1>2. CASE Open
  BY <1>0, <1>2 DEF Open
<1>3. CASE Upload
  <2>1. UNCHANGED <<up, down, stash>> \/ (up' = <<>> /\ stash' = 0 /\ (down' = <<>> \/ down' = <<Ready>>))
    BY <1>3 DEF Upload, UploadStandard, UploadCv6xx, Boots
  <2>2. CASE UNCHANGED <<up, down, stash>>
    BY <1>0, <2>2
  <2>3. CASE up' = <<>> /\ stash' = 0 /\ down' = <<>>
    BY <2>3
  <2>4. CASE up' = <<>> /\ stash' = 0 /\ down' = <<Ready>>
    BY <1>1, <2>4
  <2> QED
    BY <2>1, <2>2, <2>3, <2>4
<1>4. CASE Shrinks /\ UNCHANGED silentSide
  BY <1>0, <1>4 DEF Shrinks, silentSide
<1>5. CASE Works
  <2>1. CASE UNCHANGED vars \/ WriteFlash
    BY <1>0, <2>1 DEF vars, WriteFlash
  <2>2. CASE Switches \/ Turns \/ (Issues /\ Shrinks) \/ Continues \/ Asks \/ Retries
    <3>1. Shrinks
      BY <2>2 DEF Switches, Turns, Continues, Asks, Retries
    <3>2. Sent
      BY <2>2, HostSent
    <3> QED
      BY <3>1, <3>2 DEF Shrinks, Sent
  <2>3. CASE Idles
    <3>1. UNCHANGED <<up, stash>>
      BY <2>3 DEF Idles, hostSide
    <3>2. down' = down \/ (down = <<>> /\ down' = <<Ready>>)
      BY <2>3 DEF Idles
    <3>3. CASE down' = down
      BY <1>0, <3>1, <3>3
    <3>4. CASE down = <<>> /\ down' = <<Ready>>
      <4>1. stash' = 0
        BY <1>0, <3>1, <3>4
      <4>2. Len(down') = 1 /\ down' \in Seq(DownPackets)
        BY <1>1, <3>4
      <4> QED
        BY <1>0, <3>1, <4>1, <4>2
    <3> QED
      BY <3>2, <3>3, <3>4
  <2>4. CASE (Takes /\ Grows) \/ (Receives /\ Grows) \/ (Starves /\ Grows)
    <3>1. stash' = stash /\ (up' = up \/ (up # <<>> /\ up' = Tail(up))) /\ Grows
      BY <2>4 DEF Takes, Receives, Starves, hostSide
    <3>2. up' \in Seq(UpPackets)
      BY <1>0, <3>1
    <3>3. down' \in Seq(DownPackets) /\ Len(down) <= Len(down')
      BY <3>1 DEF Grows
    <3>4. Len(down) \in Nat /\ Len(down') \in Nat
      BY <1>0, <3>3
    <3> QED
      BY <1>0, <3>1, <3>2, <3>3, <3>4
  <2> QED
    BY <1>4, <1>5, <2>1, <2>2, <2>3, <2>4 DEF Works
<1> QED
  BY <1>2, <1>3, <1>4, <1>5, StepKinds

\* What a packet carries.
LEMMA DownVals ==
  ASSUME NEW p \in DownPackets
  PROVE  /\ p.kind = "data" => p.val.seq \in 0..Sectors /\ p.val.val \in Contents \cup {""}
         /\ p.kind = "scan" => p.val \in Contents \cup {"header"}
         /\ p.kind \in {"ack", "ready", "info", "membw", "crc", "scan", "data"}
<1>1. CASE p \in [kind : {"data"}, val : [seq : 0..Sectors, val : Contents \cup {""}]]
  <2>1. p.kind = "data" /\ p.val \in [seq : 0..Sectors, val : Contents \cup {""}]
    BY <1>1
  <2> QED
    BY <2>1
<1>2. CASE p \in [kind : {"scan"}, val : Contents \cup {"header"}]
  BY <1>2
<1>3. CASE p.kind \in {"ack", "ready", "info", "membw", "crc"}
  BY <1>3
<1> QED
  BY <1>1, <1>2, <1>3 DEF DownPackets

\* The counters are numbers, and what has been read is contents.
HostVarTypes ==
  /\ hostRate' \in Rates /\ off' \in Nat /\ acks' \in Nat
  /\ got' \in Seq(Contents \cup {"", "ff"}) /\ found' \in Seq(Contents \cup {"header", "read_error"})

LEMMA ListensTypes ==
  ASSUME TypeInv, Listens
  PROVE  HostVarTypes
<1> DEFINE G == Contents \cup {"", "ff"}
           F == Contents \cup {"header", "read_error"}
<1>0. hostRate \in Rates /\ off \in Nat /\ acks \in Nat /\ got \in Seq(G) /\ found \in Seq(F)
  BY DEF TypeInv
<1>1. off + 1 \in Nat /\ acks + 1 \in Nat /\ WindowEnd \in Nat /\ 0 \in Nat /\ 1 \in Nat
  <2>1. off \in Nat /\ acks \in Nat
    BY <1>0
  <2> QED
    BY <2>1, LinkAssumption DEF WindowEnd, Least
<1>2. "slow" \in Rates /\ "ff" \in G /\ "data" \in F /\ "empty" \in F /\ "read_error" \in F /\ <<>> \in Seq(F)
  BY DEF Rates, Contents
<1>3. down # <<>> => down[1] \in DownPackets /\ Head(down) = down[1]
  BY TailFacts DEF TypeInv
<1> DEFINE p == Head(down)
<1>4. down # <<>> => (p.kind = "data" => p.val.val \in G) /\ (p.kind = "scan" => p.val \in F)
  <2> SUFFICES ASSUME down # <<>> PROVE (p.kind = "data" => p.val.val \in G) /\ (p.kind = "scan" => p.val \in F)
    OBVIOUS
  <2>1. p \in DownPackets
    BY <1>3
  <2>2. (p.kind = "data" => p.val.val \in Contents \cup {""}) /\ (p.kind = "scan" => p.val \in Contents \cup {"header"})
    BY <2>1, DownVals
  <2> QED
    BY <2>2
<1> HIDE DEF G, F
<1>5. \A x \in G : Append(got, x) \in Seq(G)
  <2>1. got \in Seq(G)
    BY <1>0
  <2> QED
    BY <2>1
<1>6. \A x \in F : Append(found, x) \in Seq(F)
  <2>1. found \in Seq(F)
    BY <1>0
  <2> QED
    BY <2>1
<1> USE DEF HostVarTypes, G, F
<1>7. CASE DumpSkip
  BY <1>0, <1>1, <1>2, <1>5, <1>7 DEF DumpSkip
<1>8. CASE SkipReady
  BY <1>0, <1>8 DEF SkipReady
<1>9. CASE Drain
  BY <1>0, <1>1, <1>9 DEF Drain
<1>10. CASE Timeout
  BY <1>0, <1>1, <1>2, <1>6, <1>10 DEF Timeout, CompatResult, keepRate
<1>11. CASE rcvFrame /\ VerifyBaud(p)
  BY <1>0, <1>2, <1>11 DEF VerifyBaud
<1>12. CASE rcvFrame /\ Answered(p)
  BY <1>0, <1>12 DEF Answered, keepRate
<1>13. CASE rcvFrame /\ ReadStream(p)
  BY <1>0, <1>1, <1>4, <1>5, <1>13 DEF rcvFrame, ReadStream, keepRate
<1>14. CASE rcvFrame /\ WindowAck(p)
  BY <1>0, <1>1, <1>14 DEF WindowAck, keepRate
<1>15. CASE rcvFrame /\ BlockCrc(p)
  BY <1>0, <1>1, <1>15 DEF BlockCrc, keepRate
<1>16. CASE rcvFrame /\ EraseAck(p)
  BY <1>0, <1>1, <1>16 DEF EraseAck, keepRate
<1>17. CASE rcvFrame /\ ScanAnswer(p)
  BY <1>0, <1>1, <1>2, <1>4, <1>6, <1>17 DEF rcvFrame, ScanAnswer, keepRate
<1>18. CASE rcvFrame /\ CompatAnswer(p)
  BY <1>0, <1>1, <1>2, <1>6, <1>18 DEF CompatAnswer, CompatResult, keepRate
<1> QED
  BY <1>7, <1>8, <1>9, <1>10, <1>11, <1>12, <1>13, <1>14, <1>15, <1>16, <1>17, <1>18 DEF Listens

LEMMA HostTypes ==
  ASSUME TypeInv, PlaceInv, ConnectInv, [Next]_vars
  PROVE  /\ HostVarTypes /\ cmd' \in Commands /\ step' \in 1..Len(Script(cmd')) /\ pc' \in Places
         /\ claims' \subseteq Operations
<1> DEFINE G == Contents \cup {"", "ff"}
           F == Contents \cup {"header", "read_error"}
<1>0. /\ hostRate \in Rates /\ off \in Nat /\ acks \in Nat /\ got \in Seq(G) /\ found \in Seq(F)
      /\ cmd \in Commands /\ step \in 1..Len(Script(cmd)) /\ pc \in Places /\ claims \subseteq Operations
  BY DEF TypeInv
<1>1. UNCHANGED <<hostRate, off, acks, got, found>> => HostVarTypes
  BY <1>0 DEF HostVarTypes
<1>2. ASSUME NEW c \in Commands PROVE 1 \in 1..Len(Script(c))
  <2>1. Len(Script(c)) = 1 \/ Len(Script(c)) = 2 \/ Len(Script(c)) = 3 \/ Len(Script(c)) = 4
    BY ScriptTable DEF Commands
  <2> QED
    BY <2>1
<1>3. CASE Open
  <2>1. cmd' \in Commands /\ step' = 1 /\ claims' = {} /\ pc' \in Places
    BY <1>3 DEF Open, Places
  <2>2. HostVarTypes
    <3>1. <<>> \in Seq(G) /\ <<>> \in Seq(F) /\ 0 \in Nat
      OBVIOUS
    <3> QED
      BY <1>0, <1>3, <3>1 DEF Open, HostVarTypes, Rates
  <2> QED
    BY <1>2, <2>1, <2>2
<1>4. CASE Upload
  <2>1. UNCHANGED <<hostRate, off, acks, got, found, cmd, step, claims>> /\ pc' \in Places
    BY <1>4 DEF Upload, UploadStandard, UploadCv6xx, Boots, Places
  <2> QED
    BY <1>0, <1>1, <2>1
<1>5. CASE Connect /\ UNCHANGED silentSide
  <2>1. UNCHANGED <<hostRate, off, acks, got, found, cmd, step, claims>> /\ pc' \in Places
    BY <1>5, ConnectEffect DEF Fresh, Places, Connect
  <2> QED
    BY <1>0, <1>1, <2>1
<1>6. CASE Works
  <2>1. cmd' = cmd
    BY <1>6, WorkEffect
  <2>2. /\ step' \in 1..Len(Script(cmd)) /\ pc' \in Places /\ claims' \subseteq Operations
    <3>1. CASE UNCHANGED hostVars
      BY <1>0, <3>1 DEF hostVars
    <3>2. CASE UNCHANGED <<step, claims>> /\ pc' \in Places
      BY <1>0, <3>2
    <3>3. CASE Done
      <4> DEFINE n == Len(Script(cmd))
      <4>1. \/ step = n /\ pc' = "closed" /\ step' = step
            \/ step < n /\ pc' = "run" /\ step' = step + 1
        BY <1>0, <3>3, DoneEffect
      <4>2. claims' = claims \cup {Op} /\ Op \in Operations
        BY <1>0, <3>3, DoneEffect, OpTable DEF OpIs
      <4>3. n \in Nat
        <5>1. n = 1 \/ n = 2 \/ n = 3 \/ n = 4
          BY <1>0, OpTable DEF CmdIs, Commands
        <5> QED
          BY <5>1
      <4>4. step' \in 1..n
        <5>1. step \in 1..n
          BY <1>0
        <5> HIDE DEF n
        <5> QED
          BY <4>1, <4>3, <5>1
      <4> QED
        BY <1>0, <4>1, <4>2, <4>4 DEF Places
    <3> QED
      BY <1>6, <3>1, <3>2, <3>3, WorkEffect DEF Proceeds
  <2>3. HostVarTypes
    <3>1. CASE UNCHANGED vars \/ Idles \/ Takes \/ Receives \/ Starves
      BY <1>1, <3>1 DEF vars, Idles, Takes, Receives, Starves, hostSide, hostVars
    <3>2. CASE WriteFlash \/ Continues \/ Retries
      BY <1>1, <3>2 DEF WriteFlash, Continues, Retries
    <3>3. CASE Listens
      BY <3>3, ListensTypes
    <3>4. CASE Switches
      BY <1>0, <3>4 DEF Switches, HostVarTypes
    <3>5. CASE Turns
      BY <1>0, <3>5 DEF Turns, HostVarTypes, Rates
    <3>6. CASE Issues
      <4>1. <<>> \in Seq(G) /\ 0 \in Nat
        OBVIOUS
      <4> QED
        BY <1>0, <3>6, <4>1 DEF Issues, HostVarTypes
    <3>7. CASE Asks
      <4>1. UNCHANGED <<hostRate, got, acks, found>> /\ (off' = 0 \/ off' = off)
        BY <3>7 DEF Asks
      <4> QED
        <5>0. off \in Nat
          BY <1>0
        <5>1. off' \in Nat
          BY <4>1, <5>0
        <5> QED
          BY <1>0, <4>1, <5>1 DEF HostVarTypes
    <3> QED
      BY <1>6, <3>1, <3>2, <3>3, <3>4, <3>5, <3>6, <3>7 DEF Works
  <2> QED
    BY <1>0, <2>1, <2>2, <2>3
<1> QED
  BY <1>3, <1>4, <1>5, <1>6, StepKinds

\* Every step keeps the types.
LEMMA TypeStep ==
  ASSUME TypeInv, PlaceInv, ConnectInv, FoundInv, OffInv, DumpInv, [Next]_vars
  PROVE  TypeInv'
BY AgentTypes, LineTypes, HostTypes DEF TypeInv, HostVarTypes

---------------------------------------------------------------------------
(* Places and claims.                                                      *)

\* Where a step that is not the end of an operation leads.
LEMMA ListensPlace ==
  ASSUME TypeInv, PlaceInv, Listens, UNCHANGED <<step, claims, cmd>>
  PROVE  /\ pc' \in {"baud", "baud_verify"} => pc' = pc
         /\ pc' = "answer" => pc' = pc
         /\ pc' = "stream" => pc' = pc
         /\ pc' \in {"window", "drain", "retry", "block_ack", "block_crc"} =>
              \/ pc' = pc \/ (pc = "window" /\ pc' = "drain") \/ (pc = "drain" /\ pc' = "retry")
              \/ (pc = "block_crc" /\ pc' = "retry" /\ Op = "write")
         /\ pc' \in {"erase_ack", "erase", "erase_end"} => Op = "erase"
         /\ pc' \in {"scan_head", "scan", "scan_end", "compat", "compat_crc"} => Op = "scan"
         /\ pc' \notin {"upload", "connect"}
<1> USE DEF hostRest, Failed
<1>0. OpIs /\ cmd \in Commands /\ step \in 1..Len(Script(cmd))
  BY OpTable DEF TypeInv
<1>1. Done => pc' = "closed" \/ pc' = "run"
  BY DEF Done
<1>2. CASE DumpSkip
  BY <1>1, <1>2 DEF DumpSkip
<1>3. CASE SkipReady
  BY <1>3 DEF SkipReady, Waiting, PlaceInv
<1>4. CASE Drain
  BY <1>4 DEF Drain
<1>5. CASE Timeout
  <2>1. pc' = "go" \/ pc' = "closed" \/ pc' = "run" \/ (pc = "window" /\ pc' = "drain") \/ (pc = "compat_crc" /\ pc' = "compat")
    BY <1>1, <1>5 DEF Timeout, CompatResult
  <2> QED
    BY <2>1 DEF PlaceInv
<1>6. CASE rcvFrame /\ VerifyBaud(Head(down))
  BY <1>6 DEF VerifyBaud
<1>7. CASE rcvFrame /\ Answered(Head(down))
  <2>1. Done \/ Failed
    BY <1>7 DEF Answered
  <2> QED
    BY <1>1, <2>1
<1>8. CASE rcvFrame /\ ReadStream(Head(down))
  BY <1>1, <1>8 DEF ReadStream
<1>9. CASE rcvFrame /\ WindowAck(Head(down))
  BY <1>1, <1>9 DEF WindowAck
<1>10. CASE rcvFrame /\ BlockCrc(Head(down))
  <2>1. Op = "write" \/ Op = "selfupdate"
    BY <1>10 DEF BlockCrc, PlaceInv
  <2>2. pc' = "closed" \/ pc' = "run" \/ pc' = "go" \/ (pc' = "retry" /\ Op # "selfupdate" /\ pc = "block_crc")
    BY <1>1, <1>10 DEF BlockCrc
  <2> QED
    BY <2>1, <2>2
<1>11. CASE rcvFrame /\ EraseAck(Head(down))
  <2>1. Op = "erase" /\ pc' \in {"erase_ack", "erase", "erase_end", "closed", "run"}
    BY <1>1, <1>11 DEF EraseAck
  <2> QED
    BY <2>1
<1>12. CASE rcvFrame /\ ScanAnswer(Head(down))
  <2>1. Op = "scan" /\ pc' \in {"scan_head", "scan", "scan_end", "compat", "closed", "run"}
    BY <1>1, <1>12 DEF ScanAnswer
  <2> QED
    BY <2>1
<1>13. CASE rcvFrame /\ CompatAnswer(Head(down))
  <2>1. pc = "compat_crc" /\ pc' = "compat"
    BY <1>13 DEF CompatAnswer, CompatResult
  <2> QED
    BY <2>1 DEF PlaceInv
<1> QED
  BY <1>2, <1>3, <1>4, <1>5, <1>6, <1>7, <1>8, <1>9, <1>10, <1>11, <1>12, <1>13 DEF Listens

\* Every step leads to a place of the operation it leads to.
LEMMA PlaceStep ==
  ASSUME TypeInv, PlaceInv, ConnectInv, [Next]_vars
  PROVE  PlaceInv'
<1>1. CASE Open
  BY <1>1 DEF Open, PlaceInv
<1>2. CASE Upload
  <2>1. pc = "upload" /\ (pc' = "connect" \/ pc' = "closed") /\ UNCHANGED <<step, claims>>
    BY <1>2 DEF Upload, UploadStandard, UploadCv6xx, Boots
  <2> QED
    BY <2>1 DEF PlaceInv
<1>3. CASE Connect /\ UNCHANGED silentSide
  <2>1. pc = "connect" /\ (pc' = "connect" \/ pc' = "closed" \/ pc' = "run") /\ UNCHANGED <<step, claims>>
    BY <1>3, ConnectEffect DEF Fresh
  <2> QED
    BY <2>1 DEF PlaceInv
<1>4. CASE Works
  <2>0. cmd' = cmd
    BY <1>4, WorkEffect
  <2>1. CASE UNCHANGED hostVars
    BY <2>1 DEF hostVars, PlaceInv, Op, Fast
  <2>2. CASE Done
    <3>1. pc' = "closed" \/ pc' = "run"
      BY <2>2 DEF Done
    <3> QED
      BY <3>1 DEF PlaceInv
  <2>3. CASE UNCHANGED <<step, claims>> /\ ~ UNCHANGED hostVars
    <3>1. Op' = Op /\ Fast' = Fast
      BY <2>0, <2>3 DEF Op, Fast
    <3>2. CASE Listens
      <4>1. /\ pc' \in {"baud", "baud_verify"} => pc' = pc
            /\ pc' = "answer" => pc' = pc
            /\ pc' = "stream" => pc' = pc
            /\ pc' \in {"window", "drain", "retry", "block_ack", "block_crc"} =>
                 \/ pc' = pc \/ (pc = "window" /\ pc' = "drain") \/ (pc = "drain" /\ pc' = "retry")
                 \/ (pc = "block_crc" /\ pc' = "retry" /\ Op = "write")
            /\ pc' \in {"erase_ack", "erase", "erase_end"} => Op = "erase"
            /\ pc' \in {"scan_head", "scan", "scan_end", "compat", "compat_crc"} => Op = "scan"
            /\ pc' \notin {"upload", "connect"}
        BY <2>0, <2>3, <3>2, ListensPlace
      <4> QED
        BY <3>1, <4>1 DEF PlaceInv
    <3>3. CASE Switches
      <4>1. (Fast /\ pc' = "baud") \/ pc' = "go"
        BY <3>3 DEF Switches
      <4> QED
        BY <3>1, <4>1 DEF PlaceInv
    <3>4. CASE Turns
      <4>1. pc = "baud" /\ (pc' = "go" \/ pc' = "baud_verify")
        BY <3>4 DEF Turns
      <4> QED
        BY <3>1, <4>1 DEF PlaceInv
    <3>5. CASE Issues
      <4>1. OpIs
        BY OpTable DEF TypeInv
      <4>2. pc' = Waits /\ Op # "write_flash" /\ Op \in Operations
        BY <3>5, <4>1 DEF Issues, OpIs
      <4> QED
        BY <3>1, <4>2 DEF PlaceInv, Waits, Operations
    <3>6. CASE Continues
      <4>1. pc = "block_ack" /\ (pc' = "block_crc" \/ pc' = "closed")
        BY <3>6 DEF Continues
      <4> QED
        BY <3>1, <4>1 DEF PlaceInv
    <3>7. CASE Asks
      <4>1. pc = "compat" /\ (pc' = "compat_crc" \/ pc' = "closed" \/ pc' = "run")
        BY <3>7 DEF Asks, Done
      <4> QED
        BY <3>1, <4>1 DEF PlaceInv
    <3>8. CASE Retries
      <4>1. pc = "retry" /\ pc' = "block_ack"
        BY <3>8 DEF Retries
      <4> QED
        BY <3>1, <4>1 DEF PlaceInv
    <3>9. CASE WriteFlash
      <4>1. pc' = "closed" \/ pc' = "run"
        BY <3>9 DEF WriteFlash, Done, Failed
      <4> QED
        BY <4>1 DEF PlaceInv
    <3> QED
      BY <1>4, <2>3, <3>2, <3>3, <3>4, <3>5, <3>6, <3>7, <3>8, <3>9 DEF Works, vars, Idles, Takes, Receives, Starves, hostSide
  <2> QED
    BY <1>4, <2>1, <2>2, <2>3, WorkEffect DEF Proceeds
<1> QED
  BY <1>1, <1>2, <1>3, <1>4, StepKinds

\* An operation is claimed when it is done, and the next one starts.
LEMMA ClaimStep ==
  ASSUME TypeInv, PlaceInv, ConnectInv, ClaimInv, [Next]_vars
  PROVE  ClaimInv'
<1>0. cmd \in Commands /\ step \in 1..Len(Script(cmd)) /\ step \in Nat
  <2>1. cmd \in Commands /\ step \in 1..Len(Script(cmd))
    BY DEF TypeInv
  <2> QED
    BY <2>1
<1>1. CASE Open
  <2>1. step' = 1 /\ claims' = {}
    BY <1>1 DEF Open
  <2> QED
    BY <2>1 DEF ClaimInv
<1>2. CASE Upload \/ (Connect /\ UNCHANGED silentSide)
  <2>1. step' = 1 /\ claims' = {}
    BY <1>2, ConnectEffect DEF Upload, Fresh, PlaceInv, Connect
  <2> QED
    BY <2>1 DEF ClaimInv
<1>3. CASE Works
  <2>0. cmd' = cmd
    BY <1>3, WorkEffect
  <2>1. CASE UNCHANGED hostVars
    BY <2>1 DEF hostVars, ClaimInv
  <2>2. CASE UNCHANGED <<step, claims>> /\ pc # "closed"
    BY <2>0, <2>2 DEF ClaimInv
  <2>3. CASE Done /\ pc # "closed"
    <3> DEFINE S == Script(cmd)
    <3>1. /\ claims' = claims \cup {Op} /\ Op = S[step]
          /\ (pc' = "closed" /\ step' = step) \/ step' = step + 1
      BY <1>0, <2>3, DoneEffect
    <3>2. Script(cmd') = S
      BY <2>0
    <3>3. /\ \A i \in 1..(step - 1) : S[i] \in claims
          /\ \A x \in claims : \E i \in 1..step : S[i] = x /\ i < step
      BY <2>3 DEF ClaimInv
    <3> HIDE DEF S
    <3>4. \A i \in 1..(step' - 1) : S[i] \in claims'
      <4> SUFFICES ASSUME NEW i \in 1..(step' - 1) PROVE S[i] \in claims'
        OBVIOUS
      <4>1. i \in 1..(step - 1) \/ i = step
        BY <1>0, <3>1
      <4> QED
        BY <3>1, <3>3, <4>1
    <3>5. ASSUME NEW x \in claims' PROVE \E i \in 1..step' : S[i] = x /\ (i < step' \/ pc' = "closed")
      <4>1. CASE x \in claims
        <5>1. PICK i \in 1..step : S[i] = x /\ i < step
          BY <3>3, <4>1
        <5>2. i \in 1..step' /\ i < step'
          BY <1>0, <3>1, <5>1
        <5> QED
          BY <5>1, <5>2
      <4>2. CASE x = S[step]
        <5>1. step \in 1..step' /\ (step < step' \/ pc' = "closed")
          BY <1>0, <3>1
        <5> QED
          BY <4>2, <5>1
      <4> QED
        BY <3>1, <4>1, <4>2
    <3> QED
      BY <3>2, <3>4, <3>5 DEF ClaimInv
  <2> QED
    BY <1>3, <2>1, <2>2, <2>3, WorkEffect DEF Proceeds
<1> QED
  BY <1>1, <1>2, <1>3, StepKinds

---------------------------------------------------------------------------
(* The lines.                                                              *)

\* The agent has taken a packet.
Taken ==
  /\ up # <<>> /\ up' = Tail(up) /\ up[1] \in UpPackets /\ Len(up') = Len(up) - 1 /\ up' \in Seq(UpPackets)
  /\ \A i \in 1..Len(up') : up'[i] = up[i + 1]

LEMMA UpSteps ==
  ASSUME TypeInv, PlaceInv, FoundInv, OffInv, DumpInv, Works
  PROVE  \/ up' = up
         \/ Taken /\ ((Takes /\ Replies /\ Grows) \/ (Receives /\ Grows) \/ (Starves /\ Grows))
         \/ Sent /\ (Switches \/ Turns \/ Issues \/ Continues \/ Asks \/ Retries)
<1>1. CASE UNCHANGED vars \/ WriteFlash \/ UNCHANGED silentSide \/ Idles \/ up' = up
  BY <1>1 DEF vars, WriteFlash, silentSide, Idles
<1>2. CASE up' # up /\ ((Takes /\ Replies /\ Grows) \/ (Receives /\ Grows) \/ (Starves /\ Grows))
  <2>1. up \in Seq(UpPackets) /\ up # <<>> /\ up' = Tail(up)
    BY <1>2 DEF TypeInv, Takes, Receives, Starves
  <2>2. Taken
    BY <2>1, TailFacts DEF Taken
  <2> QED
    BY <1>2, <2>2
<1>3. CASE Switches \/ Turns \/ Issues \/ Continues \/ Asks \/ Retries
  BY <1>3, HostSent
<1> QED
  BY <1>1, <1>2, <1>3 DEF Works

\* The agent starts on a block only when it takes its header.
LEMMA TaskSteps ==
  ASSUME Works
  PROVE  task' = task \/ task' = 0 \/ (Takes /\ up[1].kind = "write" /\ task' = up[1].val)
BY DEF Works, vars, agentVars, WriteFlash, silentSide, agentSide, Switches, Turns, Issues, Continues, Asks, Retries,
       Idles, Takes, Receives, Starves

\* Since READY only this command has sent.
LEMMA MineInvStep ==
  ASSUME TypeInv, PlaceInv, ConnectInv, FoundInv, OffInv, DumpInv, MineInv, [Next]_vars
  PROVE  MineInv'
<1> SUFFICES ASSUME Mine' PROVE (\A i \in DOMAIN up' : up'[i].kind \in Sends(cmd')) /\ (task' # 0 => cmd' \in {"write", "selfupdate"})
  BY DEF MineInv
<1>1. CASE Fresh
  <2>1. up' = <<>> /\ task' = 0
    BY <1>1 DEF Fresh, agentSide, agentVars
  <2> QED
    BY <2>1
<1>2. CASE Works /\ Mine
  <2>0. cmd' = cmd /\ up \in Seq(UpPackets) /\ DOMAIN up = 1..Len(up) /\ Len(up) \in Nat
    <3>1. up \in Seq(UpPackets)
      BY DEF TypeInv
    <3> QED
      BY <1>2, <3>1, WorkEffect
  <2>1. /\ \A i \in 1..Len(up) : up[i].kind \in Sends(cmd)
        /\ task # 0 => cmd \in {"write", "selfupdate"}
    BY <1>2, <2>0 DEF MineInv
  <2>2. task' # 0 => cmd' \in {"write", "selfupdate"}
    <3>1. CASE Takes /\ up[1].kind = "write"
      <4>1. 1 \in 1..Len(up)
        BY <2>0, <3>1 DEF Takes
      <4>2. "write" \in Sends(cmd)
        BY <2>1, <3>1, <4>1
      <4> QED
        BY <2>0, <4>2 DEF Sends
    <3>2. CASE task' = task \/ task' = 0
      BY <2>0, <2>1, <3>2
    <3> QED
      BY <1>2, <3>1, <3>2, TaskSteps
  <2>3. \A i \in DOMAIN up' : up'[i].kind \in Sends(cmd)
    <3>1. CASE up' = up
      BY <2>0, <2>1, <3>1
    <3>2. CASE Taken
      <4>1. Len(up') = Len(up) - 1 /\ DOMAIN up' = 1..Len(up') /\ \A i \in 1..Len(up') : up'[i] = up[i + 1]
        BY <3>2 DEF Taken
      <4> QED
        BY <2>0, <2>1, <4>1
    <3>3. CASE Sent
      <4>0. up' \in Seq(UpPackets)
        BY <3>3 DEF Sent
      <4>1. DOMAIN up' = 1..Len(up') /\ Len(up') \in Nat
        BY <4>0
      <4>2. /\ \A i \in 1..Len(up) : up'[i] = up[i]
            /\ \A i \in (Len(up) + 1)..Len(up') : up'[i].kind \in Sends(cmd)
        BY <3>3 DEF Sent
      <4> QED
        BY <2>0, <2>1, <4>1, <4>2
    <3> QED
      BY <1>2, <3>1, <3>2, <3>3, UpSteps
  <2> QED
    BY <2>0, <2>2, <2>3
<1> QED
  BY <1>1, <1>2, MineStep

\* READY is only sent by an agent that is idle.
LEMMA ConnectStep ==
  ASSUME TypeInv, PlaceInv, ConnectInv, [Next]_vars
  PROVE  ConnectInv'
<1> SUFFICES ASSUME pc' = "connect", NEW i \in DOMAIN down', down'[i] = Ready
             PROVE  alive' /\ task' = 0 /\ up' = <<>> /\ down' = <<Ready>>
  BY DEF ConnectInv
<1>0. down \in Seq(DownPackets) /\ DOMAIN down = 1..Len(down) /\ Len(down) \in Nat
  <2>1. down \in Seq(DownPackets)
    BY DEF TypeInv
  <2> QED
    BY <2>1
<1>1. CASE Open
  BY <1>1 DEF Open
<1>2. CASE Upload
  BY <1>2 DEF Upload, UploadStandard, UploadCv6xx, Boots
<1>3. CASE Connect /\ UNCHANGED silentSide
  <2>1. pc = "connect" /\ Reads /\ down[1] # Ready
    BY <1>3, ConnectEffect DEF Fresh
  <2>2. i + 1 \in DOMAIN down /\ down[i + 1] = Ready
    BY <1>0, <2>1 DEF Reads
  <2> QED
    BY <2>1, <2>2 DEF ConnectInv
<1>4. CASE Works
  <2>1. UNCHANGED hostVars
    <3>1. Done => pc' # "connect"
      BY DEF Done
    <3> QED
      BY <1>4, <3>1, WorkEffect DEF Proceeds
  <2>2. pc = "connect"
    BY <2>1 DEF hostVars
  <2>3. CASE Idles
    <3>1. CASE down' = <<Ready>>
      BY <2>3, <3>1 DEF Idles
    <3>2. CASE down' = down
      BY <2>2, <2>3, <3>2 DEF Idles, ConnectInv
    <3> QED
      BY <2>3, <3>1, <3>2 DEF Idles
  <2>4. CASE Grows /\ (task # 0 \/ up # <<>>)
    <3>1. i \in 1..Len(down)
      <4>1. down' \in Seq(DownPackets) /\ \A j \in (Len(down) + 1)..Len(down') : down'[j] # Ready
        BY <2>4 DEF Grows
      <4>2. i \in 1..Len(down') /\ Len(down') \in Nat
        BY <4>1
      <4> QED
        BY <1>0, <4>1, <4>2
    <3>2. down[i] = Ready
      BY <2>4, <3>1 DEF Grows
    <3> QED
      BY <1>0, <2>2, <2>4, <3>1, <3>2 DEF ConnectInv
  <2>5. CASE UNCHANGED vars
    BY <2>5, <2>2 DEF vars, agentVars, ConnectInv
  <2>7. CASE \/ Listens \/ WriteFlash \/ Switches \/ Turns \/ Issues \/ Continues \/ Asks \/ Retries
    <3>1. pc # "connect"
      BY <2>7, ListensProceeds DEF WriteFlash, Switches, Turns, Issues, Continues, Asks, Retries
    <3> QED
      BY <2>2, <3>1
  <2> QED
    BY <1>4, <2>3, <2>4, <2>5, <2>7 DEF Works, Takes, Receives, Starves
<1> QED
  BY <1>1, <1>2, <1>3, <1>4, StepKinds

\* READY is only sent on an empty line.
LEMMA ReadyFirstStep ==
  ASSUME TypeInv, ReadyFirst, [Next]_vars
  PROVE  ReadyFirst'
<1> SUFFICES ASSUME NEW i \in DOMAIN down', down'[i] = Ready
             PROVE  i = 1
  BY DEF ReadyFirst
<1>0. down \in Seq(DownPackets) /\ DOMAIN down = 1..Len(down) /\ Len(down) \in Nat
  <2>1. down \in Seq(DownPackets)
    BY DEF TypeInv
  <2> QED
    BY <2>1
<1>1. CASE down' = down
  BY <1>1 DEF ReadyFirst
<1>2. CASE down' = <<>> \/ down' = <<Ready>>
  BY <1>2
<1>3. CASE Shrinks
  <2>1. PICK d \in 0..Len(down) : Len(down') = Len(down) - d /\ \A j \in 1..Len(down') : down'[j] = down[j + d]
    BY <1>3 DEF Shrinks
  <2>2. i \in 1..Len(down')
    <3>1. down' \in Seq(DownPackets)
      BY <1>3 DEF Shrinks
    <3> QED
      BY <3>1
  <2>3. i + d \in DOMAIN down /\ down[i + d] = Ready
    BY <1>0, <2>1, <2>2
  <2>4. i + d = 1
    BY <2>3 DEF ReadyFirst
  <2> QED
    BY <1>0, <2>1, <2>2, <2>4
<1>4. CASE Grows
  <2>1. down' \in Seq(DownPackets) /\ \A j \in (Len(down) + 1)..Len(down') : down'[j] # Ready
    BY <1>4 DEF Grows
  <2>2. i \in 1..Len(down') /\ Len(down') \in Nat
    BY <2>1
  <2>3. i \in 1..Len(down)
    BY <1>0, <2>1, <2>2
  <2>4. down[i] = Ready
    BY <1>4, <2>3 DEF Grows
  <2> QED
    BY <1>0, <2>3, <2>4 DEF ReadyFirst
<1> QED
  BY <1>1, <1>2, <1>3, <1>4, StepKinds DEF Open, Upload, UploadStandard, UploadCv6xx, Boots, Works, vars, WriteFlash,
     Switches, Turns, Continues, Asks, Retries, Idles

\* What has been read changes only in the dump and in a stream of DATA.
LEMMA GotSteps ==
  ASSUME Works
  PROVE  \/ got' = got
         \/ Issues /\ Op = "read" /\ got' = <<>>
         \/ DumpSkip /\ Op = "dump"
         \/ rcvFrame /\ ReadStream(Head(down))
<1>1. CASE Listens
  BY <1>1 DEF Listens, DumpSkip, SkipReady, Timeout, Drain, VerifyBaud, Answered, WindowAck, BlockCrc, EraseAck,
              ScanAnswer, CompatAnswer, CompatResult
<1>2. CASE UNCHANGED vars \/ WriteFlash \/ Switches \/ Turns \/ Issues \/ Continues \/ Asks \/ Retries
           \/ Idles \/ Takes \/ Receives \/ Starves
  BY <1>2 DEF vars, hostVars, WriteFlash, Switches, Turns, Issues, Continues, Asks, Retries, Idles, Takes, Receives,
              Starves, hostSide
<1> QED
  BY <1>1, <1>2 DEF Works

\* What has been read belongs to the command.
LEMMA GotStep ==
  ASSUME TypeInv, PlaceInv, ConnectInv, GotInv, [Next]_vars
  PROVE  GotInv'
<1>0. cmd \in Commands /\ step \in 1..Len(Script(cmd)) /\ step \in Nat /\ OpIs
  <2>1. cmd \in Commands /\ step \in 1..Len(Script(cmd))
    BY DEF TypeInv
  <2> QED
    BY <2>1, OpTable
<1>1. CASE Open
  BY <1>1 DEF Open, GotInv
<1>2. CASE Upload \/ (Connect /\ UNCHANGED silentSide)
  <2>1. UNCHANGED <<got, step, cmd>>
    BY <1>2 DEF Upload, Connect
  <2> QED
    BY <2>1 DEF GotInv
<1>3. CASE Works
  <2>0. cmd' = cmd
    BY <1>3, WorkEffect
  <2>1. step' = 1 => step = 1
    <3>1. CASE Done
      BY <1>0, <3>1, DoneEffect
    <3> QED
      BY <1>3, <3>1, WorkEffect DEF Proceeds, hostVars
  <2>2. CASE got' = got \/ got' = <<>>
    BY <2>0, <2>1, <2>2 DEF GotInv
  <2>3. CASE Op = "dump" \/ Op = "read"
    <3>1. step # 1 /\ cmd \in {"read", "scan"}
      BY <1>0, <2>3 DEF OpIs
    <3> QED
      BY <2>0, <2>1, <3>1 DEF GotInv
  <2>4. ReadStream(Head(down)) => Op \in {"read", "dump"}
    BY DEF ReadStream, PlaceInv
  <2> QED
    BY <1>3, <2>2, <2>3, <2>4, GotSteps
<1> QED
  BY <1>1, <1>2, <1>3, StepKinds

\* A step of the host that leads to the next operation's start, or starts one.
LEMMA IdleStep ==
  ASSUME TypeInv, PlaceInv, ConnectInv, ReadyMeansIdle, [Next]_vars
  PROVE  ReadyMeansIdle'
<1> SUFFICES ASSUME pc' = "run", step' = 1
             PROVE  task' = 0 /\ up' = <<>> /\ \A i \in DOMAIN down' : down'[i] = Ready
  BY DEF ReadyMeansIdle
<1>0. cmd \in Commands /\ step \in 1..Len(Script(cmd)) /\ step \in Nat /\ OpIs
  <2>1. cmd \in Commands /\ step \in 1..Len(Script(cmd))
    BY DEF TypeInv
  <2> QED
    BY <2>1, OpTable
<1>1. CASE Open \/ Upload
  BY <1>1 DEF Open, Upload, UploadStandard, UploadCv6xx, Boots
<1>2. CASE Connect /\ UNCHANGED silentSide
  <2>1. Fresh
    BY <1>2, ConnectEffect
  <2> QED
    BY <2>1 DEF Fresh, agentSide, agentVars
<1>3. CASE Works
  <2>1. ~ Done
    BY <1>0, DoneEffect
  <2>2. CASE UNCHANGED hostVars
    <3>1. task = 0 /\ up = <<>> /\ \A i \in DOMAIN down : down[i] = Ready
      BY <2>2 DEF ReadyMeansIdle, hostVars
    <3>2. ~ Takes /\ ~ Receives /\ ~ Starves
      BY <3>1 DEF Takes, Receives, Starves
    <3>3. CASE Idles
      BY <3>1, <3>3 DEF Idles
    <3>4. CASE UNCHANGED vars
      BY <3>1, <3>4 DEF vars, agentVars
    <3>5. CASE pc # "run"
      BY <2>2, <3>5 DEF hostVars
    <3>6. CASE pc = "run" /\ ~ Idles /\ ~ UNCHANGED vars
      <4>1. (Listens \/ WriteFlash \/ Switches \/ Turns \/ Issues \/ Continues \/ Asks \/ Retries)
        BY <1>3, <3>2, <3>6 DEF Works
      <4>2. Switches => pc' # "run"
        BY DEF Switches
      <4>3. Listens => DumpSkip
        BY <3>6 DEF Listens, SkipReady, Timeout, Drain, rcvFrame, Waiting
      <4>4. DumpSkip => step = 3
        BY <1>0 DEF DumpSkip, OpIs
      <4> QED
        BY <2>2, <3>6, <4>1, <4>2, <4>3, <4>4 DEF hostVars, WriteFlash, Turns, Issues, Continues, Asks, Retries
    <3> QED
      BY <3>3, <3>4, <3>5, <3>6
  <2>3. CASE UNCHANGED <<step, claims>> /\ pc \notin {"closed", "upload", "connect"} /\ ~ UNCHANGED hostVars
    <3>1. CASE Listens
      <4>1. Op # "dump"
        BY <1>0, <2>3 DEF OpIs
      <4> QED
        BY <2>1, <3>1, <4>1 DEF Listens, DumpSkip, SkipReady, Timeout, Drain, VerifyBaud, Answered, ReadStream, WindowAck,
           BlockCrc, EraseAck, ScanAnswer, CompatAnswer, CompatResult, Failed, Waiting
    <3>2. CASE WriteFlash \/ Switches \/ Turns \/ Issues \/ Continues \/ Asks \/ Retries
      BY <2>1, <3>2, WaitsPlace DEF WriteFlash, Failed, Switches, Turns, Issues, Continues, Asks, Retries
    <3> QED
      BY <1>3, <2>3, <3>1, <3>2 DEF Works, vars, Idles, Takes, Receives, Starves, hostSide
  <2> QED
    BY <1>3, <2>1, <2>2, <2>3, WorkEffect DEF Proceeds
<1> QED
  BY <1>1, <1>2, <1>3, StepKinds

\* Which steps change the result of the scan.
LEMMA FoundSteps ==
  ASSUME TypeInv, PlaceInv, Works
  PROVE  \/ found' = found /\ pc' \notin {"scan", "scan_end", "compat", "compat_crc"}
         \/ UNCHANGED <<found, pc, off, acks>>
         \/ Asks
         \/ rcvFrame /\ ScanAnswer(Head(down))
         \/ rcvFrame /\ CompatAnswer(Head(down))
         \/ Timeout /\ CompatResult(FALSE, "")
<1>0. Done => pc' = "closed" \/ pc' = "run"
  BY DEF Done
<1>1. CASE Listens
  <2>1. CASE DumpSkip
    BY <1>0, <2>1 DEF DumpSkip
  <2>2. CASE SkipReady
    BY <2>2 DEF SkipReady
  <2>3. CASE Timeout
    BY <1>0, <2>3 DEF Timeout, Failed
  <2>4. CASE Drain
    BY <2>4 DEF Drain
  <2>5. CASE rcvFrame /\ (VerifyBaud(Head(down)) \/ WindowAck(Head(down)) \/ BlockCrc(Head(down)))
    BY <1>0, <2>5 DEF VerifyBaud, WindowAck, BlockCrc, Failed
  <2>6. CASE rcvFrame /\ Answered(Head(down))
    <3>1. Done \/ Failed
      BY <2>6 DEF Answered
    <3> QED
      BY <1>0, <2>6, <3>1 DEF Answered, Failed
  <2>7. CASE rcvFrame /\ ReadStream(Head(down))
    BY <1>0, <2>7 DEF ReadStream, Failed
  <2>8. CASE rcvFrame /\ EraseAck(Head(down))
    BY <1>0, <2>8 DEF EraseAck, Failed
  <2> QED
    BY <1>1, <2>1, <2>2, <2>3, <2>4, <2>5, <2>6, <2>7, <2>8 DEF Listens
<1>2. CASE UNCHANGED vars \/ Idles \/ Takes \/ Receives \/ Starves
  BY <1>2 DEF vars, hostVars, Idles, Takes, Receives, Starves, hostSide
<1>3. CASE WriteFlash \/ Switches \/ Turns \/ Issues \/ Continues \/ Retries
  BY <1>0, <1>3, WaitsPlace DEF WriteFlash, Failed, Switches, Turns, Issues, Continues, Retries
<1> QED
  BY <1>1, <1>2, <1>3 DEF Works

LEMMA CompatFound ==
  ASSUME TypeInv, FoundInv, NEW ok, NEW val, CompatResult(ok, val)
  PROVE  FoundInv'
<1> DEFINE F == Contents \cup {"header", "read_error"}
<1>1. found \in Seq(F) /\ off \in Nat
  BY DEF TypeInv
<1>2. pc' = "compat" /\ Len(found) = off /\ off < Sectors
  BY DEF CompatResult, FoundInv
<1>3. CASE acks' = 1 /\ UNCHANGED <<off, found>>
  BY <1>1, <1>2, <1>3, LinkAssumption DEF FoundInv
<1>4. CASE /\ acks' = 0 /\ off' = off + 1
           /\ \/ found' = Append(found, "empty") \/ found' = Append(found, "read_error") \/ found' = Append(found, "data")
  <2>1. Len(found') = Len(found) + 1
    <3>1. found \in Seq(F)
      BY <1>1
    <3>2. "empty" \in F /\ "read_error" \in F /\ "data" \in F
      BY DEF Contents
    <3> HIDE DEF F
    <3> QED
      BY <1>4, <3>1, <3>2
  <2> QED
    BY <1>1, <1>2, <1>4, <2>1, LinkAssumption DEF FoundInv
<1> QED
  BY <1>3, <1>4 DEF CompatResult

\* The scan's result and its sector advance together.
LEMMA FoundStep ==
  ASSUME TypeInv, PlaceInv, ConnectInv, FoundInv, [Next]_vars
  PROVE  FoundInv'
<1> DEFINE F == Contents \cup {"header", "read_error"}
<1>1. found \in Seq(F) /\ off \in Nat /\ acks \in Nat
  BY DEF TypeInv
<1>2. CASE Open
  <2>1. found' = <<>> /\ pc' \in {"upload", "connect"}
    BY <1>2 DEF Open
  <2>2. Len(<<>>) = 0 /\ 0 <= Sectors
    BY LinkAssumption
  <2> QED
    BY <2>1, <2>2 DEF FoundInv
<1>3. CASE found' = found /\ pc' \notin {"scan", "scan_end", "compat", "compat_crc"}
  BY <1>3 DEF FoundInv
<1>4. CASE UNCHANGED <<found, pc, off, acks>>
  BY <1>4 DEF FoundInv
<1>5. CASE Asks
  <2>1. Len(found) = off /\ found' = found /\ Len(found) <= Sectors
    BY <1>5 DEF Asks, FoundInv
  <2>2. \/ pc' = "closed" \/ pc' = "run" \/ (off # Sectors /\ off' = off /\ pc' = "compat_crc")
    BY <1>5 DEF Asks, Done
  <2>3. off # Sectors => off < Sectors
    BY <1>1, <2>1, LinkAssumption
  <2> QED
    BY <1>1, <2>1, <2>2, <2>3 DEF FoundInv
<1>6. CASE ScanAnswer(Head(down)) /\ rcvFrame
  <2> DEFINE p == Head(down)
  <2>0. Len(<<>>) = 0 /\ 0 < Sectors
    BY LinkAssumption
  <2>1. CASE pc = "scan" /\ p.kind = "scan" /\ found' = Append(found, p.val)
             /\ pc' = (IF Len(found') = Sectors THEN "scan_end" ELSE pc)
    <3>1. Len(found') = Len(found) + 1
      <4>1. p.val \in F
        <5>1. down # <<>> /\ down \in Seq(DownPackets)
          BY <1>6 DEF rcvFrame, TypeInv
        <5>2. p \in DownPackets
          BY <5>1
        <5>3. p.val \in Contents \cup {"header"}
          BY <2>1, <5>2, DownVals
        <5> QED
          BY <5>3
      <4>2. found \in Seq(F)
        BY <1>1
      <4> HIDE DEF F, p
      <4> QED
        BY <2>1, <4>1, <4>2
    <3>2. Len(found) \in Nat /\ Len(found) < Sectors
      BY <1>1, <2>1 DEF FoundInv
    <3> QED
      BY <2>1, <3>1, <3>2, LinkAssumption DEF FoundInv
  <2>2. CASE found' = <<>> /\ pc' = "compat" /\ off' = 0
    <3>1. Len(found') = 0
      BY <2>0, <2>2
    <3> QED
      BY <2>0, <2>2, <3>1, LinkAssumption DEF FoundInv
  <2>3. CASE found' = <<>> /\ pc' = "scan"
    <3>1. Len(found') = 0
      BY <2>0, <2>3
    <3> QED
      BY <2>0, <2>3, <3>1, LinkAssumption DEF FoundInv
  <2>4. CASE found' = found /\ (pc' = "closed" \/ pc' = "run")
    BY <2>4 DEF FoundInv
  <2> QED
    BY <1>6, <2>1, <2>2, <2>3, <2>4 DEF ScanAnswer, Done, Failed
<1>7. CASE CompatAnswer(Head(down)) \/ CompatResult(FALSE, "")
  BY <1>7, CompatFound DEF CompatAnswer
<1>8. CASE Upload
  BY <1>3, <1>8 DEF Upload, UploadStandard, UploadCv6xx, Boots
<1>9. CASE Connect /\ UNCHANGED silentSide
  BY <1>3, <1>9, ConnectEffect DEF Fresh
<1> QED
  BY <1>2, <1>3, <1>4, <1>5, <1>6, <1>7, <1>8, <1>9, StepKinds, FoundSteps

LEMMA WindowEndFacts ==
  ASSUME off \in Nat
  PROVE  WindowEnd \in Nat /\ WindowEnd <= Blocks /\ (off < Blocks => off < WindowEnd)
BY LinkAssumption DEF WindowEnd, Least

\* write_memory stays at a block there is.
LEMMA OffStep ==
  ASSUME TypeInv, PlaceInv, ConnectInv, OffInv, [Next]_vars
  PROVE  OffInv'
<1> SUFFICES ASSUME cmd' = "write", step' = 1, pc' \notin {"closed", "upload", "connect", "run"}
             PROVE  off' < Blocks /\ (pc' \in {"retry", "block_ack", "block_crc"} => off' < acks' /\ acks' <= Blocks)
  BY DEF OffInv
<1>0. cmd \in Commands /\ step \in 1..Len(Script(cmd)) /\ step \in Nat /\ off \in Nat /\ acks \in Nat
  <2>1. cmd \in Commands /\ step \in 1..Len(Script(cmd)) /\ off \in Nat /\ acks \in Nat
    BY DEF TypeInv
  <2> QED
    BY <2>1
<1>1. Works
  <2>1. ~ Open /\ ~ Upload /\ ~ (Connect /\ UNCHANGED silentSide)
    BY ConnectEffect DEF Open, Upload, UploadStandard, UploadCv6xx, Boots, Fresh
  <2> QED
    BY <2>1, StepKinds
<1>2. cmd = "write" /\ step = 1 /\ Op = "write" /\ ~ Done
  <2>1. cmd = "write"
    BY <1>1, WorkEffect
  <2>2. Done => pc' \in {"closed", "run"}
    BY DEF Done
  <2>3. step = 1
    BY <1>1, <2>2, WorkEffect DEF Proceeds, hostVars
  <2> QED
    BY <1>0, <2>1, <2>2, <2>3, OpTable DEF CmdIs
<1>3. /\ WindowEnd \in Nat /\ WindowEnd <= Blocks /\ (off < Blocks => off < WindowEnd)
      /\ 0 < Blocks /\ Blocks \in Nat
  BY <1>0, WindowEndFacts, LinkAssumption
<1>4. pc \notin {"closed", "upload", "connect", "run"} =>
        off < Blocks /\ (pc \in {"retry", "block_ack", "block_crc"} => off < acks /\ acks <= Blocks)
  BY <1>2 DEF OffInv
<1>5. CASE UNCHANGED <<off, acks, pc>>
  BY <1>4, <1>5
<1>6. CASE Switches
  BY <1>2, <1>3, <1>6 DEF Switches
<1>7. CASE Turns
  <2>1. pc = "baud" /\ off' = off /\ (pc' = "go" \/ pc' = "baud_verify")
    BY <1>7 DEF Turns
  <2> QED
    BY <1>4, <2>1
<1>8. CASE Issues
  <2>1. pc = "go" /\ off' = off /\ pc' = "window"
    BY <1>2, <1>8 DEF Issues, Waits
  <2> QED
    BY <1>4, <2>1
<1>9. CASE Continues \/ Retries
  <2>1. UNCHANGED <<off, acks>> /\ (pc = "block_ack" \/ pc = "retry")
    BY <1>9 DEF Continues, Retries
  <2> QED
    BY <1>4, <2>1
<1>10. CASE Asks \/ WriteFlash
  BY <1>2, <1>10 DEF Asks, WriteFlash, PlaceInv
<1>11. CASE Listens
  <2>1. CASE DumpSkip
    BY <1>2, <2>1 DEF DumpSkip
  <2>2. CASE SkipReady
    BY <1>5, <2>2 DEF SkipReady
  <2>3. CASE Timeout
    <3>1. pc \notin {"closed", "upload", "connect", "run"} /\ off' = off /\ (pc' = "go" \/ pc' = "drain")
      BY <1>2, <2>3 DEF Timeout, Waiting, Failed, CompatResult, PlaceInv
    <3> QED
      BY <1>4, <3>1
  <2>4. CASE Drain
    <3>1. pc = "drain" /\ pc' = "retry" /\ off' = off /\ acks' = WindowEnd
      BY <2>4 DEF Drain
    <3> QED
      BY <1>3, <1>4, <3>1
  <2>5. CASE VerifyBaud(Head(down))
    <3>1. pc = "baud_verify" /\ pc' = "go" /\ off' = off
      BY <2>5 DEF VerifyBaud
    <3> QED
      BY <1>4, <3>1
  <2>6. CASE WindowAck(Head(down))
    <3>1. pc = "window" /\ \/ pc' = "drain" /\ off' = off
                           \/ pc' = "window" /\ off' = off
                           \/ pc' = "go" /\ off' = WindowEnd /\ WindowEnd # Blocks
      BY <1>2, <2>6 DEF WindowAck
    <3> QED
      BY <1>3, <1>4, <3>1
  <2>7. CASE BlockCrc(Head(down))
    <3>1. pc = "block_crc" /\ off' = off + 1 /\ acks' = acks
          /\ \/ pc' = "retry" /\ off + 1 < acks
             \/ pc' = "go" /\ off + 1 # Blocks
      BY <1>2, <2>7 DEF BlockCrc, Failed
    <3>2. off < acks /\ acks <= Blocks /\ off < Blocks
      BY <1>4, <3>1
    <3> QED
      BY <1>0, <1>3, <3>1, <3>2
  <2>8. CASE Answered(Head(down)) \/ ReadStream(Head(down)) \/ EraseAck(Head(down)) \/ ScanAnswer(Head(down))
    <3>1. Op # "write"
      BY <2>8 DEF Answered, ReadStream, EraseAck, ScanAnswer, PlaceInv
    <3> QED
      BY <1>2, <3>1
  <2>9. CASE CompatAnswer(Head(down))
    BY <1>2, <2>9 DEF CompatAnswer, CompatResult, PlaceInv
  <2> QED
    BY <1>11, <2>1, <2>2, <2>3, <2>4, <2>5, <2>6, <2>7, <2>8, <2>9 DEF Listens
<1> QED
  BY <1>1, <1>5, <1>6, <1>7, <1>8, <1>9, <1>10, <1>11 DEF Works, vars, hostVars, Idles, Takes, Receives, Starves, hostSide

---------------------------------------------------------------------------
(* Answers, and operations that are done.                                  *)

\* The agent's answers of one packet.
OneAnswer(x) ==
  /\ up[1].kind = "info" => x = Packet("info", "")
  /\ up[1].kind = "crc" => \/ up[1].val = "ram" /\ x = Packet("crc", ram)
                           \/ up[1].val = "flash" /\ x = Packet("crc", flash)
  /\ up[1].kind = "crc_sector" => x = Packet("crc", flash[up[1].val])
  /\ up[1].kind = "membw" => x = Packet("membw", "") \/ x = Errors
  /\ up[1].kind = "mark_bad" => x = Okay \/ x = Errors
  /\ up[1].kind \in {"set_baud", "write", "reboot"} => x = Okay
  /\ up[1].kind \in {"data", "scan"} => x = Errors

LEMMA FirstUp ==
  ASSUME TypeInv, up # <<>>
  PROVE  up[1] \in UpPackets /\ 1 \in 1..Len(up) /\ 1 \in DOMAIN up
<1>1. up \in Seq(UpPackets)
  BY DEF TypeInv
<1> QED
  BY <1>1

LEMMA TakeOne ==
  ASSUME TypeInv, Takes, Replies, up[1].kind \notin {"read", "erase"}, up[1].kind = "scan" => old
  PROVE  down' = down \/ \E x \in DownPackets : OneAnswer(x) /\ down' = Append(down, x)
<1>0. down \in Seq(DownPackets) /\ up[1] \in UpPackets
  BY FirstUp DEF TypeInv, Takes
<1>1. ASSUME NEW x \in DownPackets, Adds(down, down', <<x>>), OneAnswer(x)
      PROVE  down' = down \/ \E y \in DownPackets : OneAnswer(y) /\ down' = Append(down, y)
  BY <1>0, <1>1, AddsOne
<1>2. /\ Okay \in DownPackets /\ Errors \in DownPackets /\ Packet("info", "") \in DownPackets
      /\ Packet("membw", "") \in DownPackets
  BY DownTypes
<1>3. CASE up[1].kind = "info"
  <2>1. Adds(down, down', <<Packet("info", "")>>) /\ OneAnswer(Packet("info", ""))
    BY <1>3 DEF Replies, OneAnswer
  <2> QED
    BY <1>1, <1>2, <2>1
<1>4. CASE up[1].kind = "crc"
  <2>1. Packet("crc", ram) \in DownPackets /\ Packet("crc", flash) \in DownPackets
    BY DownTypes DEF TypeInv
  <2>2. \/ up[1].val = "ram" /\ Adds(down, down', <<Packet("crc", ram)>>)
        \/ up[1].val = "flash" /\ Adds(down, down', <<Packet("crc", flash)>>)
    BY <1>4 DEF Replies
  <2>3. CASE up[1].val = "ram" /\ Adds(down, down', <<Packet("crc", ram)>>)
    <3>1. OneAnswer(Packet("crc", ram))
      BY <1>4, <2>3 DEF OneAnswer
    <3> QED
      BY <1>1, <2>1, <2>3, <3>1
  <2>4. CASE up[1].val = "flash" /\ Adds(down, down', <<Packet("crc", flash)>>)
    <3>1. OneAnswer(Packet("crc", flash))
      BY <1>4, <2>4 DEF OneAnswer
    <3> QED
      BY <1>1, <2>1, <2>4, <3>1
  <2> QED
    BY <2>2, <2>3, <2>4
<1>5. CASE up[1].kind = "crc_sector"
  <2>1. up[1].val \in 1..Sectors
    BY <1>0, <1>5, UpKinds
  <2> DEFINE x == Packet("crc", flash[up[1].val])
  <2>2. x \in DownPackets
    BY <2>1, DownTypes DEF TypeInv
  <2>3. Adds(down, down', <<x>>) /\ OneAnswer(x)
    BY <1>5 DEF Replies, OneAnswer
  <2> HIDE DEF x
  <2> QED
    BY <1>1, <2>2, <2>3
<1>6. CASE up[1].kind = "membw"
  <2>1. Adds(down, down', <<Packet("membw", "")>>) \/ Adds(down, down', <<Errors>>)
    BY <1>6 DEF Replies
  <2>2. OneAnswer(Packet("membw", "")) /\ OneAnswer(Errors)
    BY <1>6 DEF OneAnswer
  <2> QED
    BY <1>1, <1>2, <2>1, <2>2
<1>7. CASE up[1].kind = "mark_bad"
  <2>1. Adds(down, down', <<Okay>>) \/ Adds(down, down', <<Errors>>)
    BY <1>7 DEF Replies
  <2>2. OneAnswer(Okay) /\ OneAnswer(Errors)
    BY <1>7 DEF OneAnswer
  <2> QED
    BY <1>1, <1>2, <2>1, <2>2
<1>8. CASE up[1].kind \in {"set_baud", "write", "reboot"}
  <2>1. Adds(down, down', <<Okay>>) /\ OneAnswer(Okay)
    BY <1>8 DEF Replies, OneAnswer
  <2> QED
    BY <1>1, <1>2, <2>1
<1>9. CASE up[1].kind \in {"data", "scan"}
  <2>1. Adds(down, down', <<Errors>>) /\ OneAnswer(Errors)
    BY <1>9 DEF Replies, OneAnswer
  <2> QED
    BY <1>1, <1>2, <2>1
<1> QED
  BY <1>0, <1>3, <1>4, <1>5, <1>6, <1>7, <1>8, <1>9, UpKinds

\* The agent's answer to a read: DATA with the sectors' contents, and an ACK.
LEMMA TakeRead ==
  ASSUME TypeInv, Takes, Replies, up[1].kind = "read",
         NEW a \in 1..Sectors, NEW b \in 1..Sectors, a <= b, up[1].val = <<a, b>>
  PROVE  \A i \in (Len(down) + 1)..Len(down') :
           \/ down'[i].kind = "ack"
           \/ \E k \in 1..(b - a + 1) : down'[i] = Packet("data", [seq |-> k - 1, val |-> flash[a + k - 1]])
<1> DEFINE s == ReadPackets(<<a, b>>)
           t == SubSeq(s, 1, Len(s) - 1)
           s1 == Append(s, Okay)
           t1 == Append(t, Errors)
           D(x) == \/ x.kind = "ack"
                   \/ \E k \in 1..(b - a + 1) : x = Packet("data", [seq |-> k - 1, val |-> flash[a + k - 1]])
<1>0. down \in Seq(DownPackets)
  BY DEF TypeInv
<1>1. s \in Seq(DownPackets) /\ Len(s) = b - a + 1
  BY ReadPacketsFacts
<1>2. \A i \in 1..(b - a + 1) : s[i] = Packet("data", [seq |-> i - 1, val |-> flash[a + i - 1]])
  BY ReadPacketsFacts
<1>3. \A i \in 1..Len(s) : D(s[i])
  BY <1>1, <1>2
<1>4. Adds(down, down', s1) \/ Adds(down, down', t1)
  BY DEF Replies, Adds
<1>5. D(Okay) /\ D(Errors) /\ Okay \in DownPackets /\ Errors \in DownPackets
  BY DownKinds, DownTypes
<1> HIDE DEF D, s
<1>6. t \in Seq(DownPackets) /\ \A i \in 1..Len(t) : D(t[i])
  <2>1. s \in Seq(DownPackets) /\ Len(s) >= 1
    BY <1>1
  <2>2. t \in Seq(DownPackets) /\ Len(t) = Len(s) - 1 /\ \A i \in 1..Len(t) : t[i] = s[i]
    BY <2>1, FrontFacts
  <2> QED
    BY <1>3, <2>1, <2>2
<1> HIDE DEF t
<1>7. s1 \in Seq(DownPackets) /\ \A i \in 1..Len(s1) : D(s1[i])
  <2>1. s \in Seq(DownPackets) /\ Okay \in DownPackets
    BY <1>1, <1>5
  <2>2. s1 \in Seq(DownPackets) /\ Len(s1) = Len(s) + 1 /\ (\A i \in 1..Len(s) : s1[i] = s[i]) /\ s1[Len(s) + 1] = Okay
    BY <2>1, AppendFacts
  <2>3. Len(s) \in Nat
    BY <2>1
  <2> QED
    BY <1>3, <1>5, <2>2, <2>3
<1>8. t1 \in Seq(DownPackets) /\ \A i \in 1..Len(t1) : D(t1[i])
  <2>1. t \in Seq(DownPackets) /\ Errors \in DownPackets
    BY <1>6, <1>5
  <2>2. t1 \in Seq(DownPackets) /\ Len(t1) = Len(t) + 1 /\ (\A i \in 1..Len(t) : t1[i] = t[i]) /\ t1[Len(t) + 1] = Errors
    BY <2>1, AppendFacts
  <2>3. Len(t) \in Nat
    BY <2>1
  <2> QED
    BY <1>5, <1>6, <2>2, <2>3
<1> HIDE DEF s1, t1
<1>9. \A i \in (Len(down) + 1)..Len(down') : D(down'[i])
  <2>1. CASE Adds(down, down', s1)
    <3>1. \A i \in (Len(down) + 1)..Len(down') : \E k \in 1..Len(s1) : down'[i] = s1[k]
      BY <1>0, <1>7, <2>1, AddsFacts
    <3> QED
      BY <1>7, <3>1
  <2>2. CASE Adds(down, down', t1)
    <3>1. \A i \in (Len(down) + 1)..Len(down') : \E k \in 1..Len(t1) : down'[i] = t1[k]
      BY <1>0, <1>8, <2>2, AddsFacts
    <3> QED
      BY <1>8, <3>1
  <2> QED
    BY <1>4, <2>1, <2>2
<1> QED
  BY <1>9 DEF D

\* An operation that is under way has not been claimed.
LEMMA NotYet ==
  ASSUME TypeInv, ClaimInv, pc # "closed"
  PROVE  Op \notin claims
<1> SUFFICES ASSUME Op \in claims PROVE FALSE
  OBVIOUS
<1>1. PICK i \in 1..step : Script(cmd)[i] = Op /\ i < step
  BY DEF ClaimInv
<1>2. OpIs /\ CmdIs /\ cmd \in Commands /\ step \in Nat
  <2>1. cmd \in Commands /\ step \in 1..Len(Script(cmd))
    BY DEF TypeInv
  <2> QED
    BY <2>1, OpTable
<1>3. CASE cmd \in {"info", "upload", "membw", "erase", "mark_bad", "selfupdate"}
  BY <1>1, <1>2, <1>3 DEF CmdIs
<1>4. CASE cmd = "write"
  <2>1. step = 2 /\ i = 1
    BY <1>1, <1>2, <1>4 DEF CmdIs
  <2> QED
    BY <1>1, <1>2, <1>4, <2>1, ScriptTable DEF CmdIs
<1>5. CASE cmd = "read"
  <2>1. (step = 2 /\ i = 1) \/ (step = 3 /\ (i = 1 \/ i = 2))
    BY <1>1, <1>2, <1>5 DEF CmdIs
  <2> QED
    BY <1>1, <1>2, <1>5, <2>1, ScriptTable DEF CmdIs
<1>6. CASE cmd = "scan"
  <2>1. (step = 2 /\ i = 1) \/ (step = 3 /\ (i = 1 \/ i = 2))
    BY <1>1, <1>2, <1>6 DEF CmdIs
  <2> QED
    BY <1>1, <1>2, <1>6, <2>1, ScriptTable DEF CmdIs
<1>7. CASE cmd = "flash"
  <2>1. (step = 2 /\ i = 1) \/ (step = 3 /\ (i = 1 \/ i = 2)) \/ (step = 4 /\ (i = 1 \/ i = 2 \/ i = 3))
    BY <1>1, <1>2, <1>7 DEF CmdIs
  <2> QED
    BY <1>1, <1>2, <1>7, <2>1, ScriptTable DEF CmdIs
<1>8. CASE cmd = "flash_unverified"
  <2>1. (step = 2 /\ i = 1) \/ (step = 3 /\ (i = 1 \/ i = 2))
    BY <1>1, <1>2, <1>8 DEF CmdIs
  <2> QED
    BY <1>1, <1>2, <1>8, <2>1, ScriptTable DEF CmdIs
<1> QED
  BY <1>2, <1>3, <1>4, <1>5, <1>6, <1>7, <1>8 DEF Commands

---------------------------------------------------------------------------
(* agent read.                                                             *)

\* Only a command that has sent for it changes the flash.
LEMMA FlashSteps ==
  ASSUME TypeInv, PlaceInv, MineInv, Mine, Works, cmd \notin {"erase", "mark_bad"} \cup Flashes
  PROVE  flash' = flash
<1>1. OpIs
  BY OpTable DEF TypeInv
<1>2. CASE Takes
  <2>1. up[1].kind \in Sends(cmd)
    BY <1>2, FirstUp DEF MineInv, Takes
  <2>2. up[1].kind \notin {"erase", "mark_bad"}
    BY <2>1 DEF Sends
  <2> QED
    BY <1>2, <2>2 DEF Takes
<1>3. CASE WriteFlash
  BY <1>1, <1>3 DEF WriteFlash, OpIs
<1>4. CASE UNCHANGED vars \/ UNCHANGED silentSide \/ Switches \/ Turns \/ Issues \/ Continues \/ Asks \/ Retries
           \/ Idles \/ Receives \/ Starves
  BY <1>4 DEF vars, agentVars, silentSide, agentSide, Switches, Turns, Issues, Continues, Asks, Retries, Idles, Receives, Starves
<1> QED
  BY <1>2, <1>3, <1>4 DEF Works

\* Without a block to receive the agent only takes commands.
LEMMA DownSteps ==
  ASSUME TypeInv, Works
  PROVE  Shrinks \/ Idles \/ (Grows /\ ((Takes /\ Replies) \/ Receives \/ Starves))
<1>1. CASE UNCHANGED vars \/ WriteFlash
  <2>1. down' = down /\ stash' = stash
    BY <1>1 DEF vars, WriteFlash
  <2> QED
    BY <2>1, SameShrinks
<1> QED
  BY <1>1 DEF Works, Switches, Turns, Continues, Asks, Retries

LEMMA DoneRead ==
  ASSUME TypeInv, PlaceInv, ClaimInv, Works, "read" \in claims', "read" \notin claims
  PROVE  /\ rcvFrame /\ ReadStream(Head(down)) /\ Op = "read" /\ Len(got) = Sectors /\ got' = got
<1>0. OpIs /\ cmd \in Commands /\ step \in 1..Len(Script(cmd))
  BY OpTable DEF TypeInv
<1>1. Done /\ Op = "read"
  BY <1>0, WorkEffect, DoneEffect DEF Proceeds, hostVars
<1>2. pc' # pc \/ step' # step
  BY <1>0, <1>1, NotYet, DoneEffect, WorkEffect DEF Proceeds, hostVars
<1>3. pc' = "closed" \/ pc' = "run"
  BY <1>1 DEF Done
<1>4. CASE Listens
  <2>1. ~ DumpSkip /\ ~ SkipReady /\ ~ Drain /\ ~ EraseAck(Head(down)) /\ ~ ScanAnswer(Head(down))
        /\ ~ CompatAnswer(Head(down)) /\ ~ VerifyBaud(Head(down)) /\ ~ WindowAck(Head(down)) /\ ~ BlockCrc(Head(down))
        /\ ~ Answered(Head(down))
    BY <1>1, <1>3 DEF DumpSkip, SkipReady, Waiting, Drain, EraseAck, ScanAnswer, CompatAnswer, CompatResult,
                      VerifyBaud, WindowAck, BlockCrc, Answered, PlaceInv
  <2>2. ~ Timeout
    <3>1. claims' # claims
      OBVIOUS
    <3> QED
      BY <1>1, <3>1 DEF Timeout, Failed, CompatResult
  <2>3. rcvFrame /\ ReadStream(Head(down))
    BY <1>4, <2>1, <2>2 DEF Listens
  <2>4. Len(got) = Sectors /\ got' = got
    BY <1>1, <2>3 DEF ReadStream, Failed
  <2> QED
    BY <1>1, <2>3, <2>4
<1>5. CASE ~ Listens
  <2>1. claims' # claims
    OBVIOUS
  <2> QED
    BY <1>1, <1>5, <2>1 DEF Works, vars, hostVars, WriteFlash, Switches, Turns, Issues, Continues, Asks, Retries, Idles, Takes,
       Receives, Starves, hostSide, PlaceInv
<1> QED
  BY <1>4, <1>5

\* Every step keeps what read_memory counts on.
LEMMA ReadStep ==
  ASSUME TypeInv, PlaceInv, ClaimInv, ConnectInv, FoundInv, OffInv, DumpInv, MineInv, GotInv, ReadInv, [Next]_vars
  PROVE  ReadInv'
<1> SUFFICES ASSUME cmd' = "read", Mine'
             PROVE  /\ \A i \in DOMAIN up' : up'[i].kind = "read" => up'[i].val = <<1, Sectors>>
                    /\ \A i \in DOMAIN down' : down'[i].kind = "data" =>
                         down'[i].val.seq < Sectors /\ down'[i].val.val = flash'[down'[i].val.seq + 1]
                    /\ Len(got') <= Sectors /\ \A i \in 1..Len(got') : got'[i] = flash'[i]
                    /\ "read" \in claims' => Len(got') = Sectors
  BY DEF ReadInv
<1>1. CASE Fresh
  <2>1. up' = <<>> /\ down' = <<>> /\ claims' = {} /\ got' = <<>>
    BY <1>1 DEF Fresh, GotInv
  <2>2. Len(got') = 0 /\ 0 <= Sectors
    BY <2>1, LinkAssumption
  <2> QED
    BY <2>1, <2>2
<1>2. CASE Works /\ Mine
  <2>0. cmd = "read" /\ flash' = flash
    BY <1>2, WorkEffect, FlashSteps DEF Flashes
  <2>1. OpIs /\ CmdIs
    BY OpTable DEF TypeInv
  <2>2. up \in Seq(UpPackets) /\ down \in Seq(DownPackets)
    BY DEF TypeInv
  <2>3. DOMAIN up = 1..Len(up) /\ Len(up) \in Nat /\ DOMAIN down = 1..Len(down) /\ Len(down) \in Nat
    BY <2>2
  <2>4. task = 0 /\ ~ Receives
    BY <1>2, <2>0 DEF MineInv, Receives
  <2>5. \A i \in DOMAIN up : up[i].kind \in {"info", "set_baud", "read", "crc"}
    BY <1>2, <2>0 DEF MineInv, Sends
  <2>6. /\ \A i \in DOMAIN up : up[i].kind = "read" => up[i].val = <<1, Sectors>>
        /\ \A i \in DOMAIN down : down[i].kind = "data" =>
             down[i].val.seq < Sectors /\ down[i].val.val = flash[down[i].val.seq + 1]
        /\ Len(got) <= Sectors /\ \A i \in 1..Len(got) : got[i] = flash[i]
        /\ "read" \in claims => Len(got) = Sectors
    BY <1>2, <2>0 DEF ReadInv
  <2>7. \A i \in DOMAIN up' : up'[i].kind = "read" => up'[i].val = <<1, Sectors>>
    <3>1. CASE up' = up
      BY <2>6, <3>1
    <3>2. CASE Taken
      BY <2>3, <2>6, <3>2 DEF Taken
    <3>3. CASE Sent /\ (Switches \/ Turns \/ Issues \/ Continues \/ Asks \/ Retries)
      <4>1. Op \notin {"write", "selfupdate", "scan", "dump"}
        BY <2>0, <2>1 DEF OpIs
      <4>2. \/ up' = up \/ up' = Append(up, Packet("set_baud", "fast"))
            \/ up' = Append(up, Packet("set_baud", "slow")) \/ up' = Append(up, Packet("info", "")) \/ up' = Append(up, Asked)
        <5>1. ~ Continues /\ ~ Asks /\ ~ Retries
          BY <4>1 DEF Continues, Asks, Retries, PlaceInv
        <5>2. Issues => up' = up \/ up' = Append(up, Asked)
          BY <4>1, IssueOne
        <5>3. Switches => up' = up \/ up' = Append(up, Packet("set_baud", "fast"))
          BY DEF Switches
        <5>4. Turns => up' = up \/ up' = Append(up, Packet("set_baud", "slow")) \/ up' = Append(up, Packet("info", ""))
          BY DEF Turns
        <5> QED
          BY <3>3, <5>1, <5>2, <5>3, <5>4
      <4>3. Asked.kind = "read" => Asked.val = <<1, Sectors>>
        BY <4>1 DEF Asked, Packet
      <4>4. ASSUME NEW x, x.kind = "read" => x.val = <<1, Sectors>>, up' = Append(up, x)
            PROVE  \A i \in DOMAIN up' : up'[i].kind = "read" => up'[i].val = <<1, Sectors>>
        <5>1. DOMAIN up' = 1..(Len(up) + 1) /\ (\A i \in 1..Len(up) : up'[i] = up[i]) /\ up'[Len(up) + 1] = x
          BY <2>2, <4>4
        <5> QED
          BY <2>3, <2>6, <4>4, <5>1
      <4>5. \A v : Packet("set_baud", v).kind # "read" /\ Packet("info", v).kind # "read"
        BY DEF Packet
      <4> QED
        BY <2>6, <4>2, <4>3, <4>4, <4>5
    <3> QED
      BY <1>2, <3>1, <3>2, <3>3, UpSteps
  <2> DEFINE R(x) == x.kind = "data" => x.val.seq < Sectors /\ x.val.val = flash[x.val.seq + 1]
  <2>8. \A i \in DOMAIN down' : R(down'[i])
    <3>0. \A i \in 1..Len(down) : R(down[i])
      BY <2>3, <2>6
    <3>1. CASE Shrinks
      <4>1. PICK d \in 0..Len(down) : Len(down') = Len(down) - d /\ \A j \in 1..Len(down') : down'[j] = down[j + d]
        BY <3>1 DEF Shrinks
      <4>2. DOMAIN down' = 1..Len(down')
        BY <3>1 DEF Shrinks
      <4> HIDE DEF R
      <4>3. ASSUME NEW i \in 1..Len(down') PROVE R(down'[i])
        <5>1. i + d \in 1..Len(down) /\ down'[i] = down[i + d]
          BY <2>3, <4>1
        <5> QED
          BY <3>0, <5>1
      <4> QED
        BY <4>2, <4>3
    <3>2. CASE Idles
      <4>1. Ready.kind # "data"
        BY DEF Ready, Packet
      <4> QED
        BY <2>3, <3>0, <3>2, <4>1 DEF Idles
    <3>3. CASE Grows /\ Takes /\ Replies
      <4>0. up # <<>> /\ up[1] \in UpPackets /\ 1 \in DOMAIN up
        BY <3>3, FirstUp DEF Takes
      <4>1. DOMAIN down' = 1..Len(down') /\ Len(down') \in Nat /\ \A i \in 1..Len(down) : down'[i] = down[i]
        <5>1. down' \in Seq(DownPackets)
          BY <3>3 DEF Grows
        <5> QED
          BY <3>3, <5>1 DEF Grows
      <4>2. \A i \in (Len(down) + 1)..Len(down') : R(down'[i])
        <5>1. CASE up[1].kind = "read"
          <6>1. up[1].val = <<1, Sectors>> /\ 1 \in 1..Sectors /\ Sectors \in 1..Sectors /\ 1 <= Sectors
            BY <2>6, <4>0, <5>1, LinkAssumption
          <6>2. \A i \in (Len(down) + 1)..Len(down') :
                  \/ down'[i].kind = "ack"
                  \/ \E k \in 1..(Sectors - 1 + 1) : down'[i] = Packet("data", [seq |-> k - 1, val |-> flash[1 + k - 1]])
            BY <3>3, <5>1, <6>1, TakeRead
          <6>3. ASSUME NEW k \in 1..(Sectors - 1 + 1) PROVE R(Packet("data", [seq |-> k - 1, val |-> flash[1 + k - 1]]))
            <7>1. 1 + k - 1 = k /\ k - 1 + 1 = k /\ k - 1 < Sectors
              BY LinkAssumption
            <7> QED
              BY <7>1 DEF Packet
          <6>4. \A x : x.kind = "ack" => R(x)
            OBVIOUS
          <6> HIDE DEF R
          <6> QED
            BY <6>2, <6>3, <6>4
        <5>2. CASE up[1].kind \in {"info", "set_baud", "crc"}
          <6>1. CASE down' = down
            BY <2>3, <6>1
          <6>2. CASE \E x \in DownPackets : OneAnswer(x) /\ down' = Append(down, x)
            <7>1. PICK x \in DownPackets : OneAnswer(x) /\ down' = Append(down, x)
              BY <6>2
            <7>2. x.kind # "data"
              <8>1. x = Packet("info", "") \/ x = Packet("crc", ram) \/ x = Packet("crc", flash) \/ x = Okay
                BY <5>2, <7>1 DEF OneAnswer
              <8>2. Packet("info", "").kind = "info" /\ Packet("crc", ram).kind = "crc" /\ Packet("crc", flash).kind = "crc"
                BY DEF Packet
              <8> QED
                BY <8>1, <8>2, DownKinds
            <7>3. Len(down') = Len(down) + 1 /\ down'[Len(down) + 1] = x
              BY <2>2, <7>1
            <7> QED
              BY <2>3, <7>2, <7>3
          <6> QED
            BY <3>3, <5>2, <6>1, <6>2, TakeOne
        <5> QED
          BY <2>5, <4>0, <5>1, <5>2
      <4> HIDE DEF R
      <4> QED
        BY <2>3, <3>0, <4>1, <4>2
    <3>4. CASE Starves
      BY <2>3, <3>0, <3>4, StarveFacts
    <3> QED
      BY <1>2, <2>4, <3>1, <3>2, <3>3, <3>4, DownSteps
  <2>9. Len(got') <= Sectors /\ (\A i \in 1..Len(got') : got'[i] = flash[i]) /\ (got' # got => "read" \notin claims)
    <3> DEFINE G == Contents \cup {"", "ff"}
    <3>0. got \in Seq(G)
      BY DEF TypeInv
    <3> HIDE DEF G
    <3>1. CASE got' = got
      BY <2>6, <3>1
    <3>2. CASE Issues /\ Op = "read" /\ got' = <<>>
      <4>1. "read" \notin claims
        BY <3>2, NotYet DEF Issues
      <4>2. Len(got') = 0
        BY <3>2
      <4> QED
        BY <4>1, <4>2, LinkAssumption
    <3>3. CASE rcvFrame /\ ReadStream(Head(down)) /\ got' # got
      <4> DEFINE p == Head(down)
      <4>1. Op = "read" /\ pc = "stream"
        BY <2>0, <2>1, <3>3 DEF ReadStream, PlaceInv, OpIs
      <4>2. "read" \notin claims
        BY <4>1, NotYet
      <4>3. p.kind = "data" /\ p.val.seq = Len(got) /\ got' = Append(got, p.val.val)
        BY <3>3, <4>1 DEF ReadStream
      <4>4. down # <<>> /\ p = down[1] /\ 1 \in DOMAIN down /\ p \in DownPackets
        <5>1. down # <<>>
          BY <3>3 DEF rcvFrame
        <5> QED
          BY <2>2, <5>1
      <4>5. p.val.seq < Sectors /\ p.val.val = flash[p.val.seq + 1] /\ p.val.val \in Contents \cup {""}
        <5>1. p.val.seq < Sectors /\ p.val.val = flash[p.val.seq + 1]
          BY <2>6, <4>3, <4>4
        <5>2. p.val.val \in Contents \cup {""}
          BY <4>3, <4>4, DownVals
        <5> QED
          BY <5>1, <5>2
      <4> HIDE DEF p
      <4>6. Len(got') = Len(got) + 1 /\ (\A i \in 1..Len(got) : got'[i] = got[i]) /\ got'[Len(got) + 1] = p.val.val
        <5> DEFINE v == p.val.val
        <5>1. v \in G /\ got' = Append(got, v)
          BY <4>3, <4>5 DEF G
        <5> HIDE DEF v
        <5>2. Len(got') = Len(got) + 1 /\ (\A i \in 1..Len(got) : got'[i] = got[i]) /\ got'[Len(got) + 1] = v
          BY <3>0, <5>1, AppendFacts
        <5> QED
          BY <5>2 DEF v
      <4>7. Len(got) \in Nat
        BY <3>0
      <4>10. Len(got) < Sectors /\ p.val.val = flash[Len(got) + 1]
        <5>1. p.val.seq = Len(got)
          BY <4>3
        <5> QED
          BY <4>5, <5>1
      <4>8. Len(got') <= Sectors
        <5>1. Len(got') = Len(got) + 1
          BY <4>6
        <5> QED
          BY <4>7, <4>10, <5>1, LinkAssumption
      <4>9. \A i \in 1..Len(got') : got'[i] = flash[i]
        <5>1. \A i \in 1..Len(got) : got'[i] = flash[i]
          BY <2>6, <4>6
        <5>2. got'[Len(got) + 1] = flash[Len(got) + 1] /\ Len(got') = Len(got) + 1
          BY <4>6, <4>10
        <5> QED
          BY <4>7, <5>1, <5>2
      <4> QED
        BY <4>2, <4>8, <4>9
    <3>4. CASE DumpSkip /\ Op = "dump"
      BY <2>0, <2>1, <3>4 DEF OpIs
    <3> QED
      BY <1>2, <3>1, <3>2, <3>3, <3>4, GotSteps
  <2>10. "read" \in claims' => Len(got') = Sectors
    <3>1. CASE "read" \in claims
      BY <2>6, <2>9, <3>1
    <3>2. CASE "read" \in claims' /\ "read" \notin claims
      BY <1>2, <3>2, DoneRead
    <3> QED
      BY <3>1, <3>2
  <2> QED
    BY <2>0, <2>7, <2>8, <2>9, <2>10
<1> QED
  BY <1>1, <1>2, MineStep

---------------------------------------------------------------------------
(* agent write: the CRC-32 that ends it.                                   *)

\* Lines whose packets have all been there before, or are none of the kind.
LEMMA ShrinksFacts ==
  ASSUME down \in Seq(DownPackets), Shrinks
  PROVE  /\ DOMAIN down' = 1..Len(down') /\ Len(down') \in Nat
         /\ \A i \in DOMAIN down' : \E j \in DOMAIN down : down'[i] = down[j]
<1>1. PICK d \in 0..Len(down) : Len(down') = Len(down) - d /\ \A j \in 1..Len(down') : down'[j] = down[j + d]
  BY DEF Shrinks
<1>2. DOMAIN down' = 1..Len(down') /\ Len(down') \in Nat /\ DOMAIN down = 1..Len(down) /\ Len(down) \in Nat
  <2>1. down' \in Seq(DownPackets)
    BY DEF Shrinks
  <2> QED
    BY <2>1
<1>3. \A i \in DOMAIN down' : i + d \in DOMAIN down /\ down'[i] = down[i + d]
  BY <1>1, <1>2
<1> QED
  BY <1>2, <1>3

LEMMA GrowsFacts ==
  ASSUME down \in Seq(DownPackets), Grows
  PROVE  /\ DOMAIN down' = 1..Len(down') /\ Len(down') \in Nat /\ DOMAIN down = 1..Len(down) /\ Len(down) \in Nat
         /\ \A i \in DOMAIN down' : (i \in DOMAIN down /\ down'[i] = down[i]) \/ i \in (Len(down) + 1)..Len(down')
<1>1. down' \in Seq(DownPackets) /\ \A i \in 1..Len(down) : down'[i] = down[i]
  BY DEF Grows
<1>2. DOMAIN down' = 1..Len(down') /\ Len(down') \in Nat /\ DOMAIN down = 1..Len(down) /\ Len(down) \in Nat
  BY <1>1
<1> QED
  BY <1>1, <1>2

LEMMA AppendedDown ==
  ASSUME down \in Seq(DownPackets), NEW x \in DownPackets, down' = Append(down, x)
  PROVE  /\ DOMAIN down' = 1..(Len(down) + 1) /\ Len(down') = Len(down) + 1 /\ Len(down) \in Nat
         /\ down'[Len(down) + 1] = x /\ \A i \in DOMAIN down : down'[i] = down[i]
         /\ \A i \in DOMAIN down' : (i \in DOMAIN down /\ down'[i] = down[i]) \/ (i = Len(down) + 1 /\ down'[i] = x)
<1>1. DOMAIN down' = 1..(Len(down) + 1) /\ Len(down') = Len(down) + 1 /\ Len(down) \in Nat /\ DOMAIN down = 1..Len(down)
  OBVIOUS
<1>2. down'[Len(down) + 1] = x /\ \A i \in 1..Len(down) : down'[i] = down[i]
  OBVIOUS
<1> QED
  BY <1>1, <1>2

LEMMA AppendedUp ==
  ASSUME up \in Seq(UpPackets), NEW x \in UpPackets, up' = Append(up, x)
  PROVE  /\ DOMAIN up' = 1..(Len(up) + 1) /\ Len(up') = Len(up) + 1 /\ Len(up) \in Nat
         /\ up'[Len(up) + 1] = x /\ \A i \in DOMAIN up : up'[i] = up[i]
         /\ \A i \in DOMAIN up' : (i \in DOMAIN up /\ up'[i] = up[i]) \/ (i = Len(up) + 1 /\ up'[i] = x)
<1>1. DOMAIN up' = 1..(Len(up) + 1) /\ Len(up') = Len(up) + 1 /\ Len(up) \in Nat /\ DOMAIN up = 1..Len(up)
  OBVIOUS
<1>2. up'[Len(up) + 1] = x /\ \A i \in 1..Len(up) : up'[i] = up[i]
  OBVIOUS
<1> QED
  BY <1>1, <1>2

LEMMA TakenFacts ==
  ASSUME up \in Seq(UpPackets), Taken
  PROVE  /\ Len(up') = Len(up) - 1 /\ Len(up) \in Nat /\ Len(up) >= 1 /\ DOMAIN up' = 1..Len(up') /\ DOMAIN up = 1..Len(up)
         /\ \A i \in DOMAIN up' : i + 1 \in DOMAIN up /\ up'[i] = up[i + 1]
         /\ 1 \in DOMAIN up
<1>1. up' \in Seq(UpPackets) /\ up # <<>> /\ Len(up') = Len(up) - 1 /\ \A i \in 1..Len(up') : up'[i] = up[i + 1]
  BY DEF Taken
<1>2. Len(up) \in Nat /\ Len(up) >= 1 /\ DOMAIN up' = 1..Len(up') /\ DOMAIN up = 1..Len(up)
  BY <1>1
<1> QED
  BY <1>1, <1>2

LEMMA TakenMoves ==
  ASSUME up \in Seq(UpPackets), Taken
  PROVE  up' # up
<1> SUFFICES ASSUME up' = up PROVE FALSE
  OBVIOUS
<1>1. Len(up') = Len(up) - 1 /\ Len(up) \in Nat
  BY DEF Taken
<1>2. Len(up') = Len(up)
  OBVIOUS
<1> QED
  BY <1>1, <1>2

LEMMA StarvedUp ==
  ASSUME TypeInv, Starves
  PROVE  /\ task = 0 => Taken
         /\ \A i \in DOMAIN up' : \E j \in DOMAIN up : up'[i] = up[j]
         /\ up' = up \/ Taken
         /\ flash' = flash
<1>1. up \in Seq(UpPackets)
  BY DEF TypeInv
<1>2. up # <<>> /\ up' = Tail(up) => Taken
  BY <1>1, TailFacts DEF Taken
<1> QED
  BY <1>1, <1>2, TakenFacts DEF Starves

LEMMA SentFacts ==
  ASSUME up \in Seq(UpPackets), Sent
  PROVE  /\ DOMAIN up' = 1..Len(up') /\ Len(up') \in Nat /\ DOMAIN up = 1..Len(up) /\ Len(up) \in Nat
         /\ \A i \in DOMAIN up' : (i \in DOMAIN up /\ up'[i] = up[i]) \/ i \in (Len(up) + 1)..Len(up')
<1>1. up' \in Seq(UpPackets) /\ \A i \in 1..Len(up) : up'[i] = up[i]
  BY DEF Sent
<1>2. DOMAIN up' = 1..Len(up') /\ Len(up') \in Nat /\ DOMAIN up = 1..Len(up) /\ Len(up) \in Nat
  BY <1>1
<1> QED
  BY <1>1, <1>2

\* The packets the host sends, by operation.
NewUp(K) == \A i \in DOMAIN up' : (i \in DOMAIN up /\ up'[i] = up[i]) \/ up'[i].kind \in K

LEMMA NewUpOne ==
  ASSUME up \in Seq(UpPackets), NEW x \in UpPackets, up' = up \/ up' = Append(up, x), NEW K, x.kind \in K
  PROVE  NewUp(K)
<1>1. CASE up' = up
  BY <1>1 DEF NewUp
<1>2. CASE up' = Append(up, x)
  BY <1>2, AppendedUp DEF NewUp
<1> QED
  BY <1>1, <1>2

LEMMA NewUpBy ==
  ASSUME up \in Seq(UpPackets), NEW s \in Seq(UpPackets), NEW K, \A i \in 1..Len(s) : s[i].kind \in K, Adds(up, up', s)
  PROVE  NewUp(K)
<1>1. /\ up' \in Seq(UpPackets) /\ Len(up) <= Len(up')
      /\ \A i \in 1..Len(up) : up'[i] = up[i]
      /\ \A i \in (Len(up) + 1)..Len(up') : \E k \in 1..Len(s) : up'[i] = s[k]
  BY AddsUp
<1>2. DOMAIN up' = 1..Len(up') /\ Len(up') \in Nat /\ DOMAIN up = 1..Len(up) /\ Len(up) \in Nat
  BY <1>1
<1> QED
  BY <1>1, <1>2 DEF NewUp

LEMMA BlockTail ==
  ASSUME NEW b \in 1..(Blocks + 1)
  PROVE  /\ Tail(BlockPackets(b)) \in Seq(UpPackets) /\ Len(Tail(BlockPackets(b))) = Chunks
         /\ \A i \in 1..Chunks : Tail(BlockPackets(b))[i].kind = "data"
<1> DEFINE q == BlockPackets(b)
           s == Tail(q)
<1>1. q \in Seq(UpPackets) /\ Len(q) = Chunks + 1 /\ \A j \in 1..Chunks : q[j + 1] = Packet("data", <<b, j>>)
  BY BlockPacketsFacts
<1> HIDE DEF q
<1>2. ASSUME NEW j \in 1..Chunks PROVE q[j + 1].kind = "data"
  <2>1. Packet("data", <<b, j>>).kind = "data"
    BY DEF Packet
  <2> QED
    BY <1>1, <2>1
<1>3. q # <<>>
  BY <1>1, LinkAssumption
<1>4. s \in Seq(UpPackets) /\ Len(s) = Chunks /\ \A i \in 1..Chunks : s[i] = q[i + 1]
  BY <1>1, <1>3, TailFacts, LinkAssumption
<1> QED
  BY <1>2, <1>4 DEF q

LEMMA HostKinds ==
  ASSUME TypeInv, PlaceInv, FoundInv, OffInv, DumpInv
  PROVE  /\ Switches => NewUp({"set_baud"})
         /\ Turns => NewUp({"set_baud", "info"})
         /\ Issues /\ Op = "write" => NewUp({"write", "data"})
         /\ Continues => NewUp({"data"})
         /\ Asks => NewUp({"crc_sector"})
         /\ Retries => NewUp({"write"})
<1>0. up \in Seq(UpPackets) /\ OpIs /\ (up' = up => \A K : NewUp(K))
  BY OpTable DEF TypeInv, NewUp
<1>1. \A k, v : Packet(k, v).kind = k
  BY DEF Packet
<1>2. ASSUME Switches PROVE NewUp({"set_baud"})
  <2>1. Packet("set_baud", "fast") \in UpPackets
    BY UpTypes DEF Rates
  <2>2. up' = up \/ up' = Append(up, Packet("set_baud", "fast"))
    BY <1>2 DEF Switches
  <2> QED
    BY <1>0, <1>1, <2>1, <2>2, NewUpOne
<1>3. ASSUME Turns PROVE NewUp({"set_baud", "info"})
  <2>1. Packet("set_baud", "slow") \in UpPackets /\ Packet("info", "") \in UpPackets
    BY UpTypes DEF Rates
  <2>2. up' = up \/ up' = Append(up, Packet("set_baud", "slow")) \/ up' = Append(up, Packet("info", ""))
    BY <1>3 DEF Turns
  <2> QED
    BY <1>0, <1>1, <2>1, <2>2, NewUpOne
<1>4. ASSUME Issues, Op = "write" PROVE NewUp({"write", "data"})
  <2>1. off \in Nat /\ off < Blocks
    BY <1>0, <1>4 DEF Issues, OpIs, OffInv, TypeInv
  <2>2. WindowPackets \in Seq(UpPackets) /\ \A i \in 1..Len(WindowPackets) : WindowPackets[i].kind \in {"write", "data"}
    BY <2>1, WindowPacketsFacts
  <2>3. Adds(up, up', WindowPackets)
    BY <1>4 DEF Issues, Request
  <2> QED
    BY <1>0, <2>2, <2>3, NewUpBy
<1>5. ASSUME Continues PROVE NewUp({"data"})
  <2> DEFINE b == IF Op = "selfupdate" THEN Blocks + 1 ELSE off + 1
             s == Tail(BlockPackets(b))
  <2>1. b \in 1..(Blocks + 1)
    <3>1. CASE Op = "selfupdate"
      BY <3>1, LinkAssumption
    <3>2. CASE Op = "write"
      <4>1. off \in Nat /\ off < Blocks
        BY <1>0, <1>5, <3>2 DEF Continues, OpIs, OffInv, TypeInv
      <4> QED
        BY <3>2, <4>1, LinkAssumption
    <3> QED
      BY <1>5, <3>1, <3>2 DEF Continues, PlaceInv
  <2>2. s \in Seq(UpPackets) /\ \A i \in 1..Len(s) : s[i].kind \in {"data"}
    <3> HIDE DEF b
    <3> QED
      BY <2>1, BlockTail
  <2>3. up' = up \/ Adds(up, up', s)
    BY <1>5 DEF Continues
  <2> HIDE DEF s
  <2> QED
    BY <1>0, <2>2, <2>3, NewUpBy
<1>6. ASSUME Asks PROVE NewUp({"crc_sector"})
  <2>1. CASE up' = up
    BY <1>0, <2>1
  <2>2. CASE up' # up
    <3>1. off # Sectors /\ Adds(up, up', <<Packet("crc_sector", off + 1)>>)
      BY <1>6, <2>2 DEF Asks
    <3>2. off \in Nat /\ off <= Sectors
      BY <1>6 DEF Asks, FoundInv, TypeInv
    <3>3. off + 1 \in 1..Sectors
      BY <3>1, <3>2, LinkAssumption
    <3> DEFINE x == Packet("crc_sector", off + 1)
    <3>4. x \in UpPackets /\ x.kind = "crc_sector" /\ Adds(up, up', <<x>>)
      BY <1>1, <3>1, <3>3, UpTypes
    <3> HIDE DEF x
    <3> QED
      BY <1>0, <3>4, AddsOne, NewUpOne
  <2> QED
    BY <2>1, <2>2
<1>7. ASSUME Retries PROVE NewUp({"write"})
  <2> DEFINE x == Packet("write", off + 1)
  <2>1. off \in Nat /\ off < Blocks
    BY <1>0, <1>7 DEF Retries, PlaceInv, OpIs, OffInv, TypeInv
  <2>2. off + 1 \in 1..(Blocks + 1)
    BY <2>1, LinkAssumption
  <2>3. x \in UpPackets /\ x.kind = "write" /\ Adds(up, up', <<x>>)
    BY <1>1, <1>7, <2>2, UpTypes DEF Retries
  <2> HIDE DEF x
  <2> QED
    BY <1>0, <2>3, AddsOne, NewUpOne
<1> QED
  BY <1>2, <1>3, <1>4, <1>5, <1>6, <1>7

\* Nothing but CRC-32s, and what the agent answers to other packets, is a CRC-32.
LEMMA NoCrcSteps ==
  ASSUME TypeInv, Works, \A i \in DOMAIN down : down[i].kind # "crc",
         Takes => up[1].kind \in {"info", "set_baud", "write", "data", "membw", "mark_bad", "reboot"}
  PROVE  \A i \in DOMAIN down' : down'[i].kind # "crc"
<1>0. down \in Seq(DownPackets)
  BY DEF TypeInv
<1>1. Okay.kind # "crc" /\ Errors.kind # "crc" /\ Ready.kind # "crc"
  BY DownKinds
<1>2. CASE Shrinks
  BY <1>0, <1>2, ShrinksFacts
<1>3. CASE Idles
  BY <1>1, <1>3 DEF Idles
<1>4. ASSUME NEW x \in DownPackets, x.kind # "crc", down' = Append(down, x)
      PROVE  \A i \in DOMAIN down' : down'[i].kind # "crc"
  BY <1>0, <1>4, AppendedDown
<1>5. CASE Takes /\ Replies
  <2>1. CASE \E x \in DownPackets : OneAnswer(x) /\ down' = Append(down, x)
    <3>1. PICK x \in DownPackets : OneAnswer(x) /\ down' = Append(down, x)
      BY <2>1
    <3>2. x = Packet("info", "") \/ x = Packet("membw", "") \/ x = Okay \/ x = Errors
      BY <1>5, <3>1 DEF OneAnswer
    <3>4. Packet("info", "").kind = "info" /\ Packet("membw", "").kind = "membw"
      BY DEF Packet
    <3>3. x.kind # "crc"
      BY <1>1, <3>2, <3>4
    <3> QED
      BY <1>4, <3>1, <3>3
  <2> QED
    BY <1>5, <2>1, TakeOne
<1>6. CASE Receives
  <2>1. down' = down \/ Adds(down, down', <<Okay>>) \/ Adds(down, down', <<Errors>>)
    BY <1>6 DEF Receives
  <2>2. down' = down \/ down' = Append(down, Okay) \/ down' = Append(down, Errors)
    <3>1. Okay \in DownPackets /\ Errors \in DownPackets
      BY DownTypes
    <3> QED
      BY <1>0, <2>1, <3>1, AddsOne
  <2>3. Okay \in DownPackets /\ Errors \in DownPackets
    BY DownTypes
  <2> QED
    BY <1>1, <1>4, <2>2, <2>3
<1>7. CASE Starves
  <2>1. Errors \in DownPackets
    BY DownTypes
  <2> QED
    BY <1>1, <1>4, <1>7, <2>1, StarveGrows
<1> QED
  BY <1>2, <1>3, <1>5, <1>6, <1>7, DownSteps

\* The operation that becomes claimed is the one that has been under way.
LEMMA NewClaim ==
  ASSUME TypeInv, ClaimInv, Works, NEW x \in claims', x \notin claims
  PROVE  Done /\ x = Op /\ pc \notin {"closed", "upload", "connect"}
<1>0. cmd \in Commands /\ step \in 1..Len(Script(cmd))
  BY DEF TypeInv
<1> QED
  BY <1>0, WorkEffect, DoneEffect DEF Proceeds, hostVars

\* At the end of a command's last operation.
LEMMA AnswerStep ==
  ASSUME TypeInv, Works, pc = "answer", step = Len(Script(cmd)), ~ UNCHANGED hostVars
  PROVE  /\ Listens /\ pc' \in {"answer", "closed"} /\ step' = step /\ Shrinks /\ UNCHANGED <<up, task, ram, flash>>
         /\ claims' # claims => (rcvFrame /\ Answered(Head(down))) \/ Op = "reboot"
<1>0. Listens /\ Shrinks /\ UNCHANGED <<up, task, ram, flash>>
  BY DEF Works, vars, hostVars, WriteFlash, Switches, Turns, Issues, Continues, Asks, Retries, Idles, Takes, Receives,
         Starves, hostSide, silentSide, agentSide, agentVars
<1>1. Done => pc' = "closed" /\ step' = step
  <2>1. cmd \in Commands /\ step \in 1..Len(Script(cmd)) /\ step = Len(Script(cmd))
    BY DEF TypeInv
  <2> QED
    BY <2>1, DoneEffect
<1>2. Failed => pc' = "closed" /\ step' = step /\ claims' = claims
  BY DEF Failed
<1>3. CASE SkipReady
  BY <1>0, <1>3 DEF SkipReady
<1>4. CASE Timeout
  <2>1. Failed \/ (Done /\ Op = "reboot")
    BY <1>4 DEF Timeout, CompatResult
  <2> QED
    BY <1>0, <1>1, <1>2, <2>1
<1>5. CASE rcvFrame /\ Answered(Head(down))
  <2>1. Done \/ Failed
    BY <1>5 DEF Answered
  <2> QED
    BY <1>0, <1>1, <1>2, <1>5, <2>1
<1>6. CASE rcvFrame /\ EraseAck(Head(down))
  BY <1>6 DEF EraseAck
<1>7. CASE rcvFrame /\ ScanAnswer(Head(down))
  BY <1>7 DEF ScanAnswer
<1> QED
  BY <1>0, <1>3, <1>4, <1>5, <1>6, <1>7 DEF Listens, DumpSkip, Drain, VerifyBaud, ReadStream, WindowAck, BlockCrc,
     CompatAnswer, CompatResult

\* The steps of the host that send.
Requests == Switches \/ Turns \/ Issues \/ Continues \/ Asks \/ Retries

LEMMA HostLeavesAlone ==
  ASSUME Works, ~ UNCHANGED hostVars
  PROVE  /\ UNCHANGED <<task, ram>> /\ (Requests \/ up' = up)
         /\ ~ Takes /\ ~ Receives /\ ~ Starves /\ ~ Idles
BY DEF Works, vars, hostVars, WriteFlash, Switches, Turns, Issues, Continues, Asks, Retries, Idles, Takes, Receives,
       Starves, hostSide, silentSide, agentSide, agentVars, Requests

\* Every step keeps what crc32 counts on.
LEMMA VerifyStep ==
  ASSUME TypeInv, PlaceInv, ClaimInv, ConnectInv, FoundInv, OffInv, DumpInv, MineInv, VerifyInv, [Next]_vars
  PROVE  VerifyInv'
<1> SUFFICES ASSUME cmd' = "write", Mine'
             PROVE  /\ \A i \in DOMAIN up' : up'[i].kind = "crc" =>
                         /\ i = Len(up') /\ up'[i].val = "ram" /\ pc' \in {"answer", "closed"} /\ step' = 2
                         /\ \A j \in DOMAIN down' : down'[j].kind # "crc"
                    /\ \A i \in DOMAIN down' : down'[i].kind = "crc" =>
                         up' = <<>> /\ task' = 0 /\ down'[i].val = ram' /\ pc' \in {"answer", "closed"} /\ step' = 2
                    /\ "verify" \in claims' => ram' = Written' /\ up' = <<>> /\ task' = 0
  BY DEF VerifyInv
<1>1. CASE Fresh
  BY <1>1 DEF Fresh, agentSide, agentVars
<1>2. CASE Works /\ Mine
  <2>0. cmd = "write" /\ Written' = Written
    BY <1>2, WorkEffect DEF Written
  <2>1. OpIs /\ CmdIs /\ cmd \in Commands /\ step \in 1..Len(Script(cmd))
    BY OpTable DEF TypeInv
  <2>2. up \in Seq(UpPackets) /\ down \in Seq(DownPackets)
    BY DEF TypeInv
  <2>3. DOMAIN up = 1..Len(up) /\ Len(up) \in Nat /\ DOMAIN down = 1..Len(down) /\ Len(down) \in Nat
    BY <2>2
  <2>4. \A i \in DOMAIN up : up[i].kind \in {"info", "set_baud", "write", "data", "crc"}
    BY <1>2, <2>0 DEF MineInv, Sends
  <2>5. /\ \A i \in DOMAIN up : up[i].kind = "crc" =>
             /\ i = Len(up) /\ up[i].val = "ram" /\ pc \in {"answer", "closed"} /\ step = 2
             /\ \A j \in DOMAIN down : down[j].kind # "crc"
        /\ \A i \in DOMAIN down : down[i].kind = "crc" =>
             up = <<>> /\ task = 0 /\ down[i].val = ram /\ pc \in {"answer", "closed"} /\ step = 2
        /\ "verify" \in claims => ram = Written /\ up = <<>> /\ task = 0
    BY <1>2, <2>0 DEF VerifyInv
  <2> HIDE DEF Written
  <2>6. CASE UNCHANGED hostVars
    <3>1. CASE Takes /\ Replies /\ Grows
      <4>0. Taken /\ up # <<>> /\ task = 0 /\ ram' = ram
        BY <1>2, <3>1, TailFacts, <2>2 DEF Taken, Takes
      <4>1. CASE up[1].kind = "crc"
        <5>1. Len(up) = 1 /\ up[1].val = "ram" /\ \A j \in DOMAIN down : down[j].kind # "crc"
          BY <2>2, <2>5, <4>0, <4>1, TakenFacts
        <5>2. up' = <<>> /\ task' = 0
          BY <2>2, <3>1, <4>0, <4>1, <5>1, TakenFacts DEF Taken, Takes
        <5>3. \A i \in DOMAIN down' : down'[i].kind = "crc" => down'[i].val = ram
          <6>1. CASE down' = down
            BY <5>1, <6>1
          <6>2. CASE \E x \in DownPackets : OneAnswer(x) /\ down' = Append(down, x)
            <7>1. PICK x \in DownPackets : OneAnswer(x) /\ down' = Append(down, x)
              BY <6>2
            <7>2. x.val = ram
              BY <4>1, <5>1, <7>1 DEF OneAnswer, Packet
            <7> QED
              BY <2>2, <5>1, <7>1, <7>2, AppendedDown
          <6> QED
            BY <3>1, <4>1, <6>1, <6>2, TakeOne
        <5>4. pc' \in {"answer", "closed"} /\ step' = 2 /\ "verify" \notin claims'
          BY <2>5, <2>6, <4>0, <4>1, <2>2, TakenFacts DEF hostVars
        <5> QED
          BY <4>0, <5>2, <5>3, <5>4
      <4>2. CASE up[1].kind # "crc"
        <5>1. \A j \in DOMAIN down : down[j].kind # "crc"
          BY <2>5, <4>0
        <5>2. up[1].kind \in {"info", "set_baud", "write", "data"}
          BY <2>2, <2>4, <4>0, <4>2, TakenFacts
        <5>3. \A j \in DOMAIN down' : down'[j].kind # "crc"
          BY <1>2, <5>1, <5>2, NoCrcSteps
        <5>4. "verify" \notin claims'
          BY <2>5, <2>6, <4>0 DEF hostVars
        <5>5. ASSUME NEW i \in DOMAIN up', up'[i].kind = "crc"
              PROVE  i = Len(up') /\ up'[i].val = "ram" /\ pc' \in {"answer", "closed"} /\ step' = 2
          <6>1. i + 1 \in DOMAIN up /\ up'[i] = up[i + 1] /\ Len(up') = Len(up) - 1 /\ i \in Nat
            BY <2>2, <4>0, TakenFacts
          <6>2. i + 1 = Len(up) /\ up[i + 1].val = "ram" /\ pc \in {"answer", "closed"} /\ step = 2
            BY <2>5, <5>5, <6>1
          <6> QED
            BY <2>3, <2>6, <6>1, <6>2 DEF hostVars
        <5> QED
          BY <5>3, <5>4, <5>5
      <4> QED
        BY <4>1, <4>2
    <3>2. CASE (Receives \/ (Starves /\ up' # up)) /\ Grows
      <4>0. Taken /\ up # <<>>
        <5>1. Receives => Taken
          BY <2>2, TailFacts DEF Taken, Receives
        <5> QED
          BY <3>2, <5>1, StarvedUp DEF Taken
      <4>1. \A j \in DOMAIN down : down[j].kind # "crc"
        BY <2>5, <4>0
      <4>2. Receives => ~ Takes
        BY DEF Takes, Receives
      <4>3. \A j \in DOMAIN down' : down'[j].kind # "crc"
        BY <1>2, <3>2, <4>1, <4>2, NoCrcSteps, StarveFacts
      <4>4. "verify" \notin claims'
        BY <2>5, <2>6, <4>0 DEF hostVars
      <4>5. ASSUME NEW i \in DOMAIN up', up'[i].kind = "crc"
            PROVE  i = Len(up') /\ up'[i].val = "ram" /\ pc' \in {"answer", "closed"} /\ step' = 2
        <5>1. i + 1 \in DOMAIN up /\ up'[i] = up[i + 1] /\ Len(up') = Len(up) - 1 /\ i \in Nat
          BY <2>2, <4>0, TakenFacts
        <5>2. i + 1 = Len(up) /\ up[i + 1].val = "ram" /\ pc \in {"answer", "closed"} /\ step = 2
          BY <2>5, <4>5, <5>1
        <5> QED
          BY <2>3, <2>6, <5>1, <5>2 DEF hostVars
      <4> QED
        BY <4>3, <4>4, <4>5
    <3>3. CASE Starves /\ up' = up /\ Grows
      <4>0. task # 0 /\ up' = up
        <5>1. ~ Taken
          BY <2>2, <3>3, TakenMoves
        <5> QED
          BY <3>3, <5>1, StarvedUp
      <4>1. \A j \in DOMAIN down : down[j].kind # "crc"
        BY <2>5, <4>0
      <4>2. ~ Takes
        BY <4>0 DEF Takes
      <4>3. \A j \in DOMAIN down' : down'[j].kind # "crc"
        BY <1>2, <4>1, <4>2, NoCrcSteps
      <4>4. "verify" \notin claims'
        BY <2>5, <2>6, <4>0 DEF hostVars
      <4> QED
        BY <2>5, <2>6, <4>0, <4>3, <4>4 DEF hostVars
    <3>4. CASE Idles
      <4>1. up = <<>> /\ up' = <<>> /\ task = 0 /\ task' = 0 /\ ram' = ram /\ (down' = down \/ down' = <<Ready>>)
        BY <3>4 DEF Idles
      <4>2. Ready.kind # "crc"
        BY DownKinds
      <4> QED
        BY <2>5, <2>6, <4>1, <4>2 DEF hostVars
    <3>5. CASE UNCHANGED <<up, task, ram>> /\ Shrinks
      <4>1. \A i \in DOMAIN down' : \E j \in DOMAIN down : down'[i] = down[j]
        BY <2>2, <3>5, ShrinksFacts
      <4> QED
        BY <2>5, <2>6, <3>5, <4>1 DEF hostVars
    <3>6. CASE Switches \/ Turns \/ Issues \/ Continues \/ Asks \/ Retries \/ UNCHANGED vars \/ WriteFlash
      <4>1. pc' # pc => FALSE
        BY <2>6 DEF hostVars
      <4>2. ~ Switches /\ ~ Turns /\ ~ Issues /\ ~ Continues /\ ~ Asks /\ ~ Retries
        BY <4>1, WaitsPlace DEF Switches, Turns, Issues, Continues, Asks, Retries, Done
      <4>3. UNCHANGED <<up, down, task, ram>>
        BY <3>6, <4>2 DEF vars, agentVars, WriteFlash
      <4> QED
        BY <2>5, <2>6, <4>3 DEF hostVars
    <3> QED
      BY <1>2, <3>1, <3>2, <3>3, <3>4, <3>5, <3>6 DEF Works, silentSide, agentSide, agentVars
  <2>7. CASE ~ UNCHANGED hostVars /\ pc = "answer"
    <3>0. step = 2 /\ step = Len(Script(cmd)) /\ Op = "verify"
      BY <2>0, <2>1, <2>7 DEF PlaceInv, OpIs, CmdIs
    <3>1. /\ Listens /\ pc' \in {"answer", "closed"} /\ step' = step /\ Shrinks /\ UNCHANGED <<up, task, ram>>
          /\ claims' # claims => rcvFrame /\ Answered(Head(down))
      BY <1>2, <2>7, <3>0, AnswerStep
    <3>2. \A i \in DOMAIN down' : \E j \in DOMAIN down : down'[i] = down[j]
      BY <2>2, <3>1, ShrinksFacts
    <3>3. "verify" \in claims' => ram = Written /\ up = <<>> /\ task = 0
      <4>1. CASE "verify" \in claims
        BY <2>5, <4>1
      <4>2. CASE "verify" \in claims' /\ "verify" \notin claims
        <5>1. rcvFrame /\ Answered(Head(down)) /\ claims' # claims
          BY <3>1, <4>2
        <5>2. Head(down).kind = "crc" /\ Head(down).val = Written
          <6>1. ~ Failed
            BY <5>1 DEF Failed
          <6> QED
            BY <2>0, <3>0, <5>1, <6>1 DEF Answered
        <5>3. Head(down) = down[1] /\ 1 \in DOMAIN down
          BY <2>2, <5>1 DEF rcvFrame
        <5> QED
          BY <2>5, <5>2, <5>3
      <4> QED
        BY <4>1, <4>2
    <3> QED
      BY <2>0, <2>5, <3>0, <3>1, <3>2, <3>3
  <2>8. CASE ~ UNCHANGED hostVars /\ pc # "answer"
    <3>0. pc \notin {"closed", "upload", "connect"}
      BY <1>2, <2>8, WorkEffect
    <3>1. (\A i \in DOMAIN up : up[i].kind # "crc") /\ (\A i \in DOMAIN down : down[i].kind # "crc")
      BY <2>5, <2>8, <3>0
    <3>2. /\ UNCHANGED <<task, ram>> /\ (Requests \/ up' = up) /\ ~ Takes
      BY <1>2, <2>8, HostLeavesAlone
    <3>3. \A i \in DOMAIN down' : down'[i].kind # "crc"
      BY <1>2, <3>1, <3>2, NoCrcSteps
    <3>4. "verify" \notin claims
      <4>1. step = 2 => Op = "verify"
        BY <2>0, <2>1 DEF CmdIs
      <4>2. CASE step = 2
        BY <3>0, <4>1, <4>2, NotYet
      <4>3. CASE step = 1
        <5>1. claims = {}
          BY <3>0, <4>3 DEF ClaimInv
        <5> QED
          BY <5>1
      <4> QED
        BY <2>0, <2>1, <4>2, <4>3 DEF CmdIs
    <3>5. "verify" \notin claims'
      <4> SUFFICES ASSUME "verify" \in claims' PROVE FALSE
        OBVIOUS
      <4>1. Done /\ Op = "verify"
        BY <1>2, <3>4, NewClaim
      <4>2. pc' = "closed" \/ pc' = "run"
        BY <4>1 DEF Done
      <4>3. claims' # claims
        BY <3>4
      <4>4. CASE Listens
        BY <2>8, <4>1, <4>2, <4>3, <4>4 DEF Listens, DumpSkip, SkipReady, Timeout, Drain, VerifyBaud, Answered, ReadStream,
           WindowAck, BlockCrc, EraseAck, ScanAnswer, CompatAnswer, CompatResult, Failed, PlaceInv
      <4>5. CASE ~ Listens
        BY <1>2, <2>8, <4>1, <4>3, <4>5 DEF Works, vars, hostVars, WriteFlash, Switches, Turns, Issues, Continues, Asks, Retries,
           Idles, Takes, Receives, Starves, hostSide, PlaceInv
      <4> QED
        BY <4>4, <4>5
    <3>6. CASE up' = up
      BY <3>1, <3>3, <3>5, <3>6
    <3>7. CASE Issues /\ Op # "write"
      <4>1. Op = "verify" /\ step = 2
        BY <2>0, <2>1, <3>7 DEF CmdIs
      <4>2. Asked = Packet("crc", "ram") /\ Asked \in UpPackets
        BY <2>0, <3>7, <4>1, AskedFacts DEF Asked, Issues
      <4>3. up' = up \/ up' = Append(up, Asked)
        BY <3>7, IssueOne
      <4>4. pc' = "answer" /\ step' = 2
        BY <3>7, <4>1 DEF Issues, Waits
      <4>5. Asked.val = "ram"
        BY <4>2 DEF Packet
      <4>6. CASE up' = Append(up, Asked)
        <5>1. \A i \in DOMAIN up' : (i \in DOMAIN up /\ up'[i] = up[i]) \/ (i = Len(up) + 1 /\ up'[i] = Asked)
          BY <2>2, <4>2, <4>6, AppendedUp
        <5>2. Len(up') = Len(up) + 1
          BY <2>2, <4>2, <4>6, AppendedUp
        <5> QED
          BY <3>1, <3>3, <3>5, <4>4, <4>5, <5>1, <5>2
      <4> QED
        BY <3>6, <4>3, <4>6
    <3>8. CASE Switches \/ Turns \/ (Issues /\ Op = "write") \/ Continues \/ Asks \/ Retries
      <4>1. NewUp({"set_baud", "info", "write", "data", "crc_sector"})
        BY <3>8, HostKinds DEF NewUp
      <4>2. \A i \in DOMAIN up' : up'[i].kind # "crc"
        BY <3>1, <4>1 DEF NewUp
      <4> QED
        BY <3>3, <3>5, <4>2
    <3> QED
      BY <3>2, <3>6, <3>7, <3>8 DEF Requests
  <2> QED
    BY <2>6, <2>7, <2>8
<1> QED
  BY <1>1, <1>2, MineStep

\* crc32 has returned: with the packet that the host has just received.
LEMMA VerifyDone ==
  ASSUME TypeInv, PlaceInv, Works, Done, Op = "verify", claims' # claims
  PROVE  rcvFrame /\ Answered(Head(down))
<1>1. pc' = "closed" \/ pc' = "run"
  BY DEF Done
<1>2. CASE Listens
  BY <1>1, <1>2 DEF Listens, DumpSkip, SkipReady, Timeout, Drain, VerifyBaud, Answered, ReadStream,
     WindowAck, BlockCrc, EraseAck, ScanAnswer, CompatAnswer, CompatResult, Failed, PlaceInv
<1>3. CASE ~ Listens
  BY <1>1, <1>3 DEF Works, vars, hostVars, WriteFlash, Switches, Turns, Issues, Continues, Asks, Retries,
     Idles, Takes, Receives, Starves, hostSide, PlaceInv
<1> QED
  BY <1>2, <1>3

---------------------------------------------------------------------------
(* agent flash: the CRC-32 before the reboot.                              *)

\* Steps that leave the host where it is.
LEMMA AgentSteps ==
  ASSUME Works, UNCHANGED hostVars
  PROVE  \/ Takes /\ Replies /\ Grows
         \/ Receives /\ Grows
         \/ Starves /\ Grows
         \/ Idles
         \/ (Shrinks \/ down' = down) /\ UNCHANGED <<up, task, ram, flash, rate, alive, buf>>
<1>1. pc' # pc => FALSE
  BY DEF hostVars
<1>2. ~ Switches /\ ~ Turns /\ ~ Issues /\ ~ Continues /\ ~ Asks /\ ~ Retries
  BY <1>1, WaitsPlace DEF Switches, Turns, Issues, Continues, Asks, Retries, Done
<1>3. ~ WriteFlash
  BY <1>1 DEF WriteFlash, Done, Failed
<1> QED
  BY <1>2, <1>3 DEF Works, silentSide, agentSide, agentVars, vars

\* What the host's steps do to the flash.
LEMMA HostFlash ==
  ASSUME Works, ~ UNCHANGED hostVars
  PROVE  WriteFlash \/ UNCHANGED <<flash, alive, rate, buf>>
BY HostLeavesAlone DEF Works, vars, hostVars, Switches, Turns, Issues, Continues, Asks, Retries, silentSide, agentSide, agentVars

\* What an agent without erase and without read adds is no data, and the
\* CRC-32s that it adds are of what it holds.
LEMMA CrcAnswer ==
  ASSUME TypeInv, Takes, Replies, up[1].kind = "crc", up[1].val = "flash"
  PROVE  \A i \in DOMAIN down' : (i \in DOMAIN down /\ down'[i] = down[i]) \/ down'[i].val = flash
<1>0. down \in Seq(DownPackets)
  BY DEF TypeInv
<1>1. CASE down' = down
  BY <1>1
<1>2. CASE \E x \in DownPackets : OneAnswer(x) /\ down' = Append(down, x)
  <2>1. PICK x \in DownPackets : OneAnswer(x) /\ down' = Append(down, x)
    BY <1>2
  <2>2. x.val = flash
    BY <2>1 DEF OneAnswer, Packet
  <2> QED
    BY <1>0, <2>1, <2>2, AppendedDown
<1> QED
  BY <1>1, <1>2, TakeOne

\* Every step keeps what agent flash counts on.
LEMMA FlashStep ==
  ASSUME TypeInv, PlaceInv, ClaimInv, ConnectInv, FoundInv, OffInv, DumpInv, MineInv, FlashInv, [Next]_vars
  PROVE  FlashInv'
<1> SUFFICES ASSUME cmd' = "flash", Mine'
             PROVE  /\ \A i \in DOMAIN up' : up'[i].kind = "crc" => up'[i].val = "flash" /\ step' >= 3
                    /\ \A i \in DOMAIN down' : down'[i].kind = "crc" => down'[i].val = flash' /\ step' >= 3
                    /\ "verify" \in claims' => flash' = Imaged'
  BY DEF FlashInv
<1>1. CASE Fresh
  BY <1>1 DEF Fresh, agentSide, agentVars
<1>2. CASE Works /\ Mine
  <2>0. cmd = "flash" /\ Imaged' = Imaged
    BY <1>2, WorkEffect DEF Imaged
  <2>1. OpIs /\ CmdIs /\ cmd \in Commands /\ step \in 1..Len(Script(cmd))
    BY OpTable DEF TypeInv
  <2>2. up \in Seq(UpPackets) /\ down \in Seq(DownPackets)
    BY DEF TypeInv
  <2>3. DOMAIN up = 1..Len(up) /\ Len(up) \in Nat /\ DOMAIN down = 1..Len(down) /\ Len(down) \in Nat
    BY <2>2
  <2>4. (\A i \in DOMAIN up : up[i].kind \in {"info", "set_baud", "crc", "reboot"}) /\ task = 0
    BY <1>2, <2>0 DEF MineInv, Sends, Flashes
  <2>5. /\ \A i \in DOMAIN up : up[i].kind = "crc" => up[i].val = "flash" /\ step >= 3
        /\ \A i \in DOMAIN down : down[i].kind = "crc" => down[i].val = flash /\ step >= 3
        /\ "verify" \in claims => flash = Imaged
    BY <1>2, <2>0 DEF FlashInv
  <2> HIDE DEF Imaged
  <2>6. CASE UNCHANGED hostVars
    <3>0. ~ Receives /\ step' = step /\ claims' = claims
      BY <2>4, <2>6 DEF Receives, hostVars
    <3>1. CASE Takes /\ Replies /\ Grows
      <4>0. Taken /\ up # <<>>
        BY <3>1, TailFacts, <2>2 DEF Taken, Takes
      <4>1. 1 \in DOMAIN up /\ up[1].kind \in {"info", "set_baud", "crc", "reboot"}
        BY <2>2, <2>4, <4>0, TakenFacts
      <4>2. flash' = flash
        BY <3>1, <4>1 DEF Takes
      <4>3. \A i \in DOMAIN up' : up'[i].kind = "crc" => up'[i].val = "flash" /\ step >= 3
        BY <2>2, <2>5, <4>0, TakenFacts
      <4>4. \A i \in DOMAIN down' : down'[i].kind = "crc" => down'[i].val = flash /\ step >= 3
        <5>1. CASE up[1].kind = "crc"
          BY <2>5, <3>1, <4>1, <5>1, CrcAnswer
        <5>2. CASE up[1].kind # "crc" /\ down' # down
          <6>1. PICK x \in DownPackets : OneAnswer(x) /\ down' = Append(down, x)
            BY <3>1, <4>1, <5>2, TakeOne
          <6>2. x = Packet("info", "") \/ x = Okay
            BY <4>1, <5>2, <6>1 DEF OneAnswer
          <6>3. x.kind # "crc"
            <7>1. Packet("info", "").kind = "info"
              BY DEF Packet
            <7> QED
              BY <6>2, <7>1, DownKinds
          <6> QED
            BY <2>2, <2>5, <6>1, <6>3, AppendedDown
        <5>3. CASE down' = down
          BY <2>5, <5>3
        <5> QED
          BY <5>1, <5>2, <5>3
      <4> QED
        BY <2>5, <3>0, <4>2, <4>3, <4>4
    <3>2. CASE Idles
      <4>1. UNCHANGED <<up, flash>> /\ (down' = down \/ down' = <<Ready>>)
        BY <3>2 DEF Idles
      <4>2. Ready.kind # "crc"
        BY DownKinds
      <4> QED
        BY <2>5, <3>0, <4>1, <4>2
    <3>3. CASE (Shrinks \/ down' = down) /\ UNCHANGED <<up, task, ram, flash, rate, alive, buf>>
      <4>1. \A i \in DOMAIN down' : \E j \in DOMAIN down : down'[i] = down[j]
        BY <2>2, <3>3, ShrinksFacts
      <4> QED
        BY <2>5, <3>0, <3>3, <4>1
    <3>4. CASE Starves
      BY <2>5, <3>0, <3>4, StarveFacts, StarvedUp
    <3> QED
      BY <1>2, <2>6, <3>0, <3>1, <3>2, <3>3, <3>4, AgentSteps
  <2>7. CASE ~ UNCHANGED hostVars
    <3>0. Proceeds /\ pc \notin {"closed", "upload", "connect"}
      BY <1>2, <2>7, WorkEffect
    <3>1. step' >= step /\ step \in Nat /\ step' \in Nat /\ (step >= 3 => step' >= 3)
      <4>1. step \in Nat
        BY <2>1, ScriptTable, <2>0
      <4>2. CASE step' = step
        BY <4>1, <4>2
      <4>3. CASE Done
        <5>1. step' = step \/ step' = step + 1
          BY <2>1, <4>3, DoneEffect
        <5> QED
          BY <4>1, <5>1
      <4> QED
        BY <3>0, <4>1, <4>2, <4>3 DEF Proceeds
    <3>2. /\ (Requests \/ up' = up) /\ ~ Takes /\ ~ Receives /\ ~ Starves /\ ~ Idles
      BY <1>2, <2>7, HostLeavesAlone
    <3>3. \A i \in DOMAIN down' : \E j \in DOMAIN down : down'[i] = down[j]
      BY <1>2, <2>2, <3>2, DownSteps, ShrinksFacts
    <3>4. \A i \in DOMAIN up' : up'[i].kind = "crc" => up'[i].val = "flash" /\ step' >= 3
      <4>1. CASE up' = up
        <5>1. \A i \in DOMAIN up : up[i].kind = "crc" => up[i].val = "flash" /\ step' >= 3
          BY <2>5, <3>1
        <5> QED
          BY <4>1, <5>1
      <4>2. CASE Issues /\ up' # up
        <5>1. Op \in {"info", "verify", "reboot"} /\ Op # "write_flash" /\ Op # "write"
          BY <2>0, <2>1, <4>2 DEF Issues, CmdIs
        <5>2. up' = Append(up, Asked) /\ Asked \in UpPackets
          BY <4>2, <5>1, IssueOne, AskedFacts DEF Issues
        <5>3. Asked.kind = "crc" => Asked.val = "flash" /\ step' >= 3
          <6>1. CASE Op = "verify"
            <7>1. step = 3
              BY <2>0, <2>1, <6>1 DEF OpIs
            <7>2. Asked.val = "flash"
              BY <2>0, <6>1 DEF Asked, Packet
            <7> QED
              BY <3>1, <7>1, <7>2
          <6>2. CASE Op \in {"info", "reboot"}
            BY <6>2 DEF Asked, Packet
          <6> QED
            BY <5>1, <6>1, <6>2
        <5>4. \A i \in DOMAIN up' : (i \in DOMAIN up /\ up'[i] = up[i]) \/ up'[i] = Asked
          BY <2>2, <5>2, AppendedUp
        <5> QED
          BY <2>5, <3>1, <5>3, <5>4
      <4>3. CASE Switches \/ Turns \/ Continues \/ Asks \/ Retries
        <5>1. NewUp({"set_baud", "info", "data", "write", "crc_sector"})
          BY <4>3, HostKinds DEF NewUp
        <5> QED
          BY <2>5, <3>1, <5>1 DEF NewUp
      <4> QED
        BY <3>2, <4>1, <4>2, <4>3 DEF Requests
    <3>5. CASE WriteFlash
      <4>1. step = 2 /\ claims' \subseteq claims \cup {Op} /\ Op = "write_flash"
        BY <2>0, <2>1, <3>5 DEF WriteFlash, OpIs, Done, Failed
      <4>2. "verify" \notin claims
        <5>1. \A x \in claims : \E i \in 1..step : Script(cmd)[i] = x /\ i < step
          BY <3>0 DEF ClaimInv
        <5> QED
          BY <2>0, <4>1, <5>1, ScriptTable
      <4>3. \A j \in DOMAIN down : down[j].kind # "crc"
        BY <2>5, <4>1
      <4> QED
        BY <3>3, <3>4, <4>1, <4>2, <4>3
    <3>6. CASE ~ WriteFlash
      <4>1. flash' = flash
        BY <1>2, <2>7, <3>6, HostFlash
      <4>2. \A i \in DOMAIN down' : down'[i].kind = "crc" => down'[i].val = flash /\ step' >= 3
        <5>1. \A i \in DOMAIN down : down[i].kind = "crc" => down[i].val = flash /\ step' >= 3
          BY <2>5, <3>1
        <5> QED
          BY <3>3, <5>1
      <4>3. "verify" \in claims' => flash = Imaged
        <5>1. CASE "verify" \in claims
          BY <2>5, <5>1
        <5>2. CASE "verify" \in claims' /\ "verify" \notin claims
          <6>1. Done /\ Op = "verify"
            BY <1>2, <5>2, NewClaim
          <6>2. rcvFrame /\ Answered(Head(down))
            BY <1>2, <5>2, <6>1, VerifyDone
          <6>3. Head(down).kind = "crc" /\ Head(down).val = Imaged
            <7>1. ~ Failed
              BY <5>2 DEF Failed
            <7> QED
              BY <2>0, <6>1, <6>2, <7>1 DEF Answered
          <6>4. Head(down) = down[1] /\ 1 \in DOMAIN down
            BY <2>2, <6>2 DEF rcvFrame
          <6> QED
            BY <2>5, <6>3, <6>4
        <5> QED
          BY <5>1, <5>2
      <4> QED
        BY <3>4, <4>1, <4>2, <4>3, <2>0
    <3> QED
      BY <3>5, <3>6
  <2> QED
    BY <2>6, <2>7
<1> QED
  BY <1>1, <1>2, MineStep

\* The request to reboot comes once the image has been verified.
LEMMA RebootStep ==
  ASSUME TypeInv, PlaceInv, ClaimInv, ConnectInv, FoundInv, OffInv, DumpInv, MineInv, FlashInv, RebootInv, [Next]_vars
  PROVE  RebootInv'
<1> SUFFICES ASSUME cmd' = "flash", Mine', NEW i \in DOMAIN up', up'[i].kind = "reboot"
             PROVE  flash' = Imaged' /\ step' = 4
  BY DEF RebootInv
<1>1. CASE Fresh
  BY <1>1 DEF Fresh, agentSide, agentVars
<1>2. CASE Works /\ Mine
  <2>0. cmd = "flash" /\ Imaged' = Imaged /\ up \in Seq(UpPackets)
    BY <1>2, WorkEffect DEF Imaged, TypeInv
  <2>1. OpIs /\ CmdIs /\ cmd \in Commands /\ step \in 1..Len(Script(cmd))
    BY OpTable DEF TypeInv
  <2> HIDE DEF Imaged
  <2>2. ASSUME NEW j \in DOMAIN up, up[j].kind = "reboot" PROVE flash' = Imaged /\ step' = 4
    <3>1. flash = Imaged /\ step = 4 /\ Op = "reboot" /\ Len(Script(cmd)) = 4
      BY <1>2, <2>0, <2>1, <2>2 DEF RebootInv, CmdIs
    <3>2. CASE UNCHANGED hostVars
      <4>1. step' = step
        BY <3>2 DEF hostVars
      <4>2. Takes => flash' = flash
        BY <1>2, <2>0, FirstUp DEF MineInv, Sends, Flashes, Takes
      <4> QED
        BY <1>2, <3>1, <3>2, <4>1, <4>2, AgentSteps DEF Receives, Starves, Idles
    <3>3. CASE ~ UNCHANGED hostVars
      <4>1. flash' = flash
        BY <1>2, <3>1, <3>3, HostFlash DEF WriteFlash
      <4>2. step' = step
        BY <1>2, <3>1, <3>3, WorkEffect DEF Proceeds, Done
      <4> QED
        BY <3>1, <4>1, <4>2
    <3> QED
      BY <3>2, <3>3
  <2>3. CASE up' = up
    BY <2>0, <2>2, <2>3
  <2>4. CASE Taken
    BY <2>0, <2>2, <2>4, TakenFacts
  <2>5. CASE Issues /\ Op = "reboot"
    <3>1. step = 4 /\ pc = "go"
      BY <2>0, <2>1, <2>5 DEF OpIs, Issues
    <3>2. "verify" \in claims
      <4>1. \A k \in 1..3 : Script("flash")[k] \in claims
        BY <2>0, <3>1 DEF ClaimInv
      <4>2. 3 \in 1..3
        OBVIOUS
      <4> QED
        BY <4>1, <4>2, ScriptTable
    <3>3. flash = Imaged
      BY <1>2, <2>0, <3>2 DEF FlashInv
    <3> QED
      BY <2>0, <2>5, <3>1, <3>3 DEF Issues, agentSide, agentVars
  <2>6. CASE Issues /\ Op # "reboot" /\ Op # "write" /\ up' # up
    <3>1. up' = Append(up, Asked) /\ Asked \in UpPackets
      BY <2>6, IssueOne, AskedFacts DEF Issues
    <3>2. Asked.kind # "reboot"
      BY <2>6 DEF Asked, Packet
    <3> QED
      BY <2>0, <2>2, <3>1, <3>2, AppendedUp
  <2>7. CASE Switches \/ Turns \/ (Issues /\ Op = "write") \/ Continues \/ Asks \/ Retries
    <3>1. NewUp({"set_baud", "info", "data", "write", "crc_sector"})
      BY <2>7, HostKinds DEF NewUp
    <3> QED
      BY <2>0, <2>2, <3>1 DEF NewUp
  <2> QED
    BY <1>2, <2>3, <2>4, <2>5, <2>6, <2>7, UpSteps
<1> QED
  BY <1>1, <1>2, MineStep

---------------------------------------------------------------------------
(* agent erase: the second ACK is not sent before the last sector is done. *)

LEMMA EraseAnswer ==
  ASSUME TypeInv, Takes, Replies, up[1].kind = "erase", Quiet
  PROVE  AllEmpty' \/ \A i, j \in DOMAIN down' : j < i /\ down'[i] = Okay => down'[j] = Ready
<1>1. CASE flash' = [s \in 1..Sectors |-> "empty"]
  BY <1>1 DEF AllEmpty
<1>2. CASE down' = down \o <<Okay>> \o Progress(Sectors - 1) \o <<Errors>>
  <2> DEFINE s == Progress(Sectors - 1)
             w == <<Okay>> \o s \o <<Errors>>
  <2>0. down \in Seq(DownPackets)
    BY DEF TypeInv
  <2>1. s \in Seq(DownPackets) /\ Len(s) = Sectors - 1
    <3>1. Sectors - 1 \in 0..Sectors
      BY LinkAssumption
    <3> QED
      BY <3>1, ProgressFacts
  <2>2. \A k \in 1..(Sectors - 1) : s[k].kind = "data"
    <3>1. Sectors - 1 \in 0..Sectors
      BY LinkAssumption
    <3>2. \A k \in 1..(Sectors - 1) : s[k] = Packet("data", [seq |-> k, val |-> ""])
      BY <3>1, ProgressFacts
    <3> QED
      <4>1. \A k : Packet("data", [seq |-> k, val |-> ""]).kind = "data"
        BY DEF Packet
      <4> HIDE DEF s
      <4> QED
        BY <3>2, <4>1
  <2> HIDE DEF s
  <2>3. Okay \in DownPackets /\ Errors \in DownPackets
    BY DownTypes
  <2>4. /\ w \in Seq(DownPackets) /\ Len(w) = Sectors + 1 /\ w[1] = Okay /\ w[Sectors + 1] = Errors
        /\ \A k \in 1..(Sectors - 1) : w[k + 1] = s[k]
    <3>1. /\ w \in Seq(DownPackets) /\ Len(w) = Len(s) + 2 /\ w[1] = Okay /\ w[Len(s) + 2] = Errors
          /\ \A k \in 1..Len(s) : w[k + 1] = s[k]
      BY <2>1, <2>3, Between
    <3>2. Len(s) + 2 = Sectors + 1 /\ Len(s) = Sectors - 1
      BY <2>1, LinkAssumption
    <3> QED
      BY <3>1, <3>2
  <2>5. down' = down \o w
    <3>1. down \o <<Okay>> \o s \o <<Errors>> = down \o (<<Okay>> \o s \o <<Errors>>)
      <4> DEFINE o == <<Okay>>
                 e == <<Errors>>
      <4>1. o \in Seq(DownPackets) /\ e \in Seq(DownPackets)
        BY <2>3
      <4> HIDE DEF o, e
      <4>2. down \o o \o s = down \o (o \o s)
        BY <2>0, <2>1, <4>1
      <4>3. o \o s \in Seq(DownPackets)
        BY <2>1, <4>1
      <4>4. (down \o (o \o s)) \o e = down \o ((o \o s) \o e)
        BY <2>0, <4>1, <4>3
      <4> QED
        BY <4>2, <4>4 DEF o, e
    <3> QED
      BY <1>2, <3>1 DEF s
  <2>6. \A k \in 2..(Sectors + 1) : w[k] # Okay
    <3> SUFFICES ASSUME NEW k \in 2..(Sectors + 1) PROVE w[k] # Okay
      OBVIOUS
    <3>1. CASE k = Sectors + 1
      BY <2>4, <3>1, DownKinds
    <3>2. CASE k # Sectors + 1
      <4>1. k - 1 \in 1..(Sectors - 1) /\ (k - 1) + 1 = k
        BY <3>2, LinkAssumption
      <4>2. w[(k - 1) + 1] = s[k - 1]
        BY <2>4, <4>1
      <4>3. w[k].kind = "data"
        BY <2>2, <4>1, <4>2
      <4> HIDE DEF w
      <4> QED
        BY <4>3, DownKinds
    <3> QED
      BY <3>1, <3>2
  <2> HIDE DEF w
  <2>7. /\ DOMAIN down' = 1..(Len(down) + Len(w)) /\ Len(down) \in Nat
        /\ \A i \in 1..Len(down) : down'[i] = down[i] /\ down[i] = Ready
        /\ \A k \in 1..Len(w) : down'[Len(down) + k] = w[k]
    <3>1. /\ down' \in Seq(DownPackets) /\ Len(down') = Len(down) + Len(w)
          /\ \A i \in 1..Len(down) : down'[i] = down[i]
          /\ \A k \in 1..Len(w) : down'[Len(down) + k] = w[k]
      <4>1. w \in Seq(DownPackets)
        BY <2>4
      <4> QED
        BY <2>0, <2>5, <4>1, ConcatFacts
    <3>2. DOMAIN down' = 1..Len(down')
      <4>1. down' \in Seq(DownPackets)
        BY <3>1
      <4> QED
        BY <4>1
    <3>3. DOMAIN down = 1..Len(down) /\ Len(down) \in Nat
      BY <2>0
    <3> QED
      BY <3>1, <3>2, <3>3 DEF Quiet
  <2>8. ASSUME NEW i \in DOMAIN down', NEW j \in DOMAIN down', j < i, down'[i] = Okay
        PROVE  down'[j] = Ready
    <3>1. i \in Nat /\ j \in Nat /\ i >= 1 /\ j >= 1 /\ i <= Len(down) + Len(w)
      BY <2>4, <2>7, LinkAssumption
    <3>2. CASE i <= Len(down)
      <4>1. i \in 1..Len(down)
        BY <2>7, <3>1, <3>2
      <4>2. Okay = Ready
        BY <2>7, <2>8, <4>1
      <4> QED
        BY <4>2, DownKinds
    <3>3. CASE i = Len(down) + 1
      BY <2>7, <2>8, <3>1, <3>3
    <3>4. CASE i > Len(down) + 1
      <4>1. i - Len(down) \in 2..(Sectors + 1) /\ i - Len(down) \in 1..Len(w) /\ Len(down) + (i - Len(down)) = i
        BY <2>4, <2>7, <3>1, <3>4, LinkAssumption
      <4>2. down'[Len(down) + (i - Len(down))] = w[i - Len(down)]
        BY <2>7, <4>1
      <4>3. w[i - Len(down)] # Okay
        BY <2>6, <4>1
      <4> QED
        BY <2>8, <4>1, <4>2, <4>3
    <3> QED
      BY <2>7, <3>1, <3>2, <3>3, <3>4
  <2> QED
    BY <2>8
<1> QED
  BY <1>1, <1>2 DEF Replies

LEMMA EraseListens ==
  ASSUME TypeInv, PlaceInv, Listens, cmd = "erase", ~ UNCHANGED hostVars, Mine
  PROVE  \/ pc' = "closed" /\ claims' = claims
         \/ pc = "erase_ack" /\ pc' = "erase" /\ claims' = claims /\ Reads /\ down[1] = Okay
         \/ pc = "erase" /\ pc' \in {"erase", "erase_end"} /\ claims' = claims
         \/ pc = "erase_end" /\ down # <<>> /\ down[1] = Okay /\ Done
<1>1. Op = "erase"
  BY OpTable DEF TypeInv, CmdIs
<1>2. CASE rcvFrame /\ EraseAck(Head(down))
  <2>1. Head(down) = down[1] /\ Reads /\ down # <<>>
    BY <1>2, ReadsEffect DEF EraseAck, rcvFrame
  <2> QED
    BY <1>2, <2>1, DownKinds DEF EraseAck, Failed
<1>3. CASE Timeout
  BY <1>1, <1>3 DEF Timeout, PlaceInv, Failed, CompatResult, Fast
<1>4. ~ SkipReady
  BY DEF SkipReady, hostVars, hostRest
<1> QED
  BY <1>1, <1>2, <1>3, <1>4 DEF Listens, DumpSkip, Drain, VerifyBaud, Answered, ReadStream, WindowAck, BlockCrc,
     ScanAnswer, CompatAnswer, CompatResult, PlaceInv, Fast

\* Every step keeps what erase_flash counts on.
LEMMA EraseStep ==
  ASSUME TypeInv, PlaceInv, ClaimInv, ConnectInv, FoundInv, OffInv, DumpInv, MineInv, EraseInv, [Next]_vars
  PROVE  EraseInv'
<1> DEFINE First(d) == \A i, j \in DOMAIN d : j < i /\ d[i] = Okay => d[j] = Ready
<1> SUFFICES ASSUME cmd' = "erase", Mine'
             PROVE  /\ pc' \in {"run", "go"} => up' = <<>> /\ Quiet'
                    /\ pc' = "erase_ack" => (up' # <<>> => Len(up') = 1 /\ Quiet') /\ (AllEmpty' \/ First(down'))
                    /\ pc' \in {"erase", "erase_end"} => up' = <<>> /\ (AllEmpty' \/ NoOkay')
                    /\ claims' # {} => up' = <<>> /\ AllEmpty'
  BY DEF EraseInv
<1>1. CASE Fresh
  <2>1. up' = <<>> /\ down' = <<>> /\ pc' = "run" /\ claims' = {}
    BY <1>1 DEF Fresh
  <2> QED
    BY <2>1 DEF Quiet
<1>2. CASE Works /\ Mine
  <2>0. cmd = "erase"
    BY <1>2, WorkEffect
  <2>1. Op = "erase" /\ step = 1 /\ Len(Script(cmd)) = 1 /\ cmd \in Commands /\ step \in 1..Len(Script(cmd)) /\ OpIs
    BY <2>0, OpTable DEF TypeInv, CmdIs
  <2>2. up \in Seq(UpPackets) /\ down \in Seq(DownPackets)
    BY DEF TypeInv
  <2>3. DOMAIN up = 1..Len(up) /\ Len(up) \in Nat /\ DOMAIN down = 1..Len(down) /\ Len(down) \in Nat
    BY <2>2
  <2>4. (\A i \in DOMAIN up : up[i].kind = "erase") /\ task = 0
    BY <1>2, <2>0 DEF MineInv, Sends, Flashes
  <2>5. /\ pc \in {"run", "go"} => up = <<>> /\ Quiet
        /\ pc = "erase_ack" => (up # <<>> => Len(up) = 1 /\ Quiet) /\ (AllEmpty \/ First(down))
        /\ pc \in {"erase", "erase_end"} => up = <<>> /\ (AllEmpty \/ NoOkay)
        /\ claims # {} => up = <<>> /\ AllEmpty
    BY <1>2, <2>0 DEF EraseInv
  <2>6. pc \in {"run", "go", "erase_ack", "erase", "erase_end"} \/ (claims # {} /\ pc = "closed")
    <3>1. pc \in Places
      BY DEF TypeInv
    <3> QED
      BY <1>2, <2>1, <3>1 DEF Mine, PlaceInv, Places, Fast
  <2>7. Shrinks \/ down' = down => (Quiet => Quiet') /\ (NoOkay => NoOkay') /\ (First(down) => First(down'))
    <3>1. CASE down' = down
      BY <3>1 DEF Quiet, NoOkay
    <3>2. CASE Shrinks
      <4>1. \A i \in DOMAIN down' : \E j \in DOMAIN down : down'[i] = down[j]
        BY <2>2, <3>2, ShrinksFacts
      <4>2. ASSUME First(down), NEW i \in DOMAIN down', NEW j \in DOMAIN down', j < i, down'[i] = Okay
            PROVE  down'[j] = Ready
        <5>1. PICK d \in 0..Len(down) : Len(down') = Len(down) - d /\ \A k \in 1..Len(down') : down'[k] = down[k + d]
          BY <3>2 DEF Shrinks
        <5>2. DOMAIN down' = 1..Len(down')
          BY <2>2, <3>2, ShrinksFacts
        <5>3. i + d \in DOMAIN down /\ j + d \in DOMAIN down /\ j + d < i + d
          BY <2>3, <4>2, <5>1, <5>2
        <5> QED
          BY <4>2, <5>1, <5>2, <5>3
      <4> QED
        BY <4>1, <4>2 DEF Quiet, NoOkay
    <3> QED
      BY <3>1, <3>2
  <2>8. CASE UNCHANGED hostVars
    <3>0. ~ Receives /\ pc' = pc /\ claims' = claims
      BY <2>4, <2>8 DEF Receives, hostVars
    <3>1. CASE (Takes /\ Replies /\ Grows) \/ Starves
      <4>0. Taken /\ up # <<>>
        BY <2>4, <3>1, TailFacts, <2>2, StarvedUp DEF Taken, Takes
      <4>1. 1 \in DOMAIN up /\ up[1].kind = "erase"
        BY <2>2, <2>4, <4>0, TakenFacts
      <4>2. pc = "erase_ack" /\ Len(up) = 1 /\ Quiet /\ claims = {}
        BY <2>5, <2>6, <4>0
      <4>3. up' = <<>>
        <5>1. Len(up') = 0 /\ up' \in Seq(UpPackets)
          BY <4>0, <4>2 DEF Taken
        <5> QED
          BY <5>1
      <4>5. ASSUME Starves PROVE First(down')
        <5>1. \A i \in DOMAIN down' : down'[i] # Okay
          BY <4>2, <4>5, StarveFacts, DownKinds DEF Quiet
        <5> QED
          BY <5>1
      <4>4. AllEmpty' \/ First(down')
        BY <3>1, <4>1, <4>2, <4>5, EraseAnswer
      <4> QED
        BY <3>0, <4>2, <4>3, <4>4
    <3>2. CASE Idles
      <4>1. UNCHANGED <<up, flash>> /\ up = <<>> /\ (down' = down \/ down' = <<Ready>>)
        BY <3>2 DEF Idles
      <4>2. AllEmpty' <=> AllEmpty
        BY <4>1 DEF AllEmpty
      <4>3. down' = <<Ready>> => Quiet' /\ NoOkay' /\ First(down')
        BY DownKinds DEF Quiet, NoOkay
      <4> HIDE DEF First
      <4> QED
        BY <2>5, <2>7, <3>0, <4>1, <4>2, <4>3
    <3>3. CASE (Shrinks \/ down' = down) /\ UNCHANGED <<up, task, ram, flash, rate, alive, buf>>
      <4>1. AllEmpty' <=> AllEmpty
        BY <3>3 DEF AllEmpty
      <4> HIDE DEF First
      <4> QED
        BY <2>5, <2>7, <3>0, <3>3, <4>1
    <3> QED
      BY <1>2, <2>8, <3>0, <3>1, <3>2, <3>3, AgentSteps
  <2>9. CASE ~ UNCHANGED hostVars
    <3>0. pc \notin {"closed", "upload", "connect"}
      BY <1>2, <2>9, WorkEffect
    <3>1. claims = {}
      BY <2>1, <3>0, NotYet DEF ClaimInv
    <3>2. (Requests \/ up' = up) /\ ~ Takes /\ ~ Receives /\ ~ Starves /\ ~ Idles
      BY <1>2, <2>9, HostLeavesAlone
    <3>3. Shrinks
      BY <1>2, <3>2, DownSteps
    <3>4. ~ WriteFlash /\ flash' = flash
      <4>1. ~ WriteFlash
        BY <2>1 DEF WriteFlash
      <4> QED
        BY <1>2, <2>9, <4>1, HostFlash
    <3>5. AllEmpty' <=> AllEmpty
      BY <3>4 DEF AllEmpty
    <3>6. CASE Switches
      <4>1. pc = "run" /\ pc' = "go" /\ up' = up /\ claims' = claims
        BY <2>1, <3>6 DEF Switches, Fast
      <4> QED
        BY <2>5, <2>7, <3>1, <3>3, <4>1
    <3>7. CASE Issues
      <4>1. pc = "go" /\ pc' = "erase_ack" /\ claims' = claims /\ down' = down
        BY <2>1, <3>7 DEF Issues, Waits
      <4>2. up = <<>> /\ Quiet
        BY <2>5, <4>1
      <4>3. Quiet' /\ First(down')
        BY <4>1, <4>2, DownKinds DEF Quiet
      <4>4. up' # <<>> => Len(up') = 1
        <5>1. up' = up \/ (up' = Append(up, Asked) /\ Asked \in UpPackets)
          BY <2>1, <3>7, <4>1, IssueOne, AskedFacts
        <5>2. CASE up' = Append(up, Asked) /\ Asked \in UpPackets
          <6>1. Len(up') = Len(up) + 1 /\ Len(up) = 0
            BY <2>2, <4>2, <5>2, AppendedUp
          <6> QED
            BY <6>1
        <5> QED
          BY <4>2, <5>1, <5>2
      <4> HIDE DEF First
      <4> QED
        BY <3>1, <4>1, <4>3, <4>4
    <3>8. CASE Listens
      <4>0. up' = up
        BY <3>8, SilentEffect
      <4>1. CASE pc' = "closed" /\ claims' = claims
        BY <3>1, <4>1 DEF Mine
      <4>2. CASE pc = "erase_ack" /\ pc' = "erase" /\ claims' = claims /\ Reads /\ down[1] = Okay
        <5>1. down # <<>> /\ 1 \in DOMAIN down /\ down[1] # Ready
          BY <2>2, <4>2, DownKinds DEF Reads
        <5>2. up = <<>>
          BY <2>5, <4>2, <5>1 DEF Quiet
        <5>3. ASSUME First(down) PROVE NoOkay'
          <6>1. DOMAIN down' = 1..Len(down') /\ Len(down') = Len(down) - 1 /\ \A i \in 1..Len(down') : down'[i] = down[i + 1]
            BY <2>2, <3>3, <4>2, ShrinksFacts DEF Reads
          <6>2. ASSUME NEW i \in DOMAIN down', down'[i] = Okay PROVE FALSE
            <7>1. i + 1 \in DOMAIN down /\ 1 < i + 1 /\ down[i + 1] = Okay
              BY <2>3, <6>1, <6>2
            <7> QED
              BY <5>1, <5>3, <7>1
          <6> QED
            BY <6>2 DEF NoOkay
        <5> HIDE DEF First
        <5> QED
          BY <2>5, <3>1, <3>5, <4>0, <4>2, <5>2, <5>3
      <4>3. CASE pc = "erase" /\ pc' \in {"erase", "erase_end"} /\ claims' = claims
        <5> HIDE DEF First
        <5> QED
          BY <2>5, <2>7, <3>1, <3>3, <3>5, <4>0, <4>3
      <4>4. CASE pc = "erase_end" /\ down # <<>> /\ down[1] = Okay /\ Done
        <5>1. 1 \in DOMAIN down
          BY <2>2, <4>4
        <5>2. up = <<>> /\ AllEmpty
          BY <2>5, <4>4, <5>1 DEF NoOkay
        <5>3. pc' = "closed"
          BY <2>1, <4>4 DEF Done
        <5> QED
          BY <3>5, <4>0, <5>2, <5>3
      <4> HIDE DEF First
      <4> QED
        BY <1>2, <2>0, <2>9, <3>8, <4>1, <4>2, <4>3, <4>4, EraseListens
    <3>9. ~ Turns /\ ~ Continues /\ ~ Asks /\ ~ Retries
      BY <2>1 DEF Turns, Continues, Asks, Retries, PlaceInv, Fast
    <3> HIDE DEF First
    <3> QED
      BY <1>2, <2>9, <3>2, <3>4, <3>6, <3>7, <3>8, <3>9 DEF Works, vars, hostVars
  <2> QED
    BY <2>8, <2>9
<1> QED
  BY <1>1, <1>2, MineStep

---------------------------------------------------------------------------
(* The first switch of the baud rate.                                      *)

\* The agent goes on running.
LEMMA AliveStep ==
  ASSUME TypeInv, PlaceInv, ConnectInv, MineInv, AliveInv, [Next]_vars
  PROVE  AliveInv'
<1> SUFFICES ASSUME Mine', cmd' \notin Flashes PROVE alive'
  BY DEF AliveInv
<1>1. CASE Fresh
  BY <1>1 DEF Fresh, agentSide, agentVars
<1>2. CASE Works /\ Mine
  <2>1. cmd \notin Flashes /\ cmd \in Commands
    BY <1>2, WorkEffect DEF TypeInv
  <2>2. alive
    BY <1>2, <2>1 DEF AliveInv
  <2>3. CASE Takes /\ alive' # alive
    <3>1. up # <<>> /\ up[1].kind = "reboot"
      BY <2>2, <2>3 DEF Takes
    <3>2. 1 \in DOMAIN up
      BY <3>1, FirstUp
    <3>3. "reboot" \in Sends(cmd)
      BY <1>2, <3>1, <3>2 DEF MineInv
    <3> QED
      BY <2>1, <3>3 DEF Sends, Commands
  <2> QED
    BY <1>2, <2>2, <2>3 DEF Works, vars, agentVars, WriteFlash, Switches, Turns, Issues, Continues, Asks, Retries, Idles,
       Receives, Starves, silentSide, agentSide
<1> QED
  BY <1>1, <1>2, MineStep

LEMMA ListensEarly ==
  ASSUME TypeInv, PlaceInv, OffInv, Listens, Early, ~ UNCHANGED hostVars
  PROVE  \/ pc' \notin {"run", "answer", "baud", "baud_verify", "go"}
         \/ ~ Early'
         \/ cmd = "write" /\ pc' = "go" /\ off' # 0
         \/ pc = "answer" /\ pc' = "run" /\ Reads /\ down[1] # Ready
         \/ /\ pc = "baud_verify" /\ pc' = "go" /\ Reads /\ down[1] # Ready /\ off' = off
            /\ down[1].kind = "info" => hostRate' = hostRate
         \/ pc = "baud_verify" /\ pc' = "go" /\ Expired /\ hostRate' = "slow" /\ off' = off
<1>0. OpIs /\ CmdIs /\ cmd \in Commands /\ step \in 1..Len(Script(cmd)) /\ off \in Nat
  BY OpTable DEF TypeInv
<1>1. cmd' = cmd
  BY SilentEffect DEF agentSide
<1>2. (cmd = "write" /\ Op = "write") \/ (cmd = "scan" /\ Op \in {"info", "scan"})
  <2>1. CASE cmd = "write" /\ step = 1
    <3>1. CmdIs
      BY <1>0
    <3>2. Op = "write"
      BY <2>1, <3>1 DEF CmdIs
    <3> QED
      BY <2>1, <3>2
  <2>2. CASE cmd = "scan" /\ step <= 2
    <3>1. step = 1 \/ step = 2
      BY <1>0, <2>2 DEF CmdIs
    <3> QED
      BY <1>0, <2>2, <3>1 DEF CmdIs
  <2> QED
    BY <2>1, <2>2 DEF Early
<1>3. Done => (cmd = "write" => ~ Early') /\ (Op = "scan" => ~ Early')
  <2>1. Len(Script("write")) = 2 /\ Len(Script("scan")) = 3
    BY ScriptTable
  <2>2. ASSUME Done, cmd = "write" PROVE ~ Early'
    <3>1. step = 1
      BY <2>2 DEF Early
    <3>2. step' = 2
      BY <2>1, <2>2, <3>1 DEF Done
    <3> QED
      BY <1>1, <2>2, <3>2 DEF Early
  <2>3. ASSUME Done, Op = "scan" PROVE ~ Early'
    <3>1. step = 2 /\ cmd = "scan"
      BY <1>0, <2>3 DEF OpIs
    <3>2. step' = 3
      BY <2>1, <2>3, <3>1 DEF Done
    <3> QED
      BY <1>1, <3>1, <3>2 DEF Early
  <2> QED
    BY <2>2, <2>3
<1>4. CASE rcvFrame /\ VerifyBaud(Head(down))
  <2>1. Head(down) = down[1] /\ Reads
    BY <1>4, ReadsEffect DEF VerifyBaud
  <2> QED
    BY <1>4, <2>1 DEF VerifyBaud
<1>5. CASE rcvFrame /\ Answered(Head(down))
  <2>1. Head(down) = down[1] /\ Reads
    BY <1>5, ReadsEffect DEF Answered
  <2>2. pc' = "run" \/ pc' = "closed"
    BY <1>5 DEF Answered, Done, Failed
  <2> QED
    BY <1>5, <2>1, <2>2 DEF Answered
<1>6. CASE rcvFrame /\ ReadStream(Head(down))
  BY <1>2, <1>6 DEF ReadStream, PlaceInv
<1>7. CASE rcvFrame /\ WindowAck(Head(down))
  <2>1. cmd = "write" /\ step = 1 /\ pc = "window"
    BY <1>0, <1>7 DEF WindowAck, PlaceInv, OpIs
  <2>2. off < WindowEnd /\ WindowEnd \in Nat
    BY <1>0, <2>1, WindowEndFacts DEF OffInv
  <2>3. WindowEnd # 0
    BY <1>0, <2>2
  <2> QED
    BY <1>3, <1>7, <2>1, <2>3 DEF WindowAck
<1>8. CASE rcvFrame /\ BlockCrc(Head(down))
  <2>1. cmd = "write" /\ Op = "write"
    BY <1>2, <1>8 DEF BlockCrc, PlaceInv
  <2>2. off + 1 # 0
    BY <1>0
  <2> QED
    BY <1>3, <1>8, <2>1, <2>2 DEF BlockCrc, Failed
<1>9. CASE rcvFrame /\ EraseAck(Head(down))
  BY <1>2, <1>9 DEF EraseAck
<1>10. CASE rcvFrame /\ ScanAnswer(Head(down))
  BY <1>3, <1>10 DEF ScanAnswer, Failed
<1>11. CASE rcvFrame /\ CompatAnswer(Head(down))
  BY <1>11 DEF CompatAnswer, CompatResult
<1>12. CASE Timeout
  BY <1>2, <1>12 DEF Timeout, CompatResult, Failed
<1>13. ~ SkipReady /\ ~ DumpSkip
  BY <1>2 DEF SkipReady, hostVars, hostRest, DumpSkip
<1>14. CASE Drain
  BY <1>14 DEF Drain
<1> QED
  BY <1>4, <1>5, <1>6, <1>7, <1>8, <1>9, <1>10, <1>11, <1>12, <1>13, <1>14 DEF Listens

LEMMA LateSame ==
  ASSUME Works, UNCHANGED hostVars
  PROVE  late' = late
<1>1. pc' # pc => FALSE
  BY DEF hostVars
<1>2. ~ Switches /\ ~ Turns /\ ~ Issues /\ ~ Continues /\ ~ Asks /\ ~ Retries /\ ~ WriteFlash
  BY <1>1, WaitsPlace DEF Switches, Turns, Issues, Continues, Asks, Retries, Done, WriteFlash, Failed
<1>3. Listens => late' = late
  BY <1>1 DEF Listens, DumpSkip, SkipReady, Timeout, Drain, rcvFrame, hostRest, CompatResult, Failed, Done, Waiting
<1> QED
  BY <1>2, <1>3 DEF Works, vars, Idles, Takes, Receives, Starves, hostSide

LEMMA EarlyOp ==
  ASSUME OpIs, Early
  PROVE  Op \notin {"dump", "read", "verify", "write_flash", "reboot"}
<1>1. CASE Op = "dump"
  BY <1>1 DEF OpIs, Early
<1>2. CASE Op = "verify"
  BY <1>2 DEF OpIs, Early
<1> QED
  BY <1>1, <1>2 DEF OpIs, Early, Flashes

LEMMA QuietSingle == Quiet => Single
BY DEF Quiet, Single

LEMMA QuietLines ==
  ASSUME down \in Seq(DownPackets), Shrinks \/ down' = down
  PROVE  (Quiet => Quiet') /\ (NoOkay => NoOkay') /\ (Single => Single')
<1>1. CASE down' = down
  BY <1>1 DEF Quiet, NoOkay, Single
<1>2. CASE Shrinks
  <2>1. \A i \in DOMAIN down' : \E j \in DOMAIN down : down'[i] = down[j]
    BY <1>2, ShrinksFacts
  <2>2. ASSUME Single, NEW i \in DOMAIN down', NEW j \in DOMAIN down', down'[i] # Ready, down'[j] # Ready
        PROVE  i = j
    <3>0. DOMAIN down = 1..Len(down) /\ Len(down) \in Nat
      OBVIOUS
    <3>1. PICK d \in 0..Len(down) : Len(down') = Len(down) - d /\ \A k \in 1..Len(down') : down'[k] = down[k + d]
      BY <1>2 DEF Shrinks
    <3>2. DOMAIN down' = 1..Len(down')
      BY <1>2, ShrinksFacts
    <3>3. i + d \in DOMAIN down /\ j + d \in DOMAIN down /\ i \in Nat /\ j \in Nat
      BY <3>0, <3>1, <3>2
    <3>4. down[i + d] # Ready /\ down[j + d] # Ready
      BY <2>2, <3>1, <3>2
    <3>5. i + d = j + d
      BY <2>2, <3>3, <3>4 DEF Single
    <3> QED
      BY <3>3, <3>5
  <2> QED
    BY <2>1, <2>2 DEF Quiet, NoOkay, Single
<1> QED
  BY <1>1, <1>2

\* The host has taken the one packet that was not READY.
LEMMA SingleRead ==
  ASSUME down \in Seq(DownPackets), Reads, Single, down[1] # Ready
  PROVE  Quiet'
<1>0. DOMAIN down = 1..Len(down) /\ Len(down) \in Nat
  OBVIOUS
<1>1. down # <<>> /\ Len(down') = Len(down) - 1 /\ (\A i \in 1..Len(down') : down'[i] = down[i + 1]) /\ down' \in Seq(DownPackets)
  BY DEF Reads
<1>2. DOMAIN down' = 1..Len(down')
  BY <1>1
<1>3. 1 \in DOMAIN down
  BY <1>1
<1>4. ASSUME NEW i \in DOMAIN down', down'[i] # Ready PROVE FALSE
  <2>1. i \in Nat /\ i >= 1 /\ i + 1 \in DOMAIN down /\ down'[i] = down[i + 1]
    BY <1>0, <1>1, <1>2
  <2>2. i + 1 = 1
    BY <1>3, <1>4, <2>1 DEF Single
  <2> QED
    BY <2>1, <2>2
<1> QED
  BY <1>4 DEF Quiet

\* One answer on a line of READYs.
LEMMA QuietAnswer ==
  ASSUME down \in Seq(DownPackets), NEW x \in DownPackets, down' = Append(down, x), Quiet
  PROVE  Single' /\ \A i \in DOMAIN down' : down'[i] # Ready => down'[i] = x
BY AppendedDown DEF Quiet, Single

LEMMA OneTaken ==
  ASSUME up \in Seq(UpPackets), Taken, Len(up) = 1
  PROVE  up' = <<>>
<1>1. up' \in Seq(UpPackets)
  BY DEF Taken
<1>2. Len(up') = 0
  BY DEF Taken
<1> QED
  BY <1>1, <1>2

LEMMA OneSent ==
  ASSUME up = <<>>, NEW x \in UpPackets, up' = up \/ up' = Append(up, x)
  PROVE  (up' # <<>> => Len(up') = 1) /\ \A i \in DOMAIN up' : up'[i] = x
<1>1. CASE up' = up
  BY <1>1
<1>2. CASE up' = Append(up, x)
  <2>1. up' = <<x>>
    BY <1>2
  <2> QED
    BY <2>1
<1> QED
  BY <1>1, <1>2

\* Every step keeps what _switch_baud counts on.
LEMMA SwitchStep ==
  ASSUME TypeInv, PlaceInv, ClaimInv, ConnectInv, FoundInv, OffInv, DumpInv, MineInv, AliveInv, SwitchInv, [Next]_vars
  PROVE  SwitchInv'
<1> SUFFICES ASSUME Early' PROVE SwitchAt'
  BY DEF SwitchInv
<1>0. up \in Seq(UpPackets) /\ down \in Seq(DownPackets)
  BY DEF TypeInv
<1>1. CASE pc' \notin {"run", "answer", "baud", "baud_verify", "go"}
  BY <1>1 DEF SwitchAt
<1>2. CASE Fresh
  BY <1>2 DEF Fresh, SwitchAt, Quiet, Single, agentSide, agentVars
<1>3. CASE Works /\ Mine /\ UNCHANGED hostVars
  <2>0. Early
    BY <1>3 DEF hostVars, Early
  <2>1. SwitchAt /\ pc' = pc /\ off' = off /\ hostRate' = hostRate /\ late' = late /\ cmd' = cmd
    <3>1. late' = late
      BY <1>3, LateSame
    <3> QED
      BY <1>3, <2>0, <3>1 DEF SwitchInv, hostVars
  <2>2. CASE Takes /\ Replies /\ Grows
    <3>0. Taken /\ up # <<>> /\ 1 \in DOMAIN up
      BY <1>0, <2>2, TailFacts, FirstUp DEF Taken, Takes
    <3>1. CASE pc = "baud" \/ pc = "baud_verify" \/ pc = "answer"
      <4>1. Len(up) = 1 /\ Quiet
        BY <2>1, <3>0, <3>1 DEF SwitchAt
      <4>2. up' = <<>>
        BY <1>0, <3>0, <4>1, OneTaken
      <4>3. up[1].kind \in {"info", "set_baud"} /\ (up[1].kind = "set_baud" => pc = "baud" /\ up[1].val = "fast")
        BY <2>1, <3>0, <3>1 DEF SwitchAt, Packet
      <4>4. task' = 0
        BY <2>2, <4>3 DEF Takes
      <4>5. down' = down \/ \E x \in DownPackets : OneAnswer(x) /\ down' = Append(down, x)
        BY <2>2, <4>3, TakeOne
      <4>6. CASE down' = down
        <5>1. Quiet' /\ Single'
          BY <4>1, <4>6, QuietSingle DEF Quiet, Single
        <5> QED
          BY <2>1, <3>1, <4>2, <4>4, <5>1 DEF SwitchAt, Quiet
      <4>7. CASE \E x \in DownPackets : OneAnswer(x) /\ down' = Append(down, x)
        <5>1. PICK x \in DownPackets : OneAnswer(x) /\ down' = Append(down, x)
          BY <4>7
        <5>2. Single' /\ \A i \in DOMAIN down' : down'[i] # Ready => down'[i] = x
          BY <1>0, <4>1, <5>1, QuietAnswer
        <5>3. CASE pc = "baud"
          <6>1. up[1] = Packet("set_baud", "fast") /\ hostRate = "slow"
            BY <2>1, <3>0, <5>3 DEF SwitchAt
          <6>2. up[1].kind = "set_baud" /\ up[1].val = "fast"
            BY <6>1 DEF Packet
          <6>3. x = Okay /\ rate' = "fast"
            BY <2>2, <5>1, <6>2 DEF OneAnswer, Takes
          <6> QED
            BY <2>1, <4>2, <4>4, <5>2, <5>3, <6>1, <6>3 DEF SwitchAt
        <5>4. CASE pc = "baud_verify"
          <6>1. up[1].kind = "info" /\ hostRate = "fast"
            BY <2>1, <3>0, <5>4 DEF SwitchAt
          <6>2. x.kind = "info"
            <7>1. x = Packet("info", "")
              BY <5>1, <6>1 DEF OneAnswer
            <7> QED
              BY <7>1 DEF Packet
          <6> QED
            BY <2>1, <4>2, <4>4, <5>2, <5>4, <6>1, <6>2 DEF SwitchAt
        <5>5. CASE pc = "answer"
          BY <2>1, <4>2, <4>4, <5>2, <5>5 DEF SwitchAt
        <5> QED
          BY <3>1, <5>3, <5>4, <5>5
      <4> QED
        BY <4>5, <4>6, <4>7
    <3>2. CASE pc = "go" /\ off = 0
      <4>1. Len(up) = 1 /\ Quiet /\ up[1].kind = "info" /\ rate # hostRate
        BY <2>1, <3>0, <3>2 DEF SwitchAt
      <4>2. up' = <<>>
        BY <1>0, <3>0, <4>1, OneTaken
      <4>3. task' = 0 /\ down' = down
        BY <2>2, <4>1 DEF Takes
      <4>4. Quiet' /\ Single'
        BY <4>1, <4>3, QuietSingle DEF Quiet, Single
      <4> QED
        BY <2>1, <3>2, <4>2, <4>3, <4>4 DEF SwitchAt
    <3>3. pc # "run"
      BY <2>1, <3>0 DEF SwitchAt
    <3> QED
      BY <1>1, <2>1, <3>1, <3>2, <3>3 DEF SwitchAt
  <2>3. CASE Receives \/ Starves
    <3>1. task # 0 \/ (1 \in DOMAIN up /\ up # <<>> /\ up[1].kind \notin {"info", "set_baud"})
      BY <2>3, FirstUp DEF Receives, Starves
    <3>2. up[1] = Packet("set_baud", "fast") => up[1].kind = "set_baud"
      BY DEF Packet
    <3>3. pc \notin {"run", "answer", "baud", "baud_verify"} /\ ~(pc = "go" /\ off = 0)
      BY <2>1, <3>1, <3>2 DEF SwitchAt
    <3> QED
      BY <2>1, <3>3 DEF SwitchAt
  <2>4. CASE Idles
    <3>1. up = <<>> /\ up' = <<>> /\ task' = task
      BY <2>4 DEF Idles
    <3>2. CASE down' = <<Ready>> /\ rate' = rate
      <4>1. Quiet' /\ Single'
        BY <3>2 DEF Quiet, Single
      <4> QED
        BY <2>1, <3>1, <3>2, <4>1 DEF SwitchAt, Quiet
    <3>3. CASE down' = down /\ pc \notin {"run", "go"} /\ (pc \in {"closed", "upload"} \/ Quiet)
      <4>1. (Quiet' <=> Quiet) /\ (Single' <=> Single)
        BY <3>3 DEF Quiet, Single
      <4> QED
        BY <2>1, <3>1, <3>3, <4>1 DEF SwitchAt, Quiet
    <3> QED
      BY <2>4, <3>2, <3>3 DEF Idles
  <2>5. CASE (Shrinks \/ down' = down) /\ UNCHANGED <<up, task, ram, flash, rate, alive, buf>>
    <3>1. (Quiet => Quiet') /\ (Single => Single')
      BY <1>0, <2>5, QuietLines
    <3>2. \A i \in DOMAIN down' : \E j \in DOMAIN down : down'[i] = down[j]
      BY <1>0, <2>5, ShrinksFacts
    <3> QED
      BY <2>1, <2>5, <3>1, <3>2 DEF SwitchAt
  <2> QED
    BY <1>3, <2>2, <2>3, <2>4, <2>5, AgentSteps
<1>4. CASE Works /\ Mine /\ ~ UNCHANGED hostVars
  <2>0. Proceeds /\ pc \notin {"closed", "upload", "connect"} /\ cmd' = cmd
    BY <1>4, WorkEffect
  <2>1. OpIs /\ CmdIs /\ cmd \in Commands /\ step \in 1..Len(Script(cmd)) /\ step \in Nat /\ step >= 1
    <3>1. OpIs /\ CmdIs /\ cmd \in Commands /\ step \in 1..Len(Script(cmd))
      BY OpTable DEF TypeInv
    <3>2. step \in Nat /\ step >= 1
      BY <3>1
    <3> QED
      BY <3>1, <3>2
  <2>2. Early
    <3>1. cmd = "write" \/ cmd = "scan"
      BY <2>0 DEF Early
    <3>2. step' = step \/ step' = step + 1
      <4>1. CASE Done
        BY <2>1, <4>1, DoneEffect
      <4> QED
        BY <2>0, <4>1 DEF Proceeds
    <3>3. step' >= step /\ step >= 1
      BY <2>1, <3>2
    <3>4. CASE cmd = "write"
      <4>1. step' = 1
        BY <2>0, <3>4 DEF Early
      <4>2. step = 1
        BY <2>1, <3>3, <4>1
      <4> QED
        BY <3>4, <4>2 DEF Early
    <3>5. CASE cmd = "scan"
      <4>1. step' <= 2
        BY <2>0, <3>5 DEF Early
      <4>2. step <= 2
        BY <2>1, <3>2, <4>1
      <4> QED
        BY <3>5, <4>2 DEF Early
    <3> QED
      BY <3>1, <3>4, <3>5
  <2>3. SwitchAt
    BY <2>2 DEF SwitchInv
  <2>4. /\ UNCHANGED task /\ (Requests \/ up' = up) /\ ~ Takes /\ ~ Receives /\ ~ Starves /\ ~ Idles
    BY <1>4, HostLeavesAlone
  <2>5. Shrinks /\ (Quiet => Quiet') /\ (Single => Single')
    BY <1>0, <1>4, <2>4, DownSteps, QuietLines
  <2>6. alive
    BY <1>4, <2>2 DEF AliveInv, Early, Flashes
  <2>7. CASE Switches
    <3>1. pc = "run" /\ up = <<>> /\ Quiet /\ task = 0
      BY <2>3, <2>7 DEF Switches, SwitchAt
    <3>2. Quiet' /\ Single'
      BY <2>5, <3>1, QuietSingle
    <3>3. CASE pc' = "go"
      <4>1. up' = up /\ off' = 0
        <5>1. Op # "dump"
          BY <2>1, <2>2, EarlyOp
        <5> QED
          BY <2>7, <3>3, <5>1 DEF Switches
      <4> QED
        BY <2>4, <3>1, <3>2, <3>3, <4>1 DEF SwitchAt
    <3>4. CASE pc' = "baud"
      <4>1. Packet("set_baud", "fast") \in UpPackets
        BY UpTypes DEF Rates
      <4>2. hostRate' = "slow" /\ (up' = up \/ up' = Append(up, Packet("set_baud", "fast"))) /\ off' = 0
        <5>1. Op # "dump"
          BY <2>1, <2>2, EarlyOp
        <5> QED
          BY <2>7, <3>4, <5>1 DEF Switches
      <4>3. (up' # <<>> => Len(up') = 1) /\ \A i \in DOMAIN up' : up'[i] = Packet("set_baud", "fast")
        BY <3>1, <4>1, <4>2, OneSent
      <4> QED
        BY <2>4, <3>1, <3>2, <3>4, <4>2, <4>3 DEF SwitchAt, Quiet
    <3> QED
      BY <2>7, <3>3, <3>4 DEF Switches
  <2>8. CASE Turns
    <3>1. pc = "baud" /\ down # <<>> /\ down[1] # Ready
      BY <2>8 DEF Turns
    <3>2. 1 \in DOMAIN down
      BY <1>0, <3>1
    <3>3. down[1] = Okay /\ rate = "fast" /\ hostRate = "slow" /\ Single /\ task = 0
      BY <2>3, <3>1, <3>2 DEF SwitchAt
    <3>4. up = <<>>
      BY <2>3, <3>1, <3>2 DEF SwitchAt, Quiet
    <3>5. CASE pc' = "go"
      <4>1. up' = up /\ Reads /\ off' = off /\ (cmd' = "scan" => off = 0)
        BY <2>0, <2>3, <2>8, <3>1, <3>3, <3>5 DEF Turns, SwitchAt
      <4>2. Quiet'
        BY <1>0, <3>1, <3>3, <4>1, SingleRead
      <4>3. Single'
        BY <2>5, <3>3
      <4> QED
        BY <2>4, <3>3, <3>4, <3>5, <4>1, <4>2, <4>3 DEF SwitchAt
    <3>6. CASE pc' = "baud_verify"
      <4>1. hostRate' = "fast" /\ down' = <<>> /\ (up' = up \/ up' = Append(up, Packet("info", ""))) /\ rate' = rate
        BY <2>8, <3>3, <3>6 DEF Turns, agentSide, agentVars
      <4>5. off' = off /\ off = 0
        <5>1. off = 0
          BY <2>3, <3>1 DEF SwitchAt
        <5> QED
          BY <2>8, <5>1 DEF Turns
      <4>2. Packet("info", "") \in UpPackets /\ Packet("info", "").kind = "info"
        BY UpTypes DEF Packet
      <4>3. (up' # <<>> => Len(up') = 1) /\ \A i \in DOMAIN up' : up'[i] = Packet("info", "")
        BY <3>4, <4>1, <4>2, OneSent
      <4>4. Quiet' /\ Single' /\ DOMAIN down' = {}
        <5>1. down' = <<>>
          BY <4>1
        <5> QED
          BY <5>1 DEF Quiet, Single
      <4> QED
        BY <2>4, <3>3, <3>6, <4>1, <4>2, <4>3, <4>4, <4>5 DEF SwitchAt
    <3> QED
      BY <2>8, <3>5, <3>6 DEF Turns
  <2>9. CASE Issues
    <3>3. cmd = "write" => Op = "write"
      BY <2>1, <2>2 DEF Early, CmdIs
    <3>1. CASE pc' = "answer"
      <4>1. Op = "info" /\ pc = "go"
        BY <2>1, <2>2, <2>9, <3>1 DEF Issues, Waits, Early, CmdIs, OpIs
      <4>2. off = 0
        BY <2>2, <2>3, <3>3, <4>1 DEF SwitchAt, Early
      <4>3. task = 0 /\ (up # <<>> => Len(up) = 1 /\ Quiet) /\ Single /\ Quiet
        BY <2>3, <4>1, <4>2 DEF SwitchAt
      <4>4. Quiet' /\ Single'
        BY <2>5, <4>3
      <4>5. up' = up \/ (rate = hostRate /\ up' = Append(up, Asked) /\ Asked \in UpPackets)
        BY <2>9, <4>1, IssueOne, AskedFacts
      <4>6. Asked.kind = "info"
        BY <4>1 DEF Asked, Packet
      <4>7. CASE up' = up
        <5>1. \A i \in DOMAIN up : up[i].kind = "info"
          BY <2>3, <4>1, <4>2 DEF SwitchAt
        <5> QED
          BY <2>4, <3>1, <4>3, <4>4, <4>7, <5>1 DEF SwitchAt
      <4>8. CASE rate = hostRate /\ up' = Append(up, Asked) /\ Asked \in UpPackets
        <5>1. \A i \in DOMAIN up : rate = "fast" /\ hostRate = "slow"
          BY <2>3, <4>1, <4>2 DEF SwitchAt
        <5>2. up = <<>>
          <6>1. DOMAIN up = 1..Len(up) /\ Len(up) \in Nat
            BY <1>0
          <6>2. up # <<>> => 1 \in DOMAIN up
            BY <1>0
          <6> QED
            BY <4>8, <5>1, <6>2
        <5>3. (up' # <<>> => Len(up') = 1) /\ \A i \in DOMAIN up' : up'[i] = Asked
          BY <4>8, <5>2, OneSent
        <5> QED
          BY <2>4, <3>1, <4>3, <4>4, <4>6, <5>3 DEF SwitchAt
      <4> QED
        BY <4>5, <4>7, <4>8
    <3>2. pc' \notin {"run", "baud", "baud_verify", "go"}
      BY <2>9, WaitsPlace DEF Issues
    <3> QED
      BY <1>1, <3>1, <3>2
  <2>10. CASE Continues \/ Asks \/ Retries
    <3>1. Asks => pc' = "compat_crc" \/ ~ Early'
      <4>1. ASSUME Asks, Done PROVE ~ Early'
        <5>1. step = 2 /\ cmd = "scan"
          BY <2>1, <4>1 DEF Asks, PlaceInv, OpIs
        <5>2. step' = 3
          BY <4>1, <5>1, ScriptTable DEF Done
        <5> QED
          BY <2>0, <5>1, <5>2 DEF Early
      <4> QED
        BY <4>1 DEF Asks
    <3> QED
      BY <1>1, <2>10, <3>1 DEF Continues, Retries
  <2>11. CASE Listens
    <3>0. UNCHANGED <<up, rate>>
      BY <2>11, SilentEffect DEF agentSide, agentVars
    <3>1. CASE cmd = "write" /\ pc' = "go" /\ off' # 0
      BY <2>0, <3>1 DEF SwitchAt
    <3>2. CASE pc = "answer" /\ pc' = "run" /\ Reads /\ down[1] # Ready
      <4>1. Single /\ task = 0 /\ (up # <<>> => Quiet)
        BY <2>3, <3>2 DEF SwitchAt
      <4>2. 1 \in DOMAIN down
        BY <1>0, <3>2 DEF Reads
      <4>3. up = <<>>
        BY <3>2, <4>1, <4>2 DEF Quiet
      <4>4. Quiet' /\ Single'
        BY <1>0, <2>5, <3>2, <4>1, SingleRead
      <4> QED
        BY <2>4, <3>0, <3>2, <4>1, <4>3, <4>4 DEF SwitchAt
    <3>3. CASE /\ pc = "baud_verify" /\ pc' = "go" /\ Reads /\ down[1] # Ready /\ off' = off
               /\ down[1].kind = "info" => hostRate' = hostRate
      <4>1. Single /\ task = 0 /\ (up # <<>> => Quiet)
        BY <2>3, <3>3 DEF SwitchAt
      <4>2. 1 \in DOMAIN down
        BY <1>0, <3>3 DEF Reads
      <4>3. up = <<>>
        BY <3>3, <4>1, <4>2 DEF Quiet
      <4>4. Quiet' /\ Single'
        BY <1>0, <2>5, <3>3, <4>1, SingleRead
      <4> QED
        BY <2>0, <2>3, <2>4, <3>0, <3>3, <4>1, <4>3, <4>4 DEF SwitchAt
    <3>4. CASE pc = "baud_verify" /\ pc' = "go" /\ Expired /\ hostRate' = "slow" /\ off' = off
      <4>0. late \in Nat
        BY DEF TypeInv
      <4>1. /\ task = 0 /\ (up # <<>> => Len(up) = 1 /\ Quiet) /\ Single
            /\ hostRate = "fast" /\ \A i \in DOMAIN up : up[i].kind = "info" /\ rate = "fast"
        BY <2>3, <3>4 DEF SwitchAt
      <4>2. down = <<>> /\ down' = down
        BY <3>4 DEF Expired
      <4>3. Quiet' /\ Single'
        BY <4>2 DEF Quiet, Single
      <4>4. rate = "fast" => late' > 0
        <5>1. rate = "fast" => late' = late + 1
          BY <2>6, <3>4, <4>1 DEF Expired
        <5> QED
          BY <4>0, <5>1
      <4> QED
        BY <2>0, <2>3, <2>4, <3>0, <3>4, <4>1, <4>3, <4>4 DEF SwitchAt
    <3> QED
      BY <1>1, <1>4, <2>2, <2>11, <3>1, <3>2, <3>3, <3>4, ListensEarly
  <2>12. CASE WriteFlash
    BY <2>1, <2>2, <2>12 DEF WriteFlash, OpIs, Early, Flashes
  <2> QED
    BY <1>4, <2>4, <2>7, <2>8, <2>9, <2>10, <2>11, <2>12 DEF Works, vars, hostVars
<1>5. CASE ~ Mine'
  BY <1>5 DEF Mine, SwitchAt
<1> QED
  BY <1>2, <1>3, <1>4, <1>5, MineStep

---------------------------------------------------------------------------
(* agent scan: the dump, one read_memory for each sector.                  *)

ScanStream == <<Packet("scan", "header")>> \o ScanPackets \o <<Okay>>

LEMMA ScanStreamFacts ==
  ASSUME TypeInv
  PROVE  /\ ScanStream \in Seq(DownPackets) /\ Len(ScanStream) = Sectors + 2
         /\ ScanStream[1] = Packet("scan", "header") /\ ScanStream[Sectors + 2] = Okay
         /\ \A i \in 1..Sectors : ScanStream[i + 1] = Packet("scan", flash[i])
<1> DEFINE p == ScanPackets
           h == Packet("scan", "header")
<1>1. p \in Seq(DownPackets) /\ Len(p) = Sectors
  BY ScanPacketsFacts
<1>2. \A i \in 1..Sectors : p[i] = Packet("scan", flash[i])
  BY ScanPacketsFacts
<1>3. h \in DownPackets /\ Okay \in DownPackets
  BY DownTypes
<1> HIDE DEF p, h
<1>4. /\ <<h>> \o p \o <<Okay>> \in Seq(DownPackets) /\ Len(<<h>> \o p \o <<Okay>>) = Len(p) + 2
      /\ (<<h>> \o p \o <<Okay>>)[1] = h /\ (<<h>> \o p \o <<Okay>>)[Len(p) + 2] = Okay
      /\ \A i \in 1..Len(p) : (<<h>> \o p \o <<Okay>>)[i + 1] = p[i]
  BY <1>1, <1>3, Between
<1>5. ScanStream = <<h>> \o p \o <<Okay>>
  BY DEF ScanStream, h, p
<1>6. Len(p) = Sectors
  BY <1>1
<1> QED
  BY <1>2, <1>4, <1>5, <1>6 DEF h

LEMMA NoDataAnswer ==
  ASSUME TypeInv, Takes, Replies, up[1].kind \in {"info", "set_baud", "scan", "crc_sector"}
  PROVE  \A i \in (Len(down) + 1)..Len(down') : down'[i].kind # "data"
<1>0. down \in Seq(DownPackets)
  BY DEF TypeInv
<1>1. CASE up[1].kind = "scan" /\ ~ old
  <2>1. Adds(down, down', ScanStream)
    BY <1>1 DEF Replies, ScanStream
  <2>2. ScanStream \in Seq(DownPackets)
    BY ScanStreamFacts
  <2>3. \A k \in 1..Len(ScanStream) : ScanStream[k].kind # "data"
    <3> SUFFICES ASSUME NEW k \in 1..Len(ScanStream) PROVE ScanStream[k].kind # "data"
      OBVIOUS
    <3>1. Len(ScanStream) = Sectors + 2
      BY ScanStreamFacts
    <3>2. k = 1 \/ k = Sectors + 2 \/ (k - 1 \in 1..Sectors /\ (k - 1) + 1 = k)
      BY <3>1, LinkAssumption
    <3>3. ScanStream[1].kind = "scan" /\ ScanStream[Sectors + 2].kind = "ack"
      <4>1. ScanStream[1] = Packet("scan", "header") /\ ScanStream[Sectors + 2] = Okay
        BY ScanStreamFacts
      <4>2. Packet("scan", "header").kind = "scan"
        BY DEF Packet
      <4> QED
        BY <4>1, <4>2, DownKinds
    <3>4. ASSUME NEW i \in 1..Sectors PROVE ScanStream[i + 1].kind = "scan"
      <4>1. ScanStream[i + 1] = Packet("scan", flash[i])
        BY ScanStreamFacts
      <4> QED
        BY <4>1 DEF Packet
    <3>5. CASE k - 1 \in 1..Sectors /\ (k - 1) + 1 = k
      <4>1. ScanStream[(k - 1) + 1].kind = "scan"
        BY <3>4, <3>5
      <4> QED
        BY <3>5, <4>1
    <3> QED
      BY <3>2, <3>3, <3>5
  <2>4. \A i \in (Len(down) + 1)..Len(down') : \E k \in 1..Len(ScanStream) : down'[i] = ScanStream[k]
    BY <1>0, <2>1, <2>2, AddsFacts
  <2> QED
    BY <2>3, <2>4
<1>2. CASE up[1].kind # "scan" \/ old
  <2>1. CASE down' = down
    BY <1>0, <2>1
  <2>2. CASE \E x \in DownPackets : OneAnswer(x) /\ down' = Append(down, x)
    <3>1. PICK x \in DownPackets : OneAnswer(x) /\ down' = Append(down, x)
      BY <2>2
    <3>2. x = Packet("info", "") \/ x = Packet("crc", flash[up[1].val]) \/ x = Okay \/ x = Errors
      BY <3>1 DEF OneAnswer
    <3>3. Packet("info", "").kind = "info" /\ Packet("crc", flash[up[1].val]).kind = "crc"
      BY DEF Packet
    <3>4. x.kind # "data"
      BY <3>2, <3>3, DownKinds
    <3>5. Len(down') = Len(down) + 1 /\ down'[Len(down) + 1] = x /\ Len(down) \in Nat
      BY <1>0, <3>1, AppendedDown
    <3> QED
      BY <3>4, <3>5
  <2> QED
    BY <1>2, <2>1, <2>2, TakeOne
<1> QED
  BY <1>1, <1>2

\* One sector: at most one DATA packet, and it is that sector's.
LEMMA TakeReadOne ==
  ASSUME TypeInv, Takes, Replies, up[1].kind = "read", NEW a \in 1..Sectors, up[1].val = <<a, a>>
  PROVE  /\ \A i \in (Len(down) + 1)..Len(down') :
              down'[i].kind = "data" => i = Len(down) + 1 /\ down'[i].val.seq = 0 /\ down'[i].val.val = flash[a]
<1> DEFINE s == ReadPackets(<<a, a>>)
           t == SubSeq(s, 1, Len(s) - 1)
           D == Packet("data", [seq |-> 0, val |-> flash[a]])
<1>0. down \in Seq(DownPackets)
  BY DEF TypeInv
<1>1. s \in Seq(DownPackets) /\ Len(s) = 1 /\ s[1] = D
  <2>1. s \in Seq(DownPackets) /\ Len(s) = a - a + 1
    BY ReadPacketsFacts
  <2>2. \A i \in 1..(a - a + 1) : s[i] = Packet("data", [seq |-> i - 1, val |-> flash[a + i - 1]])
    BY ReadPacketsFacts
  <2>3. a - a + 1 = 1 /\ 1 - 1 = 0 /\ a + 1 - 1 = a /\ 1 \in 1..(a - a + 1)
    BY LinkAssumption
  <2> HIDE DEF s
  <2>4. s[1] = Packet("data", [seq |-> 1 - 1, val |-> flash[a + 1 - 1]])
    BY <2>2, <2>3
  <2> QED
    BY <2>1, <2>3, <2>4
<1>2. Adds(down, down', Append(s, Okay)) \/ down' = down \o Append(t, Errors)
  BY DEF Replies
<1>3. Okay \in DownPackets /\ Errors \in DownPackets /\ Okay.kind # "data" /\ Errors.kind # "data"
  BY DownTypes, DownKinds
<1>4. D.kind = "data" /\ D.val.seq = 0 /\ D.val.val = flash[a]
  BY DEF Packet
<1> HIDE DEF s, D
<1>5. t \in Seq(DownPackets) /\ Len(t) = 0
  <2>1. Len(s) >= 1 /\ s \in Seq(DownPackets)
    BY <1>1
  <2>2. t \in Seq(DownPackets) /\ Len(t) = Len(s) - 1
    BY <2>1, FrontFacts
  <2> QED
    BY <1>1, <2>2
<1> HIDE DEF t
<1>6. Append(t, Errors) = <<Errors>>
  <2>1. t = <<>>
    BY <1>5
  <2> QED
    BY <2>1
<1> DEFINE w == Append(s, Okay)
<1>7. w \in Seq(DownPackets) /\ Len(w) = 2 /\ w[1] = D /\ w[2] = Okay
  <2>1. s \in Seq(DownPackets) /\ Okay \in DownPackets
    BY <1>1, <1>3
  <2>2. w \in Seq(DownPackets) /\ Len(w) = Len(s) + 1 /\ (\A i \in 1..Len(s) : w[i] = s[i]) /\ w[Len(s) + 1] = Okay
    BY <2>1, AppendFacts
  <2> QED
    BY <1>1, <2>2
<1> HIDE DEF w
<1>8. CASE down' = down \o w
  <2>1. w \in Seq(DownPackets)
    BY <1>7
  <2>2. /\ Len(down') = Len(down) + Len(w) /\ \A i \in 1..Len(w) : down'[Len(down) + i] = w[i]
    BY <1>0, <1>8, <2>1, ConcatFacts
  <2>3. Len(down) \in Nat
    BY <1>0
  <2>4. down'[Len(down) + 1] = D /\ down'[Len(down) + 2] = Okay /\ Len(down') = Len(down) + 2
    BY <1>7, <2>2, <2>3
  <2>5. \A i \in (Len(down) + 1)..Len(down') : i = Len(down) + 1 \/ i = Len(down) + 2
    BY <2>3, <2>4
  <2> QED
    BY <1>3, <1>4, <2>4, <2>5
<1>9. ASSUME NEW x \in {D, Okay, Errors}, x \in DownPackets, down' = Append(down, x)
      PROVE  \A i \in (Len(down) + 1)..Len(down') :
               down'[i].kind = "data" => i = Len(down) + 1 /\ down'[i].val.seq = 0 /\ down'[i].val.val = flash[a]
  <2>1. Len(down') = Len(down) + 1 /\ down'[Len(down) + 1] = x /\ Len(down) \in Nat
    BY <1>0, <1>9, AppendedDown
  <2>2. \A i \in (Len(down) + 1)..Len(down') : i = Len(down) + 1
    BY <2>1
  <2>3. x.kind = "data" => x = D
    BY <1>3
  <2> QED
    BY <1>4, <2>1, <2>2, <2>3
<1>10. CASE \E i \in DOMAIN w : down' = down \o Without(w, i)
  <2>1. PICK i \in DOMAIN w : down' = down \o Without(w, i)
    BY <1>10
  <2>2. w \in Seq(DownPackets)
    BY <1>7
  <2>3. i \in 1..2 /\ D \in DownPackets
    <3>1. DOMAIN w = 1..Len(w) /\ \A k \in 1..Len(w) : w[k] \in DownPackets
      BY <2>2
    <3>2. Len(w) = 2 /\ w[1] = D
      BY <1>7
    <3>3. w[1] \in DownPackets
      BY <3>1, <3>2
    <3> QED
      BY <2>1, <3>1, <3>2, <3>3
  <2> DEFINE v == Without(w, i)
  <2>4. /\ v \in Seq(DownPackets) /\ Len(v) = Len(w) - 1
        /\ \A k \in 1..(Len(w) - 1) : v[k] = IF k < i THEN w[k] ELSE w[k + 1]
    BY <2>1, <2>2, WithoutFacts
  <2> HIDE DEF v
  <2>5. Len(v) = 1 /\ (v[1] = D \/ v[1] = Okay)
    BY <1>7, <2>3, <2>4
  <2>6. v = <<v[1]>>
    BY <2>4, <2>5
  <2>7. down' = Append(down, v[1])
    <3>1. down' = down \o <<v[1]>>
      BY <2>1, <2>6 DEF v
    <3> QED
      BY <1>0, <3>1
  <2> QED
    BY <1>3, <1>9, <2>3, <2>5, <2>7
<1>11. CASE down' = down
  BY <1>0, <1>11
<1>12. CASE down' = down \o <<Errors>>
  <2>1. down' = Append(down, Errors)
    BY <1>0, <1>12
  <2> QED
    BY <1>3, <1>9, <2>1
<1> QED
  BY <1>2, <1>6, <1>8, <1>10, <1>11, <1>12 DEF Adds, w

\* The lines of agent scan, and what the dump has read.
NoReads == (\A i \in DOMAIN up : up[i].kind # "read") /\ (\A i \in DOMAIN down : down[i].kind # "data")
ReadOnce ==
  /\ \A i \in DOMAIN up : up[i].kind = "read" =>
       /\ i = Len(up) /\ up[i].val = <<off + 1, off + 1>> /\ Len(got) = off
       /\ \A j \in DOMAIN down : down[j].kind # "data"
  /\ \A i \in DOMAIN down : down[i].kind = "data" =>
       /\ down[i].val.seq = 0 /\ down[i].val.val = flash[off + 1] /\ Len(got) = off
       /\ \A j \in DOMAIN up : up[j].kind # "read"
       /\ \A j \in DOMAIN down : down[j].kind = "data" => i = j
DumpLines ==
  /\ pc \notin {"stream", "closed"} => NoReads
  /\ pc = "stream" => ReadOnce
DumpSizes ==
  /\ \A i \in DOMAIN got : got[i] \in {"ff", flash[i]}
  /\ step # 3 => got = <<>>
  /\ step = 3 =>
       /\ Len(got) <= Sectors
       /\ pc \in {"run", "go", "baud", "baud_verify"} => Len(got) = off
       /\ pc = "run" => off <= Len(found)
       /\ pc \in {"go", "baud", "baud_verify", "stream"} => off < Len(found)
  /\ pc = "stream" => Len(got) \in off..(off + 1)

LEMMA DumpParts ==
  ASSUME cmd = "scan", step \in {1, 2, 3}, Mine
  PROVE  DumpInv <=> (DumpLines /\ DumpSizes)
<1>1. Op = "dump" <=> step = 3
  BY ScriptTable DEF Op
<1> QED
  BY <1>1 DEF DumpInv, DumpLines, DumpSizes, NoReads, ReadOnce

LEMMA DumpShrinks ==
  ASSUME down \in Seq(DownPackets), Shrinks, UNCHANGED <<up, flash>>
  PROVE  /\ NoReads => NoReads'
         /\ ReadOnce /\ off' = off /\ got' = got => ReadOnce'
<1>0. DOMAIN down = 1..Len(down) /\ Len(down) \in Nat
  OBVIOUS
<1>1. PICK d \in 0..Len(down) : Len(down') = Len(down) - d /\ \A k \in 1..Len(down') : down'[k] = down[k + d]
  BY DEF Shrinks
<1>2. DOMAIN down' = 1..Len(down')
  BY ShrinksFacts
<1>3. \A i \in DOMAIN down' : i \in Nat /\ i + d \in DOMAIN down /\ down'[i] = down[i + d]
  BY <1>0, <1>1, <1>2
<1>4. NoReads => NoReads'
  BY <1>3 DEF NoReads
<1>5. ASSUME ReadOnce, off' = off, got' = got PROVE ReadOnce'
  <2>1. \A i \in DOMAIN up : up[i].kind = "read" =>
          /\ i = Len(up) /\ up[i].val = <<off + 1, off + 1>> /\ Len(got) = off
          /\ \A j \in DOMAIN down' : down'[j].kind # "data"
    BY <1>3, <1>5 DEF ReadOnce
  <2>2. ASSUME NEW i \in DOMAIN down', down'[i].kind = "data"
        PROVE  /\ down'[i].val.seq = 0 /\ down'[i].val.val = flash[off + 1] /\ Len(got) = off
               /\ \A j \in DOMAIN up : up[j].kind # "read"
               /\ \A j \in DOMAIN down' : down'[j].kind = "data" => i = j
    <3>1. i + d \in DOMAIN down /\ down[i + d].kind = "data"
      BY <1>3, <2>2
    <3>2. /\ down'[i].val.seq = 0 /\ down'[i].val.val = flash[off + 1] /\ Len(got) = off
          /\ \A j \in DOMAIN up : up[j].kind # "read"
      BY <1>3, <1>5, <3>1 DEF ReadOnce
    <3>3. ASSUME NEW j \in DOMAIN down', down'[j].kind = "data" PROVE i = j
      <4>1. i + d = j + d
        BY <1>3, <1>5, <3>1, <3>3 DEF ReadOnce
      <4>2. i \in Nat /\ j \in Nat /\ d \in Nat
        BY <1>3
      <4> QED
        BY <4>1, <4>2
    <3> QED
      BY <3>2, <3>3
  <2> QED
    BY <1>5, <2>1, <2>2 DEF ReadOnce
<1> QED
  BY <1>4, <1>5

LEMMA StreamDump ==
  ASSUME TypeInv, PlaceInv, pc = "stream", cmd = "scan"
  PROVE  step = 3 /\ Op = "dump"
BY OpTable DEF TypeInv, PlaceInv, OpIs

LEMMA FoundLen ==
  ASSUME TypeInv
  PROVE  off \in Nat /\ Len(found) \in Nat /\ Len(got) \in Nat /\ DOMAIN got = 1..Len(got)
<1> DEFINE F == Contents \cup {"header", "read_error"}
           G == Contents \cup {"", "ff"}
<1>1. found \in Seq(F) /\ got \in Seq(G) /\ off \in Nat
  BY DEF TypeInv
<1> HIDE DEF F, G
<1> QED
  BY <1>1

\* The agent's steps.
LEMMA DumpAgent ==
  ASSUME TypeInv, PlaceInv, MineInv, FoundInv, Mine, Works, UNCHANGED hostVars, cmd = "scan", DumpLines, DumpSizes, flash' = flash
  PROVE  DumpLines'
<1>0. up \in Seq(UpPackets) /\ down \in Seq(DownPackets)
  BY DEF TypeInv
<1>1. DOMAIN up = 1..Len(up) /\ Len(up) \in Nat /\ DOMAIN down = 1..Len(down) /\ Len(down) \in Nat
  BY <1>0
<1>2. pc' = pc /\ off' = off /\ got' = got
  BY DEF hostVars
<1>3. ~ Receives /\ task = 0
  BY DEF MineInv, Receives
<1>4. CASE (Takes /\ Replies /\ Grows) \/ (Starves /\ Grows)
  <2>0. Taken /\ up # <<>> /\ 1 \in DOMAIN up
    <3>1. Takes => Taken
      BY <1>0, TailFacts DEF Taken, Takes
    <3> QED
      BY <1>3, <1>4, <3>1, FirstUp, StarvedUp DEF Taken
  <2>1. up[1].kind \in {"info", "set_baud", "scan", "crc_sector", "read"}
    BY <2>0 DEF MineInv, Sends
  <2>2. Len(up') = Len(up) - 1 /\ DOMAIN up' = 1..Len(up') /\ \A i \in DOMAIN up' : i + 1 \in DOMAIN up /\ up'[i] = up[i + 1]
    BY <1>0, <2>0, TakenFacts
  <2>3. /\ DOMAIN down' = 1..Len(down')
        /\ \A i \in DOMAIN down' : (i \in DOMAIN down /\ down'[i] = down[i]) \/ i \in (Len(down) + 1)..Len(down')
    BY <1>0, <1>4, GrowsFacts
  <2>4. CASE up[1].kind # "read" \/ Starves
    <3>1. \A i \in (Len(down) + 1)..Len(down') : down'[i].kind # "data"
      <4>1. CASE Starves
        <5>1. Len(down') \in Nat
          BY <1>0, <1>4 DEF Grows
        <5>2. \A i \in (Len(down) + 1)..Len(down') : i \in DOMAIN down' /\ i \notin DOMAIN down
          BY <1>1, <2>3, <5>1
        <5> QED
          BY <4>1, <5>2, StarveFacts
      <4> QED
        BY <1>4, <2>1, <2>4, <4>1, NoDataAnswer
    <3>2. \A i \in DOMAIN down' : down'[i].kind = "data" => i \in DOMAIN down /\ down'[i] = down[i]
      BY <2>3, <3>1
    <3>3. NoReads => NoReads'
      BY <2>2, <3>2 DEF NoReads
    <3>4. ASSUME ReadOnce PROVE ReadOnce'
      <4>1. ASSUME NEW i \in DOMAIN up', up'[i].kind = "read"
            PROVE  /\ i = Len(up') /\ up'[i].val = <<off + 1, off + 1>> /\ Len(got) = off
                   /\ \A j \in DOMAIN down' : down'[j].kind # "data"
        <5>1. i + 1 \in DOMAIN up /\ up'[i] = up[i + 1] /\ i \in Nat
          BY <2>2
        <5>2. i + 1 = Len(up) /\ up[i + 1].val = <<off + 1, off + 1>> /\ Len(got) = off
          BY <3>4, <4>1, <5>1 DEF ReadOnce
        <5>3. \A j \in DOMAIN down : down[j].kind # "data"
          BY <3>4, <4>1, <5>1 DEF ReadOnce
        <5>4. i = Len(up')
          BY <1>1, <2>2, <5>1, <5>2
        <5> QED
          BY <3>2, <5>1, <5>2, <5>3, <5>4
      <4>2. ASSUME NEW i \in DOMAIN down', down'[i].kind = "data"
            PROVE  /\ down'[i].val.seq = 0 /\ down'[i].val.val = flash[off + 1] /\ Len(got) = off
                   /\ \A j \in DOMAIN up' : up'[j].kind # "read"
                   /\ \A j \in DOMAIN down' : down'[j].kind = "data" => i = j
        BY <2>2, <3>2, <3>4, <4>2 DEF ReadOnce
      <4> QED
        BY <1>2, <4>1, <4>2 DEF ReadOnce
    <3> QED
      BY <1>2, <3>3, <3>4 DEF DumpLines
  <2>5. CASE up[1].kind = "read" /\ pc # "closed" /\ ~ Starves
    <3>1. pc = "stream" /\ ReadOnce
      BY <2>0, <2>5 DEF DumpLines, NoReads
    <3>2. 1 = Len(up) /\ up[1].val = <<off + 1, off + 1>> /\ Len(got) = off /\ \A j \in DOMAIN down : down[j].kind # "data"
      BY <2>0, <2>5, <3>1 DEF ReadOnce
    <3>3. DOMAIN up' = {}
      <4>1. Len(up') = 0
        <5>1. Len(up') = Len(up) - 1
          BY <2>2
        <5>2. Len(up) = 1
          BY <3>2
        <5> QED
          BY <5>1, <5>2
      <4> QED
        BY <2>2, <4>1
    <3>4. off + 1 \in 1..Sectors
      <4>1. off \in Nat /\ Len(found) \in Nat
        BY FoundLen
      <4>2. off < Len(found) /\ Len(found) <= Sectors
        BY <3>1, StreamDump DEF DumpSizes, FoundInv
      <4> QED
        BY <4>1, <4>2, LinkAssumption
    <3>5. \A i \in (Len(down) + 1)..Len(down') :
            down'[i].kind = "data" => i = Len(down) + 1 /\ down'[i].val.seq = 0 /\ down'[i].val.val = flash[off + 1]
      BY <1>4, <2>5, <3>2, <3>4, TakeReadOne
    <3>6. \A i \in DOMAIN down' : down'[i].kind = "data" =>
            i = Len(down) + 1 /\ down'[i].val.seq = 0 /\ down'[i].val.val = flash[off + 1]
      BY <2>3, <3>2, <3>5
    <3>7. ReadOnce'
      BY <1>2, <3>2, <3>3, <3>6 DEF ReadOnce
    <3> QED
      BY <1>2, <3>1, <3>7 DEF DumpLines
  <2>6. CASE pc = "closed"
    BY <1>2, <2>6 DEF DumpLines
  <2> QED
    BY <2>4, <2>5, <2>6
<1>5. CASE Idles
  <2>1. up' = up /\ (down' = down \/ (down = <<>> /\ down' = <<Ready>>))
    BY <1>5 DEF Idles
  <2>2. Ready.kind # "data"
    BY DownKinds
  <2>3. CASE down' = down
    BY <1>2, <2>1, <2>3 DEF DumpLines, NoReads, ReadOnce
  <2>4. CASE down' = <<Ready>>
    <3>1. \A i \in DOMAIN down' : down'[i].kind # "data"
      BY <2>2, <2>4
    <3> QED
      BY <1>2, <2>1, <3>1 DEF DumpLines, NoReads, ReadOnce
  <2> QED
    BY <2>1, <2>3, <2>4
<1>6. CASE (Shrinks \/ down' = down) /\ UNCHANGED <<up, task, ram, flash, rate, alive, buf>>
  <2>1. CASE down' = down
    BY <1>2, <1>6, <2>1 DEF DumpLines, NoReads, ReadOnce
  <2>2. CASE Shrinks
    <3>1. (NoReads => NoReads') /\ (ReadOnce => ReadOnce')
      BY <1>0, <1>2, <1>6, <2>2, DumpShrinks
    <3> QED
      BY <1>2, <3>1 DEF DumpLines
  <2> QED
    BY <1>6, <2>1, <2>2
<1> QED
  BY <1>3, <1>4, <1>5, <1>6, AgentSteps

\* What is received while agent scan runs.
LEMMA ScanListens ==
  ASSUME TypeInv, PlaceInv, Listens, cmd = "scan", ~ UNCHANGED hostVars, Mine
  PROVE  \/ pc' = "closed" /\ step' = step /\ got' = got
         \/ DumpSkip /\ step = 3
         \/ pc = "stream" /\ step = 3 /\ rcvFrame /\ ReadStream(Head(down)) /\ Reads
         \/ pc = "baud_verify" /\ pc' = "go" /\ UNCHANGED <<step, off, got, found>>
         \/ /\ pc = "answer" /\ step = 1 /\ step' = 2 /\ pc' = "run" /\ UNCHANGED <<got, found>>
         \/ /\ step = 2 /\ step' = 2 /\ pc \notin {"stream", "closed"} /\ got' = got
            /\ pc' \in {"scan", "scan_end", "compat", "compat_crc", "scan_head"}
         \/ step = 2 /\ step' = 3 /\ pc \notin {"stream", "closed"} /\ pc' = "run" /\ off' = 0 /\ got' = got
<1>0. CmdIs /\ OpIs /\ cmd \in Commands /\ step \in 1..Len(Script(cmd))
  BY OpTable DEF TypeInv
<1>1. step \in {1, 2, 3} /\ (step = 1 => Op = "info") /\ (step = 2 => Op = "scan") /\ (step = 3 => Op = "dump") /\ Len(Script(cmd)) = 3
  BY <1>0 DEF CmdIs
<1>2. Done => (step = 1 => step' = 2 /\ pc' = "run") /\ (step = 2 => step' = 3 /\ pc' = "run") /\ (step = 3 => step' = 3 /\ pc' = "closed")
  BY <1>1 DEF Done
<1>3. Op \in {"info", "scan", "dump"} /\ (Op = "info" => step = 1) /\ (Op = "scan" => step = 2) /\ (Op = "dump" => step = 3)
  BY <1>1
<1>4. CASE rcvFrame /\ VerifyBaud(Head(down))
  BY <1>4 DEF VerifyBaud
<1>5. CASE rcvFrame /\ Answered(Head(down))
  <2>1. Op = "info" /\ step = 1 /\ pc = "answer" /\ got' = got /\ found' = found /\ (Done \/ Failed)
    BY <1>3, <1>5 DEF Answered, PlaceInv
  <2> QED
    BY <1>2, <2>1 DEF Failed
<1>6. CASE rcvFrame /\ ReadStream(Head(down))
  <2>1. Reads
    BY <1>6, ReadsEffect DEF ReadStream
  <2>2. pc = "stream" /\ Op = "dump"
    BY <1>3, <1>6 DEF ReadStream, PlaceInv
  <2> QED
    BY <1>3, <1>6, <2>1, <2>2
<1>7. CASE rcvFrame /\ ScanAnswer(Head(down))
  <2>1. Op = "scan" /\ step = 2 /\ got' = got /\ pc \notin {"stream", "closed"}
    BY <1>3, <1>7 DEF ScanAnswer
  <2>2. \/ pc' \in {"scan", "scan_end", "compat"} /\ step' = step
        \/ Failed
        \/ Done /\ off' = 0
    BY <1>7 DEF ScanAnswer
  <2> QED
    BY <1>2, <2>1, <2>2 DEF Failed
<1>8. CASE (rcvFrame /\ CompatAnswer(Head(down))) \/ CompatResult(FALSE, "")
  <2>1. pc = "compat_crc" /\ pc' = "compat" /\ step' = step /\ got' = got
    BY <1>8 DEF CompatAnswer, CompatResult
  <2>2. step = 2
    BY <1>3, <2>1 DEF PlaceInv
  <2> QED
    BY <2>1, <2>2
<1>9. CASE Timeout /\ ~ CompatResult(FALSE, "")
  <2>1. \/ pc = "baud_verify" /\ pc' = "go" /\ UNCHANGED <<step, got, off, found>>
        \/ Failed /\ UNCHANGED got
        \/ pc = "window" \/ Op = "reboot"
    BY <1>9 DEF Timeout
  <2> QED
    BY <1>3, <2>1 DEF Failed, PlaceInv
<1>10. CASE DumpSkip
  BY <1>3, <1>10 DEF DumpSkip
<1>11. ~ SkipReady /\ ~ Drain
  BY <1>3 DEF SkipReady, hostVars, hostRest, Drain, PlaceInv
<1> QED
  BY <1>3, <1>4, <1>5, <1>6, <1>7, <1>8, <1>9, <1>10, <1>11 DEF Listens, WindowAck, BlockCrc, EraseAck, PlaceInv

\* What a dump or a read receives, or fills a sector with.
GotVals == Contents \cup {"", "ff"}

LEMMA GotGrows ==
  ASSUME TypeInv, NEW v \in GotVals, got' = Append(got, v)
  PROVE  /\ Len(got') = Len(got) + 1 /\ (\A i \in 1..Len(got) : got'[i] = got[i]) /\ got'[Len(got) + 1] = v
         /\ DOMAIN got' = 1..(Len(got) + 1)
<1>1. got \in Seq(GotVals)
  BY DEF TypeInv, GotVals
<1>2. Append(got, v) \in Seq(GotVals) /\ Len(Append(got, v)) = Len(got) + 1 /\ (\A i \in 1..Len(got) : Append(got, v)[i] = got[i])
      /\ Append(got, v)[Len(got) + 1] = v
  BY <1>1, AppendFacts
<1>3. got' \in Seq(GotVals)
  BY <1>2
<1>4. DOMAIN got' = 1..Len(got')
  BY <1>3
<1> QED
  BY <1>2, <1>4

LEMMA GotAppend ==
  ASSUME TypeInv, NEW v \in GotVals, got' = Append(got, v), flash' = flash,
         \A i \in DOMAIN got : got[i] \in {"ff", flash[i]}, v = "ff" \/ v = flash[Len(got) + 1]
  PROVE  Len(got') = Len(got) + 1 /\ \A i \in DOMAIN got' : got'[i] \in {"ff", flash'[i]}
<1>1. Len(got') = Len(got) + 1 /\ (\A i \in 1..Len(got) : got'[i] = got[i]) /\ got'[Len(got) + 1] = v
      /\ DOMAIN got' = 1..(Len(got) + 1)
  BY GotGrows
<1>2. Len(got) \in Nat /\ DOMAIN got = 1..Len(got)
  BY FoundLen
<1>3. \A i \in DOMAIN got' : i \in DOMAIN got \/ i = Len(got) + 1
  <2>1. DOMAIN got' = 1..(Len(got) + 1)
    BY <1>1
  <2> QED
    BY <1>2, <2>1
<1> QED
  BY <1>1, <1>2, <1>3

\* read_memory has a packet of a sector.
LEMMA DumpReads ==
  ASSUME TypeInv, PlaceInv, FoundInv, DumpLines, DumpSizes, flash' = flash, up' = up, cmd = "scan", step = 3, Op = "dump",
         pc = "stream", rcvFrame, ReadStream(Head(down)), Reads, Shrinks
  PROVE  DumpLines' /\ DumpSizes'
<1> DEFINE p == down[1]
<1>0. down \in Seq(DownPackets)
  BY DEF TypeInv
<1>1. p = Head(down) /\ 1 \in DOMAIN down /\ p \in DownPackets /\ down # <<>>
  BY <1>0 DEF Reads
<1>2. off \in Nat /\ Len(found) \in Nat /\ Len(got) \in Nat /\ DOMAIN got = 1..Len(got) /\ found' = found
  BY FoundLen DEF ReadStream
<1>3. ReadOnce /\ off < Len(found) /\ Len(got) \in off..(off + 1) /\ Len(got) <= Sectors /\ Len(found) <= Sectors
  BY DEF DumpLines, DumpSizes, FoundInv
<1>4. DOMAIN down = 1..Len(down) /\ Len(down) \in Nat /\ DOMAIN down' = 1..Len(down') /\ Len(down') = Len(down) - 1
      /\ \A i \in 1..Len(down') : down'[i] = down[i + 1]
  <2>1. DOMAIN down' = 1..Len(down')
    BY <1>0, ShrinksFacts
  <2> QED
    BY <1>0, <2>1 DEF Reads
<1>5. CASE pc' = "closed" /\ got' = got
  <2>1. step' = 3
    <3>1. Done => step' = 3
      BY ScriptTable DEF Done
    <3> QED
      BY <3>1 DEF ReadStream, Failed
  <2> QED
    BY <1>5, <2>1 DEF DumpLines, DumpSizes
<1>6. CASE p.kind = "data" /\ got' = Append(got, p.val.val) /\ UNCHANGED <<pc, step, off>>
  <2>1. p.val.seq = 0 /\ p.val.val = flash[off + 1] /\ Len(got) = off
    BY <1>1, <1>3, <1>6 DEF ReadOnce
  <2>2. \A j \in DOMAIN up : up[j].kind # "read"
    BY <1>1, <1>3, <1>6 DEF ReadOnce
  <2>3. ASSUME NEW j \in DOMAIN down', down'[j].kind = "data" PROVE FALSE
    <3>1. j + 1 \in DOMAIN down /\ down[j + 1].kind = "data" /\ j \in Nat /\ j >= 1
      BY <1>4, <2>3
    <3>2. 1 = j + 1
      BY <1>1, <1>3, <1>6, <3>1 DEF ReadOnce
    <3> QED
      BY <3>1, <3>2
  <2>4. p.val.val \in Contents \cup {"", "ff"}
    BY <1>1, <1>6, DownVals
  <2>5. p.val.val = flash[Len(got) + 1]
    BY <2>1
  <2>6. Len(got') = Len(got) + 1 /\ \A i \in DOMAIN got' : got'[i] \in {"ff", flash'[i]}
    <3> DEFINE v == p.val.val
    <3>1. v \in GotVals /\ v = flash[Len(got) + 1] /\ got' = Append(got, v)
      BY <1>6, <2>4, <2>5 DEF GotVals
    <3>2. \A i \in DOMAIN got : got[i] \in {"ff", flash[i]}
      BY DEF DumpSizes
    <3> HIDE DEF v
    <3> QED
      BY <3>1, <3>2, GotAppend
  <2>7. Len(got') = off + 1 /\ Len(got') <= Sectors /\ Len(got') \in off..(off + 1)
    BY <1>2, <1>3, <2>1, <2>6, LinkAssumption
  <2>8. ReadOnce'
    BY <2>2, <2>3 DEF ReadOnce
  <2> QED
    BY <1>2, <1>3, <1>6, <2>6, <2>7, <2>8 DEF DumpLines, DumpSizes
<1>7. CASE Len(got) - off = 1 /\ pc' = "run" /\ off' = off + 1 /\ UNCHANGED <<step, got>>
  <2>1. Len(got) = off' /\ Len(got) # off /\ off' <= Len(found)
    <3>1. off \in Nat /\ Len(found) \in Nat /\ Len(got) \in Nat
      BY <1>2
    <3>2. off < Len(found) /\ Len(got) - off = 1 /\ off' = off + 1
      BY <1>3, <1>7
    <3> QED
      BY <3>1, <3>2
  <2>2. NoReads
    BY <1>3, <2>1 DEF ReadOnce, NoReads
  <2>3. NoReads'
    BY <1>4, <2>2 DEF NoReads
  <2> QED
    BY <1>2, <1>3, <1>7, <2>1, <2>3 DEF DumpLines, DumpSizes
<1>8. \/ p.kind = "data" /\ got' = Append(got, p.val.val) /\ UNCHANGED <<pc, step, off>>
      \/ Failed /\ got' = got
      \/ Len(got) - off = 1 /\ pc' = "run" /\ off' = off + 1 /\ UNCHANGED <<step, got>>
  BY <1>1 DEF ReadStream
<1> QED
  BY <1>5, <1>6, <1>7, <1>8 DEF Failed

LEMMA FoundNext ==
  ASSUME TypeInv, PlaceInv, ConnectInv, [Next]_vars
  PROVE  Len(found') \in Nat
<1> DEFINE F == Contents \cup {"header", "read_error"}
<1>1. found' \in Seq(F)
  BY HostTypes DEF HostVarTypes
<1> HIDE DEF F
<1> QED
  BY <1>1

\* Every step keeps what the dump counts on.
LEMMA DumpStep ==
  ASSUME TypeInv, PlaceInv, ClaimInv, ConnectInv, FoundInv, OffInv, MineInv, GotInv, DumpInv, [Next]_vars
  PROVE  DumpInv'
<1> SUFFICES ASSUME cmd' = "scan", Mine' PROVE DumpLines' /\ DumpSizes'
  <2>1. CASE cmd' = "scan" /\ Mine'
    <3>1. step' \in 1..Len(Script(cmd'))
      BY HostTypes
    <3>2. step' \in {1, 2, 3} /\ (Op' = "dump" <=> step' = 3)
      <4>1. step' = 1 \/ step' = 2 \/ step' = 3
        <5>1. Len(Script(cmd')) = 3
          BY <2>1, ScriptTable
        <5> QED
          BY <3>1, <5>1
      <4> QED
        BY <2>1, <4>1, ScriptTable DEF Op
    <3> QED
      BY <2>1, <3>2 DEF DumpInv, DumpLines, DumpSizes, NoReads, ReadOnce
  <2>2. CASE ~ (cmd' = "scan" /\ Mine')
    BY <2>2 DEF DumpInv
  <2> QED
    BY <2>1, <2>2
<1>1. CASE Fresh
  <2>1. up' = <<>> /\ down' = <<>> /\ got' = <<>> /\ step' = 1 /\ pc' = "run"
    BY <1>1 DEF Fresh, GotInv
  <2> QED
    BY <2>1 DEF DumpLines, DumpSizes, NoReads
<1>2. CASE Works /\ Mine
  <2>0. cmd = "scan" /\ flash' = flash
    BY <1>2, WorkEffect, FlashSteps DEF Flashes
  <2>1. OpIs /\ CmdIs /\ cmd \in Commands /\ step \in 1..Len(Script(cmd))
    BY OpTable DEF TypeInv
  <2>2. step \in {1, 2, 3} /\ (step = 1 => Op = "info") /\ (step = 2 => Op = "scan") /\ (step = 3 <=> Op = "dump")
    BY <2>0, <2>1 DEF CmdIs
  <2>3. DumpLines /\ DumpSizes
    BY <1>2, <2>0, <2>2, DumpParts
  <2>4. up \in Seq(UpPackets) /\ down \in Seq(DownPackets)
    BY DEF TypeInv
  <2>5. off \in Nat /\ Len(found) \in Nat /\ Len(got) \in Nat /\ DOMAIN got = 1..Len(got)
    BY FoundLen
  <2>6. CASE UNCHANGED hostVars
    <3>1. DumpLines'
      BY <1>2, <2>0, <2>3, <2>6, DumpAgent
    <3>2. DumpSizes'
      BY <2>0, <2>3, <2>6 DEF hostVars, DumpSizes
    <3> QED
      BY <3>1, <3>2
  <2>7. CASE ~ UNCHANGED hostVars
    <3>0. pc \notin {"closed", "upload", "connect"}
      BY <1>2, <2>7, WorkEffect
    <3>1. (Requests \/ up' = up) /\ ~ Takes /\ ~ Receives /\ ~ Starves /\ ~ Idles
      BY <1>2, <2>7, HostLeavesAlone
    <3>2. Shrinks
      BY <1>2, <3>1, DownSteps
    <3>3. \A i \in DOMAIN down' : \E j \in DOMAIN down : down'[i] = down[j]
      BY <2>4, <3>2, ShrinksFacts
    <3>4. CASE Switches \/ Turns \/ (Asks /\ pc' = "compat_crc") \/ (Asks /\ Done)
      <4>1. NewUp({"set_baud", "info", "crc_sector"})
        BY <3>4, HostKinds DEF NewUp
      <4>2. pc \notin {"stream", "closed"} /\ NoReads /\ got' = got
        BY <2>3, <3>4 DEF Switches, Turns, Asks, DumpLines
      <4>3. NoReads'
        BY <3>3, <4>1, <4>2 DEF NoReads, NewUp
      <4>4. pc' # "stream"
        BY <3>4 DEF Switches, Turns, Asks, Done
      <4>5. DumpLines'
        BY <4>3, <4>4 DEF DumpLines
      <4>6. CASE Switches \/ Turns
        <5>1. step' = step /\ found' = found /\ pc' \in {"go", "baud", "baud_verify"}
          BY <4>6 DEF Switches, Turns
        <5>2. step = 3 => off' = off /\ off < Len(found) /\ Len(got) = off
          BY <2>2, <2>3, <4>6 DEF Switches, Turns, DumpSizes, Reading
        <5> QED
          BY <2>0, <2>3, <4>2, <4>5, <5>1, <5>2 DEF DumpSizes
      <4>7. CASE Asks /\ pc' = "compat_crc"
        <5>1. step' = step /\ step = 2
          BY <2>1, <4>7 DEF Asks, PlaceInv, OpIs, Done
        <5> QED
          BY <2>0, <2>3, <4>2, <4>5, <4>7, <5>1 DEF DumpSizes
      <4>8. CASE Asks /\ Done
        <5>1. step = 2 /\ found' = found
          BY <2>1, <4>8 DEF Asks, PlaceInv, OpIs
        <5>2. step' = 3 /\ pc' = "run"
          BY <2>0, <4>8, <5>1, ScriptTable DEF Done
        <5>3. off' = 0 /\ got' = <<>>
          <6>1. pc' # "compat_crc"
            BY <5>2
          <6> QED
            BY <2>3, <4>2, <4>8, <5>1, <6>1 DEF Asks, DumpSizes
        <5>4. Len(got') = 0
          BY <5>3
        <5> QED
          BY <2>5, <4>5, <5>1, <5>2, <5>3, <5>4, LinkAssumption DEF DumpSizes
      <4> QED
        BY <3>4, <4>6, <4>7, <4>8
    <3>5. CASE Issues
      <4>1. Op # "write" /\ step' = step /\ off' = off /\ found' = found /\ down' = down /\ pc = "go" /\ got' = got
        BY <2>1, <2>2, <3>5 DEF Issues
      <4>2. NoReads
        BY <2>3, <4>1 DEF DumpLines
      <4>3. up' = up \/ (up' = Append(up, Asked) /\ Asked \in UpPackets)
        BY <3>5, <4>1, IssueOne, AskedFacts DEF Issues
      <4>4. CASE step # 3
        <5>1. pc' \notin {"stream", "closed"}
          BY <2>2, <3>5, <4>4, WaitsPlace DEF Issues, Waits
        <5>2. Asked.kind # "read"
          BY <2>2, <4>4 DEF Asked, Packet
        <5>3. NoReads'
          BY <2>4, <4>1, <4>2, <4>3, <5>2, AppendedUp DEF NoReads
        <5> QED
          BY <2>0, <2>3, <4>1, <4>4, <5>1, <5>3 DEF DumpLines, DumpSizes
      <4>5. CASE step = 3
        <5>1. pc' = "stream"
          BY <2>2, <3>5, <4>5 DEF Issues, Waits
        <5>2. Asked.kind = "read" /\ Asked.val = <<off + 1, off + 1>>
          BY <2>2, <4>5 DEF Asked, Packet
        <5>3. Len(got) = off /\ off < Len(found) /\ Len(got) <= Sectors
          BY <2>3, <4>1, <4>5 DEF DumpSizes
        <5>4. \A i \in DOMAIN up' : up'[i].kind = "read" => i = Len(up') /\ up'[i] = Asked
          BY <2>4, <4>2, <4>3, AppendedUp DEF NoReads
        <5>5. ReadOnce'
          BY <4>1, <4>2, <5>2, <5>3, <5>4 DEF ReadOnce, NoReads
        <5>6. Len(got') \in off'..(off' + 1)
          BY <2>5, <4>1, <5>3
        <5> QED
          BY <2>0, <2>3, <4>1, <4>5, <5>1, <5>3, <5>5, <5>6 DEF DumpLines, DumpSizes
      <4> QED
        BY <4>4, <4>5
    <3>6. CASE Listens
      <4>0. up' = up
        BY <3>6, SilentEffect
      <4>1. pc \notin {"stream", "closed"} => NoReads'
        BY <2>3, <3>3, <4>0 DEF DumpLines, NoReads
      <4>2. CASE pc' = "closed" /\ step' = step /\ got' = got
        BY <2>0, <2>3, <4>2 DEF DumpLines, DumpSizes
      <4>3. CASE DumpSkip /\ step = 3
        <5>0. pc = "run" /\ found' = found /\ Len(got) = off /\ off <= Len(found)
          BY <2>3, <4>3 DEF DumpSkip, DumpSizes
        <5>1. CASE off < Len(found) /\ got' = Append(got, "ff") /\ off' = off + 1 /\ UNCHANGED <<pc, step>>
          <6>1. Len(got') = Len(got) + 1 /\ \A i \in DOMAIN got' : got'[i] \in {"ff", flash'[i]}
            BY <2>0, <2>3, <5>1, GotAppend DEF DumpSizes, GotVals
          <6>2. Len(got') = off' /\ off' <= Len(found') /\ Len(got') <= Sectors
            <7>1. Len(found) <= Sectors
              BY DEF FoundInv
            <7> QED
              BY <2>5, <5>0, <5>1, <6>1, <7>1, LinkAssumption
          <6> QED
            BY <3>0, <4>1, <4>3, <5>0, <5>1, <6>1, <6>2 DEF DumpLines, DumpSizes
        <5>2. CASE Done /\ UNCHANGED <<got, off>>
          <6>1. pc' = "closed" /\ step' = step
            BY <2>0, <4>3, <5>2, ScriptTable DEF Done
          <6> QED
            BY <4>2, <5>2, <6>1
        <5> QED
          BY <4>3, <5>1, <5>2 DEF DumpSkip
      <4>4. CASE pc = "stream" /\ step = 3 /\ rcvFrame /\ ReadStream(Head(down)) /\ Reads
        BY <2>0, <2>2, <2>3, <3>2, <4>0, <4>4, DumpReads
      <4>5. CASE pc = "baud_verify" /\ pc' = "go" /\ UNCHANGED <<step, off, got, found>>
        BY <2>0, <2>3, <4>1, <4>5 DEF DumpLines, DumpSizes
      <4>6. CASE pc = "answer" /\ step = 1 /\ step' = 2 /\ pc' = "run" /\ UNCHANGED <<got, found>>
        BY <2>0, <2>3, <4>1, <4>6 DEF DumpLines, DumpSizes
      <4>7. CASE /\ step = 2 /\ step' = 2 /\ pc \notin {"stream", "closed"} /\ got' = got
                 /\ pc' \in {"scan", "scan_end", "compat", "compat_crc", "scan_head"}
        BY <2>0, <2>3, <4>1, <4>7 DEF DumpLines, DumpSizes
      <4>8. CASE step = 2 /\ step' = 3 /\ pc \notin {"stream", "closed"} /\ pc' = "run" /\ off' = 0 /\ got' = got
        <5>1. got' = <<>>
          BY <2>3, <4>8 DEF DumpSizes
        <5>2. Len(got') = 0
          BY <5>1
        <5>3. 0 <= Len(found') /\ 0 <= Sectors
          BY <1>2, FoundNext, LinkAssumption
        <5> QED
          BY <4>1, <4>8, <5>1, <5>2, <5>3 DEF DumpLines, DumpSizes
      <4> QED
        BY <1>2, <2>0, <2>7, <3>6, <4>2, <4>3, <4>4, <4>5, <4>6, <4>7, <4>8, ScanListens
    <3>7. CASE Continues \/ Retries \/ WriteFlash
      BY <2>2, <3>7 DEF Continues, Retries, WriteFlash, PlaceInv
    <3>8. Asks => pc' = "compat_crc" \/ Done
      BY DEF Asks
    <3> QED
      BY <1>2, <2>7, <3>1, <3>4, <3>5, <3>6, <3>7, <3>8 DEF Works, vars, hostVars
  <2> QED
    BY <2>6, <2>7
<1> QED
  BY <1>1, <1>2, MineStep

---------------------------------------------------------------------------
(* agent scan: the sectors' states.                                        *)

FoundVals == Contents \cup {"header", "read_error"}

LEMMA FoundGrows ==
  ASSUME TypeInv, NEW v \in FoundVals, found' = Append(found, v)
  PROVE  /\ Len(found') = Len(found) + 1 /\ (\A i \in 1..Len(found) : found'[i] = found[i]) /\ found'[Len(found) + 1] = v
<1>1. found \in Seq(FoundVals)
  BY DEF TypeInv, FoundVals
<1>2. Len(Append(found, v)) = Len(found) + 1 /\ (\A i \in 1..Len(found) : Append(found, v)[i] = found[i])
      /\ Append(found, v)[Len(found) + 1] = v
  BY <1>1, AppendFacts
<1> QED
  BY <1>2

\* Steps that leave the host where it is, once more: it can only have skipped a READY.
LEMMA IdleSteps ==
  ASSUME TypeInv, PlaceInv, Works, UNCHANGED hostVars
  PROVE  \/ Takes /\ Replies /\ Grows
         \/ Receives /\ Grows
         \/ Starves /\ Grows
         \/ Idles
         \/ /\ UNCHANGED <<up, task, ram, flash, rate, alive, buf>>
            /\ down' = down \/ (Reads /\ down[1] = Ready)
<1>0. pc' # pc => FALSE
  BY DEF hostVars
<1>1. ~ Switches /\ ~ Turns /\ ~ Issues /\ ~ Continues /\ ~ Asks /\ ~ Retries /\ ~ WriteFlash
  BY <1>0, WaitsPlace DEF Switches, Turns, Issues, Continues, Asks, Retries, Done, WriteFlash, Failed
<1>2. Len(found) \in Nat /\ Len(got) \in Nat /\ acks \in Nat /\ off \in Nat
  BY FoundLen DEF TypeInv
<1>3. CASE Listens
  <2>0. UNCHANGED <<up, task, ram, flash, rate, alive, buf>>
    BY <1>3, SilentEffect DEF agentSide, agentVars
  <2>1. CASE SkipReady
    <3>1. Reads /\ Ready = down[1]
      BY <2>1, ReadsEffect DEF SkipReady
    <3> QED
      BY <2>0, <3>1
  <2>2. ~ Timeout /\ ~ Drain
    BY <1>0 DEF Timeout, Drain, Waiting, CompatResult, Failed, Done
  <2>3. ~ DumpSkip
    <3>1. off' = off /\ step' = step /\ pc' = pc
      BY DEF hostVars
    <3>2. step \in Nat
      <4>1. step \in 1..Len(Script(cmd))
        BY DEF TypeInv
      <4> QED
        BY <4>1
    <3>3. pc = "run" => ~ Done
      BY <3>1, <3>2 DEF Done
    <3> QED
      BY <1>2, <3>1, <3>3 DEF DumpSkip
  <2>4. ~ (rcvFrame /\ (VerifyBaud(Head(down)) \/ Answered(Head(down)) \/ CompatAnswer(Head(down))))
    BY <1>0 DEF rcvFrame, VerifyBaud, Answered, CompatAnswer, CompatResult, Done, Failed
  <2>5. ~ (rcvFrame /\ (WindowAck(Head(down)) \/ BlockCrc(Head(down)) \/ EraseAck(Head(down))))
    <3>1. acks' = acks /\ off' = off
      BY DEF hostVars
    <3> QED
      BY <1>0, <1>2, <3>1 DEF rcvFrame, WindowAck, BlockCrc, EraseAck, Done, Failed
  <2>6. ASSUME rcvFrame, ReadStream(Head(down)) PROVE FALSE
    <3>1. Head(down) = down[1] /\ down[1] \in DownPackets
      BY <2>6, ReadsEffect DEF ReadStream, Reads
    <3>2. down[1].kind = "data" /\ got' = Append(got, down[1].val.val)
      BY <1>0, <2>6, <3>1 DEF ReadStream, Failed, Done
    <3>3. down[1].val.val \in GotVals
      BY <3>1, <3>2, DownVals DEF GotVals
    <3>4. Len(got') = Len(got) + 1
      BY <3>2, <3>3, GotGrows
    <3> QED
      BY <1>2, <3>4 DEF hostVars
  <2>7. ASSUME rcvFrame, ScanAnswer(Head(down)) PROVE FALSE
    <3>1. Head(down) = down[1] /\ down[1] \in DownPackets
      BY <2>7, ReadsEffect DEF ScanAnswer, Reads
    <3>2. down[1].kind = "scan" /\ found' = Append(found, down[1].val)
      BY <1>0, <2>7, <3>1 DEF ScanAnswer, Failed, Done
    <3>3. down[1].val \in FoundVals
      BY <3>1, <3>2, DownVals DEF FoundVals
    <3>4. Len(found') = Len(found) + 1
      BY <3>2, <3>3, FoundGrows
    <3> QED
      BY <1>2, <3>4 DEF hostVars
  <2> QED
    BY <1>3, <2>1, <2>2, <2>3, <2>4, <2>5, <2>6, <2>7 DEF Listens
<1> QED
  BY <1>1, <1>3 DEF Works, vars, agentVars

\* What the agent sends before the host has the header: the first of it is a
\* result of the scan, and the results or an early ACK come behind.
LEMMA HeadFrom ==
  ASSUME TypeInv, Quiet, flash' = flash, NEW w \in Seq(DownPackets), down' = down \o w, Len(w) >= Sectors + 1,
         w[1].kind = "scan", (\A s \in 1..Sectors : w[1 + s] = Packet("scan", flash[s])) \/ w[Sectors + 1].kind = "ack"
  PROVE  HeadNew'
<1> DEFINE n == Len(down)
<1>0. Sectors \in Nat /\ Sectors >= 1
  BY LinkAssumption
<1>1. down \in Seq(DownPackets)
  BY DEF TypeInv
<1>2. n \in Nat /\ DOMAIN down = 1..n /\ Len(w) \in Nat /\ Len(down') = n + Len(w) /\ DOMAIN down' = 1..(n + Len(w))
  BY <1>1
<1>3. (\A i \in 1..n : down'[i] = down[i]) /\ \A i \in 1..Len(w) : down'[n + i] = w[i]
  BY <1>1
<1> HIDE DEF n
<1>4. down'[n + 1].kind = "scan" /\ down'[n + 1] # Ready
  BY <1>0, <1>2, <1>3, DownKinds
<1> SUFFICES ASSUME NEW i \in DOMAIN down', \A j \in 1..(i - 1) : down'[j] = Ready, down'[i] # Ready
             PROVE  down'[i].kind = "scan" /\ Follows(i)'
  BY DEF HeadNew
<1>5. i = n + 1
  <2>1. i > n
    BY <1>2, <1>3 DEF Quiet
  <2>2. ~ (i > n + 1)
    BY <1>2, <1>4
  <2> QED
    BY <1>2, <2>1, <2>2
<1>6. CASE \A s \in 1..Sectors : w[1 + s] = Packet("scan", flash[s])
  <2>1. Len(down') >= i + Sectors
    BY <1>0, <1>2, <1>5
  <2>2. \A s \in 1..Sectors : down'[i + s] = Packet("scan", flash[s])
    <3> SUFFICES ASSUME NEW s \in 1..Sectors PROVE down'[i + s] = Packet("scan", flash[s])
      OBVIOUS
    <3>1. 1 + s \in 1..Len(w) /\ i + s = n + (1 + s)
      BY <1>0, <1>2, <1>5
    <3> QED
      BY <1>3, <1>6, <3>1
  <2> QED
    BY <1>4, <1>5, <2>1, <2>2 DEF Follows
<1>7. CASE w[Sectors + 1].kind = "ack"
  <2>0. n + (Sectors + 1) \in 1..(n + Len(w)) /\ (n + 1) + Sectors = n + (Sectors + 1) /\ n + 1 + Sectors > n + 1
    BY <1>0, <1>2
  <2>1. i + Sectors \in DOMAIN down' /\ i + Sectors > i /\ i + Sectors <= i + Sectors /\ i + Sectors = n + (Sectors + 1)
    BY <1>0, <1>2, <1>5, <2>0
  <2>2. down'[i + Sectors].kind = "ack"
    BY <1>0, <1>2, <1>3, <1>7, <2>1
  <2> QED
    BY <1>4, <1>5, <2>1, <2>2 DEF Follows
<1> QED
  BY <1>6, <1>7

LEMMA HeadStream ==
  ASSUME TypeInv, Quiet, flash' = flash, Adds(down, down', ScanStream)
  PROVE  HeadNew'
<1> DEFINE st == ScanStream
<1>0. Sectors \in Nat /\ Sectors >= 1
  BY LinkAssumption
<1>1. /\ st \in Seq(DownPackets) /\ Len(st) = Sectors + 2 /\ st[1] = Packet("scan", "header") /\ st[Sectors + 2] = Okay
      /\ \A i \in 1..Sectors : st[i + 1] = Packet("scan", flash[i])
  BY ScanStreamFacts
<1>2. Adds(down, down', st)
  OBVIOUS
<1> HIDE DEF st
<1>3. st[1].kind = "scan" /\ st[Sectors + 2].kind = "ack"
  BY <1>1 DEF Packet, Okay, Ack
<1>4. \A s \in 1..Sectors : st[1 + s] = Packet("scan", flash[s])
  <2>1. \A s \in 1..Sectors : 1 + s = s + 1
    BY <1>0
  <2> QED
    BY <1>1, <2>1
<1>5. CASE down' = down \o st
  <2>1. st \in Seq(DownPackets) /\ Len(st) >= Sectors + 1
    BY <1>0, <1>1
  <2> QED
    BY <1>3, <1>4, <1>5, <2>1, HeadFrom
<1>6. CASE \E k \in DOMAIN st : down' = down \o Without(st, k)
  <2>1. PICK k \in DOMAIN st : down' = down \o Without(st, k)
    BY <1>6
  <2> DEFINE w == Without(st, k)
  <2>2. /\ w \in Seq(DownPackets) /\ Len(w) = Len(st) - 1
        /\ \A j \in 1..(Len(st) - 1) : w[j] = IF j < k THEN st[j] ELSE st[j + 1]
    BY <1>1, WithoutFacts
  <2>3. down' = down \o w
    BY <2>1
  <2> HIDE DEF w
  <2>4. k \in 1..(Sectors + 2) /\ Len(w) = Sectors + 1
    BY <1>0, <1>1, <2>1, <2>2
  <2>5. \A j \in 1..(Sectors + 1) : w[j] = IF j < k THEN st[j] ELSE st[j + 1]
    BY <1>0, <1>1, <2>2
  <2>6. w[1].kind = "scan"
    <3>1. w[1] = st[1] \/ w[1] = st[2]
      BY <1>0, <2>5
    <3>2. 1 \in 1..Sectors /\ st[1 + 1] = Packet("scan", flash[1])
      BY <1>0, <1>1
    <3>3. st[2].kind = "scan"
      BY <3>2 DEF Packet
    <3> QED
      BY <1>3, <3>1, <3>3
  <2>7. CASE k = Sectors + 2
    <3>1. \A s \in 1..Sectors : w[1 + s] = Packet("scan", flash[s])
      <4> SUFFICES ASSUME NEW s \in 1..Sectors PROVE w[1 + s] = Packet("scan", flash[s])
        OBVIOUS
      <4>1. 1 + s \in 1..(Sectors + 1) /\ 1 + s < k
        BY <1>0, <2>7
      <4> QED
        BY <1>4, <2>5, <4>1
    <3>2. w \in Seq(DownPackets) /\ Len(w) >= Sectors + 1
      BY <1>0, <2>2, <2>4
    <3> QED
      BY <2>3, <2>6, <3>1, <3>2, HeadFrom
  <2>8. CASE k # Sectors + 2
    <3>1. ~ (Sectors + 1 < k) /\ Sectors + 1 \in 1..(Sectors + 1) /\ (Sectors + 1) + 1 = Sectors + 2
      BY <1>0, <2>4, <2>8
    <3>2. w[Sectors + 1] = st[Sectors + 2]
      BY <2>5, <3>1
    <3>3. w \in Seq(DownPackets) /\ Len(w) >= Sectors + 1
      BY <1>0, <2>2, <2>4
    <3> QED
      BY <1>3, <2>3, <2>6, <3>2, <3>3, HeadFrom
  <2> QED
    BY <2>7, <2>8
<1>7. CASE down' = down
  BY <1>7 DEF HeadNew, Quiet
<1> QED
  BY <1>2, <1>5, <1>6, <1>7 DEF Adds

\* A READY that is skipped moves the header and what follows it.
LEMMA HeadSkips ==
  ASSUME TypeInv, Reads, down[1] = Ready, flash' = flash
  PROVE  (HeadNew => HeadNew') /\ (HeadOld => HeadOld')
<1> DEFINE n == Len(down)
<1>0. Sectors \in Nat /\ Sectors >= 1
  BY LinkAssumption
<1>1. down \in Seq(DownPackets) /\ down' \in Seq(DownPackets)
  BY DEF TypeInv, Reads
<1>2. n \in Nat /\ DOMAIN down = 1..n /\ DOMAIN down' = 1..(n - 1) /\ Len(down') = n - 1 /\ n >= 1
  BY <1>1 DEF Reads
<1>3. \A i \in 1..(n - 1) : down'[i] = down[i + 1]
  BY <1>2 DEF Reads
<1> HIDE DEF n
<1>4. ASSUME HeadNew PROVE HeadNew'
  <2> SUFFICES ASSUME NEW i \in DOMAIN down', \A j \in 1..(i - 1) : down'[j] = Ready, down'[i] # Ready
               PROVE  down'[i].kind = "scan" /\ Follows(i)'
    BY DEF HeadNew
  <2>1. i \in 1..(n - 1) /\ i + 1 \in DOMAIN down /\ down'[i] = down[i + 1]
    BY <1>2, <1>3
  <2>2. \A j \in 1..((i + 1) - 1) : down[j] = Ready
    <3> SUFFICES ASSUME NEW j \in 1..((i + 1) - 1) PROVE down[j] = Ready
      OBVIOUS
    <3>1. CASE j = 1
      BY <3>1
    <3>2. CASE j # 1
      <4>1. j - 1 \in 1..(i - 1) /\ j - 1 \in 1..(n - 1) /\ (j - 1) + 1 = j
        BY <1>2, <2>1, <3>2
      <4> QED
        BY <1>3, <4>1
    <3> QED
      BY <3>1, <3>2
  <2>3. down[i + 1].kind = "scan" /\ Follows(i + 1)
    BY <1>4, <2>1, <2>2 DEF HeadNew
  <2>4. CASE Len(down) >= (i + 1) + Sectors /\ \A s \in 1..Sectors : down[(i + 1) + s] = Packet("scan", flash[s])
    <3>1. Len(down') >= i + Sectors
      BY <1>0, <1>2, <2>1, <2>4 DEF n
    <3>2. \A s \in 1..Sectors : down'[i + s] = Packet("scan", flash[s])
      <4> SUFFICES ASSUME NEW s \in 1..Sectors PROVE down'[i + s] = Packet("scan", flash[s])
        OBVIOUS
      <4>0. n >= (i + 1) + Sectors /\ i \in 1..(n - 1) /\ n \in Nat
        BY <1>2, <2>1, <2>4 DEF n
      <4>1. i + s \in 1..(n - 1) /\ (i + s) + 1 = (i + 1) + s
        BY <1>0, <4>0
      <4> QED
        BY <1>3, <2>4, <4>1
    <3> QED
      BY <2>1, <2>3, <3>1, <3>2 DEF Follows
  <2>5. CASE \E e \in DOMAIN down : e > i + 1 /\ e <= (i + 1) + Sectors /\ down[e].kind = "ack"
    <3>1. PICK e \in DOMAIN down : e > i + 1 /\ e <= (i + 1) + Sectors /\ down[e].kind = "ack"
      BY <2>5
    <3>2. e - 1 \in 1..(n - 1) /\ e - 1 > i /\ e - 1 <= i + Sectors /\ (e - 1) + 1 = e
      BY <1>0, <1>2, <2>1, <3>1
    <3>3. e - 1 \in DOMAIN down' /\ down'[e - 1].kind = "ack"
      BY <1>2, <1>3, <3>1, <3>2
    <3> QED
      BY <2>1, <2>3, <3>2, <3>3 DEF Follows
  <2> QED
    BY <2>3, <2>4, <2>5 DEF Follows
<1>5. ASSUME HeadOld PROVE HeadOld'
  <2>1. Shrinks
    <3>1. 1 \in 0..Len(down) /\ Len(down') = Len(down) - 1 /\ \A i \in 1..Len(down') : down'[i] = down[i + 1]
      BY <1>2 DEF Reads, n
    <3>2. down' \in Seq(DownPackets) /\ stash' \in 0..Len(down')
      BY DEF Reads
    <3> QED
      BY <3>1, <3>2 DEF Shrinks
  <2>2. Single'
    BY <1>1, <1>5, <2>1, QuietLines DEF HeadOld
  <2>3. \A i \in DOMAIN down' : down'[i] # Ready => down'[i].kind = "ack"
    BY <1>1, <1>5, <2>1, ShrinksFacts DEF HeadOld
  <2> QED
    BY <2>2, <2>3 DEF HeadOld
<1> QED
  BY <1>4, <1>5

\* While the results come in, nothing that is sent behind them changes them.
LEMMA RunsKept ==
  ASSUME TypeInv, FoundInv, pc = "scan", ScanRuns, flash' = flash, found' = found,
         Grows \/ down' = down \/ (Reads /\ down[1] = Ready)
  PROVE  ScanRuns'
<1> DEFINE n == Len(down)
           k == Sectors - Len(found)
<1>0. Sectors \in Nat /\ Len(found) \in Nat /\ Len(found) < Sectors
  BY LinkAssumption, FoundLen DEF FoundInv
<1>1. down \in Seq(DownPackets)
  BY DEF TypeInv
<1>2. n \in Nat /\ DOMAIN down = 1..n /\ k \in Nat /\ k >= 1
  BY <1>0, <1>1
<1>3. \/ (\A s \in 1..Len(found) : found[s] = flash[s]) /\ n >= k /\ \A j \in 1..k : down[j] = Packet("scan", flash[Len(found) + j])
      \/ \E e \in DOMAIN down : e <= k /\ down[e].kind = "ack"
  BY DEF ScanRuns
<1>4. \/ (\A s \in 1..Len(found) : found[s] = flash[s]) /\ Len(down') >= k /\ \A j \in 1..k : down'[j] = Packet("scan", flash[Len(found) + j])
      \/ \E e \in DOMAIN down' : e <= k /\ down'[e].kind = "ack"
  <2> HIDE DEF k
  <2>1. CASE Grows \/ down' = down
    <3>1. Len(down') \in Nat /\ Len(down') >= n /\ DOMAIN down' = 1..Len(down') /\ \A i \in 1..n : down'[i] = down[i]
      BY <1>1, <1>2, <2>1, GrowsFacts DEF Grows
    <3> HIDE DEF n
    <3> QED
      BY <1>2, <1>3, <3>1
  <2>2. CASE Reads /\ down[1] = Ready
    <3>1. down[1].kind = "ready"
      BY <2>2, DownKinds
    <3>2. down[1] # Packet("scan", flash[Len(found) + 1])
      BY <3>1, DownKinds
    <3>3. PICK e \in DOMAIN down : e <= k /\ down[e].kind = "ack"
      BY <1>2, <1>3, <3>2
    <3>4. e # 1
      BY <3>1, <3>3
    <3>5. down' \in Seq(DownPackets) /\ Len(down') = n - 1 /\ \A i \in 1..Len(down') : down'[i] = down[i + 1]
      BY <2>2 DEF Reads
    <3>6. DOMAIN down' = 1..(n - 1)
      BY <3>5
    <3>7. e - 1 \in 1..(n - 1) /\ (e - 1) + 1 = e /\ e - 1 <= k
      BY <1>2, <3>3, <3>4
    <3> QED
      BY <3>3, <3>5, <3>6, <3>7
  <2> QED
    BY <2>1, <2>2
<1> QED
  BY <1>4 DEF ScanRuns

\* The host's other steps that end or go on without a result of the scan.
LEMMA OtherListens ==
  ASSUME TypeInv, PlaceInv, ClaimInv, Listens, cmd = "scan", ~ UNCHANGED hostVars
  PROVE  \/ rcvFrame /\ ScanAnswer(Head(down))
         \/ pc = "compat_crc" /\ pc' = "compat" /\ UNCHANGED claims
         \/ /\ found' = found /\ pc' \notin {"scan_head", "scan", "scan_end", "compat", "compat_crc"}
            /\ "scan" \in claims' => "scan" \in claims
<1>0. cmd' = cmd
  BY SilentEffect DEF agentSide
<1>1. OpIs
  <2>1. cmd \in Commands /\ step \in 1..Len(Script(cmd))
    BY DEF TypeInv
  <2> QED
    BY <2>1, OpTable
<1>2. Op \in {"info", "scan", "dump"}
  BY <1>1 DEF OpIs, Operations, Flashes
<1>3. ~ SkipReady
  BY DEF SkipReady, hostVars, hostRest
<1>4. Op # "scan" /\ Done => ("scan" \in claims' => "scan" \in claims)
  BY DEF Done
<1>5. Done => pc' \in {"run", "closed"}
  BY DEF Done
<1>6. CASE DumpSkip
  BY <1>4, <1>5, <1>6 DEF DumpSkip
<1>7. CASE Timeout
  <2>1. CASE pc = "compat_crc"
    BY <1>7, <2>1 DEF Timeout, CompatResult
  <2>2. CASE pc # "compat_crc"
    BY <1>2, <1>7, <2>2 DEF Timeout, CompatResult, Failed, PlaceInv
  <2> QED
    BY <2>1, <2>2
<1>8. ~ Drain
  BY <1>2 DEF Drain, PlaceInv
<1>9. CASE rcvFrame /\ (VerifyBaud(Head(down)) \/ Answered(Head(down)) \/ ReadStream(Head(down)))
  <2>1. CASE VerifyBaud(Head(down))
    BY <2>1 DEF VerifyBaud
  <2>2. CASE Answered(Head(down))
    <3>1. Op # "scan" /\ pc = "answer"
      BY <2>2 DEF Answered, PlaceInv
    <3>2. found' = found /\ (Done \/ Failed)
      BY <2>2 DEF Answered
    <3> QED
      BY <1>4, <1>5, <3>1, <3>2 DEF Failed
  <2>3. CASE ReadStream(Head(down))
    <3>1. Op # "scan" /\ pc = "stream"
      BY <2>3 DEF ReadStream, PlaceInv
    <3>2. found' = found /\ (Done \/ Failed \/ (pc' \in {pc, "run"} /\ UNCHANGED claims))
      BY <2>3 DEF ReadStream
    <3> QED
      BY <1>4, <1>5, <3>1, <3>2 DEF Failed
  <2> QED
    BY <1>9, <2>1, <2>2, <2>3
<1>10. ~ (rcvFrame /\ (WindowAck(Head(down)) \/ BlockCrc(Head(down)) \/ EraseAck(Head(down))))
  BY <1>2 DEF WindowAck, BlockCrc, EraseAck, PlaceInv
<1>11. CASE rcvFrame /\ CompatAnswer(Head(down))
  BY <1>11 DEF CompatAnswer, CompatResult
<1> QED
  BY <1>3, <1>6, <1>7, <1>8, <1>9, <1>10, <1>11 DEF Listens

\* The steps of the agent, while the host waits for the header or a result.
LEMMA ScanAgent ==
  ASSUME TypeInv, PlaceInv, FoundInv, MineInv, ScanInv, Mine, cmd = "scan", Works, UNCHANGED hostVars, flash' = flash
  PROVE  /\ pc = "scan_head" => HeadUp' /\ (old => HeadOld') /\ (~ old => HeadNew')
         /\ pc = "scan" => ScanRuns'
<1>0. /\ down \in Seq(DownPackets) /\ up \in Seq(UpPackets) /\ old \in BOOLEAN
      /\ late' = late /\ hostRate' = hostRate /\ found' = found
  BY LateSame DEF TypeInv, hostVars
<1>1. task = 0
  BY DEF MineInv
<1>2. ~ Receives /\ (Starves => 1 \in DOMAIN up /\ up[1].kind \notin {"scan", "info"})
  BY <1>1, FirstUp DEF Receives, Starves
<1>3. \/ Takes /\ Replies /\ Grows
      \/ Starves /\ Grows
      \/ Idles
      \/ /\ UNCHANGED <<up, task, ram, flash, rate, alive, buf>>
         /\ down' = down \/ (Reads /\ down[1] = Ready)
  BY <1>2, IdleSteps
<1>4. ASSUME pc = "scan_head" PROVE HeadUp' /\ (old => HeadOld') /\ (~ old => HeadNew')
  <2>0. HeadUp /\ (old => HeadOld) /\ (~ old => HeadNew)
    BY <1>4 DEF ScanInv
  <2>1. CASE Takes /\ Replies /\ Grows
    <3>1. up # <<>> /\ 1 \in DOMAIN up
      BY <2>1, FirstUp DEF Takes
    <3>2. Len(up) = 1 /\ Quiet /\ up[1].kind \in {"scan", "info"} /\ (up[1].kind = "info" => rate = "fast" /\ hostRate = "slow")
      BY <2>0, <3>1 DEF HeadUp
    <3>3. up' = <<>>
      <4>1. up' = Tail(up) /\ Len(up) = 1
        BY <2>1, <3>2 DEF Takes
      <4> QED
        BY <1>0, <4>1
    <3>4. HeadUp'
      BY <3>3 DEF HeadUp
    <3>5. down' = down => HeadNew' /\ HeadOld'
      BY <3>2, QuietSingle DEF Quiet, HeadNew, HeadOld, Single
    <3>6. CASE up[1].kind = "info"
      <4>1. down' = down
        BY <2>1, <3>2, <3>6 DEF Takes
      <4> QED
        BY <3>4, <3>5, <4>1
    <3>7. CASE up[1].kind = "scan" /\ old
      <4>1. down' = down \/ \E x \in DownPackets : OneAnswer(x) /\ down' = Append(down, x)
        BY <2>1, <3>7, TakeOne
      <4>2. CASE \E x \in DownPackets : OneAnswer(x) /\ down' = Append(down, x)
        <5>1. PICK x \in DownPackets : OneAnswer(x) /\ down' = Append(down, x)
          BY <4>2
        <5>2. x = Errors
          BY <3>7, <5>1 DEF OneAnswer
        <5>3. Single' /\ \A i \in DOMAIN down' : down'[i] # Ready => down'[i] = x
          BY <1>0, <3>2, <5>1, QuietAnswer
        <5>4. Errors.kind = "ack"
          BY DownKinds
        <5> QED
          BY <3>4, <3>7, <5>2, <5>3, <5>4 DEF HeadOld
      <4> QED
        BY <3>4, <3>5, <4>1, <4>2
    <3>8. CASE up[1].kind = "scan" /\ ~ old
      <4>1. Adds(down, down', ScanStream)
        BY <2>1, <3>8 DEF Replies, ScanStream
      <4> QED
        BY <3>2, <3>4, <3>8, <4>1, HeadStream
    <3> QED
      BY <1>0, <3>2, <3>6, <3>7, <3>8
  <2>2. CASE Idles
    <3>1. up = <<>> /\ up' = <<>>
      BY <2>2 DEF Idles
    <3>2. HeadUp'
      BY <3>1 DEF HeadUp
    <3>3. CASE down' = <<Ready>>
      <4>1. \A i \in DOMAIN down' : i = 1 /\ down'[i] = Ready
        BY <3>3
      <4> QED
        BY <3>2, <4>1 DEF HeadOld, HeadNew, Single
    <3>4. CASE down' = down
      BY <2>0, <3>2, <3>4 DEF HeadOld, HeadNew, Single, Follows
    <3> QED
      BY <2>2, <3>3, <3>4 DEF Idles
  <2>3. CASE UNCHANGED <<up, task, ram, flash, rate, alive, buf>> /\ down' = down
    BY <1>0, <2>0, <2>3 DEF HeadUp, HeadOld, HeadNew, Single, Follows, Quiet
  <2>4. CASE UNCHANGED <<up, task, ram, flash, rate, alive, buf>> /\ Reads /\ down[1] = Ready
    <3>1. Shrinks
      <4>1. 1 \in 0..Len(down) /\ Len(down') = Len(down) - 1 /\ \A i \in 1..Len(down') : down'[i] = down[i + 1]
        BY <1>0, <2>4 DEF Reads
      <4>2. down' \in Seq(DownPackets) /\ stash' \in 0..Len(down')
        BY <2>4 DEF Reads
      <4> QED
        BY <4>1, <4>2 DEF Shrinks
    <3>2. Quiet => Quiet'
      BY <1>0, <3>1, QuietLines
    <3>3. HeadUp'
      BY <1>0, <2>0, <2>4, <3>2 DEF HeadUp
    <3> QED
      BY <2>0, <2>4, <3>3, HeadSkips
  <2>5. ~ Starves
    BY <1>2, <2>0 DEF HeadUp
  <2> QED
    BY <1>3, <2>1, <2>2, <2>3, <2>4, <2>5
<1>5. ASSUME pc = "scan" PROVE ScanRuns'
  <2>0. ScanRuns
    BY <1>5 DEF ScanInv
  <2>1. ~ (Idles /\ down = <<>>)
    <3>1. Len(found) \in Nat /\ Len(found) < Sectors /\ Sectors \in Nat
      BY <1>5, LinkAssumption, FoundLen DEF FoundInv
    <3>2. down = <<>> => Len(down) = 0 /\ DOMAIN down = {}
      OBVIOUS
    <3> QED
      BY <2>0, <3>1, <3>2 DEF ScanRuns
  <2>2. Grows \/ down' = down \/ (Reads /\ down[1] = Ready)
    BY <1>3, <2>1 DEF Idles
  <2> QED
    BY <1>0, <1>5, <2>0, <2>2, RunsKept
<1> QED
  BY <1>4, <1>5

\* scan_flash takes the header, a result or the last ACK.
LEMMA ScanTakes ==
  ASSUME TypeInv, PlaceInv, FoundInv, ScanInv, Mine, cmd = "scan", rcvFrame, ScanAnswer(Head(down)), flash' = flash
  PROVE  /\ pc' \in {"scan", "scan_end"} => ~ old
         /\ pc' \in {"compat", "compat_crc"} => old
         /\ pc' # "scan_head"
         /\ pc' = "scan" => ScanRuns'
         /\ ~ old /\ Len(found') = Sectors /\ (pc' = "scan_end" \/ "scan" \in claims') => AllFound'
<1> DEFINE n == Len(down)
<1>0. Sectors \in Nat /\ Sectors >= 1 /\ Len(found) \in Nat /\ old \in BOOLEAN
  <2>1. old \in BOOLEAN
    BY DEF TypeInv
  <2> QED
    BY <2>1, LinkAssumption, FoundLen
<1>1. Head(down) = down[1] /\ Reads /\ down[1] # Ready
  BY ReadsEffect DEF ScanAnswer, Reads
<1>2. down \in Seq(DownPackets) /\ down' \in Seq(DownPackets)
  BY <1>1 DEF TypeInv, Reads
<1>3. n \in Nat /\ DOMAIN down = 1..n /\ DOMAIN down' = 1..(n - 1) /\ Len(down') = n - 1 /\ n >= 1
  BY <1>1, <1>2 DEF Reads
<1>4. \A i \in 1..(n - 1) : down'[i] = down[i + 1]
  BY <1>1, <1>3 DEF Reads
<1>5. Done => pc' \in {"run", "closed"}
  BY DEF Done
<1>6. CASE pc = "scan_head" /\ down[1].kind = "ack" /\ pc' = "compat"
  <2>1. 1 \in DOMAIN down /\ \A j \in 1..(1 - 1) : down[j] = Ready
    BY <1>3
  <2>2. old
    BY <1>0, <1>1, <1>6, <2>1 DEF ScanInv, HeadNew
  <2> QED
    BY <1>6, <2>2
<1>7. CASE pc = "scan_head" /\ down[1].kind = "scan" /\ pc' = "scan" /\ found' = <<>> /\ UNCHANGED claims
  <2>1. 1 \in DOMAIN down /\ \A j \in 1..(1 - 1) : down[j] = Ready
    BY <1>3
  <2>2. ~ old
    BY <1>0, <1>1, <1>7, <2>1 DEF ScanInv, HeadOld
  <2>3. Follows(1)
    BY <1>0, <1>1, <1>7, <2>1, <2>2 DEF ScanInv, HeadNew
  <2>4. Len(found') = 0
    BY <1>7
  <2>5. ScanRuns'
    <3>1. CASE Len(down) >= 1 + Sectors /\ \A s \in 1..Sectors : down[1 + s] = Packet("scan", flash[s])
      <4>1. Len(down') >= Sectors - Len(found')
        BY <1>0, <1>3, <2>4, <3>1 DEF n
      <4>2. \A j \in 1..(Sectors - Len(found')) : down'[j] = Packet("scan", flash'[Len(found') + j])
        <5> SUFFICES ASSUME NEW j \in 1..Sectors PROVE down'[j] = Packet("scan", flash[j])
          <6>1. \A j \in 1..Sectors : 0 + j = j
            BY <1>0
          <6> QED
            BY <1>0, <2>4, <6>1
        <5>0. n >= 1 + Sectors
          BY <3>1
        <5>1. j \in 1..(n - 1) /\ j + 1 = 1 + j
          BY <1>0, <1>3, <5>0
        <5> QED
          BY <1>4, <3>1, <5>1
      <4>3. \A s \in 1..Len(found') : found'[s] = flash'[s]
        BY <2>4
      <4> QED
        BY <4>1, <4>2, <4>3 DEF ScanRuns
    <3>2. CASE \E e \in DOMAIN down : e > 1 /\ e <= 1 + Sectors /\ down[e].kind = "ack"
      <4>1. PICK e \in DOMAIN down : e > 1 /\ e <= 1 + Sectors /\ down[e].kind = "ack"
        BY <3>2
      <4>2. e - 1 \in 1..(n - 1) /\ (e - 1) + 1 = e /\ e - 1 <= Sectors - 0
        BY <1>0, <1>3, <4>1
      <4>3. e - 1 \in DOMAIN down' /\ down'[e - 1].kind = "ack"
        BY <1>3, <1>4, <4>1, <4>2
      <4> QED
        BY <2>4, <4>2, <4>3 DEF ScanRuns
    <3> QED
      BY <2>3, <3>1, <3>2 DEF Follows
  <2> QED
    BY <1>0, <1>7, <2>2, <2>4, <2>5
<1>8. CASE pc' = "closed" /\ UNCHANGED <<found, claims>>
  <2>1. ~ old /\ Len(found) = Sectors /\ "scan" \in claims => AllFound
    BY DEF ScanInv
  <2> QED
    BY <1>8, <2>1 DEF AllFound
<1>9. CASE pc = "scan" /\ down[1].kind = "scan" /\ found' = Append(found, down[1].val)
           /\ pc' = (IF Len(found') = Sectors THEN "scan_end" ELSE pc) /\ UNCHANGED claims
  <2>1. ~ old /\ ScanRuns /\ Len(found) < Sectors
    BY <1>9 DEF ScanInv, FoundInv
  <2>2. down[1].val \in FoundVals /\ down[1] \in DownPackets
    <3>1. down[1] \in DownPackets
      BY <1>1 DEF Reads
    <3> QED
      BY <1>9, <3>1, DownVals DEF FoundVals
  <2>3. /\ Len(found') = Len(found) + 1 /\ (\A i \in 1..Len(found) : found'[i] = found[i])
        /\ found'[Len(found) + 1] = down[1].val
    BY <1>9, <2>2, FoundGrows
  <2> DEFINE m == Len(found)
             k == Sectors - Len(found)
  <2>4. m \in Nat /\ k \in Nat /\ k >= 1 /\ Sectors - Len(found') = k - 1
    BY <1>0, <2>1, <2>3
  <2>5. CASE (\A s \in 1..m : found[s] = flash[s]) /\ n >= k /\ \A j \in 1..k : down[j] = Packet("scan", flash[m + j])
    <3>1. down[1] = Packet("scan", flash[m + 1])
      BY <2>4, <2>5
    <3>2. down[1].val = flash[m + 1]
      BY <3>1 DEF Packet
    <3>3. \A s \in 1..Len(found') : found'[s] = flash'[s]
      <4> SUFFICES ASSUME NEW s \in 1..(m + 1) PROVE found'[s] = flash[s]
        BY <2>3
      <4>1. s \in 1..m \/ s = m + 1
        BY <2>4
      <4> QED
        BY <2>3, <2>5, <3>2, <4>1
    <3>4. Len(down') >= k - 1
      <4>1. n >= k
        BY <2>5
      <4> QED
        BY <1>3, <2>4, <4>1
    <3>5. \A j \in 1..(k - 1) : down'[j] = Packet("scan", flash[(m + 1) + j])
      <4> SUFFICES ASSUME NEW j \in 1..(k - 1) PROVE down'[j] = Packet("scan", flash[(m + 1) + j])
        OBVIOUS
      <4>0. n >= k
        BY <2>5
      <4>1. j \in 1..(n - 1) /\ j + 1 \in 1..k /\ m + (j + 1) = (m + 1) + j
        BY <1>3, <2>4, <4>0
      <4> QED
        BY <1>4, <2>5, <4>1
    <3>6. ScanRuns'
      BY <2>3, <2>4, <3>3, <3>4, <3>5 DEF ScanRuns
    <3>7. Len(found') = Sectors => AllFound'
      BY <3>3 DEF AllFound
    <3> QED
      BY <1>9, <2>1, <3>6, <3>7
  <2>6. CASE \E e \in DOMAIN down : e <= k /\ down[e].kind = "ack"
    <3>1. PICK e \in DOMAIN down : e <= k /\ down[e].kind = "ack"
      BY <2>6
    <3>2. e # 1
      BY <1>9, <3>1
    <3>3. e - 1 \in 1..(n - 1) /\ (e - 1) + 1 = e /\ e - 1 <= k - 1 /\ k - 1 >= 1
      BY <1>3, <2>4, <3>1, <3>2
    <3>4. e - 1 \in DOMAIN down' /\ down'[e - 1].kind = "ack"
      BY <1>3, <1>4, <3>1, <3>3
    <3>5. ScanRuns'
      BY <2>4, <3>3, <3>4 DEF ScanRuns
    <3>6. Len(found') # Sectors
      BY <1>0, <2>3, <2>4, <3>3
    <3> QED
      BY <1>9, <2>1, <3>5, <3>6
  <2> QED
    BY <2>1, <2>5, <2>6 DEF ScanRuns
<1>10. CASE pc = "scan" /\ Done /\ found' = found
  <2>1. Len(found') # Sectors
    BY <1>0, <1>10 DEF FoundInv
  <2> QED
    BY <1>5, <1>10, <2>1
<1>11. CASE pc = "scan_end" /\ Done /\ found' = found
  <2>1. ~ old /\ AllFound
    BY <1>11 DEF ScanInv, FoundInv
  <2> QED
    BY <1>5, <1>11, <2>1 DEF AllFound
<1> QED
  BY <1>1, <1>6, <1>7, <1>8, <1>9, <1>10, <1>11 DEF ScanAnswer, Failed

\* Every step keeps what scan_flash counts on.
LEMMA ScanStep ==
  ASSUME TypeInv, PlaceInv, ClaimInv, ConnectInv, FoundInv, OffInv, DumpInv, MineInv, SwitchInv, ScanInv, [Next]_vars
  PROVE  ScanInv'
<1>1. CASE Fresh
  <2>1. pc' = "run" /\ claims' = {}
    BY <1>1 DEF Fresh
  <2> QED
    BY <2>1 DEF ScanInv
<1>2. CASE Works /\ Mine
  <2> SUFFICES ASSUME cmd' = "scan", Mine'
               PROVE  /\ pc' \in {"scan", "scan_end"} => ~ old
                      /\ pc' \in {"compat", "compat_crc"} => old
                      /\ pc' = "scan_head" => HeadUp' /\ (old => HeadOld') /\ (~ old => HeadNew')
                      /\ pc' = "scan" => ScanRuns'
                      /\ ~ old /\ Len(found') = Sectors /\ (pc' = "scan_end" \/ "scan" \in claims') => AllFound'
    <3>1. old' = old
      BY <1>2, WorkEffect
    <3> QED
      BY <3>1 DEF ScanInv
  <2>0. cmd = "scan" /\ cmd' = cmd /\ old' = old /\ old \in BOOLEAN
    BY <1>2, WorkEffect DEF TypeInv
  <2>1. flash' = flash
    BY <1>2, <2>0, FlashSteps DEF Flashes
  <2>2. OpIs /\ CmdIs
    <3>1. cmd \in Commands /\ step \in 1..Len(Script(cmd))
      BY DEF TypeInv
    <3> QED
      BY <3>1, OpTable
  <2>3. /\ pc \in {"scan", "scan_end"} => ~ old
        /\ pc \in {"compat", "compat_crc"} => old
        /\ ~ old /\ Len(found) = Sectors /\ (pc = "scan_end" \/ "scan" \in claims) => AllFound
    BY <1>2, <2>0 DEF ScanInv
  <2>4. CASE UNCHANGED hostVars
    <3>1. UNCHANGED <<pc, found, claims>>
      BY <2>4 DEF hostVars
    <3>2. AllFound => AllFound'
      BY <2>1, <3>1 DEF AllFound
    <3> QED
      BY <1>2, <2>0, <2>1, <2>3, <2>4, <3>1, <3>2, ScanAgent
  <2>5. CASE /\ found' = found /\ pc' \notin {"scan_head", "scan", "scan_end", "compat", "compat_crc"}
             /\ "scan" \in claims' => "scan" \in claims
    BY <2>1, <2>3, <2>5 DEF AllFound
  <2>6. CASE ~ UNCHANGED hostVars /\ Listens
    <3>1. CASE rcvFrame /\ ScanAnswer(Head(down))
      BY <1>2, <2>0, <2>1, <3>1, ScanTakes
    <3>2. CASE pc = "compat_crc" /\ pc' = "compat" /\ UNCHANGED claims
      BY <2>3, <3>2
    <3> QED
      BY <2>0, <2>5, <2>6, <3>1, <3>2, OtherListens
  <2>7. CASE Switches \/ Turns
    BY <2>5, <2>7 DEF Switches, Turns
  <2>8. CASE Issues
    <3>0. /\ pc = "go" /\ UNCHANGED <<down, found, claims, hostRate, late, rate>> /\ pc' = Waits
      BY <2>8 DEF Issues, agentSide, agentVars
    <3>1. CASE Op # "scan"
      <4>1. pc' \in {"stream", "answer"}
        BY <2>0, <2>2, <2>8, <3>0, <3>1 DEF Waits, OpIs, Operations
      <4> QED
        BY <2>5, <3>0, <4>1
    <3>2. CASE Op = "scan"
      <4>1. pc' = "scan_head"
        BY <3>0, <3>2 DEF Waits
      <4>2. step = 2
        BY <2>2, <3>2 DEF OpIs
      <4>3. SwitchAt
        BY <2>0, <4>2 DEF SwitchInv, Early
      <4>4. /\ Quiet /\ (up # <<>> => Len(up) = 1)
            /\ \A i \in DOMAIN up : up[i].kind = "info" /\ rate = "fast" /\ hostRate = "slow" /\ late > 0
        BY <2>0, <3>0, <4>3 DEF SwitchAt
      <4>5. Quiet'
        BY <3>0, <4>4 DEF Quiet
      <4>6. HeadOld' /\ HeadNew'
        BY <4>5 DEF Quiet, HeadOld, HeadNew, Single
      <4>7. HeadUp'
        <5>1. up' = up \/ (alive /\ rate = hostRate /\ up' = Append(up, Asked))
          BY <2>8, <3>2, IssueOne
        <5>2. CASE up' = up
          BY <3>0, <4>4, <4>5, <5>2 DEF HeadUp
        <5>3. CASE rate = hostRate /\ up' = Append(up, Asked)
          <6>1. up \in Seq(UpPackets)
            BY DEF TypeInv
          <6>2. up = <<>>
            BY <4>4, <5>3, <6>1
          <6>3. up' = <<Asked>>
            BY <5>3, <6>2
          <6>4. Len(up') = 1 /\ \A i \in DOMAIN up' : up'[i] = Asked
            BY <6>3
          <6>5. Asked.kind = "scan"
            BY <3>2 DEF Asked, Packet
          <6> QED
            BY <4>5, <6>4, <6>5 DEF HeadUp
        <5> QED
          BY <5>1, <5>2, <5>3
      <4>8. AllFound => AllFound'
        BY <2>1, <3>0 DEF AllFound
      <4> QED
        BY <2>3, <3>0, <4>1, <4>6, <4>7, <4>8
    <3> QED
      BY <3>1, <3>2
  <2>9. CASE Asks
    <3>1. pc = "compat" /\ old
      BY <2>3, <2>9 DEF Asks
    <3>2. pc' \in {"compat_crc", "run", "closed"}
      BY <2>9 DEF Asks, Done
    <3> QED
      BY <3>1, <3>2
  <2>10. ~ Continues /\ ~ Retries /\ ~ WriteFlash
    BY <2>0, <2>2 DEF Continues, Retries, WriteFlash, PlaceInv, OpIs, Flashes
  <2> QED
    BY <1>2, <2>4, <2>6, <2>7, <2>8, <2>9, <2>10, HostLeavesAlone DEF Works, vars
<1>3. CASE ~ Mine'
  BY <1>3 DEF ScanInv
<1> QED
  BY <1>1, <1>2, <1>3, MineStep

---------------------------------------------------------------------------
(* agent scan of an agent without CMD_SCAN: a CRC-32 or two per sector.    *)

LEMMA CompatAgent ==
  ASSUME TypeInv, PlaceInv, FoundInv, MineInv, Mine, cmd = "scan", Works, UNCHANGED hostVars, flash' = flash
  PROVE  /\ up = <<>> /\ Quiet => up' = <<>> /\ Quiet'
         /\ CompatLine => CompatLine'
<1>0. /\ down \in Seq(DownPackets) /\ up \in Seq(UpPackets) /\ hostRate' = hostRate /\ off' = off
  BY DEF TypeInv, hostVars
<1>1. task = 0
  BY DEF MineInv
<1>2. ~ Receives /\ (Starves => up # <<>> /\ up' = Tail(up))
  BY <1>1 DEF Receives, Starves
<1>3. \/ Takes /\ Replies /\ Grows
      \/ Starves
      \/ Idles
      \/ (Shrinks \/ down' = down) /\ UNCHANGED <<up, task, ram, flash, rate, alive, buf>>
  BY <1>2, AgentSteps
<1>4. ASSUME up = <<>>, Quiet PROVE up' = <<>> /\ Quiet'
  <2>1. ~ Takes /\ ~ Starves
    BY <1>2, <1>4 DEF Takes
  <2>2. CASE Idles
    <3>1. CASE down' = <<Ready>>
      <4>1. \A i \in DOMAIN down' : down'[i] = Ready
        BY <3>1
      <4> QED
        BY <2>2, <4>1 DEF Idles, Quiet
    <3>2. CASE down' = down
      BY <1>4, <2>2, <3>2 DEF Idles, Quiet
    <3> QED
      BY <2>2, <3>1, <3>2 DEF Idles
  <2>3. CASE (Shrinks \/ down' = down) /\ UNCHANGED <<up, task, ram, flash, rate, alive, buf>>
    BY <1>0, <1>4, <2>3, QuietLines
  <2> QED
    BY <1>3, <2>1, <2>2, <2>3
<1>5. ASSUME CompatLine PROVE CompatLine'
  <2>1. CASE (Takes /\ Replies /\ Grows) \/ Starves
    <3>1. up # <<>> /\ 1 \in DOMAIN up /\ up' = Tail(up)
      BY <1>2, <2>1, FirstUp DEF Takes
    <3>2. Quiet /\ up = <<Packet("crc_sector", off + 1)>>
      BY <1>5, <3>1 DEF CompatLine
    <3>3. up[1] = Packet("crc_sector", off + 1) /\ up' = <<>>
      BY <3>1, <3>2
    <3>4. up[1].kind = "crc_sector" /\ up[1].val = off + 1
      BY <3>3 DEF Packet
    <3>5. down' = down \/ \E x \in DownPackets : (OneAnswer(x) \/ x = Errors) /\ down' = Append(down, x)
      BY <2>1, <3>4, TakeOne, StarveGrows, DownTypes
    <3>6. CASE down' = down
      <4>1. Quiet'
        BY <3>2, <3>6 DEF Quiet
      <4> QED
        BY <3>3, <4>1 DEF CompatLine, Quiet, Single
    <3>7. CASE \E x \in DownPackets : (OneAnswer(x) \/ x = Errors) /\ down' = Append(down, x)
      <4>1. PICK x \in DownPackets : (OneAnswer(x) \/ x = Errors) /\ down' = Append(down, x)
        BY <3>7
      <4>2. x = Packet("crc", flash[off + 1]) \/ x = Errors
        BY <3>4, <4>1 DEF OneAnswer
      <4>3. Single' /\ \A i \in DOMAIN down' : down'[i] # Ready => down'[i] = x
        BY <1>0, <3>2, <4>1, QuietAnswer
      <4> QED
        BY <1>0, <3>3, <4>2, <4>3 DEF CompatLine
    <3> QED
      BY <3>5, <3>6, <3>7
  <2>2. CASE Idles
    <3>0. up' = <<>>
      BY <2>2 DEF Idles
    <3>1. CASE down' = <<Ready>>
      <4>1. \A i \in DOMAIN down' : down'[i] = Ready
        BY <3>1
      <4> QED
        BY <3>0, <4>1 DEF CompatLine, Single
    <3>2. CASE down' = down
      BY <1>0, <1>5, <3>0, <3>2 DEF CompatLine, Single
    <3> QED
      BY <2>2, <3>1, <3>2 DEF Idles
  <2>3. CASE (Shrinks \/ down' = down) /\ UNCHANGED <<up, task, ram, flash, rate, alive, buf>>
    <3>1. (Quiet => Quiet') /\ Single'
      BY <1>0, <1>5, <2>3, QuietLines DEF CompatLine
    <3>2. \A i \in DOMAIN down' : \E j \in DOMAIN down : down'[i] = down[j]
      BY <1>0, <2>3, ShrinksFacts
    <3> QED
      BY <1>0, <1>5, <2>3, <3>1, <3>2 DEF CompatLine
  <2> QED
    BY <1>3, <2>1, <2>2, <2>3
<1> QED
  BY <1>4, <1>5

\* One pass over a sector has ended.
LEMMA CompatPass ==
  ASSUME TypeInv, FoundInv, NEW ok, NEW val, CompatResult(ok, val), CompatFine, flash' = flash,
         acks = 0 \/ flash[off + 1] # "empty", ok => val = flash[off + 1]
  PROVE  CompatFine' /\ (acks' = 0 \/ flash'[off' + 1] # "empty")
<1>0. Len(found) \in Nat /\ Len(found) = off
  BY FoundLen DEF CompatResult, FoundInv
<1>1. CASE acks = 0 /\ ok /\ val # "empty"
  BY <1>1 DEF CompatResult, CompatFine
<1>2. CASE ~ (acks = 0 /\ ok /\ val # "empty")
  <2> DEFINE x == IF acks = 0 THEN (IF ok THEN "empty" ELSE "read_error") ELSE "data"
  <2>1. acks' = 0 /\ found' = Append(found, x)
    BY <1>2 DEF CompatResult
  <2>2. x \in FoundVals
    BY DEF FoundVals, Contents
  <2>3. x = "read_error" \/ (x = "empty" <=> flash[off + 1] = "empty")
    BY <1>2
  <2> HIDE DEF x
  <2>4. /\ Len(found') = Len(found) + 1 /\ (\A i \in 1..Len(found) : found'[i] = found[i])
        /\ found'[Len(found) + 1] = x
    BY <2>1, <2>2, FoundGrows
  <2>5. CompatFine'
    <3> SUFFICES ASSUME NEW s \in 1..Len(found')
                 PROVE  found'[s] = "read_error" \/ (found'[s] = "empty" <=> flash[s] = "empty")
      BY DEF CompatFine
    <3>1. s \in 1..Len(found) \/ s = Len(found) + 1
      BY <1>0, <2>4
    <3>2. CASE s \in 1..Len(found)
      BY <2>4, <3>2 DEF CompatFine
    <3>3. CASE s = Len(found) + 1
      BY <1>0, <2>3, <2>4, <3>3
    <3> QED
      BY <3>1, <3>2, <3>3
  <2> QED
    BY <2>1, <2>5
<1> QED
  BY <1>1, <1>2

\* Every step keeps what _scan_flash_compat counts on.
LEMMA CompatStep ==
  ASSUME TypeInv, PlaceInv, ClaimInv, ConnectInv, FoundInv, OffInv, DumpInv, MineInv, AliveInv, ScanInv, CompatInv,
         [Next]_vars
  PROVE  CompatInv'
<1>1. CASE Fresh
  <2>1. pc' = "run" /\ claims' = {}
    BY <1>1 DEF Fresh
  <2> QED
    BY <2>1 DEF CompatInv
<1>2. CASE Works /\ Mine
  <2> SUFFICES ASSUME cmd' = "scan", Mine', old', late' = 0
               PROVE  /\ pc' \in {"compat", "compat_crc"} \/ "scan" \in claims' => CompatFine'
                      /\ pc' = "scan_head" => acks' = 0
                      /\ pc' \in {"compat", "compat_crc"} => (acks' = 0 \/ flash'[off' + 1] # "empty")
                      /\ pc' = "compat" => up' = <<>> /\ Quiet'
                      /\ pc' = "compat_crc" => CompatLine'
    BY DEF CompatInv
  <2>0. cmd = "scan" /\ cmd' = cmd /\ old /\ late = 0
    <3>1. late \in Nat /\ late' \in Nat /\ late' >= late
      BY <1>2, WorkEffect DEF TypeInv
    <3>2. late = 0
      BY <3>1
    <3>3. UNCHANGED <<cmd, old>>
      BY <1>2, WorkEffect
    <3> QED
      BY <3>2, <3>3
  <2>1. flash' = flash
    BY <1>2, <2>0, FlashSteps DEF Flashes
  <2>2. OpIs /\ CmdIs
    <3>1. cmd \in Commands /\ step \in 1..Len(Script(cmd))
      BY DEF TypeInv
    <3> QED
      BY <3>1, OpTable
  <2>3. /\ pc \in {"compat", "compat_crc"} \/ "scan" \in claims => CompatFine
        /\ pc = "scan_head" => acks = 0
        /\ pc \in {"compat", "compat_crc"} => (acks = 0 \/ flash[off + 1] # "empty")
        /\ pc = "compat" => up = <<>> /\ Quiet
        /\ pc = "compat_crc" => CompatLine
    BY <1>2, <2>0 DEF CompatInv
  <2>4. found' = found /\ CompatFine => CompatFine'
    BY <2>1 DEF CompatFine
  <2>5. down \in Seq(DownPackets) /\ up \in Seq(UpPackets) /\ alive
    BY <1>2, <2>0 DEF TypeInv, AliveInv, Flashes
  <2>6. CASE UNCHANGED hostVars
    <3>1. UNCHANGED <<pc, found, claims, off, acks>>
      BY <2>6 DEF hostVars
    <3>2. (up = <<>> /\ Quiet => up' = <<>> /\ Quiet') /\ (CompatLine => CompatLine')
      BY <1>2, <2>0, <2>1, <2>6, CompatAgent
    <3> QED
      BY <2>1, <2>3, <2>4, <3>1, <3>2
  <2>7. CASE /\ found' = found /\ pc' \notin {"scan_head", "scan", "scan_end", "compat", "compat_crc"}
             /\ "scan" \in claims' => "scan" \in claims
    BY <2>3, <2>4, <2>7
  <2>8. CASE ~ UNCHANGED hostVars /\ Listens
    <3>0. up' = up /\ rate' = rate
      BY <2>8, SilentEffect DEF agentSide, agentVars
    <3>1. CASE rcvFrame /\ ScanAnswer(Head(down))
      <4>1. Op = "scan" /\ Reads /\ down[1] # Ready /\ Head(down) = down[1]
        BY <3>1, ReadsEffect DEF ScanAnswer, Reads
      <4>2. 1 \in DOMAIN down
        BY <2>5, <4>1 DEF Reads
      <4>3. pc = "scan_head"
        BY <1>2, <2>0, <3>1 DEF ScanInv, ScanAnswer
      <4>4. "scan" \notin claims
        BY <4>1, <4>3, NotYet
      <4>5. HeadUp /\ HeadOld
        BY <1>2, <2>0, <4>3 DEF ScanInv
      <4>6. down[1].kind = "ack" /\ Single
        BY <4>1, <4>2, <4>5 DEF HeadOld
      <4>7. pc' = "compat" /\ off' = 0 /\ found' = <<>> /\ UNCHANGED <<claims, acks>>
        BY <3>1, <4>1, <4>3, <4>6 DEF ScanAnswer
      <4>8. ~ Quiet
        BY <4>1, <4>2 DEF Quiet
      <4>9. up = <<>>
        <5>1. DOMAIN up = {}
          BY <4>5, <4>8 DEF HeadUp
        <5> QED
          BY <2>5, <5>1
      <4>10. Quiet'
        BY <2>5, <4>1, <4>6, SingleRead
      <4>11. CompatFine'
        BY <4>7 DEF CompatFine
      <4> QED
        BY <2>3, <3>0, <4>3, <4>7, <4>9, <4>10, <4>11
    <3>2. CASE pc = "compat_crc" /\ pc' = "compat" /\ UNCHANGED claims
      <4>0. CompatFine /\ (acks = 0 \/ flash[off + 1] # "empty") /\ CompatLine
        BY <2>3, <3>2
      <4>1. ~ ScanAnswer(Head(down))
        BY <3>2 DEF ScanAnswer
      <4>2. \/ rcvFrame /\ CompatAnswer(Head(down))
            \/ Timeout
        BY <2>8, <3>2, <4>1, <2>2, <2>0 DEF Listens, DumpSkip, SkipReady, Drain, VerifyBaud, Answered, ReadStream, WindowAck, BlockCrc,
              EraseAck, OpIs, PlaceInv
      <4>3. CASE rcvFrame /\ CompatAnswer(Head(down))
        <5>1. Reads /\ down[1] # Ready /\ Head(down) = down[1]
          BY <4>3, ReadsEffect DEF CompatAnswer, Reads
        <5>2. 1 \in DOMAIN down
          BY <2>5, <5>1 DEF Reads
        <5>3. down[1] = Packet("crc", flash[off + 1]) \/ down[1].kind = "ack"
          BY <4>0, <5>1, <5>2, DownKinds DEF CompatLine
        <5> DEFINE ok == down[1].kind = "crc"
        <5>4. CompatResult(ok, down[1].val)
          BY <4>3, <5>1 DEF CompatAnswer
        <5>5. ok => down[1].val = flash[off + 1]
          BY <5>3 DEF Packet
        <5> HIDE DEF ok
        <5>6. CompatFine' /\ (acks' = 0 \/ flash'[off' + 1] # "empty")
          BY <2>1, <4>0, <5>4, <5>5, CompatPass
        <5>7. up = <<>>
          BY <4>0, <5>1, <5>2 DEF CompatLine, Quiet
        <5>8. Quiet'
          BY <2>5, <4>0, <5>1, SingleRead DEF CompatLine
        <5> QED
          BY <3>0, <3>2, <5>6, <5>7, <5>8
      <4>4. CASE Timeout
        <5>1. CompatResult(FALSE, "") /\ Expired
          BY <3>2, <4>4 DEF Timeout
        <5>2. CompatFine' /\ (acks' = 0 \/ flash'[off' + 1] # "empty")
          BY <2>1, <4>0, <5>1, CompatPass
        <5>3. rate # hostRate /\ down' = <<>>
          <6>1. late' # late + 1
            BY <2>0
          <6>2. down = <<>> /\ down' = down /\ (~ alive \/ rate # hostRate \/ late' = late + 1)
            BY <5>1 DEF Expired
          <6> QED
            BY <2>5, <6>1, <6>2
        <5>4. up = <<>>
          BY <4>0, <5>3 DEF CompatLine
        <5>5. Quiet'
          BY <5>3 DEF Quiet
        <5> QED
          BY <3>0, <3>2, <5>2, <5>4, <5>5
      <4> QED
        BY <4>2, <4>3, <4>4
    <3> QED
      BY <2>0, <2>7, <2>8, <3>1, <3>2, OtherListens
  <2>9. CASE Switches \/ Turns
    BY <2>7, <2>9 DEF Switches, Turns
  <2>10. CASE Issues
    <3>1. found' = found /\ claims' = claims /\ acks' = 0 /\ pc' = Waits
      BY <2>10 DEF Issues
    <3>2. pc' \notin {"compat", "compat_crc"}
      BY <3>1, WaitsPlace
    <3> QED
      BY <2>3, <2>4, <3>1, <3>2
  <2>11. CASE Asks
    <3>1. pc = "compat" /\ found' = found /\ acks' = acks /\ hostRate' = hostRate /\ rate' = rate /\ Shrinks
      BY <2>11 DEF Asks, agentSide, agentVars
    <3>2. CompatFine' /\ (acks = 0 \/ flash[off + 1] # "empty") /\ up = <<>> /\ Quiet
      BY <2>3, <2>4, <3>1
    <3>3. CASE Done
      <4>1. pc' \in {"run", "closed"}
        BY <3>3 DEF Done
      <4> QED
        BY <3>2, <4>1
    <3>4. CASE pc' = "compat_crc" /\ UNCHANGED <<off, step, claims>>
               /\ (up' = up \/ (alive /\ rate = hostRate /\ Adds(up, up', <<Packet("crc_sector", off + 1)>>)))
      <4>1. Quiet'
        BY <2>5, <3>1, <3>2, QuietLines
      <4>2. up' # <<>> => rate' = hostRate' /\ up' = <<Packet("crc_sector", off' + 1)>>
        <5>1. CASE up' = up
          BY <3>2, <5>1
        <5>2. CASE rate = hostRate /\ Adds(up, up', <<Packet("crc_sector", off + 1)>>)
          <6> DEFINE x == Packet("crc_sector", off + 1)
          <6>1. up' = up \/ up' = Append(up, x)
            <7>1. x \in {x} /\ up \in Seq({x})
              BY <3>2
            <7>2. Adds(up, up', <<x>>)
              BY <5>2
            <7> HIDE DEF x
            <7> QED
              BY <7>1, <7>2, AddsOne
          <6>2. up' # <<>> => up' = <<x>>
            <7> HIDE DEF x
            <7> QED
              BY <3>2, <6>1
          <6> QED
            BY <3>1, <3>4, <5>2, <6>2
        <5> QED
          BY <3>4, <5>1, <5>2
      <4>3. CompatLine'
        BY <4>1, <4>2 DEF CompatLine, Single, Quiet
      <4> QED
        BY <2>1, <3>1, <3>2, <3>4, <4>3
    <3> QED
      BY <2>11, <3>3, <3>4 DEF Asks
  <2>12. ~ Continues /\ ~ Retries /\ ~ WriteFlash
    BY <2>0, <2>2 DEF Continues, Retries, WriteFlash, PlaceInv, OpIs, Flashes
  <2> QED
    BY <1>2, <2>6, <2>8, <2>9, <2>10, <2>11, <2>12, HostLeavesAlone DEF Works, vars
<1>3. CASE ~ Mine'
  BY <1>3 DEF CompatInv
<1> QED
  BY <1>1, <1>2, <1>3, MineStep

---------------------------------------------------------------------------
(* agent write: what the agent does with the packets of a write.           *)

\* A block that is complete is not being received any more.
LEMMA BufStep ==
  ASSUME TypeInv, BufInv, [Next]_vars
  PROVE  BufInv'
<1> SUFFICES ASSUME task' # 0 PROVE Len(buf') < Chunks
  BY DEF BufInv
<1>0. CASE UNCHANGED <<task, buf>>
  BY <1>0 DEF BufInv
<1>1. CASE Open
  BY <1>0, <1>1 DEF Open, agentVars
<1>2. CASE Upload
  BY <1>0, <1>2 DEF Upload, UploadStandard, UploadCv6xx, Boots
<1>3. CASE UNCHANGED silentSide
  BY <1>0, <1>3 DEF silentSide, agentSide, agentVars
<1>4. CASE Takes
  <2>1. buf' = <<>>
    BY <1>4 DEF Takes
  <2>2. Len(buf') = 0
    BY <2>1
  <2> QED
    BY <2>2, LinkAssumption
<1>5. CASE Receives
  BY <1>5 DEF Receives
<1>6. CASE Starves \/ Idles
  BY <1>0, <1>6 DEF Starves, Idles
<1>7. CASE UNCHANGED vars \/ WriteFlash \/ Switches \/ Turns \/ Issues \/ Continues \/ Asks \/ Retries
  BY <1>0, <1>7 DEF vars, agentVars, agentSide, WriteFlash, Switches, Turns, Issues, Continues, Asks, Retries
<1> QED
  BY <1>1, <1>2, <1>3, <1>4, <1>5, <1>6, <1>7, StepKinds DEF Works

\* One packet is sent to the host, and may be lost.
Hears(x) == down' = down \/ down' = Append(down, x)

TakesQuery ==
  /\ Taken /\ task = 0 /\ task' = 0 /\ ram' = ram /\ up[1].kind \in {"info", "data", "crc", "write"}
  /\ \E x \in DownPackets : x # Ready /\ x # Okay /\ Hears(x)
TakesRate == Taken /\ up[1].kind = "set_baud" /\ task = 0 /\ task' = 0 /\ ram' = ram /\ Hears(Okay)
TakesHeader == Taken /\ up[1].kind = "write" /\ task = 0 /\ task' = up[1].val /\ ram' = ram /\ Hears(Okay)
TakesData == Taken /\ task # 0 /\ UNCHANGED <<task, ram, down>>
Accepts ==
  /\ Taken /\ up[1].kind = "data" /\ task # 0 /\ task' = 0 /\ Hears(Okay)
  /\ ram' = IF task = Blocks + 1 THEN ram ELSE [ram EXCEPT ![task] = "new"]
Rejects ==
  /\ Taken \/ (up = <<>> /\ up' = up /\ ~(pc = "block_ack" /\ down # <<>>))
  /\ task # 0 /\ task' = 0 /\ Hears(Errors)
  /\ ram' = ram \/ (task # Blocks + 1 /\ ram' = [ram EXCEPT ![task] = "other"])
Rests ==
  /\ up' = up /\ task' = task /\ ram' = ram
  /\ down' = down \/ (Reads /\ down[1] = Ready) \/ (task = 0 /\ up = <<>> /\ down = <<>> /\ down' = <<Ready>>)
WriteAgent == TakesQuery \/ TakesRate \/ TakesHeader \/ TakesData \/ Accepts \/ Rejects \/ Rests

LEMMA WriteAgentSteps ==
  ASSUME TypeInv, PlaceInv, FoundInv, OffInv, DumpInv, MineInv, BufInv, Mine, cmd = "write", Works, UNCHANGED hostVars
  PROVE  WriteAgent
<1>0. down \in Seq(DownPackets) /\ Okay \in DownPackets /\ Errors \in DownPackets
  BY DownTypes DEF TypeInv
<1>1. CASE Takes /\ Replies /\ Grows
  <2>1. Taken
    BY <1>1, TailFacts DEF Takes, Taken, TypeInv
  <2>2. up # <<>> /\ 1 \in DOMAIN up
    BY <1>1, FirstUp DEF Takes
  <2>3. up[1].kind \in {"info", "set_baud", "write", "data", "crc"}
    BY <2>2 DEF MineInv, Sends
  <2>4. down' = down \/ \E x \in DownPackets : OneAnswer(x) /\ down' = Append(down, x)
    BY <1>1, <2>3, TakeOne
  <2>5. CASE up[1].kind \in {"info", "data", "crc"}
    <3>1. \A x : OneAnswer(x) => x # Ready /\ x # Okay
      <4> SUFFICES ASSUME NEW x, OneAnswer(x) PROVE x # Ready /\ x # Okay
        OBVIOUS
      <4>1. x = Packet("info", "") \/ x = Packet("crc", ram) \/ x = Packet("crc", flash) \/ x = Errors
        BY <2>5 DEF OneAnswer
      <4>2. x.kind \in {"info", "crc"} \/ x = Errors
        <5>1. Packet("info", "").kind = "info" /\ Packet("crc", ram).kind = "crc" /\ Packet("crc", flash).kind = "crc"
          BY DEF Packet
        <5> QED
          BY <4>1, <5>1
      <4> QED
        BY <4>2, DownKinds
    <3>2. \E x \in DownPackets : x # Ready /\ x # Okay /\ Hears(x)
      <4>1. CASE down' = down
        BY <1>0, <4>1, DownKinds DEF Hears
      <4>2. CASE \E x \in DownPackets : OneAnswer(x) /\ down' = Append(down, x)
        BY <3>1, <4>2 DEF Hears
      <4> QED
        BY <2>4, <4>1, <4>2
    <3>3. task = 0 /\ task' = 0 /\ ram' = ram
      BY <1>1, <2>5 DEF Takes
    <3> QED
      BY <2>1, <2>5, <3>2, <3>3 DEF TakesQuery, WriteAgent
  <2>6. CASE up[1].kind \in {"set_baud", "write"}
    <3>1. Hears(Okay)
      BY <2>4, <2>6 DEF OneAnswer, Hears
    <3>2. task = 0 /\ ram' = ram /\ (up[1].kind = "write" => task' = up[1].val) /\ (up[1].kind = "set_baud" => task' = 0)
      BY <1>1 DEF Takes
    <3> QED
      BY <2>1, <2>6, <3>1, <3>2 DEF TakesRate, TakesHeader, WriteAgent
  <2> QED
    BY <2>3, <2>5, <2>6
<1>2. CASE Receives /\ Grows
  <2>1. Taken
    <3>1. up # <<>> /\ up' = Tail(up) /\ up \in Seq(UpPackets)
      BY <1>2 DEF Receives, TypeInv
    <3> QED
      BY <3>1, TailFacts DEF Taken
  <2>2. task # 0
    BY <1>2 DEF Receives
  <2>3. CASE task' = task /\ ram' = ram /\ down' = down
    BY <2>1, <2>2, <2>3 DEF TakesData, WriteAgent
  <2>4. CASE /\ task' = 0 /\ Adds(down, down', <<Okay>>)
             /\ ram' = IF task = Blocks + 1 THEN ram ELSE [ram EXCEPT ![task] = "new"]
             /\ up[1].kind = "data" \/ Len(buf) = Chunks
    <3>1. up[1].kind = "data"
      <4>1. Len(buf) < Chunks /\ Len(buf) \in Nat
        <5>1. buf \in Seq(Chunk)
          BY DEF TypeInv
        <5> QED
          BY <2>2, <5>1 DEF BufInv
      <4> QED
        BY <2>4, <4>1, LinkAssumption
    <3>2. Hears(Okay)
      BY <1>0, <2>4, AddsOne DEF Hears
    <3> QED
      BY <2>1, <2>2, <2>4, <3>1, <3>2 DEF Accepts, WriteAgent
  <2>5. CASE /\ task' = 0 /\ Adds(down, down', <<Errors>>)
             /\ ram' = IF task = Blocks + 1 THEN ram ELSE [ram EXCEPT ![task] = "other"]
             /\ up[1].kind = "data" \/ Len(buf) = Chunks
    <3>2. Hears(Errors)
      BY <1>0, <2>5, AddsOne DEF Hears
    <3>3. ram' = ram \/ (task # Blocks + 1 /\ ram' = [ram EXCEPT ![task] = "other"])
      BY <2>5
    <3> QED
      BY <2>1, <2>2, <2>5, <3>2, <3>3 DEF Rejects, WriteAgent
  <2> QED
    BY <1>2, <2>3, <2>4, <2>5 DEF Receives
<1>3. CASE Starves /\ Grows
  <2>1. Hears(Errors)
    BY <1>0, <1>3, AddsOne DEF Hears, Starves
  <2>2. CASE task = 0
    <3>1. Taken /\ task' = 0 /\ ram' = ram /\ 1 \in DOMAIN up
      BY <1>3, <2>2, StarvedUp, FirstUp DEF Starves, Taken
    <3>2. up[1].kind \in {"crc", "write"}
      BY <1>3, <2>2, <3>1 DEF Starves, MineInv, Sends
    <3> QED
      BY <1>0, <2>1, <2>2, <3>1, <3>2, DownKinds DEF TakesQuery, WriteAgent
  <2>3. CASE task # 0
    <3>1. up' = up => up = <<>> /\ ~(pc = "block_ack" /\ down # <<>>)
      <4>0. up \in Seq(UpPackets)
        BY DEF TypeInv
      <4>1. up' = up => ~ Taken
        BY <4>0, TakenMoves
      <4>2. up # <<>> /\ up' = Tail(up) => Taken
        BY <4>0, TailFacts DEF Taken
      <4> QED
        BY <1>3, <4>1, <4>2 DEF Starves
    <3> QED
      BY <1>3, <2>1, <2>3, <3>1, StarvedUp DEF Starves, Rejects, WriteAgent
  <2> QED
    BY <2>2, <2>3
<1>4. CASE Idles
  BY <1>4 DEF Idles, Rests, WriteAgent
<1>5. CASE /\ UNCHANGED <<up, task, ram, flash, rate, alive, buf>>
           /\ down' = down \/ (Reads /\ down[1] = Ready)
  BY <1>5 DEF Rests, WriteAgent
<1> QED
  BY <1>1, <1>2, <1>3, <1>4, <1>5, IdleSteps

\* What the agent does keeps the RAM blocks below the one it is receiving.
LEMMA RamKept ==
  ASSUME TypeInv, WriteAgent, NEW n \in Nat, n <= Blocks, task # 0 => task > n, Kept(n)
  PROVE  \A b \in 1..n : ram'[b] = "new"
<1> SUFFICES ASSUME NEW b \in 1..n PROVE ram'[b] = "new"
  OBVIOUS
<1>1. ram[b] = "new" /\ b \in 1..Blocks /\ Blocks \in Nat
  BY LinkAssumption DEF Kept
<1>2. ram \in [1..Blocks -> {"other", "new"}] /\ task \in 0..(Blocks + 1)
  BY DEF TypeInv
<1>3. task # 0 => b # task
  BY <1>2
<1> QED
  BY <1>1, <1>2, <1>3 DEF WriteAgent, TakesQuery, TakesRate, TakesHeader, TakesData, Accepts, Rejects, Rests

LEMMA HearsOther ==
  ASSUME down \in Seq(DownPackets), NEW x \in DownPackets, x # Okay, Hears(x)
  PROVE  (NoOkay => NoOkay') /\ (OneOkay => OneOkay')
<1>1. CASE down' = down
  BY <1>1 DEF NoOkay, OneOkay
<1>2. CASE down' = Append(down, x)
  <2>1. \A i \in DOMAIN down' : (i \in DOMAIN down /\ down'[i] = down[i]) \/ down'[i] = x
    BY <1>2, AppendedDown
  <2> QED
    BY <2>1 DEF NoOkay, OneOkay
<1> QED
  BY <1>1, <1>2 DEF Hears

LEMMA HearsOkay ==
  ASSUME down \in Seq(DownPackets), Hears(Okay), NoOkay
  PROVE  OneOkay'
<1>0. Okay \in DownPackets
  BY DownTypes
<1>1. CASE down' = down
  BY <1>1 DEF NoOkay, OneOkay
<1>2. CASE down' = Append(down, Okay)
  <2>1. \A i \in DOMAIN down' : (i \in DOMAIN down /\ down'[i] = down[i]) \/ i = Len(down) + 1
    BY <1>0, <1>2, AppendedDown
  <2> QED
    BY <2>1 DEF NoOkay, OneOkay
<1> QED
  BY <1>1, <1>2 DEF Hears

LEMMA FewerOkays ==
  ASSUME down \in Seq(DownPackets), Shrinks
  PROVE  (NoOkay => NoOkay') /\ (OneOkay => OneOkay')
<1>1. NoOkay => NoOkay'
  BY QuietLines
<1>2. ASSUME OneOkay PROVE OneOkay'
  <2>1. PICK d \in 0..Len(down) : Len(down') = Len(down) - d /\ \A i \in 1..Len(down') : down'[i] = down[i + d]
    BY DEF Shrinks
  <2>2. DOMAIN down' = 1..Len(down') /\ DOMAIN down = 1..Len(down) /\ Len(down) \in Nat /\ Len(down') \in Nat
    BY ShrinksFacts
  <2> SUFFICES ASSUME NEW i \in DOMAIN down', NEW j \in DOMAIN down', down'[i] = Okay, down'[j] = Okay PROVE i = j
    BY DEF OneOkay
  <2>3. i + d \in DOMAIN down /\ j + d \in DOMAIN down /\ down[i + d] = Okay /\ down[j + d] = Okay
    BY <2>1, <2>2
  <2>4. i + d = j + d
    BY <1>2, <2>3 DEF OneOkay
  <2> QED
    BY <2>1, <2>2, <2>4
<1> QED
  BY <1>1, <1>2

LEMMA ReadsShrinks ==
  ASSUME down \in Seq(DownPackets), Reads
  PROVE  Shrinks
<1>1. 1 \in 0..Len(down) /\ Len(down') = Len(down) - 1 /\ \A i \in 1..Len(down') : down'[i] = down[i + 1]
  BY DEF Reads
<1>2. down' \in Seq(DownPackets) /\ stash' \in 0..Len(down')
  BY DEF Reads
<1> QED
  BY <1>1, <1>2 DEF Shrinks

LEMMA RestsLines ==
  ASSUME TypeInv, Rests
  PROVE  (NoOkay => NoOkay') /\ (OneOkay => OneOkay')
<1>0. down \in Seq(DownPackets)
  BY DEF TypeInv
<1>1. CASE down' = down
  BY <1>1 DEF NoOkay, OneOkay
<1>2. CASE Reads
  BY <1>0, <1>2, ReadsShrinks, FewerOkays
<1>3. CASE down' = <<Ready>>
  <2>1. \A i \in DOMAIN down' : down'[i] = Ready
    BY <1>3
  <2> QED
    BY <2>1, DownKinds DEF NoOkay, OneOkay
<1> QED
  BY <1>1, <1>2, <1>3 DEF Rests

\* The one ACK under way has been read.
LEMMA OkayRead ==
  ASSUME down \in Seq(DownPackets), Reads, OneOkay, down[1] = Okay
  PROVE  NoOkay'
<1>1. DOMAIN down' = 1..Len(down') /\ DOMAIN down = 1..Len(down) /\ Len(down) \in Nat /\ Len(down') = Len(down) - 1
  BY DEF Reads
<1> SUFFICES ASSUME NEW i \in DOMAIN down', down'[i] = Okay PROVE FALSE
  BY DEF NoOkay
<1>2. i + 1 \in DOMAIN down /\ 1 \in DOMAIN down /\ i + 1 # 1
  BY <1>1
<1>3. down[i + 1] = Okay
  BY <1>1 DEF Reads
<1> QED
  BY <1>2, <1>3 DEF OneOkay

\* The next packet on the line to the agent.
LEMMA NextUp ==
  ASSUME TypeInv, Taken
  PROVE  /\ 1 \in DOMAIN up /\ \A i \in DOMAIN up' : i + 1 \in DOMAIN up /\ up'[i] = up[i + 1]
         /\ Len(up') = Len(up) - 1 /\ Len(up) \in Nat /\ Len(up) >= 1
         /\ NoHeader => NoHeader' /\ up[1].kind \notin {"write", "set_baud"}
<1>1. up \in Seq(UpPackets)
  BY DEF TypeInv
<1>2. /\ 1 \in DOMAIN up /\ \A i \in DOMAIN up' : i + 1 \in DOMAIN up /\ up'[i] = up[i + 1]
      /\ Len(up') = Len(up) - 1 /\ Len(up) \in Nat /\ Len(up) >= 1
  BY <1>1, TakenFacts
<1>3. NoHeader => NoHeader' /\ up[1].kind \notin {"write", "set_baud"}
  BY <1>2 DEF NoHeader
<1> QED
  BY <1>2, <1>3

LEMMA GoAgent ==
  ASSUME TypeInv, WriteAgent, off' = off, off < Blocks, GoAt
  PROVE  GoAt'
<1>0. down \in Seq(DownPackets) /\ off \in Nat /\ Blocks \in Nat
  BY LinkAssumption DEF TypeInv
<1>1. Kept(off)'
  BY <1>0, RamKept DEF GoAt, Kept
<1>2. CASE TakesQuery
  <2>1. NoHeader'
    BY <1>2, NextUp DEF TakesQuery, GoAt
  <2>2. NoOkay'
    BY <1>0, <1>2, HearsOther DEF TakesQuery, GoAt
  <2> QED
    BY <1>1, <1>2, <2>1, <2>2 DEF GoAt, TakesQuery
<1>3. ~ TakesRate /\ ~ TakesHeader
  BY NextUp DEF TakesRate, TakesHeader, GoAt
<1>4. CASE Rests
  <2>1. NoOkay' /\ NoHeader' /\ task' = 0
    BY <1>4, RestsLines DEF Rests, GoAt, NoHeader
  <2> QED
    BY <1>1, <2>1 DEF GoAt
<1> QED
  BY <1>2, <1>3, <1>4 DEF WriteAgent, TakesData, Accepts, Rejects, GoAt

LEMMA DrainAgent ==
  ASSUME TypeInv, WriteAgent, off' = off, off < Blocks, DrainAt
  PROVE  DrainAt'
<1>0. off \in Nat /\ Blocks \in Nat /\ task \in 0..(Blocks + 1)
  BY LinkAssumption DEF TypeInv
<1>1. Kept(off)'
  BY <1>0, RamKept DEF DrainAt, Kept
<1>2. /\ \A i \in DOMAIN up : up[i].kind \in {"info", "data", "write"}
      /\ \A i \in DOMAIN up : up[i].kind = "write" => up[i].val > off
  BY DEF DrainAt
<1>3. CASE Taken
  <2>1. 1 \in DOMAIN up /\ \A i \in DOMAIN up' : i + 1 \in DOMAIN up /\ up'[i] = up[i + 1]
    BY <1>3, NextUp
  <2>2. /\ \A i \in DOMAIN up' : up'[i].kind \in {"info", "data", "write"}
        /\ \A i \in DOMAIN up' : up'[i].kind = "write" => up'[i].val > off
    BY <1>2, <2>1
  <2>3. task' # 0 => task' > off
    BY <1>2, <2>1 DEF WriteAgent, TakesQuery, TakesRate, TakesHeader, TakesData, Accepts, Rejects, Rests, DrainAt
  <2> QED
    BY <1>1, <2>2, <2>3 DEF DrainAt
<1>4. CASE up' = up
  <2>1. task' # 0 => task' > off
    BY <1>4 DEF WriteAgent, TakesQuery, TakesRate, TakesHeader, TakesData, Accepts, Rejects, Rests, DrainAt, Taken
  <2> QED
    BY <1>1, <1>2, <1>4, <2>1 DEF DrainAt
<1> QED
  BY <1>3, <1>4 DEF WriteAgent, TakesQuery, TakesRate, TakesHeader, TakesData, Accepts, Rejects, Rests

LEMMA RetryAgent ==
  ASSUME TypeInv, WriteAgent, off' = off, off < Blocks, RetryAt
  PROVE  RetryAt'
<1>0. down \in Seq(DownPackets) /\ off \in Nat /\ Blocks \in Nat /\ Errors \in DownPackets /\ Errors # Okay
  BY LinkAssumption, DownTypes, DownKinds DEF TypeInv
<1>1. Kept(off)'
  BY <1>0, RamKept DEF RetryAt, Kept
<1>2. CASE TakesQuery
  <2>1. NoHeader' /\ task' = 0
    BY <1>2, NextUp DEF TakesQuery, RetryAt
  <2>2. NoOkay'
    BY <1>0, <1>2, HearsOther DEF TakesQuery, RetryAt
  <2> QED
    BY <1>1, <2>1, <2>2 DEF RetryAt
<1>3. ~ TakesRate /\ ~ TakesHeader
  BY NextUp DEF TakesRate, TakesHeader, RetryAt
<1>4. ~ TakesData /\ ~ Accepts
  BY DEF TakesData, Accepts, Taken, RetryAt
<1>5. CASE Rejects
  <2>1. up' = up /\ task' = 0
    BY <1>5 DEF Rejects, Taken, RetryAt
  <2>2. NoOkay'
    BY <1>0, <1>5, HearsOther DEF Rejects, RetryAt
  <2> QED
    BY <1>1, <2>1, <2>2 DEF RetryAt, NoHeader
<1>6. CASE Rests
  <2>1. NoOkay' /\ NoHeader' /\ task' = task /\ up' = up
    BY <1>6, RestsLines DEF Rests, RetryAt, NoHeader
  <2> QED
    BY <1>1, <2>1 DEF RetryAt
<1> QED
  BY <1>2, <1>3, <1>4, <1>5, <1>6 DEF WriteAgent

LEMMA CrcAgent ==
  ASSUME TypeInv, WriteAgent, off' = off, off < Blocks, CrcAt
  PROVE  CrcAt'
<1>0. down \in Seq(DownPackets) /\ off \in Nat /\ Blocks \in Nat /\ Errors \in DownPackets /\ Errors # Okay
  BY LinkAssumption, DownTypes, DownKinds DEF TypeInv
<1>1. Kept(off)'
  <2>1. task # 0 => task > off
    BY <1>0 DEF CrcAt
  <2> QED
    BY <1>0, <2>1, RamKept DEF CrcAt, Kept
<1>2. CASE TakesQuery
  <2>1. NoHeader' /\ task' = 0 /\ ram' = ram
    BY <1>2, NextUp DEF TakesQuery, CrcAt
  <2>2. (NoOkay => NoOkay') /\ OneOkay'
    BY <1>0, <1>2, HearsOther DEF TakesQuery, CrcAt
  <2> QED
    BY <1>1, <2>1, <2>2 DEF CrcAt
<1>3. ~ TakesRate /\ ~ TakesHeader
  BY NextUp DEF TakesRate, TakesHeader, CrcAt
<1>4. CASE TakesData
  <2>1. NoHeader' /\ task' = task /\ ram' = ram /\ down' = down
    BY <1>4, NextUp DEF TakesData, CrcAt
  <2>2. (NoOkay <=> NoOkay') /\ OneOkay'
    BY <2>1 DEF NoOkay, OneOkay, CrcAt
  <2> QED
    BY <1>1, <2>1, <2>2 DEF CrcAt
<1>5. CASE Accepts
  <2>1. NoHeader' /\ task' = 0 /\ task = off + 1 /\ task # Blocks + 1
    BY <1>0, <1>5, NextUp DEF Accepts, CrcAt
  <2>2. OneOkay'
    BY <1>0, <1>5, HearsOkay DEF Accepts, CrcAt
  <2>3. ram'[off + 1] = "new"
    <3>1. ram \in [1..Blocks -> {"other", "new"}]
      BY DEF TypeInv
    <3>2. off + 1 \in 1..Blocks
      BY <1>0
    <3> QED
      BY <1>5, <2>1, <3>1, <3>2 DEF Accepts
  <2> QED
    BY <1>1, <2>1, <2>2, <2>3 DEF CrcAt
<1>6. CASE Rejects
  <2>1. NoHeader' /\ task' = 0 /\ NoOkay
    BY <1>6, NextUp DEF Rejects, CrcAt, NoHeader
  <2>2. NoOkay' /\ OneOkay'
    BY <1>0, <1>6, <2>1, HearsOther DEF Rejects, CrcAt
  <2> QED
    BY <1>1, <2>1, <2>2 DEF CrcAt
<1>7. CASE Rests
  <2>1. (NoOkay => NoOkay') /\ OneOkay' /\ NoHeader' /\ task' = task /\ ram' = ram
    BY <1>7, RestsLines DEF Rests, CrcAt, NoHeader
  <2> QED
    BY <1>1, <2>1 DEF CrcAt
<1> QED
  BY <1>2, <1>3, <1>4, <1>5, <1>6, <1>7 DEF WriteAgent

LEMMA AckAgent ==
  ASSUME TypeInv, WriteAgent, off' = off, off < Blocks, pc = "block_ack", AckAt
  PROVE  AckAt'
<1>0. down \in Seq(DownPackets) /\ off \in Nat /\ Blocks \in Nat /\ Errors \in DownPackets /\ Errors # Okay
  BY LinkAssumption, DownTypes, DownKinds DEF TypeInv
<1>1. Kept(off)'
  BY <1>0, RamKept DEF AckAt, Kept
<1>2. CASE Taken
  <2>1. /\ 1 \in DOMAIN up /\ \A i \in DOMAIN up' : i + 1 \in DOMAIN up /\ up'[i] = up[i + 1]
        /\ Len(up') = Len(up) - 1 /\ Len(up) \in Nat /\ Len(up) >= 1
    BY <1>2, NextUp
  <2>2. NoOkay
    BY <1>2 DEF AckAt, Taken
  <2>3. \A i \in DOMAIN up' : up'[i].kind # "set_baud"
    BY <2>1 DEF AckAt
  <2>4. \A i \in DOMAIN up' : up'[i].kind = "write" => i = Len(up') /\ up'[i].val = off + 1
    <3> SUFFICES ASSUME NEW i \in DOMAIN up', up'[i].kind = "write" PROVE i = Len(up') /\ up'[i].val = off + 1
      OBVIOUS
    <3>1. i + 1 = Len(up) /\ up[i + 1].val = off + 1
      BY <2>1 DEF AckAt
    <3>2. i \in Nat
      <4>1. up' \in Seq(UpPackets)
        BY <1>2 DEF Taken
      <4> QED
        BY <4>1
    <3> QED
      BY <2>1, <3>1, <3>2
  <2>5. CASE up[1].kind = "write"
    <3>1. Len(up) = 1 /\ up[1].val = off + 1
      BY <2>1, <2>5 DEF AckAt
    <3>2. up' = <<>>
      <4>1. up' \in Seq(UpPackets) /\ Len(up') = 0
        BY <1>2, <2>1, <3>1 DEF Taken
      <4> QED
        BY <4>1
    <3>3. CASE TakesHeader
      <4>1. OneOkay' /\ task' = off + 1
        BY <1>0, <2>2, <3>1, <3>3, HearsOkay DEF TakesHeader
      <4>2. task' > off
        BY <1>0, <4>1
      <4> QED
        BY <1>1, <3>2, <4>1, <4>2 DEF AckAt
    <3>4. CASE TakesData
      <4>1. task' = task /\ down' = down /\ task # 0
        BY <3>4 DEF TakesData
      <4>2. NoOkay' /\ OneOkay' /\ task > off
        BY <2>2, <4>1 DEF NoOkay, OneOkay, AckAt
      <4> QED
        BY <1>0, <1>1, <3>2, <4>1, <4>2 DEF AckAt
    <3>5. CASE TakesQuery \/ Rejects
      <4>1. NoOkay' /\ OneOkay' /\ task' = 0
        BY <1>0, <2>2, <3>5, HearsOther DEF TakesQuery, Rejects, AckAt
      <4> QED
        BY <1>1, <3>2, <4>1 DEF AckAt
    <3> QED
      <4>1. up' # up
        BY <1>2, TakenMoves DEF TypeInv
      <4>2. ~ TakesRate /\ ~ Accepts /\ ~ Rests
        BY <2>5, <4>1 DEF TakesRate, Accepts, Rests
      <4> QED
        BY <3>3, <3>4, <3>5, <4>2 DEF WriteAgent
  <2>6. CASE up[1].kind # "write"
    <3>1. task = 0
      BY <2>1, <2>6 DEF AckAt
    <3>2. up[1].kind # "set_baud"
      BY <2>1 DEF AckAt
    <3>3. CASE TakesQuery
      <4>1. NoOkay' /\ OneOkay' /\ task' = 0
        BY <1>0, <2>2, <3>3, HearsOther DEF TakesQuery, AckAt
      <4> QED
        BY <1>1, <2>3, <2>4, <4>1 DEF AckAt
    <3>4. CASE Rests
      <4>1. Len(up') = Len(up)
        BY <3>4 DEF Rests
      <4> QED
        BY <2>1, <4>1
    <3> QED
      BY <2>6, <3>1, <3>2, <3>3, <3>4 DEF WriteAgent, TakesRate, TakesHeader, TakesData, Accepts, Rejects
  <2> QED
    BY <2>5, <2>6
<1>3. CASE ~ Taken
  <2>1. up' = up
    BY <1>3 DEF WriteAgent, TakesQuery, TakesRate, TakesHeader, TakesData, Accepts, Rejects, Rests
  <2>2. CASE Rejects
    <3>1. down = <<>> /\ task' = 0
      BY <1>3, <2>2 DEF Rejects
    <3>2. NoOkay /\ OneOkay
      BY <3>1 DEF NoOkay, OneOkay
    <3>3. NoOkay' /\ OneOkay'
      BY <1>0, <2>2, <3>2, HearsOther DEF Rejects
    <3> QED
      BY <1>1, <2>1, <3>1, <3>3 DEF AckAt
  <2>3. CASE Rests
    <3>1. (NoOkay => NoOkay') /\ OneOkay' /\ task' = task
      BY <2>3, RestsLines DEF Rests, AckAt
    <3> QED
      BY <1>1, <2>1, <3>1 DEF AckAt
  <2> QED
    BY <1>3, <2>2, <2>3 DEF WriteAgent, TakesQuery, TakesRate, TakesHeader, TakesData, Accepts
<1> QED
  BY <1>2, <1>3

---------------------------------------------------------------------------
(* agent write: a window.                                                  *)

LEMMA SeenFacts ==
  ASSUME TypeInv
  PROVE  /\ Lead \in 0..1 /\ Seen \in Nat /\ Seen = Len(down) - Lead /\ Len(down) \in Nat /\ DOMAIN down = 1..Len(down)
         /\ acks \in Nat /\ Busy \in 0..1 /\ (Busy = 0 <=> task = 0)
<1>1. down \in Seq(DownPackets) /\ acks \in Nat
  BY DEF TypeInv
<1>2. Len(down) \in Nat /\ DOMAIN down = 1..Len(down) /\ (down # <<>> => Len(down) >= 1)
  BY <1>1
<1>3. Lead \in 0..1 /\ (Lead = 1 => down # <<>>)
  BY DEF Lead
<1>4. Busy \in 0..1 /\ (Busy = 0 <=> task = 0)
  BY DEF Busy
<1> QED
  BY <1>1, <1>2, <1>3, <1>4 DEF Seen

LEMMA SeenAppend ==
  ASSUME TypeInv, NEW x \in DownPackets, x # Ready, down' = Append(down, x)
  PROVE  Lead' = Lead /\ Seen' = Seen + 1
<1>1. down \in Seq(DownPackets)
  BY DEF TypeInv
<1>2. Len(down') = Len(down) + 1 /\ Len(down) \in Nat /\ down'[Len(down) + 1] = x /\ \A i \in DOMAIN down : down'[i] = down[i]
  BY <1>1, AppendedDown
<1>3. down' # <<>>
  <2>1. Len(down') >= 1
    BY <1>2
  <2> QED
    BY <2>1
<1>4. CASE down = <<>>
  <2>1. Len(down) = 0
    BY <1>4
  <2>2. down'[1] = x
    BY <1>2, <2>1
  <2>3. Lead = 0 /\ Lead' = 0
    BY <1>4, <2>2 DEF Lead
  <2> QED
    BY <1>2, <2>1, <2>3 DEF Seen
<1>5. CASE down # <<>>
  <2>1. 1 \in DOMAIN down
    BY <1>1, <1>5
  <2>2. down'[1] = down[1]
    BY <1>2, <2>1
  <2>3. Lead' = Lead
    BY <1>3, <1>5, <2>2 DEF Lead
  <2>4. Lead \in 0..1
    BY SeenFacts
  <2> QED
    BY <1>2, <2>3, <2>4 DEF Seen
<1> QED
  BY <1>4, <1>5

LEMMA SeenReads ==
  ASSUME TypeInv, ReadyFirst, Reads
  PROVE  /\ Lead' = 0 /\ Seen' = Len(down) - 1 /\ DOMAIN down' = 1..(Len(down) - 1) /\ Len(down) >= 1 /\ 1 \in DOMAIN down
         /\ \A i \in DOMAIN down' : i + 1 \in DOMAIN down /\ down'[i] = down[i + 1]
         /\ Lead = IF down[1] = Ready THEN 1 ELSE 0
<1>1. down \in Seq(DownPackets) /\ down' \in Seq(DownPackets) /\ down # <<>> /\ Len(down') = Len(down) - 1
  BY DEF TypeInv, Reads
<1>2. Len(down) \in Nat /\ DOMAIN down = 1..Len(down) /\ Len(down) >= 1 /\ DOMAIN down' = 1..(Len(down) - 1) /\ 1 \in DOMAIN down
  BY <1>1
<1>3. \A i \in DOMAIN down' : i + 1 \in DOMAIN down /\ down'[i] = down[i + 1]
  BY <1>1, <1>2 DEF Reads
<1>4. Lead = IF down[1] = Ready THEN 1 ELSE 0
  BY <1>1 DEF Lead
<1>5. Lead' = 0
  <2>1. CASE down' = <<>>
    BY <2>1 DEF Lead
  <2>2. CASE down' # <<>>
    <3>1. 1 \in DOMAIN down'
      BY <1>1, <2>2
    <3>2. 1 + 1 \in DOMAIN down /\ down'[1] = down[1 + 1]
      BY <1>3, <3>1
    <3>3. down'[1] # Ready
      BY <3>2 DEF ReadyFirst
    <3> QED
      BY <3>3 DEF Lead
  <2> QED
    BY <2>1, <2>2
<1>6. Seen' = Len(down) - 1
  BY <1>1, <1>2, <1>5 DEF Seen
<1> QED
  BY <1>2, <1>3, <1>4, <1>5, <1>6

LEMMA WindowNums ==
  ASSUME TypeInv, off < Blocks
  PROVE  /\ off \in Nat /\ Blocks \in Nat /\ WindowEnd \in Nat /\ off < WindowEnd /\ WindowEnd <= Blocks
         /\ Total \in Nat /\ Total = 2 * (WindowEnd - off) /\ Total >= 1
         /\ off' = off => WindowEnd' = WindowEnd /\ Total' = Total
<1>1. off \in Nat /\ Blocks \in Nat
  BY LinkAssumption DEF TypeInv
<1>2. WindowEnd \in Nat /\ off < WindowEnd /\ WindowEnd <= Blocks
  BY <1>1, WindowEndFacts
<1>3. off' = off => WindowEnd' = WindowEnd
  BY DEF WindowEnd, Least
<1>4. off' = off => Total' = Total
  BY <1>3 DEF Total
<1>5. Total \in Nat /\ Total = 2 * (WindowEnd - off) /\ Total >= 1
  BY <1>1, <1>2 DEF Total
<1> QED
  BY <1>1, <1>2, <1>3, <1>4, <1>5

LEMMA WindowUpTaken ==
  ASSUME TypeInv, Taken, off' = off, WindowUp, off < Blocks
  PROVE  /\ WindowUp' /\ up[1].kind \in {"info", "data", "write"}
         /\ up[1].kind = "write" => /\ up[1].val \in (off + 1)..WindowEnd
                                    /\ \A i \in DOMAIN up' : up'[i].kind = "write" => up'[i].val > up[1].val
<1>1. 1 \in DOMAIN up /\ \A i \in DOMAIN up' : i + 1 \in DOMAIN up /\ up'[i] = up[i + 1]
  BY NextUp
<1>2. \A i \in DOMAIN up' : i \in Nat /\ 1 < i + 1
  <2>1. up' \in Seq(UpPackets)
    BY DEF Taken
  <2>2. \A i \in DOMAIN up' : i \in Nat /\ i >= 1
    BY <2>1
  <2> QED
    BY <2>2
<1>3. WindowEnd' = WindowEnd
  BY WindowNums
<1>4. /\ \A i \in DOMAIN up : up[i].kind \in {"info", "data", "write"}
      /\ \A i \in DOMAIN up : up[i].kind = "write" => up[i].val \in (off + 1)..WindowEnd
      /\ \A i, j \in DOMAIN up : i < j /\ up[i].kind = "write" /\ up[j].kind = "write" => up[i].val < up[j].val
  BY DEF WindowUp
<1>5. \A i, j \in DOMAIN up' : i < j => i + 1 < j + 1
  BY <1>2
<1>6. WindowUp'
  BY <1>1, <1>3, <1>4, <1>5 DEF WindowUp
<1>7. ASSUME up[1].kind = "write", NEW i \in DOMAIN up', up'[i].kind = "write" PROVE up'[i].val > up[1].val
  <2>1. up[1].val < up[i + 1].val
    BY <1>1, <1>2, <1>4, <1>7
  <2>2. up[1].val \in Nat /\ up[i + 1].val \in Nat
    <3>1. up[1].val \in (off + 1)..WindowEnd /\ up[i + 1].val \in (off + 1)..WindowEnd
      BY <1>1, <1>4, <1>7
    <3> QED
      BY <3>1, WindowNums
  <2> QED
    BY <1>1, <2>1, <2>2
<1> QED
  BY <1>1, <1>4, <1>6, <1>7

\* An answer that is no ACK, where the host still waits for one.
LEMMA SpoiltBy ==
  ASSUME TypeInv, off < Blocks, off' = off, acks' = acks, NEW x \in DownPackets, x # Ready, x # Okay, down' = Append(down, x),
         acks + Seen < Total
  PROVE  Spoilt'
<1>0. down \in Seq(DownPackets)
  BY DEF TypeInv
<1>1. DOMAIN down' = 1..(Len(down) + 1) /\ Len(down) \in Nat /\ down'[Len(down) + 1] = x
  BY <1>0, AppendedDown
<1>2. Lead' = Lead /\ Total' = Total
  BY SeenAppend, WindowNums
<1>3. acks' + (Len(down) + 1) - 1 - Lead' < Total'
  <2>1. Lead \in 0..1 /\ Seen = Len(down) - Lead /\ acks \in Nat
    BY SeenFacts
  <2>2. Total \in Nat
    BY WindowNums
  <2> QED
    BY <1>1, <1>2, <2>1, <2>2
<1>4. Len(down) + 1 \in DOMAIN down'
  BY <1>1
<1> QED
  BY <1>1, <1>3, <1>4 DEF Spoilt

LEMMA SpoiltKept ==
  ASSUME TypeInv, off < Blocks, off' = off, acks' = acks, Spoilt, NEW x \in DownPackets, x # Ready, Hears(x)
  PROVE  Spoilt'
<1>0. down \in Seq(DownPackets) /\ Total' = Total
  BY WindowNums DEF TypeInv
<1>1. CASE down' = down
  BY <1>0, <1>1 DEF Spoilt, Lead
<1>2. CASE down' = Append(down, x)
  <2>1. Lead' = Lead
    BY <1>2, SeenAppend
  <2>2. DOMAIN down \subseteq DOMAIN down' /\ \A i \in DOMAIN down : down'[i] = down[i]
    <3>1. DOMAIN down' = 1..(Len(down) + 1) /\ Len(down) \in Nat /\ \A i \in DOMAIN down : down'[i] = down[i]
      BY <1>0, <1>2, AppendedDown
    <3>2. DOMAIN down = 1..Len(down)
      BY <1>0
    <3> QED
      BY <3>1, <3>2
  <2> QED
    BY <1>0, <2>1, <2>2 DEF Spoilt
<1> QED
  BY <1>1, <1>2 DEF Hears

\* A READY is skipped, or an ACK is read and counted.
LEMMA SpoiltReads ==
  ASSUME TypeInv, ReadyFirst, off < Blocks, off' = off, Spoilt, Reads,
         (down[1] = Ready /\ acks' = acks) \/ (down[1] = Okay /\ acks' = acks + 1)
  PROVE  Spoilt'
<1>0. Total' = Total /\ Total \in Nat /\ Okay # Ready
  BY WindowNums, DownKinds
<1>1. PICK e \in DOMAIN down : down[e] # Ready /\ down[e] # Okay /\ acks + e - 1 - Lead < Total
  BY DEF Spoilt
<1>2. e # 1
  BY <1>1
<1>3. /\ Lead' = 0 /\ DOMAIN down' = 1..(Len(down) - 1)
      /\ \A i \in DOMAIN down' : i + 1 \in DOMAIN down /\ down'[i] = down[i + 1]
      /\ Lead = IF down[1] = Ready THEN 1 ELSE 0
  BY SeenReads
<1>4. Len(down) \in Nat /\ DOMAIN down = 1..Len(down) /\ acks \in Nat
  BY SeenFacts
<1>5. e - 1 \in DOMAIN down' /\ (e - 1) + 1 = e
  BY <1>1, <1>2, <1>3, <1>4
<1>6. down'[e - 1] = down[e]
  BY <1>3, <1>5
<1>7. acks' + (e - 1) - 1 - Lead' < Total'
  BY <1>0, <1>1, <1>3, <1>4
<1> QED
  BY <1>1, <1>5, <1>6, <1>7 DEF Spoilt

\* When the ACKs that are counted and under way are all there are to come,
\* every block of the window is in the RAM.
LEMMA CountedFull ==
  ASSUME TypeInv, off < Blocks, WindowUp, NEW m \in off..WindowEnd, Counted(m), ~ (acks + Seen < Total)
  PROVE  AllIn
<1>1. /\ off \in Nat /\ WindowEnd \in Nat /\ WindowEnd <= Blocks /\ Total \in Nat /\ Blocks \in Nat
  BY WindowNums
<1>2. /\ Lead \in 0..1 /\ Seen \in Nat /\ Seen = Len(down) - Lead /\ Len(down) \in Nat /\ DOMAIN down = 1..Len(down)
      /\ acks \in Nat /\ Busy \in 0..1 /\ (Busy = 0 <=> task = 0)
  BY SeenFacts
<1>3. acks + Seen + 2 * (WindowEnd - m) + Busy <= Total
  BY DEF Counted, Sum
<1>4. m = WindowEnd /\ Busy = 0 /\ acks + Seen = Total
  BY <1>1, <1>2, <1>3
<1>5. Sum(m) = Total /\ task = 0
  BY <1>1, <1>2, <1>4 DEF Sum
<1>6. \A b \in 1..m : b # 0 => ram[b] = "new"
  BY <1>5 DEF Counted
<1>7. Kept(WindowEnd)
  <2>1. \A b \in 1..WindowEnd : b # 0
    BY <1>1
  <2> QED
    BY <1>4, <1>6, <2>1 DEF Kept
<1>8. NoHeader
  <2> SUFFICES ASSUME NEW i \in DOMAIN up PROVE up[i].kind \notin {"write", "set_baud"}
    BY DEF NoHeader
  <2>1. up[i].kind \in {"info", "data", "write"} /\ (up[i].kind = "write" => up[i].val \in (off + 1)..WindowEnd)
    BY DEF WindowUp
  <2>2. up[i].kind = "write" => up[i].val > WindowEnd
    BY <1>4 DEF Counted
  <2> QED
    BY <1>1, <2>1, <2>2
<1>9. \A i \in DOMAIN down : acks + i - Lead <= Total
  BY <1>1, <1>2, <1>4
<1> QED
  BY <1>5, <1>7, <1>8, <1>9 DEF AllIn

LEMMA AllInAgent ==
  ASSUME TypeInv, ReadyFirst, WriteAgent, off < Blocks, off' = off, acks' = acks, AllIn
  PROVE  AllIn'
<1>0. Total' = Total /\ WindowEnd' = WindowEnd /\ Total \in Nat /\ Okay # Ready /\ down \in Seq(DownPackets)
  BY WindowNums, DownKinds DEF TypeInv
<1>1. ~ TakesRate /\ ~ TakesHeader /\ ~ TakesData /\ ~ Accepts /\ ~ Rejects
  BY NextUp DEF AllIn, TakesRate, TakesHeader, TakesData, Accepts, Rejects
<1>2. ram' = ram /\ task' = 0 /\ NoHeader'
  <2>1. CASE TakesQuery
    BY <2>1, NextUp DEF TakesQuery, AllIn
  <2>2. CASE Rests
    BY <2>2 DEF Rests, AllIn, NoHeader
  <2> QED
    BY <1>1, <2>1, <2>2 DEF WriteAgent
<1>3. Kept(WindowEnd)'
  BY <1>0, <1>2 DEF AllIn, Kept
<1>4. \A i \in DOMAIN down : down[i] = Okay => acks + i - Lead <= Total
  BY DEF AllIn
<1>5. \A i \in DOMAIN down' : down'[i] = Okay => acks + i - Lead' <= Total
  <2>1. CASE down' = down
    BY <1>4, <2>1 DEF Lead
  <2>2. CASE TakesQuery /\ down' # down
    <3>1. PICK x \in DownPackets : x # Ready /\ x # Okay /\ Hears(x)
      BY <2>2 DEF TakesQuery
    <3>2. down' = Append(down, x)
      BY <2>2, <3>1 DEF Hears
    <3>3. Lead' = Lead
      BY <3>1, <3>2, SeenAppend
    <3>4. \A i \in DOMAIN down' : (i \in DOMAIN down /\ down'[i] = down[i]) \/ down'[i] = x
      BY <1>0, <3>2, AppendedDown
    <3> QED
      BY <1>4, <3>1, <3>3, <3>4
  <2>3. CASE Reads /\ down[1] = Ready
    <3>1. /\ Lead' = 0 /\ DOMAIN down' = 1..(Len(down) - 1) /\ Lead = 1
          /\ \A i \in DOMAIN down' : i + 1 \in DOMAIN down /\ down'[i] = down[i + 1]
      BY <2>3, SeenReads
    <3>2. Len(down) \in Nat /\ acks \in Nat
      BY SeenFacts
    <3> SUFFICES ASSUME NEW i \in DOMAIN down', down'[i] = Okay PROVE acks + i - Lead' <= Total
      OBVIOUS
    <3>3. acks + (i + 1) - 1 <= Total
      BY <1>4, <3>1
    <3> QED
      BY <1>0, <3>1, <3>2, <3>3
  <2>4. CASE down' = <<Ready>>
    <3>1. \A i \in DOMAIN down' : down'[i] = Ready
      BY <2>4
    <3> QED
      BY <1>0, <3>1
  <2> QED
    BY <1>1, <2>1, <2>2, <2>3, <2>4 DEF WriteAgent, Rests
<1> QED
  BY <1>0, <1>2, <1>3, <1>5 DEF AllIn

\* The lines of Counted when one packet has been taken, and ACKs sent.
LEMMA CountedDown ==
  ASSUME TypeInv, \A i \in DOMAIN down : down[i] # Ready => down[i] = Okay, Hears(Okay)
  PROVE  /\ \A i \in DOMAIN down' : down'[i] # Ready => down'[i] = Okay
         /\ Seen' = Seen \/ Seen' = Seen + 1
         /\ down' = down => Seen' = Seen
<1>0. Okay \in DownPackets /\ Okay # Ready /\ down \in Seq(DownPackets)
  BY DownTypes, DownKinds DEF TypeInv
<1>1. CASE down' = down
  BY <1>1 DEF Seen, Lead
<1>2. CASE down' = Append(down, Okay)
  <2>1. Seen' = Seen + 1
    BY <1>0, <1>2, SeenAppend
  <2>2. \A i \in DOMAIN down' : (i \in DOMAIN down /\ down'[i] = down[i]) \/ down'[i] = Okay
    BY <1>0, <1>2, AppendedDown
  <2>3. down' # down
    <3>1. Len(down') = Len(down) + 1 /\ Len(down) \in Nat
      BY <1>0, <1>2, AppendedDown
    <3> QED
      BY <3>1
  <2> QED
    BY <2>1, <2>2, <2>3
<1> QED
  BY <1>1, <1>2 DEF Hears

LEMMA CountedHeader ==
  ASSUME TypeInv, off < Blocks, off' = off, acks' = acks, WindowUp, NEW m \in off..WindowEnd, Counted(m), TakesHeader
  PROVE  \E n \in off..WindowEnd : Counted(n)'
<1>0. PICK b \in {up[1].val} : TRUE
  OBVIOUS
<1>1. /\ off \in Nat /\ WindowEnd \in Nat /\ Total \in Nat /\ WindowEnd' = WindowEnd /\ Total' = Total
  BY WindowNums
<1>2. Seen \in Nat /\ acks \in Nat /\ Busy \in 0..1 /\ (Busy = 0 <=> task = 0)
  BY SeenFacts
<1>3. Taken /\ up[1].kind = "write" /\ task = 0 /\ task' = b /\ ram' = ram /\ Hears(Okay)
  BY <1>0 DEF TakesHeader
<1>4. b \in (off + 1)..WindowEnd /\ \A i \in DOMAIN up' : up'[i].kind = "write" => up'[i].val > b
  BY <1>0, <1>3, WindowUpTaken
<1>5. b > m /\ 1 \in DOMAIN up
  BY <1>0, <1>3, NextUp DEF Counted
<1>6. /\ \A i \in DOMAIN down' : down'[i] # Ready => down'[i] = Okay
      /\ Seen' = Seen \/ Seen' = Seen + 1
  BY <1>3, CountedDown DEF Counted
<1>7. Busy = 0 /\ Busy' = 1 /\ b # 0 /\ b \in Nat
  <2>1. b # 0 /\ b \in Nat
    BY <1>1, <1>4
  <2> QED
    BY <1>2, <1>3, <2>1 DEF Busy
<1>8. acks + Seen + 2 * (WindowEnd - m) <= Total
  <2>1. acks + Seen + 2 * (WindowEnd - m) + Busy <= Total
    BY DEF Counted, Sum
  <2> QED
    BY <1>1, <1>2, <1>7, <2>1
<1>9. Sum(b)' = acks + Seen' + 2 * (WindowEnd - b) + 1
  <2>1. Sum(b)' = acks' + Seen' + 2 * (WindowEnd' - b) + Busy'
    BY <1>3 DEF Sum
  <2> QED
    BY <1>1, <1>7, <2>1
<1>10. Sum(b)' <= Total
  BY <1>1, <1>2, <1>4, <1>5, <1>6, <1>7, <1>8, <1>9
<1>11. Sum(b)' = Total => b = m + 1 /\ acks + Seen + 2 * (WindowEnd - m) = Total
  BY <1>1, <1>2, <1>4, <1>5, <1>6, <1>7, <1>8, <1>9
<1>12. ASSUME Sum(b)' = Total, NEW c \in 1..b, c # task' PROVE ram'[c] = "new"
  <2>1. c \in 1..m /\ c # 0
    BY <1>3, <1>7, <1>11, <1>12
  <2>2. Sum(m) = Total
    BY <1>1, <1>2, <1>7, <1>11, <1>12 DEF Sum
  <2>3. ram[c] = "new"
    BY <1>3, <2>1, <2>2 DEF Counted
  <2> QED
    BY <1>3, <2>3
<1>13. b \in off..WindowEnd
  BY <1>1, <1>4
<1>14. /\ \A i \in DOMAIN down' : down'[i] # Ready => down'[i] = Okay
       /\ \A i \in DOMAIN up' : up'[i].kind = "write" => up'[i].val > b
       /\ Sum(b)' <= Total'
       /\ Sum(b)' = Total' => task' \in {0, b} /\ \A c \in 1..b : c # task' => ram'[c] = "new"
  BY <1>1, <1>3, <1>4, <1>6, <1>10, <1>12
<1>15. Counted(b)'
  BY <1>14, <1>3 DEF Counted
<1> QED
  BY <1>13, <1>15

\* One step of the agent, but for the header of a block.
LEMMA CountedAgent ==
  ASSUME TypeInv, ReadyFirst, off < Blocks, off' = off, acks' = acks, WindowUp, NEW m \in off..WindowEnd, Counted(m),
         WriteAgent, ~ TakesHeader
  PROVE  AllIn' \/ Spoilt' \/ Counted(m)'
<1>1. /\ off \in Nat /\ WindowEnd \in Nat /\ WindowEnd <= Blocks /\ Total \in Nat /\ WindowEnd' = WindowEnd /\ Total' = Total
      /\ Blocks \in Nat
  BY WindowNums
<1>2. Seen \in Nat /\ acks \in Nat /\ Busy \in 0..1 /\ (Busy = 0 <=> task = 0)
  BY SeenFacts
<1>3. /\ \A i \in DOMAIN down : down[i] # Ready => down[i] = Okay
      /\ \A i \in DOMAIN up : up[i].kind = "write" => up[i].val > m
      /\ acks + Seen + 2 * (WindowEnd - m) + Busy <= Total
      /\ acks + Seen + 2 * (WindowEnd - m) + Busy = Total => task \in {0, m} /\ \A b \in 1..m : b # task => ram[b] = "new"
  BY DEF Counted, Sum
<1>4. \A i \in DOMAIN up' : up'[i].kind = "write" => up'[i].val > m
  <2>1. CASE Taken
    BY <1>3, <2>1, NextUp
  <2>2. CASE up' = up
    BY <1>3, <2>2
  <2> QED
    BY <2>1, <2>2 DEF WriteAgent, TakesQuery, TakesRate, TakesHeader, TakesData, Accepts, Rejects, Rests
<1>5. Okay # Ready /\ Errors # Ready /\ Errors # Okay /\ Errors \in DownPackets /\ down \in Seq(DownPackets)
  BY DownKinds, DownTypes DEF TypeInv
<1>6. Sum(m)' = acks + Seen' + 2 * (WindowEnd - m) + Busy'
  BY <1>1 DEF Sum
<1>7. CASE acks + Seen < Total /\ \E x \in DownPackets : x # Ready /\ x # Okay /\ down' = Append(down, x)
  BY <1>7, SpoiltBy
<1>8. CASE down' = down /\ task' = task /\ ram' = ram
  <2>1. Seen' = Seen /\ Busy' = Busy
    BY <1>8 DEF Seen, Lead, Busy
  <2> QED
    BY <1>1, <1>3, <1>4, <1>6, <1>8, <2>1 DEF Counted
<1>9. CASE TakesQuery
  <2>1. PICK x \in DownPackets : x # Ready /\ x # Okay /\ Hears(x)
    BY <1>9 DEF TakesQuery
  <2>2. CASE acks + Seen < Total
    BY <1>7, <1>8, <1>9, <2>1, <2>2 DEF Hears, TakesQuery
  <2>3. CASE ~ (acks + Seen < Total)
    BY <2>3, CountedFull, AllInAgent
  <2> QED
    BY <2>2, <2>3
<1>10. ~ TakesRate
  BY WindowUpTaken DEF TakesRate
<1>11. CASE TakesData
  BY <1>8, <1>11 DEF TakesData
<1>12. CASE Accepts
  <2>1. /\ \A i \in DOMAIN down' : down'[i] # Ready => down'[i] = Okay
        /\ Seen' = Seen \/ Seen' = Seen + 1
    BY <1>3, <1>12, CountedDown DEF Accepts
  <2>2. task # 0 /\ task' = 0 /\ Busy = 1 /\ Busy' = 0
    BY <1>12 DEF Accepts, Busy
  <2>3. Sum(m)' <= Total
    BY <1>1, <1>2, <1>3, <1>6, <2>1, <2>2
  <2>4. Sum(m)' = Total => acks + Seen + 2 * (WindowEnd - m) + Busy = Total
    BY <1>1, <1>2, <1>3, <1>6, <2>1, <2>2
  <2>5. ASSUME Sum(m)' = Total, NEW b \in 1..m PROVE ram'[b] = "new"
    <3>1. task = m /\ \A c \in 1..m : c # m => ram[c] = "new"
      BY <1>3, <2>2, <2>4, <2>5
    <3>2. m \in 1..Blocks /\ b \in 1..Blocks /\ m # Blocks + 1
      BY <1>1
    <3>3. ram \in [1..Blocks -> {"other", "new"}] /\ ram' = [ram EXCEPT ![m] = "new"]
      BY <1>12, <3>1, <3>2 DEF Accepts, TypeInv
    <3> QED
      BY <3>1, <3>2, <3>3
  <2> QED
    BY <1>1, <1>4, <2>1, <2>2, <2>3, <2>5 DEF Counted
<1>13. CASE Rejects
  <2>1. task # 0 /\ task' = 0 /\ Busy = 1 /\ Busy' = 0
    BY <1>13 DEF Rejects, Busy
  <2>2. acks + Seen < Total
    BY <1>1, <1>2, <1>3, <2>1
  <2>3. CASE down' = Append(down, Errors)
    BY <1>5, <1>7, <2>2, <2>3
  <2>4. CASE down' = down
    <3>1. Seen' = Seen
      BY <2>4 DEF Seen, Lead
    <3>2. Sum(m)' < Total
      BY <1>1, <1>2, <1>3, <1>6, <2>1, <3>1
    <3>3. Sum(m)' <= Total /\ Sum(m)' # Total
      BY <1>1, <1>2, <1>6, <2>1, <3>1, <3>2
    <3> QED
      BY <1>1, <1>3, <1>4, <2>4, <3>3 DEF Counted
  <2> QED
    BY <1>13, <2>3, <2>4 DEF Rejects, Hears
<1>14. CASE Rests
  <2>1. task' = task /\ ram' = ram /\ Busy' = Busy
    BY <1>14 DEF Rests, Busy
  <2>2. CASE Reads /\ down[1] = Ready
    <3>1. /\ Lead' = 0 /\ Seen' = Len(down) - 1 /\ Lead = 1
          /\ \A i \in DOMAIN down' : i + 1 \in DOMAIN down /\ down'[i] = down[i + 1]
      BY <2>2, SeenReads
    <3>2. Seen' = Seen
      BY <3>1 DEF Seen
    <3>3. \A i \in DOMAIN down' : down'[i] # Ready => down'[i] = Okay
      BY <1>3, <3>1
    <3> QED
      BY <1>1, <1>3, <1>4, <1>6, <2>1, <3>2, <3>3 DEF Counted
  <2>3. CASE down = <<>> /\ down' = <<Ready>>
    <3>1. Len(down) = 0 /\ Len(down') = 1 /\ down'[1] = Ready /\ down' # <<>> /\ \A i \in DOMAIN down' : down'[i] = Ready
      BY <2>3
    <3>2. Seen' = Seen
      BY <2>3, <3>1 DEF Seen, Lead
    <3> QED
      BY <1>1, <1>3, <1>4, <1>6, <2>1, <3>1, <3>2 DEF Counted
  <2> QED
    BY <1>8, <1>14, <2>1, <2>2, <2>3 DEF Rests
<1> QED
  BY <1>9, <1>10, <1>11, <1>12, <1>13, <1>14 DEF WriteAgent

LEMMA WindowAgent ==
  ASSUME TypeInv, ReadyFirst, off < Blocks, off' = off, acks' = acks, WriteAgent, WindowAt
  PROVE  WindowAt'
<1>0. /\ off \in Nat /\ WindowEnd \in Nat /\ Total \in Nat /\ WindowEnd' = WindowEnd /\ Total' = Total /\ Blocks \in Nat
  BY WindowNums
<1>1. Kept(off)'
  BY <1>0, RamKept DEF WindowAt, Kept
<1>2. acks' < Total'
  BY <1>0 DEF WindowAt
<1>3. WindowUp' /\ (task' # 0 => task' > off)
  <2>0. WindowUp /\ (task # 0 => task > off)
    BY DEF WindowAt
  <2>1. CASE Taken
    <3>1. WindowUp' /\ (up[1].kind = "write" => up[1].val \in (off + 1)..WindowEnd)
      BY <2>0, <2>1, WindowUpTaken
    <3>2. up[1].kind = "write" => up[1].val > off
      BY <1>0, <3>1
    <3> QED
      BY <2>0, <3>1, <3>2 DEF WriteAgent, TakesQuery, TakesRate, TakesHeader, TakesData, Accepts, Rejects, Rests
  <2>2. CASE up' = up
    <3>1. WindowUp'
      BY <1>0, <2>0, <2>2 DEF WindowUp
    <3>2. ~ TakesHeader
      <4>1. Taken => Len(up') # Len(up)
        BY NextUp
      <4> QED
        BY <2>2, <4>1 DEF TakesHeader
    <3> QED
      BY <2>0, <3>1, <3>2 DEF WriteAgent, TakesQuery, TakesRate, TakesData, Accepts, Rejects, Rests
  <2> QED
    BY <2>1, <2>2 DEF WriteAgent, TakesQuery, TakesRate, TakesHeader, TakesData, Accepts, Rejects, Rests
<1>4. AllIn' \/ Spoilt' \/ \E m \in off..WindowEnd : Counted(m)'
  <2>1. CASE AllIn
    BY <2>1, AllInAgent
  <2>2. CASE Spoilt
    <3>0. Okay # Ready /\ Okay \in DownPackets /\ Errors # Ready /\ Errors \in DownPackets
      BY DownKinds, DownTypes
    <3>1. CASE \E x \in DownPackets : x # Ready /\ Hears(x)
      BY <2>2, <3>1, SpoiltKept
    <3>2. CASE down' = down
      BY <3>0, <3>1, <3>2 DEF Hears
    <3>3. CASE Reads /\ down[1] = Ready
      BY <2>2, <3>3, SpoiltReads
    <3>4. down # <<>>
      BY <2>2 DEF Spoilt
    <3> QED
      BY <3>0, <3>1, <3>2, <3>3, <3>4 DEF WriteAgent, TakesQuery, TakesRate, TakesHeader, TakesData, Accepts, Rejects, Rests
  <2>3. CASE \E m \in off..WindowEnd : Counted(m)
    <3>1. PICK m \in off..WindowEnd : Counted(m)
      BY <2>3
    <3>2. WindowUp
      BY DEF WindowAt
    <3>3. CASE TakesHeader
      BY <3>1, <3>2, <3>3, CountedHeader
    <3>4. CASE ~ TakesHeader
      BY <3>1, <3>2, <3>4, CountedAgent
    <3> QED
      BY <3>3, <3>4
  <2> QED
    BY <2>1, <2>2, <2>3 DEF WindowAt
<1> QED
  BY <1>0, <1>1, <1>2, <1>3, <1>4 DEF WindowAt

---------------------------------------------------------------------------
(* write_memory: the host's steps.                                         *)

\* What has been sent arrives in the order in which it was sent.
LEMMA AddsOrder ==
  ASSUME NEW S, NEW q \in Seq(S), NEW s \in Seq(S), NEW r, Adds(q, r, s),
         NEW i \in (Len(q) + 1)..Len(r), NEW j \in (Len(q) + 1)..Len(r), i < j
  PROVE  \E k, l \in 1..Len(s) : k < l /\ r[i] = s[k] /\ r[j] = s[l]
<1>0. Len(q) \in Nat /\ Len(s) \in Nat
  OBVIOUS
<1>1. CASE r = q \o s
  <2>1. Len(r) = Len(q) + Len(s)
    BY <1>1
  <2>2. i - Len(q) \in 1..Len(s) /\ j - Len(q) \in 1..Len(s) /\ i - Len(q) < j - Len(q)
    BY <1>0, <2>1
  <2>3. r[i] = s[i - Len(q)] /\ r[j] = s[j - Len(q)]
    BY <1>0, <1>1, <2>1
  <2> QED
    BY <2>2, <2>3
<1>2. CASE \E m \in DOMAIN s : r = q \o Without(s, m)
  <2>1. PICK m \in DOMAIN s : r = q \o Without(s, m)
    BY <1>2
  <2> DEFINE w == Without(s, m)
  <2>2. /\ w \in Seq(S) /\ Len(w) = Len(s) - 1
        /\ \A k \in 1..(Len(s) - 1) : w[k] = IF k < m THEN s[k] ELSE s[k + 1]
    BY WithoutFacts
  <2>3. r = q \o w
    BY <2>1
  <2> HIDE DEF w
  <2>4. w \in Seq(S)
    BY <2>2
  <2>5. Len(r) = Len(q) + Len(w) /\ Len(w) \in Nat
    BY <2>3, <2>4
  <2>6. r[i] = w[i - Len(q)] /\ r[j] = w[j - Len(q)]
    BY <1>0, <2>3, <2>4, <2>5
  <2> DEFINE a == i - Len(q)
             b == j - Len(q)
  <2>7. a \in 1..(Len(s) - 1) /\ b \in 1..(Len(s) - 1) /\ a < b
    BY <1>0, <2>2, <2>5
  <2>8. w[a] = (IF a < m THEN s[a] ELSE s[a + 1]) /\ w[b] = (IF b < m THEN s[b] ELSE s[b + 1])
    BY <2>2, <2>7
  <2>9. m \in Nat
    OBVIOUS
  <2>10. r[i] = w[a] /\ r[j] = w[b]
    BY <2>6
  <2> HIDE DEF a, b
  <2>11. CASE b < m
    BY <1>0, <2>7, <2>8, <2>9, <2>10, <2>11
  <2>12. CASE a < m /\ ~ (b < m)
    BY <1>0, <2>7, <2>8, <2>9, <2>10, <2>12
  <2>13. CASE ~ (a < m)
    BY <1>0, <2>7, <2>8, <2>9, <2>10, <2>13
  <2> QED
    BY <2>11, <2>12, <2>13
<1>3. CASE r = q
  BY <1>0, <1>3
<1> QED
  BY <1>1, <1>2, <1>3 DEF Adds

\* The packets of a window are sent.
LEMMA IssueWindow ==
  ASSUME TypeInv, ReadyFirst, GoAt, Issues, Op = "write", off < Blocks, \A i \in DOMAIN up : up[i].kind \in {"info", "data"}
  PROVE  WindowAt'
<1>0. /\ UNCHANGED <<down, off, task, ram>> /\ acks' = 0 /\ Adds(up, up', WindowPackets)
  BY DEF Issues, Request, agentSide, agentVars
<1>1. /\ off \in Nat /\ WindowEnd \in Nat /\ off < WindowEnd /\ Total \in Nat /\ Total = 2 * (WindowEnd - off) /\ Total >= 1
      /\ WindowEnd' = WindowEnd /\ Total' = Total
  BY <1>0, WindowNums
<1>2. Kept(off)' /\ task' = 0 /\ task = 0
  BY <1>0 DEF GoAt, Kept
<1>3. up \in Seq(UpPackets) /\ down \in Seq(DownPackets)
  BY DEF TypeInv
<1>4. /\ WindowPackets \in Seq(UpPackets)
      /\ \A i \in 1..Len(WindowPackets) :
            /\ WindowPackets[i].kind \in {"write", "data"}
            /\ WindowPackets[i].kind = "write" => WindowPackets[i].val \in (off + 1)..WindowEnd
      /\ \A i, j \in 1..Len(WindowPackets) :
            i < j /\ WindowPackets[i].kind = "write" /\ WindowPackets[j].kind = "write" =>
              WindowPackets[i].val < WindowPackets[j].val
  BY <1>1, WindowPacketsFacts
<1> DEFINE s == WindowPackets
<1>5. s \in Seq(UpPackets) /\ Adds(up, up', s)
  BY <1>0, <1>4
<1>6. \A i \in 1..Len(s) : s[i].kind \in {"write", "data"} /\ (s[i].kind = "write" => s[i].val \in (off + 1)..WindowEnd)
  BY <1>4
<1>7. \A i, j \in 1..Len(s) : i < j /\ s[i].kind = "write" /\ s[j].kind = "write" => s[i].val < s[j].val
  BY <1>4
<1> HIDE DEF s
<1>8. /\ up' \in Seq(UpPackets) /\ Len(up) <= Len(up')
      /\ \A i \in 1..Len(up) : up'[i] = up[i]
      /\ \A i \in (Len(up) + 1)..Len(up') : \E k \in 1..Len(s) : up'[i] = s[k]
  BY <1>3, <1>5, AddsUp
<1>9. /\ Len(up) \in Nat /\ DOMAIN up = 1..Len(up)
  BY <1>3
<1>10. Len(up') \in Nat /\ DOMAIN up' = 1..Len(up')
  <2>1. up' \in Seq(UpPackets)
    BY <1>8
  <2> QED
    BY <2>1
<1>11. \A i \in DOMAIN up' : \/ i \in 1..Len(up) /\ up'[i].kind \in {"info", "data"}
                             \/ i \in (Len(up) + 1)..Len(up') /\ \E k \in 1..Len(s) : up'[i] = s[k]
  BY <1>8, <1>9, <1>10
<1>12. \A i \in DOMAIN up' : /\ up'[i].kind \in {"info", "data", "write"}
                             /\ up'[i].kind = "write" => up'[i].val \in (off + 1)..WindowEnd /\ i \in (Len(up) + 1)..Len(up')
  BY <1>6, <1>11
<1>13. \A i, j \in DOMAIN up' : i < j /\ up'[i].kind = "write" /\ up'[j].kind = "write" => up'[i].val < up'[j].val
  <2> SUFFICES ASSUME NEW i \in DOMAIN up', NEW j \in DOMAIN up', i < j, up'[i].kind = "write", up'[j].kind = "write"
               PROVE  up'[i].val < up'[j].val
    OBVIOUS
  <2>1. i \in (Len(up) + 1)..Len(up') /\ j \in (Len(up) + 1)..Len(up')
    BY <1>12
  <2>2. PICK k \in 1..Len(s), l \in 1..Len(s) : k < l /\ up'[i] = s[k] /\ up'[j] = s[l]
    BY <1>3, <1>5, <2>1, AddsOrder
  <2> QED
    BY <1>7, <2>2
<1>14. WindowUp'
  <2>1. off' = off
    BY <1>0
  <2> QED
    BY <1>1, <1>12, <1>13, <2>1 DEF WindowUp
<1>15. AllIn' \/ Spoilt' \/ \E m \in off'..WindowEnd' : Counted(m)'
  <2>0. /\ Lead \in 0..1 /\ Seen \in Nat /\ Seen = Len(down) - Lead /\ Len(down) \in Nat /\ DOMAIN down = 1..Len(down)
        /\ Lead' = Lead /\ Seen' = Seen /\ down' = down /\ off' = off
    BY <1>0, SeenFacts DEF Lead, Seen
  <2>1. CASE Quiet
    <3>1. Len(down) <= 1
      <4>1. 2 \in DOMAIN down => down[2] = Ready
        BY <2>1 DEF Quiet
      <4> QED
        BY <2>0, <4>1 DEF ReadyFirst
    <3>2. Seen = 0
      <4>1. CASE Len(down) = 0
        BY <2>0, <4>1
      <4>2. CASE Len(down) = 1
        <5>1. down[1] = Ready /\ down # <<>>
          BY <2>0, <2>1, <4>2 DEF Quiet
        <5> QED
          BY <2>0, <4>2, <5>1 DEF Lead
      <4> QED
        BY <2>0, <3>1, <4>1, <4>2
    <3>3. Busy' = 0
      BY <1>2 DEF Busy
    <3>4. Seen' = 0
      BY <2>0, <3>2
    <3>5. PICK m \in {off} : TRUE
      OBVIOUS
    <3>6. m = off /\ m \in off'..WindowEnd'
      BY <1>1, <2>0
    <3>7. Sum(m)' = Total'
      BY <1>0, <1>1, <3>3, <3>4, <3>6 DEF Sum
    <3>8. \A i \in DOMAIN up' : up'[i].kind = "write" => up'[i].val > m
      BY <1>1, <1>12, <3>6
    <3>9. \A i \in DOMAIN down' : down'[i] = Ready
      BY <2>0, <2>1 DEF Quiet
    <3>10. \A b \in 1..m : b # task' => ram'[b] = "new"
      BY <1>0, <3>6 DEF GoAt, Kept
    <3>11. Sum(m)' <= Total'
      BY <1>1, <3>7
    <3>12. Counted(m)'
      BY <1>2, <3>8, <3>9, <3>10, <3>11 DEF Counted
    <3> QED
      BY <3>6, <3>12
  <2>2. CASE ~ Quiet
    <3>1. PICK i \in DOMAIN down : down[i] # Ready
      BY <2>2 DEF Quiet
    <3>2. i \in 1..Len(down) /\ down # <<>>
      BY <2>0
    <3>3. Lead = IF down[1] = Ready THEN 1 ELSE 0
      BY <3>2 DEF Lead
    <3>4. PICK e \in {Lead + 1} : TRUE
      OBVIOUS
    <3>5. e \in DOMAIN down /\ down[e] # Ready /\ e - 1 - Lead = 0
      <4>1. CASE down[1] = Ready
        <5>1. Lead = 1 /\ e = 2 /\ i # 1
          BY <3>1, <3>3, <3>4, <4>1
        <5>2. 2 \in DOMAIN down
          BY <2>0, <3>2, <5>1
        <5>3. down[2] # Ready
          BY <5>2 DEF ReadyFirst
        <5> QED
          BY <5>1, <5>2, <5>3
      <4>2. CASE down[1] # Ready
        <5>1. Lead = 0 /\ e = 1
          BY <3>3, <3>4, <4>2
        <5> QED
          BY <2>0, <3>2, <4>2, <5>1
      <4> QED
        BY <4>1, <4>2
    <3>6. down[e] # Okay
      BY <3>5 DEF GoAt, NoOkay
    <3>7. e \in DOMAIN down' /\ down'[e] # Ready /\ down'[e] # Okay
      BY <2>0, <3>5, <3>6
    <3>8. acks' + e - 1 - Lead' < Total'
      <4>1. e \in Nat
        BY <2>0, <3>4
      <4> QED
        BY <1>0, <1>1, <2>0, <3>5, <4>1
    <3> QED
      BY <3>7, <3>8 DEF Spoilt
  <2> QED
    BY <2>1, <2>2
<1>16. acks' < Total' /\ (task' # 0 => task' > off')
  BY <1>0, <1>1, <1>2
<1> QED
  BY <1>2, <1>14, <1>15, <1>16 DEF WindowAt

\* The last ACK of a window is read: its blocks are in the RAM, and no other ACK is
\* under way.
LEMMA LastAck ==
  ASSUME TypeInv, ReadyFirst, WindowAt, off < Blocks, Reads, down[1] = Okay, acks + 1 = Total
  PROVE  AllIn /\ NoOkay'
<1>0. /\ off \in Nat /\ WindowEnd \in Nat /\ off < WindowEnd /\ Total \in Nat /\ acks \in Nat
  BY WindowNums DEF TypeInv
<1>1. /\ DOMAIN down' = 1..(Len(down) - 1) /\ Len(down) >= 1 /\ 1 \in DOMAIN down
      /\ \A i \in DOMAIN down' : i + 1 \in DOMAIN down /\ down'[i] = down[i + 1]
      /\ Lead = IF down[1] = Ready THEN 1 ELSE 0
  BY SeenReads
<1>2. Len(down) \in Nat /\ DOMAIN down = 1..Len(down) /\ Seen = Len(down) - Lead /\ Seen \in Nat
  BY SeenFacts
<1>3. Lead = 0
  BY <1>1, DownKinds
<1>4. ~ Spoilt
  <2> SUFFICES ASSUME NEW e \in DOMAIN down, down[e] # Ready, down[e] # Okay, acks + e - 1 - Lead < Total
               PROVE  FALSE
    BY DEF Spoilt
  <2>1. e \in 1..Len(down) /\ e # 1
    BY <1>2
  <2> QED
    BY <1>0, <1>3, <2>1
<1>5. ASSUME NEW m \in off..WindowEnd, Counted(m) PROVE AllIn
  <2>0. Len(down) >= 1 /\ Len(down) \in Nat /\ Seen = Len(down) /\ acks \in Nat
    <3>1. Len(down) >= 1
      BY <1>1
    <3> QED
      BY <1>0, <1>2, <1>3, <3>1
  <2>1. ~ (acks + Seen < Total)
    BY <2>0
  <2>2. WindowUp
    BY DEF WindowAt
  <2> QED
    BY <1>5, <2>1, <2>2, CountedFull
<1>6. AllIn
  BY <1>4, <1>5 DEF WindowAt
<1>7. NoOkay'
  <2> SUFFICES ASSUME NEW i \in DOMAIN down', down'[i] = Okay PROVE FALSE
    BY DEF NoOkay
  <2>1. i + 1 \in DOMAIN down /\ down[i + 1] = Okay /\ i \in 1..(Len(down) - 1)
    BY <1>1
  <2>2. acks + (i + 1) - Lead <= Total
    BY <1>6, <2>1 DEF AllIn
  <2> QED
    BY <1>0, <1>2, <1>3, <2>1, <2>2
<1> QED
  BY <1>6, <1>7

\* An ACK of a window is read, and not the last.
LEMMA MoreAcks ==
  ASSUME TypeInv, ReadyFirst, WindowAt, off < Blocks, Reads, down[1] = Okay, acks + 1 < Total,
         off' = off, acks' = acks + 1, UNCHANGED <<up, task, ram>>
  PROVE  WindowAt'
<1>0. /\ off \in Nat /\ WindowEnd \in Nat /\ off < WindowEnd /\ Total \in Nat /\ acks \in Nat
      /\ WindowEnd' = WindowEnd /\ Total' = Total
  BY WindowNums DEF TypeInv
<1>1. /\ DOMAIN down' = 1..(Len(down) - 1) /\ Len(down) >= 1 /\ 1 \in DOMAIN down /\ Lead' = 0 /\ Seen' = Len(down) - 1
      /\ \A i \in DOMAIN down' : i + 1 \in DOMAIN down /\ down'[i] = down[i + 1]
      /\ Lead = IF down[1] = Ready THEN 1 ELSE 0
  BY SeenReads
<1>2. Len(down) \in Nat /\ DOMAIN down = 1..Len(down) /\ Seen = Len(down) - Lead /\ Seen \in Nat /\ Busy \in 0..1
  BY SeenFacts
<1>3. Lead = 0
  BY <1>1, DownKinds
<1>4. Kept(off)' /\ acks' < Total' /\ (task' # 0 => task' > off')
  BY <1>0 DEF WindowAt, Kept
<1>5. WindowUp'
  BY <1>0 DEF WindowAt, WindowUp
<1>6. AllIn => AllIn'
  <2> SUFFICES ASSUME AllIn PROVE AllIn'
    OBVIOUS
  <2>1. Kept(WindowEnd)' /\ task' = 0 /\ NoHeader'
    BY <1>0 DEF AllIn, Kept, NoHeader
  <2>2. ASSUME NEW i \in DOMAIN down', down'[i] = Okay PROVE acks' + i - Lead' <= Total'
    <3>1. i + 1 \in DOMAIN down /\ down[i + 1] = Okay /\ i \in 1..(Len(down) - 1)
      BY <1>1, <2>2
    <3>2. acks + (i + 1) - Lead <= Total
      BY <3>1 DEF AllIn
    <3>3. Lead' = 0
      BY <1>1
    <3>4. i \in Nat
      BY <1>2, <3>1
    <3> QED
      BY <1>0, <1>3, <3>2, <3>3, <3>4
  <2> QED
    BY <2>1, <2>2 DEF AllIn
<1>7. Spoilt => Spoilt'
  BY SpoiltReads
<1>8. ASSUME NEW m \in off..WindowEnd, Counted(m) PROVE Counted(m)'
  <2>1. m \in Nat /\ Busy' = Busy
    BY <1>0 DEF Busy
  <2>4. Seen' = Len(down) - 1
    BY <1>1
  <2>5. Seen = Len(down) /\ Len(down) \in Nat
    BY <1>2, <1>3
  <2>6. acks' + Seen' = acks + Seen
    BY <1>0, <2>4, <2>5
  <2>7. Sum(m)' = acks' + Seen' + 2 * (WindowEnd' - m) + Busy' /\ Sum(m) = acks + Seen + 2 * (WindowEnd - m) + Busy
    BY DEF Sum
  <2>2. Sum(m)' = Sum(m)
    BY <1>0, <2>1, <2>6, <2>7
  <2>3. \A i \in DOMAIN down' : down'[i] # Ready => down'[i] = Okay
    BY <1>1, <1>8 DEF Counted
  <2> QED
    BY <1>0, <1>8, <2>2, <2>3 DEF Counted
<1>9. AllIn' \/ Spoilt' \/ \E m \in off'..WindowEnd' : Counted(m)'
  <2>1. CASE \E m \in off..WindowEnd : Counted(m)
    <3>1. PICK m \in off..WindowEnd : Counted(m)
      BY <2>1
    <3>2. Counted(m)' /\ m \in off'..WindowEnd'
      BY <1>0, <1>8, <3>1
    <3> QED
      BY <3>2
  <2> QED
    BY <1>6, <1>7, <2>1 DEF WindowAt
<1> QED
  BY <1>4, <1>5, <1>9 DEF WindowAt

LEMMA WindowReads ==
  ASSUME TypeInv, ReadyFirst, WindowAt, off < Blocks, WindowAck(Head(down)), Op = "write", UNCHANGED <<task, ram>>
  PROVE  \/ pc' = "drain" /\ DrainAt' /\ UNCHANGED <<step, claims>>
         \/ pc' = "window" /\ WindowAt' /\ UNCHANGED <<step, claims>>
         \/ pc' = "go" /\ GoAt' /\ UNCHANGED <<step, claims>>
         \/ Done /\ AllWritten'
<1>0. Reads /\ Head(down) = down[1] /\ UNCHANGED up /\ pc = "window"
  BY ReadsEffect DEF WindowAck
<1>1. IsAck(down[1]) <=> down[1] = Okay
  BY DEF IsAck, Okay
<1>2. Total = 2 * (WindowEnd - off)
  BY DEF Total
<1>3. CASE ~ IsAck(down[1]) /\ pc' = "drain" /\ UNCHANGED <<acks, off, step, claims>>
  <2>1. off \in Nat /\ WindowEnd \in Nat
    BY WindowNums
  <2>2. \A i \in DOMAIN up : up[i].kind = "write" => up[i].val > off
    BY <2>1 DEF WindowAt, WindowUp
  <2>3. DrainAt
    BY <2>2 DEF WindowAt, WindowUp, DrainAt
  <2> QED
    BY <1>0, <1>3, <2>3 DEF DrainAt, Kept
<1>4. CASE IsAck(down[1]) /\ acks + 1 < Total /\ acks' = acks + 1 /\ UNCHANGED <<pc, off, step, claims>>
  BY <1>0, <1>1, <1>4, MoreAcks
<1>5. CASE /\ IsAck(down[1]) /\ acks + 1 = Total /\ off' = WindowEnd
           /\ IF WindowEnd = Blocks THEN Done ELSE pc' = "go" /\ UNCHANGED <<step, claims>>
  <2>1. AllIn /\ NoOkay'
    BY <1>0, <1>1, <1>5, LastAck
  <2>2. Kept(WindowEnd) /\ task' = 0 /\ NoHeader'
    BY <1>0, <2>1 DEF AllIn, NoHeader
  <2>3. CASE WindowEnd = Blocks
    <3>1. Kept(Blocks)'
      BY <2>2, <2>3 DEF Kept
    <3>2. AllWritten'
      BY <2>2, <3>1 DEF AllWritten, NoHeader
    <3> QED
      BY <1>5, <2>3, <3>2
  <2>4. CASE WindowEnd # Blocks
    <3>1. Kept(off)'
      BY <1>5, <2>2 DEF Kept
    <3> QED
      BY <1>5, <2>1, <2>2, <2>4, <3>1 DEF GoAt
  <2> QED
    BY <2>3, <2>4
<1> QED
  BY <1>0, <1>2, <1>3, <1>4, <1>5 DEF WindowAck

\* A window that failed has been drained.
LEMMA DrainDone ==
  ASSUME TypeInv, DrainAt, Drain, late' = 0, transport = "port"
  PROVE  RetryAt'
<1>1. up = <<>> /\ up' = up /\ down' = <<>> /\ UNCHANGED <<off, task, ram>>
  <2>1. late \in Nat
    BY DEF TypeInv
  <2> QED
    BY <2>1 DEF Drain, agentVars
<1>2. NoOkay'
  <2>1. down' = <<>>
    BY <1>1
  <2> QED
    BY <2>1 DEF NoOkay
<1>3. NoHeader'
  <2>1. up' = <<>>
    BY <1>1
  <2> QED
    BY <2>1 DEF NoHeader
<1>4. Kept(off)' /\ (task' # 0 => task' > off' /\ up' = <<>>)
  BY <1>1 DEF DrainAt, Kept
<1> QED
  BY <1>2, <1>3, <1>4 DEF RetryAt

\* _write_block sends the header, its first ACK is read, and its second.
LEMMA RetrySends ==
  ASSUME TypeInv, RetryAt, Retries, off < Blocks
  PROVE  AckAt'
<1>0. down \in Seq(DownPackets) /\ up \in Seq(UpPackets) /\ off \in Nat
  BY DEF TypeInv
<1> DEFINE x == Packet("write", off + 1)
<1>1. x \in UpPackets /\ x.kind = "write" /\ x.val = off + 1
  <2>1. off + 1 \in 1..(Blocks + 1)
    BY <1>0, LinkAssumption
  <2> QED
    BY <2>1, UpTypes DEF Packet
<1>2. UNCHANGED <<off, task, ram>> /\ Shrinks /\ Adds(up, up', <<x>>)
  BY DEF Retries, agentSide, agentVars
<1> HIDE DEF x
<1>3. up' = up \/ up' = Append(up, x)
  BY <1>0, <1>1, <1>2, AddsOne
<1>4. NoOkay'
  BY <1>0, <1>2, FewerOkays DEF RetryAt
<1>5. \A i \in DOMAIN up' : (i \in DOMAIN up /\ up'[i] = up[i] /\ up[i].kind \notin {"write", "set_baud"}) \/ (i = Len(up') /\ up'[i] = x)
  <2>1. CASE up' = up
    BY <2>1 DEF RetryAt, NoHeader
  <2>2. CASE up' = Append(up, x)
    <3>1. Len(up') = Len(up) + 1 /\ \A i \in DOMAIN up' : (i \in DOMAIN up /\ up'[i] = up[i]) \/ (i = Len(up) + 1 /\ up'[i] = x)
      BY <1>0, <1>1, <2>2, AppendedUp
    <3> QED
      BY <3>1 DEF RetryAt, NoHeader
  <2> QED
    BY <1>3, <2>1, <2>2
<1>6. Kept(off)' /\ OneOkay'
  BY <1>2, <1>4 DEF RetryAt, Kept, OneOkay, NoOkay
<1>7. task' # 0 => task' > off' /\ \A i \in DOMAIN up' : up'[i].kind = "write"
  <2> SUFFICES ASSUME task # 0 PROVE task > off /\ \A i \in DOMAIN up' : up'[i].kind = "write"
    BY <1>2
  <2>1. task > off /\ up = <<>>
    BY DEF RetryAt
  <2>2. DOMAIN up = {}
    BY <2>1
  <2> QED
    BY <1>1, <1>5, <2>1, <2>2
<1>8. \A i \in DOMAIN up' : up'[i].kind # "set_baud"
  BY <1>1, <1>5
<1>9. \A i \in DOMAIN up' : up'[i].kind = "write" => i = Len(up') /\ up'[i].val = off' + 1 /\ NoOkay'
  BY <1>1, <1>2, <1>4, <1>5
<1> QED
  BY <1>4, <1>6, <1>7, <1>8, <1>9 DEF AckAt

LEMMA AckReads ==
  ASSUME TypeInv, AckAt, Continues, Op = "write", off < Blocks, down[1] = Okay
  PROVE  CrcAt'
<1>0. down \in Seq(DownPackets) /\ up \in Seq(UpPackets) /\ off \in Nat
  BY DEF TypeInv
<1>1. Reads /\ UNCHANGED <<off, task, ram>> /\ Adds(up, up', Tail(BlockPackets(off + 1)))
  BY DEF Continues, agentSide, agentVars
<1>2. 1 \in DOMAIN down
  BY <1>0, <1>1 DEF Reads
<1>3. ~ NoOkay
  BY <1>2 DEF NoOkay
<1>4. up = <<>> /\ task = off + 1 /\ OneOkay /\ Kept(off)
  BY <1>3 DEF AckAt
<1>5. NoOkay'
  BY <1>0, <1>1, <1>4, OkayRead
<1> DEFINE s == Tail(BlockPackets(off + 1))
<1>6. s \in Seq(UpPackets) /\ \A i \in 1..Len(s) : s[i].kind \in {"data"}
  <2>1. off + 1 \in 1..(Blocks + 1)
    BY <1>0, LinkAssumption
  <2> QED
    BY <2>1, BlockTail
<1>7. Adds(up, up', s)
  BY <1>1
<1> HIDE DEF s
<1>8. NewUp({"data"})
  BY <1>0, <1>6, <1>7, NewUpBy
<1>9. DOMAIN up = {}
  BY <1>4
<1>10. NoHeader'
  BY <1>8, <1>9 DEF NewUp, NoHeader
<1>11. Kept(off)' /\ OneOkay' /\ task' = off' + 1
  BY <1>1, <1>4, <1>5 DEF Kept, OneOkay, NoOkay
<1> QED
  BY <1>5, <1>10, <1>11 DEF CrcAt

LEMMA CrcReads ==
  ASSUME TypeInv, CrcAt, BlockCrc(Head(down)), Op = "write", off < Blocks, UNCHANGED <<task, ram>>
  PROVE  \/ pc' = "closed" /\ UNCHANGED <<step, claims>>
         \/ pc' = "retry" /\ RetryAt' /\ UNCHANGED <<step, claims>>
         \/ pc' = "go" /\ GoAt' /\ UNCHANGED <<step, claims>>
         \/ Done /\ AllWritten'
<1>0. down \in Seq(DownPackets) /\ off \in Nat /\ ram \in [1..Blocks -> {"other", "new"}]
  BY DEF TypeInv
<1>1. Reads /\ Head(down) = down[1] /\ UNCHANGED up
  BY ReadsEffect DEF BlockCrc
<1>2. CASE ~ IsAck(Head(down))
  BY <1>2 DEF BlockCrc, Failed
<1>3. CASE IsAck(Head(down))
  <2>1. down[1] = Okay
    BY <1>1, <1>3 DEF IsAck, Okay
  <2>2. 1 \in DOMAIN down
    BY <1>0, <1>1 DEF Reads
  <2>3. ~ NoOkay
    BY <2>1, <2>2 DEF NoOkay
  <2>4. OneOkay /\ NoHeader /\ task = 0 /\ Kept(off) /\ ram[off + 1] = "new"
    BY <2>3 DEF CrcAt
  <2>5. NoOkay'
    BY <1>0, <1>1, <2>1, <2>4, OkayRead
  <2>6. /\ off' = off + 1
        /\ IF off + 1 < acks THEN pc' = "retry" /\ UNCHANGED <<step, claims>>
           ELSE IF off + 1 = Blocks THEN Done ELSE pc' = "go" /\ UNCHANGED <<step, claims>>
    BY <1>3 DEF BlockCrc
  <2>7. \A b \in 1..(off + 1) : ram'[b] = "new"
    BY <1>0, <2>4 DEF Kept
  <2>8. Kept(off)' /\ task' = 0 /\ NoHeader'
    BY <1>1, <2>4, <2>6, <2>7 DEF Kept, NoHeader
  <2>9. RetryAt' /\ GoAt'
    BY <2>5, <2>8 DEF RetryAt, GoAt
  <2>10. off + 1 = Blocks => AllWritten'
    BY <2>7, <2>8 DEF AllWritten, Kept, NoHeader
  <2> QED
    BY <2>6, <2>9, <2>10
<1> QED
  BY <1>2, <1>3

\* What is received while agent write runs.
LEMMA WriteListens ==
  ASSUME TypeInv, PlaceInv, Listens, cmd = "write", ~ UNCHANGED hostVars
  PROVE  \/ pc' = "closed" /\ step' = step /\ claims' \subseteq claims \cup {"verify"}
         \/ pc = "baud_verify" /\ pc' = "go" /\ UNCHANGED <<step, claims, off>>
         \/ Op = "write" /\ rcvFrame /\ WindowAck(Head(down))
         \/ pc = "window" /\ pc' = "drain" /\ UNCHANGED <<step, claims, off, acks, up>>
         \/ Op = "write" /\ Drain
         \/ Op = "write" /\ rcvFrame /\ BlockCrc(Head(down))
<1>0. CmdIs /\ OpIs /\ cmd \in Commands /\ step \in 1..Len(Script(cmd))
  BY OpTable DEF TypeInv
<1>1. step \in {1, 2} /\ (step = 1 => Op = "write") /\ (step = 2 => Op = "verify") /\ Len(Script(cmd)) = 2
  BY <1>0 DEF CmdIs
<1>3. Op \in {"write", "verify"} /\ (Op = "verify" => step = 2)
  BY <1>1
<1>4. CASE rcvFrame /\ VerifyBaud(Head(down))
  BY <1>4 DEF VerifyBaud
<1>5. CASE rcvFrame /\ Answered(Head(down))
  <2>1. Op = "verify" /\ step = 2 /\ (Done \/ Failed)
    BY <1>3, <1>5 DEF Answered, PlaceInv
  <2>2. Done => pc' = "closed" /\ step' = step /\ claims' = claims \cup {"verify"}
    BY <1>1, <2>1 DEF Done
  <2> QED
    BY <2>1, <2>2 DEF Failed
<1>6. CASE Timeout
  <2>1. \/ pc = "baud_verify" /\ pc' = "go" /\ UNCHANGED <<step, claims, off>>
        \/ pc = "window" /\ pc' = "drain" /\ UNCHANGED <<step, claims, off, acks, up>>
        \/ pc = "compat_crc" \/ (pc = "answer" /\ Op = "reboot")
        \/ Failed
    BY <1>6 DEF Timeout
  <2> QED
    BY <1>3, <2>1 DEF Failed, PlaceInv
<1>7. ~ SkipReady /\ ~ DumpSkip
  BY <1>3 DEF SkipReady, hostVars, hostRest, DumpSkip
<1>8. CASE rcvFrame /\ (WindowAck(Head(down)) \/ BlockCrc(Head(down)))
  BY <1>3, <1>8 DEF PlaceInv, WindowAck, BlockCrc
<1>9. CASE Drain
  BY <1>3, <1>9 DEF PlaceInv, Drain
<1>10. ~ ReadStream(Head(down)) /\ ~ EraseAck(Head(down)) /\ ~ ScanAnswer(Head(down)) /\ ~ CompatAnswer(Head(down))
  BY <1>3 DEF ReadStream, EraseAck, ScanAnswer, CompatAnswer, CompatResult, PlaceInv
<1> QED
  BY <1>4, <1>5, <1>6, <1>7, <1>8, <1>9, <1>10 DEF Listens

\* What has been written stays written: neither the agent nor crc32 changes it.
LEMMA WrittenAgent ==
  ASSUME TypeInv, WriteAgent, AllWritten
  PROVE  AllWritten'
<1>0. Blocks \in Nat /\ up \in Seq(UpPackets)
  BY LinkAssumption DEF TypeInv
<1>1. Kept(Blocks)'
  BY <1>0, RamKept DEF AllWritten, Kept
<1>2. CASE Taken
  <2>1. 1 \in DOMAIN up /\ \A i \in DOMAIN up' : i + 1 \in DOMAIN up /\ up'[i] = up[i + 1]
    BY <1>2, NextUp
  <2>2. up[1].kind # "write"
    BY <2>1 DEF AllWritten
  <2>3. task' = 0
    BY <2>2 DEF AllWritten, WriteAgent, TakesQuery, TakesRate, TakesHeader, TakesData, Accepts, Rejects, Rests
  <2> QED
    BY <1>1, <2>1, <2>3 DEF AllWritten
<1>3. CASE up' = up /\ ~ Taken
  <2>1. task' = 0
    BY <1>3 DEF AllWritten, WriteAgent, TakesQuery, TakesRate, TakesHeader, TakesData, Accepts, Rejects, Rests
  <2> QED
    BY <1>1, <1>3, <2>1 DEF AllWritten
<1> QED
  BY <1>2, <1>3 DEF WriteAgent, TakesQuery, TakesRate, TakesHeader, TakesData, Accepts, Rejects, Rests

LEMMA WrittenHost ==
  ASSUME TypeInv, PlaceInv, FoundInv, OffInv, DumpInv, AllWritten, Works, ~ UNCHANGED hostVars, cmd = "write", step = 2
  PROVE  AllWritten' /\ step' # 1
<1>0. CmdIs /\ cmd \in Commands /\ step \in 1..Len(Script(cmd))
  BY OpTable DEF TypeInv
<1>1. Op = "verify" /\ Len(Script(cmd)) = 2
  BY <1>0 DEF CmdIs
<1>2. up \in Seq(UpPackets)
  BY DEF TypeInv
<1>3. UNCHANGED <<task, ram>> /\ (Requests \/ up' = up)
  BY HostLeavesAlone
<1>4. step' # 1
  <2>1. Proceeds \/ UNCHANGED hostVars
    BY WorkEffect
  <2> QED
    BY <1>1, <2>1 DEF Proceeds, Done
<1>5. NewUp({"set_baud", "info", "crc"})
  <2>1. CASE up' = up
    BY <2>1 DEF NewUp
  <2>2. CASE Switches \/ Turns
    BY <2>2, HostKinds DEF NewUp
  <2>3. CASE Issues
    <3>1. pc = "go" /\ Op # "write_flash"
      BY <2>3 DEF Issues
    <3>2. up' = up \/ up' = Append(up, Asked)
      BY <1>1, <2>3, IssueOne
    <3>3. Asked \in UpPackets
      BY <1>1, <3>1, AskedFacts
    <3>4. Asked.kind = "crc"
      BY <1>1 DEF Asked, Packet
    <3> QED
      BY <1>2, <3>2, <3>3, <3>4, NewUpOne
  <2>4. ~ Continues /\ ~ Asks /\ ~ Retries
    BY <1>1 DEF Continues, Asks, Retries, PlaceInv
  <2> QED
    BY <1>3, <2>1, <2>2, <2>3, <2>4 DEF Requests
<1> QED
  BY <1>3, <1>4, <1>5 DEF AllWritten, Kept, NewUp

\* Every step keeps what write_memory counts on.
LEMMA WriteStep ==
  ASSUME TypeInv, PlaceInv, ClaimInv, ConnectInv, FoundInv, OffInv, DumpInv, MineInv, BufInv, ReadyFirst, AliveInv,
         VerifyInv, SwitchInv, WriteInv, [Next]_vars
  PROVE  WriteInv'
<1>1. CASE Fresh
  <2>1. pc' = "run" /\ claims' = {}
    BY <1>1 DEF Fresh
  <2> QED
    BY <2>1 DEF WriteInv
<1>2. CASE Works /\ Mine
  <2> SUFFICES ASSUME cmd' = "write", Mine', late' = 0, transport' = "port"
               PROVE  /\ "write" \in claims' => AllWritten'
                      /\ step' = 1 /\ pc' = "go" => GoAt'
                      /\ step' = 1 /\ pc' = "window" => WindowAt'
                      /\ step' = 1 /\ pc' = "drain" => DrainAt'
                      /\ step' = 1 /\ pc' = "retry" => RetryAt'
                      /\ step' = 1 /\ pc' = "block_ack" => AckAt'
                      /\ step' = 1 /\ pc' = "block_crc" => CrcAt'
    BY DEF WriteInv
  <2>0. cmd = "write" /\ cmd' = cmd /\ transport = "port" /\ late' \in Nat /\ late' >= late
    BY <1>2, WorkEffect
  <2>1. late = 0
    <3>1. late \in Nat
      BY DEF TypeInv
    <3> QED
      BY <2>0, <3>1
  <2>2. CmdIs /\ OpIs /\ cmd \in Commands /\ step \in 1..Len(Script(cmd))
    BY OpTable DEF TypeInv
  <2>3. step \in {1, 2} /\ (step = 1 => Op = "write") /\ (step = 2 => Op = "verify") /\ Len(Script(cmd)) = 2
    BY <2>0, <2>2 DEF CmdIs
  <2>4. /\ "write" \in claims => AllWritten
        /\ step = 1 /\ pc = "go" => GoAt
        /\ step = 1 /\ pc = "window" => WindowAt
        /\ step = 1 /\ pc = "drain" => DrainAt
        /\ step = 1 /\ pc = "retry" => RetryAt
        /\ step = 1 /\ pc = "block_ack" => AckAt
        /\ step = 1 /\ pc = "block_crc" => CrcAt
    BY <1>2, <2>0, <2>1 DEF WriteInv
  <2>5. step = 1 /\ pc \in {"go", "window", "drain", "retry", "block_ack", "block_crc"} => off < Blocks
    BY <2>0 DEF OffInv
  <2>6. CASE UNCHANGED hostVars
    <3>1. WriteAgent
      BY <1>2, <2>0, <2>6, WriteAgentSteps
    <3>2. UNCHANGED <<pc, step, off, acks, claims>>
      BY <2>6 DEF hostVars
    <3>3. AllWritten => AllWritten'
      BY <3>1, WrittenAgent
    <3>4. step = 1 /\ pc = "go" => GoAt'
      BY <2>4, <2>5, <3>1, <3>2, GoAgent
    <3>5. step = 1 /\ pc = "window" => WindowAt'
      BY <2>4, <2>5, <3>1, <3>2, WindowAgent
    <3>6. step = 1 /\ pc = "drain" => DrainAt'
      BY <2>4, <2>5, <3>1, <3>2, DrainAgent
    <3>7. step = 1 /\ pc = "retry" => RetryAt'
      BY <2>4, <2>5, <3>1, <3>2, RetryAgent
    <3>8. step = 1 /\ pc = "block_ack" => AckAt'
      BY <2>4, <2>5, <3>1, <3>2, AckAgent
    <3>9. step = 1 /\ pc = "block_crc" => CrcAt'
      BY <2>4, <2>5, <3>1, <3>2, CrcAgent
    <3> QED
      BY <2>4, <3>2, <3>3, <3>4, <3>5, <3>6, <3>7, <3>8, <3>9
  <2>7. CASE ~ UNCHANGED hostVars /\ step = 2
    <3>1. "write" \in claims
      <4>1. Script("write")[1] = "write"
        BY ScriptTable
      <4> QED
        BY <2>0, <2>7, <4>1 DEF ClaimInv
    <3>2. AllWritten' /\ step' # 1
      BY <1>2, <2>0, <2>4, <2>7, <3>1, WrittenHost
    <3> QED
      BY <3>2
  <2>8. CASE ~ UNCHANGED hostVars /\ step = 1
    <3>0. Op = "write" /\ UNCHANGED <<task, ram>>
      BY <1>2, <2>3, <2>8, HostLeavesAlone
    <3>1. "write" \notin claims
      <4>1. pc # "closed"
        BY <1>2, <2>8, WorkEffect
      <4> QED
        BY <3>0, <4>1, NotYet
    <3>2. SwitchAt
      BY <2>0, <2>8 DEF SwitchInv, Early
    <3>3. Done => step' = 2
      BY <2>3, <2>8 DEF Done
    <3>4. CASE Done /\ AllWritten'
      BY <3>3, <3>4
    <3>5. CASE pc' \in {"closed", "run", "baud", "baud_verify"} /\ "write" \notin claims'
      BY <3>5
    <3>6. CASE pc' = "go" /\ off' = 0 /\ UNCHANGED <<step, claims>>
      <4>1. SwitchAt'
        <5>1. SwitchInv'
          BY SwitchStep
        <5> QED
          BY <2>8, <3>6, <5>1 DEF SwitchInv, Early
      <4>2. task' = 0 /\ Quiet' /\ \A i \in DOMAIN up' : late' > 0
        BY <3>6, <4>1 DEF SwitchAt
      <4>3. \A i \in DOMAIN up' : FALSE
        BY <4>2
      <4>4. NoOkay'
        BY <4>2, DownKinds DEF Quiet, NoOkay
      <4>5. Kept(off)'
        BY <3>6 DEF Kept
      <4>6. GoAt'
        BY <4>2, <4>3, <4>4, <4>5 DEF GoAt, NoHeader
      <4> QED
        BY <3>1, <3>6, <4>6
    <3>7. CASE Listens
      <4>1. CASE pc = "baud_verify" /\ pc' = "go" /\ UNCHANGED <<step, claims, off>>
        <5>1. off = 0
          BY <3>2, <4>1 DEF SwitchAt
        <5> QED
          BY <3>6, <4>1, <5>1
      <4>2. CASE pc' = "closed" /\ step' = step /\ claims' \subseteq claims \cup {"verify"}
        BY <3>1, <3>5, <4>2
      <4>3. CASE rcvFrame /\ WindowAck(Head(down))
        <5>1. pc = "window"
          BY <4>3 DEF WindowAck
        <5>2. \/ pc' = "drain" /\ DrainAt' /\ UNCHANGED <<step, claims>>
              \/ pc' = "window" /\ WindowAt' /\ UNCHANGED <<step, claims>>
              \/ pc' = "go" /\ GoAt' /\ UNCHANGED <<step, claims>>
              \/ Done /\ AllWritten'
          BY <2>4, <2>5, <2>8, <3>0, <4>3, <5>1, WindowReads
        <5> QED
          BY <3>1, <3>4, <5>2
      <4>4. CASE pc = "window" /\ pc' = "drain" /\ UNCHANGED <<step, claims, off, acks, up>>
        <5>1. WindowAt /\ off < Blocks
          BY <2>4, <2>5, <2>8, <4>4
        <5>2. off \in Nat /\ WindowEnd \in Nat
          BY <5>1, WindowNums
        <5>3. \A i \in DOMAIN up : up[i].kind = "write" => up[i].val > off
          BY <5>1, <5>2 DEF WindowAt, WindowUp
        <5>4. DrainAt
          BY <5>1, <5>3 DEF WindowAt, WindowUp, DrainAt
        <5>5. DrainAt'
          BY <3>0, <4>4, <5>4 DEF DrainAt, Kept
        <5> QED
          BY <3>1, <4>4, <5>5
      <4>5. CASE Drain
        <5>1. pc = "drain" /\ pc' = "retry" /\ UNCHANGED <<step, claims>>
          BY <4>5 DEF Drain
        <5>2. RetryAt'
          BY <2>0, <2>4, <2>8, <4>5, <5>1, DrainDone
        <5> QED
          BY <3>1, <5>1, <5>2
      <4>6. CASE rcvFrame /\ BlockCrc(Head(down))
        <5>1. pc = "block_crc"
          BY <4>6 DEF BlockCrc
        <5>2. \/ pc' = "closed" /\ UNCHANGED <<step, claims>>
              \/ pc' = "retry" /\ RetryAt' /\ UNCHANGED <<step, claims>>
              \/ pc' = "go" /\ GoAt' /\ UNCHANGED <<step, claims>>
              \/ Done /\ AllWritten'
          BY <2>4, <2>5, <2>8, <3>0, <4>6, <5>1, CrcReads
        <5> QED
          BY <3>1, <3>4, <5>2
      <4> QED
        BY <2>0, <2>8, <3>7, <4>1, <4>2, <4>3, <4>4, <4>5, <4>6, WriteListens
    <3>8. CASE Switches
      <4>1. UNCHANGED <<step, claims>> /\ off' = 0 /\ pc' \in {"baud", "go"}
        BY <3>0, <3>8 DEF Switches
      <4> QED
        BY <3>1, <3>5, <3>6, <4>1
    <3>9. CASE Turns
      <4>1. UNCHANGED <<step, claims, off>> /\ pc = "baud" /\ pc' \in {"baud_verify", "go"}
        BY <3>9 DEF Turns
      <4>2. off = 0
        BY <3>2, <4>1 DEF SwitchAt
      <4> QED
        BY <3>1, <3>5, <3>6, <4>1, <4>2
    <3>10. CASE Issues
      <4>1. pc = "go" /\ pc' = "window" /\ UNCHANGED <<step, claims>>
        BY <3>0, <3>10 DEF Issues, Waits
      <4>2. GoAt /\ off < Blocks
        BY <2>4, <2>5, <2>8, <4>1
      <4>3. \A i \in DOMAIN up : up[i].kind \in {"info", "data"}
        <5>1. \A i \in DOMAIN up : up[i].kind \in {"info", "set_baud", "write", "data", "crc"}
          BY <1>2, <2>0 DEF MineInv, Sends
        <5>2. \A i \in DOMAIN up : up[i].kind # "crc"
          BY <1>2, <2>0, <2>8 DEF VerifyInv
        <5> QED
          BY <4>2, <5>1, <5>2 DEF GoAt, NoHeader
      <4>4. WindowAt'
        BY <3>0, <3>10, <4>2, <4>3, IssueWindow
      <4> QED
        BY <3>1, <4>1, <4>4
    <3>11. CASE Continues
      <4>1. pc = "block_ack" /\ UNCHANGED <<step, claims>> /\ (pc' = "closed" \/ (pc' = "block_crc" /\ down[1] = Okay))
        BY <3>11 DEF Continues
      <4>2. down[1] = Okay => CrcAt'
        BY <2>4, <2>5, <2>8, <3>0, <3>11, <4>1, AckReads
      <4> QED
        BY <3>1, <4>1, <4>2
    <3>12. CASE Retries
      <4>1. pc = "retry" /\ pc' = "block_ack" /\ UNCHANGED <<step, claims>>
        BY <3>12 DEF Retries
      <4>2. AckAt'
        BY <2>4, <2>5, <2>8, <3>12, <4>1, RetrySends
      <4> QED
        BY <3>1, <4>1, <4>2
    <3>13. ~ Asks /\ ~ WriteFlash
      BY <3>0 DEF Asks, WriteFlash, PlaceInv
    <3> QED
      BY <1>2, <2>8, <3>7, <3>8, <3>9, <3>10, <3>11, <3>12, <3>13, HostLeavesAlone DEF Works, vars
  <2> QED
    BY <2>3, <2>6, <2>7, <2>8
<1>3. CASE ~ Mine'
  BY <1>3 DEF WriteInv
<1> QED
  BY <1>1, <1>2, <1>3, MineStep

---------------------------------------------------------------------------
(* The inductive invariant.                                                *)

Inv ==
  /\ TypeInv /\ PlaceInv /\ ClaimInv /\ ConnectInv /\ ReadyFirst /\ ReadyMeansIdle
  /\ MineInv /\ AliveInv /\ FoundInv /\ OffInv /\ GotInv /\ BufInv
  /\ ReadInv /\ VerifyInv /\ EraseInv /\ FlashInv /\ RebootInv
  /\ SwitchInv /\ ScanInv /\ CompatInv /\ DumpInv /\ WriteInv

LEMMA InitInv == Init => Inv
<1> SUFFICES ASSUME Init PROVE Inv
  OBVIOUS
<1>1. /\ alive = TRUE /\ old \in BOOLEAN /\ rate = "slow" /\ task = 0 /\ stash = 0 /\ hostRate = "slow"
      /\ cmd = "info" /\ step = 1 /\ pc = "closed" /\ off = 0 /\ acks = 0 /\ claims = {}
      /\ sessions = 0 /\ faults = 0 /\ late = 0 /\ transport \in {"port", "rack", "tcp"}
  BY LinkAssumption DEF Init
<1>2. up = <<>> /\ down = <<>> /\ got = <<>> /\ found = <<>> /\ buf = <<>>
  BY DEF Init
<1>3. DOMAIN up = {} /\ DOMAIN down = {} /\ DOMAIN got = {}
  BY <1>2
<1>4. Len(buf) = 0 /\ Len(found) = 0 /\ Len(down) = 0 /\ Len(got) = 0
  BY <1>2
<1>5. up \in Seq(UpPackets) /\ down \in Seq(DownPackets) /\ got \in Seq(Contents \cup {"", "ff"})
  BY <1>2
<1>6. found \in Seq(Contents \cup {"header", "read_error"}) /\ buf \in Seq(Chunk)
  BY <1>2
<1>7. ram \in [1..Blocks -> {"other", "new"}] /\ flash \in [1..Sectors -> Contents]
  BY InitialAssumption DEF Init, Contents
<1>8. Len(buf) <= Chunks /\ Len(found) <= Sectors
  BY <1>4, LinkAssumption
<1>9. cmd \in Commands /\ step \in 1..Len(Script(cmd)) /\ pc \in Places
  <2>1. Len(Script("info")) = 1
    BY ScriptTable
  <2> QED
    BY <1>1, <2>1 DEF Commands, Places
<1>10. task \in 0..(Blocks + 1) /\ faults \in 0..MaxFaults /\ stash \in 0..Len(down)
  BY <1>1, <1>4, LinkAssumption
<1>11. TypeInv
  <2>1. rate \in Rates /\ hostRate \in Rates /\ alive \in BOOLEAN /\ off \in Nat /\ acks \in Nat
    BY <1>1 DEF Rates
  <2>2. claims \subseteq Operations /\ sessions \in Nat /\ late \in Nat
    BY <1>1
  <2> QED
    BY <1>1, <1>5, <1>6, <1>7, <1>8, <1>9, <1>10, <2>1, <2>2, Zenon DEF TypeInv
<1>12. PlaceInv /\ OffInv /\ GotInv
  BY <1>1, <1>2 DEF PlaceInv, OffInv, GotInv
<1>13. ClaimInv
  BY <1>1 DEF ClaimInv
<1>14. ~ Mine
  BY <1>1 DEF Mine
<1>15. /\ MineInv /\ AliveInv /\ ReadInv /\ VerifyInv /\ EraseInv /\ FlashInv /\ ScanInv /\ CompatInv /\ DumpInv /\ WriteInv
  BY <1>14 DEF MineInv, AliveInv, ReadInv, VerifyInv, EraseInv, FlashInv, ScanInv, CompatInv, DumpInv, WriteInv
<1>16. ConnectInv /\ ReadyFirst /\ ReadyMeansIdle /\ RebootInv
  BY <1>1, <1>3 DEF ConnectInv, ReadyFirst, ReadyMeansIdle, RebootInv
<1>17. SwitchInv /\ BufInv
  BY <1>1 DEF SwitchInv, Early, BufInv
<1>18. FoundInv
  BY <1>1, <1>8 DEF FoundInv
<1> QED
  BY <1>11, <1>12, <1>13, <1>15, <1>16, <1>17, <1>18 DEF Inv

LEMMA InvStep == Inv /\ [Next]_vars => Inv'
<1> SUFFICES ASSUME Inv, [Next]_vars PROVE Inv'
  OBVIOUS
<1>1. /\ TypeInv /\ PlaceInv /\ ClaimInv /\ ConnectInv /\ ReadyFirst /\ ReadyMeansIdle
      /\ MineInv /\ AliveInv /\ FoundInv /\ OffInv /\ GotInv /\ BufInv
      /\ ReadInv /\ VerifyInv /\ EraseInv /\ FlashInv /\ RebootInv
      /\ SwitchInv /\ ScanInv /\ CompatInv /\ DumpInv /\ WriteInv
  BY DEF Inv
<1>2. TypeInv'
  BY <1>1, TypeStep
<1>3. PlaceInv'
  BY <1>1, PlaceStep
<1>4. ClaimInv'
  BY <1>1, ClaimStep
<1>5. ConnectInv'
  BY <1>1, ConnectStep
<1>6. ReadyFirst'
  BY <1>1, ReadyFirstStep
<1>7. ReadyMeansIdle'
  BY <1>1, IdleStep
<1>8. MineInv'
  BY <1>1, MineInvStep
<1>9. AliveInv'
  BY <1>1, AliveStep
<1>10. FoundInv'
  BY <1>1, FoundStep
<1>11. OffInv'
  BY <1>1, OffStep
<1>12. GotInv'
  BY <1>1, GotStep
<1>13. BufInv'
  BY <1>1, BufStep
<1>14. ReadInv'
  BY <1>1, ReadStep
<1>15. VerifyInv'
  BY <1>1, VerifyStep
<1>16. EraseInv'
  BY <1>1, EraseStep
<1>17. FlashInv'
  BY <1>1, FlashStep
<1>18. RebootInv'
  BY <1>1, RebootStep
<1>19. SwitchInv'
  BY <1>1, SwitchStep
<1>20. ScanInv'
  BY <1>1, ScanStep
<1>21. CompatInv'
  BY <1>1, CompatStep
<1>22. DumpInv'
  BY <1>1, DumpStep
<1>23. WriteInv'
  BY <1>1, WriteStep
<1> QED
  BY <1>2, <1>3, <1>4, <1>5, <1>6, <1>7, <1>8, <1>9, <1>10, <1>11, <1>12, <1>13, <1>14, <1>15, <1>16, <1>17,
     <1>18, <1>19, <1>20, <1>21, <1>22, <1>23 DEF Inv

\* The conjunction of the parts above holds in every state of every behaviour:
\* all the theorems below are read off it.
THEOREM Invariance == Spec => []Inv
<1>1. Init => Inv
  BY InitInv
<1>2. Inv /\ [Next]_vars => Inv'
  BY InvStep
<1> QED
  BY <1>1, <1>2, PTL DEF Spec

---------------------------------------------------------------------------
(* What the commands report.                                               *)

\* Which command an operation that has returned success belongs to.
LEMMA ClaimedBy ==
  ASSUME TypeInv, ClaimInv
  PROVE  /\ "read" \in claims => cmd = "read"
         /\ "write" \in claims => cmd = "write"
         /\ "erase" \in claims => cmd = "erase"
         /\ "scan" \in claims \/ "dump" \in claims => cmd = "scan"
<1> DEFINE of(c) == {Script(c)[i] : i \in 1..Len(Script(c))}
<1>1. cmd \in Commands /\ step \in 1..Len(Script(cmd))
  BY DEF TypeInv
<1>2. \A x \in claims : x \in of(cmd)
  <2> SUFFICES ASSUME NEW x \in claims PROVE x \in of(cmd)
    OBVIOUS
  <2>1. PICK i \in 1..step : Script(cmd)[i] = x
    BY DEF ClaimInv
  <2>2. Len(Script(cmd)) \in Nat
    BY <1>1, ScriptTable DEF Commands
  <2>3. i \in 1..Len(Script(cmd))
    BY <1>1, <2>2
  <2> QED
    BY <2>1, <2>3
<1>3. /\ of("info") \subseteq {"info"} /\ of("upload") \subseteq {"info"} /\ of("write") \subseteq {"write", "verify"}
  BY ScriptTable
<1>4. of("read") \subseteq {"info", "read", "verify"} /\ of("scan") \subseteq {"info", "scan", "dump"}
  BY ScriptTable
<1>5. \A c \in Flashes : of(c) \subseteq {"info", "write_flash", "verify", "reboot"}
  <2>1. of("flash") \subseteq {"info", "write_flash", "verify", "reboot"}
    BY ScriptTable
  <2>2. of("flash_unverified") \subseteq {"info", "write_flash", "reboot"}
    <3>1. \A i \in 1..3 : i = 1 \/ i = 2 \/ i = 3
      OBVIOUS
    <3>2. Len(Script("flash_unverified")) = 3 /\ Script("flash_unverified")[1] = "info"
          /\ Script("flash_unverified")[2] = "write_flash" /\ Script("flash_unverified")[3] = "reboot"
      BY ScriptTable
    <3> QED
      BY <3>1, <3>2
  <2> HIDE DEF of
  <2> QED
    BY <2>1, <2>2 DEF Flashes
<1>6. \A c \in {"membw", "erase", "mark_bad", "selfupdate"} : of(c) \subseteq {c}
  BY ScriptTable
<1> HIDE DEF of
<1> QED
  BY <1>1, <1>2, <1>3, <1>4, <1>5, <1>6 DEF Commands, Flashes

LEMMA InvSuccess ==
  ASSUME Inv
  PROVE  SuccessIsTrue
<1>0. TypeInv /\ ClaimInv /\ ReadInv /\ WriteInv /\ VerifyInv /\ EraseInv
  BY DEF Inv
<1>1. claims # {} => Mine
  BY DEF Mine
<1>2. "read" \in claims => got = flash
  <2> SUFFICES ASSUME "read" \in claims PROVE got = flash
    OBVIOUS
  <2>1. cmd = "read" /\ Mine
    BY <1>0, <1>1, ClaimedBy
  <2>2. Len(got) = Sectors /\ \A i \in 1..Len(got) : got[i] = flash[i]
    BY <1>0, <2>1 DEF ReadInv
  <2>3. got \in Seq(GotVals) /\ flash \in [1..Sectors -> Contents]
    BY <1>0 DEF TypeInv, GotVals
  <2>4. DOMAIN got = 1..Len(got) /\ got = [i \in DOMAIN got |-> got[i]]
    BY <2>3
  <2>5. DOMAIN flash = 1..Sectors /\ flash = [i \in DOMAIN flash |-> flash[i]]
    BY <2>3
  <2> QED
    BY <2>2, <2>4, <2>5
<1>3. "write" \in claims /\ late = 0 /\ transport = "port" => ram = Written
  <2> SUFFICES ASSUME "write" \in claims, late = 0, transport = "port" PROVE ram = Written
    OBVIOUS
  <2>1. cmd = "write" /\ Mine
    BY <1>0, <1>1, ClaimedBy
  <2>2. \A b \in 1..Blocks : ram[b] = "new"
    BY <1>0, <2>1 DEF WriteInv, AllWritten, Kept
  <2>3. ram \in [1..Blocks -> {"other", "new"}]
    BY <1>0 DEF TypeInv
  <2> QED
    BY <2>2, <2>3 DEF Written
<1>4. cmd = "write" /\ "verify" \in claims => ram = Written
  BY <1>0, <1>1 DEF VerifyInv
<1>5. "erase" \in claims => \A s \in 1..Sectors : flash[s] = "empty"
  <2> SUFFICES ASSUME "erase" \in claims PROVE AllEmpty
    BY DEF AllEmpty
  <2>1. cmd = "erase" /\ Mine /\ claims # {}
    BY <1>0, <1>1, ClaimedBy
  <2> QED
    BY <1>0, <2>1 DEF EraseInv
<1> QED
  BY <1>2, <1>3, <1>4, <1>5 DEF SuccessIsTrue

LEMMA InvScan ==
  ASSUME Inv
  PROVE  ScanIsRight
<1>0. TypeInv /\ ClaimInv /\ ScanInv /\ CompatInv /\ DumpInv
  BY DEF Inv
<1>1. claims # {} => Mine
  BY DEF Mine
<1>2. ASSUME "scan" \in claims, Len(found) = Sectors, NEW s \in 1..Sectors
      PROVE  IF old THEN late = 0 => found[s] = "read_error" \/ (found[s] = "empty" <=> flash[s] = "empty")
                    ELSE found[s] = flash[s]
  <2>1. cmd = "scan" /\ Mine
    BY <1>0, <1>1, <1>2, ClaimedBy
  <2>2. CASE old
    <3>1. late = 0 => CompatFine
      BY <1>0, <1>2, <2>1, <2>2 DEF CompatInv
    <3> QED
      BY <1>2, <2>2, <3>1 DEF CompatFine
  <2>3. CASE ~ old
    <3>1. AllFound
      BY <1>0, <1>2, <2>1, <2>3 DEF ScanInv
    <3> QED
      BY <2>3, <3>1 DEF AllFound
  <2> QED
    BY <2>2, <2>3
<1>3. "dump" \in claims => \A i \in DOMAIN got : got[i] \in {"ff", flash[i]}
  <2> SUFFICES ASSUME "dump" \in claims PROVE \A i \in DOMAIN got : got[i] \in {"ff", flash[i]}
    OBVIOUS
  <2>1. cmd = "scan" /\ Mine
    BY <1>0, <1>1, ClaimedBy
  <2> QED
    BY <1>0, <2>1 DEF DumpInv
<1> QED
  BY <1>2, <1>3 DEF ScanIsRight

LEMMA InvType ==
  ASSUME Inv
  PROVE  TypeOK
<1>0. TypeInv /\ ClaimInv /\ PlaceInv /\ FoundInv /\ GotInv /\ ReadInv /\ DumpInv
  BY DEF Inv
<1>1. got = <<>> => Len(got) <= Sectors
  <2> SUFFICES ASSUME got = <<>> PROVE Len(got) <= Sectors
    OBVIOUS
  <2>1. Len(got) = 0
    OBVIOUS
  <2> QED
    BY <2>1, LinkAssumption
<1>2. Len(got) <= Sectors
  <2>1. CASE cmd \notin {"read", "scan"}
    BY <1>0, <1>1, <2>1 DEF GotInv
  <2>2. CASE cmd \in {"read", "scan"} /\ Mine
    BY <1>0, <1>1, <2>2 DEF ReadInv, DumpInv
  <2>3. CASE ~ Mine
    <3>1. claims = {}
      BY <2>3 DEF Mine
    <3>2. step \in 1..Len(Script(cmd)) /\ cmd \in Commands
      BY <1>0 DEF TypeInv
    <3>3. Len(Script(cmd)) \in Nat
      BY <3>2, ScriptTable DEF Commands
    <3>4. step = 1
      <4>1. step \in Nat /\ step >= 1
        BY <3>2, <3>3
      <4>2. step # 1 => 1 \in 1..(step - 1)
        BY <4>1
      <4> QED
        BY <1>0, <3>1, <4>2 DEF ClaimInv
    <3> QED
      BY <1>0, <1>1, <3>4 DEF GotInv
  <2> QED
    BY <2>1, <2>2, <2>3
<1>3. Len(found) <= Sectors
  BY <1>0 DEF FoundInv
<1> QED
  BY <1>0, <1>2, <1>3 DEF TypeOK, TypeInv, Rates, Contents

\* The agent goes away in a command when it takes a CMD_REBOOT.
LEMMA InvReboot ==
  ASSUME Inv, [Next]_vars, cmd = "flash", claims # {}, alive, ~ alive'
  PROVE  flash = Imaged
<1>0. TypeInv /\ RebootInv /\ Mine /\ pc # "upload"
  BY DEF Inv, Mine, ClaimInv, PlaceInv
<1>1. Open \/ Upload \/ (Connect /\ Shrinks /\ UNCHANGED silentSide) \/ Works
  BY <1>0, StepKinds
<1>2. ~ Open /\ ~ Upload /\ ~ (Connect /\ UNCHANGED silentSide)
  BY <1>0 DEF Open, Upload, silentSide, agentSide, agentVars
<1>3. Works
  BY <1>1, <1>2
<1>4. Takes
  BY <1>3 DEF Works, vars, agentVars, WriteFlash, silentSide, agentSide, Switches, Turns, Issues, Continues, Asks,
     Retries, Idles, Receives, Starves
<1>5. up[1].kind = "reboot" /\ up # <<>>
  BY <1>4 DEF Takes
<1>6. 1 \in DOMAIN up
  BY <1>0, <1>5, FirstUp
<1> QED
  BY <1>0, <1>5, <1>6 DEF RebootInv

\* Every variable keeps its type: the agent is receiving no block or one of the
\* blocks there are, has never more chunks of it than it has, the host has never
\* more sectors of a read or a scan than the flash, and the port's buffer is part
\* of what is under way (FlashAgentClient, the handlers of main.c).
THEOREM TypeCorrect == Spec => []TypeOK
<1>1. Inv => TypeOK
  BY InvType
<1> QED
  BY <1>1, Invariance, PTL

\* wait_for_ready is a barrier: the first operation of a command starts with an
\* idle agent and no answer to an earlier command under way.
THEOREM ReadyIsABarrier == Spec => []ReadyMeansIdle
<1>1. Inv => ReadyMeansIdle
  BY DEF Inv
<1> QED
  BY <1>1, Invariance, PTL

\* read_memory, write_memory and erase_flash report as done only what is done,
\* for every size of flash, block and window and every number of faults.
THEOREM SuccessHolds == Spec => []SuccessIsTrue
<1>1. Inv => SuccessIsTrue
  BY InvSuccess
<1> QED
  BY <1>1, Invariance, PTL

\* scan_flash and _scan_flash_compat give a sector its own result, and agent scan
\* saves every sector it read in its place.
THEOREM ScanHolds == Spec => []ScanIsRight
<1>1. Inv => ScanIsRight
  BY InvScan
<1> QED
  BY <1>1, Invariance, PTL

\* agent flash reboots the camera only into the image that it has verified: a
\* CMD_REBOOT on the line implies that the flash holds the image.
THEOREM RebootHolds == Spec => RebootsIntoImage
<1>1. Inv /\ [Next]_vars => [cmd = "flash" /\ claims # {} /\ alive /\ ~ alive' => flash = Imaged]_vars
  BY InvReboot
<1> QED
  BY <1>1, Invariance, PTL DEF Spec, RebootsIntoImage
=============================================================================
