----------------------------- MODULE AgentLink -----------------------------
(***************************************************************************)
(* FlashAgentClient over the UART, operation by operation, and the agent   *)
(* that serves them (src/src/defib/agent/client.py and protocol.py,        *)
(* src/agent/main.c): what a lost packet, a late answer, a READY between   *)
(* the answers or a baud rate only one side has switched to can do to the  *)
(* result.  Nothing in an answer names its request.                        *)
(*                                                                         *)
(* The host runs one `defib agent ...` command after another; each opens   *)
(* the transport, waits for READY and calls the client.  write_flash is    *)
(* FlashStream's and one step here, the upload RecoverySession's.          *)
(***************************************************************************)
EXTENDS Integers, Sequences

CONSTANTS
  Sectors,      \* flash sectors, each one packet of a read or a scan
  Blocks,       \* WRITE_MAX_TRANSFER blocks of a RAM write
  Chunks,       \* DATA packets of a block
  Window,       \* WRITE_WINDOW
  InitialFlashes, \* what the flash may hold before the first command
  Transports,   \* of "port", "rack" and "tcp"
  MaxSessions,  \* bound: commands
  MaxFaults,    \* bound: lost packets and failing flash operations
  MaxLate       \* bound: answers that come after the host's timeout

ASSUME LinkAssumption ==
  /\ Sectors \in Nat \ {0} /\ Blocks \in Nat \ {0} /\ Chunks \in Nat \ {0} /\ Window \in Nat \ {0}
  /\ MaxSessions \in Nat /\ MaxFaults \in Nat /\ MaxLate \in Nat
  /\ Transports \subseteq {"port", "rack", "tcp"}

ASSUME InitialAssumption == InitialFlashes \subseteq [1..Sectors -> {"data", "empty"}]

VARIABLES
  alive, old,   \* does an agent run?  Is it one without CMD_SCAN?
  rate, task, buf,      \* its baud rate; the block it is receiving and the chunks of it
  ram, flash,   \* the block each RAM block holds; the contents of each sector
  up, down,     \* packets under way to the agent and to the host
  stash,        \* how many of down are in _port_buffers or _async_leftover
  transport, hostRate,  \* the transport; its rate, which is _current_baud
  cmd, step, pc,        \* the command, its next operation, where that is
  got, off, acks,       \* packets received; blocks or sectors done; answers counted
  found, claims,        \* scan_flash's result; operations that have returned success
  sessions, faults, late

agentVars == <<alive, old, rate, task, buf, ram, flash>>
hostVars  == <<transport, hostRate, cmd, step, pc, got, off, acks, found, claims, sessions>>
vars == <<agentVars, up, down, stash, hostVars, faults, late>>

Packet(kind, val) == [kind |-> kind, val |-> val]
Ack(status) == Packet("ack", status)
Ready == Packet("ready", "")
IsAck(p) == p = Ack("ok")

Fault == faults < MaxFaults /\ faults' = faults + 1
NoFault == UNCHANGED faults

Good(s) == s \in {"data", "image", "short"}
Written == [b \in 1..Blocks |-> "new"]
Imaged == [s \in 1..Sectors |-> "image"]

\* The operations of each command, one definition for each function of the CLI.
InfoScript == <<"info">>
ReadScript == <<"info", "read", "verify">>
WriteScript == <<"write", "verify">>
ScanScript == <<"info", "scan", "dump">>
MembwScript == <<"membw">>

\* Mutant: the camera is rebooted without a look at the CRC-32.
FlashScript_NoVerify == <<"info", "write_flash", "reboot">>

FlashScript == <<"info", "write_flash", "verify", "reboot">>
FlashUnverifiedScript == <<"info", "write_flash", "reboot">>   \* --no-verify

Script(c) ==
  IF c = "read" THEN ReadScript
  ELSE IF c = "write" THEN WriteScript
  ELSE IF c = "scan" THEN ScanScript
  ELSE IF c = "flash" THEN FlashScript
  ELSE IF c = "flash_unverified" THEN FlashUnverifiedScript
  ELSE IF c \in {"info", "upload"} THEN InfoScript
  ELSE IF c = "membw" THEN MembwScript
  ELSE <<c>>                                   \* the client's other operations

Commands == {"info", "read", "write", "scan", "flash", "flash_unverified", "upload", "membw", "erase",
             "mark_bad", "selfupdate"}
Op == Script(cmd)[step]

Init ==
  /\ alive = TRUE /\ old \in BOOLEAN
  /\ rate = "slow" /\ task = 0 /\ buf = <<>>
  /\ ram = [b \in 1..Blocks |-> "other"] /\ flash \in InitialFlashes
  /\ up = <<>> /\ down = <<>> /\ stash = 0
  /\ transport \in Transports /\ hostRate = "slow"
  /\ cmd = "info" /\ step = 1 /\ pc = "closed"
  /\ got = <<>> /\ off = 0 /\ acks = 0 /\ found = <<>> /\ claims = {}
  /\ sessions = 0 /\ faults = 0 /\ late = 0

---------------------------------------------------------------------------
(* The wire: a packet is lost, or fails its CRC-32 and is dropped by the   *)
(* receiver (or, in AgentRecv, ends the block); nothing gets across        *)
(* between different rates.                                                *)

Without(s, i) == SubSeq(s, 1, i - 1) \o SubSeq(s, i + 1, Len(s))

AgentSends(s) ==
  \/ rate = hostRate /\ down' = down \o s /\ NoFault
  \/ rate = hostRate /\ (\E i \in DOMAIN s : down' = down \o Without(s, i)) /\ Fault
  \/ rate # hostRate /\ down' = down /\ NoFault

HostSends(s) ==
  \/ alive /\ rate = hostRate /\ up' = up \o s /\ NoFault
  \/ alive /\ rate = hostRate /\ (\E i \in DOMAIN s : up' = up \o Without(s, i)) /\ Fault
  \/ ~(alive /\ rate = hostRate) /\ up' = up /\ NoFault

\* recv_packet: the next packet, and whatever else was in the OS buffer.
Recv(p) ==
  /\ down # <<>> /\ p = Head(down) /\ down' = Tail(down)
  /\ stash' \in IF stash > 0 THEN {stash - 1} ELSE {0, Len(down) - 1}

\* _clear_rx_buffers, which only knows transports with a _port.
Clear ==
  /\ down' = IF transport = "port" THEN SubSeq(down, stash + 1, Len(down)) ELSE down
  /\ stash' = IF transport = "port" THEN 0 ELSE stash

\* TransportTimeout.  An idle agent sends READY every 2 s and each READY
\* restarts the timeout, so it takes an agent that cannot be heard, or one
\* that is busy for longer than the host waits.
Expired ==
  /\ down = <<>> /\ UNCHANGED <<down, stash, faults>>
  /\ \/ (~alive \/ rate # hostRate) /\ UNCHANGED late
     \/ alive /\ rate = hostRate /\ (up # <<>> \/ task # 0) /\ late < MaxLate /\ late' = late + 1

---------------------------------------------------------------------------
(* The agent: main's loop and its handlers.                                *)

Stays == UNCHANGED <<old, stash, hostVars, late>>

SendReady ==
  /\ alive /\ task = 0 /\ up = <<>> /\ rate = hostRate /\ pc # "closed"
  /\ down = <<>> /\ down' = <<Ready>>
  /\ Stays /\ UNCHANGED <<alive, rate, task, buf, ram, flash, up, faults>>

\* Mutant: only what it cannot decode counts, not silence.
IdleRevert_NotWhenSilent ==
  /\ alive /\ task = 0 /\ up = <<>> /\ rate = "fast"
  /\ pc \notin {"closed", "upload", "run", "go", "compat", "drain", "retry"} /\ \A i \in DOMAIN down : down[i] = Ready
  /\ rate' = "slow"
  /\ Stays /\ UNCHANGED <<alive, task, buf, ram, flash, up, down, faults>>

\* 60 proto_recv timeouts in a row at another rate than 115200: the host waits
\* for something, or has gone.
IdleRevert ==
  /\ alive /\ task = 0 /\ up = <<>> /\ rate = "fast"
  /\ pc \in {"closed", "upload"} \/ (pc \notin {"run", "go", "compat", "drain", "retry"} /\ \A i \in DOMAIN down : down[i] = Ready)
  /\ rate' = "slow"
  /\ Stays /\ UNCHANGED <<alive, task, buf, ram, flash, up, down, faults>>

Answers(s) == AgentSends(s) /\ UNCHANGED <<alive, rate, task, buf, ram, flash>>

HandleInfo == Head(up).kind = "info" /\ Answers(<<Packet("info", "")>>)

\* Flash and RAM contents stand for their CRC-32.
HandleCrc32 ==
  /\ \/ Head(up) = Packet("crc", "ram") /\ Answers(<<Packet("crc", ram)>>)
     \/ Head(up) = Packet("crc", "flash") /\ Answers(<<Packet("crc", flash)>>)
     \/ Head(up).kind = "crc_sector" /\ Answers(<<Packet("crc", flash[Head(up).val])>>)

HandleMembw == Head(up).kind = "membw" /\ (Answers(<<Packet("membw", "")>>) \/ Answers(<<Ack("error")>>))

\* Sequence numbers from 0, then the ACK; a failing eMMC block ends it early.
HandleRead ==
  /\ Head(up).kind = "read"
  /\ LET a == Head(up).val
         pkts == [i \in 1..(a[2] - a[1] + 1) |->
                    Packet("data", [seq |-> i - 1, val |-> flash[a[1] + i - 1]])]
     IN \/ Answers(Append(pkts, Ack("ok")))
        \/ /\ Fault /\ rate = hostRate
           /\ down' = down \o Append(SubSeq(pkts, 1, Len(pkts) - 1), Ack("error"))
           /\ UNCHANGED <<alive, rate, task, buf, ram, flash>>

\* Mutant: no ACK after the last sector.
HandleErase_NoFinalAck ==
  /\ Head(up).kind = "erase"
  /\ flash' = [s \in 1..Sectors |-> "empty"]
  /\ AgentSends(<<Ack("ok")>> \o [i \in 1..Sectors |-> Packet("data", [seq |-> i, val |-> ""])])
  /\ UNCHANGED <<alive, rate, task, buf, ram>>

\* The ACK, a progress packet per sector, the ACK.
HandleErase ==
  /\ Head(up).kind = "erase"
  /\ LET progress(n) == [i \in 1..n |-> Packet("data", [seq |-> i, val |-> ""])] IN
       \/ /\ flash' = [s \in 1..Sectors |-> "empty"]
          /\ AgentSends(<<Ack("ok")>> \o progress(Sectors) \o <<Ack("ok")>>)
       \/ /\ Fault /\ rate = hostRate
          /\ flash' = [s \in 1..Sectors |-> IF s < Sectors THEN "empty" ELSE flash[s]]
          /\ down' = down \o <<Ack("ok")>> \o progress(Sectors - 1) \o <<Ack("error")>>
  /\ UNCHANGED <<alive, rate, task, buf, ram>>

\* The header, the sectors' states in batches, the ACK.
HandleScan ==
  /\ Head(up).kind = "scan"
  /\ Answers(IF old THEN <<Ack("error")>>
             ELSE <<Packet("scan", "header")>> \o [s \in 1..Sectors |-> Packet("scan", flash[s])] \o <<Ack("ok")>>)

\* NAND only.
HandleMarkBad ==
  /\ Head(up).kind = "mark_bad"
  /\ \/ AgentSends(<<Ack("ok")>>) /\ flash' = [flash EXCEPT ![Sectors] = "bad_block"]
     \/ AgentSends(<<Ack("error")>>) /\ UNCHANGED flash
  /\ UNCHANGED <<alive, rate, task, buf, ram>>

\* The ACK leaves at the old rate, and the new one is kept unconditionally.
HandleSetBaud ==
  /\ Head(up).kind = "set_baud"
  /\ AgentSends(<<Ack("ok")>>) /\ rate' = Head(up).val
  /\ UNCHANGED <<alive, task, buf, ram, flash>>

\* CMD_WRITE to RAM and CMD_SELFUPDATE: "ready to receive".
HandleWrite ==
  /\ Head(up).kind = "write"
  /\ AgentSends(<<Ack("ok")>>) /\ task' = Head(up).val /\ buf' = <<>>
  /\ UNCHANGED <<alive, rate, ram, flash>>

HandleReboot ==
  /\ Head(up).kind = "reboot"
  /\ AgentSends(<<Ack("ok")>>) /\ alive' = FALSE
  /\ UNCHANGED <<rate, task, buf, ram, flash>>

\* A DATA packet that no handler is waiting for.
HandleUnknown == Head(up).kind = "data" /\ Answers(<<Ack("error")>>)

\* The checks of an operation's address and size, and of the flash: nothing is
\* read, erased or received.
Rejected == Head(up).kind \in {"read", "crc", "crc_sector", "erase", "write"} /\ Answers(<<Ack("error")>>)

AgentTake ==
  /\ alive /\ task = 0 /\ up # <<>> /\ up' = Tail(up)
  /\ \/ HandleInfo \/ HandleCrc32 \/ HandleMembw \/ HandleRead \/ HandleErase \/ HandleScan
     \/ HandleMarkBad \/ HandleSetBaud \/ HandleWrite \/ HandleReboot \/ HandleUnknown
     \/ Rejected
  /\ Stays

Block(b) == [i \in 1..Chunks |-> <<b, i>>]

\* The CRC-32 over what has been received; a good self-update starts afresh.
Received(block) ==
  LET same == buf' = Block(block) IN
  /\ AgentSends(<<Ack(IF same THEN "ok" ELSE "error")>>)
  /\ ram' = IF block = Blocks + 1 THEN ram
            ELSE [ram EXCEPT ![block] = IF same THEN "new" ELSE "other"]
  /\ rate' = IF block = Blocks + 1 /\ same THEN "slow" ELSE rate
  /\ task' = 0

\* What has come of a block that is given up is in the RAM.
GiveUp ==
  /\ task' = 0 /\ UNCHANGED buf
  /\ ram' = IF task = Blocks + 1 \/ buf = SubSeq(Block(task), 1, Len(buf)) THEN ram
            ELSE [ram EXCEPT ![task] = "other"]

\* A packet that fails its CRC-32: proto_recv returns 0 at once, as for a timeout.
Damaged ==
  /\ GiveUp /\ UNCHANGED rate
  /\ \E unheard \in BOOLEAN :
       /\ down' = IF unheard THEN down ELSE Append(down, Ack("error"))
       /\ faults' = faults + (IF unheard /\ rate = hostRate THEN 2 ELSE 1) /\ faults' <= MaxFaults
       /\ rate # hostRate => unheard

\* Mutant: a block ends one DATA packet too late.
AgentRecv_OneMore ==
  /\ alive /\ task # 0 /\ up # <<>> /\ up' = Tail(up)
  /\ buf' = IF Head(up).kind = "data" THEN Append(buf, Head(up).val) ELSE buf
  /\ \/ Len(buf') = Chunks + 1 /\ Received(task)
     \/ Len(buf') <= Chunks /\ UNCHANGED <<rate, task, ram, down, faults>>
  /\ Stays /\ UNCHANGED <<alive, flash>>

\* Receiving a block: DATA packets count, whatever their sequence number, and
\* all others are ignored.
AgentRecv ==
  /\ alive /\ task # 0 /\ up # <<>> /\ up' = Tail(up)
  /\ \/ /\ buf' = IF Head(up).kind = "data" THEN Append(buf, Head(up).val) ELSE buf
        /\ \/ Len(buf') = Chunks /\ Received(task)
           \/ Len(buf') < Chunks /\ UNCHANGED <<rate, task, ram, down, faults>>
     \/ Damaged
  /\ Stays /\ UNCHANGED <<alive, flash>>

\* No packet for 10 s: what the host had to send has been lost, or the host is
\* waiting for an ACK that was.
AgentStarve ==
  /\ alive /\ task # 0 /\ up = <<>> /\ ~(pc = "block_ack" /\ down # <<>>)
  /\ AgentSends(<<Ack("error")>>) /\ GiveUp
  /\ Stays /\ UNCHANGED <<alive, rate, flash, up>>

---------------------------------------------------------------------------
(* The host: sessions.                                                     *)

hostRest == <<agentVars, transport, sessions, late>>

Open ==
  /\ pc = "closed" /\ sessions < MaxSessions /\ sessions' = sessions + 1
  /\ cmd' \in Commands /\ step' = 1 /\ claims' = {} /\ got' = <<>> /\ found' = <<>> /\ off' = 0
  /\ pc' = IF cmd' \in {"upload", "flash", "flash_unverified"} THEN "upload" ELSE "connect"
  /\ hostRate' = "slow" /\ down' = <<>> /\ stash' = 0
  /\ UNCHANGED <<agentVars, up, transport, acks, faults, late>>

\* A power cycle and the boot protocol: a new agent, or none.
Boots(received) ==
  /\ up' = <<>> /\ stash' = 0
  /\ \/ alive' = TRUE /\ pc' = "connect" /\ down' = received
     \/ alive' = FALSE /\ pc' = "closed" /\ down' = <<>>
  /\ rate' = "slow" /\ task' = 0 /\ buf' = <<>>

\* The port is closed and opened again before the client looks for READY.
UploadStandard == Boots(<<>>)

\* The transport of the upload is the client's, with what it has received.
UploadCv6xx == cmd = "upload" /\ Boots(<<Ready>>)

\* Or there is no agent or U-Boot for the chip, and nothing is sent.  The
\* handshake has no deadline: this step need not come.
Upload ==
  /\ pc = "upload"
  /\ \/ UploadStandard
     \/ UploadCv6xx
     \/ pc' = "closed" /\ UNCHANGED <<alive, rate, task, buf, up, down, stash>>
  /\ UNCHANGED <<old, ram, flash, transport, hostRate, cmd, step, got, off, acks, found, claims, sessions, faults, late>>

Failed == pc' = "closed" /\ UNCHANGED <<step, claims>>
Done ==
  /\ claims' = claims \cup {Op}
  /\ pc' = IF step = Len(Script(cmd)) THEN "closed" ELSE "run"
  /\ step' = step + (IF step = Len(Script(cmd)) THEN 0 ELSE 1)

\* Mutant: any packet will do.
Connect_AnyPacket ==
  /\ pc = "connect"
  /\ \/ down # <<>> /\ Recv(Head(down)) /\ NoFault /\ UNCHANGED late /\ pc' = "run"
     \/ Expired /\ pc' = "closed"
  /\ UNCHANGED <<agentVars, transport, sessions, up, hostRate, cmd, step, got, off, acks, found, claims>>

\* wait_for_ready: any other packet is thrown away, and so is what follows READY.
Connect ==
  /\ pc = "connect"
  /\ \/ /\ down # <<>> /\ Recv(Head(down)) /\ NoFault /\ UNCHANGED late
        /\ pc' = IF Head(down) = Ready THEN "run" ELSE pc
     \/ Expired /\ pc' = "closed"
  /\ UNCHANGED <<agentVars, transport, sessions, up, hostRate, cmd, step, got, off, acks, found, claims>>

Fast == Op \in {"read", "write", "write_flash", "scan", "dump"}
Reading == Op = "dump" => off < Len(found) /\ Good(found[off + 1])

\* _clear_rx_buffers, which erase_flash does not call, and _switch_baud, which
\* the large transfers do; every sector of the dump is a read_memory of its own.
SwitchBaud ==
  /\ pc = "run" /\ Reading
  /\ IF Op = "erase" THEN UNCHANGED <<down, stash>> ELSE Clear
  /\ IF Fast /\ hostRate = "slow"
     THEN HostSends(<<Packet("set_baud", "fast")>>) /\ pc' = "baud"
     ELSE pc' = "go" /\ UNCHANGED <<up, faults>>
  /\ acks' = 0 /\ off' = IF Op = "dump" THEN off ELSE 0
  /\ UNCHANGED <<hostRest, hostRate, cmd, step, got, found, claims>>

---------------------------------------------------------------------------
(* set_baud, whose False the callers of _switch_baud ignore.               *)

\* A transport without set_baudrate sends the agent back to the old rate, at
\* a rate the agent has just left.
SetBaud(p) ==
  /\ pc = "baud" /\ p # Ready
  /\ IF ~IsAck(p) THEN pc' = "go" /\ Recv(p) /\ UNCHANGED <<hostRate, up, faults>>
     ELSE IF transport = "tcp"
     THEN pc' = "go" /\ Recv(p) /\ HostSends(<<Packet("set_baud", "slow")>>) /\ UNCHANGED hostRate
     ELSE /\ hostRate' = "fast" /\ pc' = "baud_verify"
          /\ down' = <<>> /\ stash' = 0                          \* flush_input
          /\ \/ rate = "fast" /\ up' = Append(up, Packet("info", "")) /\ NoFault
             \/ rate = "fast" /\ up' = up /\ Fault
             \/ rate # "fast" /\ up' = up /\ NoFault
  /\ UNCHANGED <<step, claims, got, off, acks, found>>

VerifyBaud(p) ==
  /\ pc = "baud_verify" /\ p # Ready /\ Recv(p) /\ NoFault
  /\ pc' = "go" /\ hostRate' = IF p.kind = "info" THEN hostRate ELSE "slow"
  /\ UNCHANGED <<step, claims, up, got, off, acks, found>>

---------------------------------------------------------------------------
(* The operations' requests.                                               *)

BlockPackets(b) == <<Packet("write", b)>> \o [i \in 1..Chunks |-> Packet("data", Block(b)[i])]

Least(a, b) == IF a < b THEN a ELSE b
WindowEnd == Least(off + Window, Blocks)
\* The packets of the window's blocks, block after block.
WindowPackets ==
  LET size == Chunks + 1 IN
  [i \in 1..((WindowEnd - off) * size) |-> BlockPackets(off + 1 + (i - 1) \div size)[((i - 1) % size) + 1]]

Request ==
  IF Op \in {"info", "membw", "erase", "scan", "reboot", "mark_bad"} THEN <<Packet(Op, "")>>
  ELSE IF Op = "read" THEN <<Packet("read", <<1, Sectors>>)>>
  ELSE IF Op = "dump" THEN <<Packet("read", <<off + 1, off + 1>>)>>
  ELSE IF Op = "verify" THEN <<Packet("crc", IF cmd = "write" THEN "ram" ELSE "flash")>>
  ELSE IF Op = "write" THEN WindowPackets
  ELSE <<Packet("write", Blocks + 1)>>                           \* selfupdate

Waits ==
  IF Op \in {"read", "dump"} THEN "stream"
  ELSE IF Op = "write" THEN "window"
  ELSE IF Op = "erase" THEN "erase_ack"
  ELSE IF Op = "scan" THEN "scan_head"
  ELSE IF Op = "selfupdate" THEN "block_ack"
  ELSE "answer"

Issue ==
  /\ pc = "go" /\ Op # "write_flash"
  /\ HostSends(Request)
  /\ pc' = Waits /\ acks' = 0
  /\ got' = IF Op = "read" THEN <<>> ELSE got
  /\ UNCHANGED <<hostRest, hostRate, cmd, step, off, found, claims, down, stash>>

\* FlashStream: True, and the image is in the flash but for a tail that page
\* skipping may leave out; or False or an exception.
WriteFlash ==
  /\ pc = "go" /\ Op = "write_flash"
  /\ \/ alive /\ rate = hostRate /\ flash' \in {Imaged, [Imaged EXCEPT ![Sectors] = "short"]} /\ Done
     \/ alive /\ rate = hostRate /\ flash' \in [1..Sectors -> {"data", "empty", "image"}] /\ Failed
     \/ ~(alive /\ rate = hostRate) /\ UNCHANGED flash /\ Failed
  /\ UNCHANGED <<alive, old, rate, task, buf, ram, up, down, stash, transport, hostRate, cmd, got, off, acks, found, sessions, faults, late>>

\* A sector that is not worth reading is filled with 0xFF.
DumpSkip ==
  /\ pc = "run" /\ Op = "dump"
  /\ \/ /\ off < Len(found) /\ ~Good(found[off + 1])
        /\ got' = Append(got, "ff") /\ off' = off + 1 /\ UNCHANGED <<pc, step, claims>>
     \/ off = Len(found) /\ Done /\ UNCHANGED <<got, off>>
  /\ UNCHANGED <<hostRest, up, down, stash, hostRate, cmd, acks, found, faults>>

---------------------------------------------------------------------------
(* The operations' answers.  p is the packet recv_packet has returned.     *)

keepRate == UNCHANGED hostRate

\* get_info returns {} for another packet: agent read and scan give up, agent
\* flash goes on.  crc32, membw and mark_bad_block take no other one either.
Answered(p) ==
  /\ pc = "answer" /\ p # Ready /\ Recv(p) /\ NoFault
  /\ LET local == IF cmd = "read" THEN got ELSE IF cmd = "write" THEN Written ELSE Imaged
         right == \/ Op = "info" /\ (p.kind = "info" \/ cmd \in {"info", "upload", "flash", "flash_unverified"})
                  \/ Op = "verify" /\ p.kind = "crc" /\ p.val = local
                  \/ Op = "membw" /\ p.kind = "membw"
                  \/ Op = "mark_bad" /\ IsAck(p)
                  \/ Op = "reboot"
     IN IF right THEN Done ELSE Failed
  /\ UNCHANGED <<up, got, off, acks, found>> /\ keepRate

\* read_memory: the sequence numbers, then the ACK and the length.
ReadStream(p) ==
  /\ pc = "stream" /\ p # Ready /\ Recv(p) /\ NoFault
  /\ LET size == IF Op = "dump" THEN 1 ELSE Sectors
         have == IF Op = "dump" THEN Len(got) - off ELSE Len(got)
     IN \/ p.kind = "data" /\ p.val.seq = have /\ got' = Append(got, p.val.val) /\ UNCHANGED <<pc, step, claims, off>>
        \/ p.kind = "data" /\ p.val.seq # have /\ Failed /\ UNCHANGED <<got, off>>
        \/ /\ IsAck(p) /\ have = size /\ UNCHANGED got
           /\ IF Op = "dump" THEN pc' = "run" /\ off' = off + 1 /\ UNCHANGED <<step, claims>>
                             ELSE Done /\ UNCHANGED off
        \/ p.kind # "data" /\ ~(IsAck(p) /\ have = size) /\ Failed /\ UNCHANGED <<got, off>>
  /\ UNCHANGED <<up, acks, found>> /\ keepRate

\* Mutant: the ACKs are counted, not their status.
WindowAck_AnyStatus(p) ==
  /\ pc = "window" /\ p # Ready /\ Recv(p) /\ NoFault
  /\ \/ p.kind # "ack" /\ pc' = "drain" /\ UNCHANGED <<acks, off, step, claims>>
     \/ p.kind = "ack" /\ acks + 1 < 2 * (WindowEnd - off) /\ acks' = acks + 1 /\ UNCHANGED <<pc, off, step, claims>>
     \/ /\ p.kind = "ack" /\ acks + 1 = 2 * (WindowEnd - off) /\ acks' = 0
        /\ off' = WindowEnd
        /\ IF WindowEnd = Blocks THEN Done ELSE pc' = "go" /\ UNCHANGED <<step, claims>>
  /\ UNCHANGED <<up, got, found>> /\ keepRate

\* write_memory: two ACKs for every block of the window.
WindowAck(p) ==
  /\ pc = "window" /\ p # Ready /\ Recv(p) /\ NoFault
  /\ \/ ~IsAck(p) /\ pc' = "drain" /\ UNCHANGED <<acks, off, step, claims>>
     \/ IsAck(p) /\ acks + 1 < 2 * (WindowEnd - off) /\ acks' = acks + 1 /\ UNCHANGED <<pc, off, step, claims>>
     \/ /\ IsAck(p) /\ acks + 1 = 2 * (WindowEnd - off) /\ acks' = 0
        /\ off' = WindowEnd
        /\ IF WindowEnd = Blocks THEN Done ELSE pc' = "go" /\ UNCHANGED <<step, claims>>
  /\ UNCHANGED <<up, got, found>> /\ keepRate

\* _write_block and selfupdate: ready ACK, the data, CRC ACK.  acks is the end of
\* the window that is being repeated.
BlockAck(p) ==
  LET block == IF Op = "selfupdate" THEN Blocks + 1 ELSE off + 1 IN
  /\ pc = "block_ack" /\ p # Ready /\ Recv(p)
  /\ IF IsAck(p) THEN pc' = "block_crc" /\ HostSends(Tail(BlockPackets(block))) /\ UNCHANGED <<step, claims>>
                 ELSE Failed /\ UNCHANGED <<up, faults>>
  /\ UNCHANGED <<got, off, acks, found>> /\ keepRate

BlockCrc(p) ==
  /\ pc = "block_crc" /\ p # Ready /\ Recv(p) /\ NoFault
  /\ IF ~IsAck(p) THEN Failed /\ UNCHANGED <<off, acks>>
     ELSE IF Op = "selfupdate" THEN Done /\ UNCHANGED <<off, acks>>
     ELSE /\ off' = off + 1 /\ UNCHANGED acks
          /\ IF off + 1 < acks THEN pc' = "retry" /\ UNCHANGED <<step, claims>>
             ELSE IF off + 1 = Blocks THEN Done ELSE pc' = "go" /\ UNCHANGED <<step, claims>>
  /\ UNCHANGED <<up, got, found>> /\ keepRate

\* erase_flash: as many packets as there are sectors, READY and all, then an ACK.
EraseAck(p) ==
  /\ Op = "erase" /\ Recv(p) /\ NoFault
  /\ \/ pc = "erase_ack" /\ p # Ready /\ IsAck(p) /\ pc' = "erase" /\ UNCHANGED <<acks, step, claims>>
     \/ pc = "erase" /\ acks' = acks + 1 /\ pc' = (IF acks' = Sectors THEN "erase_end" ELSE pc) /\ UNCHANGED <<step, claims>>
     \/ pc = "erase_end" /\ p # Ready /\ IsAck(p) /\ Done /\ UNCHANGED acks
     \/ pc \in {"erase_ack", "erase_end"} /\ p # Ready /\ ~IsAck(p) /\ Failed /\ UNCHANGED acks
  /\ UNCHANGED <<up, got, off, found>> /\ keepRate

\* Mutant: the header is taken for the first result.
ScanAnswer_NoHeader(p) ==
  /\ Op = "scan" /\ p # Ready /\ Recv(p) /\ NoFault
  /\ \/ pc = "scan_head" /\ p.kind = "ack" /\ pc' = "compat" /\ off' = 0 /\ found' = <<>> /\ UNCHANGED <<step, claims>>
     \/ pc = "scan_head" /\ p.kind = "scan" /\ pc' = "scan" /\ found' = <<p.val>> /\ UNCHANGED <<off, step, claims>>
     \/ pc = "scan_head" /\ p.kind \notin {"ack", "scan"} /\ Failed /\ UNCHANGED <<off, found>>
     \/ /\ pc = "scan" /\ p.kind = "scan" /\ found' = Append(found, p.val)
        /\ pc' = (IF Len(found') = Sectors THEN "scan_end" ELSE pc) /\ UNCHANGED <<off, step, claims>>
     \/ pc = "scan" /\ p.kind = "ack" /\ Done /\ off' = 0 /\ UNCHANGED found
     \/ pc = "scan" /\ p.kind \notin {"scan", "ack"} /\ Failed /\ UNCHANGED <<off, found>>
     \/ pc = "scan_end" /\ Done /\ off' = 0 /\ UNCHANGED found
  /\ UNCHANGED <<up, got, acks>> /\ keepRate

\* scan_flash: a result belongs to the sector that is next.  When the header is
\* lost the first results are taken for it, and the ACK ends the loop.
ScanAnswer(p) ==
  /\ Op = "scan" /\ p # Ready /\ Recv(p) /\ NoFault
  /\ \/ pc = "scan_head" /\ p.kind = "ack" /\ pc' = "compat" /\ off' = 0 /\ found' = <<>> /\ UNCHANGED <<step, claims>>
     \/ pc = "scan_head" /\ p.kind = "scan" /\ pc' = "scan" /\ found' = <<>> /\ UNCHANGED <<off, step, claims>>
     \/ pc = "scan_head" /\ p.kind \notin {"ack", "scan"} /\ Failed /\ UNCHANGED <<off, found>>
     \/ /\ pc = "scan" /\ p.kind = "scan" /\ found' = Append(found, p.val)
        /\ pc' = (IF Len(found') = Sectors THEN "scan_end" ELSE pc) /\ UNCHANGED <<off, step, claims>>
     \/ pc = "scan" /\ p.kind = "ack" /\ Done /\ off' = 0 /\ UNCHANGED found
     \/ pc = "scan" /\ p.kind \notin {"scan", "ack"} /\ Failed /\ UNCHANGED <<off, found>>
     \/ pc = "scan_end" /\ Done /\ off' = 0 /\ UNCHANGED found
  /\ UNCHANGED <<up, got, acks>> /\ keepRate

---------------------------------------------------------------------------
(* _scan_flash_compat: one or two CRC-32s per sector.                      *)

CompatSend ==
  /\ pc = "compat"
  /\ IF off = Sectors THEN Done /\ off' = 0 /\ UNCHANGED <<up, down, stash, faults>>
     ELSE /\ Clear /\ HostSends(<<Packet("crc_sector", off + 1)>>)
          /\ pc' = "compat_crc" /\ UNCHANGED <<off, step, claims>>
  /\ UNCHANGED <<hostRest, hostRate, cmd, got, acks, found>>

\* acks: the pass.  A second pass that fails counts as one that agreed.
CompatResult(ok, val) ==
  /\ pc = "compat_crc" /\ pc' = "compat" /\ UNCHANGED <<step, claims>>
  /\ IF acks = 0 /\ ok /\ val # "empty"
     THEN acks' = 1 /\ UNCHANGED <<off, found>>
     ELSE /\ acks' = 0 /\ off' = off + 1
          /\ found' = Append(found, IF acks = 0 THEN (IF ok THEN "empty" ELSE "read_error") ELSE "data")
  /\ UNCHANGED <<up, got>> /\ keepRate

CompatAnswer(p) ==
  /\ p # Ready /\ Recv(p) /\ NoFault
  /\ CompatResult(p.kind = "crc", p.val)

---------------------------------------------------------------------------
(* Receiving, timing out, and the fallback of write_memory.                *)

Waiting == pc \in {"baud", "baud_verify", "answer", "stream", "window", "block_ack", "block_crc",
                   "erase_ack", "erase", "erase_end", "scan_head", "scan", "scan_end", "compat_crc"}

Receive ==
  /\ Waiting /\ down # <<>>
  /\ \E p \in {Head(down)} :
       \/ SetBaud(p) \/ VerifyBaud(p) \/ Answered(p) \/ ReadStream(p) \/ WindowAck(p)
       \/ BlockAck(p) \/ BlockCrc(p) \/ EraseAck(p) \/ ScanAnswer(p) \/ CompatAnswer(p)
  /\ UNCHANGED <<hostRest, cmd>>

\* recv_response skips READY and starts its timeout again.
SkipReady ==
  /\ Waiting /\ pc # "erase" /\ down # <<>> /\ Head(down) = Ready /\ Recv(Ready)
  /\ UNCHANGED <<hostRest, hostRate, cmd, step, pc, up, got, off, acks, found, claims, faults>>

Timeout ==
  /\ Waiting /\ Expired
  /\ \/ pc = "baud_verify" /\ pc' = "go" /\ hostRate' = "slow" /\ UNCHANGED <<step, claims, up, got, off, acks, found>>
     \/ pc = "window" /\ pc' = "drain" /\ UNCHANGED <<step, claims, hostRate, up, got, off, acks, found>>
     \/ pc = "compat_crc" /\ CompatResult(FALSE, "")
     \/ pc = "answer" /\ Op = "reboot" /\ Done /\ UNCHANGED <<hostRate, up, got, off, acks, found>>
     \/ /\ pc \notin {"baud_verify", "window", "compat_crc"} /\ ~(pc = "answer" /\ Op = "reboot")
        /\ Failed /\ UNCHANGED <<hostRate, up, got, off, acks, found>>
  /\ UNCHANGED <<agentVars, transport, sessions, cmd>>

\* Half a second, in which the agent gets through what it was sent unless it is
\* late, then reset_input_buffer, on a transport with a _port.
Drain ==
  /\ pc = "drain" /\ pc' = "retry" /\ acks' = WindowEnd
  /\ \/ up = <<>> /\ UNCHANGED late
     \/ up # <<>> /\ late < MaxLate /\ late' = late + 1
  /\ down' = IF transport = "port" THEN <<>> ELSE down
  /\ stash' = IF transport = "port" THEN 0 ELSE stash
  /\ UNCHANGED <<agentVars, transport, sessions, hostRate, cmd, step, up, got, off, found, claims, faults>>

Retry ==
  /\ pc = "retry" /\ pc' = "block_ack"
  /\ Clear /\ HostSends(<<Packet("write", off + 1)>>)
  /\ UNCHANGED <<hostRest, hostRate, cmd, step, got, off, acks, found, claims>>

Ended == pc = "closed" /\ sessions = MaxSessions /\ UNCHANGED vars

Agent == SendReady \/ AgentTake \/ AgentRecv \/ AgentStarve
Host ==
  \/ Connect \/ SwitchBaud \/ Issue \/ WriteFlash \/ DumpSkip
  \/ CompatSend \/ Receive \/ SkipReady \/ Timeout \/ Drain \/ Retry

Next == Open \/ Upload \/ Host \/ Agent \/ IdleRevert \/ Ended

Spec == Init /\ [][Next]_vars /\ WF_vars(Host) /\ WF_vars(Agent) /\ WF_vars(IdleRevert)

---------------------------------------------------------------------------
(* Properties.                                                             *)

TypeOK ==
  /\ rate \in {"slow", "fast"} /\ hostRate \in {"slow", "fast"} /\ alive \in BOOLEAN
  /\ task \in 0..(Blocks + 1) /\ Len(buf) <= Chunks
  /\ ram \in [1..Blocks -> {"other", "new"}]
  /\ flash \in [1..Sectors -> {"data", "empty", "image", "short", "bad_block"}]
  /\ stash \in 0..Len(down) /\ Len(found) <= Sectors /\ Len(got) <= Sectors
  /\ step \in 1..Len(Script(cmd)) /\ faults \in 0..MaxFaults

\* connect is a barrier: READY comes from an agent that has nothing left to do,
\* so an operation never starts with answers to an earlier command under way,
\* however that one ended.
ReadyMeansIdle ==
  pc = "run" /\ step = 1 => task = 0 /\ up = <<>> /\ \A i \in DOMAIN down : down[i] = Ready

\* What read_memory, write_memory and erase_flash report as done is done, though
\* packets are lost from a long stream, READY comes between the answers and ACKs
\* of a window that was given up are still under way (if those were drained in
\* time); agent write, which has verified the CRC-32, is right even if not.
SuccessIsTrue ==
  /\ "read" \in claims => got = flash
  /\ "write" \in claims /\ late = 0 /\ transport = "port" => ram = Written
  /\ cmd = "write" /\ "verify" \in claims => ram = Written
  /\ "erase" \in claims => \A s \in 1..Sectors : flash[s] = "empty"

\* A scan that has a result for every sector has that sector's own result, and
\* what agent scan then saves has every sector it read in its place.  (An agent
\* without CMD_SCAN: as long as no CRC-32 comes after its timeout.)
ScanIsRight ==
  /\ "scan" \in claims /\ Len(found) = Sectors =>
       \A s \in 1..Sectors :
         IF old THEN late = 0 => found[s] = "read_error" \/ (found[s] = "empty" <=> flash[s] = "empty")
                ELSE found[s] = flash[s]
  /\ "dump" \in claims => \A i \in DOMAIN got : got[i] \in {"ff", flash[i]}

\* agent flash, once it has heard from the agent and unless it is run with
\* --no-verify, reboots the camera only into the image it has verified: nothing
\* that is still under way then, an earlier command's reboot or erase included,
\* comes between.
RebootsIntoImage == [][cmd = "flash" /\ claims # {} /\ alive /\ ~alive' => flash = Imaged]_vars

\* An agent that nobody talks to is back at 115200 baud, where the next command
\* looks for it.
FoundAgain == <>[](~alive \/ rate = "slow")

\* Every command that talks to the agent returns, unless a packet was lost or its
\* transport cannot follow the agent to another rate.  (The upload before it waits
\* for the boot ROM for as long as that takes.)
CommandsEnd == (<>[](pc \notin {"closed", "upload"})) => (transport = "tcp" \/ <>(faults + late > 0))

\* client.py:1016-1018: "Transports without out-of-band baud signalling raise
\* NotImplementedError and we abort cleanly so the caller can stay at
\* FALLBACK_BAUD."
AbortsCleanly == (<>[](pc \notin {"closed", "upload"})) => <>(faults + late > 0)

===========================================================================
