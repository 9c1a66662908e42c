---------------------------- MODULE UsbRecovery ----------------------------
(***************************************************************************)
(* Rockchip recovery over USB (src/src/defib/rockusb and the USB commands  *)
(* of src/src/defib/cli/app.py).  One invocation after another of defib    *)
(* burn or defib dump-flash finds a board on the bus, returns a usbplug    *)
(* that an earlier invocation left running to MaskROM, uploads the DDR     *)
(* initialisation and the usbplug, waits for the board to come back and    *)
(* runs flash commands: a command wrapper (CBW), a data phase, a status    *)
(* wrapper (CSW).  Every board has the same product id; the port it is     *)
(* plugged into is its only identity, so Boards are ports.                 *)
(***************************************************************************)
EXTENDS Integers, Sequences, FiniteSets

CONSTANTS
  Boards,        \* USB ports with a board
  NoBoard,       \* no port
  Sectors,       \* sectors of a board's flash
  MaxSectors,    \* MAX_SECTORS_PER_TRANSFER
  Extents,       \* <<start, sectors>> of the profile's partitions
  ChunkSize,     \* CHUNK_SIZE of a MaskROM transfer
  BlobSizes,     \* lengths of the DDR and usbplug images
  DrainReads,    \* reads of _drain_stale_input
  Leftovers,     \* packets an earlier invocation left unread in a usbplug
  MaxSessions, MaxFaults

ASSUME UsbAssumption ==
  /\ NoBoard \notin Boards
  /\ Sectors \in Nat \ {0} /\ MaxSectors \in Nat \ {0} /\ DrainReads \in Nat
  /\ Extents \subseteq Nat \X (Nat \ {0}) /\ BlobSizes \subseteq Nat \ {0}
  /\ ChunkSize \in Nat \ 0..2 /\ Leftovers \subseteq Nat
  /\ MaxSessions \in Nat /\ MaxFaults \in Nat

VARIABLES
  board,      \* per port: mode, stage of the ROM, bulk IN pipe, command taken, uploader
  driver,     \* per port: its kernel driver, "bound", "ours" (detached) or "lost"
  session, job, extent, pin, sizes,      \* the invocation and its arguments
  pc, first, at, live,     \* where it is; the board found; the one held; is its handle current?
  owned, opened,                         \* is recovery returned?; handles not closed
  chunk, phase, tag, payload, lba,       \* chunk uploaded; the command under way
  partial, target,                       \* the .partial file and the dump file
  trouble, faults, killed                \* did anything go wrong outside the host?

bus == <<board, driver>>
args == <<session, job, extent, pin, sizes>>
cmdVars == <<phase, tag, payload>>
files == <<partial, target>>
ghost == <<trouble, faults, killed>>
vars == <<bus, args, pc, at, live, first, owned, opened, chunk, cmdVars, lba, files, ghost>>

NoFile == <<[board |-> NoBoard, lba |-> 0]>>
NoCmd == [op |-> "none", tag |-> 0, lba |-> 0, n |-> 0]

\* Mutant: no chunk after an image that fills its last one.
BuildMaskromChunks_NoTerminator(len) ==
  LET total == len + 2
      last == (total + ChunkSize - 1) \div ChunkSize
  IN [i \in 1..last |-> [n |-> IF i < last THEN ChunkSize ELSE total - ChunkSize * (last - 1),
                         crc |-> IF i = last THEN 2 ELSE 0]]

(* The framing of one image: its CRC, the padding that keeps the CRC in    *)
(* one chunk and the chunk that ends a transfer of full chunks.            *)
BuildMaskromChunks(len) ==
  LET rest == len % ChunkSize
      padded == IF rest = ChunkSize - 1 THEN len + 1 ELSE len
      total == padded + 2
      last == (total + ChunkSize - 1) \div ChunkSize
      size(i) == IF i < last THEN ChunkSize ELSE total - ChunkSize * (last - 1)
      crc(i) == Cardinality({j \in {padded + 1, padded + 2} :
                               j > ChunkSize * (i - 1) /\ j <= ChunkSize * (i - 1) + size(i)})
  IN [i \in 1..last |-> [n |-> size(i), crc |-> crc(i)]]
       \o (IF rest = ChunkSize - 2 THEN <<[n |-> 1, crc |-> 0]>> ELSE <<>>)

Blob == IF pc = "ddr" THEN sizes[1] ELSE sizes[2]
Chunks == BuildMaskromChunks(Blob)

\* split_lba_transfers, one pair at a time.
Transfer(from, to) == IF to - from > MaxSectors THEN MaxSectors ELSE to - from

\* What the dump of an extent of a board's flash holds.
Image(b, e) == [i \in 1..e[2] |-> [board |-> b, lba |-> e[1] + i - 1]]

Init ==
  /\ board \in [Boards -> {[mode |-> m, stage |-> "471", pipe |-> <<>>, cmd |-> NoCmd, by |-> 0] :
                              m \in {"gone", "maskrom"}}
                       \cup {[mode |-> "loader", stage |-> "471", cmd |-> NoCmd, by |-> 0,
                              pipe |-> [i \in 1..k |-> [k |-> IF i = k THEN "csw" ELSE "data",
                                                        tag |-> 0, lba |-> 0, ok |-> TRUE, res |-> FALSE]]] :
                              k \in Leftovers}]
  /\ driver = [b \in Boards |-> "bound"]
  /\ session = 0 /\ job = "burn" /\ extent = <<0, Sectors>> /\ pin = NoBoard
  /\ sizes \in {<<n, n>> : n \in BlobSizes}
  /\ pc = "idle" /\ at = NoBoard /\ live = FALSE /\ first = NoBoard /\ owned = FALSE /\ opened = {}
  /\ chunk = 1 /\ phase = "cbw" /\ tag = 0 /\ payload = <<>> /\ lba = 0
  /\ partial = NoFile /\ target = NoFile
  /\ trouble = FALSE /\ faults = 0 /\ killed = FALSE

---------------------------------------------------------------------------
(* The boards (external).                                                  *)

\* A board comes back after a reset or an upload, or a user plugs one in;
\* being enumerated anew gives the kernel its driver back.
Appear(b) ==
  /\ \/ /\ board[b].mode = "starting"
        /\ board' = [board EXCEPT ![b].mode = "loader", ![b].by = session]
     \/ /\ board[b].mode = "resetting"
        /\ board' = [board EXCEPT ![b].mode = "maskrom", ![b].stage = "471", ![b].by = 0]
     \/ /\ board[b].mode = "gone"
        /\ board' = [board EXCEPT ![b].mode = "maskrom", ![b].stage = "471"]
  /\ driver' = [driver EXCEPT ![b] = "bound"]
  /\ live' = (live /\ b # at)
  /\ UNCHANGED <<args, pc, at, first, owned, opened, chunk, cmdVars, lba, files, ghost>>

\* A board is unplugged, or boots what its flash holds.
Vanish(b) ==
  /\ board[b].mode # "gone" /\ faults < MaxFaults
  /\ board' = [board EXCEPT ![b] = [mode |-> "gone", stage |-> "471", pipe |-> <<>>,
                                    cmd |-> NoCmd, by |-> 0]]
  /\ faults' = faults + 1 /\ trouble' = TRUE
  /\ live' = (live /\ b # at)
  /\ UNCHANGED <<driver, args, pc, at, first, owned, opened, chunk, cmdVars, lba, files, killed>>

\* What the boot ROM makes of one control transfer: a short one ends the image.
RomTakes(b, code, c) ==
  board' = [board EXCEPT ![b] =
              IF c.crc = 1 THEN [@ EXCEPT !.stage = "bad"]
              ELSE IF c.n = ChunkSize \/ @.stage = "bad" THEN @
              ELSE IF code = "471" THEN [@ EXCEPT !.stage = "472"]
              ELSE IF @.stage = "472" THEN [@ EXCEPT !.mode = "starting"] ELSE @]

Data(c) == [i \in 1..c.n |-> [k |-> "data", tag |-> c.tag, lba |-> c.lba + i - 1,
                              ok |-> TRUE, res |-> FALSE]]
Csw(c, ok, res) == <<[k |-> "csw", tag |-> c.tag, lba |-> 0, ok |-> ok, res |-> res]>>

\* The usbplug runs the command it took, once the host has read what was
\* queued before.  The reset may drop the board before its status wrapper;
\* outside the block commands the residue is the length, whatever arrived.
UsbplugRuns(b) ==
  LET c == board[b].cmd IN
  /\ board[b].mode = "loader" /\ c # NoCmd /\ board[b].pipe = <<>>
  /\ \/ /\ c.op = "reset"
        /\ board' = [board EXCEPT ![b].cmd = NoCmd, ![b].mode = "resetting"]
        /\ UNCHANGED <<faults, trouble>>
     \/ /\ board' = [board EXCEPT ![b].cmd = NoCmd, ![b].pipe = Data(c) \o Csw(c, TRUE, c.op # "read"),
                                  ![b].mode = IF c.op = "reset" THEN "leaving" ELSE @]
        /\ UNCHANGED <<faults, trouble>>
     \/ /\ faults < MaxFaults /\ faults' = faults + 1 /\ trouble' = TRUE
        /\ \E answer \in { <<>>, Data(c) \o Csw(c, FALSE, FALSE) }              \* wedged; refused
             \cup (IF c.n = 0 THEN {}                                            \* moved less
                   ELSE {[Data(c) EXCEPT ![c.n].k = "part"] \o Csw(c, TRUE, TRUE)}) :
             board' = [board EXCEPT ![b].cmd = NoCmd, ![b].pipe = answer]
  /\ UNCHANGED <<driver, args, pc, at, live, first, owned, opened, chunk, cmdVars, lba, files, killed>>

\* The board drops off the bus after the status wrapper of its reset.
Leaves(b) ==
  /\ board[b].mode = "leaving"
  /\ board' = [board EXCEPT ![b].mode = "resetting", ![b].pipe = <<>>]
  /\ live' = (live /\ b # at)
  /\ UNCHANGED <<driver, args, pc, at, first, owned, opened, chunk, cmdVars, lba, files, ghost>>

---------------------------------------------------------------------------
(* The device layer (rockusb/device.py).                                   *)

Mode(b) ==
  IF board[b].mode \in {"loader", "leaving"} THEN "loader"
  ELSE IF board[b].mode = "maskrom" THEN "maskrom" ELSE "absent"

\* What a transfer over the handle held reaches.
Held == IF live THEN Mode(at) ELSE "absent"

\* find_devices: the boards in a recovery mode, pinned to a port or not.
FindDevices(path) == {b \in Boards : Mode(b) # "absent" /\ (path = NoBoard \/ b = path)}

Close ==
  /\ driver' = [driver EXCEPT ![at] = IF @ = "ours" THEN "bound" ELSE @]
  /\ opened' = opened \ {at}

\* Mutant: nothing is closed.
RaiseAs_Leak(kind) ==
  /\ pc' = "failed" /\ partial' = (IF pc \in {"dump", "replace"} THEN NoFile ELSE partial)
  /\ UNCHANGED <<driver, opened>>

\* The end of an invocation that raised.  The finally of _burn_usb_async and
\* of _dump_flash_usb_async closes the recovery _open_usb_target returned, and
\* _open_usb_target closes it when the reset raised a RockusbUsbError.
RaiseAs(kind) ==
  /\ pc' = "failed" /\ partial' = (IF pc \in {"dump", "replace"} THEN NoFile ELSE partial)
  /\ IF owned \/ (pc = "reset" /\ kind = "usb") THEN Close ELSE UNCHANGED <<driver, opened>>
Raise == RaiseAs("usb")

\* Mutant: a usbplug found running is used as it is.
WaitForDevice_Reuse(path, mode) ==
  /\ \E b \in FindDevices(path) :
       /\ FindDevices(path) = {b} /\ (mode = "any" \/ Mode(b) = mode)
       /\ at' = b /\ live' = TRUE /\ first' = (IF first = NoBoard THEN b ELSE first)
       /\ pc' = (IF Mode(b) = "loader" THEN "open_plug" ELSE "open_rom")
       /\ UNCHANGED <<partial, driver, opened, trouble>>
  /\ UNCHANGED <<board, args, owned, chunk, cmdVars, lba, target, faults, killed>>

\* One scan of wait_for_device; several candidates raise.
WaitForDevice(path, mode) ==
  /\ \/ \E b \in FindDevices(path) :
          /\ FindDevices(path) = {b} /\ (mode = "any" \/ Mode(b) = mode)
          /\ at' = b /\ live' = TRUE /\ first' = (IF first = NoBoard THEN b ELSE first)
          /\ pc' = (IF pc = "wait_plug" THEN "open_plug"
                    ELSE IF Mode(b) = "loader" THEN "open_stale" ELSE "open_rom")
          /\ UNCHANGED <<partial, driver, opened, trouble>>
     \/ Cardinality(FindDevices(path)) > 1 /\ Raise /\ trouble' = TRUE /\ UNCHANGED <<at, live, first>>
  /\ UNCHANGED <<board, args, owned, chunk, cmdVars, lba, target, faults, killed>>

Coming(b) ==
  \/ board[b].mode \in {"starting", "resetting", "leaving"}
  \/ board[b].mode = "loader" /\ board[b].cmd # NoCmd /\ board[b].pipe = <<>>

\* Mutant: a board seen in the other mode restarts the wait.
WaitExpires_Seen(path, mode) ==
  \/ /\ FindDevices(path) = {} /\ (\A b \in Boards : ~ Coming(b))
     /\ Raise /\ trouble' = TRUE
     /\ UNCHANGED <<board, args, at, live, first, owned, chunk, cmdVars, lba, target, faults, killed>>
  \/ FindDevices(path) # {} /\ UNCHANGED vars

\* The wait runs out; a board on its way back is late then.
WaitExpires(path, mode) ==
  /\ ~ \E b \in FindDevices(path) : mode = "any" \/ Mode(b) = mode
  /\ Raise
  /\ \/ (\A b \in Boards : ~ Coming(b)) /\ UNCHANGED faults
     \/ faults < MaxFaults /\ faults' = faults + 1
  /\ trouble' = (trouble \/ mode = "any" \/ faults' > faults)
  /\ UNCHANGED <<board, args, at, live, first, owned, chunk, cmdVars, lba, target, killed>>

\* open: claim the interface, clear its stalls, drain what is queued.  A
\* MaskROM without bulk endpoints claims nothing.
Open(to) ==
  /\ \/ /\ Held # "absent"
        /\ \E bulk \in BOOLEAN :
             /\ Held = "loader" => bulk
             /\ driver' = IF bulk /\ driver[at] = "bound" THEN [driver EXCEPT ![at] = "ours"] ELSE driver
             /\ board' = IF bulk
                         THEN [board EXCEPT ![at].pipe =
                                 SubSeq(@, IF Len(@) < DrainReads THEN Len(@) + 1 ELSE DrainReads + 1, Len(@))]
                         ELSE board
        /\ opened' = opened \cup {at} /\ pc' = to /\ UNCHANGED <<partial, faults, trouble>>
     \/ /\ Held = "absent" \/ faults < MaxFaults
        /\ faults' = (IF Held = "absent" THEN faults ELSE faults + 1)
        /\ trouble' = TRUE /\ Raise /\ UNCHANGED board
  /\ owned' = (pc' \in {"id", "info"})
  /\ UNCHANGED <<args, at, live, first, chunk, cmdVars, lba, target, killed>>

\* What the data phase of a command of n packets reads: up to the first short packet.
Taken(pipe, n) ==
  LET short == {i \in DOMAIN pipe : pipe[i].k # "data"}
      stop == IF short = {} THEN Len(pipe) ELSE CHOOSE i \in short : \A j \in short : i <= j
  IN IF stop < n THEN stop ELSE n

\* len(payload) = read_length; a status wrapper is longer than a flash id.
LengthOK(op, p, n) ==
  IF op = "read" THEN Len(p) = n /\ \A i \in DOMAIN p : p[i].k = "data" ELSE p # <<>> /\ p[1].k # "part"

\* A bulk transfer that does not happen: the board is gone, or time is up.
NoTransfer ==
  \/ Held = "absent" /\ trouble' = TRUE /\ UNCHANGED faults
  \/ faults < MaxFaults /\ faults' = faults + 1 /\ trouble' = TRUE

SendCbw(op, n, a) ==
  /\ phase = "cbw"
  /\ \/ /\ Held = "loader" /\ board[at].cmd = NoCmd
        /\ board' = [board EXCEPT ![at].cmd = [op |-> op, tag |-> tag + 1, lba |-> a, n |-> n]]
        /\ tag' = tag + 1 /\ phase' = (IF n > 0 THEN "data" ELSE "csw")
        /\ UNCHANGED <<pc, partial, driver, opened, faults, trouble>>
     \/ NoTransfer /\ Raise /\ UNCHANGED <<board, tag, phase>>
  /\ UNCHANGED <<args, at, live, first, owned, chunk, payload, lba, target, killed>>

\* Nothing more will come: the usbplug has no command, or waits for the host.
Silent == board[at].pipe = <<>> /\ board[at].cmd = NoCmd

ReadData(n) ==
  /\ phase = "data"
  /\ \/ /\ Held # "absent" /\ board[at].pipe # <<>>
        /\ LET k == Taken(board[at].pipe, n) IN
             /\ payload' = SubSeq(board[at].pipe, 1, k)
             /\ board' = [board EXCEPT ![at].pipe = SubSeq(@, k + 1, Len(@))]
        /\ phase' = "csw" /\ UNCHANGED <<pc, partial, driver, opened, faults, trouble>>
     \/ /\ (Silent /\ UNCHANGED <<faults, trouble>>) \/ NoTransfer
        /\ Raise /\ UNCHANGED <<board, payload, phase>>
  /\ UNCHANGED <<args, at, live, first, owned, chunk, tag, lba, target, killed>>

\* Mutant: a status of OK is enough.
StatusOK_ShortAccepted(op, n, w) == w.tag = tag /\ w.ok

\* parse_csw and the checks after it.
StatusOK(op, n, w) ==
  /\ w.tag = tag /\ w.ok
  /\ w.res => op # "read"
  /\ n > 0 => LengthOK(op, payload, n)

---------------------------------------------------------------------------
(* One invocation (cli/app.py and rockusb/recovery.py).                    *)

End == extent[1] + extent[2]
Op == IF pc = "dump" THEN "read" ELSE pc
Packets == IF pc = "reset" THEN 0 ELSE IF pc = "dump" THEN Transfer(lba, End) ELSE 1

\* What follows a command that succeeded: the reset's handle is closed; the
\* extent is compared with the flash and the .partial file created; the
\* payload is appended to it.  Creating and writing the file may fail.
AfterReset == pc = "reset" /\ Close /\ pc' = "wait_rom" /\ UNCHANGED <<partial, lba, faults, trouble>>

AfterId == pc = "id" /\ pc' = "close" /\ UNCHANGED <<partial, lba, driver, opened, faults, trouble>>

AfterInfo ==
  /\ pc = "info"
  /\ \/ /\ End <= Sectors /\ partial' = <<>> /\ lba' = extent[1] /\ pc' = "dump"
        /\ UNCHANGED <<driver, opened, faults, trouble>>
     \/ /\ End > Sectors \/ faults < MaxFaults
        /\ faults' = (IF End > Sectors THEN faults ELSE faults + 1)
        /\ Raise /\ trouble' = TRUE /\ UNCHANGED lba

\* What the file gets: a sector's data, or a packet that is none.
Content(p) == [i \in DOMAIN p |-> IF p[i].k = "data" THEN [board |-> at, lba |-> p[i].lba] ELSE NoFile[1]]

AfterRead ==
  /\ pc = "dump"
  /\ \/ /\ partial' = partial \o Content(payload)
        /\ lba' = lba + Packets
        /\ pc' = (IF lba + Packets = End THEN "replace" ELSE "dump")
        /\ UNCHANGED <<driver, opened, faults, trouble>>
     \/ faults < MaxFaults /\ faults' = faults + 1 /\ trouble' = TRUE /\ Raise /\ UNCHANGED lba

CommandDone == (AfterReset \/ AfterId \/ AfterInfo \/ AfterRead) /\ phase' = "cbw"

\* The status wrapper.  Its read may overflow on a data packet or time out,
\* which the reset tolerates; what is read may be no wrapper, or another's.
ReadCsw ==
  /\ phase = "csw"
  /\ \/ /\ Held # "absent" /\ board[at].pipe # <<>>
        /\ board' = [board EXCEPT ![at].pipe = Tail(@)]
        /\ LET w == Head(board[at].pipe) IN
             \/ /\ IF w.k = "csw" THEN StatusOK(Op, Packets, w) ELSE Op = "reset"
                /\ CommandDone
             \/ /\ w.k = "csw" => ~ StatusOK(Op, Packets, w)
                /\ w.k # "csw" => Op # "reset"
                /\ RaiseAs(IF (w.k = "csw" /\ w.tag # tag) \/ (w.k # "csw" /\ Op # "read")
                           THEN "plain" ELSE "usb")
                /\ UNCHANGED <<phase, lba, faults, trouble>>
     \/ /\ (Silent /\ UNCHANGED <<faults, trouble>>) \/ NoTransfer
        /\ IF Op = "reset"
           THEN Close /\ pc' = "wait_rom" /\ phase' = "cbw" /\ UNCHANGED partial
           ELSE Raise /\ UNCHANGED phase
        /\ UNCHANGED <<board, lba>>
  /\ UNCHANGED <<args, at, live, first, owned, chunk, tag, payload, target, killed>>

\* One control transfer of _upload; after the last of the usbplug
\* download_boot closes the handle.
Upload ==
  /\ pc \in {"ddr", "plug"}
  /\ \/ /\ Held = "maskrom" /\ RomTakes(at, IF pc = "ddr" THEN "471" ELSE "472", Chunks[chunk])
        /\ IF chunk < Len(Chunks)
           THEN chunk' = chunk + 1 /\ UNCHANGED <<pc, driver, opened>>
           ELSE /\ chunk' = 1
                /\ IF pc = "ddr" THEN pc' = "plug" /\ UNCHANGED <<driver, opened>>
                                 ELSE pc' = "wait_plug" /\ Close
        /\ UNCHANGED <<partial, faults, trouble>>
     \/ /\ Held # "maskrom" \/ faults < MaxFaults
        /\ faults' = (IF Held = "maskrom" THEN faults + 1 ELSE faults)
        /\ trouble' = TRUE /\ Raise /\ UNCHANGED <<board, chunk>>
  /\ UNCHANGED <<args, at, live, first, owned, cmdVars, lba, target, killed>>

Start ==
  /\ pc = "idle" /\ session < MaxSessions /\ session' = session + 1
  /\ \E e \in Extents \cup {<<0, Sectors>>}, j \in {"burn", "dump"} :
       /\ j = "burn" => e = <<0, Sectors>>
       /\ job' = j /\ extent' = e
  /\ pin' \in Boards \cup {NoBoard}
  /\ pc' = "resolve" /\ at' = NoBoard /\ live' = FALSE /\ first' = NoBoard /\ owned' = FALSE
  /\ chunk' = 1 /\ phase' = "cbw" /\ payload' = <<>> /\ lba' = 0
  /\ trouble' = \E b \in Boards : Len(board[b].pipe) > DrainReads \/ board[b].cmd # NoCmd \/ board[b].stage = "bad"
  /\ UNCHANGED <<bus, sizes, opened, tag, files, faults, killed>>

\* The partition of the profile and the loader's images, from a container or
\* two files: missing, empty or malformed ones raise.
Resolve ==
  /\ pc = "resolve"
  /\ \/ pc' = "power" /\ UNCHANGED <<faults, trouble, partial, driver, opened>>
     \/ faults < MaxFaults /\ faults' = faults + 1 /\ trouble' = TRUE /\ Raise
  /\ UNCHANGED <<board, args, at, live, first, owned, chunk, cmdVars, lba, target, killed>>

\* --power-cycle: the board on the controller's port comes back in MaskROM.
PowerCycle ==
  /\ pc = "power" /\ pc' = "wait"
  /\ \/ UNCHANGED bus
     \/ \E b \in Boards :
          /\ board' = [board EXCEPT ![b] = [mode |-> "gone", stage |-> "471", pipe |-> <<>>,
                                            cmd |-> NoCmd, by |-> 0]]
          /\ UNCHANGED driver
  /\ UNCHANGED <<args, at, live, first, owned, opened, chunk, cmdVars, lba, files, ghost>>

\* Mutant: the board that comes back may be any.
Path_Unpinned == pin

\* The first wait takes any board, or the one of --usb-path; the others are
\* pinned to the port of the board found.
Path == IF pc = "wait" THEN pin ELSE first
Wanted == IF pc = "wait" THEN "any" ELSE IF pc = "wait_rom" THEN "maskrom" ELSE "loader"

Find == pc \in {"wait", "wait_rom", "wait_plug"} /\ WaitForDevice(Path, Wanted)
FindNothing == pc \in {"wait", "wait_rom", "wait_plug"} /\ WaitExpires(Path, Wanted)

OpenStale == pc = "open_stale" /\ Open("reset")
OpenRom == pc = "open_rom" /\ Open("ddr")
OpenPlug == pc = "open_plug" /\ Open(IF job = "burn" THEN "id" ELSE "info")

Command ==
  /\ pc \in {"reset", "id", "info", "dump"}
  /\ SendCbw(Op, Packets, lba) \/ ReadData(Packets) \/ ReadCsw

\* tmp.replace(target).
Replace ==
  /\ pc = "replace"
  /\ \/ target' = partial /\ partial' = NoFile /\ pc' = "close"
        /\ UNCHANGED <<driver, opened, faults, trouble>>
     \/ faults < MaxFaults /\ faults' = faults + 1 /\ trouble' = TRUE /\ Raise /\ UNCHANGED target
  /\ UNCHANGED <<board, args, at, live, first, owned, chunk, cmdVars, lba, killed>>

Finish ==
  /\ pc = "close" /\ Close /\ pc' = "ok"
  /\ UNCHANGED <<board, args, at, live, first, owned, chunk, cmdVars, lba, files, ghost>>

\* The process ends: the system takes its handles back, not its detached driver.
Gone == /\ opened' = {}
        /\ driver' = [b \in Boards |-> IF driver[b] = "ours" THEN "lost" ELSE driver[b]]

Exit ==
  /\ pc \in {"ok", "failed"} /\ pc' = "idle" /\ Gone
  /\ UNCHANGED <<board, args, at, live, first, owned, chunk, cmdVars, lba, files, ghost>>

Kill ==
  /\ pc \notin {"idle", "ok", "failed"} /\ faults < MaxFaults /\ faults' = faults + 1
  /\ pc' = "failed" /\ killed' = TRUE /\ trouble' = TRUE /\ Gone
  /\ UNCHANGED <<board, args, at, live, first, owned, chunk, cmdVars, lba, files>>

Ended == pc = "idle" /\ session = MaxSessions /\ UNCHANGED vars

BoardStep == \E b \in Boards : Appear(b) \/ UsbplugRuns(b) \/ Leaves(b) \/ Vanish(b)
HostStep ==
  \/ Resolve \/ PowerCycle \/ Find \/ FindNothing \/ OpenStale \/ OpenRom \/ OpenPlug
  \/ Upload \/ Command \/ Replace \/ Finish \/ Exit
Next == Start \/ HostStep \/ Kill \/ BoardStep \/ Ended

\* The host's waits and transfers have timeouts; a board answers a command or
\* comes back on its own.
Fairness ==
  /\ WF_vars(HostStep)
  /\ \A b \in Boards : WF_vars(UsbplugRuns(b)) /\ WF_vars(Leaves(b))
                        /\ WF_vars(Appear(b) /\ board[b].mode # "gone")

Spec == Init /\ [][Next]_vars /\ Fairness

---------------------------------------------------------------------------

Items == [board : Boards \cup {NoBoard}, lba : Nat]

TypeOK ==
  /\ \A b \in Boards : board[b].mode \in {"gone", "maskrom", "starting", "loader", "leaving", "resetting"}
  /\ driver \in [Boards -> {"bound", "ours", "lost"}]
  /\ at \in Boards \cup {NoBoard} /\ first \in Boards \cup {NoBoard} /\ opened \subseteq Boards
  /\ phase \in {"cbw", "data", "csw"} /\ chunk \in Nat \ {0}
  /\ partial \in Seq(Items) /\ target \in Seq(Items)

\* A session stays with the board it found: the handle it holds and every
\* handle it has open belong to that port, though other boards come and go
\* while this one is off the bus (wait_for_device's usb_path).
SameBoard ==
  /\ at \in {first, NoBoard} /\ opened \subseteq {first}
  /\ pin # NoBoard => first \in {pin, NoBoard}

\* What dump-flash gives the name of the dump, and reports, is a complete image
\* of the extent asked, of the board it found: no packet of another command,
\* no short transfer and no other board's data (command, dump_image).
DumpIsRight == pc \in {"close", "ok"} /\ job = "dump" => target = Image(first, extent)

\* dump-flash implements BackupFile: whatever fails or is killed in the
\* middle, the file is what it was or a complete image of one board, and it
\* is replaced before success is reported (.partial and tmp.replace).
DumpImages == {Image(b, e) : b \in Boards, e \in Extents \cup {<<0, Sectors>>}}
DumpState ==
  IF pc \in {"idle", "ok", "failed"} THEN pc
  ELSE IF pc = "close" /\ job = "dump" THEN "replaced" ELSE "busy"
Backup == INSTANCE BackupFile WITH
  Images <- DumpImages, Before <- NoFile, file <- target, job <- job, state <- DumpState
BackupFileSpec == Backup!Spec

\* Only a killed process leaves a .partial file behind, and an invocation
\* that got its usbplug running leaves neither an open handle nor, unless it
\* is killed, the interface without its kernel driver.
CleanedUp ==
  pc \in {"ok", "failed"} =>
     /\ killed \/ partial = NoFile
     /\ owned => opened = {} /\ driver[first] \in {"bound", IF killed THEN "lost" ELSE "bound"}

\* An invocation that meets no fault succeeds, whatever the sizes of the
\* images and whatever up to DrainReads packets an earlier invocation left
\* unread in the usbplug it found.
CleanSucceeds == pc = "failed" => trouble

\* A flash command only goes to a usbplug this invocation has uploaded.
FreshLoader ==
  [][\A b \in Boards :
       (board'[b].cmd # board[b].cmd /\ board'[b].cmd.op \notin {"none", "reset"})
         => board[b].by = session]_vars
=============================================================================
