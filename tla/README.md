# defib: TLA+ models, model checking and proofs

defib recovers IP cameras whose flash is empty or broken. It talks to a HiSilicon or
Goke chip's boot ROM over a UART, or to a Rockchip's over USB, loads a small program
into RAM (U-Boot, defib's own flash *agent*, a *usbplug*), and reads or writes the flash
through it. What makes it hard is what makes it hard to test: programs on both ends of
a lossy wire, a power switch and a person between them, answers that do not say which
question they belong to, and a flash chip that must not be left half written while the
tool says "done".

This directory holds models of the parts that carry that risk, the configurations that
check them with TLC, and proofs of their main safety properties with TLAPS.

| module | models | runs | proofs |
| --- | --- | --- | --- |
| `FlashStream` | writing an image through the agent: `FlashAgentClient.write_flash` and the agent's `handle_flash_stream` | `flash_stream`, `flash_stream_nand`, `flash_stream_tail` (through `MCFlashStream`) | `FlashStreamProofs` |
| `AgentLink` | every other operation of `FlashAgentClient`, as the `defib agent` commands call them, and the agent's handlers | `agent_link`, `agent_link_baud` (through `MCAgentLink`) | `AgentLinkProofs` |
| `RecoverySession` | getting a program into the camera: `RecoverySession.run`, its handshake task, the power controller and the camera | `recovery_session` | `RecoverySessionProofs` |
| `BootUpload` | one stage of that program's upload, frame by frame, and the boot ROM | `boot_upload` | `BootUploadProofs` |
| `UBootConsole` | the U-Boot console and the camera behind it, as `send_command` sees them; extended by the next two | | |
| `Install` | `defib install` (`_install_async`) | `install` | `InstallProofs` |
| `Restore` | `defib restore` (`_restore_async`) | `restore` | `RestoreProofs` |
| `UsbRecovery` | Rockchip recovery over USB: `rockusb/` and the USB branches of `burn` and `dump-flash` | `usb_recovery` (through `MCUsbRecovery`) | `UsbRecoveryProofs` |
| `BackupFile` | abstract: what `dump-flash` promises about its file; implemented by `UsbRecovery` | `usb_recovery` | `UsbRecoveryProofs` |
| `FlashDump` | dumping a flash through the console: `dump_flash`, and the dump keys of the text user interface | `flash_dump`, `flash_dump_cancel` | `FlashDumpProofs` |

To check: `tlc -config Install.cfg Install`, `tlapm InstallProofs.tla`, and so on.
`PROJECT.json` maps each definition to the source lines it models, names a mutant for
each checked property, and lists the hazards of the code.

## Inventory of the system

Paths are relative to `src/`; `defib/` stands for `src/defib/`.

**Agent (bare-metal C, `agent/`).** State: the software receive ring `soft_rx` (72 KiB,
`protocol.c`), two sector buffers of the stream handler, the flash chip, the baud rate.
Operations: one command at a time from the main loop (`main.c:1330-1450`): INFO, READ,
WRITE, ERASE, CRC32, FLASH_PROGRAM, FLASH_STREAM, SELFUPDATE, SCAN, MARK_BAD, MEMBW,
SET_BAUD, REBOOT; while idle a READY packet every 2 s. There are no interrupts: bytes
are moved into `soft_rx` by polling from inside the flash driver's wait loops. Correct
when a command's answer is true of the chip, when nothing outside the named range is
touched, and when a broken transfer leaves it ready for the next command.

**Host client (`defib/agent/client.py`, `protocol.py`, `cobs.py`).** State: the
transport, its receive buffer, the baud rate. It sends a command and reads replies by
their type, skipping READY. Correct when it reports success only for what happened,
and always comes back.

**Boot protocols (`defib/protocol/`).** Standard (HEAD/DATA/TAIL frames, with or
without the *prestep* that makes a chip a "frame-blast" one), V500 and CV6xx.
State: the sequence number of a stage, the stages completed, a retry counter per frame.
Correct when a stage counted as completed has reached the boot ROM.

**Recovery session (`defib/recovery/session.py`).** Runs the power controller, the
handshake (as an asyncio task) and the firmware transfer, in an order that depends on
the chip, with a bounded number of attempts. Correct when the handshake belongs to the
boot that gets the firmware, when success is real, and when it comes to an end.
`recovery/rack_fastboot.py` does the same through one HTTP request to a pod.

**Power controllers (`defib/power/`).** RouterOS (PoE mode saved by `power_off` and
restored by `power_on`; `power_cycle` returns while the switch is still timing it),
Vectis (pulses on a shared serial line), rack pod (HTTP). Correct when the port ends in
the mode it was found in.

**Transports (`defib/transport/`).** Serial, RFC 2217, socket, rack pod. State: bytes
received beyond what was asked for. Correct when no byte is lost or handed out twice,
also around a read that timed out.

**TFTP server, temporary address (`defib/network/`).** State: one transfer record per
client, block numbers; the address added to an interface. Correct when a transfer
delivers the file, and the address is removed by the one who added it.

**Rockchip USB (`defib/rockusb/`).** State: the handle and whether the kernel driver is
detached, the tag of the command under way, the dump's `.partial` file. Operations: find
and pin a board, upload two images to the boot ROM, wait for it to come back, command,
data and status transfers. Correct when a status is paired with its command, when it stays
with one board, and when a backup is whole or untouched.

**U-Boot console (`defib/flashdump.py`, `protocol/download_cmd.py`).** A command is written
and whatever comes before the prompt, or the timeout, is its answer. `dump_flash` prints
the flash block by block with a CRC each and continues a file it finds. Correct when the
file is the flash.

**Install and restore (`cli/app.py`).** Long sequences of the above: archive, power,
upload, console, TFTP server and temporary address, a list of U-Boot commands, each with
its own way of failing. Correct when "done" means that the partitions are in the flash,
when a camera that can boot is not made unbootable early, and when nothing is left behind.

**No protocol state:** firmware download, UBI images, profiles, capture and replay, and most
of the terminal and text user interface. The web client is a second implementation of the
standard protocol.

**How they meet.** `cli/app.py` calls `RecoverySession.run`; the session calls the power
controller and a boot protocol on one transport; when the program loaded is the agent,
`FlashAgentClient` continues on the same transport, and when it is U-Boot, install and
restore continue with console commands that make U-Boot fetch files from a TFTP server on
the host or in the rack pod. Host and camera share nothing but the wires. In the models
the upload that `RecoverySession` and `BootUpload` describe is one step of `Install`,
`Restore` and `AgentLink`, and `write_flash` (`FlashStream`) one step of `AgentLink`.

**What is hard.** Reception overlaps with erasing and programming; replies are matched
by type or by position only; sequence numbers are not checked; timeouts on both ends differ
by an order of magnitude; two sides change their baud rate one after the other; the
handshake runs while the power is being cut; a board leaves the bus and another appears; a
user may power-cycle, cancel or kill at any moment; retries depend on how far an attempt
got. The list is under `hazards` in `PROJECT.json`, each with the properties that would
catch it.

## FlashStream

### State and actions

`hpc`, `hs`, `hsent` are `write_flash`'s position, its loop variable `s` and the packets
sent of that sector; `apc`, `asec`, `buf`, `rx`, `pend` are `handle_flash_stream`'s
position, `s`, the two sector buffers, `rx_buf` and `pending_*`. `h2a` is everything on
its way to the agent: its first `nsoft` packets have reached `soft_rx`, the others are
on the wire. `a2h` is on its way to the host. `flash` is the chip, page by page.

| code | action |
| --- | --- |
| `write_flash`: clear, request | `HostStart` |
| its acknowledgement | `HostAck` |
| the sector loop | `HostSector`, `HostSend`, `HostSeqOverflow`, `HostProgress` |
| the final reply | `HostFinal` |
| `TransportTimeout` | `HostTimeout` |
| main loop: dispatch, READY | `AgentCommand`, `AgentReady` |
| `handle_flash_stream`: the loop over sectors | `AgentSector`, `AgentEraseSkip`, `AgentRecv`, `AgentRecvTimeout`, `AgentRotate` |
| `erase_and_program` | `AgentErase`, `AgentProgram` |
| final `ACK_OK` | `AgentFinalAck` |
| `soft_rx_drain` | `Arrive`, `Overflow` |

External are the wire (`SendToAgent`, `SendToHost` may lose or damage what they send),
power loss (`AgentDies`), and the host program's end (`HostGone`: what was received
for it is cleared by the next operation).

### Abstractions

- The content of page `p` of sector `s` of the image is the pair `<<s, p>>`; which
  pages are all 0xFF is a set, chosen freely. So any mix-up of pages is visible, and
  blank pages and sectors are covered in all combinations.
- One DATA packet carries one page. In the code a packet is 512 bytes and a page
  256 bytes (NOR) or 2 KiB (NAND): what matters is that a sector is several packets,
  received whole before the first page is programmed.
- COBS and CRC-32 are what they guarantee: a damaged packet is recognised (`BAD`).
- The request starts at a sector boundary, as with the only caller (`cli/app.py:1556`),
  and `get_info` was called before, so that the sector size is the chip's.
- The change of baud rate around `write_flash` is in `AgentLink`; not modelled is the
  refusal of commands by an agent whose flash was not identified.
- A failing erase keeps some pages; the code's check after an erase looks at 32 bytes
  and may miss it, and the result of `flash_write_page` is not looked at. The cells
  concerned are collected in `hwlost`, and no property promises anything of them.

### What is checked

- `FlashedImage`: if `write_flash` returns True, the chip holds the image.
- `UntouchedUntilReceived`: no sector outside the image changes, and no sector with data
  loses its old contents before its new data is in RAM. (The comments at `main.c:799` and
  `main.c:804` describe another order, erase before receive; see *Where text and code disagree*.)
- `PendingHoldsItsSector`: the sector waiting in one buffer is not disturbed by the
  reception into the other.
- `SoftRxNeverOverflows`: while the agent is busy with the chip, `soft_rx` suffices.
- `CleanLinkSucceeds`: without any fault, an image that fits is written. It is violated
  only when `write_flash` fails for no reason.
- `StreamReturns`: once the request is accepted, `write_flash` comes back. It excludes
  lost replies: every READY packet restarts the host's timeout, so a host that misses an
  error reply waits for as long as the agent is idle.

### Runs and bounds

- `flash_stream`: a NOR part. Four sectors of two pages, base sector 1, images of three
  sectors (the last one short), of one full sector, of one sector too many, and an empty
  one, with every subset of blank pages. Three sectors are needed for both buffers to be
  in use and to be exchanged twice; the short last one for the boundary. Two packets to
  the agent may be lost or damaged (one alone could not hide another), one reply lost, one flash fault or power loss, one
  timeout that fires although an answer is under way.
- `flash_stream_nand`: a sector larger than `soft_rx` (128 KiB against 72 KiB), an
  image of one sector, and one longer than the sequence number counts. The agent drops packets itself here;
  `SoftRxNeverOverflows` and `CleanLinkSucceeds` do not hold, and are not claimed, but a
  success is still never reported for a wrong chip.
- `flash_stream_tail` (violation of `FlashedImage`): `page_is_ff` (`agent/main.c:812`)
  compares whole words. When an image's length is not a multiple of four and its last
  page is 0xFF up to its last word, the bytes behind are never programmed, and
  `write_flash` returns True.

With an image longer than 65536 chunks the sequence number no longer fits
`struct.pack("<H", seq)` (`client.py:699`, the bound `SeqMax`): the exception ends the host's
loop when sectors have been erased and written already (`HostSeqOverflow`).

**Fairness.** `WF(HostNext)`, `WF(AgentNext)`, `WF(Arrive)`: both programs go on while
they can and what is on the wire arrives. Both are plain loops (an asyncio task with
nothing else to run, a bare-metal loop), and each of their waits has a timeout. Faults,
losses and early timeouts have no fairness.

## AgentLink

### State and actions

A host runs one `defib agent` command after another on one of three kinds of transport: a
`port` whose buffers can be cleared, the `rack` pod, and `tcp`, which has no way to change the
rate. `cmd`, `step`, `pc` are the command, the operation it is at and where that operation is;
`got`, `off`, `acks`, `found` its local state; `claims` the operations that have returned
success. `rate`, `task`, `buf`, `ram`, `flash` are the agent's. `up` and `down` are the packets
under way; `stash` of `down` are already in the buffers of `protocol.py`.

| code | action |
| --- | --- |
| a `defib agent` function of `cli/app.py` opens the transport | `Open`; with an upload before it, `Upload`, which need not end |
| `connect` waits for READY | `Connect` |
| `_switch_baud`, `set_baud`, its acknowledgement and its confirmation | `SwitchBaud`, `SetBaud`, `VerifyBaud` |
| an operation sends its request | `Issue`, `WriteFlash`, `DumpSkip`, `CompatSend` |
| it reads answers | `Receive`: `Answered`, `ReadStream`, `WindowAck`, `BlockAck`, `BlockCrc`, `EraseAck`, `ScanAnswer`, `CompatAnswer`; `SkipReady` |
| `TransportTimeout`, draining and retrying of a window | `Timeout`, `Drain`, `Retry` |
| agent: main loop, READY, fallback to 115200 | `AgentTake` with one `Handle...` per command, or `Rejected`; `SendReady`, `IdleRevert` |
| agent: receiving a block of a RAM write | `AgentRecv` (a packet, or `Damaged`), `AgentStarve` |

`defib agent flash` is `FlashScript`, and with `--no-verify` `FlashUnverifiedScript`. `agent read` and
`agent write` with `--no-verify` and `agent flash --no-reboot` leave out the last operation of their scripts:
what holds after each operation of these holds for them, and they have no script of their own.

An `old` agent does not know CMD_SCAN, so that `scan_flash` asks for the CRC-32 of each sector, and
once more unless it is that of an erased one. Nothing gets across while the two rates differ. A sector is one packet of a stream.
The agent may refuse any request that names an address or needs the flash (`Rejected`: the checks of addresses
and sizes, and a chip that was not identified): no addresses are modelled, so this is a free choice and no fault. A DATA packet that
arrives damaged ends the block being received at once with an error (`Damaged`: `proto_recv` returns 0), as
silence does later (`AgentStarve`); what had come of the block is in the RAM. A damaged request is one that was lost.

### What is checked

- `ReadyMeansIdle`: `connect` is a barrier. Whatever the command before left under way, an
  operation starts with an agent that has nothing to do and no answer but READY in flight.
- `SuccessIsTrue`: what `read_memory`, `write_memory` and `erase_flash` report is so, although
  nothing in an answer names its request.
- `ScanIsRight`: a scan's result is in its place, and so is what `agent scan` then saves.
- `RebootsIntoImage`: `agent flash` without `--no-verify` reboots only into an image it has verified. It
  speaks from the moment the command has its first answer (`claims # {}`): before, a reboot that the command before
  asked for may still be under way. With `--no-verify` it reboots into whatever `write_flash` left.
- `FoundAgain` (liveness): an agent nobody talks to returns to 115200 baud, where the next
  command looks for it, whichever of the two sides had switched. (`main.c:1314-1326` says it stays there
  until the next power cycle; see below.)
- `CommandsEnd` (liveness): every command that talks to the agent returns, unless a packet was lost or late, or the
  transport cannot follow the agent to another rate. Both exceptions are needed: each READY of an
  idle agent restarts the host's timeout (`protocol.py:271`). An upload before the command is left out: its
  `protocol.handshake` has no deadline (`app.py:1172`, `1324`) and waits for ever for a camera that does not enter its boot ROM.

Run `agent_link` (2,023,360 states): two commands, so that one starts in what the other left; two
sectors, one empty and one not, three blocks with a window of two (a full and a short window), two chunks a block; one lost or damaged
packet or failing flash operation and one answer after the timeout; any request refused.

`agent_link_baud` (violation of `AbortsCleanly`, under the same fairness and without any fault): on
a transport without baud signalling the agent has switched when `set_baud` aborts. The request
that is to bring it back leaves at a rate it no longer hears, `_switch_baud` ignores the
False, and the operation waits for answers that cannot be heard. Once the agent has fallen back, its
READY packets restart that wait for ever, where `client.py:1016-1018` says "we abort cleanly".

**Fairness.** `WF(Host)`, `WF(Agent)`, `WF(IdleRevert)`: a coroutine whose reads have timeouts, a
bare-metal loop, and that loop's idle counter. Nothing forces a command to start, an upload to end, a packet to be lost
or an answer to be late.

## RecoverySession

### State and actions

`pc` is where `run` is, `attempt` its loop variable, `task` the handshake, `stages` the
number of `stages_completed`, `result` what was returned. The camera (`cam`) is off, in
its boot ROM (`rom`), running its own system (`os`), in a boot ROM that knows the host
(`greeted`), or running what it was sent (`uboot`). `switch` is its power. `boot`,
`heard`, `got` and `cut` are history: which power-on this is, during which one the handshake
ended, how many stages this boot has received, and whether the camera was reset by hand in the
middle of this attempt's transfer.

| code (`session.py`) | action |
| --- | --- |
| top of the retry loop, choice of the order | `Attempt` |
| 50 ms later, `power_cycle` is called | `RequestCycle` |
| `power_cycle` returns, raises | `CycleReturns`, `CycleFails` |
| `await handshake_task` | `HandshakeTaken` |
| `send_firmware` | `SendStage`, `WaitTraining`, `SendFails` |
| break phase, return | `Finish` |
| the protocols' `handshake` | `HandshakeAnswered`, `HandshakeFooled`, `HandshakeRepeats` |

Four protocol styles are distinguished: `blast` (standard with a prestep: power first,
then the handshake, and without a power controller the greeting is part of
`send_firmware`), `std`, `v500`, `cv6xx` (handshake task first, power afterwards).
A controller is synchronous, or asynchronous (RouterOS: the call returns once the switch
has taken the power away, and the switch brings it back; that it has cut the power when
it answers is an assumption on the switch). `power_cycle` may raise before anything
happened, or between off and on, which leaves the camera dark (`stuck`).

`HandshakeFooled`: the standard handshake counts five spaces in a row, and a running
system that prints them is taken for a boot ROM. `WaitTraining`: CV6xx waits for DDR
training by the clock only. `Reached`: a camera that was reset between two stages waits in its boot ROM for a
greeting. The standard protocol gives it one, with `_rehandshake` before the SPL and U-Boot or, for
`blast`, with the start frame again before U-Boot (`hisilicon_standard.py:258-293`, `618-622`, `678`), and goes on with the
next stage; V500 and CV6xx do not, and their frame goes unanswered. Stages are atomic here: how frames, acknowledgements and
retries make up a stage is `BootUpload`, and a stage that the host wrongly believes to be
delivered is that module's concern.

### What is checked

- `HeardAfterReset`: for `blast`, the firmware goes to a powered camera that was heard
  after this attempt's reset. The order in `run` exists for this.
- `SuccessIsOneBoot`: success means that the camera runs what it was sent, and that one boot of it got every
  stage, whatever was reset, answered early, or repeated. The exception is stated in it: without a power
  controller, a camera that the user resets in the middle of a transfer is greeted again by the standard protocol and
  sent the stages that are left, so that success is reported for a boot that never got the first ones. (The
  model lets such a boot ROM take them; whether U-Boot then runs without DDR set up is the chip's affair.)
- `NoOrphanHandshake`: no handshake task goes on writing when `run` has returned.
- `RunReturns`: for a camera whose boot ROM keeps listening, `run` comes to an end. For
  other cameras it need not: the handshake loops have no deadline.

Run `recovery_session` has all styles and controllers, three attempts (a first, a middle
and a last one) and two power cycles by hand at any moment, also in the middle of a
transfer. Two things the model showed are worth knowing when reading `session.py`:

- The comment at `session.py:132-136` wants the handshake to be streaming when the boot ROM
  begins to listen after the reset. A boot ROM that is listening before the reset (blank flash,
  earlier attempt) ends the handshake within the 50 ms, and after the reset nothing is
  sent. The firmware then goes to a boot ROM nobody greeted; the attempt fails and is
  repeated, as `SuccessIsOneBoot` and `RunReturns` confirm.
- The comment at `session.py:258-261` says that a failure past DDR initialisation is final. The
  code looks for `Stage.DDR_INIT`, which CV6xx and V500 never report, so theirs is repeated.

**Fairness.** `WF(RunNext)` and `WF(CamNext)`: `run` and the power switch go on.
`WF(HandshakeAnswered)`: a boot ROM that stays listening hears one of the frames that are
repeated for ever. The closing of its window, power cycles by hand and failures have no
fairness.

## BootUpload

### State and actions

`pc`, `f`, `tries` are where the host is, the frame it is at (-1 the one of
`sendFrameForStart`, 0 HEAD, 1..n DATA, n + 1 TAIL) and how often it was sent. `toRom` and
`toHost` are frames and answers under way. `hdr`, `want`, `ram` are the boot ROM: which HEAD
it obeys, which frame it waits for, the numbers of the chunks it has stored.

| code | action |
| --- | --- |
| `_send_frame_for_start` | `StartSend`, `StartAck`, `StartStray`, `StartTimeout` |
| `_send_frame_with_retry`: an attempt, any other byte | `SendFlushed`, `Stray` |
| `_send_frame_wait_ack` (V500, CV6xx): write, NAK | `SendOnce`, `Naked` |
| 0xAA is read, and the caller goes on to the next frame | `Acked` |
| no 0xAA in time; what the caller makes of it | `Timeout`, `GiveUp` |

Four styles stand for the callers: `blast` and `plain` (TAIL is best effort), `strict` (SPL of
a chip without prestep, where TAIL must be acknowledged) and `nak` (V500, CV6xx). `_send_frame_with_retry` treats an
exception of the transport like a timeout.

The boot ROM is external: it acknowledges a HEAD, the frame it waits for, and a repetition
of the DATA frame before; it refuses what is damaged or out of turn; it compares sequence
numbers modulo `SeqMod`. After TAIL it runs what it was sent. A `quiet` one leaves as soon
as it has all data, which `hisilicon_standard.py:543-544` and `:639-641` report of av200 and
av300. `flush_input` forgets any number of answers under way, oldest first, since some have
arrived and some have not; `flush_output` forgets any number of frames, newest first.

A timeout is free on a silent line. Otherwise it means that an answer comes later than
150 ms (4 s): `late` counts these, and an acknowledgement left over from before the stage.

### What is checked

- `Delivered`: a stage reported as sent is complete in memory, in order and at its own
  address, TAIL acknowledged or not, if no answer was late.
- `StoredInOrder`: what the boot ROM stored is a prefix of the image at all times, also
  past the wrap of the sequence number and with late answers.
- `RetriesSuffice`: HEAD or DATA is given up only when as many transmissions as the code
  allows were lost or damaged. A `quiet` boot ROM is an exception: when its
  acknowledgement of the last DATA frame is lost, nobody is left to repeat it.
- `UploadEnds`: every upload comes to an end.

Run `boot_upload`: images of one and five DATA frames with `SeqMod = 4` (256 in the code), so
that DATA wraps; two or three tries, two losses, two damaged frames, two late answers. `Delivered`
excludes late answers for a reason: one late acknowledgement stands for the next frame, from then
on each frame is sent before the one before was taken, the `flush_output` of the next attempt drops
what has not left, and if that is the last DATA frame the refused TAIL does not matter to the
host (`hisilicon_standard.py:643`, "non-fatal, all data sent"). And of the ten retries after a NAK the
answer to the tenth is not read (`hisilicon_v500.py:108`).

**Fairness.** `WF(HostNext)` and `WF(RomNext)`: the upload is a sequential coroutine all of
whose reads have timeouts, and what is on the wire reaches the boot ROM.

## UBootConsole, Install, Restore

### State and actions

`UBootConsole` is one console and the camera behind it. `queue` holds the commands U-Boot has
taken and not run, `answers` what has come back; `waiting` says that the host is inside
`send_command`. In `shell` mode (`flashdump.send_command`) input is thrown away and the line is
written, also while U-Boot is busy, where it waits in the UART or is `mangled`; in `download` mode
(`DownloadCommandClient.send_command`) a busy U-Boot takes nothing (`Refused`). `Reply` and `Expire` end a
command; `late` counts the answers that came after their timeout, which the *next* command gets
to see. `alive` is false for a camera that says nothing; `DetectMode` takes it for a shell.

The camera is external. What matters of it: a transfer can fail or be damaged; an erase or write
can fail; a write only clears bits; a read can fail and leave in RAM what was there, the image just downloaded included
(the partition is then in `blind`); a build may have no `crc32` (`hasCrc`); U-Boot's environment lives in RAM
until `saveenv`, and U-Boot has loaded it before the first command. During a restore it may also save it into the boot area by itself, whenever
it sets a variable or uses the network (`Restore.SpillsEnv`, from the comment at `app.py:3471-3473`). In `Install` the environment
has its partition for itself. The contents of a
partition or of RAM is a name: `old`, `erased`, `bad`, a UBI `volume`, or the partition whose image it is.
A CRC-32 is that name.

| code (`_install_async`) | action of `Install` |
| --- | --- |
| archive, MD5 sums, U-Boot | `Extract`, `GetUBoot` |
| power controller, transport, upload, console | `PowerSetup`, `OpenLink`, `Burn`, `Detect` |
| TFTP in the pod or on the host, temporary address | `Backend`, `Stage`, `Address`, `Serve` |
| the commands (`Plan`) | `Issue`, then `Answered`, `Unanswered` or `NotTaken`, each going on with `Resume`; `Replace` |
| the AsyncExitStack and the end | `CloseServer`, `LeaveAddress`, `ClearPod`, `Finish` |

`Plan` is the list of commands for the kind of flash at hand, `step` the next one; `Resume` is what the code
does with each answer, including the many it does not look at. `Restore` is built the same way:
`PowerOff` before the upload, `Probed` guesses the flash from three answers, `Networked` repeats ping, `Wrote`
goes through `PartPlan` of each partition in `WriteOrder`, and a partition that fails is skipped (`Skip`).

### What is checked

- `InstalledMeansFlashed`: an install that has saved the environment, or ended well, has written boot, kernel and
  rootfs. Erase and write answers are not looked at in the code; reading back and comparing is what makes this
  true. It is claimed where the code can compare at all, and TLC finds it violated without each of these conditions: on NOR
  (on NAND nothing is read back), with answers in time and a U-Boot that has `crc32` (an answer without a CRC counts as
  verified, `app.py:2752-2753`), and for partitions that could be read back (the answer of `sf read` is not looked at,
  `app.py:2782`; when it fails, the CRC is taken of the downloaded image still in RAM). `README.md:72` makes no such exceptions.
- `StopsAtFirstFailure`: a partition is touched only when those before it are in place, under the same conditions.
- `MacIsItsOwn`: `saveenv` never persists the MAC address all cameras share, and a camera that has one of its own keeps it,
  with or without `--wipe-env`: U-Boot has read the old environment before it is erased.
- `HostLeftAsFound`: whichever step failed, the server is closed, and no address that install added is left without an
  attempt to remove it. A removal that fails is only logged, in `remove_ip` and in `_undo_add`, and the address stays
  (`leftover` in `held`). (The pod's files stay if a `tftp_put` fails: their clearing is registered after the last one.)
- `BootIsLast`: once restore has begun to erase the boot partition no other one changes, also with late
  answers and commands still in the UART. Before, U-Boot's environment may have got into it at any time, which is why it is last.
- `CleanRestore`: a restore in which nothing went wrong leaves the dump in the flash, whatever it skipped and wherever
  U-Boot saved its environment, so a flash guessed wrongly, a partition skipped without need or a boot partition written too
  early would show.
- `LeftInOrder`: no server is left running, nothing is erased in a camera without power, and a complete
  restore has switched the camera on again. (Early exits after `power_off` leave it off, and files staged in the pod
  before the `try` stay there, although `app.py:3439-3440` says otherwise.)
- `InstallEnds`, `RestoreEnds` (liveness): each returns, or waits for ever in `session.run` for a camera that does not enter its
  boot ROM: its handshake has no deadline (`hisilicon_v500.py:78`). With a rack pod, which has a timeout, they return.

Run `install` (1,372,126 states): three kinds of flash, both console modes, a silent camera, one late answer
(one is enough to shift all answers after it) and two faults (one to damage, one that hides it);
one fault for a U-Boot without `crc32` (`MaxNoCrc`), which notices none and of whose flash nothing is claimed.
`Powers = {"none", "rack"}`: install treats `poe` like `none` but for a step that may fail. Run
`restore` (1,114,440 states): all media and controllers, one late answer, one fault.

**Fairness.** `WF(Host)`, `WF(CameraStep)`: one coroutine with a timeout on every command, and a U-Boot
that goes on with what it has taken. `Burn` is part of neither unless the pod does it.

## UsbRecovery and BackupFile

### State and actions

Every Rockchip board in MaskROM mode has the same USB id, so the port is its identity. Per port,
`board` holds its mode (gone, maskrom, starting, loader, leaving, resetting), the boot ROM's stage, the packets in its bulk IN
pipe, the command it has taken and which invocation uploaded its usbplug; `driver` whether its kernel
driver is bound. `first` is the board found, `at` the one held, `live` whether the handle is still
current; `opened` the handles not closed. `phase`, `tag`, `payload`, `lba` are the command under way;
`partial` and `target` the two files.

| code | action |
| --- | --- |
| `_open_usb_target`: arguments, power, waiting for a board | `Start`, `Resolve`, `PowerCycle`, `Find`, `FindNothing` |
| opening, detaching the driver, draining stale input | `OpenStale`, `OpenRom`, `OpenPlug` |
| `return_to_maskrom`, `read_flash_id`, `read_flash_info`, `dump_image` | `Command`: `SendCbw`, `ReadData`, `ReadCsw` and what the caller does next |
| `download_boot`, chunk by chunk | `Upload` |
| `tmp.replace`, the `finally` blocks, the end | `Replace`, `Finish`, `Exit`; `Kill` |

External: boards appear, vanish, answer short, with another status or not at all (`BoardStep`), and the boot ROM ends an
image at the first short transfer (`RomTakes`). `BuildMaskromChunks` is the framing of an image with its CRC, as the
code computes it. One data packet is one sector. Simplified, without effect on the properties: a loader has one DDR and one
usbplug entry (`recovery.py:86`, `93` go through several), a `power_cycle` does not raise (an invocation would end before it has
found a board, `app.py:3791-3794`), and giving the kernel its driver back succeeds (`close` swallows a failure); a
usbplug counts as that of the invocation during which it comes up (`by`), also when the one that uploaded it was killed just before.

`BackupFile` says what `dump-flash` promises: the file changes once, from what it was to a complete
image, success is reported after that and not otherwise, and a busy invocation ends. `UsbRecovery` implements it
with `file` as `target` and the invocation's phases as `DumpState` (`BackupFileSpec`, with liveness, by TLC;
`ImplementsBackup`, the safety part, by proof).

### What is checked

- `SameBoard`: an invocation keeps to the board it found and to `--usb-path`, though others come and go while its
  own is off the bus.
- `DumpIsRight`: what gets the name of the dump is the extent asked for, of that board: no packet of an abandoned
  command, no short transfer.
- `FreshLoader`: flash commands only go to a usbplug this invocation has uploaded.
- `CleanedUp`: only a killed process leaves a `.partial` file; handles are closed and the kernel has its driver back. It
  is about invocations whose usbplug ran: a `RockusbError` from `return_to_maskrom`, or a failing `download_boot`, leaves
  the handle to the end of the process, although `app.py:3894` says "Release the interface either way".
- `CleanSucceeds`: without a fault an invocation succeeds, for images of all lengths modulo the chunk size that matter
  and with stale packets in the pipe.
- `BackupFileSpec`: the refinement.

Run `usb_recovery` (612,454 states): two ports, two invocations, so that the second meets what the first left; images
whose length leaves no room, and one byte, for the CRC in the last chunk (`ChunkSize = 4`, sizes 6 and 7); three sectors
with transfers of two (a full and a short one); a usbplug with unread packets, one more than `DrainReads`; one fault.

**Fairness.** The host's steps (every transfer and wait has a timeout), the boards' answers and their return
to the bus after an upload or a reset.

## FlashDump

`dump_flash` per dump `w`: `pc`, `sent`, `off`, `att`, `crc`, `chunk`, its file. The camera's output is a sequence of
lines with addresses; line `i` of the flash holds `i`. Of one answer any lines may be lost and any others damaged, and its last line
may have lost bytes ("ragged"); a command may be refused, an
answer late, the transport raise, the camera hang, the process be killed. `Harm` names what an answer has suffered. Damage to the address of a line is
not modelled, and a ragged line counts as one line with a wrong value. `Detect`, `Begin`, `Probe`, `SfRead`, `Sanity`, `Resume`,
`MdAnswered`, `MdRaised`, `SetupRaised`, `Nudged`, `CrcAnswered`, `CrcRaised`, `Write` are the steps of `dump_flash`;
`StartDump`, `Cancel`, `CleanupAfterDump` the keys of `ProgressScreen` with their one flag.

- `FileIsFlash`: the file is a prefix of the flash at all times and the whole flash at the end, over kills, resumptions,
  refused commands, answers that lost their last lines ("tail") and, where U-Boot has `crc32`, any damage and any loss that leaves a
  block its first and its last line ("damage", "gap"). It says nothing of
  what the code does not detect: a block that is short and wrong ("short"), since its CRC is not asked for (`flashdump.py:510`) and it
  is written as it is; more answers hit than there are retries; late answers, exceptions of the transport, a kill in the middle of an answer, and two dumps on one console. The last includes a dump that
  has ended: its worker's `finally` empties the line, and what the next dump was waiting for is gone
  (`progress.py`; ghost `kinds` has "overlap").
- `DumpEnds` (liveness): a dump ends although the camera stops answering.
- `flash_dump_cancel` (violation of `CancelStops`): Cancel clears the flag, ctrl+d sets it again for a second dump
  before the first has looked; the first never stops, and both share the console
  (`progress.py:460`: "dump loop will finish current block and stop").

A block is short and wrong when its first line is lost (`parse_md_output` takes the lowest address for the start, and everything
shifts), when its last line is lost and another one with it or damaged, and when its last line has lost bytes. With "short" added to
what `FileIsFlash` allows TLC finds it violated.

Run `flash_dump` (307,167 states): five lines in blocks of three (a full and a short block), two runs on one file, two retries,
two faults. **Fairness:** each dump's steps and the camera's; not the keys, kills and faults.

## What is proved

TLAPS proves these for every value of the constants that satisfies the named
assumptions. `SizeAssumption`, `BoundAssumption`, `SessionAssumption`, `UploadAssumption`,
`UsbAssumption`, `ConsoleAssumption`, `LinkAssumption`, `DumpAssumption`: sizes and bounds are naturals, there is at
least one page, sector, block, line and attempt, an image is empty or has a last page, a chunk has room for more than its CRC.
`PowersAssumption`, `PartsAssumption`: the controllers and partitions are those the code names; so are the
transports of `LinkAssumption`, the contents of `InitialAssumption` and the interfaces of `DumpAssumption`.

| module | theorem | states |
| --- | --- | --- |
| `FlashStreamProofs` | `TypeCorrect` | `TypeOK` |
| | `FlashedImageHolds` | `FlashedImage`, for images without the partial word of `flash_stream_tail` |
| | `SectorsUntouched` | `UntouchedUntilReceived` |
| | `PendingIntact` | `PendingHoldsItsSector` |
| | `SoftRxSuffices` | `SoftRxNeverOverflows`, if `RxCap >= SectorPages` (NOR, not NAND) |
| | `CleanLinkHolds` | `CleanLinkSucceeds`, if `RxCap >= SectorPages` and the sequence number can count the pages of every image |
| `RecoverySessionProofs` | `TypeCorrect` | `TypeOK` |
| | `HeardAfterResetHolds` | `HeardAfterReset` |
| | `SuccessIsOneBootHolds` | `SuccessIsOneBoot` |
| | `NoOrphan` | `NoOrphanHandshake` |
| `BootUploadProofs` | `TypeCorrect` | `TypeOK` |
| | `DeliveredHolds` | `Delivered` |
| | `RetriesHold` | `RetriesSuffice` |
| | `StoredInOrderHolds` | `StoredInOrder`, if `MaxLate + 1 < SeqMod` (256 in the code) |
| `InstallProofs` | `TypeCorrect` | `TypeOK` |
| | `InstalledMeansFlashedHolds` | `InstalledMeansFlashed` |
| | `StopsAtFirstFailureHolds` | `StopsAtFirstFailure` |
| | `MacIsItsOwnHolds` | `MacIsItsOwn` |
| | `HostLeftAsFoundHolds` | `HostLeftAsFound` |
| `RestoreProofs` | `TypeCorrect` | `TypeOK` |
| | `BootIsLastHolds` | `BootIsLast` |
| | `LeftInOrderHolds` | `LeftInOrder` |
| | `CleanRestoreHolds` | `CleanRestore` |
| `UsbRecoveryProofs` | `TypeCorrect` | `TypeOK` |
| | `SameBoardHolds` | `SameBoard` |
| | `DumpIsRightHolds` | `DumpIsRight` |
| | `FreshLoaderHolds` | `FreshLoader` |
| | `CleanedUpHolds` | `CleanedUp` |
| | `CleanSucceedsHolds` | `CleanSucceeds` |
| | `ImplementsBackup` | `Backup!Safety`: `UsbRecovery` implements the safety part of `BackupFile` |
| `AgentLinkProofs` | `TypeCorrect` | `TypeOK` |
| | `ReadyIsABarrier` | `ReadyMeansIdle` |
| | `SuccessHolds` | `SuccessIsTrue` |
| | `ScanHolds` | `ScanIsRight` |
| | `RebootHolds` | `RebootsIntoImage` |
| `FlashDumpProofs` | `TypeCorrect` | `TypeOK` |
| | `FileHolds` | `FileIsFlash` |

**The argument of `FlashStreamProofs`.** The agent does not look at sequence numbers, so
why is a lost packet never papered over? `IInv` says: the host is in the sector the agent
receives or in the one before (`SyncInv`), because it waits for a sector's progress
packet, and these are sent once per sector, in order (`ReplyInv`). So what is under way
are pages of one sector only, in increasing order, with gaps where a packet was lost
(`WireInv`, `RecvInv`: two packets that are `k` places apart are at least `k` pages
apart). The last page of a sector is the last packet, so a buffer that was filled has no
gap (`AgentRecvStep`): if any packet is missing, the buffer never fills, and the agent times
out and aborts. `BufferInv` carries the full buffer to the moment it is programmed,
`ChipInv` collects the sectors that are done, and `ReplyInv` says that the `ACK_OK` read
inside the loop is the one sent when all of them are. None of `FlashedImage`,
`PendingHoldsItsSector` or `SoftRxNeverOverflows` is inductive without this.

`CleanLinkHolds` says the opposite: nothing fails without need. While nothing has gone wrong (`CleanInv`), what is under way is
intact (`IntactInv`); the pages sent of the sector not yet reported are on the wire or in the agent's buffer, none
missing (`CountInv`); the ACK and a progress packet for every sector since are under way (`AnswerInv`). So
neither side's timeout can fire: there is always something for one of them to read, and the agent gives up nothing
(`QuietInv`). Two hypotheses are needed: the receive buffer holds a sector, as on NOR, and an image that fits has at most
`SeqMax + 1` packets (65,536 in the code: `struct.pack("<H", seq)` raises for a larger number).

**The argument of `RecoverySessionProofs`.** `TaskInv` says when there is a handshake
task, `PowerInv` ties the power to the camera, `StageInv` says that a greeted camera has
received exactly the stages counted in this attempt, unless it was reset by hand and greeted again (`Regreeted`), and that a
camera just reset has none, and `HeardInv` that the handshake of a frame-blast chip ended during the present boot.

**The argument of `BootUploadProofs`.** As long as no answer is late, at most one frame or
one answer is under way and belongs to the current frame (`FlightInv`), so the boot ROM
waits for the frame the host is at or has just taken it (`StepInv`), and its memory holds
the frames before (`RomInv`). Successive frames have different sequence numbers whatever the
modulus (`SeqDiffers`), so a repeated frame is recognised, and when the host is at TAIL all
data has been taken, whether TAIL is acknowledged or not. `CountInv` charges every attempt in
vain to a loss or a damaged frame.

`StoredInOrderHolds` allows late answers. Each of them leaves at most one more frame or answer under way (`WindowInv`); by the time the
answer to a frame under way is read, the host is at most `late` frames ahead of it (`FramesInv`), so it is at most `late` frames ahead
of the boot ROM (`AheadInv`), and a frame that carries the sequence number expected is the frame expected (`NoAlias`). The bound
is tight: with `MaxLate + 1 = SeqMod` TLC finds a frame stored in another's place.

**The argument of `InstallProofs`.** The properties depend on an answer belonging to the command it is taken
for. `SyncInv` says when it does: as long as no answer was late, what U-Boot holds is the command the plan is at, or
there is exactly one answer. `SilentInv` keeps a camera that says nothing before the first transfer, whose missing answer
is the first one that counts. `FlashInv` follows the plan for NOR (lemmas `NorTable`, `NorCommands`: partition `k` is
commands `7k - 4` to `7k + 2`): from a `read` that succeeded on RAM holds what the partition holds, the `crc32` after it answers with it, and
behind it the partition is in place, or `blind` holds it; a command that touches a partition is never one of an earlier one (`NorTouch`). `MacInv`
does the same for the environment, whose commands end every plan. `HeldInv` says in which phases server and address can be
open, and that after a success at most an address whose removal failed is left.

**The argument of `RestoreProofs`.** Late answers and lines still in the UART are what `BootIsLast` has to survive. `OrderInv`
says: behind a command for the boot partition in the queue there is none for another partition, and once one has been
sent the other partitions are done with. It holds however far the camera lags behind; an environment saved into the boot area is told apart from an erase of it. `PowerInv`: a camera without power has
not been talked to.

`CleanRestoreHolds` follows the plan to its end. As long as nothing went wrong, the line holds the command restore is at or its one answer
(`LineInv`), so probing finds the flash there is, and an answered ping means that the network works and files are served (`SetupInv`).
`PartsInv`: the partitions behind the current one are as they were, those before it are done, and the current one is where the plan
is (`RawAt`, `UbiAt`, `RanAt`: erased, loaded into RAM, written).

**The argument of `UsbRecoveryProofs`.** `HoldInv` ties the handle to the board found. `TagInv`: no board has heard of a tag
that is still to be given, so what is in a pipe is never newer than the command under way. `ReadInv`: a
usbplug answers only into an empty pipe, so packets of the current tag are whole and in place up to their status; a
data phase of the right length that ends with the right status is therefore the sectors asked for. `FileInv` carries that to
`.partial` and the target, `FreshInv` says which invocation uploaded a running usbplug, and `CleanInv` which handles and drivers
each phase may still owe.

`CleanSucceedsHolds` needs what every phase finds when nothing went wrong (`SmoothInv`). A board that runs no usbplug has nothing queued
(`QuietInv`), so a usbplug just started answers into an empty pipe; no board has a command but the one the invocation is at
(`BoardsInv`). `StepInv`: the command is taken and the pipe empty, or the pipe holds its complete answer, and after the
data phase its status alone. `PlaceInv`: a board waited for is there or on its way. That the upload ends with a board on its way is
a fact about `build_maskrom_chunks` for every length (lemma `Framing`): every chunk but the last is full, the last is
not, and the two bytes of the CRC are in one chunk.

**The argument of `AgentLinkProofs`.** An answer does not name its request, so the invariant says, for each place of each
command, what the two lines may hold there. `ConnectInv` is the barrier: the agent sends READY only when it has nothing to do
and its line is empty, so a READY that `connect` finds is alone; from then on (`Mine`) the agent has been sent packets of
this command only (`MineInv`). `ReadInv`, `VerifyInv`, `FlashInv`, `RebootInv`, `EraseInv`, `DumpInv`, `ScanInv`, `CompatInv` say
that the data, CRC-32s and ACKs under way are of the flash and the RAM as they are now. The hard one is `write_memory`, which
only counts ACKs, two for each block of a window (`WindowAt`): the ACKs counted and under way, one for a block being received
and two for every block still to come are never more than it waits for, and fewer once anything has gone wrong (`Counted`); so
when they are all there the blocks are in the RAM (`AllIn`), unless an answer that is no ACK comes first (`Spoilt`). A request
that is refused and a block that is given up, for silence or for a damaged packet, do the same to the invariant (`Starves`): an error is added to
the answers, never an `ACK_OK`, so that each part is shown once for all of them. Where a
window failed, draining takes away every ACK that could be mistaken for one of a repeated block (`RetryAt`, `AckAt`,
`CrcAt`); this is where a port whose buffers can be cleared and the absence of late answers are needed.

**The argument of `FlashDumpProofs`.** Dumps come one after another (`OrderInv`), so the line holds the command of the dump that
waits or its answer (`LineInv`). An answer may be wrong only where it will be noticed: a prefix of the block, or something of the
block's length where there is a `crc32` to compare; and as long as it is wrong, `att` is below the number of faults, so that an
attempt is left (`MdOk`, `HeldInv`). Hence what is written is a piece of the flash at the file's end (`FilesInv`), also when
the file was left by a dump that was killed. The lemmas on `parse_md_output` say what it makes of an answer that is
complete, of one cut off after any line, and of one that has its first and last line, whatever is missing or damaged between them.

**Only model-checked:** liveness under fairness, which is outside the prover's reach (`StreamReturns`, `RunReturns`, `UploadEnds`,
`InstallEnds`, `RestoreEnds`, `FoundAgain`, `CommandsEnd`, `DumpEnds` and the fairness of `BackupFile`). Every invariant and every
action property of a passing run is also a theorem.

## Where text and code disagree

Each of these is under `findings` in `PROJECT.json`. The first three are runs that TLC ends with a counterexample; in the others the code is
modelled as it is and a property that passes says something else than the text, or less.

| text | code | property |
| --- | --- | --- |
| `main.c:808`: `page_is_ff` checks "if a 256-byte page is all 0xFF" | it compares whole words only | `FlashedImage` (`flash_stream_tail`) |
| `client.py:1016-1018`: "we abort cleanly" | the agent has switched and stays out of reach | `AbortsCleanly` (`agent_link_baud`) |
| `progress.py:460`: "dump loop will finish current block and stop" | not if ctrl+d comes first | `CancelStops` (`flash_dump_cancel`) |
| `main.c:799`, `804`: erase, receive, program | receive, then erase and program while the next sector comes in | `UntouchedUntilReceived` holds |
| `main.c:1314-1326`: at the new baud rate "unconditionally", "unrecoverable until the next power-cycle"; `1376`: "~10s" | back at 115200 after 60 timeouts, some 30 s | `FoundAgain` holds |
| `app.py:2155`, `2399-2404`, `2904-2907`: `--wipe-env` loses ethaddr | the environment in RAM, read before the erase, is saved back with the camera's own address | `MacIsItsOwn` holds |
| `README.md:72`: partitions are flashed "with CRC32 verification" | a missing CRC counts as verified, a failing `sf read` goes unnoticed, NAND is not read back | `InstalledMeansFlashed` holds with these excluded |
| `flashdump.py:431`: `crc32` is for "per-block verification" | a short block is written without it | `FileIsFlash` holds with short and wrong blocks excluded |

The comment at `app.py:3471-3473`, that U-Boot saves its environment inside the boot area during a restore, is not checkable
against this repository; the model takes it at its word.

## Not modelled, and why

- Register-level drivers (`agent/spi_flash*.c`, `emmc_himci.c`, `uart.c`, `startup.S`) beyond the effect of an
  erase and a page program: the hardware's behaviour is not in the repository. FLASH_PROGRAM and CMD_WRITE into
  flash: no host code sends them. The same holds for `write_image` and the erase of `rockusb/`.
- COBS: a pure conversion; the models use what it guarantees. What it computes for every input would
  be a byte-wise transliteration.
- TFTP datagrams: the server answers each request, and U-Boot's own retransmission is what makes a transfer
  reliable; that is outside the repository. The models know the outcomes (right, damaged, failed). A file of more than
  65535 blocks does not fit the block number (`tftp_server.py:243`).
- The sentences of the RouterOS API and the lines of the Vectis controller: the models know on, off and cycle with
  their failures. The PoE mode saved by `power_off` is not modelled, nor are two processes that share a temporary
  address.
- The frames of `_rehandshake` (its effect is `RecoverySession.Reached`) and the board ID query between two stages; how a boot
  image is cut into stages.
- `burn` over serial (a `RecoverySession` and output), the interactive console, probing and listing
  commands, the FlashDoctor screen beyond the scan it starts (its timer may miss a sector that arrives between
  copying and clearing its list, `flash_doctor.py:689`: presentation only).
- Firmware download, profiles, capture and replay keep no protocol state. `extract_ubifs` is the change of an image
  from raw to unpacked; of two blocks with one logical number it takes the later one, whatever their sequence
  numbers (`ubi.py:106`). `web/protocol.js` repeats the standard protocol.

What would come next, in this order: a composition of `BootUpload` stages with `_rehandshake` that implements
the atomic stages of `RecoverySession`; the saved PoE mode over failures.
