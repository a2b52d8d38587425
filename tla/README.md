# TLA+ models of relicnos-c2811

relicnos-c2811 runs Linux on a Cisco 2811 with an NM-32A network module and
turns it into a 32-port console server.  This directory holds models of the
parts of it where something can go wrong that a test on the bench hardly
reaches, TLC configurations that check them on small instances, and TLAPS
proofs of the most important results for every value of the constants.

Run a model with `tlc -workers 2 -config MCNm32aOne.cfg Nm32a`, a proof with
`tlapm Nm32a_proofs.tla`.  `PROJECT.json` lists the runs with their modules and
configurations, the source lines behind every definition, the mutants (named
variants of definitions, each the way a plausible slip in the code would change
it, that violate a property), the findings, the hazards and the theorems.

## The system and its parts

| part | state | operations | interacts with |
|---|---|---|---|
| NM-32A driver, service of a chip (`nm32a.c`) | per port `open`, `rx_off`, `err_cnt`, ring; card-wide `hw_lock` | poll thread: arm, read, confirm, acknowledge, decide, receive / timeout / exception / transmit, hand over | CD2481 registers, tty layer |
| tty operations (`nm32a.c`) | the same | activate, shutdown, dtr_rts, set_termios, write, break_ctl | poll thread through `hw_lock` and the port's spinlock |
| break test (`nm32a.c`) | saved `open` | start, 400 samples, stop, restore | poll thread, open and close |
| transmit ring (`nm32a.c`) | `tx[]`, `head`, `tail` | put, escape, take, reset | writers and the transmit service |
| CD2481 (hardware) | RIR, TIR, IER, CAR, FIFOs, contexts | request, grant, end | driver |
| nmconsole (`tools/nm32a/nmconsole.c`) | per port listening socket, client, tty | select loop, telnet filter | TCP clients, `/dev/ttyNM*` |
| microcode download and life cycle (`nm32a.c`, `ucode.c`) | each chip's store and loader, `nm32a_dev` | probe, remove, self-test stage 1, the tool's download | PCI core, parameters, the tool through `/dev/mem` |
| interrupts (`irq.c`, `mv64340_irq.c`) | masks, counters | dispatch, mask, unmask, runaway guard, report | every device driver |
| PCI bridge (`pci.c`), `pciscan` | CONFIG_ADDR, BusNum, configuration registers | set-up, read, write; scan, sweep, find, cfgr, cfgw, rma | PCI core, drivers, `/dev/mem` |
| PATA (`pata.c`) | IDE registers | read, write, transfer | libata |
| Ethernet, UART, timer, set-up | platform data | initialisation | kernel |
| TFTP sender (`tools/host/tftp_send.py`) | block number, tries | send, wait, resend | ROMMON's client |
| other tools, build scripts | - | one-shot | - |

What is hard in it:

* The chip moves between any two register accesses.  One acknowledge grants one
  service, the chip chooses which, and an acknowledge with nothing to grant
  stops the machine.
* CAR is one register per chip, shared by the poll thread and every tty
  operation.
* IER is rewritten as a whole by five different pieces of code; each must
  leave the other direction as it should be.
* Received characters are handed over after the lock is dropped; the port may
  have been closed meanwhile.
* Bytes are escaped into a ring whose positions wrap.
* nmconsole serves all ports from one loop with blocking client sockets, and
  descriptor numbers are reused while an fd_set still names them.
* Interrupt lines are level triggered: one that stays up with nobody to quiet it
  stops the machine, and the code does not know which line the controller drives.
* TFTP runs over packets that are lost, repeated and late, with 16-bit block
  numbers, from a server that outlives its clients and its image.
* Two programs reach registers the kernel owns through `/dev/mem`, with no lock:
  `pciscan` the one register pair of all configuration accesses, `ucode` the
  loader of a chip, which keeps a position between writes.  Both can be stopped
  half way.

What makes each part correct: received characters reach the right tty once and
in order, and none is lost in the driver; transmitted bytes leave on the right
channel exactly as accepted; a context is always ended with the EOIR of its own
type before the lock is released; the acknowledge always retires; idle
transmitters wake up; closed ports are silent and hung up; the ring is a queue;
nmconsole leaks no descriptor, mixes no streams and answers every idle port;
no interrupt keeps threads from running, and a driver's source is let through and
served; a booted image is one image, whole and in order, and the TFTP server is
always ready for the next request; the kernel's configuration accesses are exact
whatever the tool is doing; a chip reported loaded holds the microcode, and a
sick chip costs nobody else.

## Modules

### `Cd2481`: the chip

External hardware, read off the driver's register accesses and the datasheet
facts its comments quote.  `rir` and `tir` are the two request registers (idle,
requesting, in context), `ier` the enables, `sel` the channel the per-channel
registers address, `fifo` the receive FIFOs.  Characters are numbered in order
of arrival, so that histories show loss, repetition and reordering; `bad` are
the ones with a line error, `lost` the ones a full or re-initialised FIFO or a
closed port has dropped.  A disabled interrupt takes its unacknowledged request
back (`Masked`).  Three things the hardware may do wrong are bounded and off by
default: withdrawing a request unasked (`MaxWithdraw`), an EOIR that 100 retries
do not get through (`MaxEoiFail`), and (in `Nm32a`) no working microcode
(`UcodeStates`).

### `Nm32a`: the driver on one chip

One action is a stretch of code between two points where another actor can
matter; the source function is named above each.  The poll thread is `Sweep`,
`ArmTx`, `ReadRequest`, `Confirm`, `Acknowledge`, `Decide` and then one of
`RxData` + `Insert`, `RxTimeout`, `RxError`, `TxService`.  `ActivateBegin/End`
and `TermiosBegin/End` are split where `ccr_wait` yields with `hw_lock` held.
`BreakStart/Sample/Stop/Restore` is `sendbreak_set`.

The kernel is uniprocessor without preemption; the model lets threads
interleave wherever the locks do, which includes every real schedule.  A
transmit service is assumed to offer room for at least one byte (TFTC >= 1),
which is why the chip asked.  The data path knows three kinds of receive
service (data, timeout, error); RISRl's individual error bits are only counted
by the code.  `err_cnt` is cut off at the limit, which `StormMutes` justifies.
The byte counters, traces and the sleep between sweeps are left out.

### `ByteQueue` and `TxRing`: the transmit ring

`ByteQueue` is what the ring promises: a bounded first-in first-out queue into
which one byte, or the two bytes of an escape, are put only when they fit.
`TxRing` is the ring as coded, with one action per loop iteration of
`nm32a_tty_write` and of the transmit branch, the NUL escape, `nm32a_break_ctl`
and the reset at open.  `Contents` is the refinement mapping.  `Transmit` is
what the chip's transmitter makes of the bytes, depending on COR2: `Cor2 = 32`
is the embedded-command mode the comments presume, `Cor2 = 0` what
`nm32a_chan_init` writes and what both runs have.  The transmitter feeds nothing back
into the ring.

`Nm32a` uses the queue, not the ring: its `ring` is the sequence `Contents`.

### `NmConsole`, `MCNmConsole`: the console server

The select loop with descriptors as numbers: `file` is the process's table, the lowest
free number is handed out, and `fds` is the fd_set of the pass.  Client sockets block
(`PlaceItem` waits for room, `NetRead` for data), ttys do not. Clients connect, send,
read, close and reset at any moment.  The stream from a client is a sequence of whole
telnet units (character, Break, option).  A read (`NetRead`) leaves its units in `raw`,
and `telnet_filter` goes through them one by one (`FilterUnit`): a Break goes to the tty
and the refusal of an option to the client at once, where the loop may block, and the
characters (`Kept`) are collected and written to the tty when all are through
(`TtyWrite`), after any Break of the same read.  `--raw` and the speed table are left
out.  `MCNmConsole` names two clients and the ports they may call.

### `Telnet`: the telnet layer, byte by byte

`Filter` is `telnet_filter` on the bytes of one read, `Written` is `telnet_write` with
a buffer of any size.  `MCNmConsole` evaluates three facts about them on bounded
inputs: reads of whole units (every three of nine kinds) have the effects of the
units, which is what `NmConsole` works with (`WholeUnits`); a unit that the network
splits is dropped up to the split and the rest is taken for characters, because
nothing is remembered between reads (`SplitUnits`); and what `telnet_write` sends
reads back as the characters of the line wherever its buffer ends (`LineRoundTrip`,
buffers of 2 to 6 bytes).

### `TftpSend`, `MCTftpSend`: the TFTP sender

`serve_one` and the loop around it.  `Accept` takes the most recent read request and
sends the option reply or the first block; `OackTimeout/Abort/Ack` and
`DataTimeout/DataAck/StaleAck` are the two receive loops, one action per outcome of
`recvfrom`; a stale acknowledgement sends the block again and counts nothing; every path
out of `serve_one` is `Return`, with `main`'s `drain` in it.  The ROMMON client is
external and does what RFC 1350 has a client do, and may repeat its last acknowledgement
at will (`ClientRepeat`); attempts are sessions, each from a port of its own.  `net` is
the set of packets under way: delivery is in any order, or never, or twice
(`MaxRepeats`).  Packets carry the absolute block number as well, which nobody reads but
`Fresh`, the assumption that no packet outlives a whole lap of block numbers (32 MB at
512 bytes).  Requests are taken to reach the listening socket at once.  `Full` gives,
per version of the image, the number of full blocks; `Rebuild` replaces the file.
`--once`, the value of blksize and the file names are abstracted.

### `MvIrq`: interrupts

`Take` is the entry of `plat_irq_dispatch` with its read of Status and Cause,
and `DispatchTimer/Claimed/Unclaimed/Runaway` are its outcomes.  Threads
(`RequestIrq`, `FreeIrq`, `Poke`, the two work items) run only while no unmasked
line is asserted (`Running`), so a livelock of the code is one of the model.
`Poke` overwrites a byte, a halfword or a word of a mask register (`Fields`) with any
value; `silenced` is history: the sources it was the last to mask.  The
controller's output follows its registers with a delay (`Follow`), except that a
driver's handler is taken to last long enough for it.  Lines other than `Wired`
may be raised by something unknown.  The work of `mv_unclaimed_report` goes bit
by bit, since interrupts come between.

### `PciConfig`, `MCPciConfig`: PCI1 and pciscan

A configuration access writes its target to CONFIG_ADDR and then uses
CONFIG_DATA.  The PCI core holds a lock with interrupts off on a uniprocessor, so
an access of the kernel is one action (`KernelRead`, `KernelWrite`); each access
of `pciscan` is two (`ToolAddr`, then `ToolRead` or `ToolWrite`), and a run of it
is the sequence of accesses its option makes (`tool.prog`), after the probe every
run begins with (`Decisive`).  A dword is the set of its one bits: the bits of
COMMAND and STATUS the code names, two bits of a base address in different bytes,
and an identity that never changes.  `Reaches`, `Latched` and `Stored` are the
bridge: it answers on the bus BusNum names, the card needs the slot enabled
(`c2811_slot_enable`) and the master bit, a cycle nobody claims latches Received
Master Abort, and a one written there clears it.  Byte and halfword writes are
the read-modify-write of `c2811_pci_write`.  `cfg_read` reads CONFIG_DATA twice and
uses the second; the model has the one that counts.  `said` is history: the
statuses `--rma` has read, whether the kernel came between two halves, whether an
abort has happened since, and whether a sweep was stopped.  `MCPciConfig` gives the
accesses: halfword writes of both COMMANDs, one byte of a base address, and a
tool write to that same register.  The CPU windows, PCI0, functions above 0 and
the interrupt routing are left out.

### `BringUp`, `MCBringUp`: microcode and life cycle

`Insn` cuts 18-bit instructions out of the packed bytes as `ucode_insn` and
`insn_at` do.  A download is the sequence of register writes `Setup`, `Store`, `Go`
(the three byte writes of AIR are one), by the driver (`DriverWrite`) or by
`ucode` (`ToolWrite`), one action each, so that the two interleave on a chip.  The
loader (`AfterWrite`, external) is read off how both use it: the jump in auxiliary
mode puts the position to the start, a step in write mode stores and moves on, and
the clock in execute mode runs the store; a store that is not the microcode may
run or not, a chip of `Sick` never does.  `life`, `dev` and `wild` are the life
cycle: `Remove` frees the card and leaves `nm32a_dev`, and whatever follows that
pointer (`ParamOnFreed`, `DriverGone`) ends the behaviour.  `trust` is history:
which microcode a chip was last reported good for, with nobody writing to it
between.  The tool's loop over chips is one run per chip; `--int`, `--xor` and
`--verify` are left out.

### `Nm32a_proofs`, `Nm32aPorts_proofs`, `TxRing_proofs`, `NmConsole_proofs`, `TftpSend_proofs`, `MvIrq_proofs`, `PciConfig_proofs`, `BringUp_proofs`: theorems

See "What is proved".

## Runs

| run | instance | checks |
|---|---|---|
| `service_one` | 1 channel, FIFO of 2, 3 characters, 1 byte to send, storm limit 2 | types, no stalled acknowledge, the storm guard, complete reception, closed ports quiet and silent, and (under fairness) transmit drains and receive is collected |
| `two_channels` | 2 channels, one of them cabled, 1 character, 2 bytes or a break command to send, no failed EOIR | context discipline, exact transmission and characters only to their own tty, with CAR and the acknowledge shared |
| `service_hostile` | 1 channel, FIFO of 2, 2 characters, one withdrawn request, one failed EOIR, a break test, all microcode states | what is received is in order, once and undamaged |
| `tx_ring` | ring of 5 slots, bytes 00 and 81, 5 characters or commands per open | `Cor2 = 0` as in the code | types, only whole escapes in the order asked for, refinement of `ByteQueue` |
| `console` | 2 ports, 2 clients, 2 units, 1 character, 1 fault | types, descriptors, streams, when a read can block |
| `console_live` | the same with 1 unit | idle ports answer, hang-ups release the line |
| `tx_line_code` | ring of 4 slots, `Cor2 = 0` | violated: see findings |
| `mute_undone` | 1 channel | violated: see findings |
| `tftp` | images of 2 and 0 full blocks, 2 sessions, block numbers modulo 2, 1 retry, 1 repetition by the network, any number by the client | types, prefix of one image, DONE means whole, no stale request, and (under fairness) every transfer ends unless stale acknowledgements never stop |
| `irq` | sources 4, 9 and 32, lines 3 and 5, 2 events, 2 claims, 1 poke, 1 stray | types, claimed sources let through unless poked, the cascade kept, and (under fairness) no livelock, claimed sources served unless poked, unclaimed ones reported |
| `pci` | buses 0 and 1, 3 kernel reads, 3 kernel writes, every option of the tool | types, BusNum comes home from a sweep that is not stopped, no false verdict of `--rma` unless the kernel tore its reads, the kernel's accesses exact |
| `bringup` | 2 chips, chip 0 never runs, stores of 2 instructions, 1 run of the tool with a short or a long file | types, a chip reported good by a download nobody else wrote into holds the microcode, and (under fairness) probe ends with the other chip loaded |

Why the bounds are enough.  The services of a chip are independent but for CAR, the two
request registers and the lock, so two channels show every kind of interference.  A FIFO
of two with three characters overflows, drains in one service of two characters or in
two, and mixes good and damaged ones; a limit of two lets a storm start, restart its
window and mute.  A ring of five slots wraps at every offset with an escape across the
seam.  In nmconsole a number is reused within a pass by a later port only, so a first
client that may call either port and a second that calls the later one show it.  Block
numbers modulo 2 make every stale acknowledgement the closest one to being mistaken that
`Fresh` admits, and three blocks wrap them; an image of no full block is the empty last
block alone.  Two sources in different bytes of one word of the cause register, one in
the other word, and one line the controller drives beside one it does not are the cases
the code and a poke tell apart.  Break commands are not counted by `MaxTx` when a break
test puts them: `MaxTests` bounds those. A sweep over two buses leaves home and comes
back, and `PciConfig_proofs` covers any number.  The tool's and the driver's downloads
meet on one chip only, so one run of the tool on the chip that works, beside one that
does not, has every interleaving of two downloads; probe, unbind and self-test bring the
driver back any number of times.  Two instructions are cut at bit 0 and bit 2 of a byte;
`InsnIsPacked` (below) covers the other two offsets and every length. `service_hostile`,
the console, `tftp`, `irq`, `pci` and `bringup` runs allow deadlock: there the machine
may really stop on an acknowledge, the servers may wait for a client for ever once the
bounded clients are done, a machine without events idles, and a kernel that followed a
freed pointer is not modelled further.

Fairness.  `Nm32a!Fairness`: the poll thread is a kernel thread that never exits
while the driver is bound (weak fairness of its steps); a mutex is handed to
its waiters in turn, so it gets `hw_lock` although tty operations keep taking
it (strong fairness of the two steps that take it); `ccr_wait` is bounded in
time (weak fairness of the operations' second halves); the chip's microcode
scans its channels in turn (strong fairness of its requests).  No fairness is
assumed of users.  `NmConsole!FairSpec`: the process runs whenever no system
call blocks it; nothing is assumed of clients.  `TftpSend!FairSpec`: the process
runs, and a receive returns or times out after five seconds; nothing is assumed
of the network or the client.  `MvIrq!FairSpec`: the CPU executes, signals settle
(weak), and the workqueue gets its turn whenever threads run again and again
(strong, since interrupts keep disabling it).  `BringUp!Spec`: the kernel's own
download goes on (weak fairness of its steps), since `ccr_wait` is bounded in time
and the other wait by a count; nothing is assumed of the tool or of users.

## Findings

* **A muted receiver is enabled again** (`mute_undone`, nm32a.c:2104): the idle
  transmit service writes IER = 0x28 whatever `rx_off` says; `set_termios`
  (2429) does the same.
* **Embedded transmit commands are never enabled** (`tx_line_code`,
  nm32a.c:1627): with COR2 = 0x00 a NUL is sent twice and a break as two
  characters, while the comments rely on ETC.  The escapes themselves are whole
  (`tx_ring`).

Met while modelling, in the models, and without a run of their own: a second client of a
busy port waits until the first leaves (nmconsole.c:294; the comment at line 9 says
"last one wins"); the guard's report is queued once (irq.c:134), so a line masked more
than five seconds after boot is not reported, though the comment at 59 counts on it; the
controller's own line is masked when its output falls late after a source was freed, or
poked and masked again (irq.c:62, where the comment at 42 still speaks of a spurious
interrupt), and `CascadeKept` says when this cannot happen; a poke writes the whole of a
mask register (poke.c:56), so it can also mask a source a driver has, which is then
served by nobody until the next request of an interrupt there or another poke; a source
that no driver requested is never unmasked, so the log line promised at
mv64340_irq.c:143 needs a poke; the results of `ccr_wait` are ignored (nm32a.c:1679), so
a chip that shows its firmware revision and answers no command is opened without being
initialised, though the comment at nm32a.c:305 says that every caller checks; the break
test restores a stale `open` (nm32a.c:2550); `break_ctl` on a full ring reports success
and queues nothing (nm32a.c:2357); a break overtakes characters of the same read in
nmconsole (nmconsole.c:153); a reused descriptor can block the whole server in a read
(nmconsole.c:348, `ReadBlocksOnlyOnReuse` says exactly when); a context whose EOIR never
took reads as not requesting, so no later pass ends it (nm32a.c:1869), though the
comment at 1940 says the next pass does, and with a second channel characters can then
reach the wrong tty: when something else requests and the acknowledge inside the open
context returns, the code takes the old context for the grant, reads the FIFO of the
channel CAR selects by now, and hands what it finds to the tty of the channel in context
(TLC finds it with two cabled channels and one failed EOIR; `ReceiveOrdered` and
`two_channels` assume none); in file mode a rebuilt image is announced with the size
measured at start-up (tftp_send.py:233); a stale acknowledgement starts the wait for a
block anew without counting a try (tftp_send.py:199), so a client or a network that
produces one at least every five seconds holds the transfer and with it the server
(`TransferEnds` excepts this), and any packet but ACK 0 or an error does the same to the
wait for the option reply's ACK, whose deadline is looked at only after a timeout (165).

On the PCI bus: `--rma` can hardly ever report that cycles reach the bus, because
the boot scan and the probe each run of `pciscan` begins with have already latched
the sticky bit, and only a byte or halfword write of the bridge's COMMAND clears it
(`RmaSound` says the positive verdict, when it comes, is true, unless an access of the
kernel came between two halves of the tool's); `--find` and
`--sweep-bus` write a COMMAND without IO and with PARITY and SERR, which pci.c:301
and 306 warn of, and the tool's header calls itself read-only; a stopped sweep
leaves BusNum on a bus the kernel never addresses, and while one runs the kernel
reads ones and loses writes; a kernel access between the halves of the tool's
write sends it to the kernel's register; the comment at pci.c:340 ("do NOT declare
the resource yet") is older than the code below it.

In bring-up: `nm32a_dev` is never cleared (nm32a.c:2619); stage 1 of the self-test
downloads under open ports without `hw_lock` (643); two downloads that overlap on a chip
may leave a mixture in its store and, if that runs, both be reported good; the comment
at 2598 says probe leaves the card as it was found, five lines above the download; when
the tty driver cannot be allocated or registered `p->tty` keeps an error pointer or a
freed one, and `nm32a_remove` uses it (2636); when the poll thread cannot be started the
ports can be opened and are never served (2613).

## What is proved

`TxRing_proofs`, from `RingAssumption` only:

* `TypeCorrect`: positions and bytes stay in range, for every ring size above 2.
* `RingImplementsQueue`: `Spec => Queue!Spec`.  `PutView` and `TakeView` say what
  one step of the head or of the tail does to `Contents` under the modulus; each
  action is then a `Put` of one or two bytes, a `Take`, a `Clear` or a stutter.
* `EscapesWhole` (`StreamWhole`): what has been sent followed by what is in the ring
  (`Stream`) can be cut, without remainder, into the codes of what was asked for since
  the open, in that order: a byte, an escaped NUL, a break command.  No escape is ever
  half in the ring, with any size and any interleaving of writes, breaks and services.
  `StreamWhole` is inductive: `SeamAppend` says that a code put at the end leaves every
  seam where it was, and a take moves one byte from the ring to what was sent.  It says
  nothing of what the transmitter makes of the codes, which depends on COR2: with the
  0x00 the driver writes that is the finding of `tx_line_code`.

`Nm32a_proofs`, from `ChipAssumption` and `DriverAssumption`:

* `TypeInvariant`: `TypeOK` needs `Counted` (a service runs only inside a burst),
  or the burst counter could go below zero.
* `ContextsKept` (if every EOIR takes): `ContextDiscipline` is not inductive; the
  proof strengthens it to `CInv`: who holds `hw_lock` at which step
  (`LockOwner`), and that exactly the steps between acknowledge and EOIR have a
  context, of the kind and channel the step believes (`OneContext`).
* `AcknowledgeRetires` (if, besides, the chip withdraws nothing unasked): adds
  `Granted`: at the acknowledge the confirmed request is still there, since only
  an IER write can take it back and IER is written under `hw_lock`.
* `TransmitExact` (if every EOIR takes): `TxExact` on top of `CInv`, which puts
  every TDR write into a transmit context of the channel whose ring it empties.
* `StormGuard`: `StormMutes` is inductive given the types.

`Nm32aPorts_proofs`, on top of them, says what a port's user can count on:

* `ReceiveOrdered` and `ReceiveComplete` (if every EOIR takes): `EInv` is the state of
  a receive service (with the exception vector, a damaged character is at the head of
  the FIFO and stays there until it is read; `rxbuf` is empty outside the insertion).
  `CharacterStep` lists the ways a character can take (`Moves`, `Arrives`: onto the
  FIFO or lost there, into the buffer, on to the tty, discarded, flushed); every action
  is one of them, and order (`Orderly`) and the account of every character
  (`Accounted`) are kept by each.
* `ClosedStaysQuiet` and `ClosedIsSilent` (if every EOIR takes and the break test does
  not run): `QInv` says that a closed port has its interrupts off and is not open to
  the poll thread either, that only open ports have a request with the chip, and which
  port an operation that let go of the lock is on.  The break test is excluded because
  it writes enables and `open` behind the tty layer's back (nm32a.c:2550).

`NmConsole_proofs`, from `ConsoleAssumption`, for any ports, clients and descriptors:

* `DescriptorsKept`: `DInv` adds that who waits at a listening socket was made to its
  port and that every number in use is exactly one port's; `Pending` that a port
  select reported still has its waiting connection when the loop comes to it.
* `ReadBlocksReuse`: `Reported` says that a client descriptor select reported stays
  worth reading until its turn, because nobody else reads from that client (`Apart`)
  and a reset, which throws away what was sent, also ends the stream.  Only ports that
  were listening are excepted, and that is the reuse.
* `TypeCorrect`: needs `Busy`, that the filter and the write to a client run only for
  a port that has one, or `ClientOf` would not name a connection.
* `StreamsProved`: `StreamsKept`, no character reaches another port or another client,
  none is repeated or overtaken.  The property speaks of the two ends only, so the
  invariant follows the units all the way.  `Flow`: every unit not yet at the end of its
  way (under way to the server, just read, kept for the tty) was sent after those of its
  client and kind that are further along.  `Sessions`: who has a unit on a line was
  served there and waits nowhere any more, the units of one client stand together on the
  line, those of the present client last, and a connection waits only once; without it a
  client could come back and its units could be parted by another's.  `ToClient`: the
  characters of the serial line that a client has, those of the write in progress and
  those still to be read are in the order in which they came.

`TftpSend_proofs`, from `TransferAssumption`:

* `TypeInvariant`, `TransferExact` and `DoneIsWhole`.  `ImageExact` is not inductive:
  `IInv` adds where client and server can be relative to each other (the server's
  block is the client's last or next one, `ServerOK`), that acknowledgements under
  way are of blocks received and data packets of blocks sent (`PacketOK`), and what
  a finished session has (`SessionOK`, `DoneOK`).  `WireExact` is the arithmetic:
  under `Fresh`, equal numbers on the wire are equal block numbers, for every width.
* `RequestsCurrent`: whoever is outdated asks no more and is not in the socket's
  backlog, and both start anew when the server comes back to listen.

`MvIrq_proofs`, from `IrqAssumption`:

* `TypeInvariant`, `ListensProved` (a claimed source is let through unless a poke was
  the last to mask it) and `CascadeProved`.  The last needs `Backed`: as
  long as claims are only added and nobody pokes, the mask is exactly the claimed
  sources, and an output that is up, or was when the interrupt was taken, has a
  serviceable source behind it, so the guard never sees the controller's line.

`PciConfig_proofs`, from `PciAssumption`:

* `TypeInvariant`, `BusKept`, `RmaProved` and `KernelProved`.  The
  inductive invariant adds what a run of the tool can still do: before the scan
  there is none (`EarlyQuiet`), a half access is one of the accesses left
  (`Halves`), only a sweep sets BusNum (`Programs`) and its last access sets it back
  to where it was (`SweepEnds`); and for `--rma`, which three accesses are left when
  (`RmaShape`) and that a latched bit not there at the first status has an abort
  behind it (`RmaKnows`).  `KernelProved` is an action property: it needs only the
  types, since the kernel's accesses never depend on what CONFIG_ADDR held.

`BringUp_proofs`, from `BringUpAssumption`, for any number of chips, any store and any
files of the tool:

* `TypeCorrect`, and `LoadedProved`: `LoadedExact`, a chip that the driver or the tool
  reported good, and nobody else wrote into meanwhile, holds that microcode until
  somebody writes to it.  The verdict comes
  after the last of many writes, between any two of which the other program may write,
  so the invariant says what the sequence has done so far: what is left to write is the
  tail of one download (`DriverLeft`, `ToolLeft`); as long as a download has been alone,
  the loader's mode, its position and the part of the store behind it are given by the
  number of writes left (`DriverLoads`, `ToolLoads`); and a trusted chip's store is
  what it is trusted for (`Trusted`).
* `InsnIsPacked`, a lemma about the arithmetic of `ucode_insn`: bit k of instruction i
  is bit 18 * i + k of the stream of packed bytes, for every instruction that is whole
  in it.

All invariants of the runs are proved, under the assumptions named; `RxOrdered` after a
failed EOIR (`service_hostile`) is only model-checked.  `TransferExact`,
`RingImplementsQueue` and the others cover every value of the constants that the named
assumptions admit.

Only model-checked: what needs fairness (`IdlePortAnswers`, `HangupReleases`,
`TxDrains`, `RxCollected`, `TransferEnds`, `NoLivelock`, `RaisedServed`,
`UnclaimedReported`, `ProbeServes`), since liveness and ENABLED are out of the
provers' reach; and the facts about `Telnet`, whose operators are recursive over
bytes and would need an induction that the provers cannot do.

## Not modelled

The card-level arbitration between chips that request at the same time (all are
acknowledged at one address); the self-test stages but for the first; the bit-rate
table; DMA and modem interrupts (never enabled); the tty layer's writer queue (no
`tty_wakeup` is called when the ring drains) and what unregistering a tty does to
an open port; the scripts that cut the microcode out of an IOS image.  PATA,
Ethernet, the console UART, the timer and the board set-up are register tables,
platform data and one-time initialisation: they keep no state of their own that
two actors share.  The other parts are listed with their reasons in
`PROJECT.json`.

## Plan

1. `Card`: several `Cd2481` behind one acknowledge address. 2. Proofs: `ClosedQuiet`
with the break test's own transmission named instead of excluded.
