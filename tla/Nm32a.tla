-------------------------------- MODULE Nm32a --------------------------------
(***************************************************************************)
(* The NM-32A serial driver, kernel/cisco2811/nm32a.c, on one of its chips *)
(* (module Cd2481): the poll thread that services the chip, the tty        *)
(* operations that run in other threads, and the break test that is        *)
(* started through a module parameter.                                     *)
(*                                                                         *)
(* One action is a stretch of code that the chip and the threads that take *)
(* no lock cannot usefully split.  Everything that touches the chip holds  *)
(* hw_lock; the transmit ring and its readers hold the port's spinlock,    *)
(* which no action keeps when it ends.  A thread waiting for a channel     *)
(* command (ccr_wait) keeps hw_lock and yields, so activate and            *)
(* set_termios are two actions each.                                       *)
(***************************************************************************)
EXTENDS Cd2481

CONSTANTS
  RingCap,       \* bytes the transmit ring holds (NM32A_TXBUF - 1)
  MaxRoom,       \* bytes TFTC offers at most (16)
  ErrLimit,      \* NM32A_ERR_LIMIT
  Burst,         \* services per chip per sweep (module parameter burst)
  UcodeStates,   \* what the microcode download may have left behind
  MaxTx,         \* bound: bytes the tty layer queues for a channel
  MaxTests       \* bound: break tests started

ASSUME DriverAssumption ==
  /\ RingCap \in Nat /\ MaxRoom \in Nat \ {0}
  /\ ErrLimit \in Nat \ {0} /\ Burst \in Nat \ {0}
  /\ UcodeStates \subseteq {"running", "boot", "dead"}
  /\ MaxTx \in Nat /\ MaxTests \in Nat

VARIABLES
  hw_lock,    \* who holds the mutex: "free", "poll" or "tty"
  pc,         \* where the poll thread is
  rx_expected,\* nm32a_service: receive was pending before the acknowledge
  svc,        \* nm32a_service: channel and vector of the granted service
  buf,        \* nm32a_service: rxbuf, characters not inserted yet
  burst,      \* services left in this sweep
  open,       \* per port: np->open
  rx_off,     \* per port: receiver muted after a storm
  err_cnt,    \* per port: receive exceptions in the window
  ring,       \* per port: transmit ring, oldest byte first
  tty,        \* per port: what the tty layer believes, "closed" or "open"
  op,         \* the tty operation waiting in ccr_wait
  brk,        \* the break test
  ucode,      \* what GFRCR and CCR tell of the microcode
  delivered,  \* history: characters handed to the tty layer
  accepted,   \* history: bytes put into the ring since the port opened
  sent        \* history: those of them written to TDR

portVars == <<open, rx_off, err_cnt, ring, tty, accepted, sent>>
svcVars  == <<rx_expected, svc, buf, burst>>
vars     == <<chipVars, hw_lock, pc, svcVars, portVars, op, brk, ucode,
              delivered>>

\* The transmit ring holds data bytes, numbered from 1, and the two embedded
\* commands of a line break, each introduced by a NUL.
Nul    == 0
BrkOn  == -1   \* 0x81 after a NUL
BrkOff == -2   \* 0x83 after a NUL

NoOp      == [kind |-> "none", ch |-> AnyChan]
NoService == [ch |-> AnyChan, vct |-> "none"]

TypeOK ==
  /\ ChipTypeOK
  /\ hw_lock \in {"free", "poll", "tty"}
  /\ pc \in {"sweep", "arm", "read", "confirm", "ack", "decide",
             "rx", "tx", "insert", "stalled"}
  /\ rx_expected \in BOOLEAN
  /\ svc \in [ch : Chans, vct : Vectors]
  /\ buf \in Seq(Nat)
  /\ burst \in 0..Burst
  /\ open \in [Chans -> BOOLEAN] /\ rx_off \in [Chans -> BOOLEAN]
  /\ err_cnt \in [Chans -> 0..ErrLimit]
  /\ ring \in [Chans -> Seq(Int)]
  /\ tty \in [Chans -> {"closed", "open"}]
  /\ op \in [kind : {"none", "activate", "termios"}, ch : Chans]
  /\ brk \in [at : {"idle", "hold", "stop"}, ch : Chans, was_open : BOOLEAN,
              n : Nat]
  /\ ucode \in UcodeStates
  /\ delivered \in [Chans -> Seq(Nat)]
  /\ accepted \in [Chans -> Seq(Int)] /\ sent \in [Chans -> Seq(Int)]

Init ==
  /\ ChipInit
  /\ hw_lock = "free" /\ pc = "sweep"
  /\ rx_expected = FALSE /\ buf = <<>> /\ burst = 0
  /\ svc = NoService
  /\ open = [c \in Chans |-> FALSE] /\ rx_off = [c \in Chans |-> FALSE]
  /\ err_cnt = [c \in Chans |-> 0]
  /\ ring = [c \in Chans |-> <<>>]
  /\ tty = [c \in Chans |-> "closed"]
  /\ op = NoOp
  /\ brk = [at |-> "idle", ch |-> AnyChan, was_open |-> FALSE, n |-> 0]
  /\ ucode \in UcodeStates
  /\ delivered = [c \in Chans |-> <<>>]
  /\ accepted = [c \in Chans |-> <<>>] /\ sent = [c \in Chans |-> <<>>]

\* mutex_lock(&hw_lock) gets through.
\* Mutant: a path that forgets the lock.
HwLockIgnored == TRUE

HwLockFree == hw_lock = "free"

-----------------------------------------------------------------------------
(* The poll thread, nm32a_poll_thread.                                     *)

\* Writing IER on the channels the function e disagrees with ier about.
SetIer(e) ==
  /\ ier' = e
  /\ rir' = Masked(rir, RxD, e)
  /\ tir' = Masked(tir, TxD, e)

\* The sweep skips a chip none of whose ports is open, and sleeps.
Sweep ==
  /\ pc = "sweep"
  /\ pc' = IF \E c \in Chans : open[c] THEN "arm" ELSE "sweep"
  /\ UNCHANGED <<chipVars, hw_lock, svcVars, portVars, op, brk, ucode,
                 delivered>>

\* nm32a_arm_tx: transmit interest for every open channel with queued bytes.
Pending(c) == open[c] /\ ring[c] # <<>>

\* The channel CAR is left on.
LastPending(c) == Pending(c) /\ \A d \in Chans : Pending(d) => d <= c

\* Mutant: transmit interest is never renewed.
ArmedIerRxOnly(c) == IF rx_off[c] THEN {} ELSE {RET, RxD}

ArmedIer(c) == IF rx_off[c] THEN {TxD} ELSE {RET, RxD, TxD}

\* Mutant: one service too many.
BurstOffByOne == Burst + 1

BurstLength == Burst

ArmTx ==
  /\ pc = "arm" /\ HwLockFree
  /\ SetIer([c \in Chans |-> IF Pending(c) THEN ArmedIer(c) ELSE ier[c]])
  /\ \/ \E c \in Chans : LastPending(c) /\ sel' = c
     \/ (\A c \in Chans : ~Pending(c)) /\ sel' = sel
  /\ pc' = "read" /\ burst' = BurstLength
  /\ UNCHANGED <<up, dtr, fifo, bad, rxn, lost, faults, hw_lock, rx_expected, svc,
                 buf, portVars, op, brk, ucode, delivered>>

-----------------------------------------------------------------------------
(* nm32a_service, from the first read of TIR and RIR to the last unlock.   *)

\* Leave nm32a_service, whose locals are gone: true keeps the burst going,
\* false ends it.
Return(worked) ==
  /\ burst' = IF worked THEN burst - 1 ELSE 0
  /\ pc' = IF worked /\ burst > 1 THEN "read" ELSE "sweep"
  /\ svc' = NoService /\ rx_expected' = FALSE

\* Take hw_lock and look for a request; leave at once when there is none.
ReadRequest ==
  /\ pc = "read" /\ HwLockFree
  /\ \/ /\ Requesting
        /\ hw_lock' = "poll" /\ pc' = "confirm"
        /\ UNCHANGED <<burst, svc, rx_expected>>
     \/ /\ ~Requesting
        /\ Return(FALSE)
        /\ UNCHANGED hw_lock
  /\ UNCHANGED <<chipVars, buf, portVars, op, brk, ucode,
                 delivered>>

\* The request must still be there at a second read.
Confirm ==
  /\ pc = "confirm"
  /\ \/ /\ Requesting
        /\ pc' = "ack" /\ rx_expected' = (rir.st = "req")
        /\ UNCHANGED <<hw_lock, burst, svc>>
     \/ /\ ~Requesting
        /\ Return(FALSE) /\ hw_lock' = "free"
  /\ UNCHANGED <<chipVars, buf, portVars, op, brk, ucode, delivered>>

\* The acknowledge cycle.  Nested onto an open context, or with nothing left
\* to grant, the read may never retire: the machine stops with the lock held.
Acknowledge ==
  /\ pc = "ack"
  /\ \/ NoContext /\ Grant /\ pc' = "decide"
     \/ NoContext /\ ~Requesting /\ pc' \in {"decide", "stalled"}
        /\ UNCHANGED <<rir, tir, sel>>
     \/ ~NoContext /\ pc' \in {"decide", "stalled"}
        /\ UNCHANGED <<rir, tir, sel>>
  /\ UNCHANGED <<ier, up, dtr, fifo, bad, rxn, lost, faults, hw_lock, svcVars,
                 portVars, op, brk, ucode, delivered>>

\* The service the chip says it granted, read after the acknowledge.
\* Mutant: decided from the read before the acknowledge.
RxGrantedBefore == rx_expected

RxGranted == rir.st = "act"
TxGranted == ~RxGranted /\ tir.st = "act"

Decide ==
  /\ pc = "decide"
  /\ \/ /\ RxGranted
        /\ pc' = "rx" /\ svc' = [ch |-> rir.ch, vct |-> rir.vct]
        /\ UNCHANGED <<hw_lock, burst, rx_expected>>
     \/ /\ TxGranted
        /\ pc' = "tx" /\ svc' = [ch |-> tir.ch, vct |-> "none"]
        /\ UNCHANGED <<hw_lock, burst, rx_expected>>
     \/ /\ ~RxGranted /\ ~TxGranted
        /\ Return(FALSE) /\ hw_lock' = "free"
  /\ UNCHANGED <<chipVars, buf, portVars, op, brk, ucode, delivered>>

\* The characters a receive service reads, and what the reads leave behind.
ReadChars(c, v) == SubSeq(fifo[c], 1, RFOC(c, v))

\* Mutant: the last characters are presented again on the next service.
Represented(c, v) == fifo[c]

LeftOver(c, v) == SubSeq(fifo[c], RFOC(c, v) + 1, Len(fifo[c]))

\* Good data: RFOC characters are read before the service ends.  They are
\* handed over only after the lock is released.
RxData ==
  /\ pc = "rx" /\ svc.vct = "data"
  /\ buf' = ReadChars(sel, "data")
  /\ fifo' = [fifo EXCEPT ![sel] = LeftOver(sel, "data")]
  /\ EndRx
  /\ hw_lock' = "free" /\ pc' = "insert"
  /\ UNCHANGED <<tir, ier, sel, up, dtr, bad, rxn, lost, rx_expected, svc,
                 burst, portVars, op, brk, ucode, delivered>>

\* Characters for a port that is not open are dropped.  Mutant: the port is the
\* one CAR selects when they are handed over.
DeliverSelected(c, chars) ==
  /\ delivered' = [delivered EXCEPT ![sel] = IF open[sel] THEN @ \o chars ELSE @]
  /\ lost' = [lost EXCEPT ![sel] = IF open[sel] THEN @ ELSE @ \cup Range(chars)]

Deliver(c, chars) ==
  /\ delivered' = [delivered EXCEPT ![c] = IF open[c] THEN @ \o chars ELSE @]
  /\ lost' = [lost EXCEPT ![c] = IF open[c] THEN @ ELSE @ \cup Range(chars)]

Insert ==
  /\ pc = "insert"
  /\ Deliver(svc.ch, buf)
  /\ buf' = <<>>
  /\ Return(TRUE)
  /\ UNCHANGED <<rir, tir, ier, sel, up, dtr, fifo, bad, rxn, faults, hw_lock,
                 portVars, op, brk, ucode>>

\* A receive timeout is not an error: collect what is left in the FIFO.
\* Mutant: it is treated like one and discarded.
TimeoutDiscarded == <<>>

TimeoutChars == ReadChars(sel, "timeout")

RxTimeout ==
  /\ pc = "rx" /\ svc.vct = "timeout"
  /\ Deliver(svc.ch, TimeoutChars)
  /\ fifo' = [fifo EXCEPT ![sel] = LeftOver(sel, "timeout")]
  /\ EndRx
  /\ hw_lock' = "free" /\ Return(TRUE)
  /\ UNCHANGED <<tir, ier, sel, up, dtr, bad, rxn, buf,
                 portVars, op, brk, ucode>>

\* nm32a_rx_exception: the count after this exception, in a window that may
\* have started anew.  Past the limit the receiver is muted already, so the
\* count is cut off there.
ErrCount(c, anew) ==
  LET n == IF anew THEN 1 ELSE err_cnt[c] + 1
  IN  IF n > ErrLimit THEN ErrLimit ELSE n

Mutes(c, n) == n = ErrLimit /\ ~rx_off[c]

\* Mutant: every unrecognised service is ended with TEOIR.
EndExceptionAsTx == EndTx /\ rir' = rir

EndException == EndRx

\* A damaged character is read and thrown away; a storm of them mutes the
\* receiver.
RxError ==
  /\ pc = "rx" /\ svc.vct = "error"
  /\ fifo' = [fifo EXCEPT ![sel] = LeftOver(sel, "error")]
  /\ EndException
  /\ \E anew \in BOOLEAN :
       LET n == ErrCount(svc.ch, anew)
       IN  /\ err_cnt' = [err_cnt EXCEPT ![svc.ch] = n]
           /\ \/ /\ Mutes(svc.ch, n)
                 /\ rx_off' = [rx_off EXCEPT ![svc.ch] = TRUE]
                 /\ sel' = svc.ch
                 /\ ier' = [ier EXCEPT ![svc.ch] = {TxD}]
              \/ ~Mutes(svc.ch, n) /\ UNCHANGED <<rx_off, sel, ier>>
  /\ hw_lock' = "free" /\ Return(TRUE)
  /\ UNCHANGED <<tir, up, dtr, bad, rxn, lost, buf, open,
                 ring, tty, accepted, sent, op, brk, ucode, delivered>>

\* What the ring keeps after n bytes went to TDR.
\* Mutant: the tail is not advanced.
RingKept(c, n) == ring[c]

RingAfter(c, n) == SubSeq(ring[c], n + 1, Len(ring[c]))

\* IER of a transmitter with nothing to send.
\* Mutant: everything is switched off.
AllOffIer == {}

IdleIer == {RET, RxD}

\* Transmit: TDR reaches the line only inside a transmit context.
TxService ==
  /\ pc = "tx"
  /\ \E room \in 1..MaxRoom :
       LET n == IF room < Len(ring[svc.ch]) THEN room ELSE Len(ring[svc.ch])
       IN  /\ ring' = [ring EXCEPT ![svc.ch] = RingAfter(svc.ch, n)]
           /\ sent' = IF tir.st = "act"
                      THEN [sent EXCEPT ![sel] =
                                          @ \o SubSeq(ring[svc.ch], 1, n)]
                      ELSE sent
           /\ ier' = IF n = 0 THEN [ier EXCEPT ![sel] = IdleIer] ELSE ier
  /\ EndTx
  /\ hw_lock' = "free" /\ Return(TRUE)
  /\ UNCHANGED <<rir, sel, up, dtr, fifo, bad, rxn, lost, buf,
                 open, rx_off, err_cnt, tty, accepted, op, brk, ucode,
                 delivered>>

-----------------------------------------------------------------------------
(* The tty operations, run by whichever thread opened the port.            *)

\* nm32a_port_activate, up to the wait for CCR_INITCH.  A chip that still
\* shows its silicon revision has no microcode and refuses the open.
Refuses == ucode = "boot"

ActivateBegin(c) ==
  /\ tty[c] = "closed" /\ HwLockFree
  /\ ~Refuses
  /\ hw_lock' = "tty" /\ op' = [kind |-> "activate", ch |-> c]
  /\ sel' = c
  /\ UNCHANGED <<rir, tir, ier, up, dtr, fifo, bad, rxn, lost, faults, pc,
                 svcVars, portVars, brk, ucode, delivered>>

\* CCR_INITCH and CCR_ENTX|CCR_ENRX: with microcode running the commands are
\* accepted, without it ccr_wait gives up.  Neither caller looks at the result.
ChannelCommands(c) ==
  IF ucode = "running"
  THEN up' = [up EXCEPT ![c] = TRUE] /\ FlushFifo(c)
  ELSE UNCHANGED <<up, fifo, lost>>

\* nm32a_chan_init, from CCR_INITCH on: what precedes it configures the
\* channel and has no effect on the services.
ChanInit(c) ==
  /\ ChannelCommands(c)
  /\ dtr' = [dtr EXCEPT ![c] = TRUE]
  /\ SetIer([ier EXCEPT ![c] = {RET, RxD, TxD}])

\* The ring of a port that has just been opened.
FreshRing(c) == <<>>

\* Opening starts a new count of receive exceptions.
\* Mutant: the old count is kept.
KeptCount(c) == err_cnt[c]

FreshCount(c) == 0

ActivateEnd(c) ==
  /\ op = [kind |-> "activate", ch |-> c]
  /\ ChanInit(c)
  /\ ring' = [ring EXCEPT ![c] = FreshRing(c)]
  /\ accepted' = [accepted EXCEPT ![c] = <<>>]
  /\ sent' = [sent EXCEPT ![c] = <<>>]
  /\ err_cnt' = [err_cnt EXCEPT ![c] = FreshCount(c)]
  /\ rx_off' = [rx_off EXCEPT ![c] = FALSE]
  /\ open' = [open EXCEPT ![c] = TRUE]
  /\ tty' = [tty EXCEPT ![c] = "open"]
  /\ hw_lock' = "free" /\ op' = NoOp
  /\ UNCHANGED <<sel, bad, rxn, faults, pc, svcVars, brk, ucode, delivered>>

\* nm32a_set_mctrl
\* Mutant: DTR and RTS are raised and never lowered.
SetMctrlRaiseOnly(c, active) ==
  sel' = c /\ dtr' = [dtr EXCEPT ![c] = @ \/ active]

SetMctrl(c, active) == sel' = c /\ dtr' = [dtr EXCEPT ![c] = active]

\* Mutant: only the receiver is switched off.
StopReceive(c) == SetIer([ier EXCEPT ![c] = @ \cap {TxD}])

StopService(c) == SetIer([ier EXCEPT ![c] = {}])

\* nm32a_port_shutdown.  Nothing waits for the ring to drain: the driver has
\* no chars_in_buffer operation.
Shutdown(c) ==
  /\ tty[c] = "open" /\ HwLockFree
  /\ tty' = [tty EXCEPT ![c] = "closed"]
  /\ open' = [open EXCEPT ![c] = FALSE]
  /\ StopService(c)
  /\ SetMctrl(c, FALSE)
  /\ UNCHANGED <<up, fifo, bad, rxn, lost, faults, hw_lock, pc, svcVars,
                 rx_off, err_cnt, ring, accepted, sent, op, brk, ucode,
                 delivered>>

\* nm32a_dtr_rts
DtrRts(c, active) ==
  /\ tty[c] = "open" /\ HwLockFree
  /\ SetMctrl(c, active)
  /\ UNCHANGED <<rir, tir, ier, up, fifo, bad, rxn, lost, faults, hw_lock, pc,
                 svcVars, portVars, op, brk, ucode, delivered>>

\* nm32a_tty_set_termios, in two parts like activate.
TermiosBegin(c) ==
  /\ tty[c] = "open" /\ HwLockFree
  /\ hw_lock' = "tty" /\ op' = [kind |-> "termios", ch |-> c]
  /\ sel' = c
  /\ UNCHANGED <<rir, tir, ier, up, dtr, fifo, bad, rxn, lost, faults, pc,
                 svcVars, portVars, brk, ucode, delivered>>

TermiosEnd(c) ==
  /\ op = [kind |-> "termios", ch |-> c]
  /\ ChannelCommands(c)
  /\ SetIer([ier EXCEPT ![c] = {RxD, TxD}])
  /\ hw_lock' = "free" /\ op' = NoOp
  /\ UNCHANGED <<sel, dtr, bad, rxn, faults, pc, svcVars, portVars, brk,
                 ucode, delivered>>

\* nm32a_tx_space
Space(c) == RingCap - Len(ring[c])

Enqueue(c, bytes) ==
  /\ ring' = [ring EXCEPT ![c] = @ \o bytes]
  /\ accepted' = [accepted EXCEPT ![c] = @ \o bytes]

\* nm32a_tty_write, one data byte at a time; module TxRing has the whole of
\* it.  A full ring takes nothing and the writer has to come back.
TtyWrite(c) ==
  /\ tty[c] = "open"
  /\ Len(accepted[c]) < MaxTx
  /\ Space(c) >= 1
  /\ Enqueue(c, <<Len(accepted[c]) + 1>>)
  /\ UNCHANGED <<chipVars, hw_lock, pc, svcVars, open, rx_off, err_cnt, tty,
                 sent, op, brk, ucode, delivered>>

\* Both bytes of an embedded command, or silently neither.
QueueCommand(c, cmd) ==
  IF Space(c) >= 2 THEN Enqueue(c, <<Nul, cmd>>)
                   ELSE UNCHANGED <<ring, accepted>>

\* nm32a_break_ctl
BreakCtl(c, cmd) ==
  /\ tty[c] = "open"
  /\ Len(accepted[c]) + 2 <= MaxTx
  /\ QueueCommand(c, cmd)
  /\ UNCHANGED <<chipVars, hw_lock, pc, svcVars, open, rx_off, err_cnt, tty,
                 sent, op, brk, ucode, delivered>>

-----------------------------------------------------------------------------
(* sendbreak_set: the break test.  One runs at a time (the parameter lock). *)

\* The port is made to look open, so that the poll thread serves it.
BreakStart(c) ==
  /\ brk.at = "idle" /\ brk.n < MaxTests
  /\ brk' = [at |-> "hold", ch |-> c, was_open |-> open[c], n |-> brk.n + 1]
  /\ open' = [open EXCEPT ![c] = TRUE]
  /\ QueueCommand(c, BrkOn)
  /\ UNCHANGED <<chipVars, hw_lock, pc, svcVars, rx_off, err_cnt, tty, sent,
                 op, ucode, delivered>>

\* One of the samples of the transmit pin, which move CAR.
BreakSample ==
  /\ brk.at = "hold" /\ HwLockFree
  /\ sel' = brk.ch
  /\ UNCHANGED <<rir, tir, ier, up, dtr, fifo, bad, rxn, lost, faults,
                 hw_lock, pc, svcVars, portVars, op, brk, ucode, delivered>>

BreakStop ==
  /\ brk.at = "hold"
  /\ brk' = [brk EXCEPT !.at = "stop"]
  /\ QueueCommand(brk.ch, BrkOff)
  /\ UNCHANGED <<chipVars, hw_lock, pc, svcVars, open, rx_off, err_cnt, tty,
                 sent, op, ucode, delivered>>

\* Fifty milliseconds later np->open gets the value it had at the start.
BreakRestore ==
  /\ brk.at = "stop"
  /\ brk' = [brk EXCEPT !.at = "idle"]
  /\ open' = [open EXCEPT ![brk.ch] = brk.was_open]
  /\ UNCHANGED <<chipVars, hw_lock, pc, svcVars, rx_off, err_cnt, ring, tty,
                 accepted, sent, op, ucode, delivered>>

-----------------------------------------------------------------------------
driverVars == <<hw_lock, pc, svcVars, portVars, op, brk, ucode, delivered>>

Poll == \/ Sweep \/ ArmTx \/ ReadRequest \/ Confirm \/ Acknowledge \/ Decide
        \/ RxData \/ Insert \/ RxTimeout \/ RxError \/ TxService

Chip == \/ \E c \in Chans : Arrive(c) \/ RequestRx(c) \/ RequestTx(c)
        \/ Withdraw

Tty == \E c \in Chans :
         \/ ActivateBegin(c) \/ ActivateEnd(c) \/ Shutdown(c)
         \/ \E active \in BOOLEAN : DtrRts(c, active)
         \/ TermiosBegin(c) \/ TermiosEnd(c)
         \/ TtyWrite(c)
         \/ \E cmd \in {BrkOn, BrkOff} : BreakCtl(c, cmd)

BreakTest == \/ \E c \in Chans : BreakStart(c)
             \/ BreakSample \/ BreakStop \/ BreakRestore

Next == \/ Poll
        \/ Chip /\ UNCHANGED driverVars
        \/ Tty
        \/ BreakTest

Spec == Init /\ [][Next]_vars

\* The poll thread is a kernel thread that never exits while the driver is
\* bound; a sleeper on hw_lock gets it in its turn (mutex hand-off), ccr_wait
\* is bounded in time, and the chip's microcode scans its channels in turn.
ChipStep(A) == A /\ UNCHANGED driverVars

Fairness ==
  /\ WF_vars(Poll) /\ SF_vars(ArmTx) /\ SF_vars(ReadRequest)
  /\ \A c \in Chans : /\ WF_vars(ActivateEnd(c)) /\ WF_vars(TermiosEnd(c))
                      /\ SF_vars(ChipStep(RequestRx(c)))
                      /\ SF_vars(ChipStep(RequestTx(c)))

FairSpec == Spec /\ Fairness

-----------------------------------------------------------------------------
(* Safety.                                                                 *)

\* A receive branch runs inside a receive context and a transmit branch inside
\* a transmit context, aimed at the granted channel; never two at once; and
\* hw_lock is never given up with a context still open.
ContextDiscipline ==
  /\ ~(rir.st = "act" /\ tir.st = "act")
  /\ pc = "rx" => rir.st = "act" /\ rir.ch = svc.ch /\ sel = svc.ch
  /\ pc = "tx" => tir.st = "act" /\ tir.ch = svc.ch /\ sel = svc.ch
  /\ hw_lock # "poll" => NoContext

\* The acknowledge read always retires: it is issued only while the chip has a
\* service to grant and no context is open.
NoStall == pc # "stalled"

\* What is still on its way to the tty layer of port c, oldest first.
InTransit(c) == (IF svc.ch = c THEN buf ELSE <<>>) \o fifo[c]

Increasing(s) == \A i, j \in DOMAIN s : i < j => s[i] < s[j]

\* Received characters reach the tty of the channel they arrived on, in order,
\* at most once, and never a damaged one.  Characters are numbered per channel,
\* so one that is handed to the wrong tty is a number nothing there had yet.
RxOrdered ==
  \A c \in Chans : /\ Increasing(delivered[c] \o InTransit(c))
                   /\ Range(delivered[c]) \subseteq 1..rxn[c]
                   /\ Range(delivered[c]) \cap bad[c] = {}

\* No character goes missing in the driver: each one is delivered, on its way,
\* damaged, or was lost to a full or re-initialised FIFO or a closed port.
RxComplete ==
  \A c \in Chans : Range(delivered[c] \o InTransit(c)) \cup bad[c] \cup lost[c]
                     = 1..rxn[c]

\* What was written to the transmit register of channel c followed by what its
\* ring still holds is exactly what the port accepted since it was opened.
TxExact == \A c \in Chans : sent[c] \o ring[c] = accepted[c]

\* A port the tty layer has closed asks for no service and shows the far end a
\* hang-up.
ClosedQuiet ==
  \A c \in Chans :
    tty[c] = "closed" => /\ ier[c] = {}
                         /\ op.ch # c \/ op.kind # "activate" => ~dtr[c]

\* Nothing is transmitted on a channel whose port is closed.
SilentWhenClosed ==
  [][\A c \in Chans : Len(sent'[c]) > Len(sent[c]) => tty[c] = "open"]_vars

\* The storm guard of nm32a_rx_exception cannot be missed: a count that has
\* reached the limit belongs to a muted port.  The guard compares for equality,
\* so a count that got past the limit unmuted would never trip it again.
StormMutes == \A c \in Chans : err_cnt[c] = ErrLimit => rx_off[c]

-----------------------------------------------------------------------------
(* Liveness.                                                               *)

\* Bytes queued on an open port are transmitted, muted receiver or not and
\* whatever else the chip has to ask: an idle transmitter is always re-armed.
TxDrains == \A c \in Chans : Pending(c) ~> ~Pending(c)

\* A character waiting in the FIFO of an open port is collected, unless the
\* storm guard mutes the receiver first.
Collectable(c) == open[c] /\ ~rx_off[c] /\ fifo[c] # <<>>

RxCollected == \A c \in Chans : Collectable(c) ~> ~Collectable(c)

-----------------------------------------------------------------------------
(* What the comments promise and the code does not keep.                    *)

\* No step of the poll thread enables a muted receiver again: only the next
\* open clears the mute.
MuteSurvivesPolling ==
  [][Poll => \A c \in Chans :
               rx_off[c] /\ RxD \notin ier[c] => RxD \notin ier'[c]]_vars

=============================================================================
