------------------------------- MODULE Cd2481 -------------------------------
(***************************************************************************)
(* One CD2481 four-channel serial controller of the NM-32A, as the driver  *)
(* kernel/cisco2811/nm32a.c uses it.  The chip is not part of the          *)
(* repository: everything here is read off the register accesses of the    *)
(* driver and the datasheet facts its comments quote.                      *)
(*                                                                         *)
(* The chip runs its own microcode and moves between any two register      *)
(* accesses of the driver.  It latches at most one receive request in RIR  *)
(* and one transmit request in TIR; an acknowledge cycle turns ONE of them *)
(* (receive first) into an interrupt context, which lasts until the EOIR   *)
(* of the same type.  Data registers address the channel the acknowledge   *)
(* selected, or the one a later write to CAR selects.                      *)
(***************************************************************************)
EXTENDS Integers, Sequences, FiniteSets, Functions

CONSTANTS
  Chans,         \* channels of the chip (0..3 on the card)
  Cabled,        \* channels with a far end that sends
  FifoCap,       \* receive FIFO depth (16)
  MaxRx,         \* bound: characters that reach a channel
  MaxWithdraw,   \* bound: requests the chip takes back unasked
  MaxEoiFail     \* bound: EOIR writes that never take (100 retries used up)

ASSUME ChipAssumption ==
  /\ Chans # {} /\ Chans \subseteq Nat /\ IsFiniteSet(Chans)
  /\ Cabled \subseteq Chans
  /\ FifoCap \in Nat \ {0}
  /\ MaxRx \in Nat /\ MaxWithdraw \in Nat /\ MaxEoiFail \in Nat

VARIABLES
  rir,     \* receive interrupt register: state, channel, vector
  tir,     \* transmit interrupt register: state and channel
  ier,     \* per channel: the enabled interrupts
  sel,     \* channel the per-channel registers address (CAR or context)
  up,      \* per channel: InitCh and EnTx|EnRx have been accepted
  dtr,     \* per channel: DTR/RTS outputs
  fifo,    \* per channel: receive FIFO, oldest character first
  bad,     \* history: characters received with a line error
  rxn,     \* history: how many characters reached the channel
  lost,    \* history: characters no driver could still deliver
  faults   \* withdrawals and failed EOIRs so far

chipVars == <<rir, tir, ier, sel, up, dtr, fifo, bad, rxn, lost, faults>>

RET == "RET"   \* IER bit 5, receive timeout
RxD == "RxD"   \* IER bit 3
TxD == "TxD"   \* IER bit 0

Vectors  == {"none", "data", "timeout", "error"}
Register == [st : {"idle", "req", "act"}, ch : Chans, vct : Vectors]

\* Which channel an idle register names does not matter.
AnyChan == CHOOSE c \in Chans : TRUE
Idle    == [st |-> "idle", ch |-> AnyChan, vct |-> "none"]

ChipTypeOK ==
  /\ rir \in Register /\ tir \in Register
  /\ ier \in [Chans -> SUBSET {RET, RxD, TxD}]
  /\ sel \in Chans
  /\ up \in [Chans -> BOOLEAN] /\ dtr \in [Chans -> BOOLEAN]
  /\ fifo \in [Chans -> Seq(Nat)]
  /\ bad \in [Chans -> SUBSET Nat] /\ lost \in [Chans -> SUBSET Nat]
  /\ rxn \in [Chans -> Nat]
  /\ faults \in [withdraw : Nat, eoi : Nat]

ChipInit ==
  /\ rir = Idle /\ tir = Idle /\ sel = AnyChan
  /\ ier = [c \in Chans |-> {}]
  /\ up = [c \in Chans |-> FALSE]
  /\ dtr = [c \in Chans |-> FALSE]
  /\ fifo = [c \in Chans |-> <<>>]
  /\ bad = [c \in Chans |-> {}]
  /\ lost = [c \in Chans |-> {}]
  /\ rxn = [c \in Chans |-> 0]
  /\ faults = [withdraw |-> 0, eoi |-> 0]

-----------------------------------------------------------------------------
(* What the chip does by itself. *)

\* A context of channel c is open: the chip asks for nothing more on c.
InContext(c) == \/ rir.st = "act" /\ rir.ch = c
                \/ tir.st = "act" /\ tir.ch = c

\* A character, good or damaged, reaches an enabled receiver.  A full FIFO
\* loses it.
Arrive(c) ==
  /\ c \in Cabled /\ up[c] /\ rxn[c] < MaxRx
  /\ rxn' = [rxn EXCEPT ![c] = @ + 1]
  /\ \/ bad' = bad
     \/ bad' = [bad EXCEPT ![c] = @ \cup {rxn[c] + 1}]
  /\ \/ /\ Len(fifo[c]) < FifoCap
        /\ fifo' = [fifo EXCEPT ![c] = Append(@, rxn[c] + 1)]
        /\ lost' = lost
     \/ /\ Len(fifo[c]) >= FifoCap
        /\ lost' = [lost EXCEPT ![c] = @ \cup {rxn[c] + 1}]
        /\ fifo' = fifo
  /\ UNCHANGED <<rir, tir, ier, sel, up, dtr, faults>>

RequestRx(c) ==
  /\ rir.st = "idle" /\ ~InContext(c)
  /\ up[c] /\ RxD \in ier[c] /\ fifo[c] # <<>>
  /\ rir' = [st |-> "req", ch |-> c, vct |-> "none"]
  /\ UNCHANGED <<tir, ier, sel, up, dtr, fifo, bad, rxn, lost, faults>>

RequestTx(c) ==
  /\ tir.st = "idle" /\ ~InContext(c)
  /\ up[c] /\ TxD \in ier[c]
  /\ tir' = [st |-> "req", ch |-> c, vct |-> "none"]
  /\ UNCHANGED <<rir, ier, sel, up, dtr, fifo, bad, rxn, lost, faults>>

\* A request goes away before it is acknowledged.
Withdraw ==
  /\ faults.withdraw < MaxWithdraw
  /\ \/ rir.st = "req" /\ rir' = Idle /\ tir' = tir
     \/ tir.st = "req" /\ tir' = Idle /\ rir' = rir
  /\ faults' = [faults EXCEPT !.withdraw = @ + 1]
  /\ UNCHANGED <<ier, sel, up, dtr, fifo, bad, rxn, lost>>

-----------------------------------------------------------------------------
(* What the driver's register accesses do. *)

\* The vector of a receive service: an exception when the oldest character is
\* damaged, otherwise good data, or the timeout that flushes a quiet FIFO.  The
\* FIFO may have been emptied since the request.
RxVectors(c) ==
  IF fifo[c] = <<>> THEN {"data", "timeout"}
  ELSE IF Head(fifo[c]) \in bad[c] THEN {"error"}
  ELSE IF RET \in ier[c] THEN {"data", "timeout"} ELSE {"data"}

\* Acknowledge cycle with no context open: receive outranks transmit.
Grant ==
  \/ /\ rir.st = "req"
     /\ \E v \in RxVectors(rir.ch) :
          rir' = [rir EXCEPT !.st = "act", !.vct = v]
     /\ tir' = tir /\ sel' = rir.ch
  \/ /\ rir.st # "req" /\ tir.st = "req"
     /\ tir' = [tir EXCEPT !.st = "act"] /\ rir' = rir /\ sel' = tir.ch

NoContext == rir.st # "act" /\ tir.st # "act"

Requesting == rir.st = "req" \/ tir.st = "req"

\* What a request register becomes when the enables become e: disabling the
\* interrupt takes back a request that has not been acknowledged.
Masked(r, bit, e) ==
  IF r.st = "req" /\ bit \notin e[r.ch] THEN Idle ELSE r

\* Number of characters RFOC offers in a receive service with vector v.
RFOC(c, v) ==
  IF v = "error" THEN IF fifo[c] = <<>> THEN 0 ELSE 1
  ELSE Cardinality({k \in 1..Len(fifo[c]) :
                      \A j \in 1..k : fifo[c][j] \notin bad[c]})

\* The EOIR takes, or its retries run out and the context stays open.
EoiTakes == faults' = faults
EoiFails == /\ faults.eoi < MaxEoiFail
            /\ faults' = [faults EXCEPT !.eoi = @ + 1]

EndRx == \/ EoiTakes /\ rir' = (IF rir.st = "act" THEN Idle ELSE rir)
         \/ EoiFails /\ rir' = rir

EndTx == \/ EoiTakes /\ tir' = (IF tir.st = "act" THEN Idle ELSE tir)
         \/ EoiFails /\ tir' = tir

\* CCR_INITCH empties the channel's FIFO.  It leaves an open interrupt
\* context alone.
FlushFifo(c) ==
  /\ fifo' = [fifo EXCEPT ![c] = <<>>]
  /\ lost' = [lost EXCEPT ![c] = @ \cup Range(fifo[c])]

=============================================================================
