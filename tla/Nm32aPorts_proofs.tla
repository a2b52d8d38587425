-------------------------- MODULE Nm32aPorts_proofs --------------------------
(***************************************************************************)
(* More proofs about the NM-32A driver on one CD2481: what a port that is  *)
(* closed may still do, and the path of received characters.  Everything   *)
(* rests on the type invariant and the context invariant of module         *)
(* Nm32a_proofs.                                                           *)
(***************************************************************************)
EXTENDS Nm32a_proofs

-----------------------------------------------------------------------------
(* Closed ports.  What the poll thread enables it takes from np->open and  *)
(* from the channel of the service, so both must belong to an open port: a *)
(* request or context of a port that closed would write the enables of a   *)
(* closed one.  Closing happens with hw_lock free, hence in no context,    *)
(* and takes back the requests it disables.                                *)

Activating(c) == op.kind = "activate" /\ op.ch = c

Quiet ==
  \A c \in Chans : tty[c] = "closed" => /\ ier[c] = {} /\ ~open[c]
                                        /\ dtr[c] => Activating(c)

Asked(r) == r.st # "idle" => tty[r.ch] = "open"

OpTarget ==
  /\ op.kind = "activate" => tty[op.ch] = "closed"
  /\ op.kind = "termios" => tty[op.ch] = "open"

NoTest == brk.at = "idle"

QInv == Quiet /\ Asked(rir) /\ Asked(tir) /\ OpTarget /\ NoTest

\* Writing enables that are empty on closed ports leaves no request of one.
LEMMA SetIerAsked ==
  ASSUME TypeOK, NEW e \in [Chans -> SUBSET {RET, RxD, TxD}], SetIer(e), NoContext,
         \A c \in Chans : tty'[c] # "open" => e[c] = {}
  PROVE  Asked(rir)' /\ Asked(tir)'
<1>0. rir \in Register /\ tir \in Register
  BY DEF TypeOK, ChipTypeOK
<1>1. rir.ch \in Chans /\ tir.ch \in Chans
  BY <1>0 DEF Register
<1>2. Idle.st = "idle"
  BY DEF Idle
<1>3. Asked(rir)'
  <2>1. CASE rir.st = "req" /\ RxD \notin e[rir.ch]
    BY <1>2, <2>1 DEF SetIer, Masked, Asked
  <2>2. CASE rir.st = "req" /\ RxD \in e[rir.ch]
    BY <1>1, <2>2 DEF SetIer, Masked, Asked
  <2>3. CASE rir.st # "req"
    BY <1>0, <2>3 DEF SetIer, Masked, Asked, NoContext, Register
  <2>4. QED
    BY <2>1, <2>2, <2>3
<1>4. Asked(tir)'
  <2>1. CASE tir.st = "req" /\ TxD \notin e[tir.ch]
    BY <1>2, <2>1 DEF SetIer, Masked, Asked
  <2>2. CASE tir.st = "req" /\ TxD \in e[tir.ch]
    BY <1>1, <2>2 DEF SetIer, Masked, Asked
  <2>3. CASE tir.st # "req"
    BY <1>0, <2>3 DEF SetIer, Masked, Asked, NoContext, Register
  <2>4. QED
    BY <2>1, <2>2, <2>3
<1>5. QED
  BY <1>3, <1>4

\* The steps of the poll thread keep it.
LEMMA PollQuiet ==
  ASSUME MaxEoiFail = 0, TypeOK, CInv, QInv, Poll
  PROVE  QInv'
<1> USE DEF QInv
<1>0. /\ ChipTypeOK /\ rir \in Register /\ tir \in Register /\ Idle.st = "idle"
      /\ rir.ch \in Chans /\ tir.ch \in Chans
  BY DEF TypeOK, ChipTypeOK, Idle, Register
<1>1. UNCHANGED <<tty, open, op, brk, dtr>>
  BY DEF Poll, Sweep, ArmTx, ReadRequest, Confirm, Acknowledge, Decide, RxData,
         Insert, RxTimeout, RxError, TxService, chipVars, portVars
<1>2. OpTarget' /\ NoTest'
  BY <1>1 DEF OpTarget, NoTest
<1>3. ASSUME UNCHANGED <<rir, tir, ier>> PROVE QInv'
  BY <1>1, <1>2, <1>3 DEF Quiet, Asked, Activating
<1>4. CASE ArmTx
  <2> DEFINE e == [c \in Chans |-> IF Pending(c) THEN ArmedIer(c) ELSE ier[c]]
  <2>1. e \in [Chans -> SUBSET {RET, RxD, TxD}]
    BY <1>0 DEF ChipTypeOK, ArmedIer
  <2>2. \A c \in Chans : tty[c] # "open" => e[c] = {}
    BY DEF Pending, Quiet, TypeOK
  <2>3. NoContext
    BY <1>4, LockFree DEF ArmTx
  <2>4. SetIer(e)
    BY <1>4 DEF ArmTx
  <2> HIDE DEF e
  <2>5. Asked(rir)' /\ Asked(tir)'
    BY <1>1, <2>1, <2>2, <2>3, <2>4, SetIerAsked
  <2>6. Quiet'
    BY <1>1, <2>2, <2>4 DEF Quiet, SetIer, Activating, TypeOK
  <2>7. QED
    BY <1>2, <2>5, <2>6
<1>5. CASE Acknowledge
  <2>1. ier' = ier
    BY <1>5 DEF Acknowledge
  <2>2. Quiet'
    BY <1>1, <2>1 DEF Quiet, Activating
  <2>3. CASE Grant
    <3>1. CASE rir.st = "req"
      BY <1>0, <1>1, <1>2, <2>2, <2>3, <3>1 DEF Grant, Asked, Register
    <3>2. CASE rir.st # "req"
      BY <1>0, <1>1, <1>2, <2>2, <2>3, <3>2 DEF Grant, Asked, Register
    <3>3. QED
      BY <3>1, <3>2
  <2>4. CASE UNCHANGED <<rir, tir>>
    BY <1>3, <2>1, <2>4
  <2>5. QED
    BY <1>5, <2>3, <2>4 DEF Acknowledge
<1>6. CASE RxData \/ RxTimeout
  <2>1. EndRx /\ UNCHANGED <<tir, ier>>
    BY <1>6 DEF RxData, RxTimeout
  <2>2. rir' = rir \/ rir'.st = "idle"
    BY <1>0, <2>1 DEF EndRx
  <2>3. QED
    BY <1>1, <1>2, <2>1, <2>2 DEF Quiet, Asked, Activating
<1>7. CASE RxError
  <2>1. EndRx /\ tir' = tir
    BY <1>7 DEF RxError, EndException
  <2>2. rir' = rir \/ rir'.st = "idle"
    BY <1>0, <2>1 DEF EndRx
  <2>3. svc.ch \in Chans /\ tty[svc.ch] = "open"
    BY <1>7 DEF RxError, CInv, OneContext, Asked, TypeOK
  <2>4. ier' = ier \/ ier' = [ier EXCEPT ![svc.ch] = {TxD}]
    BY <1>7 DEF RxError
  <2>5. \A c \in Chans : tty[c] = "closed" => ier'[c] = ier[c]
    BY <1>0, <2>3, <2>4 DEF ChipTypeOK
  <2>6. QED
    BY <1>1, <1>2, <2>1, <2>2, <2>5 DEF Quiet, Asked, Activating
<1>8. CASE TxService
  <2>1. EndTx /\ rir' = rir
    BY <1>8 DEF TxService
  <2>2. tir' = tir \/ tir'.st = "idle"
    BY <1>0, <2>1 DEF EndTx
  <2>3. sel \in Chans /\ tty[sel] = "open"
    BY <1>8 DEF TxService, CInv, OneContext, Asked, TypeOK
  <2>4. ier' = ier \/ ier' = [ier EXCEPT ![sel] = IdleIer]
    BY <1>8 DEF TxService
  <2>5. \A c \in Chans : tty[c] = "closed" => ier'[c] = ier[c]
    BY <1>0, <2>3, <2>4 DEF ChipTypeOK
  <2>6. QED
    BY <1>1, <1>2, <2>1, <2>2, <2>5 DEF Quiet, Asked, Activating
<1>9. CASE Sweep \/ ReadRequest \/ Confirm \/ Decide \/ Insert
  BY <1>3, <1>9 DEF Sweep, ReadRequest, Confirm, Decide, Insert, chipVars
<1>10. QED
  BY <1>4, <1>5, <1>6, <1>7, <1>8, <1>9 DEF Poll


\* The chip asks only for channels with an enable set, hence of open ports.
LEMMA ChipQuiet ==
  ASSUME TypeOK, QInv, Chip, UNCHANGED driverVars
  PROVE  QInv'
<1> USE DEF QInv
<1>0. ier \in [Chans -> SUBSET {RET, RxD, TxD}] /\ tty \in [Chans -> {"closed", "open"}]
  BY DEF TypeOK, ChipTypeOK
<1>1. UNCHANGED <<tty, open, op, brk, dtr, ier>>
  BY DEF driverVars, portVars, Chip, Arrive, RequestRx, RequestTx, Withdraw
<1>2. Quiet' /\ OpTarget' /\ NoTest'
  BY <1>1 DEF Quiet, Activating, OpTarget, NoTest
<1>3. ASSUME NEW c \in Chans, Arrive(c) PROVE QInv'
  BY <1>1, <1>2, <1>3 DEF Arrive, Asked
<1>4. ASSUME NEW c \in Chans, RequestRx(c) PROVE QInv'
  <2>1. tty[c] = "open"
    BY <1>0, <1>4 DEF RequestRx, Quiet
  <2>2. QED
    BY <1>1, <1>2, <1>4, <2>1 DEF RequestRx, Asked
<1>5. ASSUME NEW c \in Chans, RequestTx(c) PROVE QInv'
  <2>1. tty[c] = "open"
    BY <1>0, <1>5 DEF RequestTx, Quiet
  <2>2. QED
    BY <1>1, <1>2, <1>5, <2>1 DEF RequestTx, Asked
<1>6. CASE Withdraw
  BY <1>1, <1>2, <1>6 DEF Withdraw, Asked, Idle
<1>7. QED
  BY <1>3, <1>4, <1>5, <1>6 DEF Chip

\* The tty operations: those that write the enables or the modem lines hold the
\* lock, so that no context of the poll thread is open.
LEMMA TtyQuiet ==
  ASSUME TypeOK, CInv, QInv, Tty
  PROVE  QInv'
<1> USE DEF QInv
<1>0. /\ ier \in [Chans -> SUBSET {RET, RxD, TxD}] /\ tty \in [Chans -> {"closed", "open"}]
      /\ dtr \in [Chans -> BOOLEAN] /\ open \in [Chans -> BOOLEAN]
  BY DEF TypeOK, ChipTypeOK
<1>1. ASSUME NEW c \in Chans, ActivateBegin(c) PROVE QInv'
  <2>1. op.kind = "none"
    BY <1>1, LockFree DEF ActivateBegin
  <2>2. /\ tty[c] = "closed" /\ op' = [kind |-> "activate", ch |-> c]
        /\ UNCHANGED <<rir, tir, ier, dtr, open, tty, brk>>
    BY <1>1 DEF ActivateBegin, portVars
  <2>3. QED
    BY <2>1, <2>2 DEF Quiet, Activating, Asked, OpTarget, NoTest
<1>2. ASSUME NEW c \in Chans, ActivateEnd(c) PROVE QInv'
  <2> DEFINE e == [ier EXCEPT ![c] = {RET, RxD, TxD}]
  <2>1. /\ op = [kind |-> "activate", ch |-> c] /\ op'.kind = "none"
        /\ SetIer(e) /\ dtr' = [dtr EXCEPT ![c] = TRUE]
        /\ open' = [open EXCEPT ![c] = TRUE] /\ tty' = [tty EXCEPT ![c] = "open"]
        /\ brk' = brk
    BY <1>2 DEF ActivateEnd, ChanInit, NoOp
  <2>2. NoContext
    BY <2>1 DEF CInv, LockOwner, OneContext, Held
  <2>3. e \in [Chans -> SUBSET {RET, RxD, TxD}]
    BY <1>0, ExceptType
  <2>4. \A d \in Chans : tty'[d] # "open" => e[d] = {}
    BY <1>0, <2>1 DEF Quiet
  <2> HIDE DEF e
  <2>5. Asked(rir)' /\ Asked(tir)'
    BY <2>1, <2>2, <2>3, <2>4, SetIerAsked
  <2>6. Quiet'
    BY <1>0, <2>1, <2>4 DEF Quiet, SetIer, Activating
  <2>7. OpTarget' /\ NoTest'
    BY <2>1 DEF OpTarget, NoTest
  <2>8. QED
    BY <2>5, <2>6, <2>7
<1>3. ASSUME NEW c \in Chans, Shutdown(c) PROVE QInv'
  <2> DEFINE e == [ier EXCEPT ![c] = {}]
  <2>1. /\ SetIer(e) /\ dtr' = [dtr EXCEPT ![c] = FALSE]
        /\ open' = [open EXCEPT ![c] = FALSE] /\ tty' = [tty EXCEPT ![c] = "closed"]
        /\ UNCHANGED <<brk, op>>
    BY <1>3 DEF Shutdown, StopService, SetMctrl
  <2>2. NoContext /\ op.kind = "none"
    BY <1>3, LockFree DEF Shutdown
  <2>3. e \in [Chans -> SUBSET {RET, RxD, TxD}]
    BY <1>0, ExceptType
  <2>4. \A d \in Chans : tty'[d] # "open" => e[d] = {}
    BY <1>0, <2>1 DEF Quiet
  <2> HIDE DEF e
  <2>5. Asked(rir)' /\ Asked(tir)'
    BY <2>1, <2>2, <2>3, <2>4, SetIerAsked
  <2>6. Quiet'
    BY <1>0, <2>1, <2>2, <2>4 DEF Quiet, SetIer, Activating
  <2>7. OpTarget' /\ NoTest'
    BY <2>1, <2>2 DEF OpTarget, NoTest
  <2>8. QED
    BY <2>5, <2>6, <2>7
<1>4. ASSUME NEW c \in Chans, NEW active \in BOOLEAN, DtrRts(c, active) PROVE QInv'
  <2>1. /\ tty[c] = "open" /\ dtr' = [dtr EXCEPT ![c] = active]
        /\ UNCHANGED <<rir, tir, ier, open, tty, brk, op>>
    BY <1>4 DEF DtrRts, SetMctrl, portVars
  <2>2. QED
    BY <1>0, <2>1 DEF Quiet, Activating, Asked, OpTarget, NoTest
<1>5. ASSUME NEW c \in Chans, TermiosBegin(c) PROVE QInv'
  <2>1. op.kind = "none"
    BY <1>5, LockFree DEF TermiosBegin
  <2>2. /\ tty[c] = "open" /\ op' = [kind |-> "termios", ch |-> c]
        /\ UNCHANGED <<rir, tir, ier, dtr, open, tty, brk>>
    BY <1>5 DEF TermiosBegin, portVars
  <2>3. QED
    BY <2>1, <2>2 DEF Quiet, Activating, Asked, OpTarget, NoTest
<1>6. ASSUME NEW c \in Chans, TermiosEnd(c) PROVE QInv'
  <2> DEFINE e == [ier EXCEPT ![c] = {RxD, TxD}]
  <2>1. /\ op = [kind |-> "termios", ch |-> c] /\ op'.kind = "none"
        /\ SetIer(e) /\ UNCHANGED <<dtr, open, tty, brk>>
    BY <1>6 DEF TermiosEnd, NoOp, portVars
  <2>2. NoContext /\ tty[c] = "open"
    BY <2>1 DEF CInv, LockOwner, OneContext, Held, OpTarget
  <2>3. e \in [Chans -> SUBSET {RET, RxD, TxD}]
    BY <1>0, ExceptType
  <2>4. \A d \in Chans : tty'[d] # "open" => e[d] = {}
    BY <1>0, <2>1, <2>2 DEF Quiet
  <2> HIDE DEF e
  <2>5. Asked(rir)' /\ Asked(tir)'
    BY <2>1, <2>2, <2>3, <2>4, SetIerAsked
  <2>6. Quiet'
    BY <1>0, <2>1, <2>4 DEF Quiet, SetIer, Activating
  <2>7. OpTarget' /\ NoTest'
    BY <2>1 DEF OpTarget, NoTest
  <2>8. QED
    BY <2>5, <2>6, <2>7
<1>7. ASSUME NEW c \in Chans,
             TtyWrite(c) \/ \E cmd \in {BrkOn, BrkOff} : BreakCtl(c, cmd)
      PROVE  QInv'
  <2>1. UNCHANGED <<rir, tir, ier, dtr, open, tty, brk, op>>
    BY <1>7 DEF TtyWrite, BreakCtl, chipVars
  <2>2. QED
    BY <2>1 DEF Quiet, Activating, Asked, OpTarget, NoTest
<1>8. QED
  BY <1>1, <1>2, <1>3, <1>4, <1>5, <1>6, <1>7 DEF Tty

\* Together: while every end of service takes and nobody runs the break test,
\* which makes a closed port look open, the invariant of the closed ports holds.
LEMMA QuietInvariant ==
  ASSUME MaxEoiFail = 0, MaxTests = 0
  PROVE  Spec => []QInv
<1>1. Init => QInv
  BY DEF Init, ChipInit, Idle, NoOp, QInv, Quiet, Activating, Asked, OpTarget, NoTest
<1>2. TypeOK /\ CInv /\ QInv /\ [Next]_vars => QInv'
  <2> SUFFICES ASSUME TypeOK, CInv, QInv, [Next]_vars PROVE QInv'
    OBVIOUS
  <2>1. ~BreakTest
    <3>1. brk.n \in Nat /\ brk.at = "idle"
      BY DEF TypeOK, QInv, NoTest
    <3>2. QED
      BY <3>1 DEF BreakTest, BreakStart, BreakSample, BreakStop, BreakRestore
  <2>2. CASE UNCHANGED vars
    BY <2>2
    DEF vars, chipVars, portVars, QInv, Quiet, Activating, Asked, OpTarget, NoTest
  <2>3. QED
    BY <2>1, <2>2, PollQuiet, ChipQuiet, TtyQuiet DEF Next
<1>3. QED
  BY <1>1, <1>2, TypeInvariant, ContextInvariant, PTL DEF Spec

\* As long as every end of service takes and no break test runs, a port that
\* nm32a_port_shutdown has closed asks for no service and keeps DTR down until
\* it is opened again, whatever the poll thread was doing when it closed.
THEOREM ClosedStaysQuiet ==
  ASSUME MaxEoiFail = 0, MaxTests = 0
  PROVE  Spec => []ClosedQuiet
<1>1. QInv => ClosedQuiet
  BY DEF QInv, Quiet, Activating, ClosedQuiet
<1>2. QED
  BY <1>1, QuietInvariant, PTL

\* Under the same conditions no byte is written to the transmit register of a
\* channel whose port is closed: the ring is emptied only in a transmit context,
\* and a context belongs to an open port.
THEOREM ClosedIsSilent ==
  ASSUME MaxEoiFail = 0, MaxTests = 0
  PROVE  Spec => SilentWhenClosed
<1> DEFINE A == \A c \in Chans : Len(sent'[c]) > Len(sent[c]) => tty[c] = "open"
<1>1. TypeOK /\ CInv /\ QInv /\ [Next]_vars => [A]_vars
  <2> SUFFICES ASSUME TypeOK, CInv, QInv, Next PROVE A
    OBVIOUS
  <2>0a. sent \in [Chans -> Seq(Int)]
    BY DEF TypeOK
  <2>0. sent \in [Chans -> Seq(Int)] /\ \A c \in Chans : Len(sent[c]) \in Nat
    BY <2>0a
  <2>1. ASSUME sent' = sent PROVE A
    BY <2>0, <2>1
  <2>2. CASE TxService
    <3>1. sel \in Chans /\ tty[sel] = "open"
      BY <2>2 DEF TxService, CInv, OneContext, QInv, Asked, TypeOK
    <3>2. \A c \in Chans : c # sel => sent'[c] = sent[c]
      BY <2>0, <2>2 DEF TxService
    <3>3. QED
      BY <2>0, <3>1, <3>2
  <2>3. ASSUME NEW c \in Chans, ActivateEnd(c) PROVE A
    <3>1. sent' = [sent EXCEPT ![c] = <<>>]
      BY <2>3 DEF ActivateEnd
    <3>2. QED
      BY <2>0, <3>1
  <2>4. ASSUME Poll, ~TxService PROVE sent' = sent
    BY <2>4
    DEF Poll, Sweep, ArmTx, ReadRequest, Confirm, Acknowledge, Decide, RxData, Insert,
        RxTimeout, RxError, portVars
  <2>5. ASSUME Tty, ~\E c \in Chans : ActivateEnd(c) PROVE sent' = sent
    BY <2>5
    DEF Tty, ActivateBegin, Shutdown, DtrRts, TermiosBegin, TermiosEnd, TtyWrite, BreakCtl,
        portVars
  <2>6. ASSUME BreakTest PROVE sent' = sent
    BY <2>6 DEF BreakTest, BreakStart, BreakSample, BreakStop, BreakRestore, portVars
  <2>7. ASSUME UNCHANGED driverVars PROVE sent' = sent
    BY <2>7 DEF driverVars, portVars
  <2> HIDE DEF A
  <2>8. QED
    BY <2>1, <2>2, <2>3, <2>4, <2>5, <2>6, <2>7 DEF Next
<1>2. QED
  BY <1>1, TypeInvariant, ContextInvariant, QuietInvariant, PTL DEF Spec, SilentWhenClosed

-----------------------------------------------------------------------------
(* Received characters.  A concatenation is increasing when its parts are  *)
(* and each lies below the next, so the whole argument is about the sets   *)
(* of characters in the three places a character can be: handed over, in   *)
(* rxbuf, in the FIFO.                                                     *)

Below(A, B) == \A x \in A, y \in B : x < y

\* The characters of a concatenation.
LEMMA RangeConcat ==
  ASSUME NEW a \in Seq(Nat), NEW b \in Seq(Nat)
  PROVE  Range(a \o b) = Range(a) \cup Range(b)
<1>1. /\ Len(a) \in Nat /\ Len(b) \in Nat
      /\ DOMAIN a = 1..Len(a) /\ DOMAIN b = 1..Len(b)
      /\ DOMAIN (a \o b) = 1..(Len(a) + Len(b))
      /\ \A i \in 1..Len(a) : (a \o b)[i] = a[i]
  OBVIOUS
<1>2. \A i \in 1..Len(b) : Len(a) + i \in 1..(Len(a) + Len(b)) /\ (a \o b)[Len(a) + i] = b[i]
  BY <1>1
<1>3. ASSUME NEW i \in 1..(Len(a) + Len(b))
      PROVE  i \in 1..Len(a) \/ \E j \in 1..Len(b) : i = Len(a) + j
  <2>1. CASE i > Len(a)
    <3>1. i - Len(a) \in 1..Len(b) /\ i = Len(a) + (i - Len(a))
      BY <1>1, <2>1
    <3>2. QED
      BY <3>1
  <2>2. CASE i <= Len(a)
    BY <1>1, <2>2
  <2>3. QED
    BY <1>1, <2>1, <2>2
<1>4. Range(a \o b) \subseteq Range(a) \cup Range(b)
  <2> SUFFICES ASSUME NEW i \in 1..(Len(a) + Len(b))
               PROVE  (a \o b)[i] \in Range(a) \cup Range(b)
    BY <1>1 DEF Range
  <2>1. QED
    BY <1>1, <1>2, <1>3 DEF Range
<1>5. Range(a) \subseteq Range(a \o b)
  <2> SUFFICES ASSUME NEW i \in 1..Len(a) PROVE a[i] \in Range(a \o b)
    BY <1>1 DEF Range
  <2>1. i \in 1..(Len(a) + Len(b)) /\ a[i] = (a \o b)[i]
    BY <1>1
  <2>2. QED
    BY <1>1, <2>1 DEF Range
<1>6. Range(b) \subseteq Range(a \o b)
  <2> SUFFICES ASSUME NEW i \in 1..Len(b) PROVE b[i] \in Range(a \o b)
    BY <1>1 DEF Range
  <2>1. QED
    BY <1>1, <1>2 DEF Range
<1>7. QED
  BY <1>4, <1>5, <1>6

\* When a concatenation is increasing.
LEMMA ConcatIncreasing ==
  ASSUME NEW a \in Seq(Nat), NEW b \in Seq(Nat)
  PROVE  Increasing(a \o b) <=>
           Increasing(a) /\ Increasing(b) /\ Below(Range(a), Range(b))
<1>1. /\ Len(a) \in Nat /\ Len(b) \in Nat
      /\ DOMAIN a = 1..Len(a) /\ DOMAIN b = 1..Len(b)
      /\ DOMAIN (a \o b) = 1..(Len(a) + Len(b))
      /\ \A i \in 1..Len(a) : (a \o b)[i] = a[i]
  OBVIOUS
<1>2. \A i \in 1..Len(b) : Len(a) + i \in 1..(Len(a) + Len(b)) /\ (a \o b)[Len(a) + i] = b[i]
  BY <1>1
<1>2a. \A i \in 1..Len(a) : i \in 1..(Len(a) + Len(b))
  BY <1>1
<1>3. ASSUME NEW i \in 1..(Len(a) + Len(b))
      PROVE  i \in 1..Len(a) \/ \E j \in 1..Len(b) : i = Len(a) + j
  <2>1. CASE i > Len(a)
    <3>1. i - Len(a) \in 1..Len(b) /\ i = Len(a) + (i - Len(a))
      BY <1>1, <2>1
    <3>2. QED
      BY <3>1
  <2>2. CASE i <= Len(a)
    BY <1>1, <2>2
  <2>3. QED
    BY <1>1, <2>1, <2>2
<1> DEFINE s == a \o b
           m == Len(a)
           n == Len(b)
<1>4. /\ m \in Nat /\ n \in Nat
      /\ DOMAIN a = 1..m /\ DOMAIN b = 1..n /\ DOMAIN s = 1..(m + n)
      /\ \A i \in 1..m : i \in 1..(m + n) /\ s[i] = a[i]
      /\ \A i \in 1..n : m + i \in 1..(m + n) /\ s[m + i] = b[i]
      /\ \A i \in 1..(m + n) : i \in 1..m \/ \E j \in 1..n : i = m + j
  BY <1>1, <1>2, <1>2a, <1>3
<1> HIDE DEF s, m, n
<1>5. ASSUME Increasing(s)
      PROVE  Increasing(a) /\ Increasing(b) /\ Below(Range(a), Range(b))
  <2>1. ASSUME NEW i \in 1..m, NEW j \in 1..m, i < j PROVE a[i] < a[j]
    BY <1>4, <1>5, <2>1 DEF Increasing
  <2>2. ASSUME NEW i \in 1..n, NEW j \in 1..n, i < j PROVE b[i] < b[j]
    <3>1. m + i < m + j
      BY <1>4, <2>2
    <3>2. s[m + i] < s[m + j]
      BY <1>4, <1>5, <3>1 DEF Increasing
    <3>3. QED
      BY <1>4, <3>2
  <2>3. ASSUME NEW i \in 1..m, NEW j \in 1..n PROVE a[i] < b[j]
    <3>1. i < m + j
      BY <1>4
    <3>2. s[i] < s[m + j]
      BY <1>4, <1>5, <3>1 DEF Increasing
    <3>3. QED
      BY <1>4, <3>2
  <2>4. QED
    BY <1>4, <2>1, <2>2, <2>3 DEF Increasing, Below, Range
<1>6. ASSUME Increasing(a), Increasing(b), Below(Range(a), Range(b))
      PROVE  Increasing(s)
  <2> SUFFICES ASSUME NEW i \in 1..(m + n), NEW j \in 1..(m + n), i < j
               PROVE  s[i] < s[j]
    BY <1>4 DEF Increasing
  <2>1. CASE i \in 1..m /\ j \in 1..m
    BY <1>4, <1>6, <2>1 DEF Increasing
  <2>2. CASE i \in 1..m /\ \E k \in 1..n : j = m + k
    <3>1. PICK k \in 1..n : j = m + k
      BY <2>2
    <3>2. s[i] \in Range(a) /\ s[j] \in Range(b)
      BY <1>4, <2>2, <3>1 DEF Range
    <3>3. QED
      BY <1>6, <3>2 DEF Below
  <2>3. CASE (\E h \in 1..n : i = m + h) /\ \E k \in 1..n : j = m + k
    <3>1. PICK h \in 1..n, k \in 1..n : i = m + h /\ j = m + k
      BY <2>3
    <3>2. h < k
      BY <1>4, <3>1
    <3>3. QED
      BY <1>4, <1>6, <3>1, <3>2 DEF Increasing
  <2>4. CASE j \in 1..m /\ \E h \in 1..n : i = m + h
    BY <1>4, <2>4
  <2>5. QED
    BY <1>4, <2>1, <2>2, <2>3, <2>4
<1>7. QED
  BY <1>5, <1>6 DEF s

\* The characters RFOC announces for anything but an exception are undamaged:
\* the positions it counts are the first ones.
LEMMA ReadIsGood ==
  ASSUME NEW c \in Chans, NEW v, v # "error", ChipTypeOK
  PROVE  Range(ReadChars(c, v)) \cap bad[c] = {}
<1> DEFINE n == Len(fifo[c])
           S == {k \in 1..n : \A j \in 1..k : fifo[c][j] \notin bad[c]}
           m == Cardinality(S)
<1>1. fifo[c] \in Seq(Nat) /\ n \in Nat
  BY DEF ChipTypeOK
<1>2. RFOC(c, v) = m
  BY DEF RFOC
<1>3. m \in Nat /\ m <= n
  BY <1>2, RFOCBound
<1>4. ASSUME NEW i \in 1..m PROVE i \in S
  <2> SUFFICES ASSUME i \notin S PROVE FALSE
    OBVIOUS
  <2>1. i \in Nat /\ i >= 1 /\ i <= m /\ i - 1 \in Nat /\ i \in 1..n
    BY <1>1, <1>3
  <2>2. S \subseteq 1..(i - 1)
    <3> SUFFICES ASSUME NEW k \in S, k > i - 1 PROVE FALSE
      BY <1>1, <2>1
    <3>1. k \in 1..n /\ \A j \in 1..k : fifo[c][j] \notin bad[c]
      OBVIOUS
    <3>2. \A j \in 1..i : j \in 1..k
      BY <1>1, <2>1, <3>1
    <3>3. QED
      BY <2>1, <3>1, <3>2
  <2>3. IsFiniteSet(1..(i - 1)) /\ Cardinality(1..(i - 1)) = i - 1
    <3> DEFINE p == i - 1
    <3>1. p \in Nat
      BY <2>1
    <3> HIDE DEF p
    <3>2. 1 \in Int /\ p \in Int
      BY <3>1
    <3>3. IsFiniteSet(1..p) /\ Cardinality(1..p) = (IF 1 > p THEN 0 ELSE p - 1 + 1)
      BY <3>2, FS_Interval, Zenon
    <3>4. Cardinality(1..p) = p
      BY <3>1, <3>3
    <3>5. QED
      BY <3>3, <3>4 DEF p
  <2> HIDE DEF S
  <2>4. m <= i - 1
    BY <2>2, <2>3, FS_Subset
  <2>5. QED
    BY <1>3, <2>1, <2>4
<1>5. ASSUME NEW i \in 1..m PROVE fifo[c][i] \notin bad[c]
  <2>1. \A j \in 1..i : fifo[c][j] \notin bad[c]
    BY <1>4
  <2>2. i \in 1..i
    BY <1>3
  <2>3. QED
    BY <2>1, <2>2
<1> HIDE DEF m, S
<1>6. DOMAIN ReadChars(c, v) = 1..m /\ \A i \in 1..m : ReadChars(c, v)[i] = fifo[c][i]
  BY <1>1, <1>2, <1>3 DEF ReadChars
<1>7. QED
  BY <1>5, <1>6 DEF Range

\* What a service has read of channel c and not handed over yet.
Buffered(c) == IF svc.ch = c THEN buf ELSE <<>>

\* Three sequences in a row: their characters, and when they are in order.
LEMMA ThreeParts ==
  ASSUME NEW d \in Seq(Nat), NEW b \in Seq(Nat), NEW f \in Seq(Nat)
  PROVE  /\ Range(d \o (b \o f)) = Range(d) \cup Range(b) \cup Range(f)
         /\ Increasing(d \o (b \o f)) <=>
              /\ Increasing(d) /\ Increasing(b) /\ Increasing(f)
              /\ Below(Range(d), Range(b)) /\ Below(Range(d), Range(f))
              /\ Below(Range(b), Range(f))
<1>1. b \o f \in Seq(Nat)
  OBVIOUS
<1>2. /\ Range(b \o f) = Range(b) \cup Range(f)
      /\ Range(d \o (b \o f)) = Range(d) \cup Range(b \o f)
  BY <1>1, RangeConcat
<1>3. /\ Increasing(b \o f) <=> /\ Increasing(b) /\ Increasing(f)
                                /\ Below(Range(b), Range(f))
      /\ Increasing(d \o (b \o f)) <=> /\ Increasing(d) /\ Increasing(b \o f)
                                       /\ Below(Range(d), Range(b \o f))
  BY <1>1, ConcatIncreasing
<1>4. Below(Range(d), Range(b \o f)) <=>
        Below(Range(d), Range(b)) /\ Below(Range(d), Range(f))
  BY <1>2 DEF Below
<1>5. QED
  BY <1>2, <1>3, <1>4

\* A receive context with the exception vector has a damaged character at the
\* head of its FIFO, which stays there until the service reads it; rxbuf holds
\* something only between the service and the insertion.
EInv ==
  /\ pc # "insert" => buf = <<>>
  /\ pc = "rx" => svc.vct = rir.vct
  /\ rir.st = "act" /\ rir.vct = "error" =>
       fifo[rir.ch] # <<>> /\ Head(fifo[rir.ch]) \in bad[rir.ch]

\* It is kept by a step that leaves the service alone and does not shorten a
\* FIFO that is being read.
LEMMA ServiceLeft ==
  ASSUME EInv, UNCHANGED <<pc, svc, buf>>, rir.st = "act" <=> rir'.st = "act",
         rir.st = "act" => UNCHANGED <<rir, fifo, bad>>,
         pc = "rx" => rir.st = "act"
  PROVE  EInv'
BY DEF EInv

\* A character that arrives does not change the head of the FIFO.
LEMMA HeadAppend ==
  ASSUME NEW q \in Seq(Nat), NEW x \in Nat, q # <<>>
  PROVE  Append(q, x) # <<>> /\ Head(Append(q, x)) = Head(q)
<1>1. Len(q) \in Nat /\ Len(q) >= 1
  OBVIOUS
<1>2. Append(q, x)[1] = q[1] /\ Len(Append(q, x)) = Len(q) + 1
  BY <1>1
<1>3. Append(q, x) \in Seq(Nat)
  OBVIOUS
<1>4. QED
  BY <1>1, <1>2, <1>3

\* What the reading of one character takes.
LEMMA FirstOnly ==
  ASSUME NEW q \in Seq(Nat), q # <<>>
  PROVE  Range(SubSeq(q, 1, 1)) = {Head(q)}
<1>1. Len(q) \in Nat /\ Len(q) >= 1 /\ Head(q) = q[1]
  OBVIOUS
<1>2. Len(SubSeq(q, 1, 1)) = 1 /\ SubSeq(q, 1, 1)[1] = q[1] /\ SubSeq(q, 1, 1) \in Seq(Nat)
  BY <1>1
<1>3. DOMAIN SubSeq(q, 1, 1) = {1}
  BY <1>2
<1>4. QED
  BY <1>1, <1>2, <1>3 DEF Range

\* Every step keeps it.
LEMMA ServiceStep ==
  ASSUME MaxEoiFail = 0, TypeOK, CInv, EInv, [Next]_vars
  PROVE  EInv'
<1>0. ChipTypeOK /\ rir \in Register /\ rir.ch \in Chans
  BY DEF TypeOK, ChipTypeOK, Register
<1>0a. pc = "rx" => rir.st = "act"
  BY DEF CInv, OneContext
<1>1. ASSUME Poll PROVE EInv'
  <2>1. CASE Sweep
    BY <2>1 DEF Sweep, EInv, chipVars, svcVars
  <2>2. CASE ArmTx
    <3>1. NoContext
      BY <2>2, LockFree DEF ArmTx
    <3>2. rir'.st # "act"
      BY <2>2, <3>1, SetIerKeeps DEF ArmTx, NoContext
    <3>3. QED
      BY <2>2, <3>2 DEF ArmTx, EInv
  <2>3. CASE ReadRequest \/ Confirm
    BY <2>3 DEF ReadRequest, Confirm, Return, EInv, chipVars
  <2>4. CASE Acknowledge
    <3>1. NoContext /\ pc' \notin {"rx", "insert"} /\ UNCHANGED <<buf, fifo, bad>> /\ pc = "ack"
      BY <2>4 DEF Acknowledge, CInv, OneContext, svcVars
    <3>2. CASE Grant /\ rir.st = "req"
      <4>1. PICK v \in RxVectors(rir.ch) : rir' = [rir EXCEPT !.st = "act", !.vct = v]
        BY <3>2 DEF Grant
      <4>2. rir'.ch = rir.ch /\ rir'.vct = v
        BY <1>0, <4>1 DEF Register
      <4>3. v = "error" => fifo[rir.ch] # <<>> /\ Head(fifo[rir.ch]) \in bad[rir.ch]
        BY DEF RxVectors
      <4>4. QED
        BY <3>1, <4>2, <4>3 DEF EInv
    <3>3. CASE ~(Grant /\ rir.st = "req")
      BY <2>4, <3>1, <3>3 DEF Acknowledge, Grant, NoContext, EInv
    <3>4. QED
      BY <3>2, <3>3
  <2>5. CASE Decide
    BY <2>5 DEF Decide, Return, TxGranted, EInv, chipVars
  <2>6. CASE RxData
    BY <1>0, <2>6, EndCloses DEF RxData, EInv
  <2>7. CASE Insert
    <3>1. rir.st # "act"
      BY <2>7 DEF Insert, CInv, OneContext, NoContext
    <3>2. QED
      BY <2>7, <3>1 DEF Insert, Return, EInv
  <2>8. CASE RxTimeout
    BY <1>0, <2>8, EndCloses DEF RxTimeout, Return, EInv
  <2>9. CASE RxError
    BY <1>0, <2>9, EndCloses DEF RxError, EndException, Return, EInv
  <2>10. CASE TxService
    <3>1. rir.st # "act"
      BY <2>10 DEF TxService, CInv, OneContext
    <3>2. QED
      BY <2>10, <3>1 DEF TxService, Return, EInv
  <2>11. QED
    BY <1>1, <2>1, <2>2, <2>3, <2>4, <2>5, <2>6, <2>7, <2>8, <2>9, <2>10 DEF Poll
<1>2. ASSUME Chip, UNCHANGED driverVars PROVE EInv'
  <2>0. UNCHANGED <<pc, svc, buf>>
    BY <1>2 DEF driverVars, svcVars
  <2>1. ASSUME NEW c \in Chans, Arrive(c) PROVE EInv'
    <3>1. rir' = rir /\ fifo[rir.ch] \in Seq(Nat) /\ rxn[c] + 1 \in Nat
      BY <1>0, <2>1 DEF Arrive, ChipTypeOK
    <3>2. fifo'[rir.ch] = fifo[rir.ch] \/ fifo'[rir.ch] = Append(fifo[rir.ch], rxn[c] + 1)
      BY <1>0, <2>1 DEF Arrive, ChipTypeOK
    <3>3. bad[rir.ch] \subseteq bad'[rir.ch]
      <4>1. bad \in [Chans -> SUBSET Nat]
        BY <1>0 DEF ChipTypeOK
      <4>2. bad' = bad \/ bad' = [bad EXCEPT ![c] = @ \cup {rxn[c] + 1}]
        BY <2>1 DEF Arrive
      <4>3. bad'[rir.ch] = bad[rir.ch] \/ bad'[rir.ch] = bad[rir.ch] \cup {rxn[c] + 1}
        BY <1>0, <4>1, <4>2
      <4>4. QED
        BY <4>3
    <3>4. ASSUME fifo[rir.ch] # <<>>
          PROVE  fifo'[rir.ch] # <<>> /\ Head(fifo'[rir.ch]) = Head(fifo[rir.ch])
      BY <3>1, <3>2, <3>4, HeadAppend
    <3>5. QED
      BY <2>0, <3>1, <3>3, <3>4 DEF EInv
  <2>2. ASSUME NEW c \in Chans, RequestRx(c) PROVE EInv'
    BY <1>0a, <2>0, <2>2, ServiceLeft DEF RequestRx
  <2>3. ASSUME NEW c \in Chans, RequestTx(c) PROVE EInv'
    BY <1>0a, <2>0, <2>3, ServiceLeft DEF RequestTx
  <2>4. CASE Withdraw
    <3>1. rir' = rir \/ (rir.st = "req" /\ rir'.st = "idle")
      BY <2>4 DEF Withdraw, Idle
    <3>2. UNCHANGED <<fifo, bad>>
      BY <2>4 DEF Withdraw
    <3>3. QED
      BY <1>0a, <2>0, <3>1, <3>2, ServiceLeft
  <2>5. QED
    BY <1>2, <2>1, <2>2, <2>3, <2>4 DEF Chip
<1>3. ASSUME Tty PROVE EInv'
  <2>1. ASSUME NEW c \in Chans, ActivateEnd(c) \/ TermiosEnd(c) PROVE EInv'
    <3>1. UNCHANGED <<pc, svc, buf>> /\ op.kind # "none"
      BY <2>1 DEF ActivateEnd, TermiosEnd, svcVars
    <3>2. rir.st # "act"
      BY <3>1 DEF CInv, LockOwner, OneContext, NoContext, Held
    <3>3. PICK e : SetIer(e)
      BY <2>1 DEF ActivateEnd, ChanInit, TermiosEnd
    <3>4. rir'.st # "act"
      BY <3>2, <3>3, SetIerKeeps
    <3>5. QED
      BY <1>0a, <3>1, <3>2, <3>4, ServiceLeft
  <2>2. ASSUME NEW c \in Chans, Shutdown(c) PROVE EInv'
    <3>1. UNCHANGED <<pc, svc, buf, fifo, bad>>
      BY <2>2 DEF Shutdown, svcVars
    <3>2. (rir.st = "act" <=> rir'.st = "act") /\ (rir.st = "act" => rir' = rir)
      BY <2>2, SetIerKeeps DEF Shutdown, StopService
    <3>3. QED
      BY <1>0a, <3>1, <3>2, ServiceLeft
  <2>3. ASSUME NEW c \in Chans,
               \/ ActivateBegin(c) \/ TermiosBegin(c) \/ TtyWrite(c)
               \/ \E active \in BOOLEAN : DtrRts(c, active)
               \/ \E cmd \in {BrkOn, BrkOff} : BreakCtl(c, cmd)
        PROVE  EInv'
    <3>1. UNCHANGED <<pc, svc, buf, fifo, bad, rir>>
      BY <2>3
      DEF ActivateBegin, TermiosBegin, TtyWrite, DtrRts, BreakCtl, svcVars, chipVars
    <3>2. QED
      BY <1>0a, <3>1, ServiceLeft
  <2>4. QED
    BY <1>3, <2>1, <2>2, <2>3 DEF Tty
<1>4. ASSUME BreakTest PROVE EInv'
  <2>1. UNCHANGED <<pc, svc, buf, fifo, bad, rir>>
    BY <1>4 DEF BreakTest, BreakStart, BreakSample, BreakStop, BreakRestore, svcVars, chipVars
  <2>2. QED
    BY <1>0a, <2>1, ServiceLeft
<1>5. CASE UNCHANGED vars
  BY <1>0a, <1>5, ServiceLeft DEF vars, svcVars, chipVars
<1>6. QED
  BY <1>1, <1>2, <1>3, <1>4, <1>5 DEF Next

-----------------------------------------------------------------------------
(* The ways of a character: what one step does to the places of port c.    *)

\* What the service hands over reaches the tty layer, or is dropped with the
\* port closed.
Passes(c, q) ==
  \/ delivered'[c] = delivered[c] \o q /\ lost'[c] = lost[c]
  \/ delivered'[c] = delivered[c] /\ lost'[c] = lost[c] \cup Range(q)

Stays(c) ==
  /\ delivered'[c] = delivered[c] /\ lost'[c] = lost[c] /\ fifo'[c] = fifo[c]
  /\ Buffered(c)' = Buffered(c)

Fills(c) ==
  /\ Buffered(c) = <<>> /\ fifo[c] = Buffered(c)' \o fifo'[c]
  /\ Range(Buffered(c)') \cap bad[c] = {}
  /\ delivered'[c] = delivered[c] /\ lost'[c] = lost[c]

Hands(c) == Buffered(c)' = <<>> /\ fifo'[c] = fifo[c] /\ Passes(c, Buffered(c))

Collects(c) ==
  /\ Buffered(c) = <<>> /\ Buffered(c)' = <<>>
  /\ \E q \in Seq(Nat) : /\ fifo[c] = q \o fifo'[c] /\ Range(q) \cap bad[c] = {}
                         /\ Passes(c, q)

Discards(c) ==
  /\ Buffered(c) = <<>> /\ Buffered(c)' = <<>>
  /\ \E q \in Seq(Nat) : fifo[c] = q \o fifo'[c] /\ Range(q) \subseteq bad[c]
  /\ delivered'[c] = delivered[c] /\ lost'[c] = lost[c]

Flushes(c) ==
  /\ delivered'[c] = delivered[c] /\ Buffered(c)' = Buffered(c)
  /\ fifo'[c] = <<>> /\ lost'[c] = lost[c] \cup Range(fifo[c])

Moves(c) ==
  /\ bad'[c] = bad[c] /\ rxn'[c] = rxn[c]
  /\ Stays(c) \/ Fills(c) \/ Hands(c) \/ Collects(c) \/ Discards(c) \/ Flushes(c)

Arrives(c) ==
  /\ rxn'[c] = rxn[c] + 1
  /\ delivered'[c] = delivered[c] /\ Buffered(c)' = Buffered(c)
  /\ bad'[c] = bad[c] \/ bad'[c] = bad[c] \cup {rxn[c] + 1}
  /\ \/ fifo'[c] = Append(fifo[c], rxn[c] + 1) /\ lost'[c] = lost[c]
     \/ fifo'[c] = fifo[c] /\ lost'[c] = lost[c] \cup {rxn[c] + 1}

\* The steps of the poll thread move characters in these ways only.
LEMMA PollMoves ==
  ASSUME MaxEoiFail = 0, TypeOK, CInv, EInv, Poll, NEW c \in Chans
  PROVE  Moves(c)
<1>0. /\ ChipTypeOK /\ sel \in Chans /\ svc.ch \in Chans /\ buf \in Seq(Nat)
      /\ fifo \in [Chans -> Seq(Nat)] /\ delivered \in [Chans -> Seq(Nat)]
      /\ lost \in [Chans -> SUBSET Nat]
  BY DEF TypeOK, ChipTypeOK
<1>1. UNCHANGED <<bad, rxn>>
  BY DEF Poll, Sweep, ArmTx, ReadRequest, Confirm, Acknowledge, Decide, RxData,
         Insert, RxTimeout, RxError, TxService, chipVars
<1>2. ASSUME buf = <<>>, buf' = <<>> PROVE Buffered(c) = <<>> /\ Buffered(c)' = <<>>
  BY <1>2 DEF Buffered
<1>3. ASSUME pc = "rx"
      PROVE  sel = svc.ch /\ buf = <<>>
  BY <1>3 DEF CInv, OneContext, EInv
<1>4. ASSUME NEW v
      PROVE  /\ ReadChars(c, v) \in Seq(Nat)
             /\ fifo[c] = ReadChars(c, v) \o LeftOver(c, v)
  BY <1>0, RFOCBound, Cut DEF ReadChars, LeftOver
<1>5. CASE RxData
  <2>1. /\ pc = "rx" /\ svc' = svc /\ buf' = ReadChars(sel, "data")
        /\ fifo' = [fifo EXCEPT ![sel] = LeftOver(sel, "data")]
        /\ UNCHANGED <<delivered, lost>>
    BY <1>5 DEF RxData
  <2>2. CASE c = sel
    <3>1. /\ Buffered(c) = <<>> /\ Buffered(c)' = ReadChars(c, "data")
          /\ fifo'[c] = LeftOver(c, "data")
      BY <1>0, <1>3, <2>1, <2>2 DEF Buffered
    <3>1a. Range(ReadChars(c, "data")) \cap bad[c] = {}
      BY <1>0, ReadIsGood
    <3>1b. fifo[c] = ReadChars(c, "data") \o LeftOver(c, "data")
      BY <1>4
    <3>2. Fills(c)
      BY <2>1, <3>1, <3>1a, <3>1b, Zenon DEF Fills
    <3>3. QED
      BY <1>1, <3>2 DEF Moves
  <2>3. CASE c # sel
    <3>1. Stays(c)
      BY <1>0, <1>3, <2>1, <2>3 DEF Stays, Buffered
    <3>2. QED
      BY <1>1, <3>1 DEF Moves
  <2>4. QED
    BY <2>2, <2>3
<1>6. CASE Insert
  <2>1. Deliver(svc.ch, buf) /\ buf' = <<>> /\ fifo' = fifo
    BY <1>6 DEF Insert
  <2>2. Buffered(c)' = <<>>
    BY <2>1 DEF Buffered
  <2>3. CASE c = svc.ch
    <3>1. Passes(c, buf)
      BY <1>0, <2>1, <2>3 DEF Deliver, Passes
    <3>2. Buffered(c) = buf
      BY <2>3 DEF Buffered
    <3>3. Hands(c)
      BY <2>1, <2>2, <3>1, <3>2 DEF Hands
    <3>4. QED
      BY <1>1, <3>3 DEF Moves
  <2>4. CASE c # svc.ch
    <3>1. delivered'[c] = delivered[c] /\ lost'[c] = lost[c]
      BY <1>0, <2>1, <2>4 DEF Deliver
    <3>2. Buffered(c) = <<>>
      BY <2>4 DEF Buffered
    <3>3. QED
      BY <1>1, <2>1, <2>2, <3>1, <3>2 DEF Moves, Stays
  <2>5. QED
    BY <2>3, <2>4
<1>7. CASE RxTimeout
  <2>1. /\ pc = "rx" /\ buf' = buf /\ Deliver(svc.ch, ReadChars(sel, "timeout"))
        /\ fifo' = [fifo EXCEPT ![sel] = LeftOver(sel, "timeout")]
    BY <1>7 DEF RxTimeout, TimeoutChars
  <2>2. Buffered(c) = <<>> /\ Buffered(c)' = <<>> /\ sel = svc.ch
    BY <1>2, <1>3, <2>1
  <2>3. CASE c = sel
    <3>1. Passes(c, ReadChars(c, "timeout"))
      BY <1>0, <2>1, <2>2, <2>3 DEF Deliver, Passes
    <3>2. fifo'[c] = LeftOver(c, "timeout")
      BY <1>0, <2>1, <2>3
    <3>3. Collects(c)
      BY <1>0, <1>4, <2>2, <3>1, <3>2, ReadIsGood DEF Collects
    <3>4. QED
      BY <1>1, <3>3 DEF Moves
  <2>4. CASE c # sel
    <3>1. delivered'[c] = delivered[c] /\ lost'[c] = lost[c] /\ fifo'[c] = fifo[c]
      BY <1>0, <2>1, <2>2, <2>4 DEF Deliver
    <3>2. QED
      BY <1>1, <2>2, <3>1 DEF Moves, Stays
  <2>5. QED
    BY <2>3, <2>4
<1>8. CASE RxError
  <2>1. /\ pc = "rx" /\ svc.vct = "error" /\ UNCHANGED <<buf, delivered, lost>>
        /\ fifo' = [fifo EXCEPT ![sel] = LeftOver(sel, "error")]
    BY <1>8 DEF RxError
  <2>2. Buffered(c) = <<>> /\ Buffered(c)' = <<>>
    BY <1>2, <1>3, <2>1
  <2>3. CASE c = sel
    <3>1. fifo[c] # <<>> /\ Head(fifo[c]) \in bad[c]
      BY <2>1, <2>3 DEF EInv, CInv, OneContext
    <3>2. RFOC(c, "error") = 1 /\ fifo[c] \in Seq(Nat)
      BY <1>0, <3>1 DEF RFOC
    <3>3. Range(ReadChars(c, "error")) = {Head(fifo[c])}
      BY <3>1, <3>2, FirstOnly DEF ReadChars
    <3>4. Range(ReadChars(c, "error")) \subseteq bad[c]
      BY <3>1, <3>3
    <3>5. fifo'[c] = LeftOver(c, "error")
      BY <1>0, <2>1, <2>3
    <3>6. Discards(c)
      BY <1>4, <2>1, <2>2, <3>4, <3>5 DEF Discards
    <3>7. QED
      BY <1>1, <3>6 DEF Moves
  <2>4. CASE c # sel
    <3>1. fifo'[c] = fifo[c]
      BY <1>0, <2>1, <2>4
    <3>2. QED
      BY <1>1, <2>1, <2>2, <3>1 DEF Moves, Stays
  <2>5. QED
    BY <2>3, <2>4
<1>9. ASSUME UNCHANGED <<buf, fifo, delivered, lost>>, buf = <<>> PROVE Moves(c)
  BY <1>1, <1>2, <1>9 DEF Moves, Stays
<1>10. CASE \/ Sweep \/ ArmTx \/ ReadRequest \/ Confirm \/ Acknowledge \/ Decide
            \/ TxService
  <2>1. UNCHANGED <<buf, fifo, delivered, lost>> /\ pc # "insert"
    BY <1>10 DEF Sweep, ArmTx, ReadRequest, Confirm, Acknowledge, Decide, TxService,
       chipVars, svcVars
  <2>2. QED
    BY <1>9, <2>1 DEF EInv
<1>11. QED
  BY <1>5, <1>6, <1>7, <1>8, <1>10 DEF Poll

\* So do all the others; a channel command empties the FIFO.
LEMMA CharacterStep ==
  ASSUME MaxEoiFail = 0, TypeOK, CInv, EInv, [Next]_vars, NEW c \in Chans
  PROVE  Moves(c) \/ Arrives(c)
<1>0. /\ fifo \in [Chans -> Seq(Nat)] /\ lost \in [Chans -> SUBSET Nat]
      /\ bad \in [Chans -> SUBSET Nat] /\ rxn \in [Chans -> Nat]
  BY DEF TypeOK, ChipTypeOK
<1>1. ASSUME UNCHANGED <<buf, svc, fifo, delivered, lost, bad, rxn>> PROVE Moves(c)
  BY <1>1 DEF Moves, Stays, Buffered
<1>2. ASSUME Chip, UNCHANGED driverVars PROVE Moves(c) \/ Arrives(c)
  <2>1. UNCHANGED <<buf, svc, delivered>>
    BY <1>2 DEF driverVars, svcVars
  <2>2. ASSUME NEW d \in Chans, Arrive(d) PROVE Moves(c) \/ Arrives(c)
    <3>1. Buffered(c)' = Buffered(c)
      BY <2>1 DEF Buffered
    <3>2. CASE c = d
      BY <1>0, <2>1, <2>2, <3>1, <3>2 DEF Arrive, Arrives
    <3>3. CASE c # d
      BY <1>0, <2>1, <2>2, <3>1, <3>3 DEF Arrive, Moves, Stays
    <3>4. QED
      BY <3>2, <3>3
  <2>3. ASSUME NEW d \in Chans, RequestRx(d) \/ RequestTx(d) PROVE Moves(c)
    BY <1>1, <2>1, <2>3 DEF RequestRx, RequestTx
  <2>4. CASE Withdraw
    BY <1>1, <2>1, <2>4 DEF Withdraw
  <2>5. QED
    BY <1>2, <2>2, <2>3, <2>4 DEF Chip
<1>3. ASSUME NEW d \in Chans, ActivateEnd(d) \/ TermiosEnd(d) PROVE Moves(c)
  <2>1. UNCHANGED <<buf, svc, delivered, bad, rxn>> /\ ChannelCommands(d)
    BY <1>3 DEF ActivateEnd, ChanInit, TermiosEnd, svcVars
  <2>2. Buffered(c)' = Buffered(c)
    BY <2>1 DEF Buffered
  <2>3. \/ fifo'[c] = fifo[c] /\ lost'[c] = lost[c]
        \/ fifo'[c] = <<>> /\ lost'[c] = lost[c] \cup Range(fifo[c])
    BY <1>0, <2>1 DEF ChannelCommands, FlushFifo
  <2>4. QED
    BY <2>1, <2>2, <2>3 DEF Moves, Stays, Flushes
<1>4. ASSUME NEW d \in Chans,
             \/ ActivateBegin(d) \/ TermiosBegin(d) \/ Shutdown(d) \/ TtyWrite(d)
             \/ \E active \in BOOLEAN : DtrRts(d, active)
             \/ \E cmd \in {BrkOn, BrkOff} : BreakCtl(d, cmd)
      PROVE  Moves(c)
  BY <1>1, <1>4
  DEF ActivateBegin, TermiosBegin, Shutdown, TtyWrite, DtrRts, BreakCtl, svcVars, chipVars
<1>5. ASSUME BreakTest PROVE Moves(c)
  BY <1>1, <1>5
  DEF BreakTest, BreakStart, BreakSample, BreakStop, BreakRestore, svcVars, chipVars
<1>6. CASE UNCHANGED vars
  BY <1>1, <1>6 DEF vars, svcVars, chipVars
<1>7. QED
  BY <1>2, <1>3, <1>4, <1>5, <1>6, PollMoves DEF Next, Tty

-----------------------------------------------------------------------------
(* Order.  The places lie one below the other, everything in them has      *)
(* arrived already, and what has left the FIFO towards the tty is good.    *)

Orderly(d, b, f, B, n) ==
  /\ Increasing(d) /\ Increasing(b) /\ Increasing(f)
  /\ Below(Range(d), Range(b)) /\ Below(Range(d), Range(f)) /\ Below(Range(b), Range(f))
  /\ Range(d) \cup Range(b) \cup Range(f) \subseteq 1..n
  /\ Range(d) \cap B = {} /\ Range(b) \cap B = {}

RInv == \A c \in Chans : Orderly(delivered[c], Buffered(c), fifo[c], bad[c], rxn[c])

\* The empty place.
LEMMA Empty == Range(<<>>) = {} /\ Increasing(<<>>) /\ <<>> \in Seq(Nat)
BY DEF Range, Increasing

\* A character arrives at the end.
LEMMA OrderlyArrival ==
  ASSUME NEW d \in Seq(Nat), NEW b \in Seq(Nat), NEW f \in Seq(Nat), NEW B, NEW B2,
         NEW n \in Nat, Orderly(d, b, f, B, n), B2 = B \/ B2 = B \cup {n + 1}
  PROVE  /\ Orderly(d, b, Append(f, n + 1), B2, n + 1)
         /\ Orderly(d, b, f, B2, n + 1)
<1> DEFINE x == n + 1
           one == <<x>>
<1>1. x \in Nat /\ one \in Seq(Nat) /\ Append(f, x) = f \o one
  OBVIOUS
<1>2. Range(one) = {x} /\ Increasing(one)
  <2>1. DOMAIN one = {1} /\ one[1] = x
    OBVIOUS
  <2>2. QED
    BY <2>1 DEF Range, Increasing
<1>3. 1..n \subseteq 1..x /\ x \in 1..x /\ \A y \in 1..n : y < x
  OBVIOUS
<1> HIDE DEF x, one
<1>4. Range(f \o one) = Range(f) \cup {x}
  BY <1>1, <1>2, RangeConcat
<1>5. Increasing(f \o one)
  <2>1. Below(Range(f), {x})
    BY <1>3 DEF Below, Orderly
  <2>2. QED
    BY <1>1, <1>2, <2>1, ConcatIncreasing DEF Orderly
<1>6. Below(Range(d), Range(f \o one)) /\ Below(Range(b), Range(f \o one))
  BY <1>3, <1>4 DEF Below, Orderly
<1>7. x \notin Range(d) /\ x \notin Range(b)
  <2>1. x \notin 1..n
    BY <1>1 DEF x
  <2>2. QED
    BY <2>1 DEF Orderly
<1>8. Range(d) \cap B2 = {} /\ Range(b) \cap B2 = {}
  BY <1>7 DEF Orderly, x
<1>9. /\ Range(d) \cup Range(b) \cup Range(f) \subseteq 1..x
      /\ Range(d) \cup Range(b) \cup Range(f \o one) \subseteq 1..x
  BY <1>3, <1>4 DEF Orderly
<1>10. Orderly(d, b, f \o one, B2, x) /\ Orderly(d, b, f, B2, x)
  BY <1>5, <1>6, <1>8, <1>9 DEF Orderly
<1>11. QED
  BY <1>1, <1>10 DEF x

\* The first part of the FIFO is taken out: into rxbuf, or away.
LEMMA OrderlyRead ==
  ASSUME NEW d \in Seq(Nat), NEW q \in Seq(Nat), NEW r \in Seq(Nat), NEW B, NEW n \in Nat,
         Orderly(d, <<>>, q \o r, B, n)
  PROVE  /\ Range(q) \cap B = {} => Orderly(d, q, r, B, n)
         /\ Orderly(d, <<>>, r, B, n)
<1>1. Range(q \o r) = Range(q) \cup Range(r)
  BY RangeConcat
<1>2. Increasing(q) /\ Increasing(r) /\ Below(Range(q), Range(r))
  BY ConcatIncreasing DEF Orderly
<1>3. Below(Range(d), Range(q)) /\ Below(Range(d), Range(r))
  BY <1>1 DEF Orderly, Below
<1>4. /\ Range(d) \cup Range(q) \cup Range(r) \subseteq 1..n
      /\ Range(d) \cup Range(<<>>) \cup Range(r) \subseteq 1..n
  BY <1>1, Empty DEF Orderly
<1>5. Below(Range(d), Range(<<>>)) /\ Below(Range(<<>>), Range(r))
  BY Empty DEF Below
<1>6. QED
  BY <1>2, <1>3, <1>4, <1>5, Empty DEF Orderly

\* What is in rxbuf is handed over, or dropped.
LEMMA OrderlyHand ==
  ASSUME NEW d \in Seq(Nat), NEW b \in Seq(Nat), NEW f \in Seq(Nat), NEW B, NEW n \in Nat,
         Orderly(d, b, f, B, n)
  PROVE  /\ Orderly(d \o b, <<>>, f, B, n) /\ Orderly(d, <<>>, f, B, n)
         /\ Orderly(d, b, <<>>, B, n)
<1>1. Range(d \o b) = Range(d) \cup Range(b)
  BY RangeConcat
<1>2. Increasing(d \o b)
  BY ConcatIncreasing DEF Orderly
<1>3. \A S : Below(S, Range(<<>>)) /\ Below(Range(<<>>), S)
  BY Empty DEF Below
<1>4. Below(Range(d \o b), Range(f))
  BY <1>1 DEF Orderly, Below
<1>5. Orderly(d \o b, <<>>, f, B, n)
  BY <1>1, <1>2, <1>3, <1>4, Empty DEF Orderly
<1>6. Orderly(d, <<>>, f, B, n) /\ Orderly(d, b, <<>>, B, n)
  BY <1>3, Empty DEF Orderly
<1>7. QED
  BY <1>5, <1>6

\* The places stay in order, whatever a step does to a character.
LEMMA OrderlyStep ==
  ASSUME TypeOK, TypeOK', NEW c \in Chans, Moves(c) \/ Arrives(c),
         Orderly(delivered[c], Buffered(c), fifo[c], bad[c], rxn[c])
  PROVE  Orderly(delivered[c], Buffered(c), fifo[c], bad[c], rxn[c])'
<1> DEFINE d == delivered[c]
           b == Buffered(c)
           f == fifo[c]
           d2 == delivered'[c]
           b2 == Buffered(c)'
           f2 == fifo'[c]
<1>1. d \in Seq(Nat) /\ b \in Seq(Nat) /\ f \in Seq(Nat) /\ rxn[c] \in Nat
  BY Empty DEF TypeOK, ChipTypeOK, Buffered
<1>2. d2 \in Seq(Nat) /\ b2 \in Seq(Nat) /\ f2 \in Seq(Nat)
  BY Empty DEF TypeOK, ChipTypeOK, Buffered
<1> DEFINE Goal == Orderly(d2, b2, f2, bad'[c], rxn'[c])
<1>0. Orderly(d, b, f, bad[c], rxn[c])
  OBVIOUS
<1>3. CASE Arrives(c)
  <2>1. /\ d2 = d /\ b2 = b /\ rxn'[c] = rxn[c] + 1
        /\ f2 = Append(f, rxn[c] + 1) \/ f2 = f
        /\ bad'[c] = bad[c] \/ bad'[c] = bad[c] \cup {rxn[c] + 1}
    BY <1>3 DEF Arrives
  <2> HIDE DEF d, b, f, d2, b2, f2
  <2>2. /\ Orderly(d, b, Append(f, rxn[c] + 1), bad'[c], rxn[c] + 1)
        /\ Orderly(d, b, f, bad'[c], rxn[c] + 1)
    <3> DEFINE B2 == bad'[c]
               n == rxn[c]
    <3>1. n \in Nat /\ Orderly(d, b, f, bad[c], n) /\ (B2 = bad[c] \/ B2 = bad[c] \cup {n + 1})
      BY <1>0, <1>1, <2>1
    <3> HIDE DEF B2, n
    <3>2. Orderly(d, b, Append(f, n + 1), B2, n + 1) /\ Orderly(d, b, f, B2, n + 1)
      BY <1>1, <3>1, OrderlyArrival
    <3>3. QED
      BY <3>2 DEF B2, n
  <2>3. Goal
    BY <2>1, <2>2, Zenon
  <2>4. QED
    BY <2>3 DEF d2, b2, f2
<1>4. CASE Moves(c)
  <2>0. bad'[c] = bad[c] /\ rxn'[c] = rxn[c]
    BY <1>4 DEF Moves
  <2>1. CASE Stays(c)
    BY <1>0, <2>0, <2>1 DEF Stays
  <2>2. CASE Fills(c)
    <3>1. b = <<>> /\ f = b2 \o f2 /\ Range(b2) \cap bad[c] = {} /\ d2 = d
      BY <2>2 DEF Fills
    <3> HIDE DEF d, b, f, d2, b2, f2
    <3>2. Goal
      BY <1>0, <1>1, <1>2, <2>0, <3>1, OrderlyRead
    <3>3. QED
      BY <3>2 DEF d2, b2, f2
  <2>3. CASE Hands(c)
    <3>1. b2 = <<>> /\ f2 = f /\ (d2 = d \o b \/ d2 = d)
      BY <2>3 DEF Hands, Passes
    <3> HIDE DEF d, b, f, d2, b2, f2
    <3>2. Goal
      BY <1>0, <1>1, <2>0, <3>1, OrderlyHand
    <3>3. QED
      BY <3>2 DEF d2, b2, f2
  <2>4. CASE Collects(c)
    <3>1. PICK q \in Seq(Nat) : /\ b = <<>> /\ b2 = <<>> /\ f = q \o f2
                                /\ Range(q) \cap bad[c] = {}
                                /\ d2 = d \o q \/ d2 = d
      BY <2>4 DEF Collects, Passes
    <3> HIDE DEF d, b, f, d2, b2, f2
    <3>2. Orderly(d, <<>>, q \o f2, bad[c], rxn[c])
      BY <1>0, <3>1
    <3>3. Orderly(d, q, f2, bad[c], rxn[c])
      BY <1>1, <1>2, <3>1, <3>2, OrderlyRead
    <3>4. /\ Orderly(d \o q, <<>>, f2, bad[c], rxn[c])
          /\ Orderly(d, <<>>, f2, bad[c], rxn[c])
      BY <1>1, <1>2, <3>3, OrderlyHand
    <3>5. Goal
      BY <2>0, <3>1, <3>4
    <3>6. QED
      BY <3>5 DEF d2, b2, f2
  <2>5. CASE Discards(c)
    <3>1. PICK q \in Seq(Nat) : b = <<>> /\ b2 = <<>> /\ f = q \o f2 /\ d2 = d
      BY <2>5 DEF Discards
    <3> HIDE DEF d, b, f, d2, b2, f2
    <3>2. Goal
      BY <1>0, <1>1, <1>2, <2>0, <3>1, OrderlyRead
    <3>3. QED
      BY <3>2 DEF d2, b2, f2
  <2>6. CASE Flushes(c)
    <3>1. d2 = d /\ b2 = b /\ f2 = <<>>
      BY <2>6 DEF Flushes
    <3> HIDE DEF d, b, f, d2, b2, f2
    <3>2. Goal
      BY <1>0, <1>1, <2>0, <3>1, OrderlyHand
    <3>3. QED
      BY <3>2 DEF d2, b2, f2
  <2>7. QED
    BY <1>4, <2>1, <2>2, <2>3, <2>4, <2>5, <2>6 DEF Moves
<1>5. QED
  BY <1>3, <1>4

\* While every end of service takes, the service invariant holds.
LEMMA ServiceInvariant ==
  ASSUME MaxEoiFail = 0
  PROVE  Spec => []EInv
<1>1. Init => EInv
  BY DEF Init, ChipInit, Idle, EInv
<1>2. TypeOK /\ CInv /\ EInv /\ [Next]_vars => EInv'
  BY ServiceStep
<1>3. QED
  BY <1>1, <1>2, TypeInvariant, ContextInvariant, PTL DEF Spec

\* As long as every end of service takes, the characters nm32a_service hands to
\* the tty layer of a port are those of its own channel, in the order in which
\* they arrived, each at most once and never a damaged one, for any number of
\* channels and whatever is opened, closed or reconfigured meanwhile.
THEOREM ReceiveOrdered ==
  ASSUME MaxEoiFail = 0
  PROVE  Spec => []RxOrdered
<1>1. Init => RInv
  <2> SUFFICES ASSUME Init, NEW c \in Chans
               PROVE  Orderly(delivered[c], Buffered(c), fifo[c], bad[c], rxn[c])
    BY DEF RInv
  <2>1. delivered[c] = <<>> /\ Buffered(c) = <<>> /\ fifo[c] = <<>>
    BY DEF Init, ChipInit, Buffered
  <2>2. QED
    BY <2>1, Empty DEF Orderly, Below
<1>2. TypeOK /\ TypeOK' /\ CInv /\ EInv /\ RInv /\ [Next]_vars => RInv'
  <2> SUFFICES ASSUME TypeOK, TypeOK', CInv, EInv, RInv, [Next]_vars, NEW c \in Chans
               PROVE  Orderly(delivered[c], Buffered(c), fifo[c], bad[c], rxn[c])'
    BY DEF RInv
  <2>1. Moves(c) \/ Arrives(c)
    BY CharacterStep
  <2>2. QED
    BY <2>1, OrderlyStep DEF RInv
<1>3. TypeOK /\ RInv => RxOrdered
  <2> SUFFICES ASSUME TypeOK, RInv, NEW c \in Chans
               PROVE  /\ Increasing(delivered[c] \o InTransit(c))
                      /\ Range(delivered[c]) \subseteq 1..rxn[c]
                      /\ Range(delivered[c]) \cap bad[c] = {}
    BY DEF RxOrdered
  <2>1. delivered[c] \in Seq(Nat) /\ Buffered(c) \in Seq(Nat) /\ fifo[c] \in Seq(Nat)
    BY Empty DEF TypeOK, ChipTypeOK, Buffered
  <2>2. InTransit(c) = Buffered(c) \o fifo[c]
    BY Zenon DEF InTransit, Buffered
  <2>3. Increasing(delivered[c] \o (Buffered(c) \o fifo[c]))
    BY <2>1, ThreeParts DEF RInv, Orderly
  <2>4. QED
    BY <2>2, <2>3 DEF RInv, Orderly
<1>4. QED
  BY <1>1, <1>2, <1>3, TypeInvariant, ContextInvariant, ServiceInvariant, PTL DEF Spec

-----------------------------------------------------------------------------
(* Completeness.  Every way a character can take keeps it accounted for.   *)

Accounted(d, b, f, B, l, n) ==
  Range(d) \cup Range(b) \cup Range(f) \cup B \cup l = 1..n

AInv == \A c \in Chans :
          Accounted(delivered[c], Buffered(c), fifo[c], bad[c], lost[c], rxn[c])

\* One character more.
LEMMA NextInterval ==
  ASSUME NEW n \in Nat
  PROVE  1..(n + 1) = (1..n) \cup {n + 1}
OBVIOUS

\* No step makes a character disappear.
LEMMA AccountedStep ==
  ASSUME TypeOK, TypeOK', NEW c \in Chans, Moves(c) \/ Arrives(c),
         Accounted(delivered[c], Buffered(c), fifo[c], bad[c], lost[c], rxn[c])
  PROVE  Accounted(delivered[c], Buffered(c), fifo[c], bad[c], lost[c], rxn[c])'
<1> DEFINE d == delivered[c]
           b == Buffered(c)
           f == fifo[c]
           d2 == delivered'[c]
           b2 == Buffered(c)'
           f2 == fifo'[c]
           Before == Range(d) \cup Range(b) \cup Range(f) \cup bad[c] \cup lost[c]
           After == Range(d2) \cup Range(b2) \cup Range(f2) \cup bad'[c] \cup lost'[c]
<1>1. d \in Seq(Nat) /\ b \in Seq(Nat) /\ f \in Seq(Nat) /\ rxn[c] \in Nat
  BY Empty DEF TypeOK, ChipTypeOK, Buffered
<1>2. d2 \in Seq(Nat) /\ b2 \in Seq(Nat) /\ f2 \in Seq(Nat)
  BY Empty DEF TypeOK, ChipTypeOK, Buffered
<1>0. Before = 1..rxn[c]
  BY DEF Accounted
<1>3. CASE Arrives(c)
  <2>1. /\ d2 = d /\ b2 = b /\ rxn'[c] = rxn[c] + 1
        /\ bad'[c] = bad[c] \/ bad'[c] = bad[c] \cup {rxn[c] + 1}
        /\ \/ f2 = Append(f, rxn[c] + 1) /\ lost'[c] = lost[c]
           \/ f2 = f /\ lost'[c] = lost[c] \cup {rxn[c] + 1}
    BY <1>3 DEF Arrives
  <2>2. Range(Append(f, rxn[c] + 1)) = Range(f) \cup {rxn[c] + 1}
    <3>1. /\ <<rxn[c] + 1>> \in Seq(Nat)
          /\ Append(f, rxn[c] + 1) = f \o <<rxn[c] + 1>>
      BY <1>1
    <3>2. Range(<<rxn[c] + 1>>) = {rxn[c] + 1}
      BY <1>1 DEF Range
    <3> HIDE DEF f
    <3>3. QED
      BY <1>1, <3>1, <3>2, RangeConcat
  <2>3. 1..(rxn[c] + 1) = (1..rxn[c]) \cup {rxn[c] + 1}
    BY <1>1, NextInterval
  <2>4. After = Before \cup {rxn[c] + 1}
    <3> HIDE DEF d, b, f, d2, b2, f2
    <3>1. QED
      BY <2>1, <2>2
  <2>5. After = 1..rxn'[c]
    <3> HIDE DEF Before, After
    <3>1. QED
      BY <1>0, <2>1, <2>3, <2>4
  <2>6. QED
    BY <2>5 DEF Accounted
<1>4. CASE Moves(c)
  <2>0. bad'[c] = bad[c] /\ rxn'[c] = rxn[c]
    BY <1>4 DEF Moves
  <2>1. ASSUME NEW q \in Seq(Nat), Passes(c, q)
        PROVE  Range(d2) \cup lost'[c] = Range(d) \cup lost[c] \cup Range(q)
    <3>1. Range(d \o q) = Range(d) \cup Range(q)
      BY <1>1, RangeConcat
    <3>2. \/ d2 = d \o q /\ lost'[c] = lost[c]
          \/ d2 = d /\ lost'[c] = lost[c] \cup Range(q)
      BY <2>1 DEF Passes
    <3> HIDE DEF d, d2
    <3>3. QED
      BY <3>1, <3>2
  <2>2. ASSUME NEW q \in Seq(Nat), f = q \o f2 PROVE Range(f) = Range(q) \cup Range(f2)
    BY <1>2, <2>2, RangeConcat
  <2>3. CASE Stays(c)
    BY <2>0, <2>3 DEF Stays, Accounted
  <2>4. CASE Fills(c)
    <3>1. b = <<>> /\ f = b2 \o f2 /\ d2 = d /\ lost'[c] = lost[c]
      BY <2>4 DEF Fills
    <3>2. Range(f) = Range(b2) \cup Range(f2)
      BY <1>2, <2>2, <3>1
    <3>3. After = Before
      <4> HIDE DEF d, b, f, d2, b2, f2
      <4>1. QED
        BY <2>0, <3>1, <3>2, Empty
    <3>4. QED
      BY <1>0, <2>0, <3>3 DEF Accounted
  <2>5. CASE Hands(c)
    <3>1. b2 = <<>> /\ f2 = f /\ Range(d2) \cup lost'[c] = Range(d) \cup lost[c] \cup Range(b)
      BY <1>1, <2>1, <2>5 DEF Hands
    <3>2. After = Before
      <4> HIDE DEF d, b, f, d2, b2, f2
      <4>1. QED
        BY <2>0, <3>1, Empty
    <3>3. QED
      BY <1>0, <2>0, <3>2 DEF Accounted
  <2>6. CASE Collects(c)
    <3>1. PICK q \in Seq(Nat) : b = <<>> /\ b2 = <<>> /\ f = q \o f2 /\ Passes(c, q)
      BY <2>6 DEF Collects
    <3>2. /\ Range(f) = Range(q) \cup Range(f2)
          /\ Range(d2) \cup lost'[c] = Range(d) \cup lost[c] \cup Range(q)
      BY <2>1, <2>2, <3>1
    <3>3. After = Before
      <4> HIDE DEF d, b, f, d2, b2, f2
      <4>1. QED
        BY <2>0, <3>1, <3>2, Empty
    <3>4. QED
      BY <1>0, <2>0, <3>3 DEF Accounted
  <2>7. CASE Discards(c)
    <3>1. PICK q \in Seq(Nat) : /\ b = <<>> /\ b2 = <<>> /\ f = q \o f2
                                /\ Range(q) \subseteq bad[c]
                                /\ d2 = d /\ lost'[c] = lost[c]
      BY <2>7 DEF Discards
    <3>2. Range(f) = Range(q) \cup Range(f2)
      BY <2>2, <3>1
    <3>3. After = Before
      <4> HIDE DEF d, b, f, d2, b2, f2
      <4>1. QED
        BY <2>0, <3>1, <3>2, Empty
    <3>4. QED
      BY <1>0, <2>0, <3>3 DEF Accounted
  <2>8. CASE Flushes(c)
    <3>1. d2 = d /\ b2 = b /\ f2 = <<>> /\ lost'[c] = lost[c] \cup Range(f)
      BY <2>8 DEF Flushes
    <3>2. After = Before
      <4> HIDE DEF d, b, f, d2, b2, f2
      <4>1. QED
        BY <2>0, <3>1, Empty
    <3>3. QED
      BY <1>0, <2>0, <3>2 DEF Accounted
  <2>9. QED
    BY <1>4, <2>3, <2>4, <2>5, <2>6, <2>7, <2>8 DEF Moves
<1>5. QED
  BY <1>3, <1>4

\* As long as every end of service takes, no received character goes missing in
\* the driver: each one that reached a channel is with the tty layer, on its way
\* there, damaged, or was lost to a full or re-initialised FIFO or a closed port.
THEOREM ReceiveComplete ==
  ASSUME MaxEoiFail = 0
  PROVE  Spec => []RxComplete
<1>1. Init => AInv
  <2> SUFFICES ASSUME Init, NEW c \in Chans
               PROVE  Accounted(delivered[c], Buffered(c), fifo[c], bad[c], lost[c], rxn[c])
    BY DEF AInv
  <2>1. /\ delivered[c] = <<>> /\ Buffered(c) = <<>> /\ fifo[c] = <<>>
        /\ bad[c] = {} /\ lost[c] = {} /\ rxn[c] = 0
    BY DEF Init, ChipInit, Buffered
  <2>2. 1..0 = {}
    OBVIOUS
  <2>3. QED
    BY <2>1, <2>2, Empty DEF Accounted
<1>2. TypeOK /\ TypeOK' /\ CInv /\ EInv /\ AInv /\ [Next]_vars => AInv'
  <2> SUFFICES ASSUME TypeOK, TypeOK', CInv, EInv, AInv, [Next]_vars, NEW c \in Chans
               PROVE  Accounted(delivered[c], Buffered(c), fifo[c], bad[c], lost[c], rxn[c])'
    BY DEF AInv
  <2>1. Moves(c) \/ Arrives(c)
    BY CharacterStep
  <2>2. QED
    BY <2>1, AccountedStep DEF AInv
<1>3. TypeOK /\ AInv => RxComplete
  <2> SUFFICES ASSUME TypeOK, AInv, NEW c \in Chans
               PROVE  Range(delivered[c] \o InTransit(c)) \cup bad[c] \cup lost[c] = 1..rxn[c]
    BY DEF RxComplete
  <2>1. delivered[c] \in Seq(Nat) /\ Buffered(c) \in Seq(Nat) /\ fifo[c] \in Seq(Nat)
    BY Empty DEF TypeOK, ChipTypeOK, Buffered
  <2>2. InTransit(c) = Buffered(c) \o fifo[c]
    BY Zenon DEF InTransit, Buffered
  <2>3. Range(delivered[c] \o (Buffered(c) \o fifo[c]))
          = Range(delivered[c]) \cup Range(Buffered(c)) \cup Range(fifo[c])
    BY <2>1, ThreeParts
  <2>4. QED
    BY <2>2, <2>3 DEF AInv, Accounted
<1>4. QED
  BY <1>1, <1>2, <1>3, TypeInvariant, ContextInvariant, ServiceInvariant, PTL DEF Spec

=============================================================================
