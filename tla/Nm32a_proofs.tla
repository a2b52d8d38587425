---------------------------- MODULE Nm32a_proofs ----------------------------
(***************************************************************************)
(* Proofs about the NM-32A driver on one CD2481, for every set of channels *)
(* and every value of the other constants.                                 *)
(***************************************************************************)
EXTENDS Nm32a, FiniteSetTheorems, SequenceTheorems, TLAPS

-----------------------------------------------------------------------------
(* Facts about the helpers.                                                *)

\* Changing a function at one point.
LEMMA ExceptType ==
  ASSUME NEW S, NEW T, NEW f \in [S -> T], NEW x \in S, NEW y \in T
  PROVE  [f EXCEPT ![x] = y] \in [S -> T]
OBVIOUS

\* Some channel exists, so the channel an idle register names is one.
LEMMA IdleType == AnyChan \in Chans /\ Idle \in Register
<1>1. AnyChan \in Chans
  BY ChipAssumption DEF ChipAssumption, AnyChan
<1>2. QED
  BY <1>1 DEF Idle, Register, Vectors

\* RFOC never offers more than the FIFO holds.
LEMMA RFOCBound ==
  ASSUME NEW c \in Chans, NEW v, ChipTypeOK
  PROVE  RFOC(c, v) \in Nat /\ RFOC(c, v) <= Len(fifo[c])
<1> DEFINE n == Len(fifo[c])
           S == {k \in 1..n : \A j \in 1..k : fifo[c][j] \notin bad[c]}
<1>1. fifo[c] \in Seq(Nat) /\ n \in Nat
  BY DEF ChipTypeOK
<1>2. IsFiniteSet(1..n) /\ Cardinality(1..n) = n
  BY <1>1, FS_Interval
<1>3. S \subseteq 1..n
  OBVIOUS
<1>4. /\ Cardinality(S) \in Nat
      /\ Cardinality(S) <= n
  BY <1>2, <1>3, FS_Subset, FS_CardinalityType, Zenon
<1>5. fifo[c] # <<>> => n >= 1
  BY <1>1
<1>6. QED
  <2> HIDE DEF S
  <2>1. RFOC(c, v) \in {0, 1, Cardinality(S)} 
    BY DEF RFOC, S
  <2>2. RFOC(c, v) = 1 => fifo[c] # <<>> \/ RFOC(c, v) = Cardinality(S)
    BY DEF RFOC, S
  <2>3. QED
    BY <1>1, <1>4, <1>5, <2>1, <2>2

\* Cutting a sequence in two: both parts are sequences over the same set, and
\* put together they are the sequence.
LEMMA Cut ==
  ASSUME NEW S, NEW q \in Seq(S), NEW n \in Nat, n <= Len(q)
  PROVE  /\ SubSeq(q, 1, n) \in Seq(S)
         /\ SubSeq(q, n + 1, Len(q)) \in Seq(S)
         /\ SubSeq(q, 1, n) \o SubSeq(q, n + 1, Len(q)) = q
<1> DEFINE a == SubSeq(q, 1, n)
           b == SubSeq(q, n + 1, Len(q))
<1>1. Len(q) \in Nat
  OBVIOUS
<1>2. a \in Seq(S) /\ Len(a) = n /\ \A i \in 1..n : a[i] = q[i]
  BY <1>1
<1>3. /\ b \in Seq(S) /\ Len(b) = Len(q) - n
      /\ \A i \in 1..(Len(q) - n) : b[i] = q[n + i]
  BY <1>1
<1>4. a \o b = q
  <2> HIDE DEF a, b
  <2>1. a \o b \in Seq(S) /\ Len(a \o b) = Len(q)
    BY <1>1, <1>2, <1>3
  <2>2. ASSUME NEW i \in 1..Len(q) PROVE (a \o b)[i] = q[i]
    <3>1. CASE i <= n
      BY <1>1, <1>2, <1>3, <3>1
    <3>2. CASE i > n
      <4>1. i - n \in 1..(Len(q) - n) /\ n + (i - n) = i
        BY <1>1, <3>2
      <4>2. (a \o b)[i] = b[i - n]
        BY <1>1, <1>2, <1>3, <3>2
      <4>3. QED
        BY <1>3, <4>1, <4>2
    <3>3. i <= n \/ i > n
      BY <1>1
    <3>4. QED
      BY <3>1, <3>2, <3>3
  <2>3. QED
    BY <2>1, <2>2, SeqEqual
<1>5. QED
  BY <1>2, <1>3, <1>4

\* What a receive service reads and leaves are sequences of characters.
LEMMA ReadType ==
  ASSUME NEW c \in Chans, NEW v, ChipTypeOK
  PROVE  ReadChars(c, v) \in Seq(Nat) /\ LeftOver(c, v) \in Seq(Nat)
<1>1. fifo[c] \in Seq(Nat)
  BY DEF ChipTypeOK
<1>2. QED
  BY <1>1, RFOCBound, Cut DEF ReadChars, LeftOver

\* Writing the enables keeps the request registers well formed.
LEMMA SetIerType ==
  ASSUME ChipTypeOK, NEW e \in [Chans -> SUBSET {RET, RxD, TxD}], SetIer(e)
  PROVE  /\ ier' \in [Chans -> SUBSET {RET, RxD, TxD}]
         /\ rir' \in Register /\ tir' \in Register
BY IdleType DEF SetIer, Masked, ChipTypeOK

\* So does ending a service.
LEMMA EndType ==
  ASSUME ChipTypeOK
  PROVE  /\ EndRx => rir' \in Register /\ faults' \in [withdraw : Nat, eoi : Nat]
         /\ EndTx => tir' \in Register /\ faults' \in [withdraw : Nat, eoi : Nat]
BY IdleType DEF ChipTypeOK, EndRx, EndTx, EoiTakes, EoiFails

\* Handing characters over, or dropping them.
LEMMA DeliverType ==
  ASSUME TypeOK, NEW c \in Chans, NEW q \in Seq(Nat), Deliver(c, q)
  PROVE  /\ delivered' \in [Chans -> Seq(Nat)]
         /\ lost' \in [Chans -> SUBSET Nat]
<1>1. Range(q) \subseteq Nat
  BY DEF Range
<1>2. delivered' \in [Chans -> Seq(Nat)]
  <2>1. delivered[c] \in Seq(Nat) /\ delivered[c] \o q \in Seq(Nat)
    BY DEF TypeOK
  <2>2. QED
    BY <2>1 DEF Deliver, TypeOK
<1>3. lost' \in [Chans -> SUBSET Nat]
  BY <1>1 DEF Deliver, TypeOK, ChipTypeOK
<1>4. QED
  BY <1>2, <1>3

-----------------------------------------------------------------------------
(* Type correctness.  TypeOK is not inductive: nm32a_service counts the    *)
(* burst down, so a service that is under way must have been counted.      *)

Serving == {"read", "confirm", "ack", "decide", "rx", "tx", "insert", "stalled"}

Counted == pc \in Serving => burst > 0

TInv == TypeOK /\ Counted

\* Leaving nm32a_service.
LEMMA ReturnType ==
  ASSUME TypeOK, burst > 0, NEW w \in BOOLEAN, Return(w)
  PROVE  /\ burst' \in 0..Burst /\ pc' \in {"read", "sweep"}
         /\ svc' \in [ch : Chans, vct : Vectors] /\ rx_expected' \in BOOLEAN
         /\ Counted'
<1>1. burst' \in 0..Burst /\ pc' \in {"read", "sweep"} /\ Counted'
  BY DriverAssumption DEF DriverAssumption, TypeOK, Return, Counted, Serving
<1>2. svc' \in [ch : Chans, vct : Vectors] /\ rx_expected' \in BOOLEAN
  BY IdleType DEF Return, NoService, Vectors
<1>3. QED
  BY <1>1, <1>2

\* The steps of the poll thread keep the types.
LEMMA PollType ==
  ASSUME TInv, Poll
  PROVE  TInv'
<1> USE DEF TInv
<1>1. CASE Sweep
  BY <1>1 DEF Sweep, TypeOK, ChipTypeOK, chipVars, svcVars, portVars, Counted, Serving
<1>2. CASE ArmTx
  <2>1. [c \in Chans |-> IF Pending(c) THEN ArmedIer(c) ELSE ier[c]]
          \in [Chans -> SUBSET {RET, RxD, TxD}]
    BY DEF TypeOK, ChipTypeOK, ArmedIer
  <2>2. /\ ier' \in [Chans -> SUBSET {RET, RxD, TxD}]
        /\ rir' \in Register /\ tir' \in Register
    BY <1>2, <2>1, SetIerType DEF ArmTx, TypeOK
  <2>3. sel' \in Chans
    BY <1>2 DEF ArmTx, TypeOK, ChipTypeOK
  <2>4. burst' \in 0..Burst /\ Counted' /\ pc' = "read"
    BY <1>2, DriverAssumption DEF DriverAssumption, ArmTx, BurstLength, Counted
  <2>5. QED
    BY <1>2, <2>2, <2>3, <2>4
    DEF ArmTx, TypeOK, ChipTypeOK, portVars
<1>3. CASE ReadRequest
  BY <1>3, ReturnType
  DEF ReadRequest, TypeOK, ChipTypeOK, chipVars, portVars, Counted, Serving
<1>4. CASE Confirm
  BY <1>4, ReturnType
  DEF Confirm, TypeOK, ChipTypeOK, chipVars, portVars, Counted, Serving
<1>5. CASE Acknowledge
  <2>1. rir \in Register /\ tir \in Register /\ sel \in Chans
    BY DEF TypeOK, ChipTypeOK
  <2>2. rir.ch \in Chans /\ tir.ch \in Chans
    BY <2>1 DEF Register
  <2>3. ASSUME Grant PROVE rir' \in Register /\ tir' \in Register /\ sel' \in Chans
    <3>1. ASSUME NEW v \in RxVectors(rir.ch)
          PROVE  [rir EXCEPT !.st = "act", !.vct = v] \in Register
      <4>1. v \in Vectors
        BY DEF RxVectors, Vectors
      <4>2. QED
        BY <2>1, <4>1 DEF Register
    <3>2. [tir EXCEPT !.st = "act"] \in Register
      BY <2>1 DEF Register
    <3>3. QED
      BY <2>1, <2>2, <2>3, <3>1, <3>2 DEF Grant
  <2>4. rir' \in Register /\ tir' \in Register /\ sel' \in Chans
    BY <1>5, <2>1, <2>3 DEF Acknowledge
  <2>5. QED
    BY <1>5, <2>4
    DEF Acknowledge, TypeOK, ChipTypeOK, svcVars, portVars, Counted, Serving
<1>6. CASE Decide
  <2>0. /\ [ch |-> rir.ch, vct |-> rir.vct] \in [ch : Chans, vct : Vectors]
        /\ [ch |-> tir.ch, vct |-> "none"] \in [ch : Chans, vct : Vectors]
    BY DEF TypeOK, ChipTypeOK, Register, Vectors
  <2>1. CASE RxGranted
    <3>1. /\ svc' \in [ch : Chans, vct : Vectors] /\ pc' = "rx"
          /\ UNCHANGED <<hw_lock, burst, rx_expected>>
      BY <1>6, <2>0, <2>1 DEF Decide, TxGranted
    <3>2. QED
      BY <1>6, <3>1
      DEF Decide, TypeOK, ChipTypeOK, chipVars, portVars, Counted, Serving
  <2>2. CASE TxGranted
    <3>1. /\ svc' \in [ch : Chans, vct : Vectors] /\ pc' = "tx"
          /\ UNCHANGED <<hw_lock, burst, rx_expected>>
      BY <1>6, <2>0, <2>2 DEF Decide, TxGranted
    <3>2. QED
      BY <1>6, <3>1
      DEF Decide, TypeOK, ChipTypeOK, chipVars, portVars, Counted, Serving
  <2>3. CASE ~RxGranted /\ ~TxGranted
    BY <1>6, <2>3, ReturnType
    DEF Decide, TypeOK, ChipTypeOK, chipVars, portVars, Counted, Serving
  <2>4. QED
    BY <2>1, <2>2, <2>3
<1>7. CASE RxData
  <2>1. sel \in Chans /\ ChipTypeOK
    BY DEF TypeOK, ChipTypeOK
  <2>2. /\ buf' \in Seq(Nat) /\ fifo' \in [Chans -> Seq(Nat)]
        /\ rir' \in Register /\ faults' \in [withdraw : Nat, eoi : Nat]
    BY <1>7, <2>1, ReadType, EndType DEF RxData, ChipTypeOK
  <2>3. QED
    BY <1>7, <2>2
    DEF RxData, TypeOK, ChipTypeOK, portVars, Counted, Serving
<1>8. CASE Insert
  <2>1. svc.ch \in Chans /\ burst > 0 /\ TypeOK
    BY <1>8 DEF Insert, TypeOK, Counted, Serving
  <2>2. /\ delivered' \in [Chans -> Seq(Nat)]
        /\ lost' \in [Chans -> SUBSET Nat]
    BY <1>8, <2>1, DeliverType DEF Insert, TypeOK
  <2>3. Return(TRUE)
    BY <1>8 DEF Insert
  <2>4. /\ burst' \in 0..Burst /\ pc' \in {"read", "sweep"}
        /\ svc' \in [ch : Chans, vct : Vectors] /\ rx_expected' \in BOOLEAN
        /\ Counted'
    BY <2>1, <2>3, ReturnType
  <2>5. QED
    <3>1. ChipTypeOK'
      BY <1>8, <2>2 DEF Insert, TypeOK, ChipTypeOK
    <3>2. buf' \in Seq(Nat)
      BY <1>8 DEF Insert
    <3>3. QED
      BY <1>8, <2>2, <2>4, <3>1, <3>2 DEF Insert, TypeOK, portVars
<1>9. CASE RxTimeout
  <2>1. svc.ch \in Chans /\ sel \in Chans /\ burst > 0 /\ TypeOK /\ ChipTypeOK
    BY <1>9 DEF RxTimeout, TypeOK, ChipTypeOK, Counted, Serving
  <2>2. /\ TimeoutChars \in Seq(Nat) /\ fifo' \in [Chans -> Seq(Nat)]
        /\ rir' \in Register /\ faults' \in [withdraw : Nat, eoi : Nat]
    BY <1>9, <2>1, ReadType, EndType DEF RxTimeout, TimeoutChars, ChipTypeOK
  <2>3. /\ delivered' \in [Chans -> Seq(Nat)]
        /\ lost' \in [Chans -> SUBSET Nat]
    BY <1>9, <2>1, <2>2, DeliverType DEF RxTimeout
  <2>4. Return(TRUE)
    BY <1>9 DEF RxTimeout
  <2>5. /\ burst' \in 0..Burst /\ pc' \in {"read", "sweep"}
        /\ svc' \in [ch : Chans, vct : Vectors] /\ rx_expected' \in BOOLEAN
        /\ Counted'
    BY <2>1, <2>4, ReturnType
  <2>6. QED
    <3>1. ChipTypeOK'
      BY <1>9, <2>2, <2>3 DEF RxTimeout, TypeOK, ChipTypeOK
    <3>2. QED
      BY <1>9, <2>3, <2>5, <3>1 DEF RxTimeout, TypeOK, portVars
<1>10. CASE RxError
  <2>1. svc.ch \in Chans /\ sel \in Chans /\ burst > 0 /\ TypeOK /\ ChipTypeOK
    BY <1>10 DEF RxError, TypeOK, ChipTypeOK, Counted, Serving
  <2>2. /\ fifo' \in [Chans -> Seq(Nat)]
        /\ rir' \in Register /\ faults' \in [withdraw : Nat, eoi : Nat]
    BY <1>10, <2>1, ReadType, EndType DEF RxError, EndException, ChipTypeOK
  <2>3. PICK anew \in BOOLEAN :
          LET n == ErrCount(svc.ch, anew)
          IN  /\ err_cnt' = [err_cnt EXCEPT ![svc.ch] = n]
              /\ \/ /\ Mutes(svc.ch, n)
                    /\ rx_off' = [rx_off EXCEPT ![svc.ch] = TRUE]
                    /\ sel' = svc.ch
                    /\ ier' = [ier EXCEPT ![svc.ch] = {TxD}]
                 \/ ~Mutes(svc.ch, n) /\ UNCHANGED <<rx_off, sel, ier>>
    BY <1>10 DEF RxError
  <2>4. err_cnt' \in [Chans -> 0..ErrLimit]
    <3>1. err_cnt[svc.ch] \in 0..ErrLimit
      BY <2>1 DEF TypeOK
    <3>2. ErrCount(svc.ch, anew) \in 0..ErrLimit
      BY <3>1, DriverAssumption DEF DriverAssumption, ErrCount
    <3>3. QED
      BY <2>3, <3>2 DEF TypeOK
  <2>5. rx_off' \in [Chans -> BOOLEAN] /\ sel' \in Chans
    BY <2>1, <2>3 DEF TypeOK
  <2>5a. ier' \in [Chans -> SUBSET {RET, RxD, TxD}]
    <3>1. [ier EXCEPT ![svc.ch] = {TxD}] \in [Chans -> SUBSET {RET, RxD, TxD}]
      BY <2>1, ExceptType DEF ChipTypeOK
    <3>2. ier' = ier \/ ier' = [ier EXCEPT ![svc.ch] = {TxD}]
      BY <2>3
    <3>3. QED
      BY <2>1, <3>1, <3>2 DEF ChipTypeOK
  <2>6. Return(TRUE)
    BY <1>10 DEF RxError
  <2>7. /\ burst' \in 0..Burst /\ pc' \in {"read", "sweep"}
        /\ svc' \in [ch : Chans, vct : Vectors] /\ rx_expected' \in BOOLEAN
        /\ Counted'
    BY <2>1, <2>6, ReturnType
  <2>8. QED
    BY <1>10, <2>2, <2>4, <2>5, <2>5a, <2>7 DEF RxError, TypeOK, ChipTypeOK
<1>11. CASE TxService
  <2>1. svc.ch \in Chans /\ sel \in Chans /\ burst > 0 /\ TypeOK /\ ChipTypeOK
    BY <1>11 DEF TxService, TypeOK, ChipTypeOK, Counted, Serving
  <2>2. tir' \in Register /\ faults' \in [withdraw : Nat, eoi : Nat]
    BY <1>11, <2>1, EndType DEF TxService
  <2>3. ring[svc.ch] \in Seq(Int) /\ Len(ring[svc.ch]) \in Nat
    BY <2>1 DEF TypeOK
  <2>4. PICK room \in 1..MaxRoom :
          LET n == IF room < Len(ring[svc.ch]) THEN room ELSE Len(ring[svc.ch])
          IN  /\ ring' = [ring EXCEPT ![svc.ch] = RingAfter(svc.ch, n)]
              /\ sent' = IF tir.st = "act"
                         THEN [sent EXCEPT ![sel] =
                                             @ \o SubSeq(ring[svc.ch], 1, n)]
                         ELSE sent
              /\ ier' = IF n = 0 THEN [ier EXCEPT ![sel] = IdleIer] ELSE ier
    BY <1>11 DEF TxService
  <2> DEFINE n == IF room < Len(ring[svc.ch]) THEN room ELSE Len(ring[svc.ch])
  <2>5. n \in Nat /\ n <= Len(ring[svc.ch])
    BY <2>3, DriverAssumption DEF DriverAssumption
  <2> HIDE DEF n
  <2>6. RingAfter(svc.ch, n) \in Seq(Int) /\ SubSeq(ring[svc.ch], 1, n) \in Seq(Int)
    BY <2>3, <2>5, Cut DEF RingAfter
  <2>6a. ring' \in [Chans -> Seq(Int)]
    BY <2>4, <2>6 DEF TypeOK, n
  <2>6b. sent' \in [Chans -> Seq(Int)]
    <3>1. sent[sel] \o SubSeq(ring[svc.ch], 1, n) \in Seq(Int)
      BY <2>1, <2>6 DEF TypeOK
    <3>2. QED
      BY <2>4, <3>1 DEF TypeOK, n
  <2>6c. ier' \in [Chans -> SUBSET {RET, RxD, TxD}]
    <3>1. IdleIer \in SUBSET {RET, RxD, TxD}
      BY DEF IdleIer
    <3>2. ier' = ier \/ ier' = [ier EXCEPT ![sel] = IdleIer]
      BY <2>4
    <3>3. [ier EXCEPT ![sel] = IdleIer] \in [Chans -> SUBSET {RET, RxD, TxD}]
      BY <2>1, <3>1, ExceptType DEF ChipTypeOK
    <3>4. QED
      BY <2>1, <3>2, <3>3 DEF ChipTypeOK
  <2>7. Return(TRUE)
    BY <1>11 DEF TxService
  <2>8. /\ burst' \in 0..Burst /\ pc' \in {"read", "sweep"}
        /\ svc' \in [ch : Chans, vct : Vectors] /\ rx_expected' \in BOOLEAN
        /\ Counted'
    BY <2>1, <2>7, ReturnType
  <2>9. QED
    BY <1>11, <2>2, <2>6a, <2>6b, <2>6c, <2>8 DEF TxService, TypeOK, ChipTypeOK
<1>12. QED
  BY <1>1, <1>2, <1>3, <1>4, <1>5, <1>6, <1>7, <1>8, <1>9, <1>10, <1>11 DEF Poll

\* So do the steps of the chip.
LEMMA ChipType ==
  ASSUME TInv, Chip, UNCHANGED driverVars
  PROVE  TInv'
<1>1. ChipTypeOK
  BY DEF TInv, TypeOK
<1>2. ASSUME NEW c \in Chans, Arrive(c) PROVE ChipTypeOK'
  <2>1. /\ rxn[c] \in Nat /\ rxn[c] + 1 \in Nat /\ fifo[c] \in Seq(Nat)
        /\ bad[c] \cup {rxn[c] + 1} \in SUBSET Nat
        /\ lost[c] \cup {rxn[c] + 1} \in SUBSET Nat
    BY <1>1 DEF ChipTypeOK
  <2>2. rxn' \in [Chans -> Nat]
    BY <1>1, <1>2, <2>1 DEF Arrive, ChipTypeOK
  <2>3. bad' \in [Chans -> SUBSET Nat]
    BY <1>1, <1>2, <2>1 DEF Arrive, ChipTypeOK
  <2>4. lost' \in [Chans -> SUBSET Nat]
    BY <1>1, <1>2, <2>1 DEF Arrive, ChipTypeOK
  <2>5. fifo' \in [Chans -> Seq(Nat)]
    <3>1. Append(fifo[c], rxn[c] + 1) \in Seq(Nat)
      BY <2>1
    <3>2. fifo' = fifo \/ fifo' = [fifo EXCEPT ![c] = Append(fifo[c], rxn[c] + 1)]
      BY <1>2 DEF Arrive
    <3>3. QED
      BY <1>1, <3>1, <3>2 DEF ChipTypeOK
  <2>6. QED
    BY <1>1, <1>2, <2>2, <2>3, <2>4, <2>5 DEF Arrive, ChipTypeOK
<1>3. ASSUME NEW c \in Chans, RequestRx(c) \/ RequestTx(c) PROVE ChipTypeOK'
  <2>1. [st |-> "req", ch |-> c, vct |-> "none"] \in Register
    BY DEF Register, Vectors
  <2>2. QED
    BY <1>1, <1>3, <2>1 DEF RequestRx, RequestTx, ChipTypeOK
<1>4. ASSUME Withdraw PROVE ChipTypeOK'
  <2>1. faults' \in [withdraw : Nat, eoi : Nat]
    <3>1. faults \in [withdraw : Nat, eoi : Nat]
      BY <1>1 DEF ChipTypeOK
    <3>2. faults' = [faults EXCEPT !.withdraw = @ + 1]
      BY <1>4 DEF Withdraw
    <3>3. QED
      BY <3>1, <3>2
  <2>2. rir' \in Register /\ tir' \in Register
    BY <1>1, <1>4, IdleType DEF Withdraw, ChipTypeOK
  <2>3. QED
    BY <1>1, <1>4, <2>1, <2>2 DEF Withdraw, ChipTypeOK
<1>5. ChipTypeOK'
  BY <1>2, <1>3, <1>4 DEF Chip
<1>6. QED
  <2>1. Counted'
    BY DEF TInv, driverVars, svcVars, Counted, Serving
  <2>2. TypeOK'
    BY <1>5 DEF TInv, TypeOK, driverVars, svcVars, portVars
  <2>3. QED
    BY <2>1, <2>2 DEF TInv

\* The channel commands issued by activate and set_termios.
LEMMA CommandsType ==
  ASSUME ChipTypeOK, NEW c \in Chans, ChannelCommands(c)
  PROVE  /\ up' \in [Chans -> BOOLEAN] /\ fifo' \in [Chans -> Seq(Nat)]
         /\ lost' \in [Chans -> SUBSET Nat]
<1>1. Range(fifo[c]) \subseteq Nat
  BY DEF ChipTypeOK, Range
<1>2. lost' \in [Chans -> SUBSET Nat]
  <2>1. [lost EXCEPT ![c] = lost[c] \cup Range(fifo[c])] \in [Chans -> SUBSET Nat]
    <3>1. lost[c] \cup Range(fifo[c]) \in SUBSET Nat
      BY <1>1 DEF ChipTypeOK
    <3>2. QED
      BY <3>1, ExceptType DEF ChipTypeOK
  <2>2. \/ lost' = lost
        \/ lost' = [lost EXCEPT ![c] = lost[c] \cup Range(fifo[c])]
    BY DEF ChannelCommands, FlushFifo
  <2>3. QED
    BY <2>1, <2>2 DEF ChipTypeOK
<1>3. fifo' \in [Chans -> Seq(Nat)]
  <2>1. <<>> \in Seq(Nat)
    OBVIOUS
  <2>2. [fifo EXCEPT ![c] = <<>>] \in [Chans -> Seq(Nat)]
    BY <2>1, ExceptType DEF ChipTypeOK
  <2>3. fifo' = fifo \/ fifo' = [fifo EXCEPT ![c] = <<>>]
    BY DEF ChannelCommands, FlushFifo
  <2>4. QED
    BY <2>2, <2>3 DEF ChipTypeOK
<1>4. [up EXCEPT ![c] = TRUE] \in [Chans -> BOOLEAN]
  BY ExceptType DEF ChipTypeOK
<1>5. up' \in [Chans -> BOOLEAN]
  BY <1>4 DEF ChannelCommands, ChipTypeOK
<1>6. QED
  BY <1>2, <1>3, <1>5

\* Queueing bytes.
LEMMA EnqueueType ==
  ASSUME TypeOK, NEW c \in Chans, NEW q \in Seq(Int), Enqueue(c, q)
  PROVE  ring' \in [Chans -> Seq(Int)] /\ accepted' \in [Chans -> Seq(Int)]
<1>1. /\ ring[c] \o q \in Seq(Int) /\ accepted[c] \o q \in Seq(Int)
  BY DEF TypeOK
<1>2. QED
  BY <1>1 DEF Enqueue, TypeOK

\* Both bytes of an embedded command, or neither, keep the types.
LEMMA QueueCommandType ==
  ASSUME TypeOK, NEW c \in Chans, NEW cmd \in {BrkOn, BrkOff}, QueueCommand(c, cmd)
  PROVE  ring' \in [Chans -> Seq(Int)] /\ accepted' \in [Chans -> Seq(Int)]
<1>1. <<Nul, cmd>> \in Seq(Int)
  BY DEF Nul, BrkOn, BrkOff
<1>2. QED
  BY <1>1, EnqueueType DEF QueueCommand, TypeOK

\* So do the tty operations.
LEMMA TtyType ==
  ASSUME TInv, Tty
  PROVE  TInv'
<1> USE DEF TInv
<1>0. PICK c \in Chans :
        \/ ActivateBegin(c) \/ ActivateEnd(c) \/ Shutdown(c)
        \/ \E active \in BOOLEAN : DtrRts(c, active)
        \/ TermiosBegin(c) \/ TermiosEnd(c)
        \/ TtyWrite(c)
        \/ \E cmd \in {BrkOn, BrkOff} : BreakCtl(c, cmd)
  BY DEF Tty
<1>a. TypeOK /\ ChipTypeOK /\ NoOp \in [kind : {"none", "activate", "termios"}, ch : Chans]
  BY IdleType DEF TypeOK, NoOp
<1>1. CASE ActivateBegin(c)
  BY <1>1 DEF ActivateBegin, TypeOK, ChipTypeOK, svcVars, portVars, Counted
<1>2. CASE ActivateEnd(c)
  <2>1. /\ up' \in [Chans -> BOOLEAN] /\ fifo' \in [Chans -> Seq(Nat)]
        /\ lost' \in [Chans -> SUBSET Nat]
    BY <1>a, <1>2, CommandsType DEF ActivateEnd, ChanInit, FreshCount
  <2>2. [ier EXCEPT ![c] = {RET, RxD, TxD}] \in [Chans -> SUBSET {RET, RxD, TxD}]
    BY <1>a DEF ChipTypeOK
  <2>3. /\ ier' \in [Chans -> SUBSET {RET, RxD, TxD}]
        /\ rir' \in Register /\ tir' \in Register
    BY <1>a, <1>2, <2>2, SetIerType DEF ActivateEnd, ChanInit, FreshCount
  <2>4. ChipTypeOK'
    BY <1>2, <2>1, <2>3 DEF ActivateEnd, ChanInit, FreshCount, TypeOK, ChipTypeOK
  <2>5. /\ ring' \in [Chans -> Seq(Int)] /\ accepted' \in [Chans -> Seq(Int)]
        /\ sent' \in [Chans -> Seq(Int)]
    BY <1>2 DEF ActivateEnd, ChanInit, FreshCount, FreshRing, TypeOK
  <2>6. /\ err_cnt' \in [Chans -> 0..ErrLimit]
        /\ tty' \in [Chans -> {"closed", "open"}]
    BY <1>2, DriverAssumption DEF DriverAssumption, ActivateEnd, ChanInit, FreshCount, TypeOK
  <2>6a. /\ [open EXCEPT ![c] = TRUE] \in [Chans -> BOOLEAN]
         /\ [rx_off EXCEPT ![c] = FALSE] \in [Chans -> BOOLEAN]
    BY ExceptType DEF TypeOK
  <2>6b. open' \in [Chans -> BOOLEAN] /\ rx_off' \in [Chans -> BOOLEAN]
    BY <1>2, <2>6a DEF ActivateEnd, ChanInit, FreshCount
  <2>7. QED
    BY <1>a, <1>2, <2>4, <2>5, <2>6, <2>6b DEF ActivateEnd, ChanInit, FreshCount, TypeOK, svcVars, Counted
<1>3. CASE Shutdown(c)
  <2>1. [ier EXCEPT ![c] = {}] \in [Chans -> SUBSET {RET, RxD, TxD}]
    BY <1>a DEF ChipTypeOK
  <2>2. /\ ier' \in [Chans -> SUBSET {RET, RxD, TxD}]
        /\ rir' \in Register /\ tir' \in Register
    BY <1>a, <1>3, <2>1, SetIerType DEF Shutdown, StopService
  <2>3. /\ [dtr EXCEPT ![c] = FALSE] \in [Chans -> BOOLEAN]
        /\ [open EXCEPT ![c] = FALSE] \in [Chans -> BOOLEAN]
        /\ [tty EXCEPT ![c] = "closed"] \in [Chans -> {"closed", "open"}]
    BY ExceptType DEF TypeOK, ChipTypeOK
  <2>4. ChipTypeOK'
    BY <1>3, <2>2, <2>3 DEF Shutdown, SetMctrl, TypeOK, ChipTypeOK
  <2>5. Counted'
    BY <1>3 DEF Shutdown, svcVars, Counted, Serving
  <2>6. QED
    BY <1>3, <2>3, <2>4, <2>5 DEF Shutdown, TypeOK, svcVars
<1>4. ASSUME NEW active \in BOOLEAN, DtrRts(c, active) PROVE TInv'
  <2>1. [dtr EXCEPT ![c] = active] \in [Chans -> BOOLEAN]
    BY ExceptType DEF TypeOK, ChipTypeOK
  <2>2. ChipTypeOK'
    BY <1>4, <2>1 DEF DtrRts, SetMctrl, TypeOK, ChipTypeOK
  <2>3. Counted'
    BY <1>4 DEF DtrRts, svcVars, Counted, Serving
  <2>4. QED
    BY <1>4, <2>2, <2>3 DEF DtrRts, TypeOK, svcVars, portVars
<1>5. CASE TermiosBegin(c)
  BY <1>5 DEF TermiosBegin, TypeOK, ChipTypeOK, svcVars, portVars, Counted
<1>6. CASE TermiosEnd(c)
  <2>1. /\ up' \in [Chans -> BOOLEAN] /\ fifo' \in [Chans -> Seq(Nat)]
        /\ lost' \in [Chans -> SUBSET Nat]
    BY <1>a, <1>6, CommandsType DEF TermiosEnd
  <2>2. [ier EXCEPT ![c] = {RxD, TxD}] \in [Chans -> SUBSET {RET, RxD, TxD}]
    BY <1>a DEF ChipTypeOK
  <2>3. /\ ier' \in [Chans -> SUBSET {RET, RxD, TxD}]
        /\ rir' \in Register /\ tir' \in Register
    BY <1>a, <1>6, <2>2, SetIerType DEF TermiosEnd
  <2>4. ChipTypeOK'
    BY <1>6, <2>1, <2>3 DEF TermiosEnd, TypeOK, ChipTypeOK
  <2>5. QED
    BY <1>a, <1>6, <2>4 DEF TermiosEnd, TypeOK, svcVars, portVars, Counted
<1>7. CASE TtyWrite(c)
  <2>1. <<Len(accepted[c]) + 1>> \in Seq(Int)
    BY DEF TypeOK
  <2>2. ring' \in [Chans -> Seq(Int)] /\ accepted' \in [Chans -> Seq(Int)]
    BY <1>a, <1>7, <2>1, EnqueueType DEF TtyWrite
  <2>3. QED
    <3>1. ChipTypeOK' /\ Counted'
      BY <1>a, <1>7 DEF TtyWrite, ChipTypeOK, chipVars, svcVars, Counted, Serving
    <3>2. QED
      BY <1>7, <2>2, <3>1 DEF TtyWrite, TypeOK, svcVars
<1>8. ASSUME NEW cmd \in {BrkOn, BrkOff}, BreakCtl(c, cmd) PROVE TInv'
  <2>1. ring' \in [Chans -> Seq(Int)] /\ accepted' \in [Chans -> Seq(Int)]
    BY <1>a, <1>8, QueueCommandType DEF BreakCtl
  <2>2. QED
    <3>1. ChipTypeOK' /\ Counted'
      BY <1>a, <1>8 DEF BreakCtl, ChipTypeOK, chipVars, svcVars, Counted, Serving
    <3>2. QED
      BY <1>8, <2>1, <3>1 DEF BreakCtl, TypeOK, svcVars
<1>9. QED
  BY <1>0, <1>1, <1>2, <1>3, <1>4, <1>5, <1>6, <1>7, <1>8

\* So does the break test.
LEMMA BreakTestType ==
  ASSUME TInv, BreakTest
  PROVE  TInv'
<1> USE DEF TInv
<1>1. ASSUME NEW c \in Chans, BreakStart(c) PROVE TInv'
  <2>1. ring' \in [Chans -> Seq(Int)] /\ accepted' \in [Chans -> Seq(Int)]
    BY <1>1, QueueCommandType DEF BreakStart
  <2>2. brk' \in [at : {"idle", "hold", "stop"}, ch : Chans, was_open : BOOLEAN, n : Nat]
    <3>0. open[c] \in BOOLEAN
      BY Zenon DEF TypeOK
    <3>1. brk.n + 1 \in Nat
      <4>1. brk.n \in Nat
        BY DEF TypeOK
      <4>2. QED
        BY <4>1
    <3>2. brk' = [at |-> "hold", ch |-> c, was_open |-> open[c], n |-> brk.n + 1]
      BY <1>1 DEF BreakStart
    <3>3. QED
      BY <3>0, <3>1, <3>2, Zenon
  <2>3. [open EXCEPT ![c] = TRUE] \in [Chans -> BOOLEAN]
    BY ExceptType DEF TypeOK
  <2>4. QED
    BY <1>1, <2>1, <2>2, <2>3
    DEF BreakStart, TypeOK, ChipTypeOK, chipVars, svcVars, Counted
<1>2. CASE BreakSample
  BY <1>2 DEF BreakSample, TypeOK, ChipTypeOK, svcVars, portVars, Counted
<1>3. CASE BreakStop
  <2>1. brk.ch \in Chans
    BY DEF TypeOK
  <2>2. ring' \in [Chans -> Seq(Int)] /\ accepted' \in [Chans -> Seq(Int)]
    BY <1>3, <2>1, QueueCommandType DEF BreakStop
  <2>3. brk' \in [at : {"idle", "hold", "stop"}, ch : Chans, was_open : BOOLEAN, n : Nat]
    <3>1. brk \in [at : {"idle", "hold", "stop"}, ch : Chans, was_open : BOOLEAN, n : Nat]
      BY DEF TypeOK
    <3>2. brk' = [brk EXCEPT !.at = "stop"]
      BY <1>3 DEF BreakStop
    <3>3. QED
      BY <3>1, <3>2
  <2>4. QED
    BY <1>3, <2>2, <2>3
    DEF BreakStop, TypeOK, ChipTypeOK, chipVars, svcVars, Counted
<1>4. CASE BreakRestore
  BY <1>4 DEF BreakRestore, TypeOK, ChipTypeOK, chipVars, svcVars, Counted
<1>5. QED
  BY <1>1, <1>2, <1>3, <1>4 DEF BreakTest

\* Every variable keeps its type, for every set of channels, every chip and
\* every interleaving of the poll thread, the tty operations, the break test
\* and the chip; in particular a burst is never counted below zero.
THEOREM TypeInvariant == Spec => []TypeOK
<1>1. Init => TInv
  <2> SUFFICES ASSUME Init PROVE TInv
    OBVIOUS
  <2>1. ChipTypeOK
    BY IdleType DEF Init, ChipInit, ChipTypeOK
  <2>2. Counted /\ burst \in 0..Burst
    BY DriverAssumption DEF DriverAssumption, Init, Counted, Serving
  <2>3. svc \in [ch : Chans, vct : Vectors]
    BY IdleType DEF Init, NoService, Vectors
  <2>4. op \in [kind : {"none", "activate", "termios"}, ch : Chans]
    BY IdleType DEF Init, NoOp
  <2>5. brk \in [at : {"idle", "hold", "stop"}, ch : Chans, was_open : BOOLEAN, n : Nat]
    BY IdleType DEF Init
  <2>6. err_cnt \in [Chans -> 0..ErrLimit]
    BY DriverAssumption DEF DriverAssumption, Init
  <2>7. /\ ring \in [Chans -> Seq(Int)] /\ accepted \in [Chans -> Seq(Int)]
        /\ sent \in [Chans -> Seq(Int)] /\ delivered \in [Chans -> Seq(Nat)]
        /\ buf \in Seq(Nat) 
    BY DEF Init
  <2>8. /\ open \in [Chans -> BOOLEAN] /\ rx_off \in [Chans -> BOOLEAN]
        /\ tty \in [Chans -> {"closed", "open"}]
    BY DEF Init
  <2>9. QED
    BY <2>1, <2>2, <2>3, <2>4, <2>5, <2>6, <2>7, <2>8 DEF Init, TInv, TypeOK
<1>2. TInv /\ [Next]_vars => TInv'
  <2>1. TInv /\ UNCHANGED vars => TInv'
    BY DEF TInv, TypeOK, ChipTypeOK, Counted, vars, chipVars, svcVars, portVars
  <2>2. QED
    BY <2>1, PollType, ChipType, TtyType, BreakTestType DEF Next
<1>3. TInv => TypeOK
  BY DEF TInv
<1>4. QED
  BY <1>1, <1>2, <1>3, PTL DEF Spec

-----------------------------------------------------------------------------
(* Interrupt contexts.  The argument: hw_lock is held exactly while a      *)
(* service is between its first look at the chip and its end of service,   *)
(* or while a tty operation waits for a channel command; a context exists  *)
(* only inside that stretch, because EOIR closes it before the unlock; and *)
(* nobody else moves the channel selection meanwhile.                      *)

Held == {"confirm", "ack", "decide", "rx", "tx", "stalled"}

LockOwner ==
  /\ hw_lock = "poll" <=> pc \in Held
  /\ hw_lock = "tty" <=> op.kind # "none"

OneContext ==
  /\ pc \notin {"decide", "rx", "tx"} => NoContext
  /\ pc = "decide" => /\ ~(rir.st = "act" /\ tir.st = "act")
                      /\ rir.st = "act" => sel = rir.ch
                      /\ tir.st = "act" => sel = tir.ch
  /\ pc = "rx" => /\ rir.st = "act" /\ tir.st # "act"
                  /\ rir.ch = svc.ch /\ sel = svc.ch
  /\ pc = "tx" => /\ tir.st = "act" /\ rir.st # "act"
                  /\ tir.ch = svc.ch /\ sel = svc.ch

CInv == LockOwner /\ OneContext

\* Writing the enables neither opens nor closes a context.
LEMMA SetIerKeeps ==
  ASSUME NEW e, SetIer(e)
  PROVE  /\ rir'.st = "act" <=> rir.st = "act"
         /\ tir'.st = "act" <=> tir.st = "act"
         /\ rir.st = "act" => rir' = rir
         /\ tir.st = "act" => tir' = tir
BY DEF SetIer, Masked, Idle

\* An end of service that takes leaves no context of its kind.
LEMMA EndCloses ==
  ASSUME MaxEoiFail = 0, ChipTypeOK
  PROVE  (EndRx => rir'.st # "act") /\ (EndTx => tir'.st # "act")
<1>1. ~EoiFails
  BY DEF EoiFails, ChipTypeOK
<1>2. QED
  BY <1>1 DEF EndRx, EndTx, Idle

\* The invariant is kept by the steps that leave the poll thread, the lock and
\* the channel selection alone and do not open or close a context.
LEMMA Undisturbed ==
  ASSUME CInv, UNCHANGED <<hw_lock, pc, svc, sel, op>>,
         (rir'.st = "act" <=> rir.st = "act"), (tir'.st = "act" <=> tir.st = "act"),
         (rir.st = "act" => rir' = rir), (tir.st = "act" => tir' = tir)
  PROVE  CInv'
BY DEF CInv, LockOwner, OneContext, NoContext, Held

\* With the lock free nothing is selected for a service and no context is open,
\* so a step that takes or keeps the lock for a tty operation is harmless.
LEMMA LockFree ==
  ASSUME TypeOK, CInv, HwLockFree
  PROVE  NoContext /\ pc \notin Held /\ op.kind = "none"
BY DEF CInv, LockOwner, OneContext, HwLockFree, Held, TypeOK

\* The steps of the poll thread keep the invariant.
LEMMA PollContext ==
  ASSUME MaxEoiFail = 0, TypeOK, CInv, Poll
  PROVE  CInv'
<1> USE DEF CInv
<1>0. ChipTypeOK
  BY DEF TypeOK
<1>1. CASE Sweep
  BY <1>1 DEF Sweep, chipVars, svcVars, LockOwner, OneContext, NoContext, Held
<1>2. CASE ArmTx
  BY <1>2, SetIerKeeps DEF ArmTx, LockOwner, OneContext, NoContext, Held
<1>3. CASE ReadRequest
  BY <1>3, LockFree
  DEF ReadRequest, Return, chipVars, LockOwner, OneContext, NoContext, Held, HwLockFree
<1>4. CASE Confirm
  BY <1>4 DEF Confirm, Return, chipVars, LockOwner, OneContext, NoContext, Held
<1>5. CASE Acknowledge
  <2>1. NoContext /\ hw_lock = "poll" /\ op.kind = "none"
    BY <1>5 DEF Acknowledge, LockOwner, OneContext, Held, TypeOK
  <2>2. /\ UNCHANGED <<hw_lock, op>> /\ pc' \in {"decide", "stalled"}
        /\ pc' = "stalled" => UNCHANGED <<rir, tir>>
    BY <1>5, <2>1 DEF Acknowledge
  <2>3. LockOwner'
    BY <2>1, <2>2 DEF LockOwner, Held
  <2>4. ASSUME Grant
        PROVE  /\ ~(rir'.st = "act" /\ tir'.st = "act")
               /\ rir'.st = "act" => sel' = rir'.ch
               /\ tir'.st = "act" => sel' = tir'.ch
    <3>0. rir \in Register /\ tir \in Register
      BY <1>0 DEF ChipTypeOK
    <3>1. CASE rir.st = "req"
      BY <2>1, <2>4, <3>0, <3>1 DEF Grant, NoContext, Register
    <3>2. CASE rir.st # "req"
      BY <2>1, <2>4, <3>0, <3>2 DEF Grant, NoContext, Register
    <3>3. QED
      BY <3>1, <3>2
  <2>5. OneContext'
    BY <1>5, <2>1, <2>2, <2>4 DEF Acknowledge, OneContext, NoContext
  <2>6. QED
    BY <2>3, <2>5
<1>6. CASE Decide
  <2>1. CASE RxGranted
    BY <1>6, <2>1
    DEF Decide, RxGranted, TxGranted, chipVars, LockOwner, OneContext, NoContext, Held
  <2>2. CASE TxGranted
    <3>1. /\ pc = "decide" /\ pc' = "tx" /\ svc'.ch = tir.ch
          /\ tir.st = "act" /\ rir.st # "act"
          /\ UNCHANGED <<hw_lock, op, rir, tir, sel>>
      <4>1. pc = "decide" /\ UNCHANGED <<op, rir, tir, sel>>
        BY <1>6 DEF Decide, chipVars
      <4>2. tir.st = "act" /\ rir.st # "act" /\ ~RxGranted
        BY <2>2 DEF RxGranted, TxGranted
      <4>3. /\ pc' = "tx" /\ svc' = [ch |-> tir.ch, vct |-> "none"]
            /\ hw_lock' = hw_lock
        BY <1>6, <2>2, <4>2 DEF Decide
      <4>4. QED
        BY <4>1, <4>2, <4>3
    <3>2. LockOwner'
      BY <3>1 DEF LockOwner, Held
    <3>3. OneContext'
      BY <3>1 DEF OneContext
    <3>4. QED
      BY <3>2, <3>3
  <2>3. CASE ~RxGranted /\ ~TxGranted
    BY <1>6, <2>3
    DEF Decide, RxGranted, TxGranted, Return, chipVars, LockOwner, OneContext, NoContext,
        Held
  <2>4. QED
    BY <2>1, <2>2, <2>3
<1>7. CASE RxData
  BY <1>0, <1>7, EndCloses DEF RxData, LockOwner, OneContext, NoContext, Held
<1>8. CASE Insert
  BY <1>8 DEF Insert, Return, LockOwner, OneContext, NoContext, Held
<1>9. CASE RxTimeout
  BY <1>0, <1>9, EndCloses
  DEF RxTimeout, Return, LockOwner, OneContext, NoContext, Held
<1>10. CASE RxError
  BY <1>0, <1>10, EndCloses
  DEF RxError, EndException, Return, LockOwner, OneContext, NoContext, Held
<1>11. CASE TxService
  BY <1>0, <1>11, EndCloses
  DEF TxService, Return, LockOwner, OneContext, NoContext, Held
<1>12. QED
  BY <1>1, <1>2, <1>3, <1>4, <1>5, <1>6, <1>7, <1>8, <1>9, <1>10, <1>11 DEF Poll

\* So do the steps of the chip, which opens and closes no context by itself.
LEMMA ChipContext ==
  ASSUME CInv, Chip, UNCHANGED driverVars
  PROVE  CInv'
<1>1. UNCHANGED <<hw_lock, pc, svc, op>>
  BY DEF driverVars, svcVars
<1>2. /\ sel' = sel
      /\ rir'.st = "act" <=> rir.st = "act"
      /\ tir'.st = "act" <=> tir.st = "act"
      /\ rir.st = "act" => rir' = rir
      /\ tir.st = "act" => tir' = tir
  <2>1. ASSUME NEW c \in Chans, Arrive(c) PROVE UNCHANGED <<rir, tir, sel>>
    BY <2>1 DEF Arrive
  <2>2. ASSUME NEW c \in Chans, RequestRx(c)
        PROVE  UNCHANGED <<tir, sel>> /\ rir.st = "idle" /\ rir'.st = "req"
    BY <2>2 DEF RequestRx
  <2>3. ASSUME NEW c \in Chans, RequestTx(c)
        PROVE  UNCHANGED <<rir, sel>> /\ tir.st = "idle" /\ tir'.st = "req"
    BY <2>3 DEF RequestTx
  <2>4. ASSUME Withdraw
        PROVE  /\ sel' = sel
               /\ \/ rir.st = "req" /\ rir'.st = "idle" /\ tir' = tir
                  \/ tir.st = "req" /\ tir'.st = "idle" /\ rir' = rir
    BY <2>4 DEF Withdraw, Idle
  <2>5. QED
    BY <2>1, <2>2, <2>3, <2>4 DEF Chip
<1>3. QED
  BY <1>1, <1>2, Undisturbed

\* So do the tty operations: those that touch the chip wait for the lock.
LEMMA TtyContext ==
  ASSUME TypeOK, CInv, Tty
  PROVE  CInv'
<1>0. PICK c \in Chans :
        \/ ActivateBegin(c) \/ ActivateEnd(c) \/ Shutdown(c)
        \/ \E active \in BOOLEAN : DtrRts(c, active)
        \/ TermiosBegin(c) \/ TermiosEnd(c)
        \/ TtyWrite(c)
        \/ \E cmd \in {BrkOn, BrkOff} : BreakCtl(c, cmd)
  BY DEF Tty
<1>1. ASSUME ActivateBegin(c) \/ TermiosBegin(c) PROVE CInv'
  <2>1. HwLockFree /\ hw_lock' = "tty" /\ op'.kind # "none" /\ UNCHANGED <<pc, rir, tir>>
    BY <1>1 DEF ActivateBegin, TermiosBegin
  <2>2. NoContext /\ pc \notin Held
    BY <2>1, LockFree
  <2>3. QED
    BY <2>1, <2>2 DEF CInv, LockOwner, OneContext, NoContext, Held
<1>2. ASSUME ActivateEnd(c) \/ TermiosEnd(c) PROVE CInv'
  <2>1. op.kind # "none" /\ hw_lock' = "free" /\ op'.kind = "none" /\ pc' = pc
    BY <1>2 DEF ActivateEnd, ChanInit, FreshCount, TermiosEnd, NoOp
  <2>2. pc \notin Held /\ NoContext
    BY <2>1 DEF CInv, LockOwner, OneContext, Held
  <2>3. PICK e : SetIer(e)
    BY <1>2 DEF ActivateEnd, ChanInit, FreshCount, TermiosEnd
  <2>4. rir'.st # "act" /\ tir'.st # "act"
    BY <2>2, <2>3, SetIerKeeps DEF NoContext
  <2>5. QED
    BY <2>1, <2>2, <2>4 DEF CInv, LockOwner, OneContext, NoContext, Held
<1>3. CASE Shutdown(c)
  <2>1. HwLockFree /\ UNCHANGED <<hw_lock, pc, op>>
    BY <1>3 DEF Shutdown
  <2>2. NoContext /\ pc \notin Held
    BY <2>1, LockFree
  <2>3. rir'.st # "act" /\ tir'.st # "act"
    BY <1>3, <2>2, SetIerKeeps DEF Shutdown, StopService, NoContext
  <2>4. QED
    BY <2>1, <2>2, <2>3 DEF CInv, LockOwner, OneContext, NoContext, Held
<1>4. ASSUME NEW active \in BOOLEAN, DtrRts(c, active) PROVE CInv'
  <2>1. HwLockFree /\ UNCHANGED <<hw_lock, pc, op, rir, tir>>
    BY <1>4 DEF DtrRts
  <2>2. NoContext /\ pc \notin Held
    BY <2>1, LockFree
  <2>3. QED
    BY <2>1, <2>2 DEF CInv, LockOwner, OneContext, NoContext, Held
<1>5. CASE TtyWrite(c)
  BY <1>5, Undisturbed DEF TtyWrite, chipVars, svcVars
<1>6. ASSUME NEW cmd \in {BrkOn, BrkOff}, BreakCtl(c, cmd) PROVE CInv'
  BY <1>6, Undisturbed DEF BreakCtl, chipVars, svcVars
<1>7. QED
  BY <1>0, <1>1, <1>2, <1>3, <1>4, <1>5, <1>6

\* So does the break test, whose samples of the transmit pin wait for the lock.
LEMMA BreakTestContext ==
  ASSUME TypeOK, CInv, BreakTest
  PROVE  CInv'
<1>1. ASSUME NEW c \in Chans, BreakStart(c) PROVE CInv'
  BY <1>1, Undisturbed DEF BreakStart, chipVars, svcVars
<1>2. CASE BreakSample
  <2>1. HwLockFree /\ UNCHANGED <<hw_lock, pc, op, rir, tir>>
    BY <1>2 DEF BreakSample
  <2>2. NoContext /\ pc \notin Held
    BY <2>1, LockFree
  <2>3. QED
    BY <2>1, <2>2 DEF CInv, LockOwner, OneContext, NoContext, Held
<1>3. CASE BreakStop
  BY <1>3, Undisturbed DEF BreakStop, chipVars, svcVars
<1>4. CASE BreakRestore
  BY <1>4, Undisturbed DEF BreakRestore, chipVars, svcVars
<1>5. QED
  BY <1>1, <1>2, <1>3, <1>4 DEF BreakTest

\* Together: while every end of service takes, the context invariant holds in
\* every reachable state.
LEMMA ContextInvariant ==
  ASSUME MaxEoiFail = 0
  PROVE  Spec => []CInv
<1>1. Init => CInv
  BY DEF Init, ChipInit, Idle, NoOp, CInv, LockOwner, OneContext, NoContext, Held
<1>2. TypeOK /\ CInv /\ [Next]_vars => CInv'
  <2>1. CInv /\ UNCHANGED vars => CInv'
    BY Undisturbed DEF vars, chipVars, svcVars
  <2>2. QED
    BY <2>1, PollContext, ChipContext, TtyContext, BreakTestContext DEF Next
<1>3. QED
  BY <1>1, <1>2, TypeInvariant, PTL DEF Spec

\* As long as every end of service takes, nm32a_service and the operations that
\* share the chip with it keep the context discipline, for any number of
\* channels: a branch runs in a context of its own kind, aimed at the granted
\* channel, and hw_lock is never released with a context open.
THEOREM ContextsKept ==
  ASSUME MaxEoiFail = 0
  PROVE  Spec => []ContextDiscipline
<1>1. TypeOK /\ CInv => ContextDiscipline
  BY DEF TypeOK, CInv, LockOwner, OneContext, NoContext, Held, ContextDiscipline
<1>2. QED
  BY <1>1, TypeInvariant, ContextInvariant, PTL

-----------------------------------------------------------------------------
(* The acknowledge read always retires.  Between the confirming read and   *)
(* the acknowledge nothing takes a request back: the enables are written   *)
(* only with hw_lock held, and a chip that behaves does not withdraw.      *)

Granted == pc \in {"ack"} => Requesting

SInv == NoStall /\ Granted

\* Every step keeps the acknowledge legal: the request that Confirm saw is
\* still there, because only the lock holder can take it back.
LEMMA StallStep ==
  ASSUME MaxEoiFail = 0, MaxWithdraw = 0, TypeOK, CInv, SInv, [Next]_vars
  PROVE  SInv'
<1> USE DEF SInv
<1>1. ASSUME Poll PROVE SInv'
  <2>1. CASE Acknowledge
    <3>1. NoContext /\ Requesting
      BY <2>1 DEF Acknowledge, CInv, OneContext, Granted
    <3>2. pc' = "decide"
      BY <2>1, <3>1 DEF Acknowledge
    <3>3. QED
      BY <3>2 DEF NoStall, Granted
  <2>2. CASE Confirm
    BY <2>2 DEF Confirm, Return, chipVars, NoStall, Granted, Requesting
  <2>3. CASE ~Acknowledge /\ ~Confirm
    <3>1. pc' \notin {"ack", "stalled"}
      BY <1>1, <2>3 DEF Poll, Sweep, ArmTx, ReadRequest, Decide, RxData, Insert, RxTimeout,
         RxError, TxService, Return
    <3>2. QED
      BY <3>1 DEF NoStall, Granted
  <2>4. QED
    BY <2>1, <2>2, <2>3
<1>2. ASSUME Chip, UNCHANGED driverVars PROVE SInv'
  <2>1. pc' = pc
    BY <1>2 DEF driverVars
  <2>2. ~Withdraw
    BY DEF Withdraw, TypeOK, ChipTypeOK
  <2>3. Requesting => Requesting'
    BY <1>2, <2>2 DEF Chip, Arrive, RequestRx, RequestTx, Requesting
  <2>4. QED
    BY <2>1, <2>3 DEF NoStall, Granted
<1>3. ASSUME Tty PROVE SInv'
  <2>1. pc' = pc
    BY <1>3
    DEF Tty, ActivateBegin, ActivateEnd, ChanInit, FreshCount, Shutdown, DtrRts, TermiosBegin, TermiosEnd,
        TtyWrite, BreakCtl
  <2>2. ASSUME pc = "ack" PROVE UNCHANGED <<rir, tir>>
    <3>1. hw_lock = "poll" /\ op.kind = "none"
      BY <2>2 DEF CInv, LockOwner, Held
    <3>2. QED
      BY <1>3, <3>1
      DEF Tty, ActivateBegin, ActivateEnd, ChanInit, FreshCount, Shutdown, DtrRts, TermiosBegin, TermiosEnd,
          TtyWrite, BreakCtl, HwLockFree, chipVars
  <2>3. QED
    BY <2>1, <2>2 DEF NoStall, Granted, Requesting
<1>4. ASSUME BreakTest PROVE SInv'
  <2>1. UNCHANGED <<pc, rir, tir>>
    BY <1>4 DEF BreakTest, BreakStart, BreakSample, BreakStop, BreakRestore, chipVars
  <2>2. QED
    BY <2>1 DEF NoStall, Granted, Requesting
<1>5. CASE UNCHANGED vars
  BY <1>5 DEF vars, chipVars, NoStall, Granted, Requesting
<1>6. QED
  BY <1>1, <1>2, <1>3, <1>4, <1>5 DEF Next

\* With a chip that ends its services and withdraws no request, the acknowledge
\* cycle of nm32a_service is never issued with nothing to grant or nested in an
\* open context: the machine cannot stop on it.
THEOREM AcknowledgeRetires ==
  ASSUME MaxEoiFail = 0, MaxWithdraw = 0
  PROVE  Spec => []NoStall
<1>1. Init => SInv
  BY DEF Init, SInv, NoStall, Granted
<1>2. TypeOK /\ CInv /\ SInv /\ [Next]_vars => SInv'
  BY StallStep
<1>3. SInv => NoStall
  BY DEF SInv
<1>4. QED
  BY <1>1, <1>2, <1>3, TypeInvariant, ContextInvariant, PTL DEF Spec

-----------------------------------------------------------------------------
(* Transmit: nothing is lost, repeated or sent on another channel.         *)

\* Concatenation is associative.
LEMMA Assoc ==
  ASSUME NEW a \in Seq(Int), NEW b \in Seq(Int), NEW d \in Seq(Int)
  PROVE  (a \o b) \o d = a \o (b \o d)
<1> DEFINE l == (a \o b) \o d
           r == a \o (b \o d)
<1>1. /\ a \o b \in Seq(Int) /\ b \o d \in Seq(Int)
      /\ Len(a \o b) = Len(a) + Len(b) /\ Len(b \o d) = Len(b) + Len(d)
      /\ Len(a) \in Nat /\ Len(b) \in Nat /\ Len(d) \in Nat
  OBVIOUS
<1>2. /\ l \in Seq(Int) /\ Len(l) = Len(a) + Len(b) + Len(d)
      /\ r \in Seq(Int) /\ Len(r) = Len(a) + Len(b) + Len(d)
  BY <1>1
<1>3. ASSUME NEW i \in 1..(Len(a) + Len(b) + Len(d)) PROVE l[i] = r[i]
  <2>1. CASE i <= Len(a)
    BY <1>1, <2>1
  <2>2. CASE i > Len(a) /\ i <= Len(a) + Len(b)
    BY <1>1, <2>2
  <2>3. CASE i > Len(a) + Len(b)
    BY <1>1, <2>3
  <2>4. QED
    BY <1>1, <2>1, <2>2, <2>3
<1>4. QED
  <2> HIDE DEF l, r
  <2>1. l = r
    BY <1>2, <1>3, SeqEqual
  <2>2. QED
    BY <2>1 DEF l, r

\* Bytes put into the ring are bytes the port accepted.
LEMMA EnqueueExact ==
  ASSUME TypeOK, TxExact, NEW c \in Chans, NEW q \in Seq(Int), Enqueue(c, q),
         sent' = sent
  PROVE  TxExact'
<1> SUFFICES ASSUME NEW d \in Chans PROVE sent'[d] \o ring'[d] = accepted'[d]
  BY DEF TxExact
<1>1. sent[d] \o ring[d] = accepted[d] /\ sent[d] \in Seq(Int) /\ ring[d] \in Seq(Int)
  BY DEF TxExact, TypeOK
<1>2. CASE d # c
  BY <1>1, <1>2 DEF Enqueue, TypeOK
<1>3. CASE d = c
  <2>1. ring'[d] = ring[d] \o q /\ accepted'[d] = accepted[d] \o q
    BY <1>3 DEF Enqueue, TypeOK
  <2>2. sent[d] \o (ring[d] \o q) = (sent[d] \o ring[d]) \o q
    BY <1>1, Assoc
  <2>3. QED
    BY <1>1, <2>1, <2>2
<1>4. QED
  BY <1>2, <1>3

\* Queueing an embedded command, or dropping it, keeps the accounts.
LEMMA QueueCommandExact ==
  ASSUME TypeOK, TxExact, NEW c \in Chans, NEW cmd \in {BrkOn, BrkOff},
         QueueCommand(c, cmd), sent' = sent
  PROVE  TxExact'
<1>1. <<Nul, cmd>> \in Seq(Int)
  BY DEF Nul, BrkOn, BrkOff
<1>2. QED
  BY <1>1, EnqueueExact DEF QueueCommand, TxExact

\* The transmit service moves bytes from the ring to the line of the same
\* channel.
LEMMA TxServiceExact ==
  ASSUME TypeOK, CInv, TxExact, TxService
  PROVE  TxExact'
<1>1. svc.ch \in Chans /\ sel = svc.ch /\ tir.st = "act" /\ accepted' = accepted
  BY DEF TxService, TypeOK, CInv, OneContext
<1> DEFINE c == svc.ch
<1>2. PICK room \in 1..MaxRoom :
        LET n == IF room < Len(ring[c]) THEN room ELSE Len(ring[c])
        IN  /\ ring' = [ring EXCEPT ![c] = RingAfter(c, n)]
            /\ sent' = [sent EXCEPT ![c] = @ \o SubSeq(ring[c], 1, n)]
  BY <1>1 DEF TxService
<1> DEFINE n == IF room < Len(ring[c]) THEN room ELSE Len(ring[c])
<1>3. ring[c] \in Seq(Int) /\ sent[c] \in Seq(Int) /\ sent[c] \o ring[c] = accepted[c]
  BY <1>1 DEF TypeOK, TxExact
<1>4. n \in Nat /\ n <= Len(ring[c])
  BY <1>3, DriverAssumption DEF DriverAssumption
<1> HIDE DEF n, c
<1>5. /\ SubSeq(ring[c], 1, n) \in Seq(Int) /\ RingAfter(c, n) \in Seq(Int)
      /\ SubSeq(ring[c], 1, n) \o RingAfter(c, n) = ring[c]
  BY <1>3, <1>4, Cut DEF RingAfter
<1>6. (sent[c] \o SubSeq(ring[c], 1, n)) \o RingAfter(c, n) = accepted[c]
  <2>1. (sent[c] \o SubSeq(ring[c], 1, n)) \o RingAfter(c, n)
          = sent[c] \o (SubSeq(ring[c], 1, n) \o RingAfter(c, n))
    BY <1>3, <1>5, Assoc, Zenon
  <2>2. QED
    BY <1>3, <1>5, <2>1
<1>7. ring' = [ring EXCEPT ![c] = RingAfter(c, n)]
  BY <1>2 DEF n
<1>8. sent' = [sent EXCEPT ![c] = sent[c] \o SubSeq(ring[c], 1, n)]
  BY <1>2 DEF n
<1>9. ASSUME NEW d \in Chans PROVE sent'[d] \o ring'[d] = accepted'[d]
  <2>1. CASE d = c
    BY <1>1, <1>6, <1>7, <1>8, <2>1 DEF TypeOK, c
  <2>2. CASE d # c
    BY <1>1, <1>7, <1>8, <2>2 DEF TypeOK, TxExact
  <2>3. QED
    BY <2>1, <2>2
<1>10. QED
  BY <1>9 DEF TxExact

\* As long as every end of service takes, the bytes written to TDR of a channel
\* and those left in its ring are together what the port accepted since it was
\* opened, in order, with any number of channels, writers and break tests.
THEOREM TransmitExact ==
  ASSUME MaxEoiFail = 0
  PROVE  Spec => []TxExact
<1>1. Init => TxExact
  BY DEF Init, TxExact
<1>2. TypeOK /\ CInv /\ TxExact /\ [Next]_vars => TxExact'
  <2> SUFFICES ASSUME TypeOK, CInv, TxExact, [Next]_vars PROVE TxExact'
    OBVIOUS
  <2>1. ASSUME UNCHANGED <<sent, ring, accepted>> PROVE TxExact'
    BY <2>1 DEF TxExact
  <2>2. ASSUME Poll PROVE TxExact'
    <3>1. CASE TxService
      BY <3>1, TxServiceExact
    <3>2. CASE ~TxService
      BY <2>1, <2>2, <3>2
      DEF Poll, Sweep, ArmTx, ReadRequest, Confirm, Acknowledge, Decide, RxData, Insert,
          RxTimeout, RxError, portVars
    <3>3. QED
      BY <3>1, <3>2
  <2>3. ASSUME UNCHANGED driverVars PROVE TxExact'
    BY <2>1, <2>3 DEF driverVars, portVars
  <2>4. ASSUME NEW c \in Chans, ActivateEnd(c) PROVE TxExact'
    <3>1. ASSUME NEW d \in Chans PROVE sent'[d] \o ring'[d] = accepted'[d]
      <4>1. CASE d = c
        BY <2>4, <4>1 DEF ActivateEnd, ChanInit, FreshCount, FreshRing, TypeOK
      <4>2. CASE d # c
        BY <2>4, <4>2 DEF ActivateEnd, ChanInit, FreshCount, TypeOK, TxExact
      <4>3. QED
        BY <4>1, <4>2
    <3>2. QED
      BY <3>1 DEF TxExact
  <2>5. ASSUME NEW c \in Chans, TtyWrite(c) PROVE TxExact'
    <3>1. <<Len(accepted[c]) + 1>> \in Seq(Int)
      BY DEF TypeOK
    <3>2. QED
      BY <2>5, <3>1, EnqueueExact DEF TtyWrite
  <2>6. ASSUME NEW c \in Chans, NEW cmd \in {BrkOn, BrkOff}, BreakCtl(c, cmd)
        PROVE  TxExact'
    BY <2>6, QueueCommandExact DEF BreakCtl
  <2>7. ASSUME NEW c \in Chans,
               \/ ActivateBegin(c) \/ Shutdown(c) \/ TermiosBegin(c) \/ TermiosEnd(c)
               \/ \E active \in BOOLEAN : DtrRts(c, active)
        PROVE  TxExact'
    BY <2>1, <2>7
    DEF ActivateBegin, Shutdown, TermiosBegin, TermiosEnd, DtrRts, portVars
  <2>8. ASSUME BreakTest PROVE TxExact'
    <3>1. ASSUME NEW c \in Chans, BreakStart(c) PROVE TxExact'
      BY <3>1, QueueCommandExact DEF BreakStart
    <3>2. CASE BreakStop
      <4>1. brk.ch \in Chans
        BY DEF TypeOK
      <4>2. QED
        BY <3>2, <4>1, QueueCommandExact DEF BreakStop
    <3>3. CASE BreakSample \/ BreakRestore
      BY <2>1, <3>3 DEF BreakSample, BreakRestore, portVars
    <3>4. QED
      BY <2>8, <3>1, <3>2, <3>3 DEF BreakTest
  <2>9. CASE UNCHANGED vars
    BY <2>1, <2>9 DEF vars, portVars
  <2>10. QED
    BY <2>2, <2>3, <2>4, <2>5, <2>6, <2>7, <2>8, <2>9 DEF Next, Tty
<1>3. QED
  BY <1>1, <1>2, TypeInvariant, ContextInvariant, PTL DEF Spec

-----------------------------------------------------------------------------
(* The storm guard.                                                        *)

\* The guard of nm32a_rx_exception cannot be missed: in every reachable state a
\* port whose exception count has reached the limit is muted, so the count the
\* code compares for equality never gets past the limit unnoticed.
THEOREM StormGuard == Spec => []StormMutes
<1>1. Init => StormMutes
  BY DriverAssumption DEF DriverAssumption, Init, StormMutes
<1>2. TypeOK /\ StormMutes /\ [Next]_vars => StormMutes'
  <2> SUFFICES ASSUME TypeOK, StormMutes, [Next]_vars PROVE StormMutes'
    OBVIOUS
  <2>1. ASSUME UNCHANGED <<err_cnt, rx_off>> PROVE StormMutes'
    BY <2>1 DEF StormMutes
  <2>2. CASE RxError
    <3>1. PICK anew \in BOOLEAN :
            LET n == ErrCount(svc.ch, anew)
            IN  /\ err_cnt' = [err_cnt EXCEPT ![svc.ch] = n]
                /\ \/ /\ Mutes(svc.ch, n)
                      /\ rx_off' = [rx_off EXCEPT ![svc.ch] = TRUE]
                   \/ ~Mutes(svc.ch, n) /\ rx_off' = rx_off
      BY <2>2 DEF RxError
    <3> QED
      BY <3>1 DEF Mutes, StormMutes, TypeOK
  <2>3. ASSUME Poll, ~RxError PROVE StormMutes'
    BY <2>1, <2>3
    DEF Poll, Sweep, ArmTx, ReadRequest, Confirm, Acknowledge, Decide, RxData,
        Insert, RxTimeout, TxService, portVars
  <2>4. ASSUME UNCHANGED driverVars PROVE StormMutes'
    BY <2>1, <2>4 DEF driverVars, portVars
  <2>5. ASSUME NEW c \in Chans, ActivateEnd(c) PROVE StormMutes'
    BY <2>5, DriverAssumption
    DEF DriverAssumption, ActivateEnd, FreshCount, StormMutes, TypeOK
  <2>6. ASSUME Tty, ~\E d \in Chans : ActivateEnd(d)
        PROVE  StormMutes'
    BY <2>1, <2>6
    DEF Tty, ActivateBegin, Shutdown, DtrRts, TermiosBegin, TermiosEnd,
        TtyWrite, BreakCtl, portVars
  <2>7. ASSUME BreakTest PROVE StormMutes'
    BY <2>1, <2>7
    DEF BreakTest, BreakStart, BreakSample, BreakStop, BreakRestore, portVars
  <2>8. CASE UNCHANGED vars
    BY <2>1, <2>8 DEF vars, portVars
  <2>9. QED
    BY <2>2, <2>3, <2>4, <2>5, <2>6, <2>7, <2>8 DEF Next, Tty
<1>3. QED
  BY <1>1, <1>2, TypeInvariant, PTL DEF Spec

=============================================================================
