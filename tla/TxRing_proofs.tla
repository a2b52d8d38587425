---------------------------- MODULE TxRing_proofs ----------------------------
(***************************************************************************)
(* Proofs about the transmit ring of an NM-32A port, for every ring size,  *)
(* every set of data bytes and every FIFO depth.                           *)
(***************************************************************************)
EXTENDS TxRing, FiniteSetTheorems, TLAPS

-----------------------------------------------------------------------------
(* Arithmetic of ring positions.                                           *)

\* Positions wrap at most once: a sum of two positions modulo N is the sum
\* itself or the sum less N.
LEMMA Wrap ==
  ASSUME NEW a \in 0..(2 * N - 1)
  PROVE  a % N = IF a < N THEN a ELSE a - N
BY RingAssumption, Z3 DEF RingAssumption

\* The successor of a slot is a slot, and the first one after the last.
LEMMA AfterSlot ==
  ASSUME NEW s \in Slots
  PROVE  /\ After(s) \in Slots
         /\ After(s) = IF s = N - 1 THEN 0 ELSE s + 1
<1>1. s + 1 \in 0..(2 * N - 1)
  BY RingAssumption DEF RingAssumption, Slots
<1>2. (s + 1) % N = IF s + 1 < N THEN s + 1 ELSE s + 1 - N
  BY <1>1, Wrap, RingAssumption DEF RingAssumption, Slots
<1>3. QED
  BY <1>2, RingAssumption DEF RingAssumption, Slots, After

\* Appending an element of S to a sequence over S.
LEMMA AppendType ==
  ASSUME NEW S, NEW q \in Seq(S), NEW e \in S
  PROVE  Append(q, e) \in Seq(S)
OBVIOUS

-----------------------------------------------------------------------------
(* Type correctness.                                                       *)

\* Every variable of the ring keeps its type; in particular head and tail
\* never leave the array, whatever tty_write, break_ctl and the service do.
THEOREM TypeCorrect == Spec => []TypeOK
<1>1. Init => TypeOK
  <2>1. Nul \in Byte /\ 0 \in Slots /\ 0 \in 0..MaxRoom
    BY RingAssumption DEF RingAssumption, Byte, Slots
  <2>2. QED
    BY <2>1 DEF Init, TypeOK
<1>2. TypeOK /\ [Next]_vars => TypeOK'
  <2> SUFFICES ASSUME TypeOK, [Next]_vars PROVE TypeOK'
    OBVIOUS
  <2> USE DEF TypeOK
  <2>1. ASSUME NEW n \in 1..MaxWrite, NEW b \in [1..n -> Data], WriteStart(b)
        PROVE  TypeOK'
    BY <2>1 DEF WriteStart
  <2>2. CASE WriteByte
    <3> DEFINE b == wbuf[wi + 1]
    <3>1. b \in Data /\ b \in Byte /\ b \in Symbol
      BY <2>2 DEF WriteByte, More, Byte, Symbol
    <3>2. head' \in Slots /\ tx' \in [Slots -> Byte]
      BY <2>2, <3>1, AfterSlot DEF WriteByte, Put1, Put2, Byte
    <3>3. asked' \in Seq(Symbol) /\ wi' \in Nat
      BY <2>2, <3>1 DEF WriteByte
    <3>4. QED
      BY <2>2, <3>2, <3>3 DEF WriteByte
  <2>3. CASE WriteEnd
    BY <2>3 DEF WriteEnd
  <2>4. ASSUME NEW cmd \in Command, BreakCtl(cmd)
        PROVE  TypeOK'
    <3>1. Meaning(cmd) \in Symbol /\ cmd \in Byte /\ Nul \in Byte
      BY DEF Command, Meaning, Symbol, Byte
    <3>2. /\ tx' \in {tx, [tx EXCEPT ![head] = Nul, ![After(head)] = cmd]}
          /\ head' \in {head, After(After(head))}
      BY <2>4 DEF BreakCtl, Put2
    <3>3. head' \in Slots /\ tx' \in [Slots -> Byte]
      BY <3>1, <3>2, AfterSlot
    <3>4. /\ asked' = asked \/ asked' = Append(asked, Meaning(cmd))
      BY <2>4 DEF BreakCtl
    <3>5. asked' \in Seq(Symbol)
      BY <3>1, <3>4, AppendType
    <3>6. QED
      BY <2>4, <3>3, <3>5 DEF BreakCtl
  <2>5. ASSUME NEW n \in 1..MaxRoom, TakeStart(n)
        PROVE  TypeOK'
    BY <2>5 DEF TakeStart
  <2>6. CASE TakeByte
    <3> DEFINE b == tx[tail]
               s == IF b = Nul THEN Nul
                    ELSE IF b \in Command THEN Meaning(b) ELSE Undefined
    <3>1. b \in Byte /\ b \in Symbol /\ s \in Symbol
      BY DEF Byte, Symbol, Meaning
    <3>2. /\ \/ line' = line \/ line' = Append(line, b) \/ line' = Append(line, s)
          /\ esc' \in BOOLEAN
      BY <2>6 DEF TakeByte, Transmit, Decoded, TypeOK
    <3>3. line' \in Seq(Symbol)
      <4> HIDE DEF b, s
      <4> QED BY <3>1, <3>2, AppendType
    <3>4. tail' \in Slots
      BY <2>6, AfterSlot DEF TakeByte, NextTail
    <3>5. room' \in 0..MaxRoom /\ sent' \in Seq(Byte)
      BY <2>6, <3>1, RingAssumption DEF RingAssumption, TakeByte
    <3>6. QED
      BY <2>6, <3>2, <3>3, <3>4, <3>5 DEF TakeByte
  <2>7. CASE TakeEnd
    BY <2>7, RingAssumption DEF RingAssumption, TakeEnd
  <2>8. CASE Activate
    <3>1. 0 \in Slots
      BY RingAssumption DEF RingAssumption, Slots
    <3>2. QED
      BY <2>8, <3>1 DEF Activate
  <2>9. CASE UNCHANGED vars
    BY <2>9 DEF vars
  <2>10. QED
    BY <2>1, <2>2, <2>3, <2>4, <2>5, <2>6, <2>7, <2>8, <2>9 DEF Next
<1>3. QED
  BY <1>1, <1>2, PTL DEF Spec

-----------------------------------------------------------------------------
(* The ring as a queue.  The contents are looked at as a function of the   *)
(* array and the two positions, so that old and new contents are instances *)
(* of one operator.                                                        *)

Count(h, t)   == (h - t + N) % N
Pos(t, i)     == (t + i - 1) % N
View(r, h, t) == [i \in 1..Count(h, t) |-> r[Pos(t, i)]]

\* The number of bytes between two positions, without the modulus.
LEMMA CountValue ==
  ASSUME NEW h \in Slots, NEW t \in Slots
  PROVE  /\ Count(h, t) \in 0..(N - 1)
         /\ Count(h, t) = IF h < t THEN h - t + N ELSE h - t
<1>1. h - t + N \in 0..(2 * N - 1)
  BY RingAssumption DEF RingAssumption, Slots
<1>2. Count(h, t) = IF h - t + N < N THEN h - t + N ELSE h - t
  BY <1>1, Wrap, RingAssumption DEF RingAssumption, Slots, Count
<1>3. QED
  BY <1>2, RingAssumption DEF RingAssumption, Slots

\* The position of the i-th byte, without the modulus.
LEMMA PosValue ==
  ASSUME NEW t \in Slots, NEW i \in 1..N
  PROVE  /\ Pos(t, i) \in Slots
         /\ Pos(t, i) = IF t + i - 1 < N THEN t + i - 1 ELSE t + i - 1 - N
<1>1. t + i - 1 \in 0..(2 * N - 1)
  BY RingAssumption DEF RingAssumption, Slots
<1>2. Pos(t, i) = IF t + i - 1 < N THEN t + i - 1 ELSE t + i - 1 - N
  BY <1>1, Wrap, RingAssumption DEF RingAssumption, Slots, Pos
<1>3. QED
  BY <1>2, RingAssumption DEF RingAssumption, Slots

\* The contents are a sequence of bytes.
LEMMA ViewType ==
  ASSUME NEW r \in [Slots -> Byte], NEW h \in Slots, NEW t \in Slots
  PROVE  /\ View(r, h, t) \in Seq(Byte)
         /\ Len(View(r, h, t)) = Count(h, t)
<1>1. Count(h, t) \in Nat /\ Count(h, t) <= N - 1
  BY CountValue, RingAssumption DEF RingAssumption
<1>2. \A i \in 1..Count(h, t) : r[Pos(t, i)] \in Byte
  BY <1>1, PosValue, RingAssumption DEF RingAssumption
<1>3. View(r, h, t) \in Seq(Byte) /\ Len(View(r, h, t)) = Count(h, t)
  BY <1>1, <1>2 DEF View
<1>4. QED
  BY <1>3

\* They are empty when head and tail meet.
LEMMA ViewEmpty ==
  ASSUME NEW r \in [Slots -> Byte], NEW h \in Slots
  PROVE  View(r, h, h) = <<>>
<1>1. View(r, h, h) \in Seq(Byte) /\ Len(View(r, h, h)) = Count(h, h)
  BY ViewType
<1>2. Count(h, h) = IF h < h THEN h - h + N ELSE h - h
  BY CountValue
<1>3. Count(h, h) = 0
  BY <1>2, RingAssumption DEF RingAssumption, Slots
<1>4. QED
  BY <1>1, <1>3

\* s is r with b stored in slot h.
Stored(s, r, h, b) == s[h] = b /\ \A j \in Slots : j # h => s[j] = r[j]

\* nm32a_tx_put into a ring that is not full appends.
LEMMA PutView ==
  ASSUME NEW r \in [Slots -> Byte], NEW h \in Slots, NEW t \in Slots,
         NEW b \in Byte, Count(h, t) < N - 1,
         NEW s \in [Slots -> Byte], Stored(s, r, h, b)
  PROVE  /\ Count(After(h), t) = Count(h, t) + 1
         /\ View(s, After(h), t) = Append(View(r, h, t), b)
<1> DEFINE n == Count(h, t)
<1>1. After(h) \in Slots
  BY AfterSlot
<1>2. n = (IF h < t THEN h - t + N ELSE h - t) /\ n \in 0..(N - 2)
  BY CountValue, RingAssumption DEF RingAssumption
<1>3. Count(After(h), t) = n + 1
  <2> HIDE DEF n
  <2>1. Count(After(h), t) = IF After(h) < t THEN After(h) - t + N
                                             ELSE After(h) - t
    BY <1>1, CountValue
  <2>2. After(h) = IF h = N - 1 THEN 0 ELSE h + 1
    BY AfterSlot
  <2>3. QED
    BY <1>2, <2>1, <2>2, RingAssumption DEF RingAssumption, Slots
<1>4. Pos(t, n + 1) = h
  <2> HIDE DEF n
  <2>1. n + 1 \in 1..N
    BY <1>2, RingAssumption DEF RingAssumption
  <2>2. Pos(t, n + 1) = IF t + (n + 1) - 1 < N THEN t + (n + 1) - 1
                                               ELSE t + (n + 1) - 1 - N
    BY <2>1, PosValue
  <2>3. QED
    BY <1>2, <2>2, RingAssumption DEF RingAssumption, Slots
<1>5. ASSUME NEW i \in 1..n
       PROVE  Pos(t, i) # h /\ Pos(t, i) \in Slots
  <2> HIDE DEF n
  <2>1. i \in 1..N
    BY <1>2, RingAssumption DEF RingAssumption
  <2>2. /\ Pos(t, i) = IF t + i - 1 < N THEN t + i - 1 ELSE t + i - 1 - N
        /\ Pos(t, i) \in Slots
    BY <2>1, PosValue
  <2>3. QED
    BY <1>2, <2>2, RingAssumption DEF RingAssumption, Slots
<1>6. \A i \in 1..n : s[Pos(t, i)] = r[Pos(t, i)]
  BY <1>5 DEF Stored
<1>7. s[Pos(t, n + 1)] = b
  BY <1>4 DEF Stored
<1>8. /\ View(r, h, t) \in Seq(Byte) /\ Len(View(r, h, t)) = n
      /\ View(s, After(h), t) \in Seq(Byte)
      /\ Len(View(s, After(h), t)) = n + 1
  <2>1. View(r, h, t) \in Seq(Byte) /\ Len(View(r, h, t)) = n
    BY ViewType
  <2>2. /\ View(s, After(h), t) \in Seq(Byte)
        /\ Len(View(s, After(h), t)) = Count(After(h), t)
    BY <1>1, ViewType
  <2>3. QED
    BY <1>3, <2>1, <2>2
<1>9. \A i \in 1..n + 1 : View(s, After(h), t)[i] = Append(View(r, h, t), b)[i]
  <2> TAKE i \in 1..n + 1
  <2>1. View(s, After(h), t)[i] = s[Pos(t, i)]
    <3> HIDE DEF n
    <3> QED BY <1>2, <1>3 DEF View
  <2>2. CASE i \in 1..n
    <3>1. View(r, h, t)[i] = r[Pos(t, i)]
      BY <2>2 DEF View
    <3> HIDE DEF n
    <3>2. QED
      BY <1>2, <1>6, <1>8, <2>1, <2>2, <3>1
  <2>3. CASE i = n + 1
    <3> HIDE DEF n
    <3>1. QED
      BY <1>2, <1>7, <1>8, <2>1, <2>3
  <2>4. i \in 1..n \/ i = n + 1
    <3> HIDE DEF n
    <3> QED BY <1>2, RingAssumption DEF RingAssumption
  <2>5. QED
    BY <2>2, <2>3, <2>4
<1>10. QED
  <2> HIDE DEF n
  <2>1. Append(View(r, h, t), b) \in Seq(Byte)
    BY <1>8, AppendType
  <2>2. Len(Append(View(r, h, t), b)) = n + 1
    BY <1>8
  <2>3. View(s, After(h), t) = Append(View(r, h, t), b)
    BY <1>8, <1>9, <2>1, <2>2
  <2>4. QED
    BY <1>3, <2>3 DEF n

\* Reading the slot at the tail and advancing it takes the oldest byte.
LEMMA TakeView ==
  ASSUME NEW r \in [Slots -> Byte], NEW h \in Slots, NEW t \in Slots, h # t
  PROVE  /\ View(r, h, t) # <<>>
         /\ Head(View(r, h, t)) = r[t]
         /\ View(r, h, After(t)) = Tail(View(r, h, t))
<1> DEFINE n == Count(h, t)
<1>1. After(t) \in Slots
  BY AfterSlot
<1>2. After(t) = IF t = N - 1 THEN 0 ELSE t + 1
  BY AfterSlot
<1>3. Count(h, After(t)) = n - 1 /\ n \in 1..(N - 1)
  <2>1. n \in 0..(N - 1) /\ n = IF h < t THEN h - t + N ELSE h - t
    BY CountValue
  <2>2. Count(h, After(t)) = IF h < After(t) THEN h - After(t) + N
                                             ELSE h - After(t)
    BY <1>1, CountValue
  <2> HIDE DEF n
  <2>3. QED
    BY <1>2, <2>1, <2>2, RingAssumption DEF RingAssumption, Slots
<1>4. Pos(t, 1) = t
  <2>1. 1 \in 1..N
    BY RingAssumption DEF RingAssumption
  <2>2. Pos(t, 1) = IF t + 1 - 1 < N THEN t + 1 - 1 ELSE t + 1 - 1 - N
    BY <2>1, PosValue
  <2>3. QED
    BY <2>2, RingAssumption DEF RingAssumption, Slots
<1>5. ASSUME NEW i \in 1..(n - 1)
      PROVE  Pos(After(t), i) = Pos(t, i + 1)
  <2> HIDE DEF n
  <2>1. i \in 1..N /\ i + 1 \in 1..N
    BY <1>3, RingAssumption DEF RingAssumption
  <2>2. Pos(After(t), i) = IF After(t) + i - 1 < N THEN After(t) + i - 1
                                                   ELSE After(t) + i - 1 - N
    BY <1>1, <2>1, PosValue
  <2>3. Pos(t, i + 1) = IF t + (i + 1) - 1 < N THEN t + (i + 1) - 1
                                               ELSE t + (i + 1) - 1 - N
    BY <2>1, PosValue
  <2>4. QED
    BY <1>2, <2>1, <2>2, <2>3, RingAssumption DEF RingAssumption, Slots
<1>6. /\ View(r, h, t) \in Seq(Byte) /\ Len(View(r, h, t)) = n
      /\ View(r, h, After(t)) \in Seq(Byte)
      /\ Len(View(r, h, After(t))) = n - 1
  BY <1>1, <1>3, ViewType
<1>7. View(r, h, t)[1] = r[t]
  BY <1>3, <1>4 DEF View
<1>8. \A i \in 1..(n - 1) : View(r, h, After(t))[i] = View(r, h, t)[i + 1]
  BY <1>3, <1>5 DEF View
<1>9. QED
  <2> HIDE DEF n
  <2>1. View(r, h, t) # <<>> /\ Head(View(r, h, t)) = r[t]
    BY <1>3, <1>6, <1>7
  <2>2. /\ Tail(View(r, h, t)) \in Seq(Byte)
        /\ Len(Tail(View(r, h, t))) = n - 1
        /\ \A i \in 1..(n - 1) : Tail(View(r, h, t))[i] = View(r, h, t)[i + 1]
    BY <1>3, <1>6, <2>1
  <2>3. View(r, h, After(t)) = Tail(View(r, h, t))
    BY <1>6, <1>8, <2>2
  <2>4. QED
    BY <2>1, <2>3

-----------------------------------------------------------------------------
(* The ring implements the abstract queue.                                 *)

\* The old and the new contents, as views.
LEMMA ContentsView ==
  /\ Contents = View(tx, head, tail)
  /\ Contents' = View(tx', head', tail')
  /\ Used = Count(head, tail)
BY DEF Contents, View, Used, Count, Pos

\* nm32a_tx_put of one byte is the queue's Put of that byte.
LEMMA Put1Refines ==
  ASSUME TypeOK, NEW b \in Byte, TxSpace >= 1, Put1(b),
         UNCHANGED <<tail, sent>>
  PROVE  Queue!Put(<<b>>)
<1> DEFINE v == View(tx, head, tail)
<1>1. /\ tx \in [Slots -> Byte] /\ head \in Slots /\ tail \in Slots
  BY DEF TypeOK
<1>2. v \in Seq(Byte) /\ Len(v) = Count(head, tail)
  BY <1>1, ViewType
<1>3. Count(head, tail) \in 0..(N - 1) /\ Count(head, tail) < N - 1
  <2>1. Count(head, tail) \in 0..(N - 1)
    BY <1>1, CountValue
  <2>2. QED
    BY <2>1, ContentsView, RingAssumption DEF RingAssumption, TxSpace
<1>4. Contents' = Append(v, b)
  <2>1. tx' \in [Slots -> Byte] /\ Stored(tx', tx, head, b)
    BY <1>1 DEF Put1, Stored
  <2>2. View(tx', After(head), tail) = Append(v, b)
    BY <1>1, <1>3, <2>1, PutView
  <2>3. QED
    BY <2>2, ContentsView DEF Put1
<1>5. Len(v) + 1 <= N - 1
  BY <1>2, <1>3, RingAssumption DEF RingAssumption
<1>6. QED
  <2> HIDE DEF v
  <2>1. Append(v, b) = v \o <<b>> /\ Len(<<b>>) = 1
    BY <1>2
  <2>2. QED
    BY <1>4, <1>5, <2>1, ContentsView DEF v, Queue!Put

\* Two calls of nm32a_tx_put are the queue's Put of both bytes.
LEMMA Put2Refines ==
  ASSUME TypeOK, NEW b \in Byte, NEW d \in Byte, TxSpace >= 2, Put2(b, d),
         UNCHANGED <<tail, sent>>
  PROVE  Queue!Put(<<b, d>>)
<1> DEFINE v == View(tx, head, tail)
<1>1. /\ tx \in [Slots -> Byte] /\ head \in Slots /\ tail \in Slots
      /\ After(head) \in Slots
  BY AfterSlot DEF TypeOK
<1>0. PICK m \in [Slots -> Byte] : m = [tx EXCEPT ![head] = b]
  BY <1>1
<1> DEFINE w == View(m, After(head), tail)
<1>2. v \in Seq(Byte) /\ Len(v) = Count(head, tail)
  BY <1>1, ViewType
<1>3. Count(head, tail) \in 0..(N - 1) /\ Count(head, tail) < N - 2
  <2>1. Count(head, tail) \in 0..(N - 1)
    BY <1>1, CountValue
  <2>2. QED
    BY <2>1, ContentsView, RingAssumption DEF RingAssumption, TxSpace
<1>4. Count(After(head), tail) = Count(head, tail) + 1 /\ w = Append(v, b)
  <2>1. Count(head, tail) < N - 1
    BY <1>3, RingAssumption DEF RingAssumption
  <2>2. Stored(m, tx, head, b)
    BY <1>1, <1>0 DEF Stored
  <2>3. QED
    BY <1>1, <2>1, <2>2, PutView
<1>5. Contents' = Append(w, d)
  <2>1. Count(After(head), tail) < N - 1
    BY <1>3, <1>4, RingAssumption DEF RingAssumption
  <2>2. tx' = [m EXCEPT ![After(head)] = d] /\ head' = After(After(head))
    BY <1>1, <1>0 DEF Put2
  <2>3. tx' \in [Slots -> Byte] /\ Stored(tx', m, After(head), d)
    BY <1>1, <2>2 DEF Stored
  <2>4. View(tx', After(After(head)), tail)
          = Append(View(m, After(head), tail), d)
    BY <1>1, <2>1, <2>3, PutView
  <2>5. QED
    BY <2>2, <2>4, ContentsView
<1>6. Len(v) + 2 <= N - 1
  BY <1>2, <1>3, RingAssumption DEF RingAssumption
<1>7. QED
  <2> HIDE DEF v, w
  <2>1. Append(Append(v, b), d) = v \o <<b, d>> /\ Len(<<b, d>>) = 2
    BY <1>2
  <2>2. Contents' = v \o <<b, d>>
    BY <1>4, <1>5, <2>1
  <2>3. QED
    BY <1>6, <2>1, <2>2, ContentsView DEF v, Queue!Put

\* A step of the transmit loop is the queue's Take.
LEMMA TakeRefines ==
  ASSUME TypeOK, TakeByte
  PROVE  Queue!Take
<1>1. /\ tx \in [Slots -> Byte] /\ head \in Slots /\ tail \in Slots
  BY DEF TypeOK
<1>2. /\ View(tx, head, tail) # <<>>
      /\ Head(View(tx, head, tail)) = tx[tail]
      /\ View(tx, head, After(tail)) = Tail(View(tx, head, tail))
  BY <1>1, TakeView DEF TakeByte
<1>3. QED
  BY <1>2, ContentsView DEF TakeByte, NextTail, Queue!Take

\* A step that leaves the array, the positions and the history alone is a
\* stuttering step of the queue.
LEMMA QueueStutters ==
  ASSUME UNCHANGED <<tx, head, tail, sent>>
  PROVE  UNCHANGED <<Contents, sent>>
BY ContentsView

\* Every behaviour of the ring is a behaviour of a bounded first-in first-out
\* queue, for every ring size: tty_write, break_ctl and the transmit service
\* lose, repeat and overwrite nothing when the positions wrap.
THEOREM RingImplementsQueue == Spec => ImplementsQueue
<1>1. Init => Queue!Init
  <2> SUFFICES ASSUME Init PROVE Queue!Init
    OBVIOUS
  <2>1. tx \in [Slots -> Byte] /\ head \in Slots /\ tail \in Slots
    BY RingAssumption DEF RingAssumption, Init, Slots, Byte
  <2>2. Contents = <<>>
    BY <2>1, ViewEmpty, ContentsView DEF Init
  <2>3. QED
    BY <2>2 DEF Init, Queue!Init
<1>2. TypeOK /\ [Next]_vars => [Queue!Next]_<<Contents, sent>>
  <2> SUFFICES ASSUME TypeOK, [Next]_vars
               PROVE  Queue!Next \/ UNCHANGED <<Contents, sent>>
    OBVIOUS
  <2>1. ASSUME NEW n \in 1..MaxWrite, NEW b \in [1..n -> Data], WriteStart(b)
        PROVE  UNCHANGED <<Contents, sent>>
    BY <2>1, QueueStutters DEF WriteStart
  <2>2. CASE WriteByte
    <3> DEFINE b == wbuf[wi + 1]
    <3>1. b \in Byte /\ Nul \in Byte
      BY <2>2 DEF WriteByte, More, TypeOK, Byte
    <3>2. CASE b = Nul
      <4>1. TxSpace >= 2 /\ Put2(Nul, Nul) /\ UNCHANGED <<tail, sent>>
        BY <2>2, <3>2 DEF WriteByte, More, Need
      <4>2. Queue!Put(<<Nul, Nul>>)
        BY <3>1, <4>1, Put2Refines
      <4>3. QED
        BY <3>1, <4>2 DEF Queue!Next
    <3>3. CASE b # Nul
      <4>1. TxSpace >= 1 /\ Put1(b) /\ UNCHANGED <<tail, sent>>
        BY <2>2, <3>3 DEF WriteByte, More, Need
      <4> HIDE DEF b
      <4>2. Queue!Put(<<b>>)
        BY <3>1, <4>1, Put1Refines
      <4>3. QED
        BY <3>1, <4>2 DEF Queue!Next
    <3>4. QED
      BY <3>2, <3>3
  <2>3. CASE WriteEnd
    BY <2>3, QueueStutters DEF WriteEnd
  <2>4. ASSUME NEW cmd \in Command, BreakCtl(cmd)
        PROVE  Queue!Next \/ UNCHANGED <<Contents, sent>>
    <3>1. cmd \in Byte /\ Nul \in Byte
      BY DEF Command, Byte
    <3>2. CASE TxSpace >= 2 /\ Put2(Nul, cmd)
      <4>1. UNCHANGED <<tail, sent>>
        BY <2>4 DEF BreakCtl
      <4>2. Queue!Put(<<Nul, cmd>>)
        BY <3>1, <3>2, <4>1, Put2Refines
      <4>3. QED
        BY <3>1, <4>2 DEF Queue!Next
    <3>3. CASE UNCHANGED <<tx, head>>
      BY <2>4, <3>3, QueueStutters DEF BreakCtl
    <3>4. QED
      BY <2>4, <3>2, <3>3 DEF BreakCtl
  <2>5. ASSUME NEW n \in 1..MaxRoom, TakeStart(n)
        PROVE  UNCHANGED <<Contents, sent>>
    BY <2>5, QueueStutters DEF TakeStart
  <2>6. CASE TakeByte
    BY <2>6, TakeRefines DEF Queue!Next
  <2>7. CASE TakeEnd
    BY <2>7, QueueStutters DEF TakeEnd
  <2>8. CASE Activate
    <3>1. 0 \in Slots /\ tx \in [Slots -> Byte]
      BY RingAssumption DEF RingAssumption, Slots, TypeOK
    <3>2. View(tx, 0, 0) = <<>>
      BY <3>1, ViewEmpty
    <3>3. Contents' = <<>> /\ sent' = <<>>
      BY <2>8, <3>2, ContentsView DEF Activate
    <3>4. QED
      BY <3>3 DEF Queue!Next, Queue!Clear
  <2>9. CASE UNCHANGED vars
    BY <2>9, QueueStutters DEF vars
  <2>10. QED
    BY <2>1, <2>2, <2>3, <2>4, <2>5, <2>6, <2>7, <2>8, <2>9 DEF Next
<1>3. QED
  BY <1>1, <1>2, TypeCorrect, PTL DEF Spec, ImplementsQueue, Queue!Spec

-----------------------------------------------------------------------------
(* The stream.  What was written to TDR followed by what is in the ring is *)
(* one stream of bytes; writers only make it longer, the service only      *)
(* moves the point up to which it has been sent.  StreamWhole is           *)
(* inductive: a character or command queued at the end moves no seam.      *)

Stream == sent \o Contents

\* The bytes a character or a command is queued as.
Queued(x) == IF Wide(x) THEN <<Nul, Second(x)>> ELSE <<x>>

\* The symbols before the k-th that take two bytes.
WideBefore(a, k) == {i \in 1..(k - 1) : Wide(a[i])}

\* A seam is a position, and the next one is as far as the symbol is wide.
LEMMA SeamStep ==
  ASSUME NEW a, NEW k \in Nat \ {0}
  PROVE  /\ Seam(a, k) \in Nat \ {0}
         /\ IsFiniteSet(WideBefore(a, k)) /\ Cardinality(WideBefore(a, k)) \in Nat
         /\ Seam(a, k + 1) = Seam(a, k) + Width(a[k])
<1> DEFINE W == WideBefore(a, k)
<1>1. IsFiniteSet(W) /\ Cardinality(W) \in Nat
  <2>1. IsFiniteSet(1..(k - 1))
    BY FS_Interval
  <2>2. W \in SUBSET (1..(k - 1))
    BY DEF WideBefore
  <2>3. IsFiniteSet(W)
    BY <2>1, <2>2, FS_Subset
  <2>4. QED
    BY <2>3, FS_CardinalityType
<1>2. k \notin W
  BY DEF WideBefore
<1>3. WideBefore(a, k + 1) = IF Wide(a[k]) THEN W \cup {k} ELSE W
  BY DEF WideBefore
<1>4. Cardinality(W \cup {k}) = Cardinality(W) + 1
  <2> HIDE DEF W
  <2> QED BY <1>1, <1>2, FS_AddElement
<1>5. Cardinality(WideBefore(a, k + 1)) = Cardinality(W) + Width(a[k]) - 1
  <2> HIDE DEF W
  <2> QED BY <1>1, <1>3, <1>4 DEF Width
<1>6. Seam(a, k) = k + Cardinality(W) /\ Seam(a, k + 1) = k + 1 + Cardinality(WideBefore(a, k + 1))
  BY DEF Seam, WideBefore
<1> HIDE DEF W
<1>7. Width(a[k]) \in {1, 2}
  BY DEF Width
<1>8. QED
  BY <1>1, <1>5, <1>6, <1>7 DEF W

\* Seams keep the order of the symbols.
LEMMA SeamOrder ==
  ASSUME NEW a, NEW j \in Nat \ {0}, NEW k \in Nat \ {0}, j <= k
  PROVE  Seam(a, j) <= Seam(a, k)
<1>1. WideBefore(a, j) \in SUBSET WideBefore(a, k)
  BY DEF WideBefore
<1>2. Cardinality(WideBefore(a, j)) <= Cardinality(WideBefore(a, k))
  BY <1>1, SeamStep, FS_Subset
<1>3. /\ Seam(a, j) = j + Cardinality(WideBefore(a, j))
      /\ Seam(a, k) = k + Cardinality(WideBefore(a, k))
  BY DEF Seam, WideBefore
<1>4. Cardinality(WideBefore(a, j)) \in Nat /\ Cardinality(WideBefore(a, k)) \in Nat
  BY SeamStep
<1>5. QED
  BY <1>2, <1>3, <1>4

\* A symbol queued at the end moves no seam.
LEMMA SeamAppend ==
  ASSUME NEW a \in Seq(Symbol), NEW x \in Symbol, NEW k \in 1..(Len(a) + 1)
  PROVE  Seam(Append(a, x), k) = Seam(a, k)
<1>1. WideBefore(Append(a, x), k) = WideBefore(a, k)
  <2>1. \A i \in 1..(k - 1) : Append(a, x)[i] = a[i]
    OBVIOUS
  <2>2. QED
    BY <2>1 DEF WideBefore
<1>2. QED
  BY <1>1 DEF Seam, WideBefore

\* A stream of whole symbols stays one when a symbol's bytes are put at its end.
LEMMA WholeMore ==
  ASSUME NEW s \in Seq(Byte), NEW a \in Seq(Symbol), Whole(s, a),
         NEW x \in Symbol, Queued(x) \in Seq(Byte)
  PROVE  Whole(s \o Queued(x), Append(a, x))
<1> DEFINE n == Len(a)
           t == s \o Queued(x)
           b == Append(a, x)
<1>0. /\ Len(s) + 1 = Seam(a, n + 1)
      /\ \A k \in 1..n : /\ s[Seam(a, k)] = First(a[k])
                         /\ Wide(a[k]) => s[Seam(a, k) + 1] = Second(a[k])
  BY DEF Whole
<1>1. n \in Nat /\ Len(s) \in Nat /\ Width(x) \in {1, 2}
  BY DEF Width
<1>2. Len(b) = n + 1 /\ b[n + 1] = x /\ \A k \in 1..n : b[k] = a[k]
  OBVIOUS
<1>3. /\ Len(t) = Len(s) + Width(x) /\ \A i \in 1..Len(s) : t[i] = s[i]
      /\ t[Len(s) + 1] = First(x) /\ (Wide(x) => t[Len(s) + 2] = Second(x))
  <2>1. CASE Wide(x)
    <3>1. Queued(x) = <<Nul, Second(x)>> /\ Width(x) = 2 /\ First(x) = Nul
      BY <2>1 DEF Queued, Width, First
    <3>2. Len(<<Nul, Second(x)>>) = 2
      OBVIOUS
    <3>3. QED
      BY <3>1, <3>2
  <2>2. CASE ~Wide(x)
    <3>1. Queued(x) = <<x>> /\ Width(x) = 1 /\ First(x) = x
      BY <2>2 DEF Queued, Width, First
    <3>2. QED
      BY <2>2, <3>1
  <2>3. QED
    BY <2>1, <2>2
<1>4. \A k \in 1..(n + 1) : Seam(b, k) = Seam(a, k)
  BY SeamAppend
<1> HIDE DEF n, t, b
<1>5. Seam(b, n + 2) = Len(s) + 1 + Width(x)
  <2> DEFINE m == n + 1
  <2>0. m \in Nat \ {0}
    BY <1>1
  <2> HIDE DEF m
  <2>1. Seam(b, m + 1) = Seam(b, m) + Width(b[m])
    BY <2>0, SeamStep
  <2>2. Seam(b, m) = Len(s) + 1
    BY <1>1, <1>4, <1>0 DEF m
  <2>3. m + 1 = n + 2
    BY <1>1 DEF m
  <2>4. b[m] = x
    BY <1>2 DEF m
  <2>5. QED
    BY <2>1, <2>2, <2>3, <2>4
<1>6. ASSUME NEW k \in 1..n
      PROVE  Seam(a, k) \in 1..Len(s) /\ (Wide(a[k]) => Seam(a, k) + 1 \in 1..Len(s))
  <2>1. k \in Nat \ {0} /\ k + 1 \in Nat \ {0} /\ n + 1 \in Nat \ {0} /\ k + 1 <= n + 1
    BY <1>1
  <2>2. Seam(a, k + 1) <= Seam(a, n + 1)
    BY <2>1, SeamOrder
  <2>3. Seam(a, k) \in Nat \ {0} /\ Seam(a, k + 1) = Seam(a, k) + Width(a[k])
    BY <2>1, SeamStep
  <2>4. Seam(a, k) + Width(a[k]) <= Len(s) + 1
    BY <1>0, <2>2, <2>3
  <2>5. Width(a[k]) \in {1, 2} /\ (Wide(a[k]) => Width(a[k]) = 2)
    BY DEF Width
  <2>6. QED
    BY <1>1, <2>3, <2>4, <2>5
<1>7. ASSUME NEW k \in 1..(n + 1)
      PROVE  /\ t[Seam(b, k)] = First(b[k])
             /\ Wide(b[k]) => t[Seam(b, k) + 1] = Second(b[k])
  <2>1. CASE k = n + 1
    <3>1. Seam(b, k) = Len(s) + 1 /\ b[k] = x
      BY <1>1, <1>2, <1>4, <1>0, <2>1
    <3>2. Len(s) + 1 + 1 = Len(s) + 2
      BY <1>1
    <3>3. QED
      BY <1>3, <3>1, <3>2
  <2>2. CASE k # n + 1
    <3>1. k \in 1..n
      BY <1>1, <2>2
    <3>2. Seam(b, k) = Seam(a, k) /\ b[k] = a[k]
      BY <1>2, <1>4, <3>1
    <3>3. QED
      BY <1>3, <1>6, <1>0, <3>1, <3>2
  <2>3. QED
    BY <2>1, <2>2
<1>8. Len(t) + 1 = Len(s) + 1 + Width(x) /\ Len(b) + 1 = n + 2
  BY <1>1, <1>2, <1>3
<1>9. Whole(t, b)
  BY <1>2, <1>5, <1>7, <1>8 DEF Whole
<1>10. QED
  BY <1>9 DEF t, b

\* A step of the queue that puts bytes makes the stream longer by them, and a
\* step that takes one leaves it as it is.
LEMMA StreamStep ==
  ASSUME TypeOK
  PROVE  /\ Contents \in Seq(Byte) /\ Stream \in Seq(Byte)
         /\ Len(Stream) = Len(sent) + Len(Contents)
         /\ \A bytes \in Seq(Byte) : Queue!Put(bytes) => Stream' = Stream \o bytes
         /\ Queue!Take => /\ Stream' = Stream /\ Len(sent') = Len(sent) + 1
                          /\ Len(sent) + 1 <= Len(Stream)
                          /\ sent'[Len(sent) + 1] = Stream[Len(sent) + 1]
<1>1. tx \in [Slots -> Byte] /\ head \in Slots /\ tail \in Slots /\ sent \in Seq(Byte)
  BY DEF TypeOK
<1>2. Contents \in Seq(Byte)
  BY <1>1, ViewType, ContentsView
<1>3. Stream \in Seq(Byte) /\ Len(Stream) = Len(sent) + Len(Contents)
  BY <1>1, <1>2 DEF Stream
<1>4. ASSUME NEW bytes \in Seq(Byte), Queue!Put(bytes) PROVE Stream' = Stream \o bytes
  <2>1. Contents' = Contents \o bytes /\ sent' = sent
    BY <1>4 DEF Queue!Put
  <2>2. sent \o (Contents \o bytes) = (sent \o Contents) \o bytes
    BY <1>1, <1>2
  <2>3. QED
    BY <2>1, <2>2 DEF Stream
<1>5. ASSUME Queue!Take
      PROVE  /\ Stream' = Stream /\ Len(sent') = Len(sent) + 1
             /\ Len(sent) + 1 <= Len(Stream)
             /\ sent'[Len(sent) + 1] = Stream[Len(sent) + 1]
  <2>1. /\ Contents # <<>> /\ Contents' = Tail(Contents)
        /\ sent' = Append(sent, Head(Contents))
    BY <1>5 DEF Queue!Take
  <2> DEFINE q == Contents
  <2>2. q \in Seq(Byte) /\ q # <<>>
    BY <1>2, <2>1
  <2> HIDE DEF q
  <2>3. Append(sent, Head(q)) \o Tail(q) = sent \o q
    BY <1>1, <2>2
  <2>4. Len(sent) + 1 <= Len(sent \o q) /\ (sent \o q)[Len(sent) + 1] = Head(q)
    BY <1>1, <2>2
  <2>5. Len(Append(sent, Head(q))) = Len(sent) + 1 /\ Append(sent, Head(q))[Len(sent) + 1] = Head(q)
    BY <1>1, <2>2
  <2>6. QED
    BY <2>1, <2>3, <2>4, <2>5 DEF Stream, q
<1>6. QED
  BY <1>2, <1>3, <1>4, <1>5

\* Queueing a symbol.
LEMMA AskKeeps ==
  ASSUME TypeOK, StreamWhole, NEW x \in Symbol, Queued(x) \in Seq(Byte),
         Queue!Put(Queued(x)), asked' = Append(asked, x)
  PROVE  StreamWhole'
<1>1. asked \in Seq(Symbol) /\ Stream \in Seq(Byte) /\ Stream' = Stream \o Queued(x)
  BY StreamStep DEF TypeOK
<1>2. Whole(Stream, asked)
  BY DEF StreamWhole, Stream
<1>3. Whole(Stream', asked')
  BY <1>1, <1>2, WholeMore
<1>4. QED
  BY <1>3 DEF StreamWhole, Stream

\* Whatever the transmitter makes of it, taking a byte leaves the stream alone.
LEMMA TakeKeeps ==
  ASSUME TypeOK, StreamWhole, TakeByte
  PROVE  StreamWhole'
<1>1. Stream' = Stream /\ asked' = asked
  BY TakeRefines, StreamStep DEF TakeByte
<1>2. QED
  BY <1>1 DEF StreamWhole, Stream

\* A step that touches neither the stream nor what was asked for.
LEMMA WholeStutters ==
  ASSUME StreamWhole, UNCHANGED <<tx, head, tail, sent, asked>>
  PROVE  StreamWhole'
<1>1. Stream' = Stream
  BY QueueStutters DEF Stream
<1>2. QED
  BY <1>1 DEF StreamWhole, Stream

\* With nothing asked for there is nothing to carry.
LEMMA WholeEmpty ==
  ASSUME NEW s, s = <<>>, NEW a, a = <<>>
  PROVE  Whole(s, a)
<1>1. WideBefore(a, 1) = {}
  BY DEF WideBefore
<1>2. Seam(a, 1) = 1
  BY <1>1, FS_EmptySet DEF Seam, WideBefore
<1>3. QED
  BY <1>2 DEF Whole

\* The ring never holds or sends half an escape: the bytes nm32a_service hands to
\* the chip are those nm32a_tty_write and nm32a_break_ctl queued, for every ring
\* size and every value of COR2.
THEOREM EscapesWhole == Spec => []StreamWhole
<1>1. Init => StreamWhole
  <2> SUFFICES ASSUME Init PROVE StreamWhole
    OBVIOUS
  <2>1. tx \in [Slots -> Byte] /\ head \in Slots /\ tail \in Slots
    BY RingAssumption DEF RingAssumption, Init, Slots, Byte
  <2>2. Stream = <<>> /\ asked = <<>>
    <3>1. Contents = <<>>
      BY <2>1, ViewEmpty, ContentsView DEF Init
    <3>2. QED
      BY <3>1 DEF Init, Stream
  <2>3. QED
    BY <2>2, WholeEmpty DEF StreamWhole, Stream
<1>2. TypeOK /\ StreamWhole /\ [Next]_vars => StreamWhole'
  <2> SUFFICES ASSUME TypeOK, StreamWhole, [Next]_vars PROVE StreamWhole'
    OBVIOUS
  <2>1. ASSUME NEW n \in 1..MaxWrite, NEW b \in [1..n -> Data], WriteStart(b)
        PROVE  StreamWhole'
    BY <2>1, WholeStutters DEF WriteStart
  <2>2. CASE WriteByte
    <3> DEFINE b == wbuf[wi + 1]
    <3>1. b \in Data /\ b \in Byte /\ b \in Symbol /\ Nul \in Byte
      BY <2>2 DEF WriteByte, More, TypeOK, Byte, Symbol
    <3>2. asked' = Append(asked, b) /\ UNCHANGED <<tail, sent, esc, line>>
      BY <2>2 DEF WriteByte
    <3>3. CASE b = Nul
      <4>1. Queued(b) = <<Nul, Nul>>
        BY <3>3 DEF Queued, Wide, Second, Nul, BreakOn, BreakOff
      <4>2. TxSpace >= 2 /\ Put2(Nul, Nul)
        BY <2>2, <3>3 DEF WriteByte, More, Need
      <4>3. Queue!Put(<<Nul, Nul>>) /\ <<Nul, Nul>> \in Seq(Byte)
        BY <3>1, <3>2, <4>2, Put2Refines
      <4> HIDE DEF b
      <4>4. QED
        BY <3>1, <3>2, <4>1, <4>3, AskKeeps
    <3>4. CASE b # Nul
      <4>1. Queued(b) = <<b>>
        <5>1. b \in 0..255
          BY <3>1, RingAssumption DEF RingAssumption
        <5> HIDE DEF b
        <5>2. ~Wide(b)
          BY <3>4, <5>1 DEF Wide, BreakOn, BreakOff
        <5>3. QED
          BY <5>2 DEF Queued
      <4>2. TxSpace >= 1 /\ Put1(b)
        BY <2>2, <3>4 DEF WriteByte, More, Need
      <4> HIDE DEF b
      <4>3. Queue!Put(<<b>>) /\ <<b>> \in Seq(Byte)
        BY <3>1, <3>2, <4>2, Put1Refines
      <4>4. QED
        BY <3>1, <3>2, <4>1, <4>3, AskKeeps
    <3>5. QED
      BY <3>3, <3>4
  <2>3. CASE WriteEnd
    BY <2>3, WholeStutters DEF WriteEnd
  <2>4. ASSUME NEW cmd \in Command, BreakCtl(cmd)
        PROVE  StreamWhole'
    <3>1. cmd \in Byte /\ Nul \in Byte /\ Meaning(cmd) \in Symbol
      BY DEF Command, Byte, Meaning, Symbol
    <3>2. Queued(Meaning(cmd)) = <<Nul, cmd>>
      BY DEF Queued, Wide, Second, Meaning, Command, SendBrk, StopBrk, BreakOn, BreakOff, Nul
    <3>3. CASE TxSpace >= 2 /\ Put2(Nul, cmd) /\ asked' = Append(asked, Meaning(cmd))
      <4>1. UNCHANGED <<tail, sent, esc, line>>
        BY <2>4 DEF BreakCtl
      <4>2. Queue!Put(<<Nul, cmd>>) /\ <<Nul, cmd>> \in Seq(Byte)
        BY <3>1, <3>3, <4>1, Put2Refines
      <4>3. QED
        BY <3>1, <3>2, <3>3, <4>1, <4>2, AskKeeps
    <3>4. CASE UNCHANGED <<tx, head, asked>>
      BY <2>4, <3>4, WholeStutters DEF BreakCtl
    <3>5. QED
      BY <2>4, <3>3, <3>4 DEF BreakCtl
  <2>5. ASSUME NEW n \in 1..MaxRoom, TakeStart(n)
        PROVE  StreamWhole'
    BY <2>5, WholeStutters DEF TakeStart
  <2>6. CASE TakeByte
    BY <2>6, TakeKeeps
  <2>7. CASE TakeEnd
    BY <2>7, WholeStutters DEF TakeEnd
  <2>8. CASE Activate
    <3>1. 0 \in Slots /\ tx \in [Slots -> Byte]
      BY RingAssumption DEF RingAssumption, Slots, TypeOK
    <3>2. View(tx, 0, 0) = <<>>
      BY <3>1, ViewEmpty
    <3>3. Contents' = <<>> /\ sent' = <<>> /\ asked' = <<>>
      BY <2>8, <3>2, ContentsView DEF Activate
    <3>4. Stream' = <<>>
      BY <3>3 DEF Stream
    <3>5. QED
      BY <3>3, <3>4, WholeEmpty DEF StreamWhole, Stream
  <2>9. CASE UNCHANGED vars
    BY <2>9, WholeStutters DEF vars
  <2>10. QED
    BY <2>1, <2>2, <2>3, <2>4, <2>5, <2>6, <2>7, <2>8, <2>9 DEF Next
<1>3. QED
  BY <1>1, <1>2, TypeCorrect, PTL DEF Spec

=============================================================================
