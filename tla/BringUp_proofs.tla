---------------------------- MODULE BringUp_proofs ----------------------------
(* Type correctness of BringUp, and that a download reported good has left   *)
(* the microcode in the store, bit for bit.                                  *)
EXTENDS BringUp, SequenceTheorems, TLAPS

-----------------------------------------------------------------------------
(* Division, and the powers of two.                                         *)

\* A quotient and a remainder are the only ones.
LEMMA DivUnique ==
  ASSUME NEW d \in Nat \ {0}, NEW q \in Nat, NEW u \in Nat, u < d
  PROVE  (d * q + u) \div d = q
<1> DEFINE x == d * q + u
           p == x \div d
           w == x % d
<1>1. x \in Nat  BY SMT
<1>2. p \in Int /\ w \in Nat /\ w < d /\ x = d * p + w  BY <1>1, SMT
<1>3. d * (p - q) = u - w  BY <1>2, SMT
<1>4. ~(p - q >= 1)
  <2>1. p - q >= 1 => d * (p - q) >= d  BY <1>2, SMT
  <2> QED  BY <2>1, <1>2, <1>3, SMT
<1>5. ~(q - p >= 1)
  <2>1. q - p >= 1 => d * (q - p) >= d  BY <1>2, SMT
  <2>2. d * (q - p) = w - u  BY <1>2, SMT
  <2> QED  BY <2>1, <2>2, <1>2, SMT
<1> QED  BY <1>2, <1>4, <1>5, SMT

\* A quotient of a natural number is one.
LEMMA DivNat ==
  ASSUME NEW x \in Nat, NEW d \in Nat \ {0}
  PROVE  /\ x \div d \in Nat /\ x % d \in Nat /\ x % d < d
         /\ x = d * (x \div d) + (x % d)
<1> DEFINE p == x \div d
           w == x % d
<1>1. p \in Int /\ w \in Nat /\ w < d /\ x = d * p + w  BY SMT
<1>2. p < 0 => d * p <= -d  BY <1>1, SMT
<1> QED  BY <1>1, <1>2, SMT

\* Dividing by a and then by b is dividing by a b.
LEMMA DivDiv ==
  ASSUME NEW x \in Nat, NEW a \in Nat \ {0}, NEW b \in Nat \ {0}
  PROVE  (x \div a) \div b = x \div (a * b)
<1> DEFINE q == x \div a
           s == x % a
           p == q \div b
           t == q % b
           u == a * t + s
<1>1. q \in Nat /\ s \in Nat /\ s < a /\ x = a * q + s  BY DivNat, SMT
<1>2. p \in Nat /\ t \in Nat /\ t < b /\ q = b * p + t  BY <1>1, DivNat, SMT
<1> HIDE DEF q, s, p, t
<1>3. a * t <= a * (b - 1)  BY <1>2, SMT
<1>4. u \in Nat /\ a * b \in Nat \ {0} /\ u < a * b
  <2>1. a * (b - 1) = a * b - a /\ a * b \in Nat /\ a * t \in Nat  BY <1>2, SMT
  <2>2. a * b # 0  BY SMT
  <2> QED  BY <1>1, <1>3, <2>1, <2>2, SMT
<1>5. x = (a * b) * p + u
  <2>1. a * (b * p + t) = (a * b) * p + a * t  BY <1>2, SMT
  <2> QED  BY <1>1, <1>2, <2>1, SMT
<1>6. x \div (a * b) = p
  <2> HIDE DEF u
  <2> QED  BY <1>2, <1>4, <1>5, DivUnique, SMT
<1> QED  BY <1>6, SMT DEF p, q

P(k) == Pow2[k + 1]

LEMMA PowNat ==
  ASSUME NEW k \in 0..23
  PROVE  P(k) \in Nat \ {0}
BY SMT DEF P, Pow2

\* 2^18 and 2^8, of two parts of which one is an even number.
LEMMA PowInsn ==
  ASSUME NEW k \in 0..17
  PROVE  \E Q \in Nat \ {0} : 2 * P(k) * Q = 262144
<1>1. 2 * P(k) * P(17 - k) = 262144 /\ P(17 - k) \in Nat \ {0}  BY SMT DEF P, Pow2
<1> QED  BY <1>1, SMT

LEMMA PowByte ==
  ASSUME NEW k \in 0..7
  PROVE  \E Q \in Nat \ {0} : 2 * P(k) * Q = 256
<1>1. 2 * P(k) * P(7 - k) = 256 /\ P(7 - k) \in Nat \ {0}  BY SMT DEF P, Pow2
<1> QED  BY <1>1, SMT

LEMMA PowUp ==
  ASSUME NEW k \in 0..15
  PROVE  P(k + 8) = 256 * P(k)
BY SMT DEF P, Pow2

LEMMA PowSum ==
  ASSUME NEW k \in 0..17, NEW r \in {0, 2, 4, 6}
  PROVE  P(r + k) = P(r) * P(k)
<1>1. P(0 + k) = P(0) * P(k) /\ P(2 + k) = P(2) * P(k)  BY SMT DEF P, Pow2
<1>2. P(4 + k) = P(4) * P(k) /\ P(6 + k) = P(6) * P(k)  BY SMT DEF P, Pow2
<1> QED  BY <1>1, <1>2, SMT

-----------------------------------------------------------------------------
(* The bits of a number.                                                    *)

\* What lies above the bit, a multiple of 2^(k + 1), does not change it.
LEMMA BitBelow ==
  ASSUME NEW k \in 0..17, NEW Q \in Nat \ {0}, NEW z \in Nat, NEW y \in Nat
  PROVE  Bit((2 * P(k) * Q) * z + y, k) = Bit(y, k)
<1> DEFINE d == P(k)
           q == y \div d
           u == y % d
           h == Q * z
<1>0. d \in Nat \ {0}
  <2>1. k \in 0..23  BY SMT
  <2> QED  BY <2>1, PowNat
<1> HIDE DEF d
<1>1. q \in Nat /\ u \in Nat /\ u < d /\ y = d * q + u  BY <1>0, DivNat, SMT
<1> HIDE DEF q, u
<1>2. h \in Nat  BY SMT
<1>3. (2 * d * Q) * z + y = d * (2 * h + q) + u
  <2>1. (2 * d * Q) * z = d * (2 * h)  BY <1>0, SMT
  <2>2. d * (2 * h + q) = d * (2 * h) + d * q  BY <1>0, <1>1, <1>2, SMT
  <2> HIDE DEF h
  <2> QED  BY <1>0, <1>1, <1>2, <2>1, <2>2, SMT
<1> HIDE DEF h
<1>4. ((2 * d * Q) * z + y) \div d = 2 * h + q
  BY <1>0, <1>1, <1>2, <1>3, DivUnique, SMT
<1>5. (2 * h + q) % 2 = q % 2  BY <1>1, <1>2, SMT
<1> QED  BY <1>4, <1>5, SMT DEF Bit, P, d, q

LEMMA BitCut ==
  ASSUME NEW k \in 0..17, NEW x \in Nat
  PROVE  Bit(x % 262144, k) = Bit(x, k)
<1> DEFINE z == x \div 262144
           y == x % 262144
<1>1. z \in Nat /\ y \in Nat /\ x = 262144 * z + y  BY DivNat, SMT
<1> HIDE DEF z, y
<1>2. PICK Q \in Nat \ {0} : 2 * P(k) * Q = 262144  BY PowInsn, SMT
<1>3. Bit((2 * P(k) * Q) * z + y, k) = Bit(y, k)  BY <1>1, BitBelow, SMT
<1> QED  BY <1>1, <1>2, <1>3, SMT DEF y

\* The bits of a byte and what is above it.
Joined(x, b, w) == x = 256 * w + b

LEMMA BitLow ==
  ASSUME NEW b \in Nat, NEW w \in Nat, NEW x, Joined(x, b, w), NEW n \in 0..7
  PROVE  Bit(x, n) = Bit(b, n)
<1>1. n \in 0..17  BY SMT
<1>2. PICK Q \in Nat \ {0} : 2 * P(n) * Q = 256  BY PowByte, SMT
<1>3. Bit((2 * P(n) * Q) * w + b, n) = Bit(b, n)  BY <1>1, BitBelow, SMT
<1> QED  BY <1>2, <1>3, SMT DEF Joined

LEMMA BitHigh ==
  ASSUME NEW b \in Nat, b < 256, NEW w \in Nat, NEW x, Joined(x, b, w), NEW n \in 0..15
  PROVE  Bit(x, n + 8) = Bit(w, n)
<1> DEFINE d == P(n)
           a == 256
<1>1. a \in Nat \ {0} /\ n \in 0..23 /\ x \in Nat  BY SMT DEF Joined
<1>2. d \in Nat \ {0} /\ 256 * d = P(n + 8)  BY <1>1, PowNat, PowUp, SMT
<1>3. x \div 256 = w  BY DivUnique, SMT DEF Joined
<1> HIDE DEF d, a
<1>4. (x \div a) \div d = x \div (a * d)  BY <1>1, <1>2, DivDiv, Zenon
<1>5. w \div P(n) = x \div P(n + 8)  BY <1>2, <1>3, <1>4, SMT DEF a, d
<1> QED  BY <1>5, SMT DEF Bit, P

LEMMA BitShift ==
  ASSUME NEW x \in Nat, NEW r \in {0, 2, 4, 6}, NEW k \in 0..17
  PROVE  Bit(x \div P(r), k) = Bit(x, r + k)
<1> DEFINE a == P(r)
           d == P(k)
<1>1. r \in 0..23 /\ k \in 0..23  BY SMT
<1>2. a \in Nat \ {0} /\ d \in Nat \ {0}  BY <1>1, PowNat
<1>3. P(r + k) = a * d  BY PowSum
<1> HIDE DEF a, d
<1>4. (x \div a) \div d = x \div (a * d)  BY <1>2, DivDiv, Zenon
<1>5. (x \div P(r)) \div P(k) = x \div P(r + k)  BY <1>3, <1>4 DEF a, d
<1> QED  BY <1>5 DEF Bit, P

-----------------------------------------------------------------------------
(* ucode_insn.                                                              *)

LEMMA ByteNat ==
  ASSUME NEW x \in Byte
  PROVE  x \in Nat /\ x < 256
BY SMT DEF Byte

\* Three bytes shifted and cut to 18 bits, and the k'th bit of the outcome.
Window(x, b0, b1, b2, r) ==
  /\ b0 \in Nat /\ b0 < 256 /\ b1 \in Nat /\ b1 < 256 /\ b2 \in Nat /\ b2 < 256
  /\ r \in {0, 2, 4, 6}
  /\ x = ((b0 + 256 * b1 + 65536 * b2) \div P(r)) % 262144
WindowBit(x, b0, b1, b2, n, k) ==
  /\ n < 8 => Bit(x, k) = Bit(b0, n)
  /\ n >= 8 /\ n < 16 => Bit(x, k) = Bit(b1, n - 8)
  /\ n >= 16 => Bit(x, k) = Bit(b2, n - 16)

LEMMA BitOfWindow ==
  ASSUME NEW x, NEW b0, NEW b1, NEW b2, NEW r, Window(x, b0, b1, b2, r), NEW k \in 0..17
  PROVE  WindowBit(x, b0, b1, b2, r + k, k)
<1>a. /\ b0 \in Nat /\ b0 < 256 /\ b1 \in Nat /\ b1 < 256 /\ b2 \in Nat /\ b2 < 256
      /\ r \in {0, 2, 4, 6}
  BY DEF Window
<1> USE <1>a
<1> DEFINE w == 256 * b2 + b1
           v == 256 * w + b0
           n == r + k
<1>1. /\ w \in Nat /\ v \in Nat /\ n \in 0..23
      /\ v = b0 + 256 * b1 + 65536 * b2
  BY SMT
<1>0. Joined(w, b1, b2) /\ Joined(v, b0, w)  BY SMT DEF Joined
<1> HIDE DEF v, w
<1>2. \A m \in 0..7 : Bit(v, m) = Bit(b0, m)  BY <1>0, <1>1, BitLow, SMT
<1>3. \A m \in 0..15 : Bit(v, m + 8) = Bit(w, m)  BY <1>0, <1>1, BitHigh, SMT
<1>4. \A m \in 0..7 : Bit(w, m) = Bit(b1, m)  BY <1>0, <1>1, BitLow, SMT
<1>5. \A m \in 0..15 : Bit(w, m + 8) = Bit(b2, m)  BY <1>0, <1>1, BitHigh, SMT
<1>6. v \div P(r) \in Nat
  <2>1. r \in 0..23  BY SMT
  <2>2. P(r) \in Nat \ {0}  BY <2>1, PowNat
  <2> QED  BY <1>1, <2>2, DivNat
<1>7. Bit(x, k) = Bit(v, n)
  <2>1. Bit((v \div P(r)) % 262144, k) = Bit(v \div P(r), k)  BY <1>6, BitCut, SMT
  <2>2. Bit(v \div P(r), k) = Bit(v, n)  BY <1>1, BitShift, SMT
  <2>3. x = (v \div P(r)) % 262144  BY <1>1, SMT DEF Window
  <2> QED  BY <2>1, <2>2, <2>3, SMT
<1>8. CASE n < 8
  <2>1. n \in 0..7  BY <1>1, <1>8, SMT
  <2>2. Bit(v, n) = Bit(b0, n)  BY <2>1, <1>2
  <2> QED  BY <1>1, <1>7, <1>8, <2>2, SMT DEF WindowBit
<1>9. CASE n >= 8 /\ n < 16
  <2> DEFINE m == n - 8
  <2>1. m \in 0..7 /\ m \in 0..15 /\ n = m + 8  BY <1>1, <1>9, SMT
  <2> HIDE DEF m
  <2>2. Bit(v, m + 8) = Bit(b1, m)  BY <2>1, <1>3, <1>4
  <2>3. Bit(v, n) = Bit(b1, n - 8)  BY <2>1, <2>2 DEF m
  <2> QED  BY <1>1, <1>7, <1>9, <2>3, SMT DEF WindowBit
<1>10. CASE n >= 16
  <2> DEFINE m == n - 16
  <2>1. m \in 0..15 /\ m + 8 \in 0..15 /\ n = (m + 8) + 8  BY <1>1, <1>10, SMT
  <2> HIDE DEF m
  <2>2. Bit(v, (m + 8) + 8) = Bit(w, m + 8)  BY <2>1, <1>3
  <2>3. Bit(w, m + 8) = Bit(b2, m)  BY <2>1, <1>5
  <2>4. Bit(v, n) = Bit(b2, n - 16)  BY <2>1, <2>2, <2>3 DEF m
  <2> QED  BY <1>1, <1>7, <1>10, <2>4, SMT DEF WindowBit
<1> QED  BY <1>1, <1>8, <1>9, <1>10, SMT

\* Insn cuts such a window out of the stream.
LEMMA InsnWindow ==
  ASSUME NEW b \in Seq(Byte), NEW i \in Nat, NEW byte \in Nat, NEW r \in {0, 2, 4, 6},
         18 * i = 8 * byte + r
  PROVE  \E b0, b1, b2 :
           /\ Window(Insn(b, i), b0, b1, b2, r)
           /\ byte + 1 <= Len(b) => b0 = b[byte + 1]
           /\ byte + 2 <= Len(b) => b1 = b[byte + 2]
           /\ byte + 3 <= Len(b) => b2 = b[byte + 3]
<1> DEFINE B(j) == IF byte + j < Len(b) THEN b[byte + j + 1] ELSE 0
<1>1. (18 * i) \div 8 = byte /\ (18 * i) % 8 = r  BY SMT
<1>2. \A j \in {0, 1, 2} : B(j) \in Nat /\ B(j) < 256
  <2> SUFFICES ASSUME NEW j \in {0, 1, 2}, byte + j < Len(b)
               PROVE  b[byte + j + 1] \in Nat /\ b[byte + j + 1] < 256
    BY SMT
  <2>1. byte + j + 1 \in 1..Len(b)  BY SMT
  <2>2. b[byte + j + 1] \in Byte  BY <2>1
  <2> QED  BY <2>2, ByteNat
<1>3. Window(Insn(b, i), B(0), B(1), B(2), r)
  <2> HIDE DEF B
  <2>1. Insn(b, i) = ((B(0) + 256 * B(1) + 65536 * B(2)) \div P(r)) % 262144
    BY <1>1, SMT DEF Insn, P, B
  <2> QED  BY <1>2, <2>1, SMT DEF Window
<1>4. /\ byte + 1 <= Len(b) => B(0) = b[byte + 1]
      /\ byte + 2 <= Len(b) => B(1) = b[byte + 2]
      /\ byte + 3 <= Len(b) => B(2) = b[byte + 3]
  BY SMT
<1> HIDE DEF B
<1> QED  BY <1>2, <1>3, <1>4, SMT

\* An instruction that is whole in the stream is its 18 bits.
LEMMA InsnIsPacked ==
  ASSUME NEW b \in Seq(Byte), NEW i \in Nat, i < Whole(b), NEW k \in 0..17
  PROVE  Bit(Insn(b, i), k) = StreamBit(b, 18 * i + k)
<1>1. PICK byte \in Nat, r \in {0, 2, 4, 6} : 18 * i = 8 * byte + r
  <2>1. (18 * i) \div 8 \in Nat /\ (18 * i) % 8 \in {0, 2, 4, 6}  BY SMT
  <2>2. 18 * i = 8 * ((18 * i) \div 8) + ((18 * i) % 8)  BY SMT
  <2> QED  BY <2>1, <2>2
<1>2. 18 * i + 18 <= 8 * Len(b) /\ Len(b) \in Nat  BY SMT DEF Whole
<1>3. PICK b0, b1, b2 :
           /\ Window(Insn(b, i), b0, b1, b2, r)
           /\ byte + 1 <= Len(b) => b0 = b[byte + 1]
           /\ byte + 2 <= Len(b) => b1 = b[byte + 2]
           /\ byte + 3 <= Len(b) => b2 = b[byte + 3]
  BY <1>1, InsnWindow, Zenon
<1>7. WindowBit(Insn(b, i), b0, b1, b2, r + k, k)  BY <1>3, BitOfWindow, Zenon
<1>4. CASE r + k < 8
  <2>1. (18 * i + k) \div 8 = byte /\ (18 * i + k) % 8 = r + k  BY <1>1, <1>4, SMT
  <2>2. b0 = b[byte + 1]  BY <1>1, <1>2, <1>3, <1>4, SMT
  <2>3. Bit(Insn(b, i), k) = Bit(b0, r + k)  BY <1>7, <1>4, SMT DEF WindowBit
  <2> QED  BY <2>1, <2>2, <2>3 DEF StreamBit
<1>5. CASE r + k >= 8 /\ r + k < 16
  <2>1. (18 * i + k) \div 8 = byte + 1 /\ (18 * i + k) % 8 = r + k - 8  BY <1>1, <1>5, SMT
  <2>2. b1 = b[(byte + 1) + 1]  BY <1>1, <1>2, <1>3, <1>5, SMT
  <2>3. Bit(Insn(b, i), k) = Bit(b1, r + k - 8)  BY <1>7, <1>5, SMT DEF WindowBit
  <2> QED  BY <2>1, <2>2, <2>3 DEF StreamBit
<1>6. CASE r + k >= 16
  <2>1. (18 * i + k) \div 8 = byte + 2 /\ (18 * i + k) % 8 = r + k - 16  BY <1>1, <1>6, SMT
  <2>2. b2 = b[(byte + 2) + 1]  BY <1>1, <1>2, <1>3, <1>6, SMT
  <2>3. Bit(Insn(b, i), k) = Bit(b2, r + k - 16)  BY <1>7, <1>6, SMT DEF WindowBit
  <2> QED  BY <2>1, <2>2, <2>3 DEF StreamBit
<1> QED  BY <1>4, <1>5, <1>6, SMT

\* What is downloaded is of 18 bits.
LEMMA LiteralInsns ==
  Jump \in Insns /\ Pad \in Insns /\ \A n \in 0..16 : n \in Insns
BY SMT DEF Jump, Pad, Insns

LEMMA InsnType ==
  ASSUME NEW b \in Seq(Byte), NEW i \in Nat
  PROVE  Insn(b, i) \in Insns
<1>1. PICK byte \in Nat, r \in {0, 2, 4, 6} : 18 * i = 8 * byte + r
  <2>1. (18 * i) \div 8 \in Nat /\ (18 * i) % 8 \in {0, 2, 4, 6}  BY SMT
  <2>2. 18 * i = 8 * ((18 * i) \div 8) + ((18 * i) % 8)  BY SMT
  <2> QED  BY <2>1, <2>2
<1>2. PICK b0, b1, b2 : Window(Insn(b, i), b0, b1, b2, r)  BY <1>1, InsnWindow, Zenon
<1> DEFINE v == b0 + 256 * b1 + 65536 * b2
           d == P(r)
           w == v \div d
<1>3. v \in Nat /\ Insn(b, i) = w % 262144  BY <1>2, SMT DEF Window
<1>4. d \in Nat \ {0}
  <2>1. r \in 0..23  BY SMT
  <2> QED  BY <2>1, PowNat
<1> HIDE DEF v, d
<1>5. w \in Nat  BY <1>3, <1>4, DivNat
<1> HIDE DEF w
<1> QED  BY <1>3, <1>5, SMT DEF Insns

-----------------------------------------------------------------------------
(* A download under way.  What is still to write is counted from its end,    *)
(* where the two set-ups agree; ToStore is how many of the writes that fill  *)
(* the store are done, below zero before the first.                          *)

ChipState == [air : Insns, mtcr : 0..3, pos : 0..(N - 1),
              store : [0..(N - 1) -> Insns], runs : BOOLEAN, ccr : BOOLEAN]
Codes     == [0..(N - 1) -> Insns]

Total(ds)  == 2 * N + (IF ds THEN 13 ELSE 11)
ToStore(r) == 2 * N + 7 - r

\* The write that is due when r are left.
Due(ds, code, r) ==
  LET m == ToStore(r)
  IN  IF r <= 7 THEN Go[8 - r]
      ELSE IF m >= 0 THEN IF m % 2 = 0 THEN Air(code[m \div 2]) ELSE Btcr(3)
      ELSE Setup(ds)[m + IF ds THEN 7 ELSE 5]

Left(todo, ds, code) ==
  /\ todo \in Seq(Writes) /\ Len(todo) <= Total(ds)
  /\ \A r \in 1..Len(todo) : todo[Len(todo) + 1 - r] = Due(ds, code, r)

\* The loader of a chip nobody else writes to, when r writes are left.
Loading(s, ds, code, r) ==
  LET m == ToStore(r)
  IN  /\ r <= 7 => s.store = code
      /\ r <= 5 => s.mtcr # 2
      /\ r >= 7 /\ m >= 0 =>
           /\ s.mtcr = 2 /\ s.pos = IF m = 2 * N THEN 0 ELSE m \div 2
           /\ \A i \in 0..(N - 1) : i < m \div 2 => s.store[i] = code[i]
           /\ m % 2 = 1 => s.air = code[m \div 2]
      /\ m = -1 => s.pos = 0
      /\ m = -2 => s.mtcr = 1 /\ s.air = Jump
      /\ m = -3 => s.air = Jump /\ (ds => s.mtcr = 1)
      /\ m = -4 => (ds => s.air = Jump)

DriverLeft ==
  IF Working THEN Left(driver.todo, FALSE, DriverCode) ELSE driver.todo = <<>>
ToolLeft ==
  IF tool.on THEN Left(tool.todo, tool.ds, ToolCode(tool.file)) ELSE tool.todo = <<>>
DriverLoads ==
  Working /\ driver.alone =>
    Loading(chip[driver.at], FALSE, DriverCode, Len(driver.todo))
ToolLoads ==
  tool.on /\ tool.alone =>
    Loading(chip[tool.at], tool.ds, ToolCode(tool.file), Len(tool.todo))
Trusted ==
  \A c \in Chips : trust[c] # <<>> => chip[c].store = ToolCode(trust[c])

Inv == TypeOK /\ DriverLeft /\ ToolLeft /\ DriverLoads /\ ToolLoads /\ Trusted

LEMMA CodeType ==
  /\ \A b \in Seq(Byte) : ToolCode(b) \in Codes
  /\ DriverCode \in Codes /\ DriverCode = ToolCode(Blob) /\ Blob # <<>>
<1>1. ASSUME NEW b \in Seq(Byte)
      PROVE  ToolCode(b) \in Codes
  <2>1. \A i \in 0..(N - 1) : Insn(b, i) \in Insns  BY InsnType
  <2> QED  BY <2>1, LiteralInsns DEF ToolCode, Codes
<1>2. Blob \in Seq(Byte) /\ N \in Nat \ {0} /\ 8 * Len(Blob) >= 18 * N
  BY BringUpAssumption DEF BringUpAssumption
<1>3. \A i \in 0..(N - 1) : i < Whole(Blob)
  <2>1. Len(Blob) \in Nat  BY <1>2
  <2>2. (8 * Len(Blob)) \div 18 >= N  BY <1>2, <2>1, SMT
  <2> QED  BY <1>2, <2>1, <2>2, SMT DEF Whole
<1>4. DriverCode = ToolCode(Blob)  BY <1>3, SMT DEF DriverCode, ToolCode
<1>5. Blob # <<>>  BY <1>2, SMT
<1> QED  BY <1>1, <1>2, <1>4, <1>5

LEMMA WriteTypes ==
  /\ \A x \in Insns : Air(x) \in Writes
  /\ \A n \in 0..3 : Mtcr(n) \in Writes /\ Btcr(n) \in Writes
  /\ RstAll \in Writes
BY LiteralInsns DEF Air, Mtcr, Btcr, RstAll, Writes

IsParts(D, u, t, g) ==
  /\ Len(D) = Len(u) + Len(t) + Len(g)
  /\ \A k \in 1..Len(D) :
       D[k] = IF k <= Len(u) THEN u[k]
              ELSE IF k <= Len(u) + Len(t) THEN t[k - Len(u)]
              ELSE g[k - Len(u) - Len(t)]

LEMMA ThreeParts ==
  ASSUME NEW S, NEW u \in Seq(S), NEW t \in Seq(S), NEW g \in Seq(S),
         NEW D, D = (u \o t) \o g
  PROVE  D \in Seq(S) /\ IsParts(D, u, t, g)
<1> DEFINE v == u \o t
<1>1. /\ v \in Seq(S) /\ Len(v) = Len(u) + Len(t)
      /\ \A k \in 1..(Len(u) + Len(t)) : v[k] = IF k <= Len(u) THEN u[k] ELSE t[k - Len(u)]
  BY ConcatProperties
<1> HIDE DEF v
<1>2. /\ D \in Seq(S) /\ Len(D) = Len(v) + Len(g)
      /\ \A k \in 1..(Len(v) + Len(g)) : D[k] = IF k <= Len(v) THEN v[k] ELSE g[k - Len(v)]
  <2>1. D = v \o g  BY DEF v
  <2> QED  BY <1>1, <2>1, ConcatProperties
<1>3. Len(u) \in Nat /\ Len(t) \in Nat /\ Len(g) \in Nat  OBVIOUS
<1> QED  BY <1>1, <1>2, <1>3, SMT DEF IsParts

\* A whole download.
LEMMA DownloadLeft ==
  ASSUME NEW ds \in BOOLEAN, NEW code \in Codes
  PROVE  Left(Download(ds, code), ds, code) /\ Len(Download(ds, code)) = Total(ds)
<1>0. N \in Nat \ {0}  BY BringUpAssumption DEF BringUpAssumption
<1> DEFINE u == Setup(ds)
           t == Store(code)
<1>1. u \in Seq(Writes) /\ Len(u) = IF ds THEN 6 ELSE 4
  BY WriteTypes, LiteralInsns DEF Setup
<1>2. t \in Seq(Writes) /\ Len(t) = 2 * N
  <2>1. \A k \in 1..(2 * N) : t[k] \in Writes
    <3> SUFFICES ASSUME NEW k \in 1..(2 * N) PROVE t[k] \in Writes
      OBVIOUS
    <3>1. k % 2 = 1 => (k - 1) \div 2 \in 0..(N - 1)  BY <1>0, SMT
    <3> QED  BY <3>1, WriteTypes, LiteralInsns DEF Store, Codes
  <2>2. t \in [1..(2 * N) -> Writes]  BY <2>1 DEF Store
  <2> QED  BY <1>0, <2>2, SMT
<1>3. Go \in Seq(Writes) /\ Len(Go) = 7
  BY WriteTypes, LiteralInsns DEF Go
<1> DEFINE D == Download(ds, code)
           n == Len(u)
           g == Go
<1> HIDE DEF u, t, g
<1>a. D = (u \o t) \o g  BY DEF Download, u, t, g
<1>b. g \in Seq(Writes) /\ Len(g) = 7  BY <1>3 DEF g
<1> HIDE DEF D
<1>c. /\ D \in Seq(Writes) /\ Len(D) = Len(u) + Len(t) + Len(g)
      /\ \A k \in 1..Len(D) :
           D[k] = IF k <= Len(u) THEN u[k]
                  ELSE IF k <= Len(u) + Len(t) THEN t[k - Len(u)]
                  ELSE g[k - Len(u) - Len(t)]
  <2>1. u \in Seq(Writes) /\ t \in Seq(Writes) /\ g \in Seq(Writes)  BY <1>1, <1>2, <1>b
  <2> HIDE DEF n
  <2>2. D \in Seq(Writes) /\ IsParts(D, u, t, g)  BY <1>a, <2>1, ThreeParts, Zenon
  <2> QED  BY <2>2 DEF IsParts
<1>4. D \in Seq(Writes) /\ Len(D) = Total(ds)
  <2>1. n + 2 * N + 7 = Total(ds)  BY <1>0, <1>1, SMT DEF Total
  <2> QED  BY <1>2, <1>b, <1>c, <2>1, SMT
<1>5. \A k \in 1..Len(D) :
        D[k] = IF k <= n THEN u[k]
               ELSE IF k <= n + 2 * N THEN t[k - n] ELSE Go[k - n - 2 * N]
  BY <1>2, <1>c DEF g
<1>6. ASSUME NEW r \in 1..Len(D) PROVE D[Len(D) + 1 - r] = Due(ds, code, r)
  <2> DEFINE k == Len(D) + 1 - r
             m == ToStore(r)
  <2>1. k \in 1..Len(D) /\ m \in Int /\ n \in Nat  BY <1>0, <1>1, <1>4, SMT DEF ToStore
  <2>2. m = k - n - 1  BY <1>0, <1>1, <1>4, SMT DEF ToStore, Total
  <2>3. CASE r <= 7
    <3>1. k > n + 2 * N /\ k - n - 2 * N = 8 - r  BY <1>0, <1>1, <1>4, <2>3, SMT DEF Total
    <3> QED  BY <1>0, <1>5, <2>1, <2>3, <3>1, SMT DEF Due
  <2>4. CASE r > 7 /\ m >= 0
    <3>1. k > n /\ k <= n + 2 * N /\ k - n = m + 1  BY <1>0, <1>1, <1>4, <2>2, <2>4, SMT DEF Total
    <3>2. D[k] = t[m + 1]  BY <1>0, <1>5, <2>1, <3>1, SMT
    <3>3. m + 1 \in 1..(2 * N)  BY <1>0, <2>1, <2>4, <3>1, SMT DEF ToStore
    <3>4. t[m + 1] = IF m % 2 = 0 THEN Air(code[m \div 2]) ELSE Btcr(3)
      <4>1. (m + 1) % 2 = 1 <=> m % 2 = 0  BY <2>1, SMT
      <4>2. (m + 1) - 1 = m  BY <2>1, SMT
      <4> HIDE DEF m
      <4> QED  BY <3>3, <4>1, <4>2 DEF t, Store
    <3> QED  BY <2>4, <3>2, <3>4, SMT DEF Due
  <2>5. CASE m < 0
    <3>1. k <= n /\ r > 7 /\ k = n + 1 + m  BY <1>0, <1>1, <1>4, <2>1, <2>2, <2>5, SMT DEF ToStore
    <3>2. D[k] = u[k]  BY <1>5, <2>1, <3>1, SMT
    <3>3. k = m + IF ds THEN 7 ELSE 5  BY <1>1, <2>1, <3>1, SMT
    <3> HIDE DEF m
    <3>4. Due(ds, code, r) = Setup(ds)[m + IF ds THEN 7 ELSE 5]
      BY <2>1, <2>5, <3>1, SMT DEF Due, m
    <3> QED  BY <3>2, <3>3, <3>4 DEF u
  <2> QED  BY <2>1, <2>3, <2>4, <2>5, SMT
<1> QED  BY <1>0, <1>4, <1>6, SMT DEF Left, D, Total

-----------------------------------------------------------------------------
(* What one write does to a chip.                                           *)

LEMMA AirEffect ==
  ASSUME NEW c \in Chips, chip[c] \in ChipState, NEW x \in Insns,
         NEW t \in AfterWrite(c, Air(x))
  PROVE  /\ t \in ChipState /\ t.air = x
         /\ t.mtcr = chip[c].mtcr /\ t.pos = chip[c].pos /\ t.store = chip[c].store
<1>1. t = [chip[c] EXCEPT !.air = x]  BY DEF AfterWrite, Air
<1> QED  BY <1>1 DEF ChipState

LEMMA MtcrEffect ==
  ASSUME NEW c \in Chips, chip[c] \in ChipState, NEW x \in 0..3,
         NEW t \in AfterWrite(c, Mtcr(x))
  PROVE  /\ t \in ChipState /\ t.mtcr = x
         /\ t.air = chip[c].air /\ t.pos = chip[c].pos /\ t.store = chip[c].store
<1>1. t = [chip[c] EXCEPT !.mtcr = x]  BY DEF AfterWrite, Mtcr
<1> QED  BY <1>1 DEF ChipState

LEMMA RstEffect ==
  ASSUME NEW c \in Chips, chip[c] \in ChipState, NEW t \in AfterWrite(c, RstAll)
  PROVE  /\ t \in ChipState
         /\ t.air = chip[c].air /\ t.mtcr = chip[c].mtcr
         /\ t.pos = chip[c].pos /\ t.store = chip[c].store
<1>1. t = [chip[c] EXCEPT !.ccr = ~chip[c].runs]  BY DEF AfterWrite, RstAll
<1> QED  BY <1>1 DEF ChipState

LEMMA StartEffect ==
  ASSUME NEW c \in Chips, chip[c] \in ChipState, NEW t \in AfterWrite(c, Btcr(0))
  PROVE  /\ t \in ChipState
         /\ t.air = chip[c].air /\ t.mtcr = chip[c].mtcr
         /\ t.pos = chip[c].pos /\ t.store = chip[c].store
<1> DEFINE R == IF chip[c].mtcr # 3 \/ c \in Sick THEN {FALSE}
                ELSE IF chip[c].store = DriverCode THEN {TRUE} ELSE BOOLEAN
<1>1. AfterWrite(c, Btcr(0)) =
        {[chip[c] EXCEPT !.runs = r, !.ccr = @ /\ ~r] : r \in R}
  BY DEF AfterWrite, Btcr
<1>2. PICK r \in R : t = [chip[c] EXCEPT !.runs = r, !.ccr = @ /\ ~r]  BY <1>1
<1>3. r \in BOOLEAN  OBVIOUS
<1> QED  BY <1>2, <1>3 DEF ChipState

\* A step of the loader: the jump to the start of the store, a store, or neither.
Stepped(s, t, x) ==
  /\ t \in ChipState /\ t.air = s.air /\ t.mtcr = s.mtcr
  /\ s.mtcr # 2 => t.store = s.store
  /\ s.mtcr = 1 /\ s.air = Jump => t.pos = 0
  /\ s.mtcr = 2 /\ x = 3 =>
       /\ t.pos = IF s.pos = N - 1 THEN 0 ELSE s.pos + 1
       /\ t.store = [s.store EXCEPT ![s.pos] = s.air]

LEMMA StepEffect ==
  ASSUME NEW c \in Chips, chip[c] \in ChipState, NEW x \in {1, 3},
         NEW t \in AfterWrite(c, Btcr(x))
  PROVE  Stepped(chip[c], t, x)
<1> DEFINE s == chip[c]
<1>0. N \in Nat \ {0} /\ s.pos \in 0..(N - 1) /\ s.mtcr \in 0..3
  BY BringUpAssumption DEF BringUpAssumption, ChipState
<1>2. (s.pos + 1) % N = IF s.pos = N - 1 THEN 0 ELSE s.pos + 1
  <2> DEFINE a == s.pos
  <2>1. a \in 0..(N - 1)  BY <1>0
  <2> HIDE DEF a
  <2>2. (a + 1) % N = IF a = N - 1 THEN 0 ELSE a + 1  BY <1>0, <2>1, SMT
  <2> QED  BY <2>2 DEF a
<1> HIDE DEF s
<1>3. s \in ChipState  BY DEF s
<1>4. CASE s.mtcr = 1 /\ s.air = Jump
  <2>1. t = [s EXCEPT !.runs = FALSE, !.pos = 0]  BY <1>4 DEF AfterWrite, Btcr, s
  <2>2. /\ t \in ChipState /\ t.air = s.air /\ t.mtcr = s.mtcr /\ t.store = s.store
        /\ t.pos = 0
    <3>1. 0 \in 0..(N - 1)  BY <1>0, SMT
    <3> QED  BY <1>3, <2>1, <3>1 DEF ChipState
  <2> QED  BY <1>4, <2>2 DEF s, Stepped
<1>5. CASE s.mtcr = 2 /\ x = 3
  <2>1. t = [s EXCEPT !.runs = FALSE, !.store[s.pos] = s.air, !.pos = (s.pos + 1) % N]
    BY <1>5 DEF AfterWrite, Btcr, s
  <2>2. (s.pos + 1) % N \in 0..(N - 1)  BY <1>0, <1>2, SMT
  <2>3. /\ t.store = [s.store EXCEPT ![s.pos] = s.air] /\ t.pos = (s.pos + 1) % N
        /\ t.air = s.air /\ t.mtcr = s.mtcr /\ t \in ChipState
    BY <1>0, <1>3, <2>1, <2>2 DEF ChipState
  <2> QED  BY <1>2, <1>5, <2>3, SMT DEF s, Stepped
<1>6. CASE ~(s.mtcr = 1 /\ s.air = Jump) /\ ~(s.mtcr = 2 /\ x = 3)
  <2>1. t = [s EXCEPT !.runs = FALSE]
    <3>1. CASE x = 3
      <4>1. ~(s.mtcr = 1 /\ s.air = Jump) /\ s.mtcr # 2  BY <1>6, <3>1
      <4> QED  BY <3>1, <4>1 DEF AfterWrite, Btcr, s
    <3>2. CASE x = 1
      <4>1. ~(s.mtcr = 1 /\ s.air = Jump)  BY <1>6
      <4> QED  BY <3>2, <4>1 DEF AfterWrite, Btcr, s
    <3> QED  BY <3>1, <3>2
  <2>2. t \in ChipState /\ t.air = s.air /\ t.mtcr = s.mtcr /\ t.store = s.store
    BY <1>3, <2>1 DEF ChipState
  <2> QED  BY <1>6, <2>2 DEF s, Stepped
<1> QED  BY <1>4, <1>5, <1>6

-----------------------------------------------------------------------------
(* One write of a download.                                                 *)

LEMMA LeftNext ==
  ASSUME NEW todo, NEW ds, NEW code, Left(todo, ds, code), todo # <<>>
  PROVE  /\ Len(todo) \in Nat \ {0} /\ Len(todo) <= Total(ds)
         /\ Head(todo) = Due(ds, code, Len(todo))
         /\ Left(Tail(todo), ds, code) /\ Len(Tail(todo)) = Len(todo) - 1
<1>1. todo \in Seq(Writes) /\ Len(todo) \in Nat \ {0} /\ Len(todo) <= Total(ds)
  BY DEF Left
<1>2. \A r \in 1..Len(todo) : todo[Len(todo) + 1 - r] = Due(ds, code, r)  BY DEF Left
<1> DEFINE v == Tail(todo)
           n == Len(todo)
<1>3. /\ v \in Seq(Writes) /\ Len(v) = n - 1 /\ Head(todo) = todo[1]
      /\ \A k \in 1..(n - 1) : v[k] = todo[k + 1]
  BY <1>1
<1> HIDE DEF v, n
<1>4. n \in Nat \ {0}  BY <1>1 DEF n
<1>5. Head(todo) = Due(ds, code, n)
  <2>1. n \in 1..n /\ n + 1 - n = 1  BY <1>4, SMT
  <2> QED  BY <1>2, <1>3, <2>1 DEF n
<1>6. \A r \in 1..(n - 1) : v[(n - 1) + 1 - r] = Due(ds, code, r)
  <2> SUFFICES ASSUME NEW r \in 1..(n - 1) PROVE v[(n - 1) + 1 - r] = Due(ds, code, r)
    OBVIOUS
  <2>1. n - r \in 1..(n - 1) /\ (n - 1) + 1 - r = n - r /\ (n - r) + 1 = n + 1 - r
        /\ r \in 1..n
    BY <1>4, SMT
  <2>2. v[n - r] = todo[n + 1 - r]  BY <1>3, <2>1
  <2> QED  BY <1>2, <2>1, <2>2 DEF n
<1>7. n - 1 <= Total(ds)
  <2>1. Total(ds) \in Int
    <3>1. N \in Nat  BY BringUpAssumption DEF BringUpAssumption
    <3> QED  BY <3>1, SMT DEF Total
  <2> QED  BY <1>1, <1>4, <2>1, SMT DEF n
<1>8. Left(v, ds, code)  BY <1>3, <1>6, <1>7 DEF Left
<1> QED  BY <1>1, <1>3, <1>5, <1>8 DEF v, n

\* dl_start: the store is full and stays as it is.
LEMMA GoStep ==
  ASSUME NEW c \in Chips, chip[c] \in ChipState, NEW ds \in BOOLEAN, NEW code \in Codes,
         NEW r \in 1..7, NEW t \in AfterWrite(c, Due(ds, code, r))
  PROVE  /\ t \in ChipState
         /\ Loading(chip[c], ds, code, r) => Loading(t, ds, code, r - 1)
<1>0. N \in Nat \ {0}  BY BringUpAssumption DEF BringUpAssumption
<1>1. Due(ds, code, r) = Go[8 - r]  BY SMT DEF Due
<1>2. \A s : Loading(s, ds, code, r) =>
        s.store = code /\ (r <= 5 => s.mtcr # 2)
  BY SMT DEF Loading
<1>3. \A s : s.store = code /\ (r - 1 <= 5 => s.mtcr # 2) => Loading(s, ds, code, r - 1)
  BY <1>0, SMT DEF Loading, ToStore
<1>4. CASE r = 7
  <2>1. Due(ds, code, r) = Air(Jump)  BY <1>1, <1>4 DEF Go
  <2>2. t \in ChipState /\ t.store = chip[c].store
    BY <2>1, AirEffect, LiteralInsns, SMT
  <2> QED  BY <1>2, <1>3, <1>4, <2>2, SMT
<1>5. CASE r = 6
  <2>1. Due(ds, code, r) = Mtcr(1)  BY <1>1, <1>5 DEF Go
  <2>2. t \in ChipState /\ t.store = chip[c].store /\ t.mtcr = 1
    BY <2>1, MtcrEffect, SMT
  <2> QED  BY <1>2, <1>3, <1>5, <2>2, SMT
<1>6. CASE r = 5 \/ r = 4
  <2>1. Due(ds, code, r) = Btcr(3)  BY <1>1, <1>6 DEF Go
  <2>2. t \in ChipState /\ t.mtcr = chip[c].mtcr /\ (chip[c].mtcr # 2 => t.store = chip[c].store)
    <3>1. Stepped(chip[c], t, 3)  BY <2>1, StepEffect, Zenon
    <3> QED  BY <3>1 DEF Stepped
  <2> QED  BY <1>2, <1>3, <1>6, <2>2, SMT
<1>7. CASE r = 3
  <2>1. Due(ds, code, r) = Mtcr(3)  BY <1>1, <1>7 DEF Go
  <2>2. t \in ChipState /\ t.store = chip[c].store /\ t.mtcr = 3
    BY <2>1, MtcrEffect, SMT
  <2> QED  BY <1>2, <1>3, <1>7, <2>2, SMT
<1>8. CASE r = 2
  <2>1. Due(ds, code, r) = Btcr(0)  BY <1>1, <1>8 DEF Go
  <2>2. t \in ChipState /\ t.store = chip[c].store /\ t.mtcr = chip[c].mtcr
    BY <2>1, StartEffect, SMT
  <2> QED  BY <1>2, <1>3, <1>8, <2>2, SMT
<1>9. CASE r = 1
  <2>1. Due(ds, code, r) = RstAll  BY <1>1, <1>9 DEF Go
  <2>2. t \in ChipState /\ t.store = chip[c].store /\ t.mtcr = chip[c].mtcr
    BY <2>1, RstEffect, SMT
  <2> QED  BY <1>2, <1>3, <1>9, <2>2, SMT
<1> QED  BY <1>4, <1>5, <1>6, <1>7, <1>8, <1>9, SMT

\* The store is filled in order, from its start.
LEMMA StoreStep ==
  ASSUME NEW c \in Chips, chip[c] \in ChipState, NEW ds \in BOOLEAN, NEW code \in Codes,
         NEW r \in Nat, r > 7, ToStore(r) >= 0, NEW t \in AfterWrite(c, Due(ds, code, r))
  PROVE  /\ t \in ChipState
         /\ Loading(chip[c], ds, code, r) => Loading(t, ds, code, r - 1)
<1> DEFINE s == chip[c]
           m == ToStore(r)
           h == m \div 2
<1>0. N \in Nat \ {0}  BY BringUpAssumption DEF BringUpAssumption
<1>1. m \in 0..(2 * N - 1) /\ ToStore(r - 1) = m + 1  BY <1>0, SMT DEF ToStore
<1>2. Due(ds, code, r) = IF m % 2 = 0 THEN Air(code[h]) ELSE Btcr(3)  BY SMT DEF Due
<1>3. Loading(s, ds, code, r) =>
        /\ s.mtcr = 2 /\ s.pos = h
        /\ \A i \in 0..(N - 1) : i < h => s.store[i] = code[i]
        /\ m % 2 = 1 => s.air = code[h]
  BY <1>0, <1>1, SMT DEF Loading
<1>4. h \in 0..(N - 1) /\ code[h] \in Insns
  <2>1. h \in 0..(N - 1)  BY <1>0, <1>1, SMT
  <2> QED  BY <2>1 DEF Codes
<1> HIDE DEF m, s
<1>5. CASE m % 2 = 0
  <2>1. (m + 1) \div 2 = h /\ (m + 1) % 2 = 1 /\ m + 1 # 2 * N  BY <1>0, <1>1, <1>5, SMT
  <2> HIDE DEF h
  <2>2. t \in AfterWrite(c, Air(code[h]))  BY <1>2, <1>5
  <2>3. /\ t \in ChipState /\ t.air = code[h]
        /\ t.mtcr = s.mtcr /\ t.pos = s.pos /\ t.store = s.store
    BY <1>4, <2>2, AirEffect DEF s
  <2>4. ASSUME Loading(s, ds, code, r) PROVE Loading(t, ds, code, r - 1)
    <3>1. /\ t.mtcr = 2 /\ t.pos = h /\ t.air = code[h]
          /\ \A i \in 0..(N - 1) : i < h => t.store[i] = code[i]
      BY <1>3, <2>3, <2>4
    <3>2. r - 1 >= 7 /\ m + 1 >= 0 /\ ~(r - 1 <= 5)  BY <1>1, SMT
    <3>3. ~(r - 1 <= 7)  BY <1>0, <1>1, <2>1, SMT DEF ToStore
    <3> QED  BY <1>1, <2>1, <3>1, <3>2, <3>3, SMT DEF Loading
  <2> QED  BY <2>3, <2>4 DEF s
<1>6. CASE m % 2 = 1
  <2>1. (m + 1) \div 2 = h + 1 /\ (m + 1) % 2 = 0 /\ (m + 1 = 2 * N <=> h = N - 1)
    BY <1>0, <1>1, <1>6, SMT
  <2> HIDE DEF h
  <2>2. t \in AfterWrite(c, Btcr(3))  BY <1>2, <1>6
  <2>3. Stepped(s, t, 3)  BY <2>2, StepEffect, Zenon DEF s
  <2>4. ASSUME Loading(s, ds, code, r) PROVE Loading(t, ds, code, r - 1)
    <3>1. s.mtcr = 2 /\ s.pos = h /\ s.air = code[h]  BY <1>3, <1>6, <2>4
    <3>2. /\ t.mtcr = 2 /\ t.pos = IF h = N - 1 THEN 0 ELSE h + 1
          /\ t.store = [s.store EXCEPT ![h] = code[h]]
      BY <2>3, <3>1 DEF Stepped
    <3>3. s.store \in [0..(N - 1) -> Insns]  BY DEF ChipState, s
    <3>4. \A i \in 0..(N - 1) : i < h + 1 => t.store[i] = code[i]
      <4> SUFFICES ASSUME NEW i \in 0..(N - 1), i < h + 1 PROVE t.store[i] = code[i]
        OBVIOUS
      <4>1. i # h => t.store[i] = s.store[i]  BY <3>2, <3>3
      <4>2. i = h => t.store[i] = code[i]  BY <3>2, <3>3
      <4>3. i # h => i < h  BY <1>0, <1>4, SMT
      <4> QED  BY <1>3, <2>4, <4>1, <4>2, <4>3
    <3>5. h = N - 1 => t.store = code
      <4> SUFFICES ASSUME h = N - 1 PROVE t.store = code
        OBVIOUS
      <4>1. \A i \in 0..(N - 1) : t.store[i] = code[i]  BY <1>0, <3>4, SMT
      <4>2. DOMAIN t.store = 0..(N - 1) /\ DOMAIN code = 0..(N - 1)
        BY <3>2, <3>3 DEF Codes
      <4>3. t.store \in [0..(N - 1) -> Insns]  BY <2>3 DEF Stepped, ChipState
      <4> QED  BY <4>1, <4>3 DEF Codes
    <3>6. r - 1 >= 7 /\ m + 1 >= 0 /\ ~(r - 1 <= 5)  BY <1>1, SMT
    <3>7. r - 1 <= 7 => h = N - 1  BY <1>0, <1>1, <2>1, <3>6, SMT DEF ToStore
    <3> QED  BY <1>1, <2>1, <3>2, <3>4, <3>5, <3>6, <3>7, SMT DEF Loading
  <2> QED  BY <2>3, <2>4 DEF s, Stepped
<1> QED  BY <1>1, <1>5, <1>6, SMT

\* dl_setup, either form: it leaves write mode on, at the start of the store.
LEMMA SetupStep ==
  ASSUME NEW c \in Chips, chip[c] \in ChipState, NEW ds \in BOOLEAN, NEW code \in Codes,
         NEW r \in Nat, r <= Total(ds), ToStore(r) < 0,
         NEW t \in AfterWrite(c, Due(ds, code, r))
  PROVE  /\ t \in ChipState
         /\ Loading(chip[c], ds, code, r) => Loading(t, ds, code, r - 1)
<1> DEFINE s == chip[c]
           m == ToStore(r)
<1>0. N \in Nat \ {0}  BY BringUpAssumption DEF BringUpAssumption
<1>1. /\ m \in Int /\ m < 0 /\ ToStore(r - 1) = m + 1 /\ r > 9 /\ m >= IF ds THEN -6 ELSE -4
  BY <1>0, SMT DEF ToStore, Total
<1>2. Due(ds, code, r) = Setup(ds)[m + IF ds THEN 7 ELSE 5]  BY <1>1, SMT DEF Due
<1>3. Loading(s, ds, code, r) =>
        /\ m = -1 => s.pos = 0
        /\ m = -2 => s.mtcr = 1 /\ s.air = Jump
        /\ m = -3 => s.air = Jump /\ (ds => s.mtcr = 1)
        /\ m = -4 => (ds => s.air = Jump)
  BY DEF Loading
<1>4. ASSUME m = -1 => t.mtcr = 2 /\ t.pos = 0,
             m = -2 => t.pos = 0,
             m = -3 => t.mtcr = 1 /\ t.air = Jump,
             m = -4 => t.air = Jump /\ (ds => t.mtcr = 1),
             m = -5 => (ds => t.air = Jump)
      PROVE  Loading(t, ds, code, r - 1)
  <2>1. ~(r - 1 <= 7) /\ ~(r - 1 <= 5)  BY <1>1, SMT
  <2>2. m = -1 => 2 * N # m + 1  BY <1>0, <1>1, SMT
  <2>3. m + 1 >= 0 => m = -1  BY <1>1, SMT
  <2> HIDE DEF m
  <2> QED  BY <1>0, <1>1, <1>4, <2>1, <2>2, <2>3, SMT DEF Loading
<1> HIDE DEF m, s
<1>5. CASE ~ds
  <2>1. ds = FALSE /\ m \in {-1, -2, -3, -4}
    <3>1. m \in {-1, -2, -3, -4}  BY <1>1, <1>5, SMT
    <3> QED  BY <1>5, <3>1, Zenon
  <2>2. Due(ds, code, r) = Setup(FALSE)[m + 5]  BY <1>2, <2>1, Zenon
  <2>3. CASE m = -1
    <3>1. Due(ds, code, r) = Mtcr(2)  BY <2>2, <2>3 DEF Setup
    <3>2. t \in ChipState /\ t.mtcr = 2 /\ t.pos = s.pos  BY <3>1, MtcrEffect, SMT DEF s
    <3> QED  BY <1>3, <1>4, <2>3, <3>2, SMT DEF s
  <2>4. CASE m = -2
    <3>1. Due(ds, code, r) = Btcr(1)  BY <2>2, <2>4 DEF Setup
    <3>2. Stepped(s, t, 1)  BY <3>1, StepEffect, Zenon DEF s
    <3> QED  BY <1>3, <1>4, <2>4, <3>2, SMT DEF s, Stepped
  <2>5. CASE m = -3
    <3>1. Due(ds, code, r) = Mtcr(1)  BY <2>2, <2>5 DEF Setup
    <3>2. t \in ChipState /\ t.mtcr = 1 /\ t.air = s.air  BY <3>1, MtcrEffect, SMT DEF s
    <3> QED  BY <1>3, <1>4, <2>5, <3>2, SMT DEF s
  <2>6. CASE m = -4
    <3>1. Due(ds, code, r) = Air(Jump)  BY <2>2, <2>6 DEF Setup
    <3>2. t \in ChipState /\ t.air = Jump  BY <3>1, AirEffect, LiteralInsns, SMT DEF s
    <3> QED  BY <1>3, <1>4, <1>5, <2>6, <3>2, SMT DEF s
  <2> QED  BY <2>1, <2>3, <2>4, <2>5, <2>6
<1>6. CASE ds
  <2>1. ds = TRUE /\ m \in {-1, -2, -3, -4, -5, -6}
    <3>1. m \in {-1, -2, -3, -4, -5, -6}  BY <1>1, <1>6, SMT
    <3> QED  BY <1>6, <3>1, Zenon
  <2>2. Due(ds, code, r) = Setup(TRUE)[m + 7]  BY <1>2, <2>1, Zenon
  <2>3. CASE m = -1
    <3>1. Due(ds, code, r) = Mtcr(2)  BY <2>2, <2>3 DEF Setup
    <3>2. t \in ChipState /\ t.mtcr = 2 /\ t.pos = s.pos  BY <3>1, MtcrEffect, SMT DEF s
    <3> QED  BY <1>3, <1>4, <2>3, <3>2, SMT DEF s
  <2>4. CASE m = -2 \/ m = -3
    <3>1. Due(ds, code, r) = Btcr(3)  BY <2>2, <2>4 DEF Setup
    <3>2. Stepped(s, t, 3)  BY <3>1, StepEffect, Zenon DEF s
    <3>3. ASSUME Loading(s, ds, code, r) PROVE t.pos = 0 /\ t.mtcr = 1 /\ t.air = Jump
      <4>1. s.mtcr = 1 /\ s.air = Jump  BY <1>3, <1>6, <2>4, <3>3
      <4> QED  BY <3>2, <4>1 DEF Stepped
    <3>4. ASSUME Loading(s, ds, code, r) PROVE Loading(t, ds, code, r - 1)
      BY <1>4, <2>4, <3>3, <3>4, SMT
    <3> QED  BY <3>2, <3>4 DEF s, Stepped
  <2>5. CASE m = -4
    <3>1. Due(ds, code, r) = Mtcr(1)  BY <2>2, <2>5 DEF Setup
    <3>2. t \in ChipState /\ t.mtcr = 1 /\ t.air = s.air  BY <3>1, MtcrEffect, SMT DEF s
    <3>3. ASSUME Loading(s, ds, code, r) PROVE t.mtcr = 1 /\ t.air = Jump
      BY <1>3, <1>6, <2>5, <3>2, <3>3
    <3>4. ASSUME Loading(s, ds, code, r) PROVE Loading(t, ds, code, r - 1)
      BY <1>4, <2>5, <3>3, <3>4, SMT
    <3> QED  BY <3>2, <3>4 DEF s
  <2>6. CASE m = -5
    <3>1. Due(ds, code, r) = Air(Jump)  BY <2>2, <2>6 DEF Setup
    <3>2. t \in ChipState /\ t.air = Jump  BY <3>1, AirEffect, LiteralInsns, SMT DEF s
    <3> QED  BY <1>4, <2>6, <3>2, SMT DEF s
  <2>7. CASE m = -6
    <3>1. Due(ds, code, r) = Btcr(1)  BY <2>2, <2>7 DEF Setup
    <3>2. Stepped(s, t, 1)  BY <3>1, StepEffect, Zenon DEF s
    <3> QED  BY <1>4, <2>7, <3>2, SMT DEF s, Stepped
  <2> QED  BY <2>1, <2>3, <2>4, <2>5, <2>6, <2>7
<1> QED  BY <1>5, <1>6

\* Any write of a download.
LEMMA WriteStep ==
  ASSUME NEW c \in Chips, chip[c] \in ChipState, NEW ds \in BOOLEAN, NEW code \in Codes,
         NEW todo, Left(todo, ds, code), todo # <<>>, NEW t \in AfterWrite(c, Head(todo))
  PROVE  /\ t \in ChipState /\ Left(Tail(todo), ds, code)
         /\ Loading(chip[c], ds, code, Len(todo)) =>
              Loading(t, ds, code, Len(Tail(todo)))
<1> DEFINE r == Len(todo)
<1>1. /\ r \in Nat \ {0} /\ r <= Total(ds) /\ Head(todo) = Due(ds, code, r)
      /\ Left(Tail(todo), ds, code) /\ Len(Tail(todo)) = r - 1
  BY LeftNext
<1> HIDE DEF r
<1>2. t \in AfterWrite(c, Due(ds, code, r))  BY <1>1
<1>3. ToStore(r) \in Int
  <2>1. N \in Nat  BY BringUpAssumption DEF BringUpAssumption
  <2> QED  BY <1>1, <2>1, SMT DEF ToStore
<1>4. t \in ChipState /\ (Loading(chip[c], ds, code, r) => Loading(t, ds, code, r - 1))
  <2>1. CASE r <= 7
    <3>1. r \in 1..7  BY <1>1, <2>1, SMT
    <3> QED  BY <1>2, <3>1, GoStep
  <2>2. CASE r > 7 /\ ToStore(r) >= 0
    BY <1>1, <1>2, <2>2, StoreStep
  <2>3. CASE ToStore(r) < 0
    BY <1>1, <1>2, <2>3, SetupStep
  <2> QED  BY <1>1, <1>3, <2>1, <2>2, <2>3, SMT
<1> QED  BY <1>1, <1>4 DEF r

-----------------------------------------------------------------------------
(* The whole system.                                                        *)

\* At its end a download nobody disturbed has filled the store; a new one
\* assumes nothing of the chip.
LEMMA LoadedAtEnd ==
  ASSUME NEW s, NEW ds, NEW code, Loading(s, ds, code, Len(<<>>))
  PROVE  s.store = code
BY SMT DEF Loading

LEMMA FreshDownload ==
  ASSUME NEW ds \in BOOLEAN, NEW code \in Codes, NEW s
  PROVE  /\ Left(Download(ds, code), ds, code)
         /\ Loading(s, ds, code, Len(Download(ds, code)))
<1>0. N \in Nat \ {0}  BY BringUpAssumption DEF BringUpAssumption
<1>1. Left(Download(ds, code), ds, code) /\ Len(Download(ds, code)) = Total(ds)
  BY DownloadLeft
<1>2. CASE ds
  <2>1. Total(ds) = 2 * N + 13  BY <1>2 DEF Total
  <2>2. Loading(s, ds, code, 2 * N + 13)  BY <1>0, SMT DEF Loading, ToStore
  <2> QED  BY <1>1, <2>1, <2>2
<1>3. CASE ~ds
  <2>1. Total(ds) = 2 * N + 11  BY <1>3 DEF Total
  <2>2. Loading(s, ds, code, 2 * N + 11)  BY <1>0, <1>3, SMT DEF Loading, ToStore
  <2> QED  BY <1>1, <2>1, <2>2
<1> QED  BY <1>2, <1>3

LEMMA RunTypes ==
  /\ \A r \in Runs : /\ r.file \in Seq(Byte) /\ r.ds \in BOOLEAN /\ r.at \in Chips
                     /\ r.file \in Files
  /\ Files \subseteq Seq(Byte) /\ Blob \in Seq(Byte)
  /\ NChips \in Nat \ {0} /\ 0 \in Chips
BY BringUpAssumption DEF BringUpAssumption, Files, Chips

Drivers == [job : {"none", "probe", "selftest"}, at : 0..NChips,
            todo : Seq(Writes), alone : BOOLEAN]
Tools   == [file : Files \cup {<<>>}, ds : BOOLEAN, on : BOOLEAN, at : Chips,
            todo : Seq(Writes), alone : BOOLEAN, calls : 0..MaxTool]

\* The parts of Inv, of an actor each.
DriverOK == /\ driver \in Drivers /\ (driver.todo # <<>> => driver.at \in Chips)
            /\ DriverLeft /\ DriverLoads
ToolOK   == tool \in Tools /\ ToolLeft /\ ToolLoads
TrustOK  == trust \in [Chips -> Files \cup {Blob, <<>>}] /\ Trusted
LifeOK   == /\ life \in {"absent", "probing", "bound", "removed"}
            /\ dev \in {"null", "live", "freed"} /\ wild \in BOOLEAN
ChipsOK  == chip \in [Chips -> ChipState]

LEMMA InvParts == Inv <=> ChipsOK /\ LifeOK /\ DriverOK /\ ToolOK /\ TrustOK
BY DEF Inv, TypeOK, ChipsOK, LifeOK, DriverOK, ToolOK, TrustOK, Drivers, Tools, ChipState

LEMMA InvNext == ChipsOK' /\ LifeOK' /\ DriverOK' /\ ToolOK' /\ TrustOK' => Inv'
BY DEF Inv, TypeOK, ChipsOK, LifeOK, DriverOK, ToolOK, TrustOK, Drivers, Tools, ChipState

\* An actor's part depends on its own record and on the chip it writes to.
LEMMA DriverFrame ==
  ASSUME DriverOK, driver' = driver, driver.at \in Chips => chip'[driver.at] = chip[driver.at]
  PROVE  DriverOK'
<1>1. Working <=> Working'  BY DEF Working
<1>2. Working => driver.at \in Chips
  BY RunTypes, SMT DEF Working, DriverOK, Drivers, Chips
<1> QED  BY <1>1, <1>2 DEF DriverOK, DriverLeft, DriverLoads

LEMMA ToolFrame ==
  ASSUME ToolOK, tool' = tool, chip'[tool.at] = chip[tool.at]
  PROVE  ToolOK'
BY DEF ToolOK, ToolLeft, ToolLoads

LEMMA TrustFrame ==
  ASSUME TrustOK, trust' = trust, chip' = chip
  PROVE  TrustOK'
BY DEF TrustOK, Trusted

LEMMA InitInv == Init => Inv
<1> SUFFICES ASSUME Init PROVE Inv
  OBVIOUS
<1>0. N \in Nat \ {0} /\ MaxTool \in Nat  BY BringUpAssumption DEF BringUpAssumption
<1>1. ChipsOK
  <2>1. 0 \in Insns /\ 0 \in 0..3 /\ 0 \in 0..(N - 1)  BY <1>0, LiteralInsns, SMT
  <2>2. Reset \in ChipState  BY <2>1 DEF Reset, ChipState
  <2> QED  BY <2>2 DEF Init, ChipsOK
<1>2. LifeOK  BY DEF Init, LifeOK
<1>3. DriverOK
  <2>1. 0 \in 0..NChips  BY RunTypes, SMT
  <2>2. ~Working /\ driver.todo = <<>>  BY DEF Init, Quiet, Working
  <2>3. driver \in Drivers  BY <2>1 DEF Init, Quiet, Drivers
  <2> QED  BY <2>2, <2>3 DEF DriverOK, DriverLeft, DriverLoads
<1>4. ToolOK
  <2>1. 0 \in 0..MaxTool  BY <1>0, SMT
  <2>2. ~tool.on /\ tool.todo = <<>>  BY DEF Init, NoTool
  <2>3. tool \in Tools  BY <2>1, RunTypes DEF Init, NoTool, Tools
  <2> QED  BY <2>2, <2>3 DEF ToolOK, ToolLeft, ToolLoads
<1>5. TrustOK  BY DEF Init, TrustOK, Trusted
<1> QED  BY <1>1, <1>2, <1>3, <1>4, <1>5, InvParts

\* A download of the driver begins, on a chip.
LEMMA DriverBegins ==
  ASSUME NEW j \in {"probe", "selftest"}, NEW a \in Chips,
         driver' = [job |-> j, at |-> a, todo |-> Download(FALSE, DriverCode),
                    alone |-> TRUE]
  PROVE  DriverOK'
<1>1. /\ Left(Download(FALSE, DriverCode), FALSE, DriverCode)
      /\ Loading(chip'[a], FALSE, DriverCode, Len(Download(FALSE, DriverCode)))
  BY CodeType, FreshDownload, Zenon
<1>2. a \in 0..NChips /\ a < NChips  BY RunTypes, SMT DEF Chips
<1>3. /\ driver'.job = j /\ driver'.at = a /\ driver'.alone = TRUE
      /\ driver'.todo = Download(FALSE, DriverCode)
  OBVIOUS
<1>4. Working'  BY <1>2, <1>3 DEF Working
<1>5. Download(FALSE, DriverCode) \in Seq(Writes)  BY <1>1 DEF Left
<1>6. driver' \in Drivers  BY <1>2, <1>5 DEF Drivers
<1> QED  BY <1>1, <1>3, <1>4, <1>6 DEF DriverOK, DriverLeft, DriverLoads

\* A driver that has no chip to work on.
LEMMA DriverRests ==
  ASSUME driver' \in Drivers, driver'.todo = <<>>, ~Working'
  PROVE  DriverOK'
BY DEF DriverOK, DriverLeft, DriverLoads

LEMMA QuietRests ==
  ASSUME driver' = Quiet
  PROVE  DriverOK'
<1>1. 0 \in 0..NChips  BY RunTypes, SMT
<1>2. driver' \in Drivers /\ driver'.todo = <<>> /\ driver'.job = "none"
  BY <1>1 DEF Quiet, Drivers
<1> QED  BY <1>2, DriverRests DEF Working

\* One register write of nm32a_download: it may end the tool's being alone, and
\* what was reported of the chip before is void.
LEMMA DriverWriteInv == Inv /\ DriverWrite => Inv'
<1> SUFFICES ASSUME Inv, DriverWrite PROVE Inv'
  OBVIOUS
<1>0. ChipsOK /\ LifeOK /\ DriverOK /\ ToolOK /\ TrustOK  BY InvParts
<1> DEFINE c == driver.at
<1>1. /\ c \in Chips /\ Working /\ driver.todo # <<>> /\ driver \in Drivers
      /\ Left(driver.todo, FALSE, DriverCode)
  BY <1>0 DEF DriverWrite, DriverOK, DriverLeft
<1>2. PICK s \in AfterWrite(c, Head(driver.todo)) : chip' = [chip EXCEPT ![c] = s]
  BY DEF DriverWrite
<1>3. chip[c] \in ChipState  BY <1>0, <1>1 DEF ChipsOK
<1>4. /\ s \in ChipState /\ Left(Tail(driver.todo), FALSE, DriverCode)
      /\ Loading(chip[c], FALSE, DriverCode, Len(driver.todo)) =>
           Loading(s, FALSE, DriverCode, Len(Tail(driver.todo)))
  BY <1>1, <1>3, CodeType, WriteStep, Zenon
<1> HIDE DEF c
<1>5. chip'[c] = s /\ \A d \in Chips : d # c => chip'[d] = chip[d]
  BY <1>0, <1>1, <1>2 DEF ChipsOK
<1>6. ChipsOK'  BY <1>0, <1>1, <1>2, <1>4 DEF ChipsOK
<1>7. LifeOK'  BY <1>0 DEF DriverWrite, LifeOK, Sane
<1>8. DriverOK'
  <2>1. /\ driver' \in Drivers /\ driver'.todo = Tail(driver.todo)
        /\ driver'.job = driver.job /\ driver'.at = c /\ driver'.alone = driver.alone
    <3>1. Tail(driver.todo) \in Seq(Writes)  BY <1>4 DEF Left
    <3> QED  BY <1>1, <3>1 DEF DriverWrite, Drivers, c
  <2>2. Working'  BY <1>1, <2>1 DEF Working, c
  <2>3. driver.alone => Loading(chip[c], FALSE, DriverCode, Len(driver.todo))
    BY <1>0, <1>1 DEF DriverOK, DriverLoads, c
  <2> QED  BY <1>1, <1>4, <1>5, <2>1, <2>2, <2>3 DEF DriverOK, DriverLeft, DriverLoads
<1>9. ToolOK'
  <2>1. tool \in Tools /\ ToolLeft /\ ToolLoads  BY <1>0 DEF ToolOK
  <2>2. /\ tool' \in Tools /\ tool'.todo = tool.todo /\ tool'.at = tool.at
        /\ tool'.file = tool.file /\ tool'.ds = tool.ds /\ tool'.on = tool.on
        /\ tool'.alone = (tool.alone /\ tool.at # c)
    <3>1. (tool.alone /\ tool.at # c) \in BOOLEAN  OBVIOUS
    <3> QED  BY <2>1, <3>1 DEF DriverWrite, Tools, c
  <2>3. tool.at # c => chip'[tool.at] = chip[tool.at]  BY <1>5, <2>1 DEF Tools
  <2>4. ToolLeft'  BY <2>1, <2>2 DEF ToolLeft
  <2>5. ToolLoads'  BY <2>1, <2>2, <2>3 DEF ToolLoads
  <2> QED  BY <2>2, <2>4, <2>5 DEF ToolOK
<1>10. TrustOK'  BY <1>0, <1>1, <1>5 DEF DriverWrite, TrustOK, Trusted, c
<1> QED  BY <1>6, <1>7, <1>8, <1>9, <1>10, InvNext

LEMMA DriverReportInv == Inv /\ DriverReport => Inv'
<1> SUFFICES ASSUME Inv, DriverReport PROVE Inv'
  OBVIOUS
<1>0. ChipsOK /\ LifeOK /\ DriverOK /\ ToolOK /\ TrustOK  BY InvParts
<1> DEFINE c == driver.at
<1>1. /\ Working /\ driver.todo = <<>> /\ driver \in Drivers /\ chip' = chip /\ tool' = tool
      /\ driver' = NextChip(driver) /\ c \in Chips /\ driver.job \in {"probe", "selftest"}
  BY <1>0, RunTypes, SMT DEF DriverReport, DriverOK, Drivers, Working, Chips
<1>2. ChipsOK' /\ LifeOK' /\ ToolOK'
  BY <1>0, <1>1, ToolFrame DEF DriverReport, ChipsOK, LifeOK, Sane
<1>3. DriverOK'
  <2>1. CASE driver.at + 1 < NChips
    <3>1. driver.at + 1 \in Chips  BY <1>1, <2>1, RunTypes, SMT DEF Chips
    <3>2. driver' = [job |-> driver.job, at |-> driver.at + 1,
                     todo |-> Download(FALSE, DriverCode), alone |-> TRUE]
      BY <1>1, <2>1 DEF NextChip, Drivers
    <3> QED  BY <1>1, <3>1, <3>2, DriverBegins
  <2>2. CASE ~(driver.at + 1 < NChips)
    <3>1. driver.at + 1 \in 0..NChips /\ driver.at + 1 = NChips
      BY <1>1, <2>2, RunTypes, SMT DEF Chips
    <3>2. driver' = [job |-> driver.job, at |-> driver.at + 1, todo |-> <<>>, alone |-> TRUE]
      BY <1>1, <2>2 DEF NextChip, Drivers
    <3>3. driver' \in Drivers /\ driver'.todo = <<>> /\ driver'.at = NChips
      BY <1>1, <3>1, <3>2 DEF Drivers
    <3>4. ~Working'  BY <3>3, RunTypes, SMT DEF Working
    <3> QED  BY <3>3, <3>4, DriverRests
  <2> QED  BY <2>1, <2>2
<1>4. TrustOK'
  <2>1. CASE ~chip[c].ccr /\ driver.alone
    <3>1. chip[c].store = ToolCode(Blob)
      <4>1. Loading(chip[c], FALSE, DriverCode, Len(<<>>))
        BY <1>0, <1>1, <2>1 DEF DriverOK, DriverLoads
      <4> QED  BY <4>1, LoadedAtEnd, CodeType, Zenon
    <3>2. trust' = [trust EXCEPT ![c] = Blob]  BY <2>1 DEF DriverReport
    <3> QED  BY <1>0, <1>1, <3>1, <3>2 DEF TrustOK, Trusted
  <2>2. CASE ~(~chip[c].ccr /\ driver.alone)
    BY <1>0, <1>1, <2>2, TrustFrame DEF DriverReport
  <2> QED  BY <2>1, <2>2
<1> QED  BY <1>2, <1>3, <1>4, InvNext

\* The steps of the driver that write to no chip.
LEMMA DriverRestInv ==
  ASSUME Inv,
         Probe \/ Selftest \/ ParamOnFreed \/ DriverGone \/ ProbeEnd \/ SelftestEnd \/ Remove
  PROVE  Inv'
<1>0. ChipsOK /\ LifeOK /\ DriverOK /\ ToolOK /\ TrustOK  BY InvParts
<1>1. chip' = chip /\ tool' = tool /\ trust' = trust
  BY DEF Probe, Selftest, ParamOnFreed, DriverGone, ProbeEnd, SelftestEnd, Remove
<1>2. ChipsOK' /\ ToolOK' /\ TrustOK'  BY <1>0, <1>1, ToolFrame, TrustFrame DEF ChipsOK
<1>3. LifeOK'
  BY <1>0 DEF LifeOK, Sane, Probe, Selftest, ParamOnFreed, DriverGone, ProbeEnd, SelftestEnd,
              Remove
<1>4. DriverOK'
  <2>1. CASE Probe
    <3>1. driver' = [job |-> "probe", at |-> 0, todo |-> Download(FALSE, DriverCode),
                     alone |-> TRUE]
      BY <2>1 DEF Probe
    <3> QED  BY <3>1, RunTypes, DriverBegins, Zenon
  <2>2. CASE Selftest
    <3>1. driver' = [job |-> "selftest", at |-> 0, todo |-> Download(FALSE, DriverCode),
                     alone |-> TRUE]
      BY <2>2 DEF Selftest
    <3> QED  BY <3>1, RunTypes, DriverBegins, Zenon
  <2>3. CASE ParamOnFreed \/ DriverGone \/ Remove
    BY <1>0, <1>1, <2>3, DriverFrame DEF ParamOnFreed, DriverGone, Remove
  <2>4. CASE ProbeEnd \/ SelftestEnd
    BY <2>4, QuietRests DEF ProbeEnd, SelftestEnd
  <2> QED  BY <2>1, <2>2, <2>3, <2>4
<1> QED  BY <1>2, <1>3, <1>4, InvNext

LEMMA ToolStartInv == ASSUME Inv, NEW r \in Runs, ToolStart(r) PROVE Inv'
<1>0. ChipsOK /\ LifeOK /\ DriverOK /\ ToolOK /\ TrustOK  BY InvParts
<1>1. chip' = chip /\ driver' = driver /\ trust' = trust  BY DEF ToolStart
<1>2. ChipsOK' /\ LifeOK' /\ DriverOK' /\ TrustOK'
  BY <1>0, <1>1, DriverFrame, TrustFrame DEF ChipsOK, LifeOK, ToolStart, Sane
<1> DEFINE code == ToolCode(r.file)
           D == Download(r.ds, code)
<1>3. code \in Codes /\ r.ds \in BOOLEAN  BY RunTypes, CodeType
<1>4. Left(D, r.ds, code) /\ Loading(chip'[r.at], r.ds, code, Len(D))
  BY <1>3, FreshDownload, Zenon
<1>5. tool.calls + 1 \in 0..MaxTool
  <2>1. tool.calls \in 0..MaxTool /\ tool.calls < MaxTool  BY <1>0 DEF ToolOK, Tools, ToolStart
  <2> QED  BY <2>1, BringUpAssumption, SMT DEF BringUpAssumption
<1>6. D \in Seq(Writes)  BY <1>4 DEF Left
<1> HIDE DEF D
<1>7. /\ tool' \in Tools /\ tool'.on = TRUE /\ tool'.todo = D /\ tool'.at = r.at
      /\ tool'.ds = r.ds /\ tool'.file = r.file
  BY <1>5, <1>6, RunTypes DEF ToolStart, Tools, D
<1>8. ToolOK'  BY <1>4, <1>7 DEF ToolOK, ToolLeft, ToolLoads
<1> QED  BY <1>2, <1>8, InvNext

LEMMA ToolWriteInv == Inv /\ ToolWrite => Inv'
<1> SUFFICES ASSUME Inv, ToolWrite PROVE Inv'
  OBVIOUS
<1>0. ChipsOK /\ LifeOK /\ DriverOK /\ ToolOK /\ TrustOK  BY InvParts
<1> DEFINE c == tool.at
           code == ToolCode(tool.file)
<1>1. /\ c \in Chips /\ tool.on /\ tool.todo # <<>> /\ tool \in Tools
      /\ Left(tool.todo, tool.ds, code)
  BY <1>0 DEF ToolWrite, ToolOK, ToolLeft, Tools
<1>2. PICK s \in AfterWrite(c, Head(tool.todo)) : chip' = [chip EXCEPT ![c] = s]
  BY DEF ToolWrite
<1>3. chip[c] \in ChipState /\ code \in Codes /\ tool.ds \in BOOLEAN
  <2>0. tool.file \in Files \cup {<<>>}  BY <1>1 DEF Tools
  <2>a. <<>> \in Seq(Byte)  OBVIOUS
  <2>1. tool.file \in Seq(Byte)  BY <2>0, <2>a, RunTypes, Zenon
  <2> QED  BY <1>0, <1>1, <2>1, CodeType DEF ChipsOK, Tools
<1>4. /\ s \in ChipState /\ Left(Tail(tool.todo), tool.ds, code)
      /\ Loading(chip[c], tool.ds, code, Len(tool.todo)) =>
           Loading(s, tool.ds, code, Len(Tail(tool.todo)))
  BY <1>1, <1>3, WriteStep, Zenon
<1> HIDE DEF c, code
<1>5. chip'[c] = s /\ \A d \in Chips : d # c => chip'[d] = chip[d]
  BY <1>0, <1>1, <1>2 DEF ChipsOK
<1>6. ChipsOK'  BY <1>0, <1>1, <1>2, <1>4 DEF ChipsOK
<1>7. LifeOK'  BY <1>0 DEF ToolWrite, LifeOK, Sane
<1>8. ToolOK'
  <2>1. /\ tool' \in Tools /\ tool'.todo = Tail(tool.todo) /\ tool'.at = c
        /\ tool'.file = tool.file /\ tool'.ds = tool.ds /\ tool'.on /\ tool'.alone = tool.alone
    <3>1. Tail(tool.todo) \in Seq(Writes)  BY <1>4 DEF Left
    <3> QED  BY <1>1, <3>1 DEF ToolWrite, Tools, c
  <2>2. tool.alone => Loading(chip[c], tool.ds, code, Len(tool.todo))
    BY <1>0, <1>1 DEF ToolOK, ToolLoads, c, code
  <2> QED  BY <1>4, <1>5, <2>1, <2>2 DEF ToolOK, ToolLeft, ToolLoads, code
<1>9. DriverOK'
  <2>1. driver \in Drivers /\ DriverLeft /\ DriverLoads
        /\ (driver.todo # <<>> => driver.at \in Chips)
    BY <1>0 DEF DriverOK
  <2>2. /\ driver' \in Drivers /\ driver'.todo = driver.todo /\ driver'.at = driver.at
        /\ driver'.job = driver.job /\ driver'.alone = (driver.alone /\ c # driver.at)
    <3>1. (driver.alone /\ c # driver.at) \in BOOLEAN  OBVIOUS
    <3> QED  BY <2>1, <3>1 DEF ToolWrite, Drivers, c
  <2>3. Working <=> Working'  BY <2>2 DEF Working
  <2>4. Working => driver.at \in Chips
    BY <2>1, RunTypes, SMT DEF Working, Drivers, Chips
  <2>5. DriverLeft'  BY <2>1, <2>2, <2>3 DEF DriverLeft
  <2>6. DriverLoads'
    <3> SUFFICES ASSUME Working', driver'.alone
                 PROVE  Loading(chip'[driver'.at], FALSE, DriverCode, Len(driver'.todo))
      BY DEF DriverLoads
    <3>1. Working /\ driver.alone /\ c # driver.at  BY <2>2, <2>3
    <3>2. chip'[driver.at] = chip[driver.at]  BY <1>5, <2>4, <3>1
    <3>3. Loading(chip[driver.at], FALSE, DriverCode, Len(driver.todo))
      BY <2>1, <3>1 DEF DriverLoads
    <3> QED  BY <2>2, <3>2, <3>3
  <2> QED  BY <2>1, <2>2, <2>5, <2>6 DEF DriverOK
<1>10. TrustOK'  BY <1>0, <1>1, <1>5 DEF ToolWrite, TrustOK, Trusted, c
<1> QED  BY <1>6, <1>7, <1>8, <1>9, <1>10, InvNext

\* The tool ends, with its report or killed.
LEMMA ToolEndInv == Inv /\ (ToolReport \/ ToolKilled) => Inv'
<1> SUFFICES ASSUME Inv, ToolReport \/ ToolKilled PROVE Inv'
  OBVIOUS
<1>0. ChipsOK /\ LifeOK /\ DriverOK /\ ToolOK /\ TrustOK  BY InvParts
<1>1. /\ chip' = chip /\ driver' = driver /\ tool' = [NoTool EXCEPT !.calls = tool.calls]
      /\ tool.on /\ tool \in Tools
  BY <1>0 DEF ToolReport, ToolKilled, ToolOK
<1>2. ChipsOK' /\ LifeOK' /\ DriverOK'
  BY <1>0, <1>1, DriverFrame DEF ChipsOK, LifeOK, ToolReport, ToolKilled, Sane
<1>3. ToolOK'
  <2>1. tool' \in Tools /\ tool'.on = FALSE /\ tool'.todo = <<>>
    <3>1. tool.calls \in 0..MaxTool  BY <1>1 DEF Tools
    <3>2. tool' = [file |-> <<>>, ds |-> FALSE, on |-> FALSE, at |-> 0, todo |-> <<>>,
                   alone |-> TRUE, calls |-> tool.calls]
      BY <1>1 DEF NoTool
    <3>3. <<>> \in Seq(Writes)  OBVIOUS
    <3> QED  BY <3>1, <3>2, <3>3, RunTypes DEF Tools
  <2> QED  BY <2>1 DEF ToolOK, ToolLeft, ToolLoads
<1>4. TrustOK'
  <2>1. CASE ToolReport /\ ~chip[tool.at].ccr /\ tool.alone
    <3>1. chip[tool.at].store = ToolCode(tool.file)
      <4>1. Loading(chip[tool.at], tool.ds, ToolCode(tool.file), Len(<<>>))
        BY <1>0, <1>1, <2>1 DEF ToolOK, ToolLoads, ToolReport
      <4> QED  BY <4>1, LoadedAtEnd, Zenon
    <3>2. trust' = [trust EXCEPT ![tool.at] = tool.file]  BY <2>1 DEF ToolReport
    <3>3. tool.file \in Files \cup {<<>>} /\ tool.at \in Chips  BY <1>1 DEF Tools
    <3> QED  BY <1>0, <1>1, <3>1, <3>2, <3>3 DEF TrustOK, Trusted
  <2>2. CASE ~(ToolReport /\ ~chip[tool.at].ccr /\ tool.alone)
    BY <1>0, <1>1, <2>2, TrustFrame DEF ToolReport, ToolKilled
  <2> QED  BY <2>1, <2>2
<1> QED  BY <1>2, <1>3, <1>4, InvNext

LEMMA StutterInv == Inv /\ UNCHANGED vars => Inv'
<1> SUFFICES ASSUME Inv, UNCHANGED vars PROVE Inv'
  OBVIOUS
<1>0. ChipsOK /\ LifeOK /\ DriverOK /\ ToolOK /\ TrustOK  BY InvParts
<1>1. /\ chip' = chip /\ life' = life /\ dev' = dev /\ wild' = wild
      /\ driver' = driver /\ tool' = tool /\ trust' = trust
  BY DEF vars
<1>2. ChipsOK' /\ LifeOK'  BY <1>0, <1>1 DEF ChipsOK, LifeOK
<1>3. DriverOK' /\ ToolOK' /\ TrustOK'
  BY <1>0, <1>1, DriverFrame, ToolFrame, TrustFrame
<1> QED  BY <1>2, <1>3, InvNext

LEMMA Invariance == Spec => []Inv
<1>1. Inv /\ [Next]_vars => Inv'
  <2> SUFFICES ASSUME Inv, [Next]_vars PROVE Inv'
    OBVIOUS
  <2>1. CASE \/ Probe \/ Selftest \/ ParamOnFreed \/ DriverGone
             \/ ProbeEnd \/ SelftestEnd \/ Remove
    BY <2>1, DriverRestInv
  <2>2. CASE DriverWrite  BY <2>2, DriverWriteInv
  <2>3. CASE DriverReport  BY <2>3, DriverReportInv
  <2>4. CASE \E r \in Runs : ToolStart(r)  BY <2>4, ToolStartInv
  <2>5. CASE ToolWrite  BY <2>5, ToolWriteInv
  <2>6. CASE ToolReport \/ ToolKilled  BY <2>6, ToolEndInv
  <2>7. CASE UNCHANGED vars  BY <2>7, StutterInv
  <2> QED  BY <2>1, <2>2, <2>3, <2>4, <2>5, <2>6, <2>7 DEF Next
<1> QED  BY <1>1, InitInv, PTL DEF Spec

\* The state of the chips, of the card's life cycle, of the driver's download and
\* of the tool's is always well formed; in particular the loader's position
\* stays within the store and the driver does not go past the last chip.
THEOREM TypeCorrect == Spec => []TypeOK
<1>1. Inv => TypeOK  BY DEF Inv
<1> QED  BY <1>1, Invariance, PTL

\* A download that was reported good and that nobody else wrote into while it
\* ran has left in the store every bit of the microcode at its place, and it
\* stays there until somebody writes to the chip: for every store size, every
\* microcode, every file given to the tool and whatever the driver and the tool
\* did to the chip before it.  Two downloads that overlap are not covered.
THEOREM LoadedProved == Spec => []LoadedExact
<1>1. Inv => LoadedExact
  <2> SUFFICES ASSUME Inv, NEW c \in Chips, trust[c] # <<>>
               PROVE  Holds(chip[c].store, trust[c])
    BY DEF LoadedExact
  <2> DEFINE b == trust[c]
  <2>1. chip[c].store = ToolCode(b)  BY InvParts DEF TrustOK, Trusted
  <2>2. b \in Seq(Byte)
    <3>1. b \in Files \cup {Blob, <<>>}  BY InvParts DEF TrustOK
    <3> QED  BY <3>1, RunTypes, Zenon
  <2> HIDE DEF b
  <2>3. ASSUME NEW i \in 0..(N - 1), i < Whole(b)
        PROVE  \A k \in 0..17 : Bit(ToolCode(b)[i], k) = StreamBit(b, 18 * i + k)
    <3>1. ToolCode(b)[i] = Insn(b, i) /\ i \in Nat
      <4>1. i \in Nat  BY BringUpAssumption, SMT DEF BringUpAssumption
      <4> QED  BY <2>3, <4>1 DEF ToolCode
    <3> QED  BY <2>2, <2>3, <3>1, InsnIsPacked
  <2>4. \A i \in 0..(N - 1) : ~(i < Whole(b)) => ToolCode(b)[i] = Pad
    BY DEF ToolCode
  <2>5. Holds(ToolCode(b), b)  BY <2>3, <2>4 DEF Holds
  <2> QED  BY <2>1, <2>5 DEF b
<1> QED  BY <1>1, Invariance, PTL
===============================================================================
