------------------------------- MODULE TxRing -------------------------------
(***************************************************************************)
(* The transmit ring of one NM-32A port (nm32a.c: struct nm32a_port and    *)
(* the functions that move head and tail) and what becomes of its bytes at *)
(* the transmitter.                                                        *)
(*                                                                         *)
(* nm32a_tty_write, nm32a_break_ctl and the break test put bytes in, the   *)
(* transmit branch of nm32a_service takes them out, each with the port's   *)
(* spinlock held; nm32a_port_activate resets the ring without it.  A loop  *)
(* over bytes is one action per iteration.                                 *)
(***************************************************************************)
EXTENDS Integers, Sequences, SequencesExt, FiniteSets

CONSTANTS
  N,          \* NM32A_TXBUF, slots of the ring
  Data,       \* bytes a program may write, some of 0..255
  MaxRoom,    \* bytes TFTC offers at most (16)
  MaxWrite,   \* bound: bytes in one write call
  MaxAsked,   \* bound: characters and commands queued between two opens
  Cor2        \* what channel initialisation writes to COR2

ASSUME RingAssumption ==
  /\ N \in Nat /\ N > 2
  /\ Data \subseteq 0..255
  /\ MaxRoom \in Nat \ {0} /\ MaxWrite \in Nat /\ MaxAsked \in Nat
  /\ Cor2 \in {0, 32}

VARIABLES
  tx, head, tail,   \* the ring
  lock,             \* who holds np->lock
  wbuf, wi,         \* nm32a_tty_write: its buffer and loop index
  room,             \* nm32a_service: slots left of TFTC
  sent,             \* history: bytes written to TDR since the open
  asked,            \* history: characters and commands queued since the open
  esc, line         \* transmitter: inside an escape; what the line carried

vars == <<tx, head, tail, lock, wbuf, wi, room, sent, asked, esc, line>>

Nul      == 0
SendBrk  == 129                     \* 0x81
StopBrk  == 131                     \* 0x83
BreakOn  == 256                     \* symbols that are not characters
BreakOff == 257
Undefined == 258
Byte     == Data \cup {Nul, SendBrk, StopBrk}
Symbol   == Data \cup {Nul, SendBrk, StopBrk, BreakOn, BreakOff, Undefined}
Command  == {SendBrk, StopBrk}

Slots == 0..(N - 1)

TypeOK ==
  /\ tx \in [Slots -> Byte] /\ head \in Slots /\ tail \in Slots
  /\ lock \in {"free", "write", "service"}
  /\ wbuf \in Seq(Data) /\ wi \in Nat
  /\ room \in 0..MaxRoom
  /\ sent \in Seq(Byte)
  /\ asked \in Seq(Symbol)
  /\ esc \in BOOLEAN /\ line \in Seq(Symbol)

Init ==
  /\ tx = [i \in Slots |-> Nul] /\ head = 0 /\ tail = 0
  /\ lock = "free" /\ wbuf = <<>> /\ wi = 0 /\ room = 0
  /\ sent = <<>> /\ asked = <<>>
  /\ esc = FALSE /\ line = <<>>

-----------------------------------------------------------------------------
(* Ring helpers.                                                           *)

Used == (head - tail + N) % N

\* nm32a_tx_space; nm32a_tty_write_room computes the same.
\* Mutant: the slot that tells full from empty is used too.
SpaceOffByOne == N - Used

TxSpace == N - 1 - Used

\* nm32a_tx_put, once and twice.
\* Mutant: the position does not wrap.
NoWrap(slot) == slot + 1

After(slot) == (slot + 1) % N

Put1(b) == /\ tx' = [tx EXCEPT ![head] = b]
           /\ head' = After(head)

Put2(b, d) == /\ tx' = [tx EXCEPT ![head] = b, ![After(head)] = d]
              /\ head' = After(After(head))

\* The bytes in the ring, oldest first.
Contents == [i \in 1..Used |-> tx[(tail + i - 1) % N]]

-----------------------------------------------------------------------------
(* nm32a_tty_write                                                         *)

WriteStart(b) ==
  /\ lock = "free"
  /\ lock' = "write" /\ wbuf' = b /\ wi' = 0
  /\ UNCHANGED <<tx, head, tail, room, sent, asked, esc, line>>

\* A NUL needs two slots or has to wait.
\* Mutant: one free slot is taken to be enough for it.
NeedOne(b) == 1

Need(b) == IF b = Nul THEN 2 ELSE 1

More == wi < Len(wbuf) /\ TxSpace >= Need(wbuf[wi + 1])

WriteByte ==
  /\ lock = "write" /\ More
  /\ Len(asked) < MaxAsked
  /\ LET b == wbuf[wi + 1]
     IN  /\ IF b = Nul THEN Put2(Nul, Nul) ELSE Put1(b)
         /\ asked' = Append(asked, b)
  /\ wi' = wi + 1
  /\ UNCHANGED <<tail, lock, wbuf, room, sent, esc, line>>

\* Returns wi: the caller comes back with the rest.
WriteEnd ==
  /\ lock = "write"
  /\ ~More \/ Len(asked) = MaxAsked
  /\ lock' = "free" /\ wbuf' = <<>> /\ wi' = 0
  /\ UNCHANGED <<tx, head, tail, room, sent, asked, esc, line>>

-----------------------------------------------------------------------------
(* nm32a_break_ctl and the two commands sendbreak_set queues.              *)

Meaning(cmd) == IF cmd = SendBrk THEN BreakOn ELSE BreakOff

\* Without two free slots nothing is queued and success is reported.
BreakCtl(cmd) ==
  /\ lock = "free"
  /\ Len(asked) < MaxAsked
  /\ \/ /\ TxSpace >= 2
        /\ Put2(Nul, cmd)
        /\ asked' = Append(asked, Meaning(cmd))
     \/ /\ TxSpace < 2
        /\ UNCHANGED <<tx, head, asked>>
  /\ UNCHANGED <<tail, lock, wbuf, wi, room, sent, esc, line>>

-----------------------------------------------------------------------------
(* The transmit branch of nm32a_service.                                   *)

TakeStart(n) ==
  /\ lock = "free"
  /\ lock' = "service" /\ room' = n
  /\ UNCHANGED <<tx, head, tail, wbuf, wi, sent, asked, esc, line>>

\* The transmitter, given a byte through TDR (the chip is external).  With
\* COR2 bit 5 (ETC) a NUL introduces an embedded command; without it every
\* byte is a character.
Etc == Cor2 = 32

\* The character or line condition a byte stands for, if it completes one.
Decoded(b) ==
  IF ~Etc \/ ~esc THEN b
  ELSE IF b = Nul THEN Nul
  ELSE IF b \in Command THEN Meaning(b)
  ELSE Undefined

Transmit(b) ==
  LET introduces == Etc /\ ~esc /\ b = Nul
  IN  /\ esc' = introduces
      /\ line' = IF introduces THEN line ELSE Append(line, Decoded(b))

NextTail == After(tail)

TakeByte ==
  /\ lock = "service" /\ room > 0 /\ head # tail
  /\ sent' = Append(sent, tx[tail])
  /\ Transmit(tx[tail])
  /\ tail' = NextTail
  /\ room' = room - 1
  /\ UNCHANGED <<tx, head, lock, wbuf, wi, asked>>

TakeEnd ==
  /\ lock = "service"
  /\ room = 0 \/ head = tail
  /\ lock' = "free" /\ room' = 0
  /\ UNCHANGED <<tx, head, tail, wbuf, wi, sent, asked, esc, line>>

-----------------------------------------------------------------------------
\* nm32a_port_activate: InitCh at the chip, head = tail = 0.  It holds hw_lock,
\* which keeps the service out, and runs before the tty can be written; only
\* the break test could be in between, and it takes no step with the lock held.
Activate ==
  /\ lock = "free"
  /\ head' = 0 /\ tail' = 0
  /\ sent' = <<>> /\ asked' = <<>>
  /\ esc' = FALSE /\ line' = <<>>
  /\ UNCHANGED <<tx, lock, wbuf, wi, room>>

Next == \/ \E n \in 1..MaxWrite : \E b \in [1..n -> Data] : WriteStart(b)
        \/ WriteByte \/ WriteEnd
        \/ \E cmd \in Command : BreakCtl(cmd)
        \/ \E n \in 1..MaxRoom : TakeStart(n)
        \/ TakeByte \/ TakeEnd
        \/ Activate

Spec == Init /\ [][Next]_vars

-----------------------------------------------------------------------------
(* Properties.                                                             *)

\* The ring is a bounded first-in first-out queue that loses, repeats and
\* overwrites nothing, whatever the positions of head and tail.
Queue == INSTANCE ByteQueue WITH q <- Contents, out <- sent,
                                 Capacity <- N - 1, Byte <- Byte

ImplementsQueue == Queue!Spec

\* The bytes a character or a command is queued as, and where the k-th of a
\* begins once they all are.
Wide(x)   == x \in {Nul, BreakOn, BreakOff}
Width(x)  == IF Wide(x) THEN 2 ELSE 1
First(x)  == IF Wide(x) THEN Nul ELSE x
Second(x) == CASE x = BreakOn -> SendBrk [] x = BreakOff -> StopBrk [] OTHER -> Nul
Seam(a, k) == k + Cardinality({i \in 1..(k - 1) : Wide(a[i])})

\* The bytes s are those of the symbols a, one after the other.
Whole(s, a) ==
  /\ Len(s) + 1 = Seam(a, Len(a) + 1)
  /\ \A k \in 1..Len(a) : /\ s[Seam(a, k)] = First(a[k])
                          /\ Wide(a[k]) => s[Seam(a, k) + 1] = Second(a[k])

\* What went to TDR and what waits in the ring is, byte for byte, what
\* nm32a_tty_write and nm32a_break_ctl were asked for: a NUL and a command are
\* two adjacent bytes there, through full rings, short writes, the wrap and a
\* FIFO that fills in the middle of one.  It speaks of the bytes the driver
\* hands over, so it does not depend on COR2.
StreamWhole == Whole(sent \o Contents, asked)

\* What the driver's comments and FINDINGS.md say of the line: it carries what was
\* asked for, in order, characters as themselves and breaks as breaks, and all of
\* it once the ring has drained.  With the COR2 nm32a_port_activate writes it
\* does not.
LineExact ==
  /\ IsPrefix(line, asked)
  /\ head = tail => line = asked

=============================================================================
