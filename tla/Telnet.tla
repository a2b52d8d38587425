-------------------------------- MODULE Telnet --------------------------------
(***************************************************************************)
(* The telnet layer of tools/nm32a/nmconsole.c byte by byte: what          *)
(* telnet_filter makes of the bytes of one read, and what telnet_write     *)
(* makes of the bytes of a line.  The commands are named; every other byte *)
(* is a character.  NmConsole takes the stream in whole units; the         *)
(* assumptions of MCNmConsole say that this is what the bytes come to.     *)
(***************************************************************************)
EXTENDS Integers, Sequences
LOCAL INSTANCE SequencesExt

\* The verbs of a negotiation, and the one a request is refused with.
Verbs == {"DO", "DONT", "WILL", "WONT"}
Refusal(v) == IF v \in {"DO", "DONT"} THEN "WONT" ELSE "DONT"

\* What the loop has done: the bytes it keeps for the tty, and its calls, a
\* break on the line or a reply to the client.
Nothing == [kept |-> <<>>, calls |-> <<>>]
Keeping(x, r) == [r EXCEPT !.kept = <<x>> \o @]
Calling(x, r) == [r EXCEPT !.calls = <<x>> \o @]

\* Where the scan for the end of a subnegotiation that begins at i stops.
StopsAt(b, i) ==
  CHOOSE j \in i..Len(b) :
    /\ j = Len(b) \/ (b[j] = "IAC" /\ b[j + 1] = "SE")
    /\ \A m \in i..(j - 1) : ~(b[m] = "IAC" /\ b[m + 1] = "SE")

Filter(b) ==
  LET n == Len(b)
      From[i \in 1..(n + 2)] ==
        CASE i > n                  -> Nothing
          [] i <= n /\ b[i] # "IAC" -> Keeping(b[i], From[i + 1])
          [] i = n /\ b[i] = "IAC"  -> Nothing
          [] i < n /\ b[i] = "IAC"  ->
               LET c == b[i + 1]
               IN  CASE c = "IAC"           -> Keeping("IAC", From[i + 2])
                     [] c \in Verbs         ->
                          IF i + 2 > n THEN Nothing
                          ELSE Calling(<<"IAC", Refusal(c), b[i + 2]>>, From[i + 3])
                     [] c \in {"BRK", "IP"} -> Calling("break", From[i + 2])
                     [] c = "SB"            -> From[StopsAt(b, i) + 2]
                     [] OTHER               -> From[i + 2]
  IN  From[1]

\* telnet_write: the writes it makes with a buffer of the given size.  A byte,
\* doubled if it is IAC and there is room, goes into the buffer, which is written
\* when it is full but for one byte, and at the end.
Written(b, size) ==
  LET n == Len(b)
      From[i \in 1..(n + 1), out \in BoundedSeq({b[j] : j \in 1..n}, size)] ==
        IF i > n THEN IF out = <<>> THEN <<>> ELSE <<out>>
        ELSE LET one  == Append(out, b[i])
                 both == IF b[i] = "IAC" /\ Len(one) < size
                         THEN Append(one, "IAC") ELSE one
             IN  IF Len(both) >= size - 1 THEN <<both>> \o From[i + 1, <<>>]
                                          ELSE From[i + 1, both]
  IN  From[1, <<>>]

-----------------------------------------------------------------------------
(* The reference: units of the protocol.                                   *)

\* The bytes of a unit, and what becomes of it.  (A subnegotiation whose data has
\* an escaped 0xFF before a byte 240 is left out: the scan takes the pair of the
\* second 0xFF and that byte for its end.)
UnitBytes == {<<"x">>, <<"y">>, <<"IAC", "IAC">>, <<"IAC", "BRK">>, <<"IAC", "IP">>,
              <<"IAC", "NOP">>, <<"IAC", "DO", "x">>, <<"IAC", "WILL", "y">>,
              <<"IAC", "SB", "x", "IAC", "SE">>}

Meaning(u) ==
  CASE Len(u) = 1                      -> Keeping(u[1], Nothing)
    [] u = <<"IAC", "IAC">>            -> Keeping("IAC", Nothing)
    [] u[2] \in {"BRK", "IP"}          -> Calling("break", Nothing)
    [] u[2] \in Verbs                  -> Calling(<<"IAC", Refusal(u[2]), u[3]>>, Nothing)
    [] OTHER                           -> Nothing

Both(r, s) == [kept |-> r.kept \o s.kept, calls |-> r.calls \o s.calls]

\* A read that begins and ends between units: each unit has its own effect, in
\* order, whatever its neighbours are.
WholeUnits(len) ==
  \A us \in BoundedSeq(UnitBytes, len) :
    Filter(FlattenSeq(us)) = FoldRight(LAMBDA u, r : Both(Meaning(u), r), us, Nothing)

\* A read that ends inside a unit: the part that came is dropped whole, so that
\* no half command reaches the line, and since nothing is remembered the next
\* read takes the rest, where it does not begin with IAC, for characters.
SplitUnits ==
  \A u \in UnitBytes : \A n \in 1..(Len(u) - 1) :
    LET rest == SubSeq(u, n + 1, Len(u))
    IN  /\ Filter(SubSeq(u, 1, n)) = Nothing
        /\ rest[1] # "IAC" => Head(Filter(rest).kept) = rest[1]

\* What telnet_write sends a client reads back as the characters of the line:
\* no data looks like a command, wherever the buffer is written.
LineRoundTrip(len, sizes) ==
  \A b \in BoundedSeq({"x", "IAC", "DO"}, len) : \A size \in sizes :
    Filter(FlattenSeq(Written(b, size))) = [kept |-> b, calls |-> <<>>]
=============================================================================
