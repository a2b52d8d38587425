-------------------------- MODULE TftpSend_proofs --------------------------
(***************************************************************************)
(* That the client of TftpSend receives the image exactly, and that DONE   *)
(* means it has all of it, for every image, every width of the block       *)
(* number and every number of sessions, tries and repetitions.             *)
(***************************************************************************)
EXTENDS TftpSend, TLAPS

-----------------------------------------------------------------------------
(* The inductive invariant.                                                *)

\* Blocks that the client of transfer x has received from it.
Received(x) ==
  IF tid[xfers[x].peer] = x THEN Len(got[xfers[x].peer]) ELSE 0

Blocks(x) == Full[xfers[x].ver] + 1

\* Data runs at most one block ahead of the client, acknowledgements never.
PacketOK(m) ==
  /\ m.xfer \in 1..Xfer
  /\ m.kind = "data" => /\ m.ver = xfers[m.xfer].ver
                        /\ m.abs \in 1..Blocks(m.xfer)
                        /\ m.abs <= Received(m.xfer) + 1
  /\ m.kind = "ack" => m.abs <= Received(m.xfer)

\* So does the server.
ServerOK ==
  /\ pc # "listen" => Xfer > 0
  /\ pc = "data" => blk \in 1..Blocks(Xfer) /\ blk <= Received(Xfer) + 1

SessionOK(s) ==
  /\ tid[s] \in 0..Xfer
  /\ tid[s] = 0 => got[s] = <<>>
  /\ tid[s] # 0 =>
       /\ xfers[tid[s]].peer = s
       /\ Len(got[s]) <= Blocks(tid[s])
       /\ Len(got[s]) = Blocks(tid[s]) => st[s] = "done"
       /\ \A i \in 1..Len(got[s]) :
            got[s][i] = [ver |-> xfers[tid[s]].ver, blk |-> i]

DoneOK == \A x \in done : x \in 1..Xfer /\ Received(x) = Blocks(x)

IInv ==
  /\ TypeOK
  /\ ServerOK
  /\ \A m \in net : PacketOK(m)
  /\ \A s \in Sessions : SessionOK(s)
  /\ DoneOK

-----------------------------------------------------------------------------
(* Block numbers on the wire identify a fresh packet's block.              *)

\* Under Fresh, equal numbers on the wire are equal block numbers.
LEMMA WireExact ==
  ASSUME NEW a \in Nat, NEW b \in Nat, a <= b, Fresh(a, b),
         OnWire(a) = OnWire(b)
  PROVE  a = b
<1> DEFINE w == Wire
           q == b \div w
           p == a \div w
<1>1. w \in Nat /\ w > 0  BY TransferAssumption
<1>2. b - a < w /\ a % w = b % w  BY <1>1 DEF Fresh, OnWire
<1> HIDE DEF w
<1>3. /\ p \in Int /\ q \in Int
      /\ a = w * p + (a % w)
      /\ b = w * q + (b % w)
  BY <1>1
<1> HIDE DEF p, q
<1>4. b - a = w * q - w * p  BY <1>2, <1>3, <1>1
<1>5. b - a = w * (q - p)  BY <1>4, <1>3, <1>1
<1>6. CASE q - p >= 1
  <2>1. w * (q - p) >= w  BY <1>6, <1>1, <1>3
  <2> QED BY <2>1, <1>1, <1>2, <1>3, <1>5
<1>7. CASE q - p <= 0
  <2>1. w * (q - p) <= 0  BY <1>7, <1>1, <1>3
  <2> QED BY <2>1, <1>5
<1> QED BY <1>6, <1>7, <1>3

-----------------------------------------------------------------------------
(* What leaves transfers and clients alone leaves the invariant's parts about *)
(* them alone.                                                             *)

\* A step that leaves the clients alone keeps what is said of them.
LEMMA ClientsKept ==
  ASSUME IInv, UNCHANGED <<xfers, tid, got, st>>
  PROVE  /\ \A x : Received(x)' = Received(x) /\ Blocks(x)' = Blocks(x)
         /\ \A m : PacketOK(m) => PacketOK(m)'
         /\ \A s \in Sessions : SessionOK(s)'
         /\ done' = done => DoneOK'
<1>1. \A x : Received(x)' = Received(x) /\ Blocks(x)' = Blocks(x)
  BY DEF Received, Blocks
<1>2. \A m : PacketOK(m) => PacketOK(m)'
  BY <1>1 DEF PacketOK, Xfer
<1>3. \A s \in Sessions : SessionOK(s)'
  BY <1>1 DEF IInv, SessionOK, Xfer
<1>4. done' = done => DoneOK'
  BY <1>1 DEF IInv, DoneOK, Xfer
<1> QED BY <1>1, <1>2, <1>3, <1>4

\* The number of blocks and of those received are naturals.
LEMMA Counts ==
  ASSUME IInv, NEW x \in 1..Xfer
  PROVE  /\ xfers[x].peer \in Sessions /\ xfers[x].ver \in Versions
         /\ Received(x) \in Nat /\ Blocks(x) \in Nat \ {0}
<1>1. xfers[x].peer \in Sessions /\ xfers[x].ver \in Versions
  <2>1. xfers \in Seq(Transfer)
    BY DEF IInv, TypeOK
  <2>2. xfers[x] \in Transfer  BY <2>1 DEF Xfer
  <2> QED BY <2>2 DEF Transfer
<1>2. got[xfers[x].peer] \in Seq(Block)
  BY <1>1 DEF IInv, TypeOK
<1>3. Received(x) \in Nat
  BY <1>2 DEF Received
<1>4. Full[xfers[x].ver] \in Nat
  BY <1>1, TransferAssumption DEF Versions
<1> QED BY <1>1, <1>3, <1>4 DEF Blocks

-----------------------------------------------------------------------------
(* The server's steps.                                                     *)

\* The invariant holds at the start.
LEMMA InitHolds == Init => IInv
<1> SUFFICES ASSUME Init PROVE IInv
  OBVIOUS
<1>1. TypeOK
  BY TransferAssumption DEF Init, TypeOK, Versions, Sessions
<1>2. ServerOK /\ (\A m \in net : PacketOK(m)) /\ DoneOK
  BY DEF Init, ServerOK, DoneOK
<1>3. \A s \in Sessions : SessionOK(s)
  BY DEF Init, SessionOK, Xfer
<1> QED BY <1>1, <1>2, <1>3 DEF IInv

\* Return closes the socket and forgets the backlog.
LEMMA ReturnTypes ==
  ASSUME IInv, Return
  PROVE  /\ pc' = "listen" /\ blk' = 0 /\ tries' = 0 /\ listener' = <<>>
         /\ listener' \in Seq(Request)
         /\ net' \subseteq net /\ outdated' \subseteq Sessions
         /\ ServerOK'
<1>1. /\ pc' = "listen" /\ blk' = 0 /\ tries' = 0 /\ listener' = <<>>
      /\ net' \subseteq net /\ outdated' \subseteq Sessions
  BY DEF Return, Drain
<1>2. <<>> \in Seq(Request)  OBVIOUS
<1> QED BY <1>1, <1>2 DEF ServerOK

\* A request that is refused, an abort, or an error from the client: back to listen.
LEMMA RefuseKeeps ==
  ASSUME IInv, Refuse \/ OackAbort \/ ClientError
  PROVE  IInv'
<1>1. Return /\ UNCHANGED <<version, asks, repeats, size, xfers, done, st, tid, got>>
  BY DEF Refuse, OackAbort, ClientError, clientVars
<1>2. TypeOK'
  BY <1>1, ReturnTypes DEF IInv, TypeOK
<1> QED BY <1>1, <1>2, ReturnTypes, ClientsKept DEF IInv

\* A request that starts a transfer.
LEMMA AcceptKeeps ==
  ASSUME IInv, Accept
  PROVE  IInv'
<1>1. PICK i \in 1..Len(listener) :
        /\ listener[i].op = "read"
        /\ xfers' = Append(xfers,
                     [peer |-> listener[i].session, ver |-> version,
                      tsize |-> IF listener[i].options THEN Tsize ELSE 0])
        /\ \/ /\ pc' = "oack" /\ blk' = 0 /\ tries' = 0
              /\ net' = net \cup {Oack(Xfer + 1)}
           \/ /\ NewBlock(1)
              /\ net' = net \cup {Data(Xfer + 1, version, 1)}
  BY DEF Accept
<1>2. UNCHANGED <<version, asks, repeats, size, done, outdated, st, tid, got>>
      /\ listener' = <<>>
  BY DEF Accept, clientVars
<1>3. PICK r \in Transfer :
        xfers' = Append(xfers, r) /\ r.ver = version /\ r.peer \in Sessions
  <2> DEFINE t == [peer |-> listener[i].session, ver |-> version,
                   tsize |-> IF listener[i].options THEN Tsize ELSE 0]
  <2>1. listener[i] \in Request  BY DEF IInv, TypeOK
  <2>2. listener[i].session \in Sessions  BY <2>1 DEF Request
  <2>3. t \in Transfer /\ t.ver = version /\ t.peer \in Sessions
    BY <2>2 DEF IInv, TypeOK, Tsize, Transfer
  <2> QED BY <1>1, <2>3
<1>4. xfers' = Append(xfers, r)  BY <1>3
<1>5. PICK k \in Nat :
        /\ k = Xfer + 1 /\ Xfer \in Nat /\ Xfer' = k
        /\ \A x \in 1..Xfer : xfers'[x] = xfers[x]
        /\ xfers'[k] = r
  <2>1. xfers \in Seq(Transfer)
    BY DEF IInv, TypeOK
  <2>2. /\ Len(xfers) \in Nat /\ Len(xfers') = Len(xfers) + 1
        /\ \A x \in 1..Len(xfers) : xfers'[x] = xfers[x]
        /\ xfers'[Len(xfers) + 1] = r
    BY <1>3, <1>4, <2>1
  <2> QED BY <2>2 DEF Xfer
<1>6. r.ver = version /\ version \in Versions  BY <1>3 DEF IInv, TypeOK
<1>7. \A x \in 1..Xfer : Received(x)' = Received(x) /\ Blocks(x)' = Blocks(x)
  BY <1>2, <1>5 DEF Received, Blocks
<1>8. /\ Received(k)' \in Nat
      /\ Blocks(k)' = Full[version] + 1 /\ Full[version] \in Nat
  <2>1. Full[version] \in Nat  BY <1>6, TransferAssumption DEF Versions
  <2>2. r.peer \in Sessions  BY <1>3
  <2>3. got[r.peer] \in Seq(Block)  BY <2>2 DEF IInv, TypeOK
  <2>4. Received(k)' \in Nat  BY <2>3, <1>2, <1>5 DEF Received
  <2>5. xfers'[k].ver = r.ver  BY <1>5
  <2>6. Blocks(k)' = Full[r.ver] + 1  BY <2>5 DEF Blocks
  <2> QED BY <2>1, <2>4, <2>6, <1>6
<1>9. net' \subseteq net \cup {Oack(k), Data(k, version, 1)}
  BY <1>1, <1>5
<1>10. TypeOK'
  <2>1. {Oack(k), Data(k, version, 1)} \subseteq Packet
    BY <1>5, <1>6 DEF Oack, Data, Packet
  <2>2. net' \subseteq Packet  BY <2>1, <1>9 DEF IInv, TypeOK
  <2>3. xfers' \in Seq(Transfer)
    BY <1>3, <1>4 DEF IInv, TypeOK
  <2>4. pc' \in {"listen", "oack", "data"} /\ blk' \in Nat /\ tries' \in Nat
    BY <1>1 DEF NewBlock
  <2> QED BY <1>2, <2>2, <2>3, <2>4 DEF IInv, TypeOK
<1>11. ServerOK'
  BY <1>1, <1>5, <1>8 DEF ServerOK, NewBlock
<1>12. ASSUME NEW m \in net'  PROVE PacketOK(m)'
  <2>1. CASE m \in net
    BY <2>1, <1>5, <1>7 DEF IInv, PacketOK
  <2>2. CASE m = Oack(k)
    BY <2>2, <1>5 DEF PacketOK, Oack
  <2>3. CASE m = Data(k, version, 1)
    <3>1. m.kind = "data" /\ m.xfer = k /\ m.abs = 1 /\ m.ver = version
      BY <2>3 DEF Data
    <3>2. k \in 1..Xfer'  BY <1>5
    <3>4. xfers'[k].ver = version  BY <1>5, <1>6
    <3>3. 1 \in 1..Blocks(k)' /\ 1 <= Received(k)' + 1  BY <1>8
    <3> QED BY <3>1, <3>2, <3>3, <3>4 DEF PacketOK
  <2> QED BY <2>1, <2>2, <2>3, <1>9
<1>13. ASSUME NEW s \in Sessions  PROVE SessionOK(s)'
  <2>1. SessionOK(s)  BY DEF IInv
  <2>2. tid[s] # 0 => tid[s] \in 1..Xfer  BY <2>1, <1>5 DEF SessionOK
  <2> QED BY <2>1, <2>2, <1>2, <1>5, <1>7 DEF SessionOK
<1>14. DoneOK'
  BY <1>2, <1>5, <1>7 DEF IInv, DoneOK
<1> QED BY <1>10, <1>11, <1>12, <1>13, <1>14 DEF IInv

\* A packet delivered leaves only what was under way and the answers.
LEMMA Delivered ==
  ASSUME NEW m, NEW answers, Deliver(m, answers)
  PROVE  /\ net' \subseteq net \cup answers
         /\ repeats \in Nat => repeats' \in Nat
BY DEF Deliver, Arriving

\* The server sends something to its client and stays in the transfer.
LEMMA SendKeeps ==
  ASSUME IInv, NEW b \in Nat, NEW d,
         pc' \in {"oack", "data"}, Xfer > 0,
         pc' = "data" => b \in 1..Blocks(Xfer) /\ b <= Received(Xfer) + 1,
         d = Oack(Xfer) \/ (pc' = "data" /\ d = Data(Xfer, xfers[Xfer].ver, b)),
         net' \subseteq net \cup {d}, blk' = b, tries' \in Nat, repeats' \in Nat,
         UNCHANGED <<version, asks, size, listener, xfers, done, outdated,
                     st, tid, got>>
  PROVE  IInv'
<1>1. Xfer \in 1..Xfer /\ Xfer \in Nat  BY DEF IInv, TypeOK, Xfer
<1>2. xfers[Xfer].ver \in Versions  BY <1>1, Counts
<1>3. d \in Packet /\ PacketOK(d)
  <2>1. CASE d = Oack(Xfer)
    BY <2>1, <1>1 DEF Oack, Packet, PacketOK
  <2>2. CASE pc' = "data" /\ d = Data(Xfer, xfers[Xfer].ver, b)
    BY <2>2, <1>1, <1>2 DEF Data, Packet, PacketOK
  <2> QED BY <2>1, <2>2
<1>4. TypeOK'
  BY <1>3 DEF IInv, TypeOK
<1>5. ServerOK'
  BY ClientsKept DEF ServerOK, Xfer
<1>6. \A m \in net' : PacketOK(m)'
  BY <1>3, ClientsKept DEF IInv
<1> QED BY <1>4, <1>5, <1>6, ClientsKept DEF IInv

\* The option acknowledgement is answered, or not in time.
LEMMA OackKeeps ==
  ASSUME IInv, OackTimeout \/ OackAck
  PROVE  IInv'
<1>1. Xfer > 0 /\ Xfer \in 1..Xfer
  BY DEF IInv, ServerOK, OackTimeout, OackAck, TypeOK, Xfer
<1>2. CASE OackTimeout
  <2>1. blk \in Nat /\ tries + 1 \in Nat /\ repeats \in Nat  BY DEF IInv, TypeOK
  <2> QED BY <1>1, <1>2, <2>1, SendKeeps DEF OackTimeout, clientVars
<1>3. CASE OackAck
  <2>1. PICK m \in net : NewBlock(1) /\ Deliver(m, {Data(Xfer, xfers[Xfer].ver, 1)})
    BY <1>3 DEF OackAck, ToServer
  <2>2. /\ net' \subseteq net \cup {Data(Xfer, xfers[Xfer].ver, 1)}
        /\ repeats' \in Nat
    BY <2>1, Delivered DEF IInv, TypeOK
  <2>3. 1 \in 1..Blocks(Xfer) /\ 1 <= Received(Xfer) + 1
    BY <1>1, Counts
  <2> QED BY <1>1, <1>3, <2>1, <2>2, <2>3, SendKeeps DEF OackAck, NewBlock, clientVars
<1> QED BY <1>2, <1>3

\* No acknowledgement in time.
LEMMA DataTimeoutKeeps ==
  ASSUME IInv, DataTimeout
  PROVE  IInv'
<1>1. /\ UNCHANGED <<version, asks, repeats, size, xfers, done, st, tid, got>>
      /\ pc = "data"
  BY DEF DataTimeout, clientVars
<1>2. CASE Return
  <2>1. TypeOK'
    BY <1>1, <1>2, ReturnTypes DEF IInv, TypeOK
  <2> QED BY <1>1, <1>2, <2>1, ReturnTypes, ClientsKept DEF IInv
<1>3. CASE /\ tries' = NextTry(tries)
           /\ net' = net \cup {Data(Xfer, xfers[Xfer].ver, blk)}
           /\ UNCHANGED <<pc, blk, listener, outdated>>
  <2>1. blk \in Nat /\ tries' \in Nat /\ repeats' \in Nat
    BY <1>1, <1>3 DEF IInv, TypeOK, NextTry
  <2>2. /\ Xfer > 0 /\ blk \in 1..Blocks(Xfer) /\ blk <= Received(Xfer) + 1
    BY <1>1 DEF IInv, ServerOK
  <2> QED BY <1>1, <1>3, <2>1, <2>2, SendKeeps
<1> QED BY <1>2, <1>3 DEF DataTimeout

\* The client has the block that an acknowledgement is taken for.
LEMMA AckExact ==
  ASSUME IInv, pc = "data", NEW m \in ToServer("ack"),
         Fresh(m.abs, blk), Matches(OnWire(m.abs))
  PROVE  blk <= Received(Xfer)
<1>1. /\ m \in net /\ m.kind = "ack" /\ m.xfer = Xfer /\ m.abs \in Nat
      /\ blk \in Nat
  BY DEF ToServer, IInv, TypeOK, Packet
<1>2. m.abs <= Received(Xfer)
  BY <1>1 DEF IInv, PacketOK
<1>3. Received(Xfer) \in Nat
  BY <1>1, Counts DEF IInv, PacketOK
<1>4. CASE m.abs <= blk
  <2>1. m.abs = blk  BY <1>1, <1>4, WireExact DEF Matches
  <2> QED BY <2>1, <1>2
<1> QED BY <1>1, <1>2, <1>3, <1>4

\* An acknowledgement during the transfer.
LEMMA DataAckKeeps ==
  ASSUME IInv, DataAck
  PROVE  IInv'
<1> DEFINE v == xfers[Xfer].ver
<1>1. /\ UNCHANGED <<version, asks, size, xfers, st, tid, got>>
      /\ pc = "data"
  BY DEF DataAck, clientVars
<1>2. /\ Xfer > 0 /\ Xfer \in 1..Xfer /\ blk \in Nat
      /\ blk \in 1..Blocks(Xfer) /\ blk <= Received(Xfer) + 1
      /\ tries \in Nat /\ repeats \in Nat
  BY <1>1 DEF IInv, ServerOK, TypeOK, Xfer
<1>3. Received(Xfer) \in Nat /\ Blocks(Xfer) \in Nat /\ v \in Versions
      /\ Full[v] \in Nat /\ Blocks(Xfer) = Full[v] + 1
  <2>1. Received(Xfer) \in Nat /\ Blocks(Xfer) \in Nat /\ v \in Versions
    BY <1>2, Counts
  <2>2. Full[v] \in Nat  BY <2>1, TransferAssumption DEF Versions
  <2> QED BY <2>1, <2>2 DEF Blocks
<1>4. PICK m \in ToServer("ack") :
        /\ Fresh(m.abs, blk)
        /\ \/ /\ Matches(OnWire(m.abs)) /\ ~Short(blk, v)
              /\ NewBlock(blk + 1)
              /\ Deliver(m, {Data(Xfer, v, blk + 1)})
              /\ UNCHANGED <<listener, done, outdated>>
           \/ /\ Matches(OnWire(m.abs)) /\ Short(blk, v)
              /\ done' = done \cup {Xfer}
              /\ Return
              /\ UNCHANGED repeats
  BY DEF DataAck
<1>5. CASE /\ Matches(OnWire(m.abs)) /\ ~Short(blk, v)
           /\ NewBlock(blk + 1)
           /\ Deliver(m, {Data(Xfer, v, blk + 1)})
           /\ UNCHANGED <<listener, done, outdated>>
  <2>1. net' \subseteq net \cup {Data(Xfer, v, blk + 1)} /\ repeats' \in Nat
    BY <1>2, <1>5, Delivered
  <2>2. blk <= Received(Xfer)  BY <1>1, <1>4, <1>5, AckExact
  <2>3. /\ blk + 1 \in 1..Blocks(Xfer) /\ blk + 1 \in Nat
        /\ blk + 1 <= Received(Xfer) + 1
    BY <1>2, <1>3, <1>5, <2>2 DEF Short
  <2> QED BY <1>1, <1>2, <1>5, <2>1, <2>3, SendKeeps DEF NewBlock
<1>6. CASE /\ Matches(OnWire(m.abs)) /\ Short(blk, v)
           /\ done' = done \cup {Xfer}
           /\ Return
           /\ UNCHANGED repeats
  <2>1. TypeOK'
    <3>1. Xfer \in Nat  BY <1>2
    <3>2. done' \subseteq Nat  BY <1>6, <3>1 DEF IInv, TypeOK
    <3> QED BY <1>1, <1>6, <3>2, ReturnTypes DEF IInv, TypeOK
  <2>2. Received(Xfer) = Blocks(Xfer)
    <3>1. Received(Xfer) >= Blocks(Xfer)
      BY <1>1, <1>2, <1>3, <1>4, <1>6, AckExact DEF Short
    <3>2. Received(Xfer) <= Blocks(Xfer)
      <4> DEFINE s == xfers[Xfer].peer
      <4>1. SessionOK(s)  BY <1>2, Counts DEF IInv
      <4> QED BY <4>1, <1>2, <1>3 DEF SessionOK, Received
    <3> QED BY <3>1, <3>2, <1>3
  <2>3. DoneOK'
    BY <1>1, <1>2, <1>6, <2>2, ClientsKept DEF IInv, DoneOK, Xfer
  <2> QED BY <1>1, <1>6, <2>1, <2>3, ReturnTypes, ClientsKept DEF IInv
<1> QED BY <1>4, <1>5, <1>6

\* A stale acknowledgement during the transfer.
LEMMA StaleAckKeeps ==
  ASSUME IInv, StaleAck
  PROVE  IInv'
<1> DEFINE d == Data(Xfer, xfers[Xfer].ver, blk)
<1>1. PICK m \in net : Deliver(m, {d})
  BY DEF StaleAck, ToServer
<1>2. /\ UNCHANGED <<version, asks, size, listener, xfers, done, outdated, st, tid,
                     got, pc, blk, tries>>
      /\ pc = "data"
  BY DEF StaleAck, serverVars, clientVars
<1>3. /\ blk \in Nat /\ tries' \in Nat
      /\ Xfer > 0 /\ blk \in 1..Blocks(Xfer) /\ blk <= Received(Xfer) + 1
  BY <1>2 DEF IInv, ServerOK, TypeOK
<1>4. net' \subseteq net \cup {d} /\ repeats' \in Nat
  BY <1>1, Delivered DEF IInv, TypeOK
<1> QED BY <1>2, <1>3, <1>4, SendKeeps

-----------------------------------------------------------------------------
(* The client's steps.                                                     *)

\* The state of one session changes; the others and the server do not.
LEMMA SessionStep ==
  ASSUME IInv, NEW s \in Sessions, NEW x \in 1..Xfer, NEW a,
         xfers[x].peer = s, tid[s] \in {0, x},
         UNCHANGED <<version, asks, serverVars>>,
         TypeOK',
         \A r \in Sessions \ {s} : tid'[r] = tid[r] /\ got'[r] = got[r]
                                   /\ st'[r] = st[r],
         tid'[s] = x, Len(got'[s]) \in Nat, Len(got'[s]) >= Len(got[s]),
         x \in done => Len(got'[s]) = Len(got[s]),
         SessionOK(s)',
         net' \subseteq net \cup {a}, PacketOK(a)'
  PROVE  IInv'
<1>1. Xfer' = Xfer /\ xfers' = xfers /\ pc' = pc /\ blk' = blk /\ done' = done
  BY DEF serverVars, Xfer
<1>2. \A y \in 1..Xfer : Blocks(y)' = Blocks(y)
  BY <1>1 DEF Blocks
<1>3. \A y \in 1..Xfer : y # x => Received(y)' = Received(y)
  <2> SUFFICES ASSUME NEW y \in 1..Xfer, y # x
               PROVE  Received(y)' = Received(y)
    OBVIOUS
  <2>1. CASE xfers[y].peer = s
    BY <2>1, <1>1 DEF Received
  <2>2. CASE xfers[y].peer # s
    <3>1. xfers[y].peer \in Sessions \ {s}  BY <2>2, Counts
    <3> QED BY <3>1, <1>1 DEF Received
  <2> QED BY <2>1, <2>2
<1>4. /\ Received(x) \in Nat /\ Received(x)' = Len(got'[s])
      /\ Received(x) = Len(got[s])
  <2>1. tid[s] = 0 => got[s] = <<>>  BY DEF IInv, SessionOK
  <2> QED BY <2>1, <1>1, Counts DEF Received
<1>5. \A y \in 1..Xfer : /\ Received(y) \in Nat /\ Received(y)' \in Nat
                         /\ Received(y)' >= Received(y)
  BY <1>3, <1>4, Counts
<1>6. ServerOK'
  <2>1. Xfer > 0 => Xfer \in 1..Xfer  BY DEF IInv, TypeOK, Xfer
  <2>2. blk \in Nat  BY DEF IInv, TypeOK
  <2> QED BY <1>1, <1>2, <1>5, <2>1, <2>2 DEF IInv, ServerOK
<1>7. ASSUME NEW m \in net'  PROVE PacketOK(m)'
  <2>1. CASE m \in net
    <3>1. PacketOK(m) /\ m.abs \in Nat  BY <2>1 DEF IInv, TypeOK, Packet
    <3> QED BY <3>1, <1>1, <1>2, <1>5 DEF PacketOK
  <2> QED BY <2>1
<1>8. ASSUME NEW r \in Sessions  PROVE SessionOK(r)'
  <2>1. CASE r # s
    <3>1. SessionOK(r)  BY DEF IInv
    <3>2. tid[r] # 0 => tid[r] \in 1..Xfer
      BY <3>1 DEF SessionOK, IInv, TypeOK, Xfer
    <3> QED BY <2>1, <3>1, <3>2, <1>1, <1>2 DEF SessionOK
  <2> QED BY <2>1
<1>9. DoneOK'
  BY <1>1, <1>2, <1>3, <1>4 DEF IInv, DoneOK
<1> QED BY <1>6, <1>7, <1>8, <1>9 DEF IInv

\* What the client sees of a packet addressed to it.
LEMMA Addressed ==
  ASSUME IInv, NEW m \in net
  PROVE  /\ m.xfer \in 1..Xfer /\ Peer(m) \in Sessions /\ m \in Packet
         /\ PacketOK(m) /\ SessionOK(Peer(m)) /\ Xfer \in Nat
         /\ got[Peer(m)] \in Seq(Block)
<1>1. m \in Packet /\ PacketOK(m)  BY DEF IInv, TypeOK
<1>2. m.xfer \in 1..Xfer /\ Xfer \in Nat  BY <1>1 DEF PacketOK, IInv, TypeOK, Xfer
<1>3. Peer(m) \in Sessions  BY <1>2, Counts DEF Peer
<1> QED BY <1>1, <1>2, <1>3 DEF IInv, TypeOK

\* The client gets the option acknowledgement.
LEMMA ClientOackKeeps ==
  ASSUME IInv, NEW m \in net, ClientOack(m), UNCHANGED <<version, asks, serverVars>>
  PROVE  IInv'
<1>0. PICK s \in Sessions : s = Peer(m)  BY Addressed
<1> DEFINE x == m.xfer
<1>1. /\ s \in Sessions /\ x \in 1..Xfer /\ Xfer \in Nat /\ xfers[x].peer = s
      /\ tid[s] \in {0, x} /\ got[s] = <<>> /\ got' = got
      /\ tid' = [tid EXCEPT ![s] = x] /\ st' = [st EXCEPT ![s] = "receiving"]
  BY <1>0, Addressed DEF ClientOack, Peer
<1>2. net' \subseteq net \cup {Ack(x, 0)} /\ repeats' \in Nat
  BY Delivered DEF ClientOack, IInv, TypeOK
<1>3. TypeOK'
  <2>1. Ack(x, 0) \in Packet  BY <1>1 DEF Ack, Packet
  <2>2. /\ tid' \in [Sessions -> Nat]
        /\ st' \in [Sessions -> {"new", "asking", "receiving", "done", "gone"}]
    <3>1. x \in Nat  BY <1>1
    <3> QED BY <1>1, <3>1 DEF IInv, TypeOK
  <2>3. net' \subseteq Packet  BY <1>2, <2>1 DEF IInv, TypeOK
  <2> QED BY <1>1, <1>2, <2>2, <2>3 DEF IInv, TypeOK, serverVars
<1>4. /\ tid'[s] = x
      /\ \A r \in Sessions \ {s} : tid'[r] = tid[r] /\ got'[r] = got[r]
                                   /\ st'[r] = st[r]
  BY <1>1 DEF IInv, TypeOK
<1>5. xfers' = xfers /\ Xfer' = Xfer  BY DEF serverVars, Xfer
<1>6. SessionOK(s)'
  <2>1. Len(got'[s]) = 0 /\ Blocks(x)' \in Nat \ {0}
    BY <1>1, <1>5, Counts DEF Blocks
  <2> QED BY <2>1, <1>1, <1>4, <1>5 DEF SessionOK
<1>7. PacketOK(Ack(x, 0))'
  <2>1. Received(x)' \in Nat
    BY <1>1, <1>4, <1>5 DEF Received
  <2> QED BY <2>1, <1>1, <1>5 DEF PacketOK, Ack
<1> QED BY <1>1, <1>2, <1>3, <1>4, <1>6, <1>7, SessionStep

\* The client gets a data packet.
LEMMA ClientDataKeeps ==
  ASSUME IInv, NEW m \in net, ClientData(m), UNCHANGED <<version, asks, serverVars>>
  PROVE  IInv'
<1>0. PICK s \in Sessions, n \in Nat : s = Peer(m) /\ n = Len(got[s]) + 1
  BY Addressed
<1> DEFINE x == m.xfer
           b == [ver |-> m.ver, blk |-> m.abs]
<1>1. /\ s \in Sessions /\ x \in 1..Xfer /\ Xfer \in Nat /\ xfers[x].peer = s
      /\ m \in Packet /\ PacketOK(m) /\ SessionOK(s) /\ got[s] \in Seq(Block)
      /\ Len(got[s]) = n - 1 /\ n - 1 \in Nat
  BY <1>0, Addressed DEF Peer
<1>2. /\ m.kind = "data" /\ tid[s] \in {0, x}
      /\ Fresh(m.abs, n) /\ OnWire(m.abs) = OnWire(n)
      /\ tid' = [tid EXCEPT ![s] = x]
      /\ got' = [got EXCEPT ![s] = Append(@, b)]
      /\ st' = [st EXCEPT ![s] = IF m.abs > Full[m.ver] THEN "done" ELSE "receiving"]
  BY <1>0 DEF ClientData
<1>3. net' \subseteq net \cup {Ack(x, n)} /\ repeats' \in Nat
  BY <1>0, Delivered DEF ClientData, IInv, TypeOK
<1>4. Received(x) = Len(got[s])
  BY <1>1, <1>2 DEF SessionOK, Received
<1>5. /\ m.abs = n /\ n \in Nat /\ m.ver = xfers[x].ver /\ n \in 1..Blocks(x)
      /\ m.ver \in Versions
  <2>1. /\ m.abs <= n /\ m.abs \in Nat /\ n \in Nat /\ m.abs \in 1..Blocks(x)
        /\ m.ver = xfers[x].ver
    BY <1>1, <1>2, <1>4 DEF PacketOK, Packet
  <2>2. m.abs = n  BY <2>1, <1>2, WireExact
  <2> QED BY <2>1, <2>2, <1>1, Counts
<1>6. b \in Block  BY <1>5 DEF Block
<1>7. /\ tid'[s] = x /\ got'[s] = Append(got[s], b)
      /\ st'[s] = (IF m.abs > Full[m.ver] THEN "done" ELSE "receiving")
      /\ \A r \in Sessions \ {s} : tid'[r] = tid[r] /\ got'[r] = got[r]
                                   /\ st'[r] = st[r]
  BY <1>1, <1>2 DEF IInv, TypeOK
<1>8. xfers' = xfers /\ Xfer' = Xfer /\ done' = done  BY DEF serverVars, Xfer
<1> HIDE DEF b
<1>9. /\ Len(got'[s]) = n /\ got'[s][n] = b
      /\ \A i \in 1..(n - 1) : got'[s][i] = got[s][i]
  BY <1>1, <1>6, <1>7
<1>10. TypeOK'
  <2>1. Ack(x, n) \in Packet  BY <1>1, <1>5 DEF Ack, Packet
  <2>2. net' \subseteq Packet  BY <1>3, <2>1 DEF IInv, TypeOK
  <2>3. Append(got[s], b) \in Seq(Block)  BY <1>1, <1>6
  <2>4. /\ tid' \in [Sessions -> Nat]
        /\ st' \in [Sessions -> {"new", "asking", "receiving", "done", "gone"}]
    BY <1>1, <1>2 DEF IInv, TypeOK
  <2>5. got' \in [Sessions -> Seq(Block)]
    BY <1>2, <2>3 DEF IInv, TypeOK
  <2> QED BY <1>3, <2>2, <2>4, <2>5 DEF IInv, TypeOK, serverVars
<1>11. Blocks(x)' = Blocks(x) /\ Blocks(x) = Full[m.ver] + 1 /\ Full[m.ver] \in Nat
  <2>1. Full[m.ver] \in Nat  BY <1>5, TransferAssumption DEF Versions
  <2>2. Blocks(x) = Full[m.ver] + 1  BY <1>5 DEF Blocks
  <2>3. Blocks(x)' = Blocks(x)  BY <1>8 DEF Blocks
  <2> QED BY <2>1, <2>2, <2>3
<1>12. SessionOK(s)'
  <2>1. \A i \in 1..Len(got'[s]) :
          got'[s][i] = [ver |-> xfers[x].ver, blk |-> i]
    <3> SUFFICES ASSUME NEW i \in 1..n
                 PROVE  got'[s][i] = [ver |-> xfers[x].ver, blk |-> i]
      BY <1>9
    <3>1. CASE i = n
      BY <3>1, <1>5, <1>9 DEF b
    <3>2. CASE i # n
      <4>1. i \in 1..Len(got[s])  BY <3>2, <1>5, <1>1
      <4>2. tid[s] = x  BY <4>1, <1>1, <1>2 DEF SessionOK
      <4>3. x # 0  BY <1>1
      <4> QED BY <4>1, <4>2, <4>3, <1>1, <1>5, <1>9 DEF SessionOK
    <3> QED BY <3>1, <3>2
  <2>2. Len(got'[s]) <= Blocks(x)' /\ (Len(got'[s]) = Blocks(x)' => st'[s] = "done")
    BY <1>5, <1>7, <1>9, <1>11
  <2> QED BY <2>1, <2>2, <1>1, <1>7, <1>8 DEF SessionOK
<1>13. PacketOK(Ack(x, n))'
  <2>1. Received(x)' = n  BY <1>1, <1>7, <1>8, <1>9 DEF Received
  <2> QED BY <2>1, <1>1, <1>5, <1>8 DEF PacketOK, Ack
<1>14. x \notin done
  BY <1>1, <1>4, <1>5 DEF IInv, DoneOK
<1>15. Len(got'[s]) \in Nat /\ Len(got'[s]) >= Len(got[s])
  BY <1>1, <1>5, <1>9
<1> QED BY <1>1, <1>2, <1>3, <1>7, <1>10, <1>12, <1>13, <1>14, <1>15, SessionStep

\* An answer that changes no session.
LEMMA AnswerKeeps ==
  ASSUME IInv, NEW m \in net, ClientAgain(m) \/ ClientRejects(m),
         UNCHANGED <<version, asks, serverVars>>
  PROVE  IInv'
<1> DEFINE s == Peer(m)
           x == m.xfer
<1>1. UNCHANGED <<xfers, tid, got, st, done, pc, blk>> /\ Xfer' = Xfer
  BY DEF ClientAgain, ClientRejects, clientVars, serverVars, Xfer
<1>2. PICK a \in Packet : PacketOK(a) /\ Deliver(m, {a})
  <2>1. CASE ClientAgain(m)
    <3>1. Len(got[s]) \in Nat /\ x \in Nat /\ x \in 1..Xfer  BY Addressed
    <3>2. Received(x) = Len(got[s])  BY <2>1 DEF ClientAgain, Received, Peer
    <3>3. Ack(x, Len(got[s])) \in Packet /\ PacketOK(Ack(x, Len(got[s])))
      BY <3>1, <3>2 DEF Ack, Packet, PacketOK
    <3> QED BY <2>1, <3>3 DEF ClientAgain
  <2>2. CASE ClientRejects(m)
    <3>1. Error(x) \in Packet /\ PacketOK(Error(x))
      BY Addressed DEF Error, Packet, PacketOK
    <3> QED BY <2>2, <3>1 DEF ClientRejects
  <2> QED BY <2>1, <2>2
<1>3. net' \subseteq net \cup {a} /\ repeats' \in Nat
  BY <1>2, Delivered DEF IInv, TypeOK
<1>4. TypeOK'
  BY <1>1, <1>2, <1>3 DEF IInv, TypeOK, serverVars
<1>5. ServerOK'
  BY <1>1, ClientsKept DEF IInv, ServerOK
<1>6. \A p \in net' : PacketOK(p)'
  BY <1>1, <1>2, <1>3, ClientsKept DEF IInv
<1> QED BY <1>1, <1>4, <1>5, <1>6, ClientsKept DEF IInv

\* A session begins, asks again or ends; nothing it received changes.
LEMMA AskKeeps ==
  ASSUME IInv, NEW s \in Sessions, Ask(s) \/ GiveUp(s)
  PROVE  IInv'
<1>1. /\ UNCHANGED <<xfers, tid, got, done, pc, blk, version, size, tries,
                     outdated, repeats>>
      /\ Xfer' = Xfer
  BY DEF Ask, GiveUp, clientVars, serverVars, Xfer
<1>2. /\ st[s] \in {"new", "asking", "receiving"}
      /\ \E w \in {"asking", "gone"} : st' = [st EXCEPT ![s] = w]
  BY DEF Ask, GiveUp
<1>3. \/ net' \subseteq net
      \/ net' \subseteq net \cup {Error(tid[s])} /\ pc # "listen" /\ tid[s] = Xfer
  <2>1. CASE Ask(s)
    BY <2>1 DEF Ask
  <2>2. CASE GiveUp(s)
    <3>1. PICK answers \in SUBSET {Error(tid[s])} :
            net' \subseteq net \cup Arriving(answers)
      BY <2>2 DEF GiveUp
    <3>2. \A e \in Arriving(answers) :
            e = Error(tid[s]) /\ pc # "listen" /\ tid[s] = Xfer
      BY DEF Arriving, ToClient, Error
    <3> QED BY <3>1, <3>2
  <2> QED BY <2>1, <2>2
<1>4. SessionOK(s)  BY DEF IInv
<1>5. tid[s] \in Nat /\ Error(tid[s]) \in Packet
  BY DEF IInv, TypeOK, Error, Packet
<1>6. TypeOK'
  <2>1. st' \in [Sessions -> {"new", "asking", "receiving", "done", "gone"}]
    BY <1>2 DEF IInv, TypeOK
  <2>2. listener' \in Seq(Request) /\ asks' \in Nat
    <3>1. listener \in Seq(Request) /\ asks \in Nat  BY DEF IInv, TypeOK
    <3>2. \A q \in Request : Append(listener, q) \in Seq(Request)  BY <3>1
    <3>3. CASE Ask(s)
      <4>1. PICK q \in Request : listener' = Append(listener, q)
        BY <3>3 DEF Ask
      <4> QED BY <3>1, <3>2, <3>3, <4>1 DEF Ask
    <3>4. CASE GiveUp(s)
      BY <3>1, <3>4 DEF GiveUp, serverVars
    <3> QED BY <3>3, <3>4
  <2>3. net' \subseteq Packet  BY <1>3, <1>5 DEF IInv, TypeOK
  <2> QED BY <1>1, <2>1, <2>2, <2>3 DEF IInv, TypeOK
<1>7. \A x : Received(x)' = Received(x) /\ Blocks(x)' = Blocks(x)
  BY <1>1 DEF Received, Blocks
<1>8. ServerOK' /\ DoneOK'
  BY <1>1, <1>7 DEF IInv, ServerOK, DoneOK
<1>9. ASSUME NEW m \in net'  PROVE PacketOK(m)'
  <2>1. CASE m \in net
    BY <2>1, <1>1, <1>7 DEF IInv, PacketOK
  <2>2. CASE m \notin net
    <3>1. m = Error(tid[s]) /\ pc # "listen" /\ tid[s] = Xfer  BY <2>2, <1>3
    <3>2. Xfer \in 1..Xfer  BY <3>1 DEF IInv, ServerOK, TypeOK, Xfer
    <3> QED BY <3>1, <3>2, <1>1 DEF PacketOK, Error
  <2> QED BY <2>1, <2>2
<1>10. ASSUME NEW r \in Sessions  PROVE SessionOK(r)'
  <2>1. SessionOK(r)  BY DEF IInv
  <2>2. st[r] = "done" => st'[r] = "done"
    BY <1>2 DEF IInv, TypeOK
  <2> QED BY <2>1, <2>2, <1>1, <1>7 DEF SessionOK
<1> QED BY <1>6, <1>8, <1>9, <1>10 DEF IInv

\* A client that acknowledges its last block again tells the server nothing new.
LEMMA RepeatKeeps ==
  ASSUME IInv, NEW s \in Sessions, ClientRepeat(s)
  PROVE  IInv'
<1> DEFINE a == Ack(tid[s], Len(got[s]))
<1>1. UNCHANGED <<version, asks, repeats, size, listener, pc, xfers, blk, tries,
                  done, outdated, st, tid, got>>
  BY DEF ClientRepeat, serverVars, clientVars
<1>2. net' \subseteq net \cup Arriving({a})
  BY DEF ClientRepeat
<1>3. tid[s] \in Nat /\ Len(got[s]) \in Nat /\ SessionOK(s)
  BY DEF IInv, TypeOK
<1>4. ASSUME NEW m \in Arriving({a})  PROVE m \in Packet /\ PacketOK(m)
  <2>1. m = a /\ m.kind = "ack" /\ pc # "listen" /\ m.xfer = Xfer /\ tid[s] = Xfer
    BY DEF Arriving, ToClient, Ack
  <2>2. Xfer \in 1..Xfer  BY <2>1 DEF IInv, ServerOK, TypeOK, Xfer
  <2>3. Received(Xfer) = Len(got[s])
    BY <2>1, <2>2, <1>3 DEF SessionOK, Received
  <2> QED BY <2>1, <2>2, <2>3, <1>3 DEF Ack, Packet, PacketOK
<1>5. TypeOK'  BY <1>1, <1>2, <1>4 DEF IInv, TypeOK
<1>6. ServerOK'  BY <1>1, ClientsKept DEF IInv, ServerOK, Xfer
<1>7. \A m \in net' : PacketOK(m)'
  BY <1>1, <1>2, <1>4, ClientsKept DEF IInv
<1> QED BY <1>1, <1>5, <1>6, <1>7, ClientsKept DEF IInv

-----------------------------------------------------------------------------
(* The invariant holds.                                                    *)

\* Every step keeps the invariant.
LEMMA StepHolds == IInv /\ [Next]_vars => IInv'
<1> SUFFICES ASSUME IInv, [Next]_vars  PROVE IInv'
  OBVIOUS
<1>1. CASE Server
  BY <1>1, AcceptKeeps, RefuseKeeps, OackKeeps, DataTimeoutKeeps, DataAckKeeps,
     StaleAckKeeps
  DEF Server
<1>2. CASE \E s \in Sessions : Ask(s) \/ GiveUp(s)
  BY <1>2, AskKeeps
<1>3. CASE \E s \in Sessions : ClientRepeat(s)
  BY <1>3, RepeatKeeps
<1>4. CASE ClientReceive
  BY <1>4, ClientOackKeeps, ClientDataKeeps, AnswerKeeps DEF ClientReceive
<1>5. CASE Rebuild
  <2>1. UNCHANGED <<xfers, tid, got, st, net, pc, blk, done>>
    BY <1>5 DEF Rebuild, serverVars, clientVars
  <2>2. TypeOK'
    <3>1. version' \in Versions
      BY <1>5, TransferAssumption DEF Rebuild, Versions, IInv, TypeOK
    <3> QED BY <1>5, <3>1 DEF IInv, TypeOK, Rebuild, serverVars, clientVars
  <2>3. ServerOK'  BY <2>1, ClientsKept DEF IInv, ServerOK, Xfer
  <2> QED BY <2>1, <2>2, <2>3, ClientsKept DEF IInv
<1>6. CASE UNCHANGED vars
  <2>1. UNCHANGED <<xfers, tid, got, st, net, pc, blk, done>> /\ TypeOK'
    BY <1>6 DEF vars, serverVars, clientVars, IInv, TypeOK
  <2>2. ServerOK'  BY <2>1, ClientsKept DEF IInv, ServerOK, Xfer
  <2> QED BY <2>1, <2>2, ClientsKept DEF IInv
<1> QED BY <1>1, <1>2, <1>3, <1>4, <1>5, <1>6 DEF Next

\* The invariant holds throughout.
LEMMA Invariant == Spec => []IInv
<1>1. Init => IInv  BY InitHolds
<1>2. IInv /\ [Next]_vars => IInv'  BY StepHolds
<1> QED BY <1>1, <1>2, PTL DEF Spec

\* Every variable keeps its type.
THEOREM TypeInvariant == Spec => []TypeOK
<1>1. IInv => TypeOK  BY DEF IInv
<1> QED BY <1>1, Invariant, PTL

\* serve_one's client receives the beginning of one image, every block once
\* and in order, for every image, width of the block number and network that
\* delays no packet by a whole lap of numbers.
THEOREM TransferExact == Spec => []ImageExact
<1>1. IInv => ImageExact
  <2> SUFFICES ASSUME IInv, NEW s \in Sessions, got[s] # <<>>
               PROVE  /\ tid[s] \in 1..Xfer
                      /\ \A i \in 1..Len(got[s]) :
                           got[s][i] = [ver |-> xfers[tid[s]].ver, blk |-> i]
                      /\ Len(got[s]) <= Full[xfers[tid[s]].ver] + 1
    BY DEF ImageExact
  <2>1. SessionOK(s) /\ Xfer \in Nat  BY DEF IInv, TypeOK, Xfer
  <2> QED BY <2>1 DEF SessionOK, Blocks
<1> QED BY <1>1, Invariant, PTL

\* serve_one logs DONE only when its client has the whole image.
THEOREM DoneIsWhole == Spec => []DoneMeansWhole
<1>1. IInv => DoneMeansWhole
  <2> SUFFICES ASSUME IInv, NEW x \in done
               PROVE  /\ tid[xfers[x].peer] = x /\ st[xfers[x].peer] = "done"
                      /\ Len(got[xfers[x].peer]) = Full[xfers[x].ver] + 1
    BY DEF DoneMeansWhole
  <2>1. x \in 1..Xfer /\ Received(x) = Blocks(x)  BY DEF IInv, DoneOK
  <2>2. Blocks(x) \in Nat \ {0} /\ xfers[x].peer \in Sessions  BY <2>1, Counts
  <2>3. tid[xfers[x].peer] = x /\ Len(got[xfers[x].peer]) = Blocks(x)
    BY <2>1, <2>2 DEF Received
  <2>4. SessionOK(xfers[x].peer)  BY <2>2 DEF IInv
  <2>5. x # 0  BY <2>1
  <2> QED BY <2>3, <2>4, <2>5 DEF SessionOK, Blocks
<1> QED BY <1>1, Invariant, PTL

-----------------------------------------------------------------------------
(* No transfer for a client of long ago.                                   *)

\* Whoever is outdated asks no more, and nobody outdated is in the backlog,
\* since both begin anew when the server returns to its socket.
Backlog ==
  /\ \A s \in outdated : st[s] \notin {"new", "asking"}
  /\ \A i \in 1..Len(listener) : listener[i].session \notin outdated
  /\ NoStaleRequest

\* Back at the listening socket the backlog is empty and the outdated ask no more.
LEMMA ReturnClears ==
  ASSUME Return, st' = st
  PROVE  Backlog'
<1>1. \A s \in outdated' : st'[s] \notin {"new", "asking"}
  BY DEF Return
<1>2. Len(listener') = 0  BY DEF Return, Drain
<1>3. pc' = "listen"  BY DEF Return
<1> QED BY <1>1, <1>2, <1>3 DEF Backlog, NoStaleRequest

\* The server's steps keep the backlog free of outdated requests.
LEMMA ServerBacklog ==
  ASSUME IInv, Backlog, Server
  PROVE  Backlog'
<1>0. st' = st  BY DEF Server, Accept, Refuse, OackTimeout, OackAbort, OackAck,
                       ClientError, DataTimeout, DataAck, StaleAck, clientVars
<1>1. CASE Return  BY <1>0, <1>1, ReturnClears
<1>2. CASE Accept
  <2>1. PICK i \in 1..Len(listener) :
          xfers' = Append(xfers, [peer |-> listener[i].session, ver |-> version,
                                  tsize |-> IF listener[i].options THEN Tsize ELSE 0])
    BY <1>2 DEF Accept
  <2>2. xfers'[Len(xfers')].peer = listener[i].session
    BY <2>1 DEF IInv, TypeOK
  <2>3. Len(listener') = 0 /\ outdated' = outdated  BY <1>2 DEF Accept
  <2> QED BY <2>2, <2>3, <1>0 DEF Backlog, NoStaleRequest, Xfer
<1>3. CASE /\ pc # "listen"
           /\ UNCHANGED <<listener, outdated, xfers>>
  BY <1>0, <1>3 DEF Backlog, NoStaleRequest, Xfer
<1> QED BY <1>1, <1>2, <1>3
        DEF Server, Refuse, OackTimeout, OackAbort, OackAck, ClientError,
            DataTimeout, DataAck, StaleAck, serverVars

\* So does a client that asks or gives up.
LEMMA AskBacklog ==
  ASSUME IInv, Backlog, NEW s \in Sessions, Ask(s) \/ GiveUp(s)
  PROVE  Backlog'
<1>1. UNCHANGED <<outdated, pc, xfers>>
  BY DEF Ask, GiveUp, serverVars
<1>2. NoStaleRequest'  BY <1>1 DEF Backlog, NoStaleRequest, Xfer
<1>3. CASE Ask(s)
  <2>1. s \notin outdated  BY <1>3 DEF Ask, Backlog
  <2>2. PICK r \in Request : r.session = s /\ listener' = Append(listener, r)
    BY <1>3 DEF Ask
  <2>3. listener \in Seq(Request) /\ outdated \subseteq Sessions
    BY DEF IInv, TypeOK
  <2>4. \A i \in 1..Len(listener') : listener'[i].session \notin outdated
    <3> SUFFICES ASSUME NEW i \in 1..Len(listener')
                 PROVE  listener'[i].session \notin outdated
      OBVIOUS
    <3>1. CASE i = Len(listener) + 1  BY <3>1, <2>1, <2>2, <2>3
    <3>2. CASE i # Len(listener) + 1
      <4>1. i \in 1..Len(listener) /\ listener'[i] = listener[i]
        BY <3>2, <2>2, <2>3
      <4> QED BY <4>1 DEF Backlog
    <3> QED BY <3>1, <3>2
  <2>5. \A q \in outdated : st'[q] = st[q]
    BY <1>3, <2>1, <2>3 DEF Ask, IInv, TypeOK
  <2> QED BY <1>1, <1>2, <2>4, <2>5 DEF Backlog
<1>4. CASE GiveUp(s)
  <2>1. \A r \in outdated : st'[r] \in {st[r], "gone"}
    BY <1>4 DEF GiveUp, IInv, TypeOK
  <2>2. listener' = listener  BY <1>4 DEF GiveUp, serverVars
  <2> QED BY <1>1, <1>2, <2>1, <2>2 DEF Backlog
<1> QED BY <1>3, <1>4

\* So does a client that receives.
LEMMA ReceiveBacklog ==
  ASSUME IInv, Backlog, ClientReceive
  PROVE  Backlog'
<1>1. UNCHANGED <<outdated, pc, xfers, listener>>
  BY DEF ClientReceive, serverVars
<1>2. PICK m \in net :
        ClientOack(m) \/ ClientData(m) \/ ClientAgain(m) \/ ClientRejects(m)
  BY DEF ClientReceive
<1>3. \A r \in Sessions : st'[r] \in {st[r], "receiving", "done"}
  <2>1. CASE ClientOack(m)  BY <2>1 DEF ClientOack, IInv, TypeOK
  <2>2. CASE ClientData(m)
    <3>1. PICK w \in {"done", "receiving"} : st' = [st EXCEPT ![Peer(m)] = w]
      BY <2>2 DEF ClientData
    <3> QED BY <3>1 DEF IInv, TypeOK
  <2>3. CASE ClientAgain(m) \/ ClientRejects(m)
    BY <2>3 DEF ClientAgain, ClientRejects, clientVars
  <2> QED BY <1>2, <2>1, <2>2, <2>3
<1>4. outdated \subseteq Sessions  BY DEF IInv, TypeOK
<1> QED BY <1>1, <1>3, <1>4 DEF Backlog, NoStaleRequest, Xfer

\* Requests that queued up during a transfer start none for a client that had
\* finished or given up when the server came back to listen.
THEOREM RequestsCurrent == Spec => []NoStaleRequest
<1>1. Init => Backlog
  BY DEF Init, Backlog, NoStaleRequest
<1>2. IInv /\ Backlog /\ [Next]_vars => Backlog'
  <2> SUFFICES ASSUME IInv, Backlog, [Next]_vars  PROVE Backlog'
    OBVIOUS
  <2>1. CASE Rebuild \/ (\E s \in Sessions : ClientRepeat(s)) \/ UNCHANGED vars
    BY <2>1 DEF Rebuild, ClientRepeat, vars, serverVars, clientVars, Backlog, NoStaleRequest, Xfer
  <2> QED BY <2>1, ServerBacklog, AskBacklog, ReceiveBacklog DEF Next
<1>3. Backlog => NoStaleRequest  BY DEF Backlog
<1> QED BY <1>1, <1>2, <1>3, Invariant, PTL DEF Spec

=============================================================================
