------------------------------ MODULE TftpSend ------------------------------
(***************************************************************************)
(* The TFTP server that boots the router, tools/host/tftp_send.py, and the *)
(* client in ROMMON it serves (external, read off what the server expects  *)
(* of it).                                                                 *)
(*                                                                         *)
(* The server is one loop: take a read request off the listening socket,   *)
(* serve it in lock step over a fresh transfer socket, discard what queued *)
(* up meanwhile.  A client that gives up asks again from a new port: a     *)
(* session.  An image of n full blocks is sent as n + 1 packets, the last  *)
(* one short, possibly empty.                                              *)
(*                                                                         *)
(* Transfer packets may be lost, repeated, delayed and reordered: net is   *)
(* the set of packets under way and any of them may be delivered, or never.*)
(* A packet carries its absolute block number so that the network's        *)
(* lifetime can be stated (Fresh); who receives it sees the number modulo  *)
(* Wire, as the 16-bit field does.                                         *)
(***************************************************************************)
EXTENDS Integers, Sequences

CONSTANTS
  Root,          \* main: a directory is served, not one file
  Full,          \* per version of the image: its full blocks
  Wire,          \* block numbers on the wire: 2^16
  MaxTries,      \* timeouts of one block before the server gives up: 10
  OackTimeouts,  \* timeouts that fit into the 30 s of an option reply: 6
  NumSessions,   \* bound: attempts of the client
  MaxAsks,       \* bound: packets sent to the listening socket
  MaxRepeats     \* bound: packets the network delivers twice

ASSUME TransferAssumption ==
  /\ Root \in BOOLEAN
  /\ Full \in Seq(Nat) /\ Len(Full) > 0
  /\ Wire \in Nat \ {0}
  /\ MaxTries \in Nat /\ OackTimeouts \in Nat
  /\ NumSessions \in Nat /\ MaxAsks \in Nat /\ MaxRepeats \in Nat

VARIABLES
  version,    \* the image on disk
  size,       \* main: the version whose size was measured
  listener,   \* requests queued on the listening socket
  pc,         \* "listen", "oack" (awaiting ACK 0) or "data" (awaiting blk)
  xfers,      \* transfers so far: whom they serve, what they opened and
              \* what size they announced (0: none); the last is current
  blk, tries,
  done,       \* history: transfers logged as DONE
  net,        \* transfer packets under way
  st,         \* per session: what the client is doing
  tid,        \* per session: the transfer it answers, 0 for none
  got,        \* per session: blocks received
  asks, repeats,
  outdated    \* history: sessions over when the server last began to listen

serverVars == <<size, listener, pc, xfers, blk, tries, done, outdated>>
clientVars == <<st, tid, got>>
vars == <<version, net, asks, repeats, serverVars, clientVars>>

Versions == 1..Len(Full)
Sessions == 1..NumSessions
Block    == [ver : Versions, blk : Nat]
Transfer == [peer : Sessions, ver : Versions, tsize : Versions \cup {0}]
Packet   == [kind : {"oack", "data", "ack", "error"}, xfer : Nat, abs : Nat,
             ver : Versions \cup {0}]
\* A read request, one for a name that resolve does not find, another opcode.
Request  == [op : {"read"}, options : BOOLEAN, session : Sessions]
              \cup [op : {"missing", "other"}, session : Sessions]

TypeOK ==
  /\ version \in Versions /\ size \in Versions
  /\ listener \in Seq(Request)
  /\ pc \in {"listen", "oack", "data"}
  /\ xfers \in Seq(Transfer)
  /\ blk \in Nat /\ tries \in Nat
  /\ done \subseteq Nat
  /\ net \subseteq Packet
  /\ st \in [Sessions -> {"new", "asking", "receiving", "done", "gone"}]
  /\ tid \in [Sessions -> Nat]
  /\ got \in [Sessions -> Seq(Block)]
  /\ asks \in Nat /\ repeats \in Nat
  /\ outdated \subseteq Sessions

Init ==
  /\ version = 1 /\ size = 1
  /\ listener = <<>> /\ pc = "listen" /\ xfers = <<>>
  /\ blk = 0 /\ tries = 0 /\ done = {} /\ net = {}
  /\ st = [s \in Sessions |-> "new"]
  /\ tid = [s \in Sessions |-> 0]
  /\ got = [s \in Sessions |-> <<>>]
  /\ asks = 0 /\ repeats = 0 /\ outdated = {}

-----------------------------------------------------------------------------
(* Packets.                                                                *)

Xfer == Len(xfers)
Oack(x)       == [kind |-> "oack", xfer |-> x, abs |-> 0, ver |-> 0]
Data(x, v, b) == [kind |-> "data", xfer |-> x, abs |-> b, ver |-> v]
Ack(x, b)     == [kind |-> "ack", xfer |-> x, abs |-> b, ver |-> 0]
Error(x)      == [kind |-> "error", xfer |-> x, abs |-> 0, ver |-> 0]
ToClient(m)   == m.kind \in {"oack", "data"}
Peer(m)       == xfers[m.xfer].peer

\* Block numbers are 16 bits wide on the wire.  Mutant: the field is too narrow.
Narrow(b) == b % (Wire - 1)
OnWire(b) == b % Wire

\* No packet outlives a whole lap of block numbers.
Fresh(abs, expected) == abs > expected - Wire

\* What is sent to a transfer socket that is closed is lost.
Arriving(answers) ==
  {a \in answers : ToClient(a) \/ (pc # "listen" /\ a.xfer = Xfer)}

\* m is delivered and answered; the network may deliver it once more.
Deliver(m, answers) ==
  \/ net' = (net \ {m}) \cup Arriving(answers) /\ UNCHANGED repeats
  \/ /\ repeats < MaxRepeats /\ repeats' = repeats + 1
     /\ net' = net \cup Arriving(answers)

-----------------------------------------------------------------------------
(* serve_one: taking a request.                                            *)

\* The most recent read request of the backlog, or what came first.
Chosen(i) ==
  /\ i \in 1..Len(listener)
  /\ \A j \in (i + 1)..Len(listener) : listener[j].op = "other"
  /\ listener[i].op # "other" \/ i = 1

\* main discards what queued up during the transfer.
\* Mutant: nothing is discarded.
KeepBacklog == UNCHANGED listener
Drain == listener' = <<>>

\* serve_one closes its socket and returns; its locals are gone.
Return ==
  /\ pc' = "listen" /\ blk' = 0 /\ tries' = 0
  /\ net' = {m \in net : ToClient(m)}
  /\ outdated' = {s \in Sessions : st[s] \in {"done", "gone"}}
  /\ Drain

\* Not a read request, or a directory is served and has no such file.
Refuse ==
  /\ pc = "listen"
  /\ \E i \in 1..Len(listener) : Chosen(i) /\ listener[i].op # "read"
  /\ Return
  /\ UNCHANGED <<version, asks, repeats, size, xfers, done, clientVars>>

\* The size that answers the tsize option: measured when the server started,
\* or, in a directory, now.
Tsize == IF Root THEN version ELSE size

\* A block is read, to be sent for the first time.
NewBlock(b) == pc' = "data" /\ blk' = b /\ tries' = 0

Accept ==
  /\ pc = "listen"
  /\ \E i \in 1..Len(listener) :
       /\ Chosen(i) /\ listener[i].op = "read"
       /\ xfers' = Append(xfers,
                     [peer |-> listener[i].session, ver |-> version,
                      tsize |-> IF listener[i].options THEN Tsize ELSE 0])
       /\ \/ /\ listener[i].options
             /\ pc' = "oack" /\ blk' = 0 /\ tries' = 0
             /\ net' = net \cup {Oack(Xfer + 1)}
          \/ /\ ~listener[i].options
             /\ NewBlock(1)
             /\ net' = net \cup {Data(Xfer + 1, version, 1)}
  /\ listener' = <<>>
  /\ UNCHANGED <<version, asks, repeats, size, done, outdated,
                 clientVars>>

-----------------------------------------------------------------------------
(* serve_one: the option reply.                                            *)

ToServer(kind) == {m \in net : m.xfer = Xfer /\ m.kind = kind}

OackTimeout ==
  /\ pc = "oack" /\ tries < OackTimeouts
  /\ tries' = tries + 1
  /\ net' = net \cup {Oack(Xfer)}
  /\ UNCHANGED <<version, asks, repeats, size, listener, pc, xfers, blk,
                 done, outdated, clientVars>>

\* The deadline has passed: late packets use up time too, so at any timeout.
OackAbort ==
  /\ pc = "oack"
  /\ Return
  /\ UNCHANGED <<version, asks, repeats, size, xfers, done, clientVars>>

OackAck ==
  /\ pc = "oack"
  /\ \E m \in ToServer("ack") :
       /\ Fresh(m.abs, blk)
       /\ OnWire(m.abs) = 0
       /\ NewBlock(1)
       /\ Deliver(m, {Data(Xfer, xfers[Xfer].ver, 1)})
  /\ UNCHANGED <<version, asks, size, listener, xfers, done, outdated,
                 clientVars>>

\* The client's error ends the transfer in either loop.
ClientError ==
  /\ pc # "listen"
  /\ ToServer("error") # {}
  /\ Return
  /\ UNCHANGED <<version, asks, repeats, size, xfers, done, clientVars>>

-----------------------------------------------------------------------------
(* serve_one: the data blocks.                                             *)

\* A timeout counts a try.  Mutants: the count starts again, or goes down.
NoCount(t) == 0
CountDown(t) == t - 1
NextTry(t) == t + 1

DataTimeout ==
  /\ pc = "data"
  /\ \/ /\ NextTry(tries) <= MaxTries
        /\ tries' = NextTry(tries)
        /\ net' = net \cup {Data(Xfer, xfers[Xfer].ver, blk)}
        /\ UNCHANGED <<pc, blk, listener, outdated>>
     \/ /\ NextTry(tries) > MaxTries
        /\ Return
  /\ UNCHANGED <<version, asks, repeats, size, xfers, done, clientVars>>

\* The acknowledgement of the current block.
Matches(n) == n = OnWire(blk)

\* A block shorter than the block size ends the image.
\* Mutant: the transfer ends with the last full block.
LastFull(b, v) == b >= Full[v]
Short(b, v) == b > Full[v]

DataAck ==
  /\ pc = "data"
  /\ LET v == xfers[Xfer].ver IN
     \E m \in ToServer("ack") :
       /\ Fresh(m.abs, blk) /\ Matches(OnWire(m.abs))
       /\ \/ /\ ~Short(blk, v)
             /\ NewBlock(blk + 1)
             /\ Deliver(m, {Data(Xfer, v, blk + 1)})
             /\ UNCHANGED <<listener, done, outdated>>
          \/ /\ Short(blk, v)
             /\ done' = done \cup {Xfer}
             /\ Return
             /\ UNCHANGED repeats
  /\ UNCHANGED <<version, asks, size, xfers, clientVars>>

\* Any other acknowledgement: the current block again.  The five seconds start
\* anew and no try is counted.
StaleAck ==
  /\ pc = "data"
  /\ \E m \in ToServer("ack") :
       /\ Fresh(m.abs, blk) /\ ~Matches(OnWire(m.abs))
       /\ Deliver(m, {Data(Xfer, xfers[Xfer].ver, blk)})
  /\ UNCHANGED <<version, asks, serverVars, clientVars>>

Server == \/ Accept \/ Refuse \/ OackTimeout \/ OackAbort \/ OackAck
          \/ ClientError \/ DataTimeout \/ DataAck \/ StaleAck

-----------------------------------------------------------------------------
(* The client (external) and the person who builds images.                 *)

\* One attempt after the other; a request is sent again when no answer comes.
\* The name it asks for matters only where a directory is served.
Ask(s) ==
  /\ asks < MaxAsks /\ asks' = asks + 1
  /\ st[s] \in {"new", "asking"}
  /\ \A r \in Sessions : r < s => st[r] \in {"done", "gone"}
  /\ st' = [st EXCEPT ![s] = "asking"]
  /\ \E r \in Request :
       /\ r.session = s
       /\ r.op = "missing" => Root
       /\ listener' = Append(listener, r)
  /\ UNCHANGED <<version, net, repeats, size, pc, xfers, blk, tries,
                 done, outdated, tid, got>>

Live(s) == st[s] \in {"asking", "receiving", "done"}

\* An option reply opens the transfer; until data arrives it is answered again.
ClientOack(m) ==
  LET s == Peer(m) IN
  /\ m.kind = "oack" /\ Live(s)
  /\ tid[s] \in {0, m.xfer} /\ got[s] = <<>>
  /\ tid' = [tid EXCEPT ![s] = m.xfer]
  /\ st' = [st EXCEPT ![s] = "receiving"]
  /\ Deliver(m, {Ack(m.xfer, 0)})
  /\ UNCHANGED got

\* The expected block is kept and acknowledged; a short one is the last.
ClientData(m) ==
  LET s == Peer(m)
      n == Len(got[s]) + 1 IN
  /\ m.kind = "data" /\ Live(s)
  /\ tid[s] \in {0, m.xfer}
  /\ Fresh(m.abs, n) /\ OnWire(m.abs) = OnWire(n)
  /\ tid' = [tid EXCEPT ![s] = m.xfer]
  /\ got' = [got EXCEPT ![s] = Append(@, [ver |-> m.ver, blk |-> m.abs])]
  /\ st' = [st EXCEPT ![s] = IF m.abs > Full[m.ver] THEN "done" ELSE "receiving"]
  /\ Deliver(m, {Ack(m.xfer, n)})

\* The block before it comes again: its acknowledgement was lost or is late.
ClientAgain(m) ==
  LET s == Peer(m)
      n == Len(got[s]) IN
  /\ m.kind = "data" /\ Live(s)
  /\ tid[s] = m.xfer
  /\ Fresh(m.abs, n + 1) /\ OnWire(m.abs) = OnWire(n)
  /\ Deliver(m, {Ack(m.xfer, n)})
  /\ UNCHANGED clientVars

\* A packet of another transfer than the one this session answers.
ClientRejects(m) ==
  LET s == Peer(m) IN
  /\ ToClient(m) /\ Live(s) /\ tid[s] \notin {0, m.xfer}
  /\ Deliver(m, {Error(m.xfer)})
  /\ UNCHANGED clientVars

ClientReceive ==
  /\ \E m \in net :
       ClientOack(m) \/ ClientData(m) \/ ClientAgain(m) \/ ClientRejects(m)
  /\ UNCHANGED <<version, asks, serverVars>>

\* The client has waited long enough for a block and acknowledges the last one
\* again, as often as it likes.
ClientRepeat(s) ==
  /\ st[s] = "receiving"
  /\ net' = net \cup Arriving({Ack(tid[s], Len(got[s]))})
  /\ UNCHANGED <<version, asks, repeats, serverVars, clientVars>>

\* The client stops, with or without an error packet, and closes its port.
GiveUp(s) ==
  /\ st[s] \in {"asking", "receiving"}
  /\ st' = [st EXCEPT ![s] = "gone"]
  /\ \E answers \in SUBSET {Error(tid[s])} :
       net' = {m \in net : ToClient(m) => Peer(m) # s} \cup Arriving(answers)
  /\ UNCHANGED <<version, asks, repeats, serverVars, tid, got>>

\* The next build puts a new file in the image's place; one already open stays as
\* it is.  (A build that wrote into the open file is not modelled.)
Rebuild ==
  /\ version < Len(Full)
  /\ version' = version + 1
  /\ UNCHANGED <<net, asks, repeats, serverVars, clientVars>>

Next == \/ Server
        \/ \E s \in Sessions : Ask(s) \/ ClientRepeat(s) \/ GiveUp(s)
        \/ ClientReceive
        \/ Rebuild

Spec == Init /\ [][Next]_vars

\* The process runs, and a receive returns or times out after five seconds.
FairSpec == Spec /\ WF_vars(Server)

-----------------------------------------------------------------------------
(* Properties.                                                             *)

\* What a session has received is the beginning of one version of the image:
\* every block once and in order, across lost, repeated and late packets, the
\* wrap of the 16-bit block number and a rebuild that replaces the file during
\* the transfer.
ImageExact ==
  \A s \in Sessions : got[s] # <<>> =>
    /\ tid[s] \in 1..Xfer
    /\ \A i \in 1..Len(got[s]) :
         got[s][i] = [ver |-> xfers[tid[s]].ver, blk |-> i]
    /\ Len(got[s]) <= Full[xfers[tid[s]].ver] + 1

\* serve_one logs DONE only when its client has the whole image, the empty
\* last block of an image of full blocks included.
DoneMeansWhole ==
  \A x \in done :
    LET s == xfers[x].peer IN
    tid[s] = x /\ st[s] = "done" /\ Len(got[s]) = Full[xfers[x].ver] + 1

\* No transfer starts for a client that had finished or given up before the
\* server began to listen for it: requests left over from before are gone
\* (drain).
NoStaleRequest ==
  pc # "listen" => xfers[Xfer].peer \notin outdated

\* Every transfer ends and the server comes back to its listening socket, whatever
\* is lost and whenever the client falls silent: every wait for a block counts
\* its timeouts.  Only an endless stream of stale acknowledgements can hold it,
\* for each of them starts the wait anew and none is counted.
TransferEnds == []<><<StaleAck>>_vars \/ (pc # "listen" ~> pc = "listen")

=============================================================================
