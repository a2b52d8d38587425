------------------------------ MODULE NmConsole ------------------------------
(***************************************************************************)
(* The reverse-telnet server, tools/nm32a/nmconsole.c: one process, one    *)
(* select loop, a listening socket, a client and a tty per port.           *)
(*                                                                         *)
(* The server is one thread; the clients and the lines act between any two *)
(* of its system calls.  What matters here is which descriptor a call acts *)
(* on and whether it can block: descriptors are small numbers, the lowest  *)
(* free one is handed out, and the fd_set of a pass keeps the numbers it   *)
(* was built from.  Client sockets block, ttys are O_NONBLOCK.             *)
(*                                                                         *)
(* The client's stream is taken as whole telnet units: a character, a      *)
(* Break command, or an option negotiation.                                *)
(***************************************************************************)
EXTENDS Integers, Sequences, FiniteSets, Functions

CONSTANTS
  Ports,       \* ports served, 0..nports-1
  Conns,       \* TCP connections that may be made
  Dials,       \* per connection: the ports it may be made to
  NumFds,      \* descriptors left for clients and ttys
  Backlog,     \* connections a listening socket queues
  SockCap,     \* items a client's socket buffer holds
  MaxUnits,    \* bound: units the clients send
  MaxChars,    \* bound: characters that arrive on the lines
  MaxFaults    \* bound: failed accepts and failed tty opens

ASSUME ConsoleAssumption ==
  /\ Ports # {} /\ Ports \subseteq Nat /\ IsFiniteSet(Ports)
  /\ Dials \in [Conns -> SUBSET Ports]
  /\ NumFds \in Nat \ {0} /\ Backlog \in Nat \ {0} /\ SockCap \in Nat \ {0}
  /\ MaxUnits \in Nat /\ MaxChars \in Nat /\ MaxFaults \in Nat

VARIABLES
  client_fd, tty_fd,   \* struct port
  file,                \* what each descriptor refers to
  pc, at,              \* where the loop is: step and port
  fds, listening,      \* r: the descriptors and listeners select returned
  obuf,                \* items a blocking write still has to place
  raw,                 \* units of the read that are not filtered yet
  chars,               \* filtered characters to write to the tty
  conn,                \* each connection's state and port
  queue,               \* per port: connections not accepted yet
  cin,                 \* per connection: units sent and not read
  unread,              \* per connection: items in its socket buffer
  nsent,               \* units sent by all clients so far
  tin,                 \* per port: characters to read
  ncame,               \* characters arrived on all lines so far
  faults,
  wire,                \* history, per port: what was written to the tty
  got                  \* history, per connection: what the server wrote to it

serverVars == <<client_fd, tty_fd, file, pc, at, fds, listening, obuf, raw,
                chars>>
envVars    == <<conn, queue, cin, unread, nsent, tin, ncame>>
vars       == <<serverVars, envVars, faults, wire, got>>

Fds   == 0..(NumFds - 1)
None  == -1
Free  == [kind |-> "free"]
Sock(k) == [kind |-> "sock", conn |-> k]
TtyOf(p) == [kind |-> "tty", port |-> p]
Kinds == {"char", "break", "option"}
Units == [conn : Conns, kind : Kinds, n : Nat]
Items == {[kind |-> m] : m \in {"hello", "reply", "refused"}}
           \cup [kind : {"char"}, port : Ports, n : Nat]

First == CHOOSE p \in Ports : \A q \in Ports : p <= q
Last(p) == \A q \in Ports : q <= p
Following(p) == CHOOSE q \in Ports : q > p /\ \A s \in Ports : s > p => q <= s

TypeOK ==
  /\ client_fd \in [Ports -> Fds \cup {None}]
  /\ tty_fd \in [Ports -> Fds \cup {None}]
  /\ file \in [Fds -> {Free} \cup {Sock(k) : k \in Conns}
                             \cup {TtyOf(p) : p \in Ports}]
  /\ pc \in {"select", "accept", "net", "filter", "serial", "forward"}
  /\ at \in Ports
  /\ fds \subseteq Fds /\ listening \subseteq Ports
  /\ obuf \in Seq(Items) /\ raw \in Seq(Units) /\ chars \in Seq(Units)
  /\ conn \in [Conns -> [st : {"none", "open", "closed"}, port : Ports]]
  /\ queue \in [Ports -> Seq(Conns)]
  /\ cin \in [Conns -> Seq(Units)]
  /\ unread \in [Conns -> 0..SockCap]
  /\ nsent \in 0..MaxUnits /\ ncame \in 0..MaxChars
  /\ tin \in [Ports -> Seq(Nat)]
  /\ faults \in 0..MaxFaults
  /\ wire \in [Ports -> Seq(Units)]
  /\ got \in [Conns -> Seq(Items)]

Init ==
  /\ client_fd = [p \in Ports |-> None] /\ tty_fd = [p \in Ports |-> None]
  /\ file = [f \in Fds |-> Free]
  /\ pc = "select" /\ at = First /\ fds = {} /\ listening = {}
  /\ obuf = <<>> /\ raw = <<>> /\ chars = <<>>
  /\ conn = [k \in Conns |-> [st |-> "none", port |-> First]]
  /\ queue = [p \in Ports |-> <<>>]
  /\ cin = [k \in Conns |-> <<>>] /\ unread = [k \in Conns |-> 0]
  /\ tin = [p \in Ports |-> <<>>] /\ nsent = 0 /\ ncame = 0
  /\ faults = 0
  /\ wire = [p \in Ports |-> <<>>] /\ got = [k \in Conns |-> <<>>]

-----------------------------------------------------------------------------
(* The kernel's side of the descriptors.                                   *)

FreeFds == {f \in Fds : file[f] = Free}
Lowest(S) == CHOOSE f \in S : \A g \in S : f <= g

\* A read would return at once: there is data, or the end of the stream.
Readable(f) ==
  \/ /\ file[f].kind = "sock"
     /\ cin[file[f].conn] # <<>> \/ conn[file[f].conn].st = "closed"
  \/ file[f].kind = "tty" /\ tin[file[f].port] # <<>>

\* The connection a port's client descriptor refers to.
ClientOf(p) == file[client_fd[p]].conn

-----------------------------------------------------------------------------
(* One pass of the select loop.                                            *)

\* A port listens only while it has no client.
\* Mutant: while nobody is connected anywhere.
ListenWhenIdle == {p \in Ports : \A q \in Ports : client_fd[q] = None}

Listeners == {p \in Ports : client_fd[p] = None}

Watched == {f \in Fds : \E p \in Ports : f \in {client_fd[p], tty_fd[p]}}

Select ==
  /\ pc = "select"
  /\ fds' = {f \in Watched : Readable(f)}
  /\ listening' = {p \in Listeners : queue[p] # <<>>}
  /\ fds' # {} \/ listening' # {}
  /\ pc' = "accept" /\ at' = First
  /\ UNCHANGED <<client_fd, tty_fd, file, obuf, raw, chars, envVars, faults,
                 wire, got>>

\* FD_ISSET for a descriptor of the port being looked at.
\* Mutant: the test is left out.
Assumed(f) == f # None

IsSet(f) == f # None /\ f \in fds

NewClient == pc = "accept" /\ client_fd[at] = None /\ at \in listening

\* The loop has come to the port's second or third test; a test that fails
\* costs no system call.
AtNet    == pc = "net" \/ (pc = "accept" /\ ~NewClient)
AtSerial == pc = "serial" \/ (AtNet /\ ~IsSet(client_fd[at]))

\* A call fails for want of a descriptor, or for a reason of its own.
FailsWith(n) ==
  LET enough == Cardinality(FreeFds) >= n
  IN  /\ enough => faults < MaxFaults
      /\ faults' = IF enough THEN faults + 1 ELSE faults

\* accept fails and the connection stays queued.
AcceptFails ==
  /\ NewClient
  /\ FailsWith(1)
  /\ pc' = "net"
  /\ UNCHANGED <<client_fd, tty_fd, file, at, fds, listening, obuf, raw,
                 chars, envVars, wire, got>>

\* The tty cannot be opened: the client is told so and closed.
OpenFails ==
  /\ NewClient /\ FreeFds # {}
  /\ FailsWith(2)
  /\ LET k == Head(queue[at])
     IN  /\ conn' = [conn EXCEPT ![k].st = "closed"]
         /\ got' = [got EXCEPT ![k] = <<[kind |-> "refused"]>>]
  /\ queue' = [queue EXCEPT ![at] = Tail(@)]
  /\ pc' = "net"
  /\ UNCHANGED <<client_fd, tty_fd, file, at, fds, listening, obuf, raw,
                 chars, cin, unread, nsent, tin, ncame, wire>>

\* The client and its tty get the two lowest free descriptors, and the client
\* is greeted.
Accept ==
  /\ NewClient /\ Cardinality(FreeFds) > 1
  /\ LET k == Head(queue[at])
         c == Lowest(FreeFds)
         t == Lowest(FreeFds \ {c})
     IN  /\ client_fd' = [client_fd EXCEPT ![at] = c]
         /\ tty_fd' = [tty_fd EXCEPT ![at] = t]
         /\ file' = [file EXCEPT ![c] = Sock(k), ![t] = TtyOf(at)]
         /\ got' = [got EXCEPT ![k] = <<[kind |-> "hello"]>>]
         /\ unread' = [unread EXCEPT ![k] = 1]
  /\ queue' = [queue EXCEPT ![at] = Tail(@)]
  /\ pc' = "net"
  /\ UNCHANGED <<at, fds, listening, obuf, raw, chars, conn, cin, nsent, tin,
                 ncame, faults, wire>>

\* Network to serial.  The read takes all that is there, or blocks when the
\* descriptor is not the one select reported.
NetRead ==
  /\ AtNet /\ IsSet(client_fd[at])
  /\ cin[ClientOf(at)] # <<>>
  /\ raw' = cin[ClientOf(at)]
  /\ cin' = [cin EXCEPT ![ClientOf(at)] = <<>>]
  /\ pc' = "filter"
  /\ UNCHANGED <<client_fd, tty_fd, file, at, fds, listening, obuf, chars, conn,
                 queue, unread, nsent, tin, ncame, faults, wire, got>>

\* What the filter keeps for the tty.
\* Mutant: everything but a Break command.
Unfiltered(u) == u.kind # "break"

Kept(u) == u.kind = "char"

\* Its answer to an option.
\* Mutant: the option is sent back as it came instead of being refused.
EchoedOption(u) == u

Refused(u) == [kind |-> "reply"]

\* telnet_filter, one unit: a character is kept, a Break command becomes a break
\* on the line at once, an option is refused at once.
FilterUnit ==
  /\ pc = "filter" /\ raw # <<>> /\ obuf = <<>>
  /\ LET u == Head(raw)
     IN  \/ Kept(u) /\ chars' = Append(chars, u) /\ UNCHANGED <<obuf, wire>>
         \/ /\ u.kind = "break"
            /\ wire' = [wire EXCEPT ![at] = Append(@, u)]
            /\ UNCHANGED <<obuf, chars>>
         \/ u.kind = "option" /\ obuf' = <<Refused(u)>> /\ UNCHANGED <<chars, wire>>
  /\ raw' = Tail(raw)
  /\ UNCHANGED <<client_fd, tty_fd, file, pc, at, fds, listening, envVars, faults,
                 got>>

\* The client has gone.
\* Mutant: only an error counts, not the end of the stream.
NeverGone(k) == FALSE

Gone(k) == conn[k].st = "closed" /\ cin[k] = <<>>

\* What becomes of the tty descriptor then.
\* Mutant: it is kept.
KeptTty(p) == tty_fd[p]

ClosedTty(p) == None

ClientGone ==
  /\ AtNet /\ IsSet(client_fd[at])
  /\ Gone(ClientOf(at))
  /\ client_fd' = [client_fd EXCEPT ![at] = None]
  /\ tty_fd' = [tty_fd EXCEPT ![at] = ClosedTty(at)]
  /\ file' = [f \in Fds |->
                IF f = client_fd[at] \/ (f = tty_fd[at] /\ tty_fd'[at] = None)
                THEN Free ELSE file[f]]
  /\ tin' = [tin EXCEPT ![at] = <<>>]
  /\ pc' = "serial"
  /\ UNCHANGED <<at, fds, listening, obuf, raw, chars, conn, queue, cin,
                 unread, nsent, ncame, faults, wire, got>>

\* A blocking write to the client: an item is placed when the socket buffer has
\* room; one that has closed takes nothing and lets the write fail.
PlaceItem ==
  /\ pc \in {"filter", "forward"} /\ obuf # <<>>
  /\ LET k == ClientOf(at)
     IN  \/ /\ conn[k].st = "open" /\ unread[k] < SockCap
            /\ unread' = [unread EXCEPT ![k] = @ + 1]
            /\ got' = [got EXCEPT ![k] = Append(@, Head(obuf))]
         \/ conn[k].st = "closed" /\ UNCHANGED <<unread, got>>
  /\ obuf' = Tail(obuf)
  /\ UNCHANGED <<client_fd, tty_fd, file, pc, at, fds, listening, raw, chars,
                 conn, queue, cin, nsent, tin, ncame, faults, wire>>

\* The non-blocking write to the tty takes as much as the driver has room for
\* and the rest is lost.
TtyWrite ==
  /\ pc = "filter" /\ raw = <<>> /\ obuf = <<>>
  /\ \E n \in 0..Len(chars) :
       wire' = [wire EXCEPT ![at] = @ \o SubSeq(chars, 1, n)]
  /\ chars' = <<>>
  /\ pc' = "serial"
  /\ UNCHANGED <<client_fd, tty_fd, file, at, fds, listening, obuf, raw,
                 envVars, faults, got>>

\* Serial to network.  The tty may have nothing to give, and does not block.
SerialRead ==
  /\ AtSerial /\ IsSet(tty_fd[at])
  /\ obuf' = [j \in DOMAIN tin[at] |->
                [kind |-> "char", port |-> at, n |-> tin[at][j]]]
  /\ tin' = [tin EXCEPT ![at] = <<>>]
  /\ pc' = "forward"
  /\ UNCHANGED <<client_fd, tty_fd, file, at, fds, listening, raw, chars,
                 conn, queue, cin, unread, nsent, ncame, faults, wire, got>>

\* On to the next port, or back to the top of the loop, where r is cleared.
Advance ==
  /\ \/ pc = "forward" /\ obuf = <<>>
     \/ AtSerial /\ ~IsSet(tty_fd[at])
  /\ \/ /\ Last(at) /\ pc' = "select" /\ at' = First
        /\ fds' = {} /\ listening' = {}
     \/ /\ ~Last(at) /\ pc' = "accept" /\ at' = Following(at)
        /\ UNCHANGED <<fds, listening>>
  /\ UNCHANGED <<client_fd, tty_fd, file, obuf, raw, chars, envVars, faults,
                 wire, got>>

-----------------------------------------------------------------------------
(* The clients and the lines.                                              *)

Connect(k, p) ==
  /\ conn[k].st = "none" /\ p \in Dials[k] /\ Len(queue[p]) < Backlog
  /\ conn' = [conn EXCEPT ![k] = [st |-> "open", port |-> p]]
  /\ queue' = [queue EXCEPT ![p] = Append(@, k)]
  /\ UNCHANGED <<cin, unread, nsent, tin, ncame>>

Send(k, kind) ==
  /\ conn[k].st = "open" /\ nsent < MaxUnits
  /\ nsent' = nsent + 1
  /\ cin' = [cin EXCEPT ![k] =
               Append(@, [conn |-> k, kind |-> kind, n |-> nsent'])]
  /\ UNCHANGED <<conn, queue, unread, tin, ncame>>

Receive(k) ==
  /\ conn[k].st = "open" /\ unread[k] > 0
  /\ unread' = [unread EXCEPT ![k] = 0]
  /\ UNCHANGED <<conn, queue, cin, nsent, tin, ncame>>

\* An orderly close, or a reset that throws away what was not read.
Close(k) ==
  /\ conn[k].st = "open"
  /\ conn' = [conn EXCEPT ![k].st = "closed"]
  /\ cin' = cin \/ cin' = [cin EXCEPT ![k] = <<>>]
  /\ unread' = [unread EXCEPT ![k] = 0]
  /\ UNCHANGED <<queue, nsent, tin, ncame>>

\* A character arrives on a line whose tty is open.
Arrive(p) ==
  /\ tty_fd[p] # None /\ ncame < MaxChars
  /\ ncame' = ncame + 1
  /\ tin' = [tin EXCEPT ![p] = Append(@, ncame')]
  /\ UNCHANGED <<conn, queue, cin, unread, nsent>>

-----------------------------------------------------------------------------
Server == \/ Select \/ AcceptFails \/ OpenFails \/ Accept \/ NetRead
          \/ FilterUnit \/ ClientGone \/ PlaceItem \/ TtyWrite \/ SerialRead
          \/ Advance

Environment ==
  /\ \/ \E k \in Conns : \/ \E p \in Ports : Connect(k, p)
                         \/ \E kind \in Kinds : Send(k, kind)
                         \/ Receive(k) \/ Close(k)
     \/ \E p \in Ports : Arrive(p)
  /\ UNCHANGED <<serverVars, faults, wire, got>>

Next == Server \/ Environment

Spec == Init /\ [][Next]_vars

\* The process runs whenever it is not blocked in a system call.
FairSpec == Spec /\ WF_vars(Server)

-----------------------------------------------------------------------------
(* Properties.                                                             *)

\* Descriptors neither leak nor get mixed up: a port has a client exactly when
\* it has a tty, they refer to a connection made to that port and to that
\* port's line, and every open descriptor belongs to one port.
Descriptors ==
  /\ \A p \in Ports :
       /\ client_fd[p] = None <=> tty_fd[p] = None
       /\ client_fd[p] # None =>
            /\ file[client_fd[p]].kind = "sock" /\ conn[ClientOf(p)].port = p
            /\ file[tty_fd[p]] = TtyOf(p)
  /\ FreeFds = Fds \ Watched

WireClean(p) ==
  \A a, b \in DOMAIN wire[p] :
    /\ wire[p][a].kind \in {"char", "break"}
    /\ conn[wire[p][a].conn].port = p
    /\ a < b /\ wire[p][a].conn = wire[p][b].conn =>
         /\ wire[p][a].kind = wire[p][b].kind => wire[p][a].n < wire[p][b].n
         /\ \A m \in a..b : wire[p][m].conn = wire[p][a].conn

ClientExact(k) ==
  \A a, b \in DOMAIN got[k] :
    LET x == got[k][a]
        y == got[k][b]
    IN  /\ x.kind = "char" => x.port = conn[k].port
        /\ a < b /\ x.kind = "char" /\ y.kind = "char" => x.n < y.n

\* What reaches a line is characters and breaks of clients of that port, never a
\* telnet command; each client's characters arrive in the order it sent them and
\* at most once, and sessions do not mix.  A client sees only its own port's
\* line, in order and at most once.
StreamsKept == /\ \A p \in Ports : WireClean(p)
               /\ \A k \in Conns : ClientExact(k)

\* The server waits in a read of a client that has sent nothing.
ReadBlocks ==
  /\ AtNet /\ IsSet(client_fd[at])
  /\ cin[ClientOf(at)] = <<>> /\ conn[ClientOf(at)].st = "open"

\* It waits for a client that does not read.
WriteBlocks ==
  /\ pc \in {"filter", "forward"} /\ obuf # <<>>
  /\ conn[ClientOf(at)].st = "open" /\ unread[ClientOf(at)] = SockCap

\* A read can block only on a client accepted in this very pass, whose
\* descriptor has the number of one that select reported and an earlier port
\* has closed since.
ReadBlocksOnlyOnReuse == ReadBlocks => at \in listening

Blocked == ReadBlocks \/ WriteBlocks

\* A connection to a port that has no client is served, unless the server is
\* blocked.
Waiting(k) == /\ conn[k].st = "open" /\ client_fd[conn[k].port] = None
              /\ queue[conn[k].port] # <<>> /\ Head(queue[conn[k].port]) = k

IdlePortAnswers == \A k \in Conns : Waiting(k) ~> ~Waiting(k) \/ Blocked

\* When a client has closed, its line is hung up, unless the server is blocked.
Attached(k) == \E p \in Ports : client_fd[p] # None /\ ClientOf(p) = k

HangupReleases ==
  \A k \in Conns :
    conn[k].st = "closed" /\ Attached(k) ~> ~Attached(k) \/ Blocked

=============================================================================
