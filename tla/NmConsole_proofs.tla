--------------------------- MODULE NmConsole_proofs ---------------------------
(***************************************************************************)
(* Proofs about the reverse-telnet server, for any number of ports,        *)
(* connections and descriptors.                                            *)
(***************************************************************************)
EXTENDS NmConsole, FiniteSetTheorems, SequenceTheorems, WellFoundedInduction, TLAPS

-----------------------------------------------------------------------------
(* Least elements: the lowest free descriptor, the first and the next port. *)

\* A set of natural numbers has a least element.
LEMMA Least ==
  ASSUME NEW T, T \subseteq Nat, T # {}
  PROVE  \E x \in T : \A y \in T : x <= y
<1>1. PICK x \in T : \A y \in T : ~(<<y, x>> \in OpToRel(<, Nat))
  BY NatLessThanWellFounded, WFMin, Zenon
<1>2. \A y \in T : ~(y < x)
  BY <1>1 DEF OpToRel
<1>3. QED
  BY <1>2

\* The lowest free descriptor is one of the free ones.
LEMMA LowestIsIn ==
  ASSUME NEW S, S \subseteq Nat, S # {}
  PROVE  Lowest(S) \in S
BY Least DEF Lowest

\* The loop starts at a port and moves on to a port, one further up.
LEMMA PortsInTurn ==
  /\ First \in Ports
  /\ \A p \in Ports : ~Last(p) => Following(p) \in Ports /\ Following(p) > p
<1>1. Ports \subseteq Nat /\ Ports # {}
  BY ConsoleAssumption DEF ConsoleAssumption
<1>2. First \in Ports
  BY <1>1, Least DEF First
<1>3. ASSUME NEW p \in Ports, ~Last(p)
      PROVE  Following(p) \in Ports /\ Following(p) > p
  <2> DEFINE T == {q \in Ports : q > p}
  <2>1. T # {} /\ T \subseteq Nat
    <3>1. PICK q \in Ports : ~(q <= p)
      BY <1>3 DEF Last
    <3>2. q > p
      BY <1>1, <3>1
    <3>3. QED
      BY <1>1, <3>2
  <2>2. PICK q \in T : \A s \in T : q <= s
    BY <2>1, Least
  <2>3. \E r \in Ports : r > p /\ \A s \in Ports : s > p => r <= s
    BY <2>2
  <2>4. QED
    BY <2>3 DEF Following
<1>4. QED
  BY <1>2, <1>3

-----------------------------------------------------------------------------
(* Descriptors.  What a port's numbers refer to cannot change behind its   *)
(* back: only free numbers are handed out, and a number is free exactly    *)
(* when no port has it.  That the connection is one made to that port      *)
(* comes from the listening socket it was queued at.                       *)

Files == {Free} \cup {Sock(k) : k \in Conns} \cup {TtyOf(p) : p \in Ports}

DescType ==
  /\ client_fd \in [Ports -> Fds \cup {None}] /\ tty_fd \in [Ports -> Fds \cup {None}]
  /\ file \in [Fds -> Files]
  /\ at \in Ports
  /\ conn \in [Conns -> [st : {"none", "open", "closed"}, port : Ports]]
  /\ queue \in [Ports -> Seq(Conns)]
  /\ cin \in [Conns -> Seq(Units)] /\ nsent \in Nat

\* A connection that waits at a port was made to it.
MadeTo(q) ==
  \A p \in Ports : \A i \in 1..Len(q[p]) :
    conn[q[p][i]].st # "none" /\ conn[q[p][i]].port = p

Queued == MadeTo(queue)

\* A connection with a descriptor was made.
Made == \A f \in Fds : file[f].kind = "sock" => conn[file[f].conn].st # "none"

Held ==
  \A p \in Ports :
    /\ client_fd[p] = None <=> tty_fd[p] = None
    /\ client_fd[p] # None =>
         /\ file[client_fd[p]].kind = "sock" /\ conn[ClientOf(p)].port = p
         /\ file[tty_fd[p]] = TtyOf(p)

\* Every descriptor in use is some port's.
Owned == \A f \in Fds : file[f] # Free <=> \E p \in Ports : f \in {client_fd[p], tty_fd[p]}

DInv == DescType /\ Queued /\ Made /\ Held /\ Owned

\* The number that stands for no descriptor is none.
LEMMA NoneIsNone == None \notin Fds /\ Fds \subseteq Nat
BY ConsoleAssumption DEF ConsoleAssumption, None, Fds

\* What a descriptor refers to can be told from its kind.
LEMMA FileKinds ==
  ASSUME NEW x \in Files
  PROVE  /\ x.kind = "free" <=> x = Free
         /\ x.kind = "sock" => \E k \in Conns : x = Sock(k) /\ x.conn = k
         /\ x.kind = "tty" => \E p \in Ports : x = TtyOf(p) /\ x.port = p
         /\ \A p \in Ports : x = TtyOf(p) => x # Free /\ x.kind = "tty" /\ x.port = p
<1>1. CASE x = Free
  BY <1>1 DEF Free, TtyOf
<1>2. ASSUME NEW k \in Conns, x = Sock(k) PROVE x.kind = "sock" /\ x.conn = k
  BY <1>2 DEF Sock
<1>3. ASSUME NEW p \in Ports, x = TtyOf(p) PROVE x.kind = "tty" /\ x.port = p
  BY <1>3 DEF TtyOf
<1>4. Free.kind = "free"
  BY DEF Free
<1>5. QED
  BY <1>1, <1>2, <1>3, <1>4 DEF Files

\* Different ports have different descriptors and different clients.
LEMMA Apart ==
  ASSUME DInv, NEW p \in Ports, client_fd[p] # None
  PROVE  /\ client_fd[p] \in Fds /\ tty_fd[p] \in Fds /\ tty_fd[p] # client_fd[p]
         /\ ClientOf(p) \in Conns /\ file[client_fd[p]] = Sock(ClientOf(p))
         /\ \A q \in Ports \ {p} : /\ client_fd[q] \notin {client_fd[p], tty_fd[p]}
                                   /\ tty_fd[q] \notin {client_fd[p], tty_fd[p]}
                                   /\ client_fd[q] # None => ClientOf(q) # ClientOf(p)
<1>1. ASSUME NEW q \in Ports, client_fd[q] # None
      PROVE  /\ client_fd[q] \in Fds /\ tty_fd[q] \in Fds
             /\ file[client_fd[q]] \in Files /\ file[tty_fd[q]] \in Files
             /\ file[client_fd[q]].kind = "sock" /\ conn[ClientOf(q)].port = q
             /\ file[tty_fd[q]].kind = "tty" /\ file[tty_fd[q]].port = q
  BY <1>1, FileKinds DEF DInv, DescType, Held
<1>2. ClientOf(p) \in Conns /\ file[client_fd[p]] = Sock(ClientOf(p))
  BY <1>1, FileKinds DEF ClientOf
<1>3. tty_fd[p] # client_fd[p]
  BY <1>1
<1>4. ASSUME NEW q \in Ports \ {p}
      PROVE  /\ client_fd[q] \notin {client_fd[p], tty_fd[p]}
             /\ tty_fd[q] \notin {client_fd[p], tty_fd[p]}
             /\ client_fd[q] # None => ClientOf(q) # ClientOf(p)
  <2>1. CASE client_fd[q] = None
    BY <1>1, <2>1, NoneIsNone DEF DInv, Held
  <2>2. CASE client_fd[q] # None
    BY <1>1, <2>2 DEF ClientOf
  <2>3. QED
    BY <2>1, <2>2
<1>5. QED
  BY <1>1, <1>2, <1>3, <1>4

\* The steps that touch neither the descriptors nor the connections.
LEMMA Untouched ==
  ASSUME DInv, UNCHANGED <<client_fd, tty_fd, file, conn, queue>>, at' \in Ports,
         cin' \in [Conns -> Seq(Units)], nsent' \in Nat
  PROVE  DInv'
BY DEF DInv, DescType, Queued, MadeTo, Made, Held, Owned, ClientOf

\* A port that select reported and the loop has not come to yet still has
\* somebody waiting: nobody else accepts.
Pending ==
  /\ listening \subseteq Ports
  /\ \A p \in listening : p > at \/ (p = at /\ pc = "accept") => queue[p] # <<>>

\* What accept takes off the queue.
LEMMA Accepted ==
  ASSUME DInv, Pending, NewClient, NEW queue2, queue2 = [queue EXCEPT ![at] = Tail(@)]
  PROVE  /\ Head(queue[at]) \in Conns
         /\ conn[Head(queue[at])].st # "none" /\ conn[Head(queue[at])].port = at
         /\ queue2 \in [Ports -> Seq(Conns)] /\ MadeTo(queue2)
<1>1. at \in Ports /\ queue \in [Ports -> Seq(Conns)]
  BY DEF DInv, DescType
<1>2. queue[at] # <<>> /\ queue[at] \in Seq(Conns)
  BY <1>1 DEF Pending, NewClient
<1> DEFINE q == queue[at]
           t == Tail(q)
<1>3. q \in Seq(Conns) /\ q # <<>>
  BY <1>2
<1>4. queue2 \in [Ports -> Seq(Conns)] /\ queue2[at] = t /\ \A p \in Ports \ {at} : queue2[p] = queue[p]
  <2>1. t \in Seq(Conns)
    BY <1>3
  <2>2. QED
    BY <1>1, <2>1
<1> HIDE DEF q
<1>5. /\ Len(q) \in Nat /\ Len(q) >= 1 /\ Head(q) = q[1] /\ q[1] \in Conns
      /\ Len(t) = Len(q) - 1 /\ \A i \in 1..Len(t) : t[i] = q[i + 1]
  BY <1>3
<1>6. \A i \in 1..Len(q) : conn[q[i]].st # "none" /\ conn[q[i]].port = at
  BY <1>1 DEF DInv, Queued, MadeTo, q
<1>7. \A i \in 1..Len(t) : conn[t[i]].st # "none" /\ conn[t[i]].port = at
  <2> SUFFICES ASSUME NEW i \in 1..Len(t)
               PROVE  conn[t[i]].st # "none" /\ conn[t[i]].port = at
    OBVIOUS
  <2>1. i + 1 \in 1..Len(q) /\ t[i] = q[i + 1]
    BY <1>5
  <2>2. QED
    BY <1>6, <2>1
<1>8. conn[Head(q)].st # "none" /\ conn[Head(q)].port = at
  <2>1. 1 \in 1..Len(q)
    BY <1>5
  <2>2. QED
    BY <1>5, <1>6, <2>1
<1> HIDE DEF t
<1>9. MadeTo(queue2)
  BY <1>4, <1>7 DEF DInv, Queued, MadeTo
<1>10. QED
  BY <1>4, <1>5, <1>8, <1>9 DEF q

\* A connection that was made stays made, to the same port.
LEMMA ConnsKept ==
  ASSUME DInv, UNCHANGED <<client_fd, tty_fd, file>>, at' \in Ports,
         conn' \in [Conns -> [st : {"none", "open", "closed"}, port : Ports]],
         queue' \in [Ports -> Seq(Conns)], cin' \in [Conns -> Seq(Units)], nsent' \in Nat,
         \A k \in Conns : conn[k].st # "none" =>
                            conn'[k].st # "none" /\ conn'[k].port = conn[k].port,
         Queued'
  PROVE  DInv'
<1>1. DescType' /\ Owned'
  BY DEF DInv, DescType, Owned
<1>2. Made'
  <2> SUFFICES ASSUME NEW f \in Fds, file[f].kind = "sock"
               PROVE  conn'[file[f].conn].st # "none"
    BY DEF Made
  <2>1. file[f] \in Files
    BY DEF DInv, DescType
  <2>2. file[f].conn \in Conns
    BY <2>1, FileKinds
  <2>3. QED
    BY <2>2 DEF DInv, Made
<1>3. Held'
  <2> SUFFICES ASSUME NEW p \in Ports, client_fd[p] # None
               PROVE  conn'[ClientOf(p)].port = p
    BY DEF DInv, Held, ClientOf
  <2>1. ClientOf(p) \in Conns /\ client_fd[p] \in Fds
    BY Apart
  <2>2. conn[ClientOf(p)].st # "none" /\ conn[ClientOf(p)].port = p
    BY <2>1 DEF DInv, Made, Held, ClientOf
  <2>3. QED
    BY <2>1, <2>2
<1>4. QED
  BY <1>1, <1>2, <1>3 DEF DInv

\* A connection that ends was made to the port it was made to.
LEMMA ConnClosed ==
  ASSUME conn \in [Conns -> [st : {"none", "open", "closed"}, port : Ports]],
         NEW k \in Conns, conn' = [conn EXCEPT ![k].st = "closed"]
  PROVE  /\ conn' \in [Conns -> [st : {"none", "open", "closed"}, port : Ports]]
         /\ conn'[k].st = "closed" /\ \A j \in Conns \ {k} : conn'[j] = conn[j]
         /\ \A j \in Conns : conn[j].st # "none" =>
                               conn'[j].st # "none" /\ conn'[j].port = conn[j].port
<1> DEFINE x == [conn[k] EXCEPT !.st = "closed"]
<1>1. conn[k] \in [st : {"none", "open", "closed"}, port : Ports]
  OBVIOUS
<1>2. /\ x \in [st : {"none", "open", "closed"}, port : Ports]
      /\ x.st = "closed" /\ x.port = conn[k].port
  BY <1>1
<1>3. conn' = [conn EXCEPT ![k] = x]
  OBVIOUS
<1> HIDE DEF x
<1>4. conn'[k] = x /\ \A j \in Conns \ {k} : conn'[j] = conn[j]
  BY <1>3
<1>5. conn' \in [Conns -> [st : {"none", "open", "closed"}, port : Ports]]
  BY <1>2, <1>3
<1>6. QED
  BY <1>2, <1>4, <1>5

\* accept and open get two different free numbers.
LEMMA NewFds ==
  ASSUME Cardinality(FreeFds) > 1
  PROVE  /\ Lowest(FreeFds) \in FreeFds
         /\ Lowest(FreeFds \ {Lowest(FreeFds)}) \in FreeFds
         /\ Lowest(FreeFds \ {Lowest(FreeFds)}) # Lowest(FreeFds)
<1> DEFINE c == Lowest(FreeFds)
           t == Lowest(FreeFds \ {c})
<1>1. FreeFds \subseteq Fds /\ FreeFds \subseteq Nat
  BY NoneIsNone DEF FreeFds
<1>2. IsFiniteSet(Fds)
  BY ConsoleAssumption, FS_Interval DEF ConsoleAssumption, Fds
<1>3. IsFiniteSet(FreeFds) /\ Cardinality(FreeFds) > 1 /\ Cardinality(FreeFds) \in Nat
  BY <1>1, <1>2, FS_Subset, FS_CardinalityType
<1>4. FreeFds # {}
  BY <1>3, FS_EmptySet
<1>5. c \in FreeFds
  BY <1>1, <1>4, LowestIsIn
<1> HIDE DEF c
<1>6. FreeFds \ {c} # {}
  <2>1. Cardinality(FreeFds \ {c}) = Cardinality(FreeFds) - 1
    BY <1>3, <1>5, FS_RemoveElement
  <2>2. QED
    BY <1>3, <2>1, FS_EmptySet
<1>7. t \in FreeFds \ {c}
  BY <1>1, <1>6, LowestIsIn
<1>8. QED
  BY <1>5, <1>7 DEF c

\* A new client: two free numbers go to the port.
LEMMA AcceptKeeps ==
  ASSUME DInv, Pending, Accept
  PROVE  DInv'
<1> DEFINE k == Head(queue[at])
           c == Lowest(FreeFds)
           t == Lowest(FreeFds \ {c})
<1>1. /\ client_fd' = [client_fd EXCEPT ![at] = c]
      /\ tty_fd' = [tty_fd EXCEPT ![at] = t]
      /\ file' = [file EXCEPT ![c] = Sock(k), ![t] = TtyOf(at)]
      /\ queue' = [queue EXCEPT ![at] = Tail(@)]
      /\ UNCHANGED <<at, conn, cin, nsent>>
  BY DEF Accept
<1>2. /\ k \in Conns /\ conn[k].st # "none" /\ conn[k].port = at
      /\ queue' \in [Ports -> Seq(Conns)]
  BY <1>1, Accepted DEF Accept
<1>3. Queued'
  <2>1. MadeTo(queue')
    BY <1>1, Accepted DEF Accept
  <2>2. QED
    BY <1>1, <2>1 DEF Queued, MadeTo
<1>4. c \in FreeFds /\ t \in FreeFds /\ t # c
  BY NewFds DEF Accept
<1> HIDE DEF k, c, t
<1>5. /\ at \in Ports /\ client_fd[at] = None /\ tty_fd[at] = None
      /\ client_fd \in [Ports -> Fds \cup {None}] /\ tty_fd \in [Ports -> Fds \cup {None}]
      /\ file \in [Fds -> Files]
  BY DEF DInv, DescType, Held, Accept, NewClient
<1>6. /\ c \in Fds /\ t \in Fds /\ file[c] = Free /\ file[t] = Free
      /\ c # None /\ t # None /\ t # c
  BY <1>4, NoneIsNone DEF FreeFds
<1>7. Sock(k) \in Files /\ TtyOf(at) \in Files
  BY <1>2, <1>5 DEF Files
<1>8. /\ file' \in [Fds -> Files] /\ file'[c] = Sock(k) /\ file'[t] = TtyOf(at)
      /\ \A f \in Fds \ {c, t} : file'[f] = file[f]
  BY <1>1, <1>5, <1>6, <1>7
<1>9. /\ client_fd'[at] = c /\ tty_fd'[at] = t
      /\ \A p \in Ports \ {at} : client_fd'[p] = client_fd[p] /\ tty_fd'[p] = tty_fd[p]
  BY <1>1, <1>5
<1>10. DescType'
  BY <1>1, <1>2, <1>5, <1>6, <1>8 DEF DInv, DescType
<1>11. /\ Sock(k).kind = "sock" /\ Sock(k).conn = k /\ TtyOf(at).kind = "tty"
       /\ Sock(k) # Free /\ TtyOf(at) # Free
  BY DEF Sock, TtyOf, Free
<1>12. Made'
  <2> SUFFICES ASSUME NEW f \in Fds, file'[f].kind = "sock"
               PROVE  conn'[file'[f].conn].st # "none"
    BY DEF Made
  <2>1. CASE f = c
    BY <1>1, <1>2, <1>8, <1>11, <2>1
  <2>2. CASE f = t
    BY <1>8, <1>11, <2>2
  <2>3. CASE f \notin {c, t}
    BY <1>1, <1>8, <2>3 DEF DInv, Made
  <2>4. QED
    BY <2>1, <2>2, <2>3
<1>13. \A p \in Ports : client_fd[p] \notin {c, t} /\ tty_fd[p] \notin {c, t}
  BY <1>6 DEF DInv, Owned
<1>14. Held'
  <2> SUFFICES ASSUME NEW p \in Ports
               PROVE  /\ client_fd'[p] = None <=> tty_fd'[p] = None
                      /\ client_fd'[p] # None =>
                           /\ file'[client_fd'[p]].kind = "sock"
                           /\ conn'[file'[client_fd'[p]].conn].port = p
                           /\ file'[tty_fd'[p]] = TtyOf(p)
    BY DEF Held, ClientOf
  <2>1. CASE p = at
    BY <1>1, <1>2, <1>6, <1>8, <1>9, <1>11, <2>1
  <2>2. CASE p # at
    <3>1. client_fd'[p] = client_fd[p] /\ tty_fd'[p] = tty_fd[p]
      BY <1>9, <2>2
    <3>2. client_fd[p] = None <=> tty_fd[p] = None
      BY DEF DInv, Held
    <3>3. ASSUME client_fd[p] # None
          PROVE  /\ file'[client_fd[p]] = file[client_fd[p]]
                 /\ file'[tty_fd[p]] = file[tty_fd[p]]
      <4>1. client_fd[p] \in Fds /\ tty_fd[p] \in Fds
        BY <3>3, Apart
      <4>2. QED
        BY <1>8, <1>13, <4>1
    <3>4. QED
      BY <1>1, <3>1, <3>2, <3>3 DEF DInv, Held, ClientOf
  <2>3. QED
    BY <2>1, <2>2
<1>15. Owned'
  <2> SUFFICES ASSUME NEW f \in Fds
               PROVE  file'[f] # Free <=> \E p \in Ports : f \in {client_fd'[p], tty_fd'[p]}
    BY DEF Owned
  <2>1. CASE f \in {c, t}
    BY <1>5, <1>8, <1>9, <1>11, <2>1
  <2>2. CASE f \notin {c, t}
    <3>1. file'[f] = file[f]
      BY <1>8, <2>2
    <3>2. file[f] # Free <=> \E p \in Ports : f \in {client_fd[p], tty_fd[p]}
      BY DEF DInv, Owned
    <3>3. \A p \in Ports : f \in {client_fd'[p], tty_fd'[p]}
                             <=> f \in {client_fd[p], tty_fd[p]}
      BY <1>5, <1>9, <2>2, NoneIsNone
    <3>4. QED
      BY <3>1, <3>2, <3>3
  <2>3. QED
    BY <2>1, <2>2
<1>16. QED
  BY <1>3, <1>10, <1>12, <1>14, <1>15 DEF DInv

\* A client that has gone: both numbers of the port are given back, and no other
\* port has either.
LEMMA ClientGoneKeeps ==
  ASSUME DInv, ClientGone
  PROVE  DInv'
<1> DEFINE c == client_fd[at]
           t == tty_fd[at]
<1>1. at \in Ports /\ c # None
  BY DEF DInv, DescType, ClientGone, IsSet
<1>2. /\ c \in Fds /\ t \in Fds
      /\ \A q \in Ports \ {at} : client_fd[q] \notin {c, t} /\ tty_fd[q] \notin {c, t}
  BY <1>1, Apart
<1>3. /\ client_fd' = [client_fd EXCEPT ![at] = None]
      /\ tty_fd' = [tty_fd EXCEPT ![at] = None]
      /\ UNCHANGED <<at, conn, queue, cin, nsent>>
  BY DEF ClientGone, ClosedTty
<1>4. /\ client_fd \in [Ports -> Fds \cup {None}] /\ tty_fd \in [Ports -> Fds \cup {None}]
      /\ file \in [Fds -> Files]
  BY DEF DInv, DescType
<1>5. /\ client_fd'[at] = None /\ tty_fd'[at] = None
      /\ \A p \in Ports \ {at} : client_fd'[p] = client_fd[p] /\ tty_fd'[p] = tty_fd[p]
  BY <1>1, <1>3, <1>4
<1>6. file' = [f \in Fds |-> IF f = c \/ f = t THEN Free ELSE file[f]]
  BY <1>5 DEF ClientGone
<1> HIDE DEF c, t
<1>7. /\ file' \in [Fds -> Files] /\ \A f \in Fds : f \in {c, t} => file'[f] = Free
      /\ \A f \in Fds : f \notin {c, t} => file'[f] = file[f]
  BY <1>4, <1>6 DEF Files
<1>8. DescType' /\ Queued'
  BY <1>3, <1>4, <1>7 DEF DInv, DescType, Queued, MadeTo
<1>9. Made'
  <2>1. Free.kind # "sock"
    BY DEF Free
  <2>2. QED
    BY <1>3, <1>7, <2>1 DEF DInv, Made
<1>10. Held'
  <2> SUFFICES ASSUME NEW p \in Ports
               PROVE  /\ client_fd'[p] = None <=> tty_fd'[p] = None
                      /\ client_fd'[p] # None =>
                           /\ file'[client_fd'[p]].kind = "sock"
                           /\ conn'[file'[client_fd'[p]].conn].port = p
                           /\ file'[tty_fd'[p]] = TtyOf(p)
    BY DEF Held, ClientOf
  <2>1. CASE p = at
    BY <1>5, <2>1
  <2>2. CASE p # at
    <3>1. client_fd'[p] = client_fd[p] /\ tty_fd'[p] = tty_fd[p]
      BY <1>5, <2>2
    <3>2. client_fd[p] = None <=> tty_fd[p] = None
      BY DEF DInv, Held
    <3>3. ASSUME client_fd[p] # None
          PROVE  /\ file'[client_fd[p]] = file[client_fd[p]]
                 /\ file'[tty_fd[p]] = file[tty_fd[p]]
      <4>1. client_fd[p] \in Fds /\ tty_fd[p] \in Fds
        BY <3>3, Apart
      <4>2. client_fd[p] \notin {c, t} /\ tty_fd[p] \notin {c, t}
        BY <1>2, <2>2
      <4>3. QED
        BY <1>7, <4>1, <4>2
    <3>4. QED
      BY <1>3, <3>1, <3>2, <3>3 DEF DInv, Held, ClientOf
  <2>3. QED
    BY <2>1, <2>2
<1>11. Owned'
  <2> SUFFICES ASSUME NEW f \in Fds
               PROVE  file'[f] # Free <=> \E p \in Ports : f \in {client_fd'[p], tty_fd'[p]}
    BY DEF Owned
  <2>0. f # None
    BY NoneIsNone
  <2>1. CASE f \in {c, t}
    <3>1. file'[f] = Free
      BY <1>7, <2>1
    <3>2. \A p \in Ports : f \notin {client_fd'[p], tty_fd'[p]}
      BY <1>2, <1>5, <2>0, <2>1
    <3>3. QED
      BY <3>1, <3>2
  <2>2. CASE f \notin {c, t}
    <3>1. file'[f] = file[f]
      BY <1>7, <2>2
    <3>2. file[f] # Free <=> \E p \in Ports : f \in {client_fd[p], tty_fd[p]}
      BY DEF DInv, Owned
    <3>3. \A p \in Ports : f \in {client_fd'[p], tty_fd'[p]}
                             <=> f \in {client_fd[p], tty_fd[p]}
      BY <1>5, <2>0, <2>2 DEF c, t
    <3>4. QED
      BY <3>1, <3>2, <3>3
  <2>3. QED
    BY <2>1, <2>2
<1>12. QED
  BY <1>8, <1>9, <1>10, <1>11 DEF DInv

\* The steps of the server keep the descriptors in order.
LEMMA ServerKeeps ==
  ASSUME DInv, Pending, Server
  PROVE  DInv'
<1>0. /\ at \in Ports /\ cin \in [Conns -> Seq(Units)] /\ nsent \in Nat
      /\ conn \in [Conns -> [st : {"none", "open", "closed"}, port : Ports]]
      /\ client_fd \in [Ports -> Fds \cup {None}]
  BY DEF DInv, DescType
<1>1. CASE Select
  BY <1>0, <1>1, PortsInTurn, Untouched DEF Select, envVars
<1>2. CASE AcceptFails
  BY <1>0, <1>2, Untouched DEF AcceptFails, envVars
<1>3. CASE OpenFails
  <2> DEFINE k == Head(queue[at])
  <2>1. /\ conn' = [conn EXCEPT ![k].st = "closed"]
        /\ queue' = [queue EXCEPT ![at] = Tail(@)] /\ NewClient
        /\ UNCHANGED <<client_fd, tty_fd, file, at, cin, nsent>>
    BY <1>3 DEF OpenFails
  <2>2a. k \in Conns /\ queue' \in [Ports -> Seq(Conns)]
    BY <2>1, Accepted
  <2>2. MadeTo(queue')
    BY <2>1, Accepted
  <2> HIDE DEF k
  <2>3. /\ conn' \in [Conns -> [st : {"none", "open", "closed"}, port : Ports]]
        /\ \A j \in Conns : conn[j].st # "none" =>
                              conn'[j].st # "none" /\ conn'[j].port = conn[j].port
    BY <1>0, <2>1, <2>2a, ConnClosed
  <2>4. Queued'
    <3> SUFFICES ASSUME NEW p \in Ports, NEW i \in 1..Len(queue'[p])
                 PROVE  conn'[queue'[p][i]].st # "none" /\ conn'[queue'[p][i]].port = p
      BY DEF Queued, MadeTo
    <3>1. queue'[p] \in Seq(Conns)
      BY <2>2a
    <3>2. queue'[p][i] \in Conns
      BY <3>1
    <3>3. QED
      BY <2>2, <2>3, <3>2 DEF MadeTo
  <2>5. QED
    BY <1>0, <2>1, <2>2a, <2>3, <2>4, ConnsKept
<1>4. CASE Accept
  BY <1>4, AcceptKeeps
<1>5. CASE NetRead
  <2>1. client_fd[at] # None
    BY <1>5 DEF NetRead, IsSet
  <2>2. ClientOf(at) \in Conns
    BY <1>0, <2>1, Apart
  <2>3. cin' \in [Conns -> Seq(Units)]
    <3>1. cin' = [cin EXCEPT ![ClientOf(at)] = <<>>]
      BY <1>5 DEF NetRead
    <3>2. <<>> \in Seq(Units)
      OBVIOUS
    <3>3. QED
      BY <1>0, <3>1, <3>2
  <2>4. QED
    BY <1>0, <1>5, <2>3, Untouched DEF NetRead
<1>6. CASE ClientGone
  BY <1>6, ClientGoneKeeps
<1>7. CASE FilterUnit \/ PlaceItem \/ TtyWrite \/ SerialRead
  BY <1>0, <1>7, Untouched DEF FilterUnit, PlaceItem, TtyWrite, SerialRead, envVars
<1>8. CASE Advance
  <2>1. at' \in Ports
    BY <1>0, <1>8, PortsInTurn DEF Advance
  <2>2. QED
    BY <1>0, <1>8, <2>1, Untouched DEF Advance, envVars
<1>9. QED
  BY <1>1, <1>2, <1>3, <1>4, <1>5, <1>6, <1>7, <1>8 DEF Server

\* So do the clients and the lines.
LEMMA EnvironmentKeeps ==
  ASSUME DInv, Environment
  PROVE  DInv'
<1>0. /\ at \in Ports /\ queue \in [Ports -> Seq(Conns)]
      /\ cin \in [Conns -> Seq(Units)] /\ nsent \in Nat
      /\ conn \in [Conns -> [st : {"none", "open", "closed"}, port : Ports]]
      /\ UNCHANGED <<client_fd, tty_fd, file, at>>
  BY DEF DInv, DescType, Environment, serverVars
<1>1. ASSUME NEW k \in Conns, NEW p \in Ports, Connect(k, p) PROVE DInv'
  <2>1. /\ conn[k].st = "none" /\ conn' = [conn EXCEPT ![k] = [st |-> "open", port |-> p]]
        /\ queue' = [queue EXCEPT ![p] = Append(@, k)] /\ UNCHANGED <<cin, nsent>>
    BY <1>1 DEF Connect
  <2>2. /\ conn' \in [Conns -> [st : {"none", "open", "closed"}, port : Ports]]
        /\ conn'[k] = [st |-> "open", port |-> p]
        /\ \A j \in Conns : conn[j].st # "none" => conn'[j] = conn[j]
    BY <1>0, <2>1
  <2>3. /\ queue' \in [Ports -> Seq(Conns)] /\ queue'[p] = Append(queue[p], k)
        /\ \A r \in Ports \ {p} : queue'[r] = queue[r]
    BY <1>0, <2>1
  <2>4. Queued'
    <3> SUFFICES ASSUME NEW r \in Ports, NEW i \in 1..Len(queue'[r])
                 PROVE  conn'[queue'[r][i]].st # "none" /\ conn'[queue'[r][i]].port = r
      BY DEF Queued, MadeTo
    <3>1. ASSUME i \in 1..Len(queue[r]), queue'[r][i] = queue[r][i]
          PROVE  conn'[queue'[r][i]].st # "none" /\ conn'[queue'[r][i]].port = r
      <4>1. queue[r] \in Seq(Conns)
        BY <1>0
      <4>2. queue[r][i] \in Conns
        BY <3>1, <4>1
      <4>3. QED
        BY <2>2, <3>1, <4>2 DEF DInv, Queued, MadeTo
    <3>2. CASE r # p
      BY <2>3, <3>1, <3>2
    <3>3. CASE r = p
      <4>1. queue[p] \in Seq(Conns) /\ Len(queue[p]) \in Nat
        BY <1>0
      <4>2. Len(queue'[r]) = Len(queue[p]) + 1
        BY <2>3, <3>3, <4>1
      <4>3. CASE i = Len(queue[p]) + 1
        <5>1. queue'[r][i] = k
          BY <2>3, <3>3, <4>1, <4>3
        <5>2. QED
          BY <2>2, <3>3, <5>1
      <4>4. CASE i # Len(queue[p]) + 1
        <5>1. i \in 1..Len(queue[r])
          BY <3>3, <4>1, <4>2, <4>4
        <5>2. queue'[r][i] = queue[r][i]
          BY <2>3, <3>3, <4>1, <5>1
        <5>3. QED
          BY <3>1, <5>1, <5>2
      <4>5. QED
        BY <4>3, <4>4
    <3>4. QED
      BY <3>2, <3>3
  <2>5. QED
    BY <1>0, <2>1, <2>2, <2>3, <2>4, ConnsKept
<1>2. ASSUME NEW k \in Conns, NEW kind \in Kinds, Send(k, kind) PROVE DInv'
  <2>1. /\ UNCHANGED <<conn, queue>> /\ nsent' = nsent + 1
        /\ cin' = [cin EXCEPT ![k] = Append(@, [conn |-> k, kind |-> kind, n |-> nsent'])]
    BY <1>2 DEF Send
  <2>2. nsent' \in Nat
    BY <1>0, <2>1
  <2>3. [conn |-> k, kind |-> kind, n |-> nsent'] \in Units
    BY <2>2 DEF Units
  <2>4. cin' \in [Conns -> Seq(Units)]
    BY <1>0, <2>1, <2>3
  <2>5. QED
    BY <1>0, <2>1, <2>2, <2>4, Untouched
<1>3. ASSUME NEW k \in Conns, Receive(k) PROVE DInv'
  BY <1>0, <1>3, Untouched DEF Receive
<1>4. ASSUME NEW k \in Conns, Close(k) PROVE DInv'
  <2>1. /\ conn' = [conn EXCEPT ![k].st = "closed"] /\ UNCHANGED <<queue, nsent>>
        /\ cin' = cin \/ cin' = [cin EXCEPT ![k] = <<>>]
    BY <1>4 DEF Close
  <2>2. cin' \in [Conns -> Seq(Units)]
    <3>1. <<>> \in Seq(Units)
      OBVIOUS
    <3>2. QED
      BY <1>0, <2>1, <3>1
  <2>3. /\ conn' \in [Conns -> [st : {"none", "open", "closed"}, port : Ports]]
        /\ \A j \in Conns : conn[j].st # "none" =>
                              conn'[j].st # "none" /\ conn'[j].port = conn[j].port
    BY <1>0, <2>1, ConnClosed
  <2>4. Queued'
    <3> SUFFICES ASSUME NEW p \in Ports, NEW i \in 1..Len(queue[p])
                 PROVE  conn'[queue[p][i]].st # "none" /\ conn'[queue[p][i]].port = p
      BY <2>1 DEF Queued, MadeTo
    <3>1. queue[p] \in Seq(Conns)
      BY <1>0
    <3>2. queue[p][i] \in Conns
      BY <3>1
    <3>3. QED
      BY <2>3, <3>2 DEF DInv, Queued, MadeTo
  <2>5. QED
    BY <1>0, <2>1, <2>2, <2>3, <2>4, ConnsKept
<1>5. ASSUME NEW p \in Ports, Arrive(p) PROVE DInv'
  BY <1>0, <1>5, Untouched DEF Arrive
<1>6. QED
  BY <1>1, <1>2, <1>3, <1>4, <1>5 DEF Environment

\* A port whose turn is still to come keeps its waiting connection.
LEMMA PendingKept ==
  ASSUME DInv, Pending, Next
  PROVE  Pending'
<1>0. /\ at \in Ports /\ queue \in [Ports -> Seq(Conns)] /\ Ports \subseteq Nat
      /\ listening \subseteq Ports
  BY ConsoleAssumption DEF ConsoleAssumption, DInv, DescType, Pending
<1>1. CASE Select
  BY <1>1 DEF Select, Listeners, Pending, envVars
<1>2. CASE AcceptFails \/ OpenFails \/ Accept
  <2>1. /\ UNCHANGED <<at, listening>> /\ pc' = "net"
        /\ queue' = queue \/ queue' = [queue EXCEPT ![at] = Tail(@)]
    BY <1>2 DEF AcceptFails, OpenFails, Accept, envVars
  <2>2. \A p \in Ports : p > at => queue'[p] = queue[p]
    BY <1>0, <2>1
  <2>3. QED
    BY <1>0, <2>1, <2>2 DEF Pending
<1>3. CASE NetRead \/ FilterUnit \/ ClientGone \/ PlaceItem \/ TtyWrite \/ SerialRead
  <2>1. UNCHANGED <<at, listening, queue>> /\ pc' # "accept"
    BY <1>3 DEF NetRead, FilterUnit, ClientGone, PlaceItem, TtyWrite, SerialRead, envVars
  <2>2. QED
    BY <2>1 DEF Pending
<1>4. CASE Advance
  <2>1. queue' = queue
    BY <1>4 DEF Advance, envVars
  <2>2. CASE listening' = {}
    BY <2>2 DEF Pending
  <2>3. CASE ~Last(at) /\ at' = Following(at) /\ listening' = listening
    <3>1. at' \in Ports /\ at' > at
      BY <1>0, <2>3, PortsInTurn
    <3>2. \A p \in listening : p > at' \/ p = at' => p > at
      BY <1>0, <3>1
    <3>3. QED
      BY <2>1, <2>3, <3>2 DEF Pending
  <2>4. QED
    BY <1>4, <2>2, <2>3 DEF Advance
<1>5. CASE Environment
  <2>1. UNCHANGED <<at, listening, pc>>
    BY <1>5 DEF Environment, serverVars
  <2>2. CASE queue' = queue
    BY <2>1, <2>2 DEF Pending
  <2>3. ASSUME NEW k \in Conns, NEW r \in Ports, queue' = [queue EXCEPT ![r] = Append(@, k)]
        PROVE  Pending'
    <3>1. \A p \in Ports : queue[p] # <<>> => queue'[p] # <<>>
      <4> SUFFICES ASSUME NEW p \in Ports, queue[p] # <<>> PROVE queue'[p] # <<>>
        OBVIOUS
      <4>1. queue[p] \in Seq(Conns)
        BY <1>0
      <4>2. Append(queue[p], k) # <<>>
        BY <4>1
      <4>3. QED
        BY <1>0, <2>3, <4>2
    <3>2. QED
      BY <1>0, <2>1, <3>1 DEF Pending
  <2>4. QED
    BY <1>5, <2>2, <2>3 DEF Environment, Connect, Send, Receive, Close, Arrive
<1>6. QED
  BY <1>1, <1>2, <1>3, <1>4, <1>5 DEF Next, Server

\* The server starts with no client and nobody waiting.
LEMMA NobodyYet ==
  ASSUME Init
  PROVE  DInv /\ Pending
<1>1. DescType
  <2>1. First \in Ports /\ Free \in Files
    BY PortsInTurn DEF Files
  <2>2. <<>> \in Seq(Conns) /\ <<>> \in Seq(Units)
    OBVIOUS
  <2>3. QED
    BY <2>1, <2>2 DEF Init, DescType
<1>2. Queued
  BY DEF Init, Queued, MadeTo
<1>3. Made
  BY DEF Init, Made, Free
<1>4. Held
  BY DEF Init, Held
<1>5. Owned
  BY NoneIsNone DEF Init, Owned
<1>6. QED
  BY <1>1, <1>2, <1>3, <1>4, <1>5 DEF DInv, Pending, Init

\* Both invariants hold throughout.
LEMMA DescriptorsInvariant == Spec => [](DInv /\ Pending)
<1>1. ASSUME DInv /\ Pending, [Next]_vars PROVE (DInv /\ Pending)'
  <2>1. CASE Next
    BY <1>1, <2>1, ServerKeeps, EnvironmentKeeps, PendingKept DEF Next
  <2>2. CASE UNCHANGED vars
    <3>1. UNCHANGED <<client_fd, tty_fd, file, conn, queue, cin, nsent, at, pc, listening>>
      BY <2>2 DEF vars, serverVars, envVars
    <3>2. DInv'
      BY <1>1, <3>1, Untouched DEF DInv, DescType
    <3>3. Pending'
      BY <1>1, <3>1 DEF Pending
    <3>4. QED
      BY <3>2, <3>3
  <2>3. QED
    BY <1>1, <2>1, <2>2
<1>2. QED
  BY <1>1, NobodyYet, PTL DEF Spec

\* Descriptors neither leak nor get mixed up, however ports, clients and
\* failures of accept and open follow one another: the loop over the ports
\* (accept, open_port, the close after the end of a client's stream) leaves
\* every number either free or with the one port that uses it.
THEOREM DescriptorsKept == Spec => []Descriptors
<1>1. DInv => Descriptors
  <2> SUFFICES ASSUME DInv PROVE FreeFds = Fds \ Watched
    BY DEF DInv, Held, Descriptors
  <2>1. QED
    BY DEF DInv, Owned, FreeFds, Watched
<1>2. QED
  BY <1>1, DescriptorsInvariant, PTL

-----------------------------------------------------------------------------
(* Reads.  A descriptor that select reported stays worth reading until the *)
(* loop comes to its port: nobody else reads from its client, what a client *)
(* sent can only be lost by a reset, and a reset ends the stream.  Only a   *)
(* port that takes a new client in this pass can have a number that was     *)
(* reported for something else.                                            *)

\* A read from the port's client returns at once.
Answers(p) == cin[ClientOf(p)] # <<>> \/ conn[ClientOf(p)].st = "closed"

\* The loop has yet to test the port's client.
Ahead(p) == p > at \/ (p = at /\ pc \in {"accept", "net"})

Reported ==
  /\ pc = "select" => fds = {}
  /\ \A p \in Ports \ listening :
       Ahead(p) /\ client_fd[p] # None /\ client_fd[p] \in fds => Answers(p)

\* The steps that move neither on to another port nor to another client: the
\* clients of the ports still to come must only stay worth reading.
LEMMA StillReported ==
  ASSUME DInv, Reported, UNCHANGED <<at, fds, listening>>, pc # "select", pc' # "select",
         pc' \in {"accept", "net"} => pc \in {"accept", "net"},
         \A p \in Ports \ listening : Ahead(p)' /\ client_fd'[p] # None =>
           /\ client_fd'[p] = client_fd[p]
           /\ client_fd[p] # None /\ Answers(p) => Answers(p)'
  PROVE  Reported'
<1> SUFFICES ASSUME NEW p \in Ports \ listening, Ahead(p)', client_fd'[p] # None,
                    client_fd'[p] \in fds
             PROVE  Answers(p)'
  BY DEF Reported
<1>1. Ahead(p)
  BY DEF Ahead
<1>2. client_fd[p] = client_fd'[p]
  OBVIOUS
<1>3. Answers(p)
  BY <1>1, <1>2 DEF Reported
<1>4. QED
  BY <1>2, <1>3

\* Each step of the server keeps it so.
LEMMA ServerReports ==
  ASSUME DInv, Pending, Reported, Server
  PROVE  Reported'
<1>0. /\ at \in Ports /\ Ports \subseteq Nat /\ cin \in [Conns -> Seq(Units)]
      /\ conn \in [Conns -> [st : {"none", "open", "closed"}, port : Ports]]
      /\ client_fd \in [Ports -> Fds \cup {None}] /\ file \in [Fds -> Files]
  BY ConsoleAssumption DEF ConsoleAssumption, DInv, DescType
<1>1. CASE Select
  <2>1. /\ fds' = {f \in Watched : Readable(f)} /\ pc' = "accept"
        /\ UNCHANGED <<client_fd, file, cin, conn>>
    BY <1>1 DEF Select, envVars
  <2>2. ASSUME NEW p \in Ports, client_fd[p] # None, Readable(client_fd[p])
        PROVE  Answers(p)
    <3>1. file[client_fd[p]].kind = "sock"
      BY <2>2 DEF DInv, Held
    <3>2. QED
      BY <2>2, <3>1 DEF Readable, Answers, ClientOf
  <2>3. QED
    BY <2>1, <2>2 DEF Reported, Answers, ClientOf
<1>2. CASE AcceptFails
  <2>1. /\ UNCHANGED <<at, fds, listening, client_fd, file, cin, conn>>
        /\ pc = "accept" /\ pc' = "net"
    BY <1>2 DEF AcceptFails, NewClient, envVars
  <2>2. QED
    BY <2>1, StillReported DEF Answers, ClientOf
<1>3. CASE OpenFails
  <2> DEFINE k == Head(queue[at])
  <2>1. /\ UNCHANGED <<at, fds, listening, client_fd, file, cin>>
        /\ pc = "accept" /\ pc' = "net" /\ NewClient
        /\ conn' = [conn EXCEPT ![k].st = "closed"]
        /\ queue' = [queue EXCEPT ![at] = Tail(@)]
    BY <1>3 DEF OpenFails, NewClient
  <2>2. k \in Conns
    BY <2>1, Accepted
  <2> HIDE DEF k
  <2>3. conn'[k].st = "closed" /\ \A j \in Conns \ {k} : conn'[j] = conn[j]
    BY <1>0, <2>1, <2>2, ConnClosed
  <2>4. ASSUME NEW p \in Ports, client_fd[p] # None, Answers(p) PROVE Answers(p)'
    <3>1. ClientOf(p) \in Conns
      BY <2>4, Apart
    <3>2. ClientOf(p)' = ClientOf(p)
      BY <2>1 DEF ClientOf
    <3>3. QED
      BY <2>1, <2>3, <2>4, <3>1, <3>2 DEF Answers
  <2>5. QED
    BY <2>1, <2>4, StillReported
<1>4. CASE Accept
  <2> DEFINE c == Lowest(FreeFds)
             t == Lowest(FreeFds \ {c})
  <2>1. /\ UNCHANGED <<at, fds, listening, cin, conn>>
        /\ pc = "accept" /\ pc' = "net" /\ at \in listening
        /\ client_fd' = [client_fd EXCEPT ![at] = c]
        /\ file' = [file EXCEPT ![c] = Sock(Head(queue[at])), ![t] = TtyOf(at)]
    BY <1>4 DEF Accept, NewClient
  <2> HIDE DEF c, t
  <2>3. ASSUME NEW p \in Ports \ listening, client_fd'[p] # None
        PROVE  /\ client_fd'[p] = client_fd[p]
               /\ Answers(p) => Answers(p)'
    <3>1. p # at
      BY <2>1
    <3>2. client_fd'[p] = client_fd[p]
      BY <1>0, <2>1, <3>1
    <3>3. client_fd[p] \in Fds /\ file[client_fd[p]].kind = "sock"
      BY <2>3, <3>2, Apart DEF DInv, Held
    <3>4. client_fd[p] # c /\ client_fd[p] # t
      <4>1. c \in FreeFds /\ t \in FreeFds
        BY <1>4, NewFds DEF Accept, c, t
      <4>2. Free.kind # "sock"
        BY DEF Free
      <4>3. QED
        BY <3>3, <4>1, <4>2 DEF FreeFds
    <3>5. file'[client_fd[p]] = file[client_fd[p]]
      BY <1>0, <2>1, <3>3, <3>4
    <3>6. QED
      BY <2>1, <3>2, <3>5 DEF Answers, ClientOf
  <2>4. QED
    BY <2>1, <2>3, StillReported
<1>5. CASE NetRead
  <2>1. /\ UNCHANGED <<at, fds, listening, client_fd, file, conn>>
        /\ pc \in {"accept", "net"} /\ pc' = "filter" /\ client_fd[at] # None
        /\ cin' = [cin EXCEPT ![ClientOf(at)] = <<>>]
    BY <1>5 DEF NetRead, AtNet, IsSet
  <2>2. ASSUME NEW p \in Ports, Ahead(p)', client_fd[p] # None, Answers(p)
        PROVE  Answers(p)'
    <3>1. p \in Ports \ {at}
      BY <1>0, <2>1, <2>2 DEF Ahead
    <3>2. ClientOf(p) # ClientOf(at) /\ ClientOf(at) \in Conns /\ ClientOf(p) \in Conns
      BY <1>0, <2>1, <2>2, <3>1, Apart
    <3>3. cin'[ClientOf(p)] = cin[ClientOf(p)] /\ ClientOf(p)' = ClientOf(p)
      BY <1>0, <2>1, <3>2 DEF ClientOf
    <3>4. QED
      BY <2>1, <2>2, <3>3 DEF Answers
  <2>3. QED
    BY <2>1, <2>2, StillReported
<1>6. CASE ClientGone
  <2>1. /\ UNCHANGED <<at, fds, listening, cin, conn>>
        /\ pc \in {"accept", "net"} /\ pc' = "serial" /\ client_fd[at] # None
        /\ client_fd' = [client_fd EXCEPT ![at] = None]
        /\ \A f \in Fds : f \notin {client_fd[at], tty_fd[at]} => file'[f] = file[f]
    BY <1>6 DEF ClientGone, AtNet, IsSet
  <2>2. ASSUME NEW p \in Ports, Ahead(p)', client_fd'[p] # None
        PROVE  client_fd'[p] = client_fd[p] /\ (Answers(p) => Answers(p)')
    <3>1. p \in Ports \ {at}
      BY <1>0, <2>1, <2>2 DEF Ahead
    <3>2. client_fd'[p] = client_fd[p]
      BY <1>0, <2>1, <3>1
    <3>3. client_fd[p] \in Fds /\ client_fd[p] \notin {client_fd[at], tty_fd[at]}
      BY <1>0, <2>1, <2>2, <3>1, <3>2, Apart
    <3>4. file'[client_fd[p]] = file[client_fd[p]]
      BY <2>1, <3>3
    <3>5. QED
      BY <2>1, <3>2, <3>4 DEF Answers, ClientOf
  <2>3. QED
    BY <2>1, <2>2, StillReported
<1>7. CASE FilterUnit \/ PlaceItem \/ TtyWrite
  <2>1. /\ UNCHANGED <<at, fds, listening, client_fd, file, cin, conn>>
        /\ pc \in {"filter", "forward"} /\ pc' \notin {"select", "accept", "net"}
    BY <1>7 DEF FilterUnit, PlaceItem, TtyWrite, envVars
  <2>2. QED
    BY <2>1, StillReported DEF Answers, ClientOf
<1>8. CASE SerialRead
  <2>1. /\ UNCHANGED <<at, fds, listening, client_fd, file, cin, conn>>
        /\ pc # "select" /\ pc' = "forward"
    BY <1>8 DEF SerialRead, AtSerial, AtNet
  <2>2. QED
    BY <2>1, StillReported DEF Answers, ClientOf
<1>9. CASE Advance
  <2>1. UNCHANGED <<client_fd, file, cin, conn>>
    BY <1>9 DEF Advance, envVars
  <2>2. CASE fds' = {}
    BY <2>2 DEF Reported
  <2>3. CASE ~Last(at) /\ at' = Following(at) /\ pc' = "accept" /\ UNCHANGED <<fds, listening>>
    <3>1. at' \in Ports /\ at' > at
      BY <1>0, <2>3, PortsInTurn
    <3>2. \A p \in Ports : Ahead(p)' => Ahead(p)
      BY <1>0, <3>1 DEF Ahead
    <3>3. QED
      BY <2>1, <2>3, <3>2 DEF Reported, Answers, ClientOf
  <2>4. QED
    BY <1>9, <2>2, <2>3 DEF Advance
<1>10. QED
  BY <1>1, <1>2, <1>3, <1>4, <1>5, <1>6, <1>7, <1>8, <1>9 DEF Server

\* The clients can make a read that would have returned return differently, but
\* not block.
LEMMA EnvironmentReports ==
  ASSUME DInv, Reported, Environment
  PROVE  Reported'
<1>0. /\ cin \in [Conns -> Seq(Units)]
      /\ conn \in [Conns -> [st : {"none", "open", "closed"}, port : Ports]]
      /\ UNCHANGED <<client_fd, file, at, fds, listening, pc>>
  BY DEF DInv, DescType, Environment, serverVars
<1>1. ASSUME \A j \in Conns : conn[j].st # "none" =>
               (cin[j] # <<>> \/ conn[j].st = "closed" => cin'[j] # <<>> \/ conn'[j].st = "closed")
      PROVE  Reported'
  <2>1. ASSUME NEW p \in Ports, client_fd[p] # None, Answers(p) PROVE Answers(p)'
    <3>1. ClientOf(p) \in Conns /\ client_fd[p] \in Fds
      BY <2>1, Apart
    <3>2. conn[ClientOf(p)].st # "none"
      BY <2>1, <3>1 DEF DInv, Made, Held, ClientOf
    <3>3. ClientOf(p)' = ClientOf(p)
      BY <1>0 DEF ClientOf
    <3>4. QED
      BY <1>1, <2>1, <3>1, <3>2, <3>3 DEF Answers
  <2>2. QED
    BY <1>0, <2>1 DEF Reported, Ahead
<1>2. ASSUME NEW k \in Conns, NEW p \in Ports, Connect(k, p) PROVE Reported'
  <2>1. cin' = cin /\ \A j \in Conns : conn[j].st # "none" => conn'[j] = conn[j]
    BY <1>0, <1>2 DEF Connect
  <2>2. QED
    BY <1>1, <2>1
<1>3. ASSUME NEW k \in Conns, NEW kind \in Kinds, Send(k, kind) PROVE Reported'
  <2> DEFINE u == [conn |-> k, kind |-> kind, n |-> nsent']
  <2>1. conn' = conn /\ cin' = [cin EXCEPT ![k] = Append(@, u)]
    BY <1>3 DEF Send
  <2> HIDE DEF u
  <2>2. Append(cin[k], u) # <<>>
    <3>1. cin[k] \in Seq(Units)
      BY <1>0
    <3>2. QED
      BY <3>1, AppendProperties, EmptySeq
  <2>3. \A j \in Conns : cin[j] # <<>> => cin'[j] # <<>>
    BY <1>0, <2>1, <2>2
  <2>4. QED
    BY <1>1, <2>1, <2>3
<1>4. ASSUME NEW k \in Conns, Close(k) PROVE Reported'
  <2>1. /\ conn' = [conn EXCEPT ![k].st = "closed"]
        /\ cin' = cin \/ cin' = [cin EXCEPT ![k] = <<>>]
    BY <1>4 DEF Close
  <2>2. conn'[k].st = "closed" /\ \A j \in Conns \ {k} : conn'[j] = conn[j]
    BY <1>0, <2>1, ConnClosed
  <2>3. \A j \in Conns \ {k} : cin'[j] = cin[j]
    BY <1>0, <2>1
  <2>4. QED
    BY <1>1, <2>2, <2>3
<1>5. ASSUME UNCHANGED <<conn, cin>> PROVE Reported'
  BY <1>1, <1>5
<1>6. QED
  BY <1>2, <1>3, <1>4, <1>5 DEF Environment, Receive, Arrive

\* The server can block in a read only on a client it accepted in this very
\* pass (nmconsole.c, the FD_ISSET after the accept): the descriptor has the
\* number of one that select reported and an earlier port has closed since.
THEOREM ReadBlocksReuse == Spec => []ReadBlocksOnlyOnReuse
<1>1. Init => Reported
  BY DEF Init, Reported
<1>2. ASSUME DInv /\ Pending, Reported, [Next]_vars PROVE Reported'
  <2>1. CASE Next
    BY <1>2, <2>1, ServerReports, EnvironmentReports DEF Next
  <2>2. CASE UNCHANGED vars
    BY <1>2, <2>2 DEF vars, serverVars, envVars, Reported, Ahead, Answers, ClientOf
  <2>3. QED
    BY <1>2, <2>1, <2>2
<1>3. DInv /\ Reported => ReadBlocksOnlyOnReuse
  <2> SUFFICES ASSUME DInv, Reported, ReadBlocks, at \notin listening PROVE FALSE
    BY DEF ReadBlocksOnlyOnReuse
  <2>1. at \in Ports \ listening /\ Ahead(at)
    BY DEF DInv, DescType, ReadBlocks, AtNet, Ahead
  <2>2. Answers(at)
    BY <2>1 DEF Reported, ReadBlocks, IsSet
  <2>3. QED
    BY <2>2 DEF Answers, ReadBlocks
<1>4. QED
  BY <1>1, <1>2, <1>3, DescriptorsInvariant, PTL DEF Spec

-----------------------------------------------------------------------------
(* Types.  A write is under way only for a port that has a client.         *)

Busy == pc \in {"filter", "forward"} => client_fd[at] # None

\* What a step of a sequence of messages leaves.
LEMMA SeqSteps ==
  ASSUME NEW U, NEW s \in Seq(U)
  PROVE  /\ \A x \in U : Append(s, x) \in Seq(U)
         /\ s # <<>> => Head(s) \in U /\ Tail(s) \in Seq(U)
OBVIOUS

\* The items the server writes.
LEMMA ItemKinds ==
  /\ [kind |-> "hello"] \in Items /\ [kind |-> "refused"] \in Items
  /\ [kind |-> "reply"] \in Items
  /\ \A p \in Ports, n \in Nat : [kind |-> "char", port |-> p, n |-> n] \in Items
BY DEF Items

\* The steps of the server keep every variable in its type.
LEMMA ServerTypes ==
  ASSUME DInv, Pending, TypeOK, Busy, Server
  PROVE  TypeOK' /\ Busy'
<1>0. at \in Ports /\ First \in Ports /\ None \notin Fds /\ SockCap \in Nat \ {0}
  BY PortsInTurn, NoneIsNone, ConsoleAssumption DEF DInv, DescType, ConsoleAssumption
<1>1. /\ client_fd' \in [Ports -> Fds \cup {None}] /\ tty_fd' \in [Ports -> Fds \cup {None}]
      /\ file' \in [Fds -> {Free} \cup {Sock(k) : k \in Conns} \cup {TtyOf(p) : p \in Ports}]
      /\ at' \in Ports /\ cin' \in [Conns -> Seq(Units)]
      /\ conn' \in [Conns -> [st : {"none", "open", "closed"}, port : Ports]]
      /\ queue' \in [Ports -> Seq(Conns)]
  BY ServerKeeps DEF DInv, DescType, Files
<1>2. CASE Select
  <2>1. fds' \subseteq Fds /\ listening' \subseteq Ports /\ pc' = "accept"
    BY <1>2 DEF Select, Watched, Listeners
  <2>2. QED
    BY <1>1, <1>2, <2>1 DEF Select, envVars, TypeOK, Busy
<1>3. CASE AcceptFails
  <2>1. faults' \in 0..MaxFaults /\ pc' = "net"
    BY <1>3, ConsoleAssumption DEF AcceptFails, FailsWith, TypeOK, ConsoleAssumption
  <2>2. QED
    BY <1>1, <1>3, <2>1 DEF AcceptFails, envVars, TypeOK, Busy
<1>4. CASE OpenFails \/ Accept
  <2> DEFINE k == Head(queue[at])
  <2>1. k \in Conns
    BY <1>4, Accepted DEF OpenFails, Accept
  <2> HIDE DEF k
  <2>2. \A x \in Items : <<x>> \in Seq(Items)
    OBVIOUS
  <2>3. got' \in [Conns -> Seq(Items)]
    <3>1. \A x \in Items : [got EXCEPT ![k] = <<x>>] \in [Conns -> Seq(Items)]
      BY <2>1, <2>2 DEF TypeOK
    <3>2. \E x \in Items : got' = [got EXCEPT ![k] = <<x>>]
      BY <1>4, ItemKinds DEF OpenFails, Accept, k
    <3>3. QED
      BY <3>1, <3>2
  <2>4. faults' \in 0..MaxFaults /\ pc' = "net"
    <3>1. faults \in 0..MaxFaults /\ MaxFaults \in Nat
      BY ConsoleAssumption DEF TypeOK, ConsoleAssumption
    <3>2. pc' = "net" /\ (faults' = faults \/ (faults < MaxFaults /\ faults' = faults + 1))
      BY <1>4 DEF OpenFails, Accept, FailsWith
    <3>3. QED
      BY <3>1, <3>2
  <2>5. unread' \in [Conns -> 0..SockCap]
    <3>1. 1 \in 0..SockCap
      BY <1>0
    <3>2. unread' = unread \/ unread' = [unread EXCEPT ![k] = 1]
      BY <1>4 DEF OpenFails, Accept, k
    <3>3. QED
      BY <2>1, <3>1, <3>2 DEF TypeOK
  <2>6. /\ UNCHANGED <<fds, listening, obuf, raw, chars, nsent, tin, ncame, wire>>
    BY <1>4 DEF OpenFails, Accept
  <2>7. QED
    BY <1>1, <2>3, <2>4, <2>5, <2>6 DEF TypeOK, Busy
<1>5. CASE NetRead
  <2>1. client_fd[at] # None /\ client_fd' = client_fd /\ at' = at /\ pc' = "filter"
    BY <1>5 DEF NetRead, IsSet
  <2>2. ClientOf(at) \in Conns
    BY <1>0, <2>1, Apart
  <2>3. raw' \in Seq(Units)
    BY <1>5, <2>2 DEF NetRead, TypeOK
  <2>4. QED
    BY <1>1, <1>5, <2>1, <2>3 DEF NetRead, TypeOK, Busy
<1>6. CASE FilterUnit
  <2> DEFINE u == Head(raw)
  <2>1. raw \in Seq(Units) /\ raw # <<>> /\ chars \in Seq(Units)
    BY <1>6 DEF FilterUnit, TypeOK
  <2>2. u \in Units /\ raw' \in Seq(Units)
    BY <1>6, <2>1, SeqSteps DEF FilterUnit
  <2> HIDE DEF u
  <2>3. /\ chars' = chars \/ chars' = Append(chars, u)
        /\ wire' = wire \/ wire' = [wire EXCEPT ![at] = Append(@, u)]
        /\ obuf' = obuf \/ obuf' = <<[kind |-> "reply"]>>
        /\ UNCHANGED <<pc, at, client_fd>>
        /\ UNCHANGED <<fds, listening, unread, nsent, tin, ncame, faults, got>>
    BY <1>6 DEF FilterUnit, u, Refused, envVars
  <2>4. chars' \in Seq(Units)
    BY <2>1, <2>2, <2>3, SeqSteps
  <2>5. wire' \in [Ports -> Seq(Units)]
    <3>1. Append(wire[at], u) \in Seq(Units)
      BY <1>0, <2>2, SeqSteps DEF TypeOK
    <3>2. QED
      BY <1>0, <2>3, <3>1 DEF TypeOK
  <2>6. obuf' \in Seq(Items)
    <3>1. <<[kind |-> "reply"]>> \in Seq(Items)
      BY ItemKinds
    <3>2. QED
      BY <2>3, <3>1 DEF TypeOK
  <2>7. QED
    BY <1>1, <2>2, <2>3, <2>4, <2>5, <2>6 DEF TypeOK, Busy
<1>7. CASE ClientGone
  <2>1. tin' \in [Ports -> Seq(Nat)]
    <3>1. <<>> \in Seq(Nat)
      OBVIOUS
    <3>2. QED
      BY <1>0, <1>7, <3>1 DEF ClientGone, TypeOK
  <2>2. QED
    BY <1>1, <1>7, <2>1 DEF ClientGone, TypeOK, Busy
<1>8. CASE PlaceItem
  <2> DEFINE k == ClientOf(at)
  <2>1. k \in Conns
    BY <1>0, <1>8, Apart DEF PlaceItem, Busy
  <2> HIDE DEF k
  <2>2. obuf \in Seq(Items) /\ obuf # <<>>
    BY <1>8 DEF PlaceItem, TypeOK
  <2>3. Head(obuf) \in Items /\ obuf' \in Seq(Items)
    BY <1>8, <2>2, SeqSteps DEF PlaceItem
  <2>4. \/ /\ unread[k] < SockCap /\ unread' = [unread EXCEPT ![k] = @ + 1]
           /\ got' = [got EXCEPT ![k] = Append(@, Head(obuf))]
        \/ UNCHANGED <<unread, got>>
    BY <1>8 DEF PlaceItem, k
  <2>5. unread' \in [Conns -> 0..SockCap]
    <3>1. unread[k] < SockCap => unread[k] + 1 \in 0..SockCap
      <4>1. unread[k] \in 0..SockCap
        BY <2>1 DEF TypeOK
      <4>2. QED
        BY <1>0, <4>1
    <3>2. QED
      BY <2>1, <2>4, <3>1 DEF TypeOK
  <2>6. got' \in [Conns -> Seq(Items)]
    <3>1. Append(got[k], Head(obuf)) \in Seq(Items)
      BY <2>1, <2>3, SeqSteps DEF TypeOK
    <3>2. QED
      BY <2>1, <2>4, <3>1 DEF TypeOK
  <2>7. QED
    BY <1>1, <1>8, <2>3, <2>5, <2>6 DEF PlaceItem, TypeOK, Busy
<1>9. CASE TtyWrite
  <2>1. PICK n \in 0..Len(chars) : wire' = [wire EXCEPT ![at] = @ \o SubSeq(chars, 1, n)]
    BY <1>9 DEF TtyWrite
  <2>2. chars \in Seq(Units) /\ wire \in [Ports -> Seq(Units)]
    BY DEF TypeOK
  <2>3. SubSeq(chars, 1, n) \in Seq(Units)
    BY <2>2
  <2>4. wire[at] \o SubSeq(chars, 1, n) \in Seq(Units)
    BY <1>0, <2>2, <2>3, ConcatProperties
  <2>5. wire' \in [Ports -> Seq(Units)]
    BY <1>0, <2>1, <2>2, <2>4
  <2>6. <<>> \in Seq(Units)
    OBVIOUS
  <2>7. QED
    BY <1>1, <1>9, <2>5, <2>6 DEF TtyWrite, envVars, TypeOK, Busy
<1>10. CASE SerialRead
  <2>1. client_fd[at] # None
    BY <1>0, <1>10 DEF SerialRead, IsSet, DInv, Held
  <2>2. tin[at] \in Seq(Nat) /\ tin \in [Ports -> Seq(Nat)]
    BY <1>0 DEF TypeOK
  <2>3. obuf' \in Seq(Items)
    <3>1. /\ obuf' = [j \in 1..Len(tin[at]) |-> [kind |-> "char", port |-> at, n |-> tin[at][j]]]
          /\ Len(tin[at]) \in Nat
      BY <1>10, <2>2 DEF SerialRead
    <3>2. \A j \in 1..Len(tin[at]) : tin[at][j] \in Nat
      BY <2>2
    <3>3. \A j \in 1..Len(tin[at]) : [kind |-> "char", port |-> at, n |-> tin[at][j]] \in Items
      BY <1>0, <3>2, ItemKinds
    <3>4. obuf' \in [1..Len(tin[at]) -> Items]
      BY <3>1, <3>3
    <3>5. QED
      BY <3>1, <3>4, SeqDef
  <2>4. tin' \in [Ports -> Seq(Nat)]
    <3>1. <<>> \in Seq(Nat)
      OBVIOUS
    <3>2. QED
      BY <1>0, <1>10, <2>2, <3>1 DEF SerialRead
  <2>5. QED
    BY <1>1, <1>10, <2>1, <2>3, <2>4 DEF SerialRead, TypeOK, Busy
<1>11. CASE Advance
  <2>1. /\ pc' \in {"select", "accept"} /\ fds' \subseteq Fds /\ listening' \subseteq Ports
    BY <1>11 DEF Advance, TypeOK
  <2>2. QED
    BY <1>1, <1>11, <2>1 DEF Advance, envVars, TypeOK, Busy
<1>12. QED
  BY <1>2, <1>3, <1>4, <1>5, <1>6, <1>7, <1>8, <1>9, <1>10, <1>11 DEF Server

\* So do the clients and the lines.
LEMMA EnvironmentTypes ==
  ASSUME DInv, TypeOK, Busy, Environment
  PROVE  TypeOK' /\ Busy'
<1>0. /\ UNCHANGED <<client_fd, tty_fd, file, pc, at, fds, listening, obuf, raw, chars>>
      /\ UNCHANGED <<faults, wire, got>>
  BY DEF Environment, serverVars
<1>1. Busy'
  BY <1>0 DEF Busy
<1>2. /\ cin' \in [Conns -> Seq(Units)] /\ queue' \in [Ports -> Seq(Conns)]
      /\ conn' \in [Conns -> [st : {"none", "open", "closed"}, port : Ports]]
  BY EnvironmentKeeps DEF DInv, DescType
<1>3. /\ unread \in [Conns -> 0..SockCap] /\ nsent \in 0..MaxUnits /\ ncame \in 0..MaxChars
      /\ tin \in [Ports -> Seq(Nat)]
      /\ SockCap \in Nat /\ MaxUnits \in Nat /\ MaxChars \in Nat
  BY ConsoleAssumption DEF TypeOK, ConsoleAssumption
<1>4. unread' \in [Conns -> 0..SockCap]
  <2>1. unread' = unread \/ \E k \in Conns : unread' = [unread EXCEPT ![k] = 0]
    BY DEF Environment, Connect, Send, Receive, Close, Arrive
  <2>2. QED
    BY <1>3, <2>1
<1>5. nsent' \in 0..MaxUnits
  <2>1. nsent' = nsent \/ (nsent < MaxUnits /\ nsent' = nsent + 1)
    BY DEF Environment, Connect, Send, Receive, Close, Arrive
  <2>2. QED
    BY <1>3, <2>1
<1>6. ncame' \in 0..MaxChars /\ tin' \in [Ports -> Seq(Nat)]
  <2>1. \/ UNCHANGED <<ncame, tin>>
        \/ \E p \in Ports : /\ ncame < MaxChars /\ ncame' = ncame + 1
                            /\ tin' = [tin EXCEPT ![p] = Append(@, ncame')]
    BY DEF Environment, Connect, Send, Receive, Close, Arrive
  <2>2. CASE UNCHANGED <<ncame, tin>>
    BY <1>3, <2>2
  <2>3. ASSUME NEW p \in Ports, ncame < MaxChars, ncame' = ncame + 1,
               tin' = [tin EXCEPT ![p] = Append(@, ncame')]
        PROVE  ncame' \in 0..MaxChars /\ tin' \in [Ports -> Seq(Nat)]
    <3>1. ncame' \in 0..MaxChars /\ ncame' \in Nat
      BY <1>3, <2>3
    <3>2. Append(tin[p], ncame') \in Seq(Nat)
      BY <1>3, <3>1, SeqSteps
    <3>3. QED
      BY <1>3, <2>3, <3>1, <3>2
  <2>4. QED
    BY <2>1, <2>2, <2>3
<1>7. QED
  BY <1>0, <1>1, <1>2, <1>4, <1>5, <1>6 DEF TypeOK

\* The types and the write under way, throughout.
LEMMA TypesInvariant == Spec => [](TypeOK /\ Busy)
<1>1. Init => TypeOK /\ Busy
  <2> SUFFICES ASSUME Init PROVE TypeOK /\ Busy
    OBVIOUS
  <2>1. First \in Ports
    BY PortsInTurn
  <2>2. /\ 0 \in 0..MaxUnits /\ 0 \in 0..MaxChars /\ 0 \in 0..MaxFaults /\ 0 \in 0..SockCap
    BY ConsoleAssumption DEF ConsoleAssumption
  <2>3. /\ <<>> \in Seq(Conns) /\ <<>> \in Seq(Units) /\ <<>> \in Seq(Nat) /\ <<>> \in Seq(Items)
    OBVIOUS
  <2>4. QED
    BY <2>1, <2>2, <2>3 DEF Init, TypeOK, Busy
<1>2. ASSUME DInv /\ Pending, TypeOK /\ Busy, [Next]_vars PROVE (TypeOK /\ Busy)'
  <2>1. CASE Next
    BY <1>2, <2>1, ServerTypes, EnvironmentTypes DEF Next
  <2>2. CASE UNCHANGED vars
    BY <1>2, <2>2 DEF vars, serverVars, envVars, TypeOK, Busy
  <2>3. QED
    BY <1>2, <2>1, <2>2
<1>3. QED
  BY <1>1, <1>2, DescriptorsInvariant, PTL DEF Spec

\* Every variable keeps its type whatever the clients and the lines do: in
\* particular a client's socket buffer is never written past its size, and what
\* is written to a client is greetings, refusals and characters of lines, never
\* its own commands.
THEOREM TypeCorrect == Spec => []TypeOK
BY TypesInvariant, PTL

-----------------------------------------------------------------------------
(* Streams.  A unit goes from its client (cin) through the read (raw) to   *)
(* the line (wire), a character by way of chars.  At every moment what is  *)
(* further along was sent earlier, and a client that has a unit on a line  *)
(* was served there: it is not waiting to be, and while it is the port's   *)
(* client its units are the last on the line.  A character of a line goes  *)
(* from tin through obuf to the client (got) in the same way.              *)

\* x was sent before y, if both are of one client and of one kind.
Before(x, y) == x.conn = y.conn /\ x.kind = y.kind => x.n < y.n

\* x came on its line before y, if both are characters of a line.
Earlier(x, y) == x.kind = "char" /\ y.kind = "char" => x.n < y.n

AllBefore(S, T) == \A x \in S, y \in T : Before(x, y)
AllEarlier(S, T) == \A x \in S, y \in T : Earlier(x, y)

Ordered(s) == \A a, b \in DOMAIN s : a < b => Before(s[a], s[b])
Rising(s) == \A a, b \in DOMAIN s : a < b => Earlier(s[a], s[b])

UpTo(S, m) == \A x \in S : x.n <= m

\* What a client has sent and the server has not read.
Unread == \A k \in Conns : /\ Ordered(cin[k]) /\ UpTo(Range(cin[k]), nsent)
                           /\ \A x \in Range(cin[k]) : x.conn = k

\* What the server has read and not written.
InHand ==
  /\ pc # "filter" => raw = <<>> /\ chars = <<>>
  /\ Ordered(raw) /\ Ordered(chars) /\ UpTo(Range(raw), nsent) /\ UpTo(Range(chars), nsent)
  /\ AllBefore(Range(chars), Range(raw))
  /\ \A x \in Range(raw) : x.conn = ClientOf(at)
  /\ \A x \in Range(chars) : x.conn = ClientOf(at) /\ x.kind = "char"
  /\ \A k \in Conns : /\ AllBefore(Range(raw), Range(cin[k]))
                      /\ AllBefore(Range(chars), Range(cin[k]))

\* What it has written.
OnLine(p) ==
  /\ Ordered(wire[p]) /\ UpTo(Range(wire[p]), nsent)
  /\ AllBefore(Range(wire[p]), Range(raw)) /\ AllBefore(Range(wire[p]), Range(chars))
  /\ \A k \in Conns : AllBefore(Range(wire[p]), Range(cin[k]))

\* Whose it was.
Served(p) ==
  \A x \in Range(wire[p]) :
    /\ x.kind \in {"char", "break"}
    /\ conn[x.conn].port = p /\ conn[x.conn].st # "none"
    /\ x.conn \notin Range(queue[p])

\* Sessions follow one another on a line, the present one last.
InSessions(w) ==
  \A a, m, b \in DOMAIN w :
    a <= m /\ m <= b /\ w[a].conn = w[b].conn => w[m].conn = w[a].conn

EndsWith(w, k) ==
  \A a, m \in DOMAIN w : a <= m /\ w[a].conn = k => w[m].conn = k

InTurn(p) == /\ InSessions(wire[p])
             /\ client_fd[p] # None => EndsWith(wire[p], ClientOf(p))

\* A connection waits once, and not when it is served.
Once(q) == \A i, j \in DOMAIN q : i # j => q[i] # q[j]

WaitsOnce(p) ==
  /\ Once(queue[p])
  /\ client_fd[p] # None => ClientOf(p) \notin Range(queue[p])

Flow == Unread /\ InHand /\ \A p \in Ports : OnLine(p)

Sessions == \A p \in Ports : Served(p) /\ InTurn(p) /\ WaitsOnce(p)

\* A character is earlier than what is still to be read from the line.
Come(x, p, m, t) ==
  x.kind = "char" => x.port = p /\ x.n <= m /\ \A c \in Range(t) : x.n < c

Read(x, p) == Come(x, p, ncame, tin[p])

Arrived(p) == /\ \A m \in Range(tin[p]) : m <= ncame
              /\ \A a, b \in DOMAIN tin[p] : a < b => tin[p][a] < tin[p][b]

Writing == /\ pc \notin {"filter", "forward"} => obuf = <<>>
           /\ Rising(obuf) /\ \A x \in Range(obuf) : Read(x, at)

Given(k) == /\ Rising(got[k]) /\ \A x \in Range(got[k]) : Read(x, conn[k].port)
            /\ conn[k].port = at => AllEarlier(Range(got[k]), Range(obuf))
            /\ conn[k].st = "none" => got[k] = <<>>

ToClient == /\ \A p \in Ports : Arrived(p)
            /\ Writing
            /\ \A k \in Conns : Given(k)

-----------------------------------------------------------------------------
(* Sequences that are appended to and taken from.                          *)

\* Where the elements of the changed sequence come from.
LEMMA AppendIdx ==
  ASSUME NEW U, NEW s \in Seq(U), NEW x \in U
  PROVE  /\ Append(s, x) \in Seq(U) /\ Len(s) \in Nat /\ DOMAIN s = 1..Len(s)
         /\ DOMAIN Append(s, x) = 1..(Len(s) + 1)
         /\ Append(s, x)[Len(s) + 1] = x
         /\ \A i \in DOMAIN s : Append(s, x)[i] = s[i]
BY AppendProperties, LenProperties

LEMMA TailIdx ==
  ASSUME NEW U, NEW s \in Seq(U), s # <<>>
  PROVE  /\ Tail(s) \in Seq(U) /\ Head(s) = s[1] /\ 1 \in DOMAIN s
         /\ \A i \in DOMAIN Tail(s) : /\ i \in Nat /\ i + 1 \in DOMAIN s /\ 1 < i + 1
                                      /\ Tail(s)[i] = s[i + 1]
<1>1. Len(s) \in Nat /\ Len(s) > 0 /\ DOMAIN s = 1..Len(s)
  BY EmptySeq, LenProperties
<1>2. DOMAIN Tail(s) = 1..(Len(s) - 1)
  BY <1>1, HeadTailProperties, LenProperties
<1>3. QED
  BY <1>1, <1>2, HeadTailProperties

LEMMA ConcatIdx ==
  ASSUME NEW U, NEW s \in Seq(U), NEW t \in Seq(U)
  PROVE  /\ s \o t \in Seq(U) /\ Len(s) \in Nat /\ DOMAIN s = 1..Len(s)
         /\ \A i \in DOMAIN s : i \in DOMAIN (s \o t) /\ (s \o t)[i] = s[i]
         /\ \A i \in DOMAIN t : Len(s) + i \in DOMAIN (s \o t) /\ (s \o t)[Len(s) + i] = t[i]
         /\ \A i \in DOMAIN (s \o t) :
              i \in Nat /\ (i \in DOMAIN s \/ (i > Len(s) /\ i - Len(s) \in DOMAIN t /\ (s \o t)[i] = t[i - Len(s)]))
<1>1. /\ Len(s) \in Nat /\ DOMAIN s = 1..Len(s) /\ Len(t) \in Nat /\ DOMAIN t = 1..Len(t)
  BY LenProperties
<1>2. DOMAIN (s \o t) = 1..(Len(s) + Len(t))
  BY ConcatProperties, LenProperties
<1>3. QED
  BY <1>1, <1>2, ConcatProperties

\* The elements of the changed sequence.
LEMMA RangeSteps ==
  ASSUME NEW U, NEW s \in Seq(U)
  PROVE  /\ Range(s) \subseteq U
         /\ \A x \in U : Range(Append(s, x)) = Range(s) \cup {x}
         /\ s # <<>> => Head(s) \in Range(s) /\ Range(Tail(s)) \subseteq Range(s)
<1>1. Range(s) \subseteq U
  BY LenProperties, ElementOfSeq DEF Range
<1>2. ASSUME NEW x \in U PROVE Range(Append(s, x)) = Range(s) \cup {x}
  <2>1. \A y \in Range(Append(s, x)) : y \in Range(s) \cup {x}
    BY AppendIdx DEF Range
  <2>2. \A y \in Range(s) \cup {x} : y \in Range(Append(s, x))
    BY AppendIdx DEF Range
  <2>3. QED
    BY <2>1, <2>2
<1>3. ASSUME s # <<>> PROVE Head(s) \in Range(s) /\ Range(Tail(s)) \subseteq Range(s)
  BY <1>3, TailIdx DEF Range
<1>4. QED
  BY <1>1, <1>2, <1>3

LEMMA RangeEmpty == Range(<<>>) = {} /\ DOMAIN <<>> = {}
<1>1. DOMAIN <<>> = {}
  OBVIOUS
<1>2. QED
  BY <1>1 DEF Range

\* Units stay in order when a later one is appended and when the first is taken.
LEMMA OrderedAppend ==
  ASSUME NEW s \in Seq(Units), NEW x \in Units, Ordered(s), AllBefore(Range(s), {x})
  PROVE  Ordered(Append(s, x))
<1> DEFINE t == Append(s, x)
<1>1. /\ Len(s) \in Nat /\ DOMAIN s = 1..Len(s) /\ DOMAIN t = 1..(Len(s) + 1)
      /\ t[Len(s) + 1] = x /\ \A i \in DOMAIN s : t[i] = s[i]
  BY AppendIdx
<1> HIDE DEF t
<1>2. SUFFICES ASSUME NEW a \in DOMAIN t, NEW b \in DOMAIN t, a < b
               PROVE  Before(t[a], t[b])
  BY DEF Ordered, t
<1>3. a \in DOMAIN s
  BY <1>1, <1>2
<1>4. CASE b \in DOMAIN s
  BY <1>1, <1>2, <1>3, <1>4 DEF Ordered
<1>5. CASE b = Len(s) + 1
  <2>1. s[a] \in Range(s)
    BY <1>3 DEF Range
  <2>2. QED
    BY <1>1, <1>3, <1>5, <2>1 DEF AllBefore
<1>6. QED
  BY <1>1, <1>4, <1>5

LEMMA OrderedTail ==
  ASSUME NEW s \in Seq(Units), s # <<>>, Ordered(s)
  PROVE  Ordered(Tail(s)) /\ AllBefore({Head(s)}, Range(Tail(s)))
<1>1. /\ Head(s) = s[1] /\ 1 \in DOMAIN s
      /\ \A i \in DOMAIN Tail(s) : /\ i \in Nat /\ i + 1 \in DOMAIN s /\ 1 < i + 1
                                   /\ Tail(s)[i] = s[i + 1]
  BY TailIdx
<1>2. Ordered(Tail(s))
  BY <1>1 DEF Ordered
<1>3. \A i \in DOMAIN Tail(s) : Before(Head(s), Tail(s)[i])
  BY <1>1 DEF Ordered
<1>4. QED
  BY <1>2, <1>3 DEF AllBefore, Range

\* The same for the items a client is given.
LEMMA RisingAppend ==
  ASSUME NEW s \in Seq(Items), NEW x \in Items, Rising(s), AllEarlier(Range(s), {x})
  PROVE  Rising(Append(s, x))
<1> DEFINE t == Append(s, x)
<1>1. /\ Len(s) \in Nat /\ DOMAIN s = 1..Len(s) /\ DOMAIN t = 1..(Len(s) + 1)
      /\ t[Len(s) + 1] = x /\ \A i \in DOMAIN s : t[i] = s[i]
  BY AppendIdx
<1> HIDE DEF t
<1>2. SUFFICES ASSUME NEW a \in DOMAIN t, NEW b \in DOMAIN t, a < b
               PROVE  Earlier(t[a], t[b])
  BY DEF Rising, t
<1>3. a \in DOMAIN s
  BY <1>1, <1>2
<1>4. CASE b \in DOMAIN s
  BY <1>1, <1>2, <1>3, <1>4 DEF Rising
<1>5. CASE b = Len(s) + 1
  <2>1. s[a] \in Range(s)
    BY <1>3 DEF Range
  <2>2. QED
    BY <1>1, <1>3, <1>5, <2>1 DEF AllEarlier
<1>6. QED
  BY <1>1, <1>4, <1>5

LEMMA RisingTail ==
  ASSUME NEW s \in Seq(Items), s # <<>>, Rising(s)
  PROVE  Rising(Tail(s)) /\ AllEarlier({Head(s)}, Range(Tail(s)))
<1>1. /\ Head(s) = s[1] /\ 1 \in DOMAIN s
      /\ \A i \in DOMAIN Tail(s) : /\ i \in Nat /\ i + 1 \in DOMAIN s /\ 1 < i + 1
                                   /\ Tail(s)[i] = s[i + 1]
  BY TailIdx
<1>2. Rising(Tail(s))
  BY <1>1 DEF Rising
<1>3. \A i \in DOMAIN Tail(s) : Earlier(Head(s), Tail(s)[i])
  BY <1>1 DEF Rising
<1>4. QED
  BY <1>2, <1>3 DEF AllEarlier, Range

\* What a write does to a line: the order.
Joins(w, t) ==
  /\ w \in Seq(Units) /\ t \in Seq(Units)
  /\ Ordered(w) /\ Ordered(t) /\ AllBefore(Range(w), Range(t))

LEMMA OrderedJoin ==
  ASSUME NEW w, NEW t, Joins(w, t)
  PROVE  Ordered(w \o t) /\ Range(w \o t) = Range(w) \cup Range(t)
<1> DEFINE v == w \o t
           L == Len(w)
<1>1. /\ L \in Nat /\ DOMAIN w = 1..L
      /\ \A i \in DOMAIN w : i \in DOMAIN v /\ v[i] = w[i]
      /\ \A i \in DOMAIN t : L + i \in DOMAIN v /\ v[L + i] = t[i]
      /\ \A i \in DOMAIN v :
           i \in Nat /\ (i \in DOMAIN w \/ (i > L /\ i - L \in DOMAIN t /\ v[i] = t[i - L]))
  BY ConcatIdx DEF Joins
<1> HIDE DEF v, L
<1>2. Range(v) = Range(w) \cup Range(t)
  <2>1. \A x \in Range(v) : x \in Range(w) \cup Range(t)
    BY <1>1 DEF Range
  <2>2. \A x \in Range(w) \cup Range(t) : x \in Range(v)
    BY <1>1 DEF Range
  <2>3. QED
    BY <2>1, <2>2
<1>3. /\ \A a \in DOMAIN w : w[a] \in Range(w)
      /\ \A b \in DOMAIN t : t[b] \in Range(t)
  BY DEF Range
<1>4. Ordered(v)
  <2> SUFFICES ASSUME NEW a \in DOMAIN v, NEW b \in DOMAIN v, a < b
               PROVE  Before(v[a], v[b])
    BY DEF Ordered
  <2>1. CASE a \in DOMAIN w /\ b \in DOMAIN w
    BY <1>1, <2>1 DEF Joins, Ordered
  <2>2. CASE a \in DOMAIN w /\ b \notin DOMAIN w
    BY <1>1, <1>3, <2>2 DEF Joins, AllBefore
  <2>3. CASE a \notin DOMAIN w
    <3>1. b \notin DOMAIN w
      BY <1>1, <2>3
    <3>2. /\ a - L \in DOMAIN t /\ b - L \in DOMAIN t /\ a - L < b - L
          /\ v[a] = t[a - L] /\ v[b] = t[b - L]
      BY <1>1, <2>3, <3>1
    <3>3. QED
      BY <3>2 DEF Joins, Ordered
  <2>4. QED
    BY <2>1, <2>2, <2>3
<1>5. QED
  BY <1>2, <1>4 DEF v

\* The sessions: the units are of one client, the last on the line.
Continues(w, t, k) ==
  /\ w \in Seq(Units) /\ t \in Seq(Units)
  /\ \A x \in Range(t) : x.conn = k
  /\ InSessions(w) /\ EndsWith(w, k)

LEMMA SessionContinues ==
  ASSUME NEW w, NEW t, NEW k, Continues(w, t, k)
  PROVE  InSessions(w \o t) /\ EndsWith(w \o t, k)
<1> DEFINE v == w \o t
           L == Len(w)
<1>1. /\ L \in Nat /\ DOMAIN w = 1..L
      /\ \A i \in DOMAIN w : i \in DOMAIN v /\ v[i] = w[i]
      /\ \A i \in DOMAIN v :
           i \in Nat /\ (i \in DOMAIN w \/ (i > L /\ i - L \in DOMAIN t /\ v[i] = t[i - L]))
  BY ConcatIdx DEF Continues
<1> HIDE DEF v, L
<1>2. \A b \in DOMAIN t : t[b].conn = k
  BY DEF Range, Continues
<1>3. \A i \in DOMAIN v : i \notin DOMAIN w => v[i].conn = k
  BY <1>1, <1>2
<1>4. EndsWith(v, k)
  <2> SUFFICES ASSUME NEW a \in DOMAIN v, NEW m \in DOMAIN v, a <= m, v[a].conn = k
               PROVE  v[m].conn = k
    BY DEF EndsWith
  <2>1. CASE m \in DOMAIN w
    BY <1>1, <2>1 DEF Continues, EndsWith
  <2>2. QED
    BY <1>3, <2>1
<1>5. InSessions(v)
  <2> SUFFICES ASSUME NEW a \in DOMAIN v, NEW m \in DOMAIN v, NEW b \in DOMAIN v,
                      a <= m, m <= b, v[a].conn = v[b].conn
               PROVE  v[m].conn = v[a].conn
    BY DEF InSessions
  <2>1. CASE b \in DOMAIN w
    <3>1. a \in DOMAIN w /\ m \in DOMAIN w
      BY <1>1, <2>1
    <3>2. QED
      BY <1>1, <2>1, <3>1 DEF Continues, InSessions
  <2>2. CASE b \notin DOMAIN w
    <3>1. v[a].conn = k
      BY <1>3, <2>2
    <3>2. QED
      BY <1>4, <3>1 DEF EndsWith
  <2>3. QED
    BY <2>1, <2>2
<1>6. QED
  BY <1>4, <1>5 DEF v

\* The beginning of what was filtered is of one client and in order too.
LEMMA OrderedFront ==
  ASSUME NEW s \in Seq(Units), Ordered(s), NEW n \in 0..Len(s)
  PROVE  /\ SubSeq(s, 1, n) \in Seq(Units) /\ Ordered(SubSeq(s, 1, n))
         /\ Range(SubSeq(s, 1, n)) \subseteq Range(s)
<1> DEFINE t == SubSeq(s, 1, n)
<1>1. Len(s) \in Nat /\ DOMAIN s = 1..Len(s)
  BY LenProperties
<1>2. \A i \in 1..n : s[i] \in Units
  BY <1>1, ElementOfSeq
<1>3. t \in Seq(Units) /\ Len(t) = n /\ \A i \in 1..n : t[i] = s[i]
  BY <1>1, <1>2, SubSeqProperties
<1> HIDE DEF t
<1>4. DOMAIN t = 1..n
  BY <1>3, LenProperties
<1>5. \A i \in DOMAIN t : i \in DOMAIN s /\ t[i] = s[i]
  BY <1>1, <1>3, <1>4
<1>6. Ordered(t)
  BY <1>5 DEF Ordered
<1>7. Range(t) \subseteq Range(s)
  BY <1>5 DEF Range
<1>8. QED
  BY <1>3, <1>6, <1>7 DEF t

-----------------------------------------------------------------------------
(* From a client to a line: the order of the units.                        *)

\* The steps that move no unit.  A port the loop leaves has nothing in hand.
LEMMA FlowStill ==
  ASSUME Flow, UNCHANGED <<cin, raw, chars, wire, nsent>>,
         \/ raw = <<>> /\ chars = <<>>
         \/ UNCHANGED <<at, pc, client_fd, file>>
  PROVE  Flow'
<1>1. Unread' /\ \A p \in Ports : OnLine(p)'
  BY DEF Flow, Unread, OnLine, UpTo
<1>2. InHand'
  <2>1. CASE raw = <<>> /\ chars = <<>>
    <3>1. raw' = <<>> /\ chars' = <<>>
      BY <2>1
    <3>2. Range(raw') = {} /\ Range(chars') = {} /\ DOMAIN raw' = {} /\ DOMAIN chars' = {}
      BY <3>1, RangeEmpty
    <3>3. QED
      BY <3>1, <3>2 DEF InHand, Ordered, UpTo, AllBefore
  <2>2. CASE UNCHANGED <<at, pc, client_fd, file>>
    BY <2>2 DEF Flow, InHand, ClientOf, UpTo
  <2>3. QED
    BY <2>1, <2>2
<1>3. QED
  BY <1>1, <1>2 DEF Flow

\* The read takes what the client has sent, which is later than what it has on
\* the line.
LEMMA FlowNetRead ==
  ASSUME DInv, TypeOK, Flow, NetRead
  PROVE  Flow'
<1> DEFINE k == ClientOf(at)
<1>0. at \in Ports /\ client_fd[at] # None
  BY DEF DInv, DescType, NetRead, IsSet
<1>1. k \in Conns
  BY <1>0, Apart
<1>2. /\ raw' = cin[k] /\ cin' = [cin EXCEPT ![k] = <<>>] /\ pc' = "filter"
      /\ chars' = chars /\ wire' = wire /\ nsent' = nsent /\ k' = k
  BY DEF NetRead, ClientOf
<1>3. chars = <<>> /\ Range(chars) = {}
  BY RangeEmpty DEF NetRead, AtNet, Flow, InHand
<1> HIDE DEF k
<1>4. /\ Range(cin'[k]) = {} /\ DOMAIN cin'[k] = {} /\ \A j \in Conns \ {k} : cin'[j] = cin[j]
  BY <1>1, <1>2, RangeEmpty DEF TypeOK
<1>5. Unread'
  <2> SUFFICES ASSUME NEW j \in Conns
               PROVE  Ordered(cin'[j]) /\ UpTo(Range(cin'[j]), nsent') /\ \A x \in Range(cin'[j]) : x.conn = j
    BY DEF Unread
  <2>1. CASE j = k
    BY <1>4, <2>1 DEF Ordered, UpTo
  <2>2. CASE j # k
    BY <1>2, <1>4, <2>2 DEF Flow, Unread, UpTo
  <2>3. QED
    BY <2>1, <2>2
<1>6. \A x \in Range(cin[k]) : x.conn = k
  BY <1>1 DEF Flow, Unread
<1>7. \A j \in Conns : AllBefore(Range(cin[k]), Range(cin'[j]))
  <2> SUFFICES ASSUME NEW j \in Conns, NEW x \in Range(cin[k]), NEW y \in Range(cin'[j])
               PROVE  Before(x, y)
    BY DEF AllBefore
  <2>1. j # k /\ y \in Range(cin[j])
    BY <1>4
  <2>2. x.conn = k /\ y.conn = j
    BY <1>6, <2>1 DEF Flow, Unread
  <2>3. QED
    BY <2>1, <2>2 DEF Before
<1>8. InHand'
  <2>1. /\ Ordered(raw') /\ UpTo(Range(raw'), nsent') /\ \A x \in Range(raw') : x.conn = k'
    BY <1>1, <1>2, <1>6 DEF Flow, Unread, UpTo
  <2>2. /\ Ordered(chars') /\ UpTo(Range(chars'), nsent') /\ AllBefore(Range(chars'), Range(raw'))
        /\ \A j \in Conns : AllBefore(Range(chars'), Range(cin'[j]))
    BY <1>2, <1>3, RangeEmpty DEF Ordered, UpTo, AllBefore
  <2>3. \A x \in Range(chars') : x.conn = k' /\ x.kind = "char"
    BY <1>2, <1>3
  <2>4. \A j \in Conns : AllBefore(Range(raw'), Range(cin'[j]))
    BY <1>2, <1>7
  <2>5. QED
    BY <1>2, <2>1, <2>2, <2>3, <2>4 DEF InHand, k
<1>9. ASSUME NEW p \in Ports PROVE OnLine(p)'
  <2>1. /\ Ordered(wire[p]) /\ UpTo(Range(wire[p]), nsent) /\ AllBefore(Range(wire[p]), Range(chars))
        /\ \A j \in Conns : AllBefore(Range(wire[p]), Range(cin[j]))
    BY DEF Flow, OnLine
  <2>2. AllBefore(Range(wire[p]), Range(raw'))
    BY <1>1, <1>2, <2>1
  <2>3. ASSUME NEW j \in Conns PROVE AllBefore(Range(wire[p]), Range(cin'[j]))
    <3>1. CASE j = k
      BY <1>4, <3>1 DEF AllBefore
    <3>2. CASE j # k
      BY <1>4, <2>1, <3>2
    <3>3. QED
      BY <3>1, <3>2
  <2>4. QED
    BY <1>2, <2>1, <2>2, <2>3 DEF OnLine, UpTo
<1>10. QED
  BY <1>5, <1>8, <1>9 DEF Flow

\* What the filter's step may rely on.
LEMMA FirstUnit ==
  ASSUME TypeOK, Flow, FilterUnit
  PROVE  /\ Head(raw) \in Units /\ Head(raw).conn = ClientOf(at) /\ Head(raw).n <= nsent
         /\ raw' \in Seq(Units) /\ Ordered(raw') /\ Range(raw') \subseteq Range(raw)
         /\ AllBefore({Head(raw)}, Range(raw')) /\ AllBefore(Range(chars), {Head(raw)})
         /\ \A p \in Ports : AllBefore(Range(wire[p]), {Head(raw)})
         /\ \A k \in Conns : AllBefore({Head(raw)}, Range(cin[k]))
<1>1. raw \in Seq(Units) /\ raw # <<>> /\ raw' = Tail(raw)
  BY DEF FilterUnit, TypeOK
<1>2. Head(raw) \in Units /\ raw' \in Seq(Units)
  BY <1>1, SeqSteps
<1>3. Head(raw) \in Range(raw) /\ Range(raw') \subseteq Range(raw)
  BY <1>1, RangeSteps
<1>4. Ordered(raw') /\ AllBefore({Head(raw)}, Range(raw'))
  BY <1>1, OrderedTail DEF Flow, InHand
<1>5. QED
  BY <1>2, <1>3, <1>4 DEF Flow, InHand, OnLine, AllBefore, UpTo

\* A unit leaves the read for the characters, the line or the client.
LEMMA FlowFilterUnit ==
  ASSUME DInv, TypeOK, Flow, FilterUnit
  PROVE  Flow'
<1> DEFINE u == Head(raw)
<1>1. /\ u \in Units /\ u.conn = ClientOf(at) /\ u.n <= nsent
      /\ Ordered(raw') /\ Range(raw') \subseteq Range(raw)
      /\ AllBefore({u}, Range(raw')) /\ AllBefore(Range(chars), {u})
      /\ \A p \in Ports : AllBefore(Range(wire[p]), {u})
      /\ \A k \in Conns : AllBefore({u}, Range(cin[k]))
  BY FirstUnit
<1>2. /\ UNCHANGED <<cin, nsent, at, pc, client_fd, file>> /\ pc = "filter" /\ at \in Ports
      /\ \/ u.kind = "char" /\ chars' = Append(chars, u) /\ wire' = wire
         \/ /\ u.kind = "break" /\ chars' = chars
            /\ wire' = [wire EXCEPT ![at] = Append(@, u)]
         \/ chars' = chars /\ wire' = wire
  BY DEF FilterUnit, Kept, envVars, DInv, DescType
<1> HIDE DEF u
<1>3. Unread'
  BY <1>2 DEF Flow, Unread, UpTo
<1>4. /\ Ordered(chars') /\ \A x \in Range(chars') :
           x \in Range(chars) \/ (x = u /\ u.kind = "char")
  <2>1. CASE chars' = chars
    BY <2>1 DEF Flow, InHand
  <2>2. CASE u.kind = "char" /\ chars' = Append(chars, u)
    <3>1. chars \in Seq(Units) /\ Ordered(chars)
      BY DEF TypeOK, Flow, InHand
    <3>2. Ordered(chars')
      BY <1>1, <2>2, <3>1, OrderedAppend
    <3>3. Range(chars') = Range(chars) \cup {u}
      BY <1>1, <2>2, <3>1, RangeSteps
    <3>4. QED
      BY <2>2, <3>2, <3>3
  <2>3. QED
    BY <1>2, <2>1, <2>2
<1>5. InHand'
  BY <1>1, <1>2, <1>4 DEF Flow, InHand, ClientOf, UpTo, AllBefore
<1>6. ASSUME NEW p \in Ports
      PROVE  /\ Ordered(wire'[p])
             /\ \A x \in Range(wire'[p]) : x \in Range(wire[p]) \/ (x = u /\ u.kind = "break")
  <2>1. wire[p] \in Seq(Units) /\ Ordered(wire[p])
    BY DEF TypeOK, Flow, OnLine
  <2>2. CASE wire'[p] = wire[p]
    BY <2>1, <2>2
  <2>3. CASE u.kind = "break" /\ wire'[p] = Append(wire[p], u)
    <3>1. Ordered(wire'[p])
      BY <1>1, <2>1, <2>3, OrderedAppend
    <3>2. Range(wire'[p]) = Range(wire[p]) \cup {u}
      BY <1>1, <2>1, <2>3, RangeSteps
    <3>3. QED
      BY <2>3, <3>1, <3>2
  <2>4. QED
    BY <1>2, <2>2, <2>3 DEF TypeOK
<1>7. ASSUME NEW p \in Ports PROVE OnLine(p)'
  <2>1. \A k \in Conns : AllBefore(Range(wire'[p]), Range(cin[k]))
    BY <1>1, <1>6 DEF Flow, OnLine, AllBefore
  <2>2. AllBefore(Range(wire'[p]), Range(raw'))
    BY <1>1, <1>6 DEF Flow, OnLine, AllBefore
  <2>3. AllBefore(Range(wire'[p]), Range(chars'))
    <3> SUFFICES ASSUME NEW x \in Range(wire'[p]), NEW y \in Range(chars')
                 PROVE  Before(x, y)
      BY DEF AllBefore
    <3>1. CASE x \in Range(wire[p])
      BY <1>1, <1>4, <3>1 DEF Flow, OnLine, AllBefore
    <3>2. CASE x = u /\ u.kind = "break"
      <4>1. y.kind = "char"
        BY <1>4 DEF Flow, InHand
      <4>2. QED
        BY <3>2, <4>1 DEF Before
    <3>3. QED
      BY <1>6, <3>1, <3>2
  <2>4. UpTo(Range(wire'[p]), nsent')
    BY <1>1, <1>2, <1>6 DEF Flow, OnLine, UpTo
  <2>5. QED
    BY <1>2, <1>6, <2>1, <2>2, <2>3, <2>4 DEF OnLine
<1>8. QED
  BY <1>3, <1>5, <1>7 DEF Flow

\* The characters go to the line; the ones it has no room for are lost.
LEMMA FlowTtyWrite ==
  ASSUME DInv, TypeOK, Flow, TtyWrite
  PROVE  Flow'
<1>0. /\ at \in Ports /\ raw = <<>> /\ chars \in Seq(Units) /\ Ordered(chars)
      /\ wire \in [Ports -> Seq(Units)]
  BY DEF DInv, DescType, TtyWrite, TypeOK, Flow, InHand
<1>1. PICK n \in 0..Len(chars) : wire' = [wire EXCEPT ![at] = @ \o SubSeq(chars, 1, n)]
  BY DEF TtyWrite
<1>2. UNCHANGED <<cin, nsent, raw>> /\ chars' = <<>>
  BY DEF TtyWrite, envVars
<1>3. Unread'
  BY <1>2 DEF Flow, Unread, UpTo
<1>4. Range(raw') = {} /\ Range(chars') = {} /\ DOMAIN raw' = {} /\ DOMAIN chars' = {}
  BY <1>0, <1>2, RangeEmpty
<1>5. InHand'
  BY <1>0, <1>2, <1>4 DEF InHand, Ordered, UpTo, AllBefore
<1> DEFINE t == SubSeq(chars, 1, n)
<1>6. t \in Seq(Units) /\ Ordered(t) /\ Range(t) \subseteq Range(chars)
  BY <1>0, OrderedFront
<1> HIDE DEF t
<1>7. ASSUME NEW p \in Ports
      PROVE  Ordered(wire'[p]) /\ Range(wire'[p]) \subseteq Range(wire[p]) \cup Range(chars)
  <2>1. CASE p # at
    BY <1>0, <1>1, <2>1 DEF Flow, OnLine
  <2>2. CASE p = at
    <3>1. wire'[p] = wire[p] \o t
      BY <1>0, <1>1, <2>2 DEF t
    <3>2. wire[p] \in Seq(Units) /\ Ordered(wire[p]) /\ AllBefore(Range(wire[p]), Range(t))
      BY <1>0, <1>6 DEF Flow, OnLine, AllBefore
    <3>3. Joins(wire[p], t)
      BY <1>6, <3>2 DEF Joins
    <3>4. Ordered(wire[p] \o t) /\ Range(wire[p] \o t) = Range(wire[p]) \cup Range(t)
      BY <3>3, OrderedJoin
    <3>5. QED
      BY <1>6, <3>1, <3>4
  <2>3. QED
    BY <2>1, <2>2
<1>8. ASSUME NEW p \in Ports PROVE OnLine(p)'
  <2>1. \A k \in Conns : AllBefore(Range(wire'[p]), Range(cin[k]))
    BY <1>7 DEF Flow, OnLine, InHand, AllBefore
  <2>2. UpTo(Range(wire'[p]), nsent')
    BY <1>2, <1>7 DEF Flow, OnLine, InHand, UpTo
  <2>3. QED
    BY <1>2, <1>4, <1>7, <2>1, <2>2 DEF OnLine, AllBefore
<1>9. QED
  BY <1>3, <1>5, <1>8 DEF Flow

\* A client sends: the new unit is later than all there are.
LEMMA FlowSend ==
  ASSUME TypeOK, Flow, NEW k \in Conns, NEW kind \in Kinds, Send(k, kind),
         UNCHANGED <<raw, chars, wire, at, pc, client_fd, file>>
  PROVE  Flow'
<1> DEFINE u == [conn |-> k, kind |-> kind, n |-> nsent']
<1>0. /\ nsent \in Nat /\ cin \in [Conns -> Seq(Units)] /\ wire \in [Ports -> Seq(Units)]
      /\ raw \in Seq(Units) /\ chars \in Seq(Units)
  BY ConsoleAssumption DEF TypeOK, ConsoleAssumption
<1>1. nsent' = nsent + 1 /\ cin' = [cin EXCEPT ![k] = Append(@, u)]
  BY DEF Send
<1>2. u \in Units /\ u.n = nsent + 1 /\ u.conn = k
  BY <1>0, <1>1 DEF Units
<1> HIDE DEF u
<1>3. ASSUME NEW S, S \subseteq Units, UpTo(S, nsent) PROVE UpTo(S, nsent') /\ AllBefore(S, {u})
  <2>1. ASSUME NEW x \in S PROVE x.n <= nsent' /\ x.n < u.n
    <3>1. x.n \in Nat /\ x.n <= nsent
      BY <1>3 DEF UpTo, Units
    <3>2. QED
      BY <1>0, <1>1, <1>2, <3>1
  <2>2. QED
    BY <2>1 DEF UpTo, AllBefore, Before
<1>4. /\ \A j \in Conns : Range(cin[j]) \subseteq Units
      /\ \A p \in Ports : Range(wire[p]) \subseteq Units
      /\ Range(raw) \subseteq Units /\ Range(chars) \subseteq Units
  BY <1>0, RangeSteps
<1>5. /\ UpTo(Range(raw), nsent') /\ AllBefore(Range(raw), {u})
      /\ UpTo(Range(chars), nsent') /\ AllBefore(Range(chars), {u})
  BY <1>3, <1>4 DEF Flow, InHand
<1>6. \A j \in Conns : UpTo(Range(cin[j]), nsent') /\ AllBefore(Range(cin[j]), {u})
  BY <1>3, <1>4 DEF Flow, Unread
<1>7. \A p \in Ports : UpTo(Range(wire[p]), nsent') /\ AllBefore(Range(wire[p]), {u})
  BY <1>3, <1>4 DEF Flow, OnLine
<1>8. ASSUME NEW j \in Conns
      PROVE  /\ Ordered(cin'[j]) /\ UpTo(Range(cin'[j]), nsent') /\ \A x \in Range(cin'[j]) : x.conn = j
             /\ Range(cin'[j]) \subseteq Range(cin[j]) \cup {u}
  <2>1. CASE j # k
    BY <1>0, <1>1, <1>6, <2>1 DEF Flow, Unread
  <2>2. CASE j = k
    <3>1. cin[j] \in Seq(Units) /\ cin'[j] = Append(cin[j], u)
      BY <1>0, <1>1, <2>2
    <3>2. Ordered(cin'[j])
      BY <1>2, <1>6, <3>1, OrderedAppend DEF Flow, Unread
    <3>3. Range(cin'[j]) = Range(cin[j]) \cup {u}
      BY <1>2, <3>1, RangeSteps
    <3>4. UpTo(Range(cin'[j]), nsent')
      BY <1>0, <1>1, <1>2, <1>6, <3>3 DEF UpTo
    <3>5. \A x \in Range(cin'[j]) : x.conn = j
      BY <1>2, <2>2, <3>3 DEF Flow, Unread
    <3>6. QED
      BY <3>2, <3>3, <3>4, <3>5
  <2>3. QED
    BY <2>1, <2>2
<1>9. Unread'
  BY <1>8 DEF Unread
<1>10. InHand'
  <2>1. \A j \in Conns : /\ AllBefore(Range(raw), Range(cin'[j]))
                         /\ AllBefore(Range(chars), Range(cin'[j]))
    BY <1>5, <1>8 DEF Flow, InHand, AllBefore
  <2>2. QED
    BY <1>5, <2>1 DEF Flow, InHand, ClientOf
<1>11. ASSUME NEW p \in Ports PROVE OnLine(p)'
  <2>1. \A j \in Conns : AllBefore(Range(wire[p]), Range(cin'[j]))
    BY <1>7, <1>8 DEF Flow, OnLine, AllBefore
  <2>2. QED
    BY <1>7, <2>1 DEF Flow, OnLine
<1>12. QED
  BY <1>9, <1>10, <1>11 DEF Flow

\* A reset throws away what was not read.
LEMMA FlowClose ==
  ASSUME TypeOK, Flow, NEW k \in Conns, Close(k),
         UNCHANGED <<raw, chars, wire, at, pc, client_fd, file>>
  PROVE  Flow'
<1>1. nsent' = nsent /\ (cin' = cin \/ cin' = [cin EXCEPT ![k] = <<>>])
  BY DEF Close
<1>2. ASSUME NEW j \in Conns PROVE cin'[j] = cin[j] \/ cin'[j] = <<>>
  BY <1>1 DEF TypeOK
<1>3. ASSUME NEW j \in Conns
      PROVE  /\ Ordered(cin'[j]) /\ UpTo(Range(cin'[j]), nsent') /\ \A x \in Range(cin'[j]) : x.conn = j
             /\ Range(cin'[j]) \subseteq Range(cin[j])
  <2>1. CASE cin'[j] = cin[j]
    BY <1>1, <2>1 DEF Flow, Unread, UpTo
  <2>2. CASE cin'[j] = <<>>
    BY <2>2, RangeEmpty DEF Ordered, UpTo
  <2>3. QED
    BY <1>2, <2>1, <2>2
<1>4. Unread'
  BY <1>3 DEF Unread
<1>5. InHand'
  <2>1. \A j \in Conns : /\ AllBefore(Range(raw), Range(cin'[j]))
                         /\ AllBefore(Range(chars), Range(cin'[j]))
    BY <1>3 DEF Flow, InHand, AllBefore
  <2>2. QED
    BY <1>1, <2>1 DEF Flow, InHand, ClientOf, UpTo
<1>6. ASSUME NEW p \in Ports PROVE OnLine(p)'
  <2>1. \A j \in Conns : AllBefore(Range(wire[p]), Range(cin'[j]))
    BY <1>3 DEF Flow, OnLine, AllBefore
  <2>2. QED
    BY <1>1, <2>1 DEF Flow, OnLine, UpTo
<1>7. QED
  BY <1>4, <1>5, <1>6 DEF Flow

-----------------------------------------------------------------------------
(* From a client to a line: whose the units are.                           *)

\* The steps that write nothing to a line and attach nobody; queues may shrink.
LEMMA SessionsStill ==
  ASSUME DInv, TypeOK, Sessions, UNCHANGED <<wire, client_fd, file>>,
         \A j \in Conns : conn[j].st # "none" =>
                            conn'[j].st # "none" /\ conn'[j].port = conn[j].port,
         \A p \in Ports : Once(queue'[p]) /\ Range(queue'[p]) \subseteq Range(queue[p])
  PROVE  Sessions'
<1> SUFFICES ASSUME NEW p \in Ports
             PROVE  Served(p)' /\ InTurn(p)' /\ WaitsOnce(p)'
  BY DEF Sessions
<1>1. Served(p) /\ InTurn(p) /\ WaitsOnce(p)
  BY DEF Sessions
<1>2. Served(p)'
  <2>1. \A x \in Range(wire[p]) : x.conn \in Conns
    <3>1. wire[p] \in Seq(Units)
      BY DEF TypeOK
    <3>2. Range(wire[p]) \subseteq Units
      BY <3>1, RangeSteps
    <3>3. QED
      BY <3>2 DEF Units
  <2>2. QED
    BY <1>1, <2>1 DEF Served
<1>3. InTurn(p)'
  BY <1>1 DEF InTurn, ClientOf
<1>4. WaitsOnce(p)'
  BY <1>1 DEF WaitsOnce, ClientOf
<1>5. QED
  BY <1>2, <1>3, <1>4

\* The steps that touch neither lines nor connections.
LEMMA SessionsSame ==
  ASSUME Sessions, UNCHANGED <<wire, conn, queue, client_fd, file>>
  PROVE  Sessions'
BY DEF Sessions, Served, InTurn, WaitsOnce, ClientOf

\* The connection that is taken off a queue is not in it any more.
LEMMA QueueTaken ==
  ASSUME DInv, Pending, NewClient, Sessions, queue' = [queue EXCEPT ![at] = Tail(@)]
  PROVE  /\ Head(queue[at]) \in Range(queue[at]) /\ Head(queue[at]) \notin Range(queue'[at])
         /\ \A p \in Ports : Once(queue'[p]) /\ Range(queue'[p]) \subseteq Range(queue[p])
<1>1. at \in Ports /\ queue \in [Ports -> Seq(Conns)]
  BY DEF DInv, DescType
<1> DEFINE q == queue[at]
<1>2. q \in Seq(Conns) /\ q # <<>> /\ Once(q)
  BY <1>1 DEF Pending, NewClient, Sessions, WaitsOnce
<1>3. queue'[at] = Tail(q) /\ \A p \in Ports \ {at} : queue'[p] = queue[p]
  BY <1>1
<1> HIDE DEF q
<1>4. Head(q) \in Range(q) /\ Range(Tail(q)) \subseteq Range(q)
  BY <1>2, RangeSteps
<1>5. /\ Head(q) = q[1] /\ 1 \in DOMAIN q
      /\ \A i \in DOMAIN Tail(q) : /\ i \in Nat /\ i + 1 \in DOMAIN q /\ 1 < i + 1
                                   /\ Tail(q)[i] = q[i + 1]
  BY <1>2, TailIdx
<1>6. Once(Tail(q))
  <2> SUFFICES ASSUME NEW i \in DOMAIN Tail(q), NEW j \in DOMAIN Tail(q), i # j
               PROVE  Tail(q)[i] # Tail(q)[j]
    BY DEF Once
  <2>1. i + 1 # j + 1
    BY <1>5
  <2>2. QED
    BY <1>2, <1>5, <2>1 DEF Once
<1>7. Head(q) \notin Range(Tail(q))
  <2>1. \A i \in DOMAIN Tail(q) : Tail(q)[i] # Head(q)
    BY <1>2, <1>5 DEF Once
  <2>2. QED
    BY <2>1 DEF Range
<1>8. ASSUME NEW p \in Ports PROVE Once(queue'[p]) /\ Range(queue'[p]) \subseteq Range(queue[p])
  <2>1. CASE p = at
    BY <1>3, <1>4, <1>6, <2>1 DEF q
  <2>2. CASE p # at
    BY <1>3, <2>2 DEF Sessions, WaitsOnce
  <2>3. QED
    BY <2>1, <2>2
<1>9. QED
  BY <1>3, <1>4, <1>7, <1>8 DEF q

\* A client is accepted: it has nothing on any line.
LEMMA SessionsAccept ==
  ASSUME DInv, Pending, TypeOK, Sessions, Accept
  PROVE  Sessions'
<1> DEFINE k == Head(queue[at])
           c == Lowest(FreeFds)
           t == Lowest(FreeFds \ {c})
<1>1. /\ client_fd' = [client_fd EXCEPT ![at] = c]
      /\ file' = [file EXCEPT ![c] = Sock(k), ![t] = TtyOf(at)]
      /\ queue' = [queue EXCEPT ![at] = Tail(@)] /\ NewClient
      /\ UNCHANGED <<at, conn, wire>>
  BY DEF Accept
<1>2. /\ at \in Ports /\ client_fd \in [Ports -> Fds \cup {None}] /\ file \in [Fds -> Files]
  BY DEF DInv, DescType
<1>3. /\ k \in Range(queue[at]) /\ k \notin Range(queue'[at])
      /\ \A p \in Ports : Once(queue'[p]) /\ Range(queue'[p]) \subseteq Range(queue[p])
  BY <1>1, QueueTaken
<1>4. c \in FreeFds /\ t \in FreeFds /\ t # c
  BY NewFds DEF Accept
<1> HIDE DEF k, c, t
<1>5. c \in Fds /\ t \in Fds /\ file[c] = Free /\ file[t] = Free
  BY <1>4 DEF FreeFds
<1>6. client_fd'[at] = c /\ file'[c] = Sock(k) /\ ClientOf(at)' = k
  <2>1. client_fd'[at] = c /\ file'[c] = Sock(k)
    BY <1>1, <1>2, <1>4, <1>5
  <2>2. Sock(k).conn = k
    BY DEF Sock
  <2>3. QED
    BY <1>1, <2>1, <2>2 DEF ClientOf
<1>7. ASSUME NEW p \in Ports \ {at}, client_fd'[p] # None
      PROVE  client_fd[p] # None /\ ClientOf(p)' = ClientOf(p)
  <2>1. client_fd'[p] = client_fd[p]
    BY <1>1, <1>2
  <2>2. client_fd[p] \in Fds /\ file[client_fd[p]].kind = "sock"
    BY <1>7, <2>1, Apart DEF DInv, Held
  <2>3. Free.kind # "sock"
    BY DEF Free
  <2>4. client_fd[p] # c /\ client_fd[p] # t
    BY <1>5, <2>2, <2>3
  <2>5. file'[client_fd[p]] = file[client_fd[p]]
    BY <1>1, <1>2, <2>2, <2>4
  <2>6. QED
    BY <1>7, <2>1, <2>5 DEF ClientOf
<1>8. ASSUME NEW p \in Ports PROVE Served(p)' /\ InTurn(p)' /\ WaitsOnce(p)'
  <2>1. Served(p) /\ InTurn(p) /\ WaitsOnce(p)
    BY DEF Sessions
  <2>2. Served(p)'
    BY <1>1, <1>3, <2>1 DEF Served
  <2>3. CASE p = at
    <3>1. \A x \in Range(wire[p]) : x.conn # k
      BY <1>3, <2>1, <2>3 DEF Served
    <3>2. EndsWith(wire[p], k)
      BY <3>1 DEF EndsWith, Range
    <3>3. InTurn(p)'
      BY <1>1, <1>6, <2>1, <2>3, <3>2 DEF InTurn
    <3>4. WaitsOnce(p)'
      <4>1. ClientOf(p)' = k
        BY <1>1, <1>6, <2>3
      <4>2. k \notin Range(queue'[p]) /\ Once(queue'[p])
        BY <1>3, <2>3
      <4>3. QED
        BY <4>1, <4>2 DEF WaitsOnce
    <3>5. QED
      BY <2>2, <3>3, <3>4
  <2>4. CASE p # at
    BY <1>1, <1>3, <1>7, <2>1, <2>2, <2>4 DEF InTurn, WaitsOnce
  <2>5. QED
    BY <2>3, <2>4
<1>9. QED
  BY <1>8 DEF Sessions

\* A client has gone: the others keep theirs.
LEMMA SessionsClientGone ==
  ASSUME DInv, Sessions, ClientGone
  PROVE  Sessions'
<1>1. at \in Ports /\ client_fd[at] # None /\ client_fd \in [Ports -> Fds \cup {None}]
  BY DEF DInv, DescType, ClientGone, IsSet
<1>2. /\ client_fd' = [client_fd EXCEPT ![at] = None]
      /\ \A f \in Fds : f \notin {client_fd[at], tty_fd[at]} => file'[f] = file[f]
      /\ UNCHANGED <<conn, queue, wire>>
  BY DEF ClientGone
<1>3. ASSUME NEW p \in Ports, client_fd'[p] # None
      PROVE  client_fd[p] # None /\ ClientOf(p)' = ClientOf(p)
  <2>1. p # at /\ client_fd'[p] = client_fd[p]
    BY <1>1, <1>2, <1>3
  <2>2. client_fd[p] \in Fds /\ client_fd[p] \notin {client_fd[at], tty_fd[at]}
    BY <1>1, <1>3, <2>1, Apart
  <2>3. QED
    BY <1>2, <1>3, <2>1, <2>2 DEF ClientOf
<1>4. QED
  BY <1>2, <1>3 DEF Sessions, Served, InTurn, WaitsOnce

\* Units of the port's client are written to its line.
LEMMA SessionsWrite ==
  ASSUME DInv, TypeOK, Busy, Sessions, pc = "filter", NEW t \in Seq(Units),
         \A x \in Range(t) : x.conn = ClientOf(at) /\ x.kind \in {"char", "break"},
         wire' = [wire EXCEPT ![at] = @ \o t],
         UNCHANGED <<at, conn, queue, client_fd, file>>
  PROVE  Sessions'
<1> DEFINE k == ClientOf(at)
<1>1. at \in Ports /\ client_fd[at] # None /\ wire \in [Ports -> Seq(Units)]
  BY DEF DInv, DescType, Busy, TypeOK
<1>2. k \in Conns /\ client_fd[at] \in Fds
  BY <1>1, Apart
<1>3. conn[k].st # "none" /\ conn[k].port = at
  BY <1>1, <1>2 DEF DInv, Made, Held, ClientOf
<1>4. \A p \in Ports : ClientOf(p)' = ClientOf(p)
  BY DEF ClientOf
<1> HIDE DEF k
<1>5. wire'[at] = wire[at] \o t /\ \A p \in Ports \ {at} : wire'[p] = wire[p]
  BY <1>1
<1>6. Served(at) /\ InTurn(at) /\ WaitsOnce(at)
  BY <1>1 DEF Sessions
<1>7. Continues(wire[at], t, k)
  BY <1>1, <1>6 DEF Continues, InTurn, k
<1>8. InSessions(wire'[at]) /\ EndsWith(wire'[at], k)
  BY <1>5, <1>7, SessionContinues
<1>9. Range(wire'[at]) = Range(wire[at]) \cup Range(t)
  BY <1>1, <1>5, RangeConcatenation
<1>10. Served(at)'
  BY <1>1, <1>3, <1>6, <1>9 DEF Served, WaitsOnce, k
<1>11. InTurn(at)' /\ WaitsOnce(at)'
  BY <1>1, <1>4, <1>6, <1>8 DEF InTurn, WaitsOnce, k
<1>12. ASSUME NEW p \in Ports \ {at} PROVE Served(p)' /\ InTurn(p)' /\ WaitsOnce(p)'
  BY <1>4, <1>5 DEF Sessions, Served, InTurn, WaitsOnce
<1>13. QED
  BY <1>10, <1>11, <1>12 DEF Sessions

\* A connection is made: it was never served.
LEMMA SessionsConnect ==
  ASSUME DInv, TypeOK, Sessions, NEW k \in Conns, NEW r \in Ports, Connect(k, r),
         UNCHANGED <<wire, client_fd, file>>
  PROVE  Sessions'
<1>1. /\ conn[k].st = "none" /\ conn' = [conn EXCEPT ![k] = [st |-> "open", port |-> r]]
      /\ queue' = [queue EXCEPT ![r] = Append(@, k)]
      /\ queue \in [Ports -> Seq(Conns)]
      /\ conn \in [Conns -> [st : {"none", "open", "closed"}, port : Ports]]
  BY DEF Connect, DInv, DescType
<1>2. \A j \in Conns \ {k} : conn'[j] = conn[j]
  BY <1>1
<1>3. ASSUME NEW p \in Ports
      PROVE  /\ k \notin Range(queue[p]) /\ Once(queue'[p])
             /\ Range(queue'[p]) \subseteq Range(queue[p]) \cup {k}
  <2>1. queue[p] \in Seq(Conns) /\ Once(queue[p])
    BY <1>1 DEF Sessions, WaitsOnce
  <2>2. DOMAIN queue[p] = 1..Len(queue[p]) /\ Len(queue[p]) \in Nat
    BY <2>1, LenProperties
  <2>3. \A i \in DOMAIN queue[p] : queue[p][i] # k
    <3>1. \A i \in DOMAIN queue[p] : conn[queue[p][i]].st # "none"
      BY <2>2 DEF DInv, Queued, MadeTo
    <3>2. conn[k].st = "none"
      BY <1>1
    <3>3. QED
      BY <3>1, <3>2
  <2>4. k \notin Range(queue[p])
    BY <2>3 DEF Range
  <2>5. CASE p # r
    BY <1>1, <2>1, <2>4, <2>5
  <2>6. CASE p = r
    <3> DEFINE q == queue[p]
               s == Append(q, k)
    <3>1. queue'[p] = s
      BY <1>1, <2>6
    <3>2. /\ DOMAIN s = 1..(Len(q) + 1) /\ s[Len(q) + 1] = k
          /\ \A i \in DOMAIN q : s[i] = q[i]
      BY <2>1, AppendIdx
    <3>3. Range(s) = Range(q) \cup {k}
      BY <2>1, RangeSteps
    <3> HIDE DEF s
    <3>4. Once(s)
      BY <2>1, <2>2, <2>3, <3>2 DEF Once
    <3>5. QED
      BY <2>4, <3>1, <3>3, <3>4
  <2>7. QED
    BY <2>5, <2>6
<1>4. ASSUME NEW p \in Ports PROVE Served(p)' /\ InTurn(p)' /\ WaitsOnce(p)'
  <2>1. Served(p) /\ InTurn(p) /\ WaitsOnce(p)
    BY DEF Sessions
  <2>2. Range(wire[p]) \subseteq Units
    BY RangeSteps DEF TypeOK
  <2>3. Served(p)'
    <3> SUFFICES ASSUME NEW x \in Range(wire[p])
                 PROVE  /\ x.kind \in {"char", "break"}
                        /\ conn'[x.conn].port = p /\ conn'[x.conn].st # "none"
                        /\ x.conn \notin Range(queue'[p])
      BY DEF Served
    <3>1. /\ x.kind \in {"char", "break"} /\ x.conn \notin Range(queue[p])
          /\ conn[x.conn].port = p /\ conn[x.conn].st # "none"
      BY <2>1 DEF Served
    <3>2. x.conn \in Conns \ {k}
      BY <1>1, <2>2, <3>1 DEF Units
    <3>3. conn'[x.conn] = conn[x.conn]
      BY <1>2, <3>2
    <3>4. QED
      BY <1>3, <3>1, <3>2, <3>3
  <2>4. InTurn(p)'
    BY <2>1 DEF InTurn, ClientOf
  <2>5. WaitsOnce(p)'
    <3>1. ASSUME client_fd[p] # None PROVE ClientOf(p) # k
      <4>1. client_fd[p] \in Fds
        BY <3>1, Apart
      <4>2. QED
        BY <1>1, <3>1, <4>1 DEF DInv, Made, Held, ClientOf
    <3>2. QED
      BY <1>3, <2>1, <3>1 DEF WaitsOnce, ClientOf
  <2>6. QED
    BY <2>3, <2>4, <2>5
<1>5. QED
  BY <1>4 DEF Sessions

\* Every step of the server keeps the units in order and in their sessions.
LEMMA ServerLines ==
  ASSUME DInv, Pending, TypeOK, Busy, Flow, Sessions, Server
  PROVE  Flow' /\ Sessions'
<1>0. pc # "filter" => raw = <<>> /\ chars = <<>>
  BY DEF Flow, InHand
<1>1. CASE Select \/ AcceptFails \/ SerialRead \/ Advance
  <2>1. /\ pc # "filter" /\ UNCHANGED <<cin, raw, chars, wire, nsent>>
        /\ UNCHANGED <<conn, queue, client_fd, file>>
    BY <1>1 DEF Select, AcceptFails, NewClient, SerialRead, AtSerial, AtNet, Advance, envVars
  <2>2. Flow'
    BY <1>0, <2>1, FlowStill
  <2>3. QED
    BY <2>1, <2>2, SessionsSame
<1>2. CASE OpenFails
  <2> DEFINE k == Head(queue[at])
  <2>1. /\ pc = "accept" /\ UNCHANGED <<cin, raw, chars, wire, nsent, client_fd, file>>
        /\ NewClient /\ conn' = [conn EXCEPT ![k].st = "closed"]
        /\ queue' = [queue EXCEPT ![at] = Tail(@)]
    BY <1>2 DEF OpenFails, NewClient
  <2>2. Flow'
    BY <1>0, <2>1, FlowStill
  <2>3. \A p \in Ports : Once(queue'[p]) /\ Range(queue'[p]) \subseteq Range(queue[p])
    BY <2>1, QueueTaken
  <2>4. k \in Conns
    BY <2>1, Accepted
  <2> HIDE DEF k
  <2>5. \A j \in Conns : conn[j].st # "none" =>
                           conn'[j].st # "none" /\ conn'[j].port = conn[j].port
    BY <2>1, <2>4, ConnClosed DEF DInv, DescType
  <2>6. Sessions'
    BY <2>1, <2>3, <2>5, SessionsStill
  <2>7. QED
    BY <2>2, <2>6
<1>3. CASE Accept
  <2>1. pc = "accept" /\ UNCHANGED <<cin, raw, chars, wire, nsent>>
    BY <1>3 DEF Accept, NewClient
  <2>2. Flow'
    BY <1>0, <2>1, FlowStill
  <2>3. QED
    BY <1>3, <2>2, SessionsAccept
<1>4. CASE NetRead
  <2>1. UNCHANGED <<wire, conn, queue, client_fd, file>>
    BY <1>4 DEF NetRead
  <2>2. QED
    BY <1>4, <2>1, FlowNetRead, SessionsSame
<1>5. CASE FilterUnit
  <2> DEFINE u == Head(raw)
  <2>1. u \in Units /\ u.conn = ClientOf(at)
    BY <1>5, FirstUnit
  <2>2. /\ UNCHANGED <<at, conn, queue, client_fd, file>> /\ pc = "filter"
        /\ \/ wire' = wire
           \/ u.kind = "break" /\ wire' = [wire EXCEPT ![at] = Append(@, u)]
    BY <1>5 DEF FilterUnit, envVars
  <2> HIDE DEF u
  <2>3. CASE wire' = wire
    BY <1>5, <2>2, <2>3, FlowFilterUnit, SessionsSame
  <2>4. CASE u.kind = "break" /\ wire' = [wire EXCEPT ![at] = Append(@, u)]
    <3>1. wire[at] \in Seq(Units)
      BY DEF TypeOK, DInv, DescType
    <3>2. Append(wire[at], u) = wire[at] \o <<u>>
      BY <2>1, <3>1, AppendIsConcat
    <3>3. wire' = [wire EXCEPT ![at] = @ \o <<u>>]
      BY <2>4, <3>2
    <3>4. <<u>> \in Seq(Units) /\ Range(<<u>>) = {u}
      <4>1. <<u>> \in Seq(Units) /\ DOMAIN <<u>> = {1} /\ <<u>>[1] = u
        BY <2>1
      <4>2. QED
        BY <4>1 DEF Range
    <3>5. Sessions'
      BY <2>1, <2>2, <2>4, <3>3, <3>4, SessionsWrite
    <3>6. QED
      BY <1>5, <3>5, FlowFilterUnit
  <2>5. QED
    BY <2>2, <2>3, <2>4
<1>6. CASE ClientGone
  <2>1. pc # "filter" /\ UNCHANGED <<cin, raw, chars, wire, nsent>>
    BY <1>6 DEF ClientGone, AtNet
  <2>2. Flow'
    BY <1>0, <2>1, FlowStill
  <2>3. QED
    BY <1>6, <2>2, SessionsClientGone
<1>7. CASE PlaceItem
  <2>1. /\ UNCHANGED <<cin, raw, chars, wire, nsent>> /\ UNCHANGED <<at, pc, client_fd, file>>
        /\ UNCHANGED <<conn, queue>>
    BY <1>7 DEF PlaceItem
  <2>2. Flow'
    BY <2>1, FlowStill
  <2>3. QED
    BY <2>1, <2>2, SessionsSame
<1>8. CASE TtyWrite
  <2>1. PICK n \in 0..Len(chars) : wire' = [wire EXCEPT ![at] = @ \o SubSeq(chars, 1, n)]
    BY <1>8 DEF TtyWrite
  <2>2. pc = "filter" /\ UNCHANGED <<at, conn, queue, client_fd, file>>
    BY <1>8 DEF TtyWrite, envVars
  <2> DEFINE t == SubSeq(chars, 1, n)
  <2>3. t \in Seq(Units) /\ Range(t) \subseteq Range(chars)
    BY OrderedFront DEF TypeOK, Flow, InHand
  <2> HIDE DEF t
  <2>4. \A x \in Range(t) : x.conn = ClientOf(at) /\ x.kind \in {"char", "break"}
    BY <2>3 DEF Flow, InHand
  <2>5. wire' = [wire EXCEPT ![at] = @ \o t]
    BY <2>1 DEF t
  <2>6. Sessions'
    BY <2>2, <2>3, <2>4, <2>5, SessionsWrite
  <2>7. QED
    BY <1>8, <2>6, FlowTtyWrite
<1>9. QED
  BY <1>1, <1>2, <1>3, <1>4, <1>5, <1>6, <1>7, <1>8 DEF Server

\* So does every step of the clients and the lines.
LEMMA EnvironmentLines ==
  ASSUME DInv, TypeOK, Flow, Sessions, Environment
  PROVE  Flow' /\ Sessions'
<1>0. UNCHANGED <<raw, chars, wire, at, pc, client_fd, file>>
  BY DEF Environment, serverVars
<1>1. ASSUME NEW k \in Conns, NEW p \in Ports, Connect(k, p) PROVE Flow' /\ Sessions'
  <2>1. UNCHANGED <<cin, nsent>>
    BY <1>1 DEF Connect
  <2>2. Flow'
    BY <1>0, <2>1, FlowStill
  <2>3. QED
    BY <1>0, <1>1, <2>2, SessionsConnect
<1>2. ASSUME NEW k \in Conns, NEW kind \in Kinds, Send(k, kind) PROVE Flow' /\ Sessions'
  <2>1. UNCHANGED <<conn, queue>>
    BY <1>2 DEF Send
  <2>2. Flow'
    BY <1>0, <1>2, FlowSend
  <2>3. QED
    BY <1>0, <2>1, <2>2, SessionsSame
<1>3. ASSUME NEW k \in Conns, Close(k) PROVE Flow' /\ Sessions'
  <2>1. conn' = [conn EXCEPT ![k].st = "closed"] /\ queue' = queue
    BY <1>3 DEF Close
  <2>2. \A j \in Conns : conn[j].st # "none" =>
                           conn'[j].st # "none" /\ conn'[j].port = conn[j].port
    BY <2>1, ConnClosed DEF DInv, DescType
  <2>3. \A p \in Ports : Once(queue'[p]) /\ Range(queue'[p]) \subseteq Range(queue[p])
    BY <2>1 DEF Sessions, WaitsOnce
  <2>4. Sessions'
    BY <1>0, <2>2, <2>3, SessionsStill
  <2>5. Flow'
    BY <1>0, <1>3, FlowClose
  <2>6. QED
    BY <2>4, <2>5
<1>4. ASSUME UNCHANGED <<conn, queue, cin, nsent>> PROVE Flow' /\ Sessions'
  BY <1>0, <1>4, FlowStill, SessionsSame
<1>5. QED
  BY <1>1, <1>2, <1>3, <1>4 DEF Environment, Receive, Arrive

-----------------------------------------------------------------------------
(* From a line to a client.                                                *)

\* A character of a line has a number.
LEMMA CharItem ==
  ASSUME NEW x \in Items, x.kind = "char"
  PROVE  x.n \in Nat
BY DEF Items

\* What is not a character is in no one's way.
LEMMA NoChars ==
  ASSUME NEW s, \A x \in Range(s) : x.kind # "char"
  PROVE  /\ Rising(s) /\ \A p \in Ports : \A x \in Range(s) : Read(x, p)
         /\ \A S : AllEarlier(S, Range(s)) /\ AllEarlier(Range(s), S)
<1>1. \A a \in DOMAIN s : s[a].kind # "char"
  BY DEF Range
<1>2. Rising(s)
  BY <1>1 DEF Rising, Earlier
<1>3. \A p \in Ports : \A x \in Range(s) : Read(x, p)
  BY DEF Read, Come
<1>4. \A S : AllEarlier(S, Range(s)) /\ AllEarlier(Range(s), S)
  BY DEF AllEarlier, Earlier
<1>5. QED
  BY <1>2, <1>3, <1>4

\* The steps that neither take characters from a line nor give any to a client.
LEMMA ClientStill ==
  ASSUME ToClient, UNCHANGED <<tin, ncame, obuf, got>>,
         obuf = <<>> \/ UNCHANGED <<at, pc>>,
         \A k \in Conns :
           \/ got[k] = <<>>
           \/ conn'[k].port = conn[k].port /\ (conn'[k].st = "none" => conn[k].st = "none")
  PROVE  ToClient'
<1>1. ASSUME NEW p \in Ports PROVE Arrived(p)'
  BY DEF ToClient, Arrived
<1>2. Writing'
  <2>1. CASE obuf = <<>>
    <3>1. obuf' = <<>>
      BY <2>1
    <3>2. DOMAIN obuf' = {} /\ Range(obuf') = {}
      BY <3>1, RangeEmpty
    <3>3. QED
      BY <3>1, <3>2 DEF Writing, Rising
  <2>2. CASE UNCHANGED <<at, pc>>
    BY <2>2 DEF ToClient, Writing, Read, Come
  <2>3. QED
    BY <2>1, <2>2
<1>3. ASSUME NEW k \in Conns PROVE Given(k)'
  <2>1. Given(k)
    BY DEF ToClient
  <2>2. CASE got[k] = <<>>
    <3>1. got'[k] = <<>>
      BY <2>2
    <3>2. DOMAIN got'[k] = {} /\ Range(got'[k]) = {}
      BY <3>1, RangeEmpty
    <3>3. QED
      BY <3>1, <3>2 DEF Given, Rising, AllEarlier
  <2>3. CASE conn'[k].port = conn[k].port /\ (conn'[k].st = "none" => conn[k].st = "none")
    <3>1. conn'[k].port = at' => AllEarlier(Range(got'[k]), Range(obuf'))
      <4>1. CASE obuf = <<>>
        <5>1. obuf' = <<>>
          BY <4>1
        <5>2. Range(obuf') = {}
          BY <5>1, RangeEmpty
        <5>3. QED
          BY <5>2 DEF AllEarlier
      <4>2. CASE UNCHANGED <<at, pc>>
        BY <2>1, <2>3, <4>2 DEF Given
      <4>3. QED
        BY <4>1, <4>2
    <3>2. \A x \in Range(got'[k]) : Come(x, conn'[k].port, ncame', tin'[conn'[k].port])
      BY <2>1, <2>3 DEF Given, Read, Come
    <3>3. QED
      BY <2>1, <2>3, <3>1, <3>2 DEF Given, Read, Come
  <2>4. QED
    BY <2>2, <2>3
<1>4. QED
  BY <1>1, <1>2, <1>3 DEF ToClient

\* A connection taken off the queue is told what became of it.
LEMMA ClientGreeted ==
  ASSUME TypeOK, ToClient, obuf = <<>>, NEW k \in Conns, NEW m \in {"hello", "refused"},
         got' = [got EXCEPT ![k] = <<[kind |-> m]>>],
         UNCHANGED <<tin, ncame, obuf, at>>, pc' = "net",
         \A j \in Conns : conn'[j].port = conn[j].port /\ (conn'[j].st = "none" => conn[j].st = "none"),
         conn'[k].st # "none"
  PROVE  ToClient'
<1>1. ASSUME NEW p \in Ports PROVE Arrived(p)'
  BY DEF ToClient, Arrived
<1>2. obuf' = <<>> /\ DOMAIN obuf' = {} /\ Range(obuf') = {}
  BY RangeEmpty
<1>3. Writing'
  BY <1>2 DEF Writing, Rising
<1>4. ASSUME NEW j \in Conns PROVE Given(j)'
  <2>1. got'[j] = IF j = k THEN <<[kind |-> m]>> ELSE got[j]
    BY DEF TypeOK
  <2>2. CASE j = k
    <3>1. DOMAIN got'[j] = {1} /\ got'[j][1] = [kind |-> m]
      BY <2>1, <2>2
    <3>2. \A x \in Range(got'[j]) : x.kind # "char"
      BY <3>1 DEF Range
    <3>3. Rising(got'[j])
      BY <3>2, NoChars
    <3>4. \A x \in Range(got'[j]) : Come(x, conn'[j].port, ncame', tin'[conn'[j].port])
      BY <3>2 DEF Read, Come
    <3>5. QED
      BY <1>2, <2>2, <3>3, <3>4 DEF Given, AllEarlier, Read
  <2>3. CASE j # k
    <3>1. got'[j] = got[j] /\ Given(j)
      BY <2>1, <2>3 DEF ToClient
    <3>2. \A x \in Range(got'[j]) : Come(x, conn'[j].port, ncame', tin'[conn'[j].port])
      BY <3>1 DEF Given, Read, Come
    <3>3. QED
      BY <1>2, <3>1, <3>2 DEF Given, AllEarlier, Read
  <2>4. QED
    BY <2>2, <2>3
<1>5. QED
  BY <1>1, <1>3, <1>4 DEF ToClient

\* An option is refused.
LEMMA ClientRefused ==
  ASSUME ToClient, obuf' = <<[kind |-> "reply"]>>, pc = "filter",
         UNCHANGED <<tin, ncame, got, at, pc, conn>>
  PROVE  ToClient'
<1>1. DOMAIN obuf' = {1} /\ obuf'[1] = [kind |-> "reply"]
  OBVIOUS
<1>2. \A x \in Range(obuf') : x.kind # "char"
  BY <1>1 DEF Range
<1>3. Rising(obuf') /\ \A S : AllEarlier(S, Range(obuf'))
  BY <1>2, NoChars
<1>4. Writing'
  BY <1>2, <1>3 DEF Writing, Read, Come
<1>5. \A p \in Ports : Arrived(p)'
  BY DEF ToClient, Arrived
<1>6. \A k \in Conns : Given(k)'
  BY <1>3 DEF ToClient, Given, Read, Come
<1>7. QED
  BY <1>4, <1>5, <1>6 DEF ToClient

\* The line of a client that has gone is closed, and what it held is lost.
LEMMA ClientLeft ==
  ASSUME TypeOK, ToClient, obuf = <<>>, at \in Ports, tin' = [tin EXCEPT ![at] = <<>>],
         UNCHANGED <<ncame, obuf, got, at, conn>>
  PROVE  ToClient'
<1>1. tin \in [Ports -> Seq(Nat)]
  BY DEF TypeOK
<1>2. \A p \in Ports : tin'[p] = tin[p] \/ tin'[p] = <<>>
  BY <1>1
<1>3. \A p \in Ports : Range(tin'[p]) \subseteq Range(tin[p])
  BY <1>2, RangeEmpty
<1>4. ASSUME NEW p \in Ports PROVE Arrived(p)'
  <2>1. CASE tin'[p] = tin[p]
    BY <2>1 DEF ToClient, Arrived
  <2>2. CASE tin'[p] = <<>>
    BY <2>2, RangeEmpty DEF Arrived
  <2>3. QED
    BY <1>2, <2>1, <2>2
<1>5. obuf' = <<>> /\ DOMAIN obuf' = {} /\ Range(obuf') = {}
  BY RangeEmpty
<1>6. Writing'
  BY <1>5 DEF Writing, Rising
<1>7. ASSUME NEW k \in Conns PROVE Given(k)'
  <2>1. conn[k].port \in Ports /\ Given(k)
    BY DEF TypeOK, ToClient
  <2>2. \A x \in Range(got'[k]) : Come(x, conn'[k].port, ncame', tin'[conn'[k].port])
    BY <1>3, <2>1 DEF Given, Read, Come
  <2>3. QED
    BY <1>5, <2>1, <2>2 DEF Given, AllEarlier, Read
<1>8. QED
  BY <1>4, <1>6, <1>7 DEF ToClient

\* What was read from a line is later than what its clients have.
LEMMA ClientSerialRead ==
  ASSUME DInv, TypeOK, ToClient, SerialRead
  PROVE  ToClient'
<1>0. at \in Ports /\ tin \in [Ports -> Seq(Nat)] /\ ncame \in Nat
  BY ConsoleAssumption DEF DInv, DescType, TypeOK, ConsoleAssumption
<1> DEFINE t == tin[at]
<1>1. /\ obuf' = [j \in DOMAIN t |-> [kind |-> "char", port |-> at, n |-> t[j]]]
      /\ tin' = [tin EXCEPT ![at] = <<>>] /\ pc' = "forward"
      /\ UNCHANGED <<ncame, got, at, conn>>
  BY DEF SerialRead
<1>2. t \in Seq(Nat) /\ Arrived(at)
  BY <1>0 DEF ToClient
<1> HIDE DEF t
<1>3. /\ DOMAIN obuf' = DOMAIN t
      /\ \A j \in DOMAIN t : /\ obuf'[j].kind = "char" /\ obuf'[j].port = at
                             /\ obuf'[j].n = t[j] /\ t[j] \in Range(t)
  BY <1>1 DEF Range
<1>4. /\ tin'[at] = <<>> /\ Range(tin'[at]) = {} /\ \A p \in Ports \ {at} : tin'[p] = tin[p]
  BY <1>0, <1>1, RangeEmpty
<1>5. \A p \in Ports : Range(tin'[p]) \subseteq Range(tin[p])
  BY <1>4
<1>6. \A p \in Ports : Arrived(p)'
  <2>1. Arrived(at)'
    BY <1>1, <1>4, RangeEmpty DEF Arrived
  <2>2. \A p \in Ports \ {at} : Arrived(p)'
    BY <1>1, <1>4 DEF ToClient, Arrived
  <2>3. QED
    BY <1>1, <2>1, <2>2
<1>7. Rising(obuf')
  BY <1>2, <1>3 DEF Arrived, Rising, Earlier, t
<1>8. \A x \in Range(obuf') : x.kind = "char" /\ x.port = at /\ x.n \in Range(t)
  BY <1>3 DEF Range
<1>9. Writing'
  BY <1>1, <1>2, <1>4, <1>7, <1>8 DEF Writing, Read, Come, Arrived, t
<1>10. ASSUME NEW k \in Conns PROVE Given(k)'
  <2>1. conn[k].port \in Ports /\ Given(k)
    BY DEF TypeOK, ToClient
  <2>2. \A x \in Range(got'[k]) : Come(x, conn'[k].port, ncame', tin'[conn'[k].port])
    BY <1>1, <1>5, <2>1 DEF Given, Read, Come
  <2>3. conn'[k].port = at' => AllEarlier(Range(got'[k]), Range(obuf'))
    BY <1>1, <1>8, <2>1 DEF Given, Read, Come, AllEarlier, Earlier, t
  <2>4. QED
    BY <1>1, <2>1, <2>2, <2>3 DEF Given, Read
<1>11. QED
  BY <1>6, <1>9, <1>10 DEF ToClient

\* A client is given the first of the items: it is earlier than the others.
LEMMA ClientPlaceItem ==
  ASSUME DInv, TypeOK, Busy, ToClient, PlaceItem
  PROVE  ToClient'
<1> DEFINE k == ClientOf(at)
           x == Head(obuf)
<1>0. /\ at \in Ports /\ client_fd[at] # None /\ obuf \in Seq(Items) /\ obuf # <<>>
      /\ got \in [Conns -> Seq(Items)]
  BY DEF DInv, DescType, PlaceItem, Busy, TypeOK
<1>1. k \in Conns /\ conn[k].port = at /\ conn[k].st # "none"
  <2>1. k \in Conns /\ client_fd[at] \in Fds
    BY <1>0, Apart
  <2>2. QED
    BY <1>0, <2>1 DEF DInv, Made, Held, ClientOf
<1>2. /\ obuf' = Tail(obuf) /\ UNCHANGED <<tin, ncame, at, pc, conn>>
      /\ pc \in {"filter", "forward"}
      /\ got' = got \/ got' = [got EXCEPT ![k] = Append(@, x)]
  BY DEF PlaceItem
<1>3. x \in Items /\ x \in Range(obuf) /\ Range(obuf') \subseteq Range(obuf)
  BY <1>0, <1>2, SeqSteps, RangeSteps
<1>4. Rising(obuf') /\ AllEarlier({x}, Range(obuf'))
  BY <1>0, <1>2, RisingTail DEF ToClient, Writing
<1> HIDE DEF k, x
<1>5. \A p \in Ports : Arrived(p)'
  BY <1>2 DEF ToClient, Arrived
<1>6. Writing'
  BY <1>2, <1>3, <1>4 DEF ToClient, Writing, Read, Come
<1>7. Given(k) /\ AllEarlier(Range(got[k]), {x}) /\ Read(x, at)
  BY <1>1, <1>3 DEF ToClient, Given, Writing, AllEarlier
<1>8. ASSUME NEW j \in Conns
      PROVE  /\ Rising(got'[j])
             /\ \A y \in Range(got'[j]) : y \in Range(got[j]) \/ (y = x /\ j = k)
  <2>1. CASE got'[j] = got[j]
    BY <2>1 DEF ToClient, Given
  <2>2. CASE j = k /\ got'[j] = Append(got[j], x)
    <3>1. got[j] \in Seq(Items) /\ Rising(got[j]) /\ AllEarlier(Range(got[j]), {x})
      BY <1>0, <1>7, <2>2 DEF Given
    <3>2. Rising(got'[j])
      BY <1>3, <2>2, <3>1, RisingAppend
    <3>3. Range(got'[j]) = Range(got[j]) \cup {x}
      BY <1>3, <2>2, <3>1, RangeSteps
    <3>4. QED
      BY <2>2, <3>2, <3>3
  <2>3. QED
    BY <1>0, <1>1, <1>2, <2>1, <2>2
<1>9. ASSUME NEW j \in Conns PROVE Given(j)'
  <2>1. Given(j)
    BY DEF ToClient
  <2>2. \A y \in Range(got'[j]) : Come(y, conn'[j].port, ncame', tin'[conn'[j].port])
    BY <1>1, <1>2, <1>7, <1>8, <2>1 DEF Given, Read, Come
  <2>3. conn'[j].port = at' => AllEarlier(Range(got'[j]), Range(obuf'))
    BY <1>2, <1>3, <1>4, <1>8, <2>1 DEF Given, AllEarlier
  <2>4. conn'[j].st = "none" => got'[j] = <<>>
    BY <1>0, <1>1, <1>2, <2>1 DEF Given
  <2>5. QED
    BY <1>8, <2>2, <2>3, <2>4 DEF Given, Read
<1>10. QED
  BY <1>5, <1>6, <1>9 DEF ToClient

\* A character arrives: it is later than all there are.
LEMMA ClientArrive ==
  ASSUME DInv, TypeOK, ToClient, NEW p \in Ports, Arrive(p),
         UNCHANGED <<obuf, got, at, pc>>
  PROVE  ToClient'
<1>0. /\ tin \in [Ports -> Seq(Nat)] /\ ncame \in Nat /\ at \in Ports
      /\ obuf \in Seq(Items) /\ got \in [Conns -> Seq(Items)]
  BY ConsoleAssumption DEF DInv, DescType, TypeOK, ConsoleAssumption
<1>1. /\ ncame' = ncame + 1 /\ tin' = [tin EXCEPT ![p] = Append(@, ncame')] /\ conn' = conn
  BY DEF Arrive
<1> DEFINE t == tin[p]
           s == Append(t, ncame')
<1>2. /\ t \in Seq(Nat) /\ ncame' \in Nat /\ tin'[p] = s
      /\ \A q \in Ports \ {p} : tin'[q] = tin[q]
  BY <1>0, <1>1
<1>3. /\ Len(t) \in Nat /\ DOMAIN t = 1..Len(t) /\ DOMAIN s = 1..(Len(t) + 1)
      /\ s[Len(t) + 1] = ncame' /\ \A i \in DOMAIN t : s[i] = t[i]
  BY <1>2, AppendIdx
<1>4. Range(s) = Range(t) \cup {ncame'} /\ Range(t) \subseteq Nat
  BY <1>2, RangeSteps
<1>5. Arrived(p)
  BY DEF ToClient
<1> HIDE DEF s
<1>6. \A a, b \in DOMAIN s : a < b => s[a] < s[b]
  <2> SUFFICES ASSUME NEW a \in DOMAIN s, NEW b \in DOMAIN s, a < b PROVE s[a] < s[b]
    OBVIOUS
  <2>1. a \in DOMAIN t /\ s[a] = t[a]
    BY <1>3
  <2>2. CASE b \in DOMAIN t
    BY <1>3, <1>5, <2>1, <2>2 DEF Arrived
  <2>3. CASE b = Len(t) + 1
    <3>1. t[a] \in Range(t)
      BY <2>1 DEF Range
    <3>2. t[a] <= ncame /\ t[a] \in Nat
      BY <1>4, <1>5, <3>1 DEF Arrived
    <3>3. QED
      BY <1>0, <1>1, <1>3, <2>1, <2>3, <3>2
  <2>4. QED
    BY <1>3, <2>2, <2>3
<1>7. Arrived(p)'
  <2>1. \A m \in Range(s) : m <= ncame'
    BY <1>0, <1>1, <1>4, <1>5 DEF Arrived
  <2>2. QED
    BY <1>2, <1>6, <2>1 DEF Arrived
<1>8. ASSUME NEW q \in Ports \ {p} PROVE Arrived(q)'
  <2>1. Range(tin[q]) \subseteq Nat
    BY <1>0, RangeSteps
  <2>2. Arrived(q)
    BY DEF ToClient
  <2>3. \A m \in Range(tin[q]) : m <= ncame'
    BY <1>0, <1>1, <2>1, <2>2 DEF Arrived
  <2>4. QED
    BY <1>2, <2>2, <2>3 DEF Arrived
<1>9. ASSUME NEW q \in Ports, NEW x \in Items, Read(x, q) PROVE Come(x, q, ncame', tin'[q])
  <2> SUFFICES ASSUME x.kind = "char"
               PROVE  x.port = q /\ x.n <= ncame' /\ \A m \in Range(tin'[q]) : x.n < m
    BY DEF Read, Come
  <2>1. x.n \in Nat /\ x.port = q /\ x.n <= ncame /\ \A m \in Range(tin[q]) : x.n < m
    BY <1>9, CharItem DEF Read, Come
  <2>2. x.n <= ncame' /\ x.n < ncame'
    BY <1>0, <1>1, <2>1
  <2>3. \A m \in Range(tin'[q]) : m \in Range(tin[q]) \/ m = ncame'
    BY <1>2, <1>4
  <2>4. QED
    BY <2>1, <2>2, <2>3
<1>10. Writing'
  <2>1. Range(obuf) \subseteq Items
    BY <1>0, RangeSteps
  <2>2. \A x \in Range(obuf) : Come(x, at', ncame', tin'[at'])
    BY <1>0, <1>9, <2>1 DEF ToClient, Writing
  <2>3. QED
    BY <2>2 DEF ToClient, Writing, Read, Come
<1>11. ASSUME NEW k \in Conns PROVE Given(k)'
  <2>1. Given(k) /\ conn[k].port \in Ports
    BY DEF ToClient, TypeOK
  <2>2. Range(got[k]) \subseteq Items
    BY <1>0, RangeSteps
  <2>3. \A x \in Range(got[k]) : Come(x, conn'[k].port, ncame', tin'[conn'[k].port])
    BY <1>1, <1>9, <2>1, <2>2 DEF Given
  <2>4. QED
    BY <1>1, <2>1, <2>3 DEF Given, Read, Come
<1>12. QED
  BY <1>7, <1>8, <1>10, <1>11 DEF ToClient

\* Every step of the server keeps the characters in order.
LEMMA ServerGives ==
  ASSUME DInv, Pending, TypeOK, Busy, ToClient, Server
  PROVE  ToClient'
<1>0. /\ pc \notin {"filter", "forward"} => obuf = <<>>
      /\ at \in Ports /\ conn \in [Conns -> [st : {"none", "open", "closed"}, port : Ports]]
  BY DEF ToClient, Writing, DInv, DescType
<1>1. CASE Select \/ AcceptFails \/ NetRead \/ TtyWrite \/ Advance
  <2>1. /\ UNCHANGED <<tin, ncame, obuf, got, conn>>
        /\ pc \notin {"filter", "forward"} \/ obuf = <<>>
    BY <1>1 DEF Select, AcceptFails, NewClient, NetRead, AtNet, TtyWrite, Advance, AtSerial,
                envVars
  <2>2. QED
    BY <1>0, <2>1, ClientStill
<1>2. CASE OpenFails \/ Accept
  <2> DEFINE k == Head(queue[at])
  <2>1. k \in Conns /\ conn[k].st # "none"
    BY <1>2, Accepted DEF OpenFails, Accept
  <2> HIDE DEF k
  <2>2. conn' = conn \/ conn' = [conn EXCEPT ![k].st = "closed"]
    BY <1>2 DEF OpenFails, Accept, k
  <2>3. /\ \A j \in Conns : /\ conn'[j].port = conn[j].port
                            /\ conn'[j].st = "none" => conn[j].st = "none"
        /\ conn'[k].st # "none"
    <3>1. CASE conn' = conn
      BY <2>1, <3>1
    <3>2. CASE conn' = [conn EXCEPT ![k].st = "closed"]
      <4>1. \A j \in Conns : conn[j].st # "none" =>
                               conn'[j].st # "none" /\ conn'[j].port = conn[j].port
        BY <1>0, <2>1, <3>2, ConnClosed
      <4>2. conn'[k].st = "closed" /\ \A j \in Conns \ {k} : conn'[j] = conn[j]
        BY <1>0, <2>1, <3>2, ConnClosed
      <4>3. QED
        BY <2>1, <4>1, <4>2
    <3>3. QED
      BY <2>2, <3>1, <3>2
  <2>4. /\ pc = "accept" /\ pc' = "net" /\ UNCHANGED <<tin, ncame, obuf, at>>
        /\ \E m \in {"hello", "refused"} : got' = [got EXCEPT ![k] = <<[kind |-> m]>>]
    BY <1>2 DEF OpenFails, Accept, NewClient, k
  <2>5. PICK m \in {"hello", "refused"} : got' = [got EXCEPT ![k] = <<[kind |-> m]>>]
    BY <2>4
  <2>6. obuf = <<>>
    BY <1>0, <2>4
  <2>7. QED
    BY <2>1, <2>3, <2>4, <2>5, <2>6, ClientGreeted
<1>3. CASE FilterUnit
  <2>1. /\ pc = "filter" /\ obuf = <<>> /\ UNCHANGED <<tin, ncame, got, at, pc, conn>>
        /\ obuf' = obuf \/ obuf' = <<[kind |-> "reply"]>>
    BY <1>3 DEF FilterUnit, Refused, envVars
  <2>2. QED
    BY <2>1, ClientStill, ClientRefused
<1>4. CASE ClientGone
  <2>1. /\ pc \notin {"filter", "forward"} /\ tin' = [tin EXCEPT ![at] = <<>>]
        /\ UNCHANGED <<ncame, obuf, got, at, conn>>
    BY <1>4 DEF ClientGone, AtNet
  <2>2. QED
    BY <1>0, <2>1, ClientLeft
<1>5. CASE PlaceItem
  BY <1>5, ClientPlaceItem
<1>6. CASE SerialRead
  BY <1>6, ClientSerialRead
<1>7. QED
  BY <1>1, <1>2, <1>3, <1>4, <1>5, <1>6 DEF Server

\* So does every step of the clients and the lines.
LEMMA EnvironmentGives ==
  ASSUME DInv, TypeOK, ToClient, Environment
  PROVE  ToClient'
<1>0. /\ UNCHANGED <<obuf, got, at, pc>>
      /\ conn \in [Conns -> [st : {"none", "open", "closed"}, port : Ports]]
  BY DEF Environment, serverVars, DInv, DescType
<1>1. ASSUME NEW k \in Conns, NEW p \in Ports, Connect(k, p) PROVE ToClient'
  <2>1. /\ UNCHANGED <<tin, ncame>> /\ conn[k].st = "none"
        /\ conn' = [conn EXCEPT ![k] = [st |-> "open", port |-> p]]
    BY <1>1 DEF Connect
  <2>2. got[k] = <<>>
    BY <2>1 DEF ToClient, Given
  <2>3. \A j \in Conns \ {k} : conn'[j] = conn[j]
    BY <1>0, <2>1
  <2>4. QED
    BY <1>0, <2>1, <2>2, <2>3, ClientStill
<1>2. ASSUME NEW k \in Conns, Close(k) PROVE ToClient'
  <2>1. UNCHANGED <<tin, ncame>> /\ conn' = [conn EXCEPT ![k].st = "closed"] /\ conn[k].st = "open"
    BY <1>2 DEF Close
  <2>2. /\ conn'[k].st = "closed" /\ \A j \in Conns \ {k} : conn'[j] = conn[j]
        /\ conn'[k].port = conn[k].port
    BY <1>0, <2>1, ConnClosed
  <2>3. QED
    BY <1>0, <2>1, <2>2, ClientStill
<1>3. ASSUME UNCHANGED <<conn, tin, ncame>> PROVE ToClient'
  BY <1>0, <1>3, ClientStill
<1>4. ASSUME NEW p \in Ports, Arrive(p) PROVE ToClient'
  BY <1>0, <1>4, ClientArrive
<1>5. QED
  BY <1>1, <1>2, <1>3, <1>4 DEF Environment, Send, Receive

\* At the start nothing is under way.
LEMMA NothingYet ==
  ASSUME Init
  PROVE  Flow /\ Sessions /\ ToClient
<1>1. Range(<<>>) = {} /\ DOMAIN <<>> = {}
  BY RangeEmpty
<1>2. Flow
  <2>1. Unread
    BY <1>1 DEF Init, Unread, Ordered, UpTo
  <2>2. InHand
    BY <1>1 DEF Init, InHand, Ordered, UpTo, AllBefore
  <2>3. \A p \in Ports : OnLine(p)
    BY <1>1 DEF Init, OnLine, Ordered, UpTo, AllBefore
  <2>4. QED
    BY <2>1, <2>2, <2>3 DEF Flow
<1>3. Sessions
  BY <1>1 DEF Init, Sessions, Served, InTurn, InSessions, WaitsOnce, Once
<1>4. ToClient
  <2>1. \A p \in Ports : Arrived(p)
    BY <1>1 DEF Init, Arrived
  <2>2. Writing
    BY <1>1 DEF Init, Writing, Rising
  <2>3. \A k \in Conns : Given(k)
    BY <1>1 DEF Init, Given, Rising, AllEarlier
  <2>4. QED
    BY <2>1, <2>2, <2>3 DEF ToClient
<1>5. QED
  BY <1>2, <1>3, <1>4

\* The invariant says of a line what StreamsKept does.
LEMMA LineIsClean ==
  ASSUME TypeOK, Flow, Sessions, NEW p \in Ports
  PROVE  WireClean(p)
<1>1. Ordered(wire[p]) /\ Served(p) /\ InSessions(wire[p])
  BY DEF Flow, OnLine, Sessions, InTurn
<1> SUFFICES ASSUME NEW a \in DOMAIN wire[p], NEW b \in DOMAIN wire[p]
             PROVE  /\ wire[p][a].kind \in {"char", "break"}
                    /\ conn[wire[p][a].conn].port = p
                    /\ a < b /\ wire[p][a].conn = wire[p][b].conn =>
                         /\ wire[p][a].kind = wire[p][b].kind => wire[p][a].n < wire[p][b].n
                         /\ \A m \in a..b : wire[p][m].conn = wire[p][a].conn
  BY DEF WireClean
<1>2. wire[p][a] \in Range(wire[p])
  BY DEF Range
<1>3. wire[p][a].kind \in {"char", "break"} /\ conn[wire[p][a].conn].port = p
  BY <1>1, <1>2 DEF Served
<1>4. ASSUME a < b, wire[p][a].conn = wire[p][b].conn, wire[p][a].kind = wire[p][b].kind
      PROVE  wire[p][a].n < wire[p][b].n
  BY <1>1, <1>4 DEF Ordered, Before
<1>5. ASSUME a < b, wire[p][a].conn = wire[p][b].conn, NEW m \in a..b
      PROVE  wire[p][m].conn = wire[p][a].conn
  <2>1. DOMAIN wire[p] = 1..Len(wire[p]) /\ Len(wire[p]) \in Nat
    BY LenProperties DEF TypeOK
  <2>2. m \in DOMAIN wire[p] /\ a <= m /\ m <= b
    BY <2>1
  <2>3. QED
    BY <1>1, <1>5, <2>2 DEF InSessions
<1>6. QED
  BY <1>3, <1>4, <1>5

\* And of a client.
LEMMA ClientIsExact ==
  ASSUME ToClient, NEW k \in Conns
  PROVE  ClientExact(k)
<1>1. Rising(got[k]) /\ \A x \in Range(got[k]) : Read(x, conn[k].port)
  BY DEF ToClient, Given
<1>2. \A a \in DOMAIN got[k] : got[k][a] \in Range(got[k])
  BY DEF Range
<1>3. QED
  BY <1>1, <1>2 DEF ClientExact, Rising, Earlier, Read, Come

\* However clients come, go and reset, ttys fill up and opens fail
\* (telnet_filter, the write to the tty, telnet_write, the accept and the close
\* in the loop): a line gets characters and breaks of its own port's clients,
\* each client's in the order it sent them and at most once, one session after
\* the other, and a client gets its own line's characters, in order and at most
\* once.
THEOREM StreamsProved == Spec => []StreamsKept
<1> DEFINE SInv == Flow /\ Sessions /\ ToClient
<1>1. Init => SInv
  BY NothingYet
<1>2. ASSUME DInv /\ Pending, TypeOK /\ Busy, SInv, [Next]_vars PROVE SInv'
  <2>1. CASE Server
    BY <1>2, <2>1, ServerLines, ServerGives
  <2>2. CASE Environment
    BY <1>2, <2>2, EnvironmentLines, EnvironmentGives
  <2>3. CASE UNCHANGED vars
    <3>1. /\ UNCHANGED <<cin, raw, chars, wire, nsent, at, pc, client_fd, file, conn, queue>>
          /\ UNCHANGED <<tin, ncame, obuf, got>>
      BY <2>3 DEF vars, serverVars, envVars
    <3>2. Flow' /\ Sessions'
      BY <1>2, <3>1, FlowStill, SessionsSame
    <3>3. ToClient'
      BY <1>2, <3>1, ClientStill
    <3>4. QED
      BY <3>2, <3>3
  <2>4. QED
    BY <1>2, <2>1, <2>2, <2>3 DEF Next
<1>3. TypeOK /\ SInv => StreamsKept
  BY LineIsClean, ClientIsExact DEF StreamsKept
<1>4. QED
  BY <1>1, <1>2, <1>3, DescriptorsInvariant, TypesInvariant, PTL DEF Spec

=============================================================================
