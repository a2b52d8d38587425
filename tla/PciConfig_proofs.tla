--------------------------- MODULE PciConfig_proofs ---------------------------
(* Proofs about PciConfig: the types, and what the interleaving of the kernel *)
(* and the tool on one pair of registers can and cannot do.                   *)
EXTENDS PciConfig, TLAPS

USE DEF Buses

-----------------------------------------------------------------------------
(* Sequences.                                                                 *)

\* Short tuples are sequences.
LEMMA Tuples ==
  ASSUME NEW S
  PROVE  /\ \A x \in S : <<x>> \in Seq(S)
         /\ \A x, y \in S : <<x, y>> \in Seq(S)
         /\ \A x, y, z \in S : <<x, y, z>> \in Seq(S)
  OBVIOUS

\* What is left of a sequence after its first n elements.
LEMMA RestSeq ==
  ASSUME NEW S, NEW q \in Seq(S), NEW n \in Nat
  PROVE  SubSeq(q, n + 1, Len(q)) \in Seq(S)
  OBVIOUS

\* What is left of a sequence after its first n elements.
LEMMA RestParts ==
  ASSUME NEW S, NEW q \in Seq(S), NEW n \in Nat, n <= Len(q)
  PROVE  /\ Len(SubSeq(q, n + 1, Len(q))) = Len(q) - n
         /\ \A k \in 1..(Len(q) - n) : SubSeq(q, n + 1, Len(q))[k] = q[n + k]
<1>1. Len(q) \in Nat
  OBVIOUS
<1> QED BY <1>1

\* Wider element sets, wider sequences.
LEMMA SeqWider ==
  ASSUME NEW S, NEW T, S \subseteq T
  PROVE  Seq(S) \subseteq Seq(T)
  OBVIOUS

\* One sequence after another.
LEMMA JoinSeq ==
  ASSUME NEW S, NEW s \in Seq(S), NEW t \in Seq(S)
  PROVE  /\ s \o t \in Seq(S)
         /\ Len(s \o t) = Len(s) + Len(t)
         /\ \A i \in 1..Len(s) : (s \o t)[i] = s[i]
         /\ \A i \in 1..Len(t) : (s \o t)[Len(s) + i] = t[i]
  OBVIOUS

\* A sequence that is not empty has a last element.
LEMMA LastSeq ==
  ASSUME NEW S, NEW s \in Seq(S)
  PROVE  /\ Len(s) \in Nat /\ (s = <<>> <=> Len(s) = 0)
         /\ s # <<>> => Len(s) \in 1..Len(s)
  OBVIOUS

-----------------------------------------------------------------------------
(* The tool's programs.  Only a sweep moves BusNum, only the scan has accesses *)
(* that depend on an answer, and only --rma has answers that are kept.        *)

Plain  == {a \in Access : a.kind # "bus" /\ a.tag = ""}
Single == {a \in Access : a.more = 0 /\ a.tag = ""}
Asks   == {a \in Access : a.kind = "read" /\ a.more = 0}

\* What each kind of access is.
LEMMA AccessTypes ==
  ASSUME NEW b \in Buses, NEW d \in Devs, NEW r \in Regs
  PROVE  /\ Rd(b, d, r) \in Plain \cap Single
         /\ Id(b, d, 1) \in Plain
         /\ \A v \in SUBSET Bits : Wr(b, d, r, v) \in Plain \cap Single
         /\ Status(b, "") \in Plain \cap Single
         /\ Status(b, "") \in Asks /\ Status(b, "before") \in Asks
         /\ Status(b, "after") \in Asks /\ Rd(b, d, r) \in Asks
         /\ SetBus(b) \in Single
<1>1. /\ "id" \in Regs /\ "cmd" \in Regs /\ "bridge" \in Devs
  BY DEF Regs, Devs, Present
<1>2. /\ Rd(b, d, r) \in Access /\ Id(b, d, 1) \in Access
      /\ \A v \in SUBSET Bits : Wr(b, d, r, v) \in Access
      /\ SetBus(b) \in Access
  BY <1>1 DEF Rd, Id, Wr, SetBus, Op, Access, Addrs
<1>3. /\ Status(b, "") \in Access /\ Status(b, "before") \in Access
      /\ Status(b, "after") \in Access
  BY <1>1 DEF Status, Op, Access, Addrs
<1>4. /\ Rd(b, d, r).kind = "read" /\ Rd(b, d, r).more = 0 /\ Rd(b, d, r).tag = ""
      /\ Id(b, d, 1).kind = "read" /\ Id(b, d, 1).tag = ""
      /\ \A v \in SUBSET Bits : /\ Wr(b, d, r, v).kind = "write"
                                /\ Wr(b, d, r, v).more = 0 /\ Wr(b, d, r, v).tag = ""
      /\ SetBus(b).more = 0 /\ SetBus(b).tag = ""
  BY DEF Rd, Id, Wr, SetBus, Op
<1>5. \A t : /\ Status(b, t).kind = "read" /\ Status(b, t).more = 0
             /\ Status(b, t).tag = t
  BY DEF Status, Op
<1> QED BY <1>2, <1>3, <1>4, <1>5 DEF Plain, Single, Asks

\* The questions main begins with.
LEMMA DecisiveTypes ==
  ASSUME NEW b \in Buses
  PROVE  /\ Decisive(b) \in Seq(Plain) /\ Decisive(b) \in Seq(Single)
         /\ Decisive(b) \in Seq(Asks)
         /\ \A i \in 1..3 : Decisive(b)[i].tag = ""
         /\ Len(Decisive(b)) = 3
<1> DEFINE s == Status(b, "")
           r == Rd(b, "none", "id")
<1>1. /\ s \in Plain /\ s \in Single /\ s \in Asks /\ s.tag = ""
      /\ r \in Plain /\ r \in Single /\ r \in Asks /\ r.tag = ""
  <2>1. "id" \in Regs /\ "none" \in Devs
    BY DEF Regs, Devs
  <2> QED BY <2>1, AccessTypes DEF Plain
<1>2. Decisive(b) = <<s, r, s>>
  BY DEF Decisive
<1> HIDE DEF s, r
<1>3. /\ Decisive(b) \in Seq(Plain) /\ Decisive(b) \in Seq(Single)
      /\ Decisive(b) \in Seq(Asks)
  BY <1>1, <1>2, Tuples
<1>4. Len(Decisive(b)) = 3 /\ \A i \in 1..3 : Decisive(b)[i] = s \/ Decisive(b)[i] = r
  BY <1>2
<1> QED BY <1>1, <1>3, <1>4

\* What the scan of all buses and the sweep consist of.
LEMMA WalkTypes ==
  ASSUME NEW b \in Buses, PciAssumption
  PROVE  /\ ScanAll \in Seq(Plain)
         /\ Sweep(b) \in Seq(Single) /\ Sweep(b) # <<>>
         /\ Sweep(b)[Len(Sweep(b))] = SetBus(b)
<1>0. /\ "id" \in Regs /\ "cmd" \in Regs /\ "bar" \in Regs
      /\ "bridge" \in Devs /\ "card" \in Devs /\ "none" \in Devs
      /\ MaxBus \in Nat
  BY DEF Regs, Devs, Present, PciAssumption
<1>1. ScanAll \in Seq(Plain)
  <2>1. \A i \in 1..(9 * (MaxBus + 1)) : ScanAll[i] \in Plain
    <3> SUFFICES ASSUME NEW i \in 1..(9 * (MaxBus + 1)) PROVE ScanAll[i] \in Plain
      OBVIOUS
    <3> DEFINE n == (i - 1) \div 9
               d == <<"bridge", "card", "none">>[(((i - 1) \div 3) % 3) + 1]
    <3>1. n \in Buses
      BY <1>0
    <3>2. (((i - 1) \div 3) % 3) + 1 \in 1..3
      BY <1>0
    <3>3. d \in Devs
      BY <1>0, <3>2
    <3> HIDE DEF n, d
    <3>4. Id(n, d, 1) \in Plain /\ Rd(n, d, "bar") \in Plain /\ Rd(n, d, "id") \in Plain
      BY <1>0, <3>1, <3>3, AccessTypes
    <3> QED BY <3>4 DEF ScanAll, n, d
  <2> QED BY <2>1, <1>0 DEF ScanAll
<1>2. /\ Sweep(b) \in Seq(Single) /\ Sweep(b) # <<>>
      /\ Sweep(b)[Len(Sweep(b))] = SetBus(b)
  <2> DEFINE cmd  == Wr(b, "bridge", "cmd", ToolCmd)
             walk == [i \in 1..(3 * (MaxBus + 1)) |->
                        LET n == (i - 1) \div 3
                        IN  CASE i % 3 = 1 -> SetBus(n)
                              [] i % 3 = 2 -> Rd(n, "card", "id")
                              [] OTHER     -> Rd(n, "none", "id")]
  <2>1. \A i \in 1..(3 * (MaxBus + 1)) : walk[i] \in Single
    <3> SUFFICES ASSUME NEW i \in 1..(3 * (MaxBus + 1)) PROVE walk[i] \in Single
      OBVIOUS
    <3> DEFINE n == (i - 1) \div 3
    <3>1. n \in Buses
      BY <1>0
    <3> HIDE DEF n
    <3>2. SetBus(n) \in Single /\ Rd(n, "card", "id") \in Single /\ Rd(n, "none", "id") \in Single
      BY <1>0, <3>1, AccessTypes
    <3> QED BY <3>2 DEF n
  <2>2. walk \in Seq(Single)
    BY <2>1, <1>0
  <2>3. cmd \in Single /\ SetBus(b) \in Single
    BY <1>0, AccessTypes DEF ToolCmd, Bits, CmdBits
  <2>4. Sweep(b) = (<<cmd>> \o walk) \o <<SetBus(b)>>
    BY DEF Sweep, SweepLeft
  <2> HIDE DEF cmd, walk
  <2>5. <<cmd>> \in Seq(Single) /\ <<SetBus(b)>> \in Seq(Single)
    BY <2>3, Tuples
  <2> DEFINE first == <<cmd>> \o walk
  <2>6. first \in Seq(Single)
    BY <2>2, <2>5
  <2> HIDE DEF first
  <2>7. \A s \in Seq(Single), x \in Single :
          /\ s \o <<x>> \in Seq(Single) /\ s \o <<x>> # <<>>
          /\ (s \o <<x>>)[Len(s \o <<x>>)] = x
    OBVIOUS
  <2> QED BY <2>3, <2>4, <2>6, <2>7 DEF first
<1> QED BY <1>1, <1>2

-----------------------------------------------------------------------------
(* Configuration space.                                                       *)

SpaceOK(sp) == /\ sp \in [Present -> [Regs -> SUBSET Bits]]
               /\ \A d \in Present, r \in Regs : sp[d][r] \subseteq RegBits[r]

\* What a cycle stores is a dword of the register it went to.
LEMMA StoredType ==
  ASSUME NEW r \in Regs, NEW old \in SUBSET Bits, old \subseteq RegBits[r],
         NEW v \in SUBSET Bits
  PROVE  /\ Stored(old, r, v) \in SUBSET Bits
         /\ Stored(old, r, v) \subseteq RegBits[r]
         /\ r = "cmd" /\ "RMA" \in Stored(old, r, v) => "RMA" \in old
<1>1. CASE r = "id"
  BY <1>1 DEF Stored
<1>2. CASE r = "cmd"
  BY <1>2 DEF Stored, RegBits, Regs, CmdBits, Bits
<1>3. CASE r = "bar"
  BY <1>3 DEF Stored, RegBits, Regs, CmdBits, Bits
<1> QED BY <1>1, <1>2, <1>3 DEF Regs

\* A configuration cycle leaves everything within its types.
LEMMA CycleTypes ==
  ASSUME SpaceOK(space), NEW a \in Addrs, NEW v \in SUBSET Bits
  PROVE  /\ Data(a) \in SUBSET Bits
         /\ SpaceOK(Latched(a)) /\ SpaceOK(Put(a, v))
<1>0. /\ a.dev \in Devs /\ a.reg \in Regs /\ "bridge" \in Present /\ "cmd" \in Regs
      /\ Reaches(a) => a.dev \in Present
  BY DEF Addrs, Reaches, Present, Regs
<1>1. Data(a) \in SUBSET Bits
  BY <1>0 DEF Data, SpaceOK
<1>2. SpaceOK(Latched(a))
  <2>1. RegBits["cmd"] = CmdBits /\ "RMA" \in CmdBits /\ CmdBits \subseteq Bits
    BY DEF RegBits, Regs, CmdBits, Bits
  <2>2. CASE Aborts(a)
    BY <1>0, <2>1, <2>2 DEF Latched, SpaceOK
  <2>3. CASE ~Aborts(a)
    BY <2>3 DEF Latched
  <2> QED BY <2>2, <2>3
<1>3. SpaceOK(Put(a, v))
  <2>1. CASE Reaches(a)
    <3>1. /\ Stored(space[a.dev][a.reg], a.reg, v) \in SUBSET Bits
          /\ Stored(space[a.dev][a.reg], a.reg, v) \subseteq RegBits[a.reg]
      BY <1>0, <2>1, StoredType DEF SpaceOK
    <3> HIDE DEF Stored
    <3> QED BY <1>0, <2>1, <3>1 DEF Put, SpaceOK
  <2>2. CASE ~Reaches(a)
    BY <2>2, <1>2 DEF Put
  <2> QED BY <2>1, <2>2
<1> QED BY <1>1, <1>2, <1>3

\* The abort flag is set by an abort and by nothing else.
LEMMA FlagFromAbort ==
  ASSUME SpaceOK(space), NEW a \in Addrs, NEW v \in SUBSET Bits,
         ~Aborts(a)
  PROVE  /\ Latched(a) = space
         /\ "RMA" \in Put(a, v)["bridge"]["cmd"] => "RMA" \in space["bridge"]["cmd"]
<1>1. Latched(a) = space
  BY DEF Latched
<1>2. CASE ~Reaches(a)
  BY <1>1, <1>2 DEF Put
<1>3. CASE Reaches(a)
  <2>0. /\ a.dev \in Present /\ a.reg \in Regs /\ "bridge" \in Present /\ "cmd" \in Regs
    BY <1>3 DEF Addrs, Reaches, Present, Regs
  <2>1. CASE a.dev = "bridge" /\ a.reg = "cmd"
    <3>1. Put(a, v)["bridge"]["cmd"] = Stored(space["bridge"]["cmd"], "cmd", v)
      BY <1>3, <2>0, <2>1 DEF Put, SpaceOK
    <3> DEFINE old == space["bridge"]["cmd"]
    <3>2. old \in SUBSET Bits /\ old \subseteq RegBits["cmd"]
      BY <2>0 DEF SpaceOK
    <3> HIDE DEF old
    <3>3. "RMA" \in Stored(old, "cmd", v) => "RMA" \in old
      BY <2>0, <3>2, StoredType
    <3> QED BY <1>1, <3>1, <3>3 DEF old
  <2>2. CASE ~(a.dev = "bridge" /\ a.reg = "cmd")
    <3> DEFINE new == Stored(space[a.dev][a.reg], a.reg, v)
    <3> HIDE DEF new
    <3>1. Put(a, v) = [space EXCEPT ![a.dev][a.reg] = new]
      BY <1>3 DEF Put, new
    <3>2. Put(a, v)["bridge"]["cmd"] = space["bridge"]["cmd"]
      BY <2>0, <2>2, <3>1 DEF SpaceOK
    <3> QED BY <1>1, <3>2
  <2> QED BY <2>1, <2>2
<1> QED BY <1>1, <1>2, <1>3

-----------------------------------------------------------------------------
(* The invariant.                                                             *)

\* Until the scan there is no tool.
EarlyQuiet == up # "scanned" => tool = Idle /\ said = Silent

\* Half an access is half of the first one left.
Halves == tool.half => /\ tool.mode # "none" /\ tool.prog # <<>>
                       /\ Now.kind # "bus"

\* What is left of a run is of its kind.
Programs ==
  /\ tool.mode = "none" => tool.prog = <<>> /\ said = [Silent EXCEPT !.cut = said.cut]
  /\ tool.mode \notin {"sweep", "rma"} => tool.prog \in Seq(Plain)
  /\ tool.mode = "sweep" => tool.prog \in Seq(Single)
  /\ tool.mode = "rma" => tool.prog \in Seq(Asks)
  /\ tool.mode # "rma" => said.verdict = "none"

\* A sweep that began on the kernel's bus ends by going back to it.
SweepEnds ==
  tool.mode = "sweep" /\ ~said.cut =>
    IF tool.prog = <<>> THEN bus = 0 ELSE tool.prog[Len(tool.prog)] = SetBus(0)

\* What is left of --rma, counted from the end: the status, the probe, the
\* status of the same bridge, and questions that are not kept.
RmaShape ==
  tool.mode = "rma" =>
    LET p == tool.prog
        n == Len(p)
    IN  /\ n >= 1 => p[n].tag = "after" /\ p[n].at.dev = "bridge" /\ p[n].at.reg = "cmd"
        /\ n >= 2 => p[n - 1].tag = ""
        /\ n >= 3 => p[n - 2].tag = "before" /\ p[n - 2].at = p[n].at
        /\ \A i \in 1..(n - 3) : p[i].tag = ""
        /\ n >= 1 => said.verdict = "none"

\* Between its two halves the tool has its own target in CONFIG_ADDR, unless the
\* kernel's access came between them.
OwnTarget == tool.half /\ ~said.torn => addr = Now.at

\* Between its two statuses: the first was not the bridge's, or the flag was up
\* then, or it is down, or an abort has raised it.
RmaKnows ==
  tool.mode = "rma" /\ tool.prog # <<>> /\ Len(tool.prog) <= 2 /\ ~said.torn =>
    \/ said.before = Bits
    \/ /\ tool.prog[Len(tool.prog)].at.bus = bus
       /\ \/ "RMA" \in said.before
          \/ "RMA" \notin space["bridge"]["cmd"]
          \/ said.abort

Inv == /\ TypeOK /\ EarlyQuiet /\ Halves /\ Programs /\ SweepEnds
       /\ OwnTarget /\ BusHome /\ RmaShape /\ RmaKnows /\ RmaSound

\* The types and the configuration space of a state.
LEMMA SpaceTyped == TypeOK <=> /\ SpaceOK(space)
  /\ up \in {"off", "failed", "ready", "scanned"}
  /\ slot \in BOOLEAN
  /\ addr \in Addrs /\ bus \in Buses
  /\ tool \in [mode : {"none", "scan", "sweep", "find", "cfgr", "cfgw", "rma"},
               prog : Seq(Access), half : BOOLEAN]
  /\ said \in [before : SUBSET Bits, torn : BOOLEAN,
               abort : BOOLEAN, cut : BOOLEAN,
               verdict : {"none", "failed", "reach", "no abort"}]
  BY DEF TypeOK, SpaceOK

\* The invariant holds at boot.
LEMMA InitInv == ASSUME PciAssumption, Init PROVE Inv
<1>1. tool = Idle /\ said = Silent /\ bus = 0
  BY DEF Init
<1>2. /\ tool.mode = "none" /\ tool.prog = <<>> /\ tool.half = FALSE
      /\ said.verdict = "none" /\ said.cut = FALSE
  BY <1>1 DEF Idle, Silent
<1>3. TypeOK
  <2>1. SpaceOK(space)
    BY DEF Init, SpaceOK, Present, Regs, RegBits, Bits, CmdBits
  <2>2. addr \in Addrs /\ bus \in Buses
    BY DEF Init, PciAssumption, Addrs, Devs, Present, Regs
  <2>3. /\ tool \in [mode : {"none", "scan", "sweep", "find", "cfgr", "cfgw", "rma"},
                     prog : Seq(Access), half : BOOLEAN]
        /\ said \in [before : SUBSET Bits, torn : BOOLEAN, abort : BOOLEAN, cut : BOOLEAN,
                     verdict : {"none", "failed", "reach", "no abort"}]
    <3>1. <<>> \in Seq(Access) /\ {} \in SUBSET Bits
      OBVIOUS
    <3> QED BY <1>1, <3>1 DEF Idle, Silent
  <2> QED BY <2>1, <2>2, <2>3 DEF Init, TypeOK, SpaceOK
<1>4. Programs
  <2>1. said = [Silent EXCEPT !.cut = said.cut]
    BY <1>1 DEF Silent
  <2>2. \A S : <<>> \in Seq(S)
    OBVIOUS
  <2> QED BY <1>2, <2>1, <2>2 DEF Programs
<1> QED BY <1>1, <1>2, <1>3, <1>4 DEF Inv, EarlyQuiet, Halves, SweepEnds, OwnTarget,
           BusHome, RmaShape, RmaKnows, RmaSound

-----------------------------------------------------------------------------
(* The kernel's steps.                                                        *)

\* Before the tool: the bridge is set up and scanned.
LEMMA BootInv ==
  ASSUME PciAssumption, Inv, PciInit \/ Scan
  PROVE  Inv'
<1>1. /\ tool = Idle /\ said = Silent /\ UNCHANGED <<bus, tool, said>>
  BY DEF PciInit, Scan, Inv, EarlyQuiet
<1>2. tool.mode = "none" /\ tool.prog = <<>> /\ tool.half = FALSE /\ said.verdict = "none"
  BY <1>1 DEF Idle, Silent
<1>3. TypeOK'
  <2>0. SpaceOK(space) /\ "bridge" \in Present /\ "cmd" \in Regs
    BY SpaceTyped DEF Inv, Present, Regs
  <2>1. CASE PciInit /\ up' = "ready"
    <3>1. BridgeCmd(space["bridge"]["cmd"]) \in SUBSET Bits
      BY DEF BridgeCmd, Bits, CmdBits
    <3> DEFINE new == Stored(space["bridge"]["cmd"], "cmd", BridgeCmd(space["bridge"]["cmd"]))
    <3>2. new \in SUBSET Bits /\ new \subseteq RegBits["cmd"]
      <4>1. /\ space["bridge"]["cmd"] \in SUBSET Bits
            /\ space["bridge"]["cmd"] \subseteq RegBits["cmd"]
        BY <2>0 DEF SpaceOK
      <4>2. QED
        BY ONLY <2>0, <3>1, <4>1, StoredType
    <3>3. space' = [space EXCEPT !["bridge"]["cmd"] = new]
      BY <2>0, <2>1 DEF PciInit, SpaceOK
    <3> HIDE DEF new
    <3>4. SpaceOK(space)'
      BY <2>0, <3>2, <3>3 DEF SpaceOK
    <3>5. addr' \in Addrs
      BY <2>1 DEF PciInit, PciAssumption, Addrs, Devs, Present, Regs
    <3> QED BY <2>1, <3>4, <3>5, <1>1 DEF PciInit, Inv, TypeOK, SpaceOK
  <2>3. CASE PciInit /\ up' = "failed"
    BY <2>3, <1>1 DEF PciInit, Inv, TypeOK
  <2>2. CASE Scan
    <3>1. addr' \in Addrs
      BY <2>2 DEF Scan, Addrs, PciAssumption, Devs, Present, Regs
    <3>2. SpaceOK(Latched(addr'))
      BY <2>0, <3>1, CycleTypes
    <3>3. SpaceOK(space)'
      BY <2>2, <3>2 DEF Scan, SpaceOK
    <3> QED BY <2>2, <3>1, <3>3, <1>1 DEF Scan, Inv, TypeOK, SpaceOK
  <2> QED BY <2>1, <2>2, <2>3 DEF PciInit
<1> QED BY <1>1, <1>2, <1>3 DEF Inv, EarlyQuiet, Halves, Programs, SweepEnds, OwnTarget,
           BusHome, RmaShape, RmaKnows, RmaSound

\* An access of the kernel, at a target and with a value it can have.
LEMMA CycleInv ==
  ASSUME Inv, up = "scanned", NEW v \in SUBSET Bits, addr' \in Addrs,
         space' = Latched(addr') \/ space' = Put(addr', v),
         said' = Disturbed(addr'), UNCHANGED <<up, slot, bus, tool>>
  PROVE  Inv'
<1>0. SpaceOK(space) /\ TypeOK
  BY SpaceTyped DEF Inv
<1>1. /\ said' \in [before : SUBSET Bits, torn : BOOLEAN, abort : BOOLEAN, cut : BOOLEAN,
                    verdict : {"none", "failed", "reach", "no abort"}]
      /\ said'.before = said.before /\ said'.verdict = said.verdict /\ said'.cut = said.cut
      /\ said'.torn = (said.torn \/ tool.half) /\ said'.abort = Heard(addr')
  <2>1. /\ said \in [before : SUBSET Bits, torn : BOOLEAN, abort : BOOLEAN, cut : BOOLEAN,
                     verdict : {"none", "failed", "reach", "no abort"}]
        /\ tool.half \in BOOLEAN
    BY <1>0 DEF TypeOK
  <2>2. Heard(addr') \in BOOLEAN
    BY <2>1 DEF Heard
  <2> HIDE DEF Heard
  <2> QED BY <2>1, <2>2 DEF Disturbed
<1>2. /\ SpaceOK(space')
      /\ "RMA" \in space'["bridge"]["cmd"] =>
           "RMA" \in space["bridge"]["cmd"] \/ Aborts(addr')
  BY <1>0, CycleTypes, FlagFromAbort
<1>3. TypeOK'
  BY <1>0, <1>1, <1>2 DEF TypeOK, SpaceOK
<1>4. tool.mode = "none" => said' = [Silent EXCEPT !.cut = said'.cut]
  <2> SUFFICES ASSUME tool.mode = "none" PROVE said' = [Silent EXCEPT !.cut = said'.cut]
    OBVIOUS
  <2>1. said = [Silent EXCEPT !.cut = said.cut] /\ tool.half = FALSE
    BY <1>0 DEF Inv, Programs, Halves, TypeOK
  <2>2. said.torn = FALSE /\ said.abort = FALSE
    BY <2>1 DEF Silent
  <2>3. Heard(addr') = FALSE
    BY <2>2 DEF Heard
  <2> HIDE DEF Heard
  <2>4. said' = said
    BY <2>1, <2>2, <2>3, <1>0 DEF Disturbed, TypeOK
  <2> QED BY <2>1, <2>4
<1>5. Halves' /\ EarlyQuiet'
  BY DEF Inv, Halves, EarlyQuiet, Now
<1>6. Programs' /\ SweepEnds' /\ BusHome' /\ RmaShape'
  BY <1>1, <1>4 DEF Inv, Programs, SweepEnds, BusHome, RmaShape
<1>7. OwnTarget' /\ RmaSound'
  BY <1>0, <1>1 DEF Inv, OwnTarget, RmaSound, TypeOK, Heard
<1>8. RmaKnows'
  BY <1>1, <1>2 DEF Inv, RmaKnows, Heard
<1> QED BY <1>3, <1>5, <1>6, <1>7, <1>8 DEF Inv

\* The kernel's accesses keep the invariant.
LEMMA KernelInv ==
  ASSUME PciAssumption, Inv,
         \/ \E a \in KernelReads : KernelRead(a)
         \/ \E w \in KernelWrites : KernelWrite(w)
  PROVE  Inv'
<1>0. SpaceOK(space) /\ 0 \in Buses
  <2>1. SpaceOK(space)
    BY SpaceTyped DEF Inv
  <2>2. 0 \in Buses
    BY DEF PciAssumption
  <2> QED BY <2>1, <2>2
<1>1. ASSUME NEW a \in KernelReads, KernelRead(a) PROVE Inv'
  <2>1. addr' \in Addrs
    BY <1>0, <1>1 DEF PciAssumption, KernelRead, PciAddr, Addrs
  <2> QED BY <1>1, <2>1, CycleInv DEF KernelRead
<1>2. ASSUME NEW w \in KernelWrites, KernelWrite(w) PROVE Inv'
  <2>1. w.dev \in Devs /\ w.reg \in Regs /\ w.val \in SUBSET Bits
    BY DEF PciAssumption
  <2>2. addr' \in Addrs
    BY <1>0, <1>2, <2>1 DEF KernelWrite, PciAddr, Addrs
  <2>3. Data(addr') \in SUBSET Bits
    BY <1>0, <2>2, CycleTypes
  <2> DEFINE In(b) == Lane[b] \in Lanes(w.where, w.size)
             v == {b \in w.val : In(b)} \cup {b \in Data(addr') : ~In(b)}
  <2>4. v \in SUBSET Bits
    BY <2>1, <2>3
  <2>5. space' = Put(addr', v)
    BY <1>2 DEF KernelWrite
  <2> HIDE DEF v
  <2> QED BY <1>2, <2>2, <2>4, <2>5, CycleInv DEF KernelWrite
<1> QED BY <1>1, <1>2

-----------------------------------------------------------------------------
(* The tool's steps.                                                          *)

\* The accesses an option of the tool asks for.
RmaOption(option) ==
  /\ option \in Seq(Asks) /\ Len(option) = 3
  /\ option[1].tag = "before" /\ option[2].tag = "" /\ option[3].tag = "after"
  /\ option[3].at.dev = "bridge" /\ option[3].at.reg = "cmd"
  /\ option[1].at = option[3].at
OptionOf(mode, option) ==
  \/ mode \in {"scan", "find", "cfgr", "cfgw"} /\ option \in Seq(Plain)
  \/ /\ mode = "sweep" /\ option \in Seq(Single) /\ option # <<>>
     /\ option[Len(option)] = SetBus(bus)
  \/ mode = "rma" /\ RmaOption(option)

\* A run begins with the decisive questions and goes on with its option's.
LEMMA StartInv ==
  ASSUME PciAssumption, Inv, NEW mode, NEW option, Start(mode, option),
         OptionOf(mode, option)
  PROVE  Inv'
<1> DEFINE ask == Decisive(bus)
<1>0. /\ bus \in Buses /\ TypeOK /\ tool.mode = "none" /\ UNCHANGED <<up, slot, space, addr, bus, said>>
      /\ tool' = [mode |-> mode, prog |-> ask \o option, half |-> FALSE]
      /\ mode \in {"scan", "find", "cfgr", "cfgw", "sweep", "rma"} /\ up = "scanned"
  BY DEF Inv, TypeOK, Start, OptionOf
<1>1. /\ ask \in Seq(Plain) /\ ask \in Seq(Single) /\ ask \in Seq(Asks)
      /\ Len(ask) = 3 /\ \A i \in 1..3 : ask[i].tag = ""
  BY <1>0, DecisiveTypes
<1> HIDE DEF ask
<1> DEFINE p == ask \o option
<1>2. /\ said.verdict = "none" /\ said = [Silent EXCEPT !.cut = said.cut]
  BY <1>0 DEF Inv, Programs, Silent
<1>3. /\ said.torn = FALSE /\ said.abort = FALSE
      /\ tool' = [mode |-> mode, prog |-> p, half |-> FALSE]
  BY <1>0, <1>2 DEF Silent
<1>4. Plain \subseteq Access /\ Single \subseteq Access /\ Asks \subseteq Access
  BY DEF Plain, Single, Asks
<1>17. ASSUME NEW S, ask \in Seq(S), option \in Seq(S)
      PROVE  /\ p \in Seq(S) /\ Len(p) = Len(ask) + Len(option)
             /\ \A i \in 1..Len(ask) : p[i] = ask[i]
             /\ \A i \in 1..Len(option) : p[Len(ask) + i] = option[i]
  BY <1>17, JoinSeq
<1> HIDE DEF p
<1>5. /\ mode \in {"scan", "find", "cfgr", "cfgw"} => p \in Seq(Plain)
      /\ mode = "sweep" => p \in Seq(Single)
      /\ mode = "rma" => p \in Seq(Asks)
  <2>1. CASE mode \in {"scan", "find", "cfgr", "cfgw"}
    BY <1>1, <2>1, <1>17 DEF OptionOf
  <2>2. CASE mode = "sweep"
    BY <1>1, <2>2, <1>17 DEF OptionOf
  <2>3. CASE mode = "rma"
    BY <1>1, <2>3, <1>17 DEF OptionOf, RmaOption
  <2> QED BY <1>0, <2>1, <2>2, <2>3
<1>6. p \in Seq(Access)
  <2>1. /\ Seq(Plain) \subseteq Seq(Access) /\ Seq(Single) \subseteq Seq(Access)
        /\ Seq(Asks) \subseteq Seq(Access)
    BY <1>4, SeqWider
  <2> QED BY <1>0, <1>5, <2>1
<1>7. mode = "sweep" => p # <<>> /\ p[Len(p)] = SetBus(bus)
  <2> SUFFICES ASSUME mode = "sweep" PROVE p # <<>> /\ p[Len(p)] = SetBus(bus)
    OBVIOUS
  <2>1. option \in Seq(Single) /\ option # <<>> /\ option[Len(option)] = SetBus(bus)
    BY DEF OptionOf
  <2>2. /\ p \in Seq(Single) /\ Len(p) = 3 + Len(option)
        /\ \A i \in 1..Len(option) : p[3 + i] = option[i]
    BY <1>1, <2>1, <1>17
  <2>3. Len(option) \in Nat /\ Len(option) \in 1..Len(option)
    BY <2>1, LastSeq
  <2>4. p # <<>>
    BY <2>2, <2>3, LastSeq
  <2> QED BY <2>1, <2>2, <2>3, <2>4
<1>8. mode = "rma" =>
        /\ Len(p) = 6 /\ p[4] = option[1] /\ p[5] = option[2] /\ p[6] = option[3]
        /\ \A i \in 1..3 : p[i].tag = ""
  <2> SUFFICES ASSUME mode = "rma"
               PROVE  /\ Len(p) = 6 /\ p[4] = option[1] /\ p[5] = option[2] /\ p[6] = option[3]
                      /\ \A i \in 1..3 : p[i].tag = ""
    OBVIOUS
  <2>1. option \in Seq(Asks) /\ Len(option) = 3
    BY DEF OptionOf, RmaOption
  <2>2. /\ Len(p) = 3 + 3
        /\ \A i \in 1..3 : p[3 + i] = option[i] /\ p[i] = ask[i]
    BY <1>1, <2>1, <1>17
  <2>3. /\ 1 \in 1..3 /\ 2 \in 1..3 /\ 3 \in 1..3
        /\ 3 + 1 = 4 /\ 3 + 2 = 5 /\ 3 + 3 = 6
    OBVIOUS
  <2>4. p[3 + 1] = option[1] /\ p[3 + 2] = option[2] /\ p[3 + 3] = option[3]
    BY <2>2, <2>3, Zenon
  <2>5. \A i \in 1..3 : p[i].tag = ""
    BY <1>1, <2>2
  <2>6. Len(p) = 6
    BY <2>2
  <2>7. p[4] = option[1] /\ p[5] = option[2] /\ p[6] = option[3]
    BY <2>3, <2>4, Zenon
  <2> QED BY <2>5, <2>6, <2>7
<1>9. tool'.mode = mode /\ tool'.prog = p /\ tool'.half = FALSE
  BY <1>3
<1>10. TypeOK'
  <2>1. tool' \in [mode : {"none", "scan", "sweep", "find", "cfgr", "cfgw", "rma"},
                   prog : Seq(Access), half : BOOLEAN]
    <3>1. mode \in {"none", "scan", "sweep", "find", "cfgr", "cfgw", "rma"}
      BY <1>0
    <3> HIDE DEF p
    <3> QED BY <3>1, <1>3, <1>6
  <2> QED BY <1>0, <2>1 DEF TypeOK
<1>11. Programs'
  BY <1>0, <1>2, <1>5, <1>9 DEF Programs
<1>12. SweepEnds'
  <2>1. ~said.cut => bus = 0
    BY <1>0 DEF Inv, BusHome
  <2> QED BY <1>0, <1>7, <1>9, <2>1 DEF SweepEnds
<1>13. RmaShape'
  <2> SUFFICES ASSUME mode = "rma" PROVE RmaShape'
    BY <1>9 DEF RmaShape
  <2>1. /\ option[1].tag = "before" /\ option[2].tag = "" /\ option[3].tag = "after"
        /\ option[3].at.dev = "bridge" /\ option[3].at.reg = "cmd"
        /\ option[1].at = option[3].at
    BY DEF OptionOf, RmaOption
  <2>2. \A i \in 1..3 : p[i].tag = ""
    BY <1>8
  <2>3. /\ Len(p) = 6 /\ p[6].tag = "after" /\ p[6].at.dev = "bridge" /\ p[6].at.reg = "cmd"
        /\ p[5].tag = "" /\ p[4].tag = "before" /\ p[4].at = p[6].at
    BY <1>8, <2>1
  <2>4. said'.verdict = "none" /\ tool'.prog = p
    BY <1>0, <1>2, <1>9
  <2>5. /\ Len(tool'.prog) = 6 /\ tool'.prog[6] = p[6] /\ tool'.prog[5] = p[5]
        /\ tool'.prog[4] = p[4] /\ \A i \in 1..3 : tool'.prog[i].tag = ""
    BY <2>2, <2>3, <2>4
  <2> DEFINE q == tool'.prog
  <2>6. q[6].tag = "after" /\ q[6].at.dev = "bridge" /\ q[6].at.reg = "cmd"
        /\ q[5].tag = "" /\ q[4].tag = "before" /\ q[4].at = q[6].at
    BY <2>3, <2>5
  <2>7. Len(q) = 6 /\ \A i \in 1..3 : q[i].tag = ""
    BY <2>5
  <2> HIDE DEF q
  <2> DEFINE n == Len(q)
  <2>8. n = 6 /\ n - 1 = 5 /\ n - 2 = 4 /\ n - 3 = 3
    <3>1. n = 6
      BY <2>7
    <3> HIDE DEF n
    <3> QED BY <3>1
  <2> HIDE DEF n
  <2>9. /\ n >= 1 => q[n].tag = "after" /\ q[n].at.dev = "bridge" /\ q[n].at.reg = "cmd"
        /\ n >= 2 => q[n - 1].tag = ""
        /\ n >= 3 => q[n - 2].tag = "before" /\ q[n - 2].at = q[n].at
        /\ \A i \in 1..(n - 3) : q[i].tag = ""
    BY <2>6, <2>7, <2>8
  <2> QED BY <2>4, <2>9 DEF RmaShape, q, n
<1>14. RmaKnows'
  <2> SUFFICES ASSUME mode = "rma" PROVE RmaKnows'
    BY <1>9 DEF RmaKnows
  <2>1. Len(p) = 6
    BY <1>8
  <2>2. ~(Len(tool'.prog) <= 2)
    BY <1>9, <2>1
  <2> QED BY <2>2 DEF RmaKnows
<1>15. EarlyQuiet' /\ Halves' /\ OwnTarget' /\ RmaSound'
  BY <1>0, <1>2, <1>9 DEF EarlyQuiet, Halves, OwnTarget, RmaSound
<1>16. BusHome'
  BY <1>0, <1>9 DEF Inv, BusHome
<1> QED BY <1>10, <1>11, <1>12, <1>13, <1>14, <1>15, <1>16 DEF Inv

\* Every way to start it.
LEMMA StartsInv ==
  ASSUME PciAssumption, Inv,
         \/ StartScan \/ StartSweep \/ StartFind
         \/ \E a \in ToolReads : StartCfgr(a)
         \/ \E w \in ToolWrites : StartCfgw(w)
         \/ \E b \in Buses, d \in Devs : StartRma(b, d)
  PROVE  Inv'
<1>0. /\ bus \in Buses /\ "id" \in Regs /\ "cmd" \in Regs
      /\ "bridge" \in Devs /\ "card" \in Devs /\ ToolCmd \in SUBSET Bits
  BY DEF Inv, TypeOK, Regs, Devs, Present, ToolCmd, Bits, CmdBits
<1>1. CASE StartScan
  BY <1>0, <1>1, WalkTypes, StartInv DEF StartScan, OptionOf
<1>2. CASE StartSweep
  BY <1>0, <1>2, WalkTypes, StartInv DEF StartSweep, OptionOf
<1>3. CASE StartFind
  <2> DEFINE x == Wr(bus, "bridge", "cmd", ToolCmd)
             y == Rd(bus, "card", "id")
  <2>1. x \in Plain /\ y \in Plain
    BY <1>0, AccessTypes
  <2>2. Start("find", <<x, y>>)
    BY <1>3 DEF StartFind
  <2> HIDE DEF x, y
  <2>3. <<x, y>> \in Seq(Plain)
    BY <2>1, Tuples
  <2> QED BY <2>2, <2>3, StartInv DEF OptionOf
<1>4. ASSUME NEW a \in ToolReads, StartCfgr(a) PROVE Inv'
  <2> DEFINE x == Rd(a.bus, a.dev, a.reg)
  <2>0. a.bus \in Buses /\ a.dev \in Devs /\ a.reg \in Regs
    BY DEF PciAssumption, Addrs
  <2>1. x \in Plain
    BY <2>0, AccessTypes
  <2>2. Start("cfgr", <<x>>)
    BY <1>4 DEF StartCfgr
  <2> HIDE DEF x
  <2>3. <<x>> \in Seq(Plain)
    BY <2>1, Tuples
  <2> QED BY <2>2, <2>3, StartInv DEF OptionOf
<1>5. ASSUME NEW w \in ToolWrites, StartCfgw(w) PROVE Inv'
  <2> DEFINE x == Rd(w.bus, w.dev, w.reg)
             y == Wr(w.bus, w.dev, w.reg, w.val)
  <2>0. w.bus \in Buses /\ w.dev \in Devs /\ w.reg \in Regs /\ w.val \in SUBSET Bits
    BY DEF PciAssumption
  <2>1. x \in Plain /\ y \in Plain
    BY <2>0, AccessTypes
  <2>2. Start("cfgw", <<x, y, x>>)
    BY <1>5 DEF StartCfgw
  <2> HIDE DEF x, y
  <2>3. <<x, y, x>> \in Seq(Plain)
    BY <2>1, Tuples
  <2> QED BY <2>2, <2>3, StartInv DEF OptionOf
<1>6. ASSUME NEW b \in Buses, NEW d \in Devs, StartRma(b, d) PROVE Inv'
  <2> DEFINE x == Status(b, "before")
             y == Rd(b, d, "id")
             z == Status(b, "after")
             p == <<x, y, z>>
  <2>1. x \in Asks /\ y \in Asks /\ z \in Asks
    BY <1>0, AccessTypes
  <2>2. /\ x.tag = "before" /\ y.tag = "" /\ z.tag = "after"
        /\ z.at.dev = "bridge" /\ z.at.reg = "cmd" /\ x.at = z.at
    BY DEF Status, Rd, Op
  <2>3. Start("rma", p)
    BY <1>6 DEF StartRma
  <2> HIDE DEF x, y, z
  <2>4. p \in Seq(Asks) /\ Len(p) = 3 /\ p[1] = x /\ p[2] = y /\ p[3] = z
    BY <2>1, Tuples
  <2> HIDE DEF p
  <2> QED BY <2>2, <2>3, <2>4, StartInv DEF OptionOf, RmaOption
<1> QED BY <1>1, <1>2, <1>3, <1>4, <1>5, <1>6

\* Counting from one.
LEMMA OneOrMore == \A n \in Nat : n >= 1 => n = 1 \/ n > 1
  OBVIOUS

\* What is known of a running tool: the access it is at, and what kinds it can be.
LEMMA RunningFacts ==
  ASSUME Inv, Running
  PROVE  /\ Now \in Access /\ Now = tool.prog[1]
         /\ Len(tool.prog) \in Nat /\ Len(tool.prog) >= 1
         /\ tool.mode \notin {"sweep", "rma"} => Now \in Plain
         /\ tool.mode = "sweep" => Now \in Single
         /\ tool.mode = "rma" => Now \in Asks
         /\ up = "scanned"
<1>1. /\ tool.prog \in Seq(Access) /\ tool.prog # <<>> /\ tool.mode # "none"
  BY DEF Inv, TypeOK, Running
<1>2. \A S : \A q \in Seq(S) : q # <<>> =>
        Head(q) \in S /\ Head(q) = q[1] /\ Len(q) \in Nat /\ Len(q) >= 1
  OBVIOUS
<1>3. up = "scanned"
  BY <1>1 DEF Inv, EarlyQuiet, Idle
<1> QED BY <1>1, <1>2, <1>3 DEF Inv, Programs, Now

\* The first half of an access.
LEMMA ToolAddrInv ==
  ASSUME Inv, ToolAddr PROVE Inv'
<1>0. /\ Running /\ ~tool.half /\ Now.kind # "bus" /\ addr' = Now.at
      /\ tool' = [tool EXCEPT !.half = TRUE] /\ UNCHANGED <<up, slot, space, bus, said>>
      /\ TypeOK
  BY DEF ToolAddr, Inv
<1>1. /\ tool'.mode = tool.mode /\ tool'.prog = tool.prog /\ tool'.half = TRUE
      /\ tool' \in [mode : {"none", "scan", "sweep", "find", "cfgr", "cfgw", "rma"},
                    prog : Seq(Access), half : BOOLEAN]
  BY <1>0 DEF TypeOK
<1>2. Now \in Access /\ Now' = Now /\ up = "scanned"
  BY <1>0, <1>1, RunningFacts DEF Now
<1>3. addr' \in Addrs
  BY <1>0, <1>2 DEF Access
<1>4. TypeOK'
  BY <1>0, <1>1, <1>3 DEF TypeOK
<1>5. EarlyQuiet' /\ Halves' /\ OwnTarget'
  BY <1>0, <1>1, <1>2 DEF Running, EarlyQuiet, Halves, OwnTarget
<1>6. Programs' /\ SweepEnds' /\ BusHome' /\ RmaSound'
  BY <1>0, <1>1 DEF Inv, Programs, SweepEnds, BusHome, RmaSound
<1>7. RmaShape' /\ RmaKnows'
  BY <1>0, <1>1 DEF Inv, RmaShape, RmaKnows
<1> QED BY <1>4, <1>5, <1>6, <1>7 DEF Inv

\* What is left after a step of the tool is still of its kind.
LEMMA RestKept ==
  ASSUME Inv, Running, NEW n \in Nat, n >= 1,
         tool.mode \in {"sweep", "rma"} => n = 1
  PROVE  LET q == Rest(n)
         IN  /\ q \in Seq(Access)
             /\ tool.mode \notin {"sweep", "rma"} => q \in Seq(Plain)
             /\ tool.mode = "sweep" => q \in Seq(Single)
             /\ tool.mode = "rma" => q \in Seq(Asks)
             /\ tool.mode \in {"sweep", "rma"} =>
                  /\ Len(q) = Len(tool.prog) - 1
                  /\ \A k \in 1..(Len(tool.prog) - 1) : q[k] = tool.prog[1 + k]
<1>1. /\ tool.prog \in Seq(Access)
      /\ tool.mode \notin {"sweep", "rma"} => tool.prog \in Seq(Plain)
      /\ tool.mode = "sweep" => tool.prog \in Seq(Single)
      /\ tool.mode = "rma" => tool.prog \in Seq(Asks)
  BY DEF Inv, TypeOK, Programs
<1>2. Len(tool.prog) \in Nat /\ Len(tool.prog) >= 1
  BY RunningFacts
<1>3. /\ Rest(n) \in Seq(Access)
      /\ tool.mode \notin {"sweep", "rma"} => Rest(n) \in Seq(Plain)
      /\ tool.mode = "sweep" => Rest(n) \in Seq(Single)
      /\ tool.mode = "rma" => Rest(n) \in Seq(Asks)
  BY <1>1, RestSeq DEF Rest
<1>4. ASSUME n = 1
      PROVE  /\ Len(Rest(n)) = Len(tool.prog) - 1
             /\ \A k \in 1..(Len(tool.prog) - 1) : Rest(n)[k] = tool.prog[1 + k]
  <2>1. n <= Len(tool.prog)
    BY <1>2, <1>4
  <2> QED BY <1>1, <1>4, <2>1, RestParts DEF Rest
<1> QED BY <1>3, <1>4

\* Where in --rma the tool is says what the answer to its access is for.
LEMMA RmaNow ==
  ASSUME Inv, Running, tool.mode = "rma"
  PROVE  /\ said.verdict = "none" /\ Now.kind = "read" /\ Now.more = 0
         /\ Len(tool.prog) >= 4 => Now.tag = ""
         /\ Len(tool.prog) = 3 => /\ Now.tag = "before"
                                  /\ Now.at = tool.prog[Len(tool.prog)].at
                                  /\ Now.at.dev = "bridge" /\ Now.at.reg = "cmd"
         /\ Len(tool.prog) = 2 => Now.tag = ""
         /\ Len(tool.prog) = 1 => /\ Now.tag = "after"
                                  /\ Now.at = tool.prog[Len(tool.prog)].at
                                  /\ Now.at.dev = "bridge" /\ Now.at.reg = "cmd"
<1> DEFINE p == tool.prog
           n == Len(p)
<1>1. /\ Now = p[1] /\ n \in Nat /\ n >= 1 /\ Now \in Asks
  BY RunningFacts
<1>2. /\ p[n].tag = "after" /\ p[n].at.dev = "bridge" /\ p[n].at.reg = "cmd"
      /\ n >= 2 => p[n - 1].tag = ""
      /\ n >= 3 => p[n - 2].tag = "before" /\ p[n - 2].at = p[n].at
      /\ \A i \in 1..(n - 3) : p[i].tag = ""
      /\ said.verdict = "none"
  BY <1>1 DEF Inv, RmaShape
<1> HIDE DEF p, n
<1>3. n >= 4 => 1 \in 1..(n - 3)
  BY <1>1
<1>4. /\ n >= 4 => Now.tag = ""
      /\ n = 3 => Now.tag = "before" /\ Now.at = p[n].at
                  /\ Now.at.dev = "bridge" /\ Now.at.reg = "cmd"
      /\ n = 2 => Now.tag = ""
      /\ n = 1 => Now.tag = "after" /\ Now.at = p[n].at
                  /\ Now.at.dev = "bridge" /\ Now.at.reg = "cmd"
  <2>1. n >= 4 => p[1].tag = ""
    BY <1>2, <1>3
  <2>2. ASSUME n = 3
        PROVE  p[1].tag = "before" /\ p[1].at = p[n].at
               /\ p[1].at.dev = "bridge" /\ p[1].at.reg = "cmd"
    <3>1. n - 2 = 1 /\ n >= 3
      BY <2>2
    <3> QED BY <3>1, <1>1, <1>2
  <2>3. ASSUME n = 2 PROVE p[1].tag = ""
    <3>1. n - 1 = 1 /\ n >= 2
      BY <2>3
    <3> QED BY <3>1, <1>2
  <2>4. ASSUME n = 1
        PROVE  p[1].tag = "after" /\ p[1].at.dev = "bridge" /\ p[1].at.reg = "cmd"
    BY <2>4, <1>2
  <2> QED BY <1>1, <2>1, <2>2, <2>3, <2>4
<1> QED BY <1>1, <1>2, <1>4 DEF Asks, p, n

\* The shape of --rma without its first access.
LEMMA RmaRest ==
  ASSUME Inv, Running, tool.mode = "rma",
         NEW q, Len(q) = Len(tool.prog) - 1,
         \A k \in 1..(Len(tool.prog) - 1) : q[k] = tool.prog[1 + k]
  PROVE  LET n == Len(q)
         IN  /\ n >= 1 => /\ q[n].tag = "after" /\ q[n].at.dev = "bridge"
                          /\ q[n].at.reg = "cmd" /\ q[n] = tool.prog[Len(tool.prog)]
             /\ n >= 2 => q[n - 1].tag = ""
             /\ n >= 3 => q[n - 2].tag = "before" /\ q[n - 2].at = q[n].at
             /\ \A i \in 1..(n - 3) : q[i].tag = ""
<1> DEFINE p == tool.prog
           m == Len(p)
           n == Len(q)
<1>1. m \in Nat /\ m >= 1
  BY RunningFacts
<1>2. /\ p[m].tag = "after" /\ p[m].at.dev = "bridge" /\ p[m].at.reg = "cmd"
      /\ m >= 2 => p[m - 1].tag = ""
      /\ m >= 3 => p[m - 2].tag = "before" /\ p[m - 2].at = p[m].at
      /\ \A i \in 1..(m - 3) : p[i].tag = ""
  BY <1>1 DEF Inv, RmaShape
<1>3. n = m - 1 /\ \A k \in 1..(m - 1) : q[k] = p[1 + k]
  OBVIOUS
<1> HIDE DEF p, m, n
<1>4. ASSUME n >= 1 PROVE q[n] = p[m]
  BY <1>1, <1>3, <1>4
<1>5. ASSUME n >= 2 PROVE q[n - 1] = p[m - 1]
  BY <1>1, <1>3, <1>5
<1>6. ASSUME n >= 3 PROVE q[n - 2] = p[m - 2]
  BY <1>1, <1>3, <1>6
<1>7. ASSUME NEW i \in 1..(n - 3) PROVE q[i].tag = ""
  <2>1. i \in 1..(m - 1) /\ 1 + i \in 1..(m - 3)
    BY <1>1, <1>3
  <2> QED BY <1>2, <1>3, <2>1
<1>8. m >= 1 /\ (n >= 2 => m >= 2) /\ (n >= 3 => m >= 3 /\ n >= 1)
  BY <1>1, <1>3
<1>9. /\ n >= 1 => /\ q[n].tag = "after" /\ q[n].at.dev = "bridge"
                   /\ q[n].at.reg = "cmd" /\ q[n] = p[m]
      /\ n >= 2 => q[n - 1].tag = ""
      /\ n >= 3 => q[n - 2].tag = "before" /\ q[n - 2].at = q[n].at
  BY <1>2, <1>4, <1>5, <1>6, <1>8
<1> QED BY <1>7, <1>9 DEF p, m, n

\* What reading a register does to the tool's record and its history.
LEMMA ToolReadFields ==
  ASSUME Inv, ToolRead
  PROVE  /\ Running /\ tool.half /\ Now.kind = "read" /\ Data(addr) \in SUBSET Bits
         /\ space' = Latched(addr) /\ SpaceOK(space') /\ UNCHANGED <<up, slot, addr, bus>>
         /\ tool'.mode = tool.mode /\ tool'.half = FALSE
         /\ \E n \in Nat : /\ n >= 1 /\ (Now.more = 0 => n = 1)
                           /\ tool'.prog = Rest(n)
         /\ said'.before = IF Now.tag = "before" THEN Data(addr) ELSE said.before
         /\ said'.abort = IF Now.tag = "before" THEN FALSE ELSE Heard(addr)
         /\ said'.verdict = IF Now.tag = "after" THEN Verdict(said.before, Data(addr))
                                                 ELSE said.verdict
         /\ said'.torn = said.torn /\ said'.cut = said.cut
<1>0. /\ SpaceOK(space) /\ TypeOK /\ addr \in Addrs
  BY SpaceTyped DEF Inv
<1>1. Data(addr) \in SUBSET Bits /\ SpaceOK(Latched(addr))
  BY <1>0, CycleTypes
<1> DEFINE v == Data(addr)
           n == 1 + (IF v \in Absent THEN Now.more ELSE 0)
<1>2. /\ Running /\ tool.half /\ Now.kind = "read"
      /\ space' = Latched(addr) /\ UNCHANGED <<up, slot, addr, bus>>
      /\ said' = [said EXCEPT
                    !.before = IF Now.tag = "before" THEN v ELSE @,
                    !.abort = IF Now.tag = "before" THEN FALSE ELSE Heard(addr),
                    !.verdict = IF Now.tag = "after" THEN Verdict(said.before, v) ELSE @]
      /\ tool' = [tool EXCEPT !.half = FALSE, !.prog = Rest(n)]
  BY DEF ToolRead
<1>3. Now \in Access
  BY <1>2, RunningFacts
<1>4. n \in Nat /\ n >= 1 /\ (Now.more = 0 => n = 1)
  <2>1. Now.more \in 0..3
    BY <1>3 DEF Access
  <2> HIDE DEF v
  <2> QED BY <2>1
<1> HIDE DEF v, n
<1>5. tool'.mode = tool.mode /\ tool'.half = FALSE /\ tool'.prog = Rest(n)
  BY <1>0, <1>2 DEF TypeOK
<1>6. /\ said'.before = IF Now.tag = "before" THEN v ELSE said.before
      /\ said'.abort = IF Now.tag = "before" THEN FALSE ELSE Heard(addr)
      /\ said'.verdict = IF Now.tag = "after" THEN Verdict(said.before, v) ELSE said.verdict
      /\ said'.torn = said.torn /\ said'.cut = said.cut
  BY <1>0, <1>2 DEF TypeOK
<1> QED BY <1>1, <1>2, <1>4, <1>5, <1>6 DEF v

\* When --rma says that cycles reach the bus.
LEMMA VerdictReach ==
  ASSUME NEW b \in SUBSET Bits, NEW a \in SUBSET Bits, Verdict(b, a) = "reach"
  PROVE  b # Bits /\ "RMA" \notin b /\ "RMA" \in a
<1>1. CASE b = Bits
  BY <1>1 DEF Verdict
<1>2. CASE b # Bits
  BY <1>2 DEF Verdict
<1> QED BY <1>1, <1>2

\* The second half of a read keeps the invariant.
LEMMA ToolReadInv ==
  ASSUME Inv, ToolRead PROVE Inv'
<1>0. /\ Running /\ tool.half /\ Now.kind = "read" /\ Data(addr) \in SUBSET Bits
      /\ space' = Latched(addr) /\ SpaceOK(space') /\ UNCHANGED <<up, slot, addr, bus>>
      /\ tool'.mode = tool.mode /\ tool'.half = FALSE
  BY ToolReadFields
<1>13. /\ said'.before = IF Now.tag = "before" THEN Data(addr) ELSE said.before
       /\ said'.abort = IF Now.tag = "before" THEN FALSE ELSE Heard(addr)
       /\ said'.verdict = IF Now.tag = "after" THEN Verdict(said.before, Data(addr))
                                               ELSE said.verdict
       /\ said'.torn = said.torn /\ said'.cut = said.cut
  BY ToolReadFields
<1>1. PICK n \in Nat : n >= 1 /\ (Now.more = 0 => n = 1) /\ tool'.prog = Rest(n)
  BY ToolReadFields
<1>2. /\ Now \in Access /\ Now = tool.prog[1] /\ up = "scanned" /\ tool.mode # "none"
      /\ Len(tool.prog) \in Nat /\ Len(tool.prog) >= 1
      /\ tool.mode \notin {"sweep", "rma"} => Now \in Plain
      /\ tool.mode = "sweep" => Now \in Single
      /\ tool.mode = "rma" => Now \in Asks
  BY <1>0, RunningFacts DEF Running
<1>11. Len(tool.prog) \in Nat /\ Len(tool.prog) >= 1
  BY <1>2, Zenon
<1>12. Len(tool.prog) = 1 \/ Len(tool.prog) > 1
  BY <1>11, OneOrMore, Zenon
<1> DEFINE q == tool'.prog
<1>3. /\ q \in Seq(Access)
      /\ tool.mode \notin {"sweep", "rma"} => q \in Seq(Plain)
      /\ tool.mode = "sweep" => q \in Seq(Single)
      /\ tool.mode = "rma" => q \in Seq(Asks)
      /\ tool.mode \in {"sweep", "rma"} =>
           /\ Len(q) = Len(tool.prog) - 1
           /\ \A k \in 1..(Len(tool.prog) - 1) : q[k] = tool.prog[1 + k]
  <2>1. tool.mode \in {"sweep", "rma"} => n = 1
    BY <1>1, <1>2 DEF Single, Asks
  <2> QED BY <1>0, <1>1, <2>1, RestKept
<1> HIDE DEF q
<1>4. tool.mode # "rma" => Now.tag = ""
  BY <1>2 DEF Plain, Single
<1>5. EarlyQuiet' /\ Halves' /\ OwnTarget' /\ BusHome'
  BY <1>0, <1>13, <1>2 DEF Inv, EarlyQuiet, Halves, OwnTarget, BusHome
<1>6. Programs'
  BY <1>0, <1>13, <1>2, <1>3, <1>4 DEF Inv, Programs, q
<1>7. SweepEnds'
  <2> SUFFICES ASSUME tool.mode = "sweep", ~said.cut
               PROVE  IF q = <<>> THEN bus = 0 ELSE q[Len(q)] = SetBus(0)
    BY <1>0, <1>13 DEF SweepEnds, q
  <2>1. tool.prog # <<>> /\ tool.prog[Len(tool.prog)] = SetBus(0)
    BY <1>0 DEF Inv, SweepEnds, Running
  <2>2. Len(q) = Len(tool.prog) - 1 /\ \A k \in 1..(Len(tool.prog) - 1) : q[k] = tool.prog[1 + k]
    BY <1>3
  <2>3. CASE Len(tool.prog) = 1
    <3>1. Now = SetBus(0)
      BY <1>2, <2>1, <2>3
    <3> QED BY <1>0, <3>1 DEF SetBus, Op
  <2>4. CASE Len(tool.prog) > 1
    <3>1. /\ Len(tool.prog) - 1 \in 1..(Len(tool.prog) - 1)
          /\ 1 + (Len(tool.prog) - 1) = Len(tool.prog)
      BY <1>2, <2>4
    <3>2. q[Len(q)] = SetBus(0)
      BY <2>1, <2>2, <3>1
    <3>3. q # <<>>
      BY <1>3, <2>2, <2>4, <1>2, LastSeq
    <3> QED BY <3>2, <3>3
  <2> QED BY <1>12, <2>3, <2>4
<1>8. ASSUME tool.mode # "rma" PROVE said'.verdict = "none" /\ RmaShape' /\ RmaKnows' /\ RmaSound'
  BY <1>0, <1>13, <1>4, <1>8 DEF Inv, Programs, RmaShape, RmaKnows, RmaSound
<1>9. ASSUME tool.mode = "rma"
      PROVE  RmaShape' /\ RmaKnows' /\ RmaSound' /\ said'.verdict \in {"none", "failed", "reach", "no abort"}
  <2> DEFINE p == tool.prog
             m == Len(p)
             k == Len(q)
  <2>0. m \in Nat /\ m >= 1 /\ k = m - 1
    BY <1>11, <1>3, <1>9
  <2>23. q \in Seq(Asks)
    BY <1>3, <1>9
  <2>1. /\ said.verdict = "none"
        /\ m >= 4 => Now.tag = ""
        /\ m = 3 => /\ Now.tag = "before" /\ Now.at = p[m].at
                    /\ Now.at.dev = "bridge" /\ Now.at.reg = "cmd"
        /\ m = 2 => Now.tag = ""
        /\ m = 1 => /\ Now.tag = "after" /\ Now.at = p[m].at
                    /\ Now.at.dev = "bridge" /\ Now.at.reg = "cmd"
    BY <1>0, <1>9, RmaNow
  <2>2. /\ k >= 1 => /\ q[k].tag = "after" /\ q[k].at.dev = "bridge"
                     /\ q[k].at.reg = "cmd" /\ q[k] = p[m]
        /\ k >= 2 => q[k - 1].tag = ""
        /\ k >= 3 => q[k - 2].tag = "before" /\ q[k - 2].at = q[k].at
        /\ \A i \in 1..(k - 3) : q[i].tag = ""
    BY <1>0, <1>3, <1>9, RmaRest
  <2>20. q = <<>> <=> k = 0
    BY <2>23, LastSeq
  <2> HIDE DEF p, m, k
  <2>21. /\ m = 1 \/ m = 2 \/ m = 3 \/ m >= 4
         /\ (k >= 1 <=> m # 1) /\ (k = 2 => m = 3) /\ (k = 1 => m = 2)
         /\ (k = 2 => k >= 1) /\ (k = 1 => k >= 1)
         /\ (k # 0 /\ k <= 2 => k = 1 \/ k = 2)
         /\ (m = 1 => m <= 2) /\ (m = 2 => m <= 2)
    BY <2>0
  <2>22. Now.tag = "after" <=> m = 1
    BY <2>1, <2>21
  <2>3. k >= 1 => said'.verdict = "none"
    BY <1>13, <2>1, <2>21, <2>22
  <2>4. RmaShape'
    BY <2>2, <2>3 DEF RmaShape, q, k
  <2>5. ~said.torn => addr = Now.at
    BY <1>0, <1>13 DEF Inv, OwnTarget
  <2>6. SpaceOK(space) /\ addr \in Addrs /\ {} \in SUBSET Bits
    BY SpaceTyped DEF Inv
  <2>7. /\ "RMA" \in space'["bridge"]["cmd"] =>
             "RMA" \in space["bridge"]["cmd"] \/ Aborts(addr)
    BY <1>0, <2>6, FlagFromAbort
  <2>8. ASSUME Reaches(addr), addr.dev = "bridge", addr.reg = "cmd"
        PROVE  /\ addr.bus = bus /\ Data(addr) = space["bridge"]["cmd"]
               /\ ~Aborts(addr)
    BY <2>8 DEF Reaches, Data, Aborts
  <2>9. ~Reaches(addr) => Data(addr) = Bits
    BY DEF Data
  <2>10. RmaKnows'
    <3> SUFFICES ASSUME k = 1 \/ k = 2, ~said.torn
                 PROVE  \/ said'.before = Bits
                        \/ /\ q[k].at.bus = bus
                           /\ \/ "RMA" \in said'.before
                              \/ "RMA" \notin space'["bridge"]["cmd"]
                              \/ said'.abort
      <4>1. q # <<>> /\ k <= 2 => k = 1 \/ k = 2
        BY <2>20, <2>21
      <4> QED BY <1>0, <1>13, <4>1 DEF RmaKnows, q, k
    <3>1. CASE k = 2
      <4>1. /\ m = 3 /\ said'.before = Data(addr) /\ addr = p[m].at /\ q[k] = p[m]
            /\ addr.dev = "bridge" /\ addr.reg = "cmd"
        BY <1>13, <2>1, <2>2, <2>5, <2>21, <3>1
      <4> QED BY <4>1, <2>7, <2>8, <2>9
    <3>2. CASE k = 1
      <4>1. /\ m = 2 /\ said'.before = said.before /\ said'.abort = Heard(addr)
            /\ q[k] = p[m]
        BY <1>13, <2>1, <2>2, <2>21, <3>2
      <4>2. p # <<>> /\ m <= 2
        BY <1>0, <2>21, <4>1 DEF Running, p
      <4>3. \/ said.before = Bits
            \/ /\ p[m].at.bus = bus
               /\ \/ "RMA" \in said.before
                  \/ "RMA" \notin space["bridge"]["cmd"]
                  \/ said.abort
        BY <1>9, <4>2 DEF Inv, RmaKnows, p, m
      <4> QED BY <1>9, <4>1, <4>3, <2>7 DEF Heard
    <3> QED BY <3>1, <3>2
  <2>11. RmaSound'
    <3> SUFFICES ASSUME said'.verdict = "reach", ~said.torn PROVE said'.abort
      BY <1>13 DEF RmaSound
    <3>1. Now.tag = "after" /\ m = 1 /\ Verdict(said.before, Data(addr)) = "reach"
      BY <1>13, <2>1, <2>22
    <3>2. said.before # Bits /\ "RMA" \notin said.before /\ "RMA" \in Data(addr)
      
      <4>1. said.before \in SUBSET Bits
        BY DEF Inv, TypeOK
      <4> QED BY <1>0, <3>1, <4>1, VerdictReach
    <3>3. p # <<>> /\ m <= 2
      BY <1>0, <2>21, <3>1 DEF Running, p
    <3>4. /\ p[m].at.bus = bus
          /\ "RMA" \notin space["bridge"]["cmd"] \/ said.abort
      BY <1>9, <3>2, <3>3 DEF Inv, RmaKnows, p, m
    <3>5. /\ addr.bus = bus /\ addr.dev = "bridge" /\ addr.reg = "cmd"
      BY <2>1, <2>5, <3>1, <3>4
    <3>6. Data(addr) = space["bridge"]["cmd"]
      BY <2>8, <3>5 DEF Reaches
    <3>7. said.abort
      BY <3>2, <3>4, <3>6
    <3> QED BY <1>13, <3>1, <3>7 DEF Heard
  <2>12. said'.verdict \in {"none", "failed", "reach", "no abort"}
    BY <1>13, <2>1 DEF Verdict
  <2> QED BY <2>4, <2>10, <2>11, <2>12
<1>10. TypeOK'
  <2>0. /\ TypeOK /\ said'.verdict \in {"none", "failed", "reach", "no abort"}
        /\ Heard(addr) \in BOOLEAN
    BY <1>8, <1>9 DEF Inv, Heard, TypeOK
  <2>1. tool' \in [mode : {"none", "scan", "sweep", "find", "cfgr", "cfgw", "rma"},
                   prog : Seq(Access), half : BOOLEAN]
    <3>1. tool' = [tool EXCEPT !.half = FALSE, !.prog = tool'.prog]
      BY <2>0 DEF ToolRead, TypeOK
    <3> QED BY <1>3, <2>0, <3>1 DEF TypeOK, q
  <2>2. said' \in [before : SUBSET Bits, torn : BOOLEAN, abort : BOOLEAN, cut : BOOLEAN,
                   verdict : {"none", "failed", "reach", "no abort"}]
    <3>1. said' = [said EXCEPT !.before = said'.before, !.abort = said'.abort,
                               !.verdict = said'.verdict]
      BY <2>0 DEF ToolRead, TypeOK
    <3>2. said'.before \in SUBSET Bits /\ said'.abort \in BOOLEAN
      BY <1>0, <1>13, <2>0 DEF TypeOK
    <3> QED BY <2>0, <3>1, <3>2 DEF TypeOK
  <2> QED BY <1>0, <2>0, <2>1, <2>2 DEF TypeOK, SpaceOK
<1> QED BY <1>5, <1>6, <1>7, <1>8, <1>9, <1>10 DEF Inv

\* The second half of a write: --rma makes none.
LEMMA ToolWriteInv ==
  ASSUME Inv, ToolWrite PROVE Inv'
<1>0. /\ Running /\ tool.half /\ Now.kind = "write" /\ space' = Put(addr, Now.val)
      /\ said' = [said EXCEPT !.abort = Heard(addr)]
      /\ tool' = [tool EXCEPT !.half = FALSE, !.prog = Rest(1)]
      /\ UNCHANGED <<up, slot, addr, bus>>
      /\ TypeOK /\ SpaceOK(space) /\ addr \in Addrs
  BY SpaceTyped DEF ToolWrite, Inv
<1>1. /\ Now \in Access /\ Now = tool.prog[1] /\ up = "scanned" /\ tool.mode # "none"
      /\ tool.mode # "rma"
  BY <1>0, RunningFacts DEF Running, Asks
<1>2. Len(tool.prog) \in Nat /\ Len(tool.prog) >= 1
  BY <1>0, RunningFacts
<1>3. Len(tool.prog) = 1 \/ Len(tool.prog) > 1
  BY <1>2, OneOrMore, Zenon
<1> DEFINE q == Rest(1)
<1>4. /\ q \in Seq(Access)
      /\ tool.mode \notin {"sweep", "rma"} => q \in Seq(Plain)
      /\ tool.mode = "sweep" =>
           /\ q \in Seq(Single) /\ Len(q) = Len(tool.prog) - 1
           /\ \A k \in 1..(Len(tool.prog) - 1) : q[k] = tool.prog[1 + k]
  BY <1>0, RestKept
<1> HIDE DEF q
<1>5. /\ tool'.mode = tool.mode /\ tool'.prog = q /\ tool'.half = FALSE
      /\ tool' \in [mode : {"none", "scan", "sweep", "find", "cfgr", "cfgw", "rma"},
                    prog : Seq(Access), half : BOOLEAN]
  BY <1>0, <1>4 DEF TypeOK, q
<1>6. /\ said'.verdict = said.verdict /\ said'.cut = said.cut /\ said'.torn = said.torn
      /\ said' \in [before : SUBSET Bits, torn : BOOLEAN, abort : BOOLEAN, cut : BOOLEAN,
                    verdict : {"none", "failed", "reach", "no abort"}]
  <2>1. Heard(addr) \in BOOLEAN
    BY <1>0 DEF Heard, TypeOK
  <2> QED BY <1>0, <2>1 DEF TypeOK
<1>7. SpaceOK(space')
  <2>1. Now.val \in SUBSET Bits
    BY <1>1 DEF Access
  <2> QED BY <1>0, <2>1, CycleTypes
<1>8. TypeOK'
  BY <1>0, <1>5, <1>6, <1>7 DEF TypeOK, SpaceOK
<1>9. said.verdict = "none"
  BY <1>1 DEF Inv, Programs
<1>10. EarlyQuiet' /\ Halves' /\ OwnTarget' /\ BusHome' /\ Programs'
  BY <1>0, <1>1, <1>4, <1>5, <1>6, <1>9
     DEF Inv, EarlyQuiet, Halves, OwnTarget, BusHome, Programs
<1>11. RmaShape' /\ RmaKnows' /\ RmaSound'
  BY <1>1, <1>5, <1>6, <1>9 DEF RmaShape, RmaKnows, RmaSound
<1>12. SweepEnds'
  <2> SUFFICES ASSUME tool.mode = "sweep", ~said.cut
               PROVE  IF q = <<>> THEN bus = 0 ELSE q[Len(q)] = SetBus(0)
    BY <1>0, <1>5, <1>6 DEF SweepEnds
  <2>1. tool.prog # <<>> /\ tool.prog[Len(tool.prog)] = SetBus(0)
    BY <1>0 DEF Inv, SweepEnds, Running
  <2>2. /\ q \in Seq(Single) /\ Len(q) = Len(tool.prog) - 1
        /\ \A k \in 1..(Len(tool.prog) - 1) : q[k] = tool.prog[1 + k]
    BY <1>4
  <2>3. CASE Len(tool.prog) = 1
    <3>1. Now = SetBus(0)
      BY <1>1, <2>1, <2>3
    <3> QED BY <1>0, <3>1 DEF SetBus, Op
  <2>4. CASE Len(tool.prog) > 1
    <3>1. /\ Len(tool.prog) - 1 \in 1..(Len(tool.prog) - 1)
          /\ 1 + (Len(tool.prog) - 1) = Len(tool.prog)
      BY <1>2, <2>4
    <3>2. q[Len(q)] = SetBus(0)
      BY <2>1, <2>2, <3>1
    <3>3. q # <<>>
      BY <2>2, <2>4, <1>2, LastSeq
    <3> QED BY <3>2, <3>3
  <2> QED BY <1>3, <2>3, <2>4
<1> QED BY <1>8, <1>10, <1>11, <1>12 DEF Inv

\* BusNum moves in a sweep only, and its last move is home.
LEMMA ToolBusInv ==
  ASSUME Inv, ToolBus PROVE Inv'
<1>0. /\ Running /\ Now.kind = "bus" /\ bus' = Now.at.bus
      /\ tool' = [tool EXCEPT !.prog = Rest(1)]
      /\ UNCHANGED <<up, slot, space, addr, said>>
      /\ TypeOK
  BY DEF ToolBus, Inv
<1>1. /\ Now \in Access /\ Now = tool.prog[1] /\ up = "scanned" /\ tool.mode = "sweep"
      /\ tool.half = FALSE
  <2>1. tool.mode \in {"none", "scan", "sweep", "find", "cfgr", "cfgw", "rma"}
        /\ tool.half \in BOOLEAN
    BY <1>0 DEF TypeOK
  <2>2. tool.half = FALSE
    BY <1>0, <2>1 DEF Inv, Halves
  <2> QED BY <1>0, <2>1, <2>2, RunningFacts DEF Running, Asks, Plain
<1>2. Len(tool.prog) \in Nat /\ Len(tool.prog) >= 1
  BY <1>0, RunningFacts
<1>3. Len(tool.prog) = 1 \/ Len(tool.prog) > 1
  BY <1>2, OneOrMore, Zenon
<1> DEFINE q == Rest(1)
<1>4. /\ q \in Seq(Access) /\ q \in Seq(Single) /\ Len(q) = Len(tool.prog) - 1
      /\ \A k \in 1..(Len(tool.prog) - 1) : q[k] = tool.prog[1 + k]
  BY <1>0, <1>1, RestKept
<1> HIDE DEF q
<1>5. /\ tool'.mode = "sweep" /\ tool'.prog = q /\ tool'.half = FALSE
      /\ tool' \in [mode : {"none", "scan", "sweep", "find", "cfgr", "cfgw", "rma"},
                    prog : Seq(Access), half : BOOLEAN]
  BY <1>0, <1>1, <1>4 DEF TypeOK, q
<1>6. bus' \in Buses
  BY <1>0, <1>1 DEF Access, Addrs
<1>7. TypeOK'
  BY <1>0, <1>5, <1>6 DEF TypeOK
<1>8. said.verdict = "none"
  BY <1>1 DEF Inv, Programs
<1>9. EarlyQuiet' /\ Halves' /\ OwnTarget' /\ BusHome' /\ Programs'
  BY <1>0, <1>1, <1>4, <1>5, <1>8 DEF EarlyQuiet, Halves, OwnTarget, BusHome, Programs
<1>10. RmaShape' /\ RmaKnows' /\ RmaSound'
  BY <1>0, <1>5, <1>8 DEF RmaShape, RmaKnows, RmaSound
<1>11. SweepEnds'
  <2> SUFFICES ASSUME ~said.cut
               PROVE  IF q = <<>> THEN bus' = 0 ELSE q[Len(q)] = SetBus(0)
    BY <1>0, <1>5 DEF SweepEnds
  <2>1. tool.prog # <<>> /\ tool.prog[Len(tool.prog)] = SetBus(0)
    BY <1>0, <1>1 DEF Inv, SweepEnds, Running
  <2>2. CASE Len(tool.prog) = 1
    <3>1. Now = SetBus(0)
      BY <1>1, <2>1, <2>2
    <3>2. bus' = 0
      BY <1>0, <3>1 DEF SetBus, Op
    <3>3. Len(q) = 0
      BY <1>4, <2>2
    <3>4. q = <<>>
      BY <1>4, <3>3, LastSeq
    <3> QED BY <3>2, <3>4
  <2>3. CASE Len(tool.prog) > 1
    <3>1. /\ Len(tool.prog) - 1 \in 1..(Len(tool.prog) - 1)
          /\ 1 + (Len(tool.prog) - 1) = Len(tool.prog)
      BY <1>2, <2>3
    <3>2. q[Len(q)] = SetBus(0)
      BY <2>1, <1>4, <3>1
    <3>3. q # <<>>
      BY <1>4, <2>3, <1>2, LastSeq
    <3> QED BY <3>2, <3>3
  <2> QED BY <1>3, <2>2, <2>3
<1> QED BY <1>7, <1>9, <1>10, <1>11 DEF Inv

\* The end of a run, and one that is stopped.
LEMMA EndInv ==
  ASSUME Inv, Exit \/ Interrupt PROVE Inv'
<1>0. /\ tool' = Idle /\ UNCHANGED <<up, slot, space, addr, bus>> /\ TypeOK
      /\ said' = [Silent EXCEPT !.cut = said'.cut]
      /\ said'.cut = said.cut \/ (said'.cut = (said.cut \/ tool.mode = "sweep"))
  BY DEF Exit, Interrupt, Inv, Silent
<1>1. /\ tool'.mode = "none" /\ tool'.prog = <<>> /\ tool'.half = FALSE
  BY <1>0 DEF Idle
<1>2. said'.cut \in BOOLEAN
  BY <1>0 DEF TypeOK
<1>3. /\ said'.verdict = "none"
      /\ said' \in [before : SUBSET Bits, torn : BOOLEAN, abort : BOOLEAN, cut : BOOLEAN,
                    verdict : {"none", "failed", "reach", "no abort"}]
  <2>1. {} \in SUBSET Bits
    OBVIOUS
  <2> QED BY <1>0, <1>2, <2>1 DEF Silent
<1>4. TypeOK'
  <2>1. <<>> \in Seq(Access)
    OBVIOUS
  <2>2. tool' \in [mode : {"none", "scan", "sweep", "find", "cfgr", "cfgw", "rma"},
                   prog : Seq(Access), half : BOOLEAN]
    BY <1>0, <2>1 DEF Idle
  <2> QED BY <1>0, <1>3, <2>2 DEF TypeOK
<1>5. up = "scanned"
  BY DEF Exit, Interrupt, Running, Inv, EarlyQuiet, Idle
<1>6. BusHome'
  <2>1. CASE Exit
    <3>1. tool.mode = "sweep" /\ ~said.cut => bus = 0
      BY <2>1 DEF Exit, Inv, SweepEnds
    <3>2. said'.cut = said.cut
      BY <2>1 DEF Exit, Silent
    <3> QED BY <1>0, <3>1, <3>2 DEF Inv, BusHome
  <2>2. CASE Interrupt
    <3>1. said'.cut = (said.cut \/ tool.mode = "sweep")
      BY <2>2 DEF Interrupt, Silent
    <3> QED BY <1>0, <3>1 DEF Inv, BusHome
  <2> QED BY <2>1, <2>2
<1>7. Programs'
  <2>1. <<>> \in Seq(Plain)
    OBVIOUS
  <2>2. tool'.prog \in Seq(Plain)
    BY <1>1, <2>1
  <2>3. tool'.mode \notin {"sweep", "rma"}
    BY <1>1
  <2>4. said' = [Silent' EXCEPT !.cut = said'.cut]
    BY <1>0 DEF Silent
  <2> QED BY <1>1, <1>3, <2>2, <2>3, <2>4 DEF Programs
<1>8. EarlyQuiet' /\ Halves' /\ OwnTarget' /\ SweepEnds'
  BY <1>0, <1>1, <1>5 DEF EarlyQuiet, Halves, OwnTarget, SweepEnds
<1>9. RmaShape' /\ RmaKnows' /\ RmaSound'
  BY <1>1, <1>3 DEF RmaShape, RmaKnows, RmaSound
<1> QED BY <1>4, <1>6, <1>7, <1>8, <1>9 DEF Inv

-----------------------------------------------------------------------------
(* The theorems.                                                              *)

\* Every step, and a stutter, keeps the invariant.
LEMMA NextInv ==
  ASSUME PciAssumption, Inv, [Next]_vars PROVE Inv'
<1>1. CASE PciInit \/ Scan
  BY <1>1, BootInv
<1>2. CASE \/ \E a \in KernelReads : KernelRead(a)
           \/ \E w \in KernelWrites : KernelWrite(w)
  BY <1>2, KernelInv
<1>3. CASE \/ StartScan \/ StartSweep \/ StartFind
           \/ \E a \in ToolReads : StartCfgr(a)
           \/ \E w \in ToolWrites : StartCfgw(w)
           \/ \E b \in Buses, d \in Devs : StartRma(b, d)
  BY <1>3, StartsInv
<1>4. CASE ToolAddr
  BY <1>4, ToolAddrInv
<1>5. CASE ToolRead
  BY <1>5, ToolReadInv
<1>6. CASE ToolWrite
  BY <1>6, ToolWriteInv
<1>7. CASE ToolBus
  BY <1>7, ToolBusInv
<1>8. CASE Exit \/ Interrupt
  BY <1>8, EndInv
<1>9. CASE UNCHANGED vars
  <2>1. UNCHANGED <<up, slot, space, addr, bus, tool, said>>
    BY <1>9 DEF vars
  <2>2. TypeOK'
    BY <2>1 DEF Inv, TypeOK
  <2>4. EarlyQuiet' /\ Halves' /\ SweepEnds'
    BY <2>1 DEF Inv, EarlyQuiet, Halves, Now, SweepEnds
  <2>5. Programs'
    BY <2>1 DEF Inv, Programs
  <2>3. OwnTarget' /\ BusHome' /\ RmaShape' /\ RmaKnows' /\ RmaSound'
    BY <2>1 DEF Inv, OwnTarget, Now, BusHome, RmaShape, RmaKnows, RmaSound
  <2> QED BY <2>2, <2>3, <2>4, <2>5 DEF Inv
<1> QED BY <1>1, <1>2, <1>3, <1>4, <1>5, <1>6, <1>7, <1>8, <1>9 DEF Next

\* The invariant holds in every reachable state, for any number of buses and
\* any registers the kernel and the tool are given.
THEOREM Invariant == ASSUME PciAssumption PROVE Spec => []Inv
<1>1. Init => Inv
  BY InitInv
<1>2. Inv /\ [Next]_vars => Inv'
  BY NextInv
<1> QED BY <1>1, <1>2, PTL DEF Spec

\* The types.
THEOREM TypeInvariant == ASSUME PciAssumption PROVE Spec => []TypeOK
<1>1. Inv => TypeOK
  BY DEF Inv
<1> QED BY <1>1, Invariant, PTL

\* Unless the kernel came between its halves, an access of the tool reaches the
\* A sweep that is not stopped puts BusNum back, whatever the number of buses.
THEOREM BusKept == ASSUME PciAssumption PROVE Spec => []BusHome
<1>1. Inv => BusHome
  BY DEF Inv
<1> QED BY <1>1, Invariant, PTL

\* The positive answer of --rma rests on a master abort within its own window.
THEOREM RmaProved == ASSUME PciAssumption PROVE Spec => []RmaSound
<1>1. Inv => RmaSound
  BY DEF Inv
<1> QED BY <1>1, Invariant, PTL

\* What an access of the kernel reaches while BusNum is its bus.
LEMMA KernelReaches ==
  ASSUME bus = 0, NEW d \in Devs, NEW r \in Regs
  PROVE  /\ Reaches(PciAddr(d, r)) <=> d = "bridge" \/ (d = "card" /\ slot /\ Master)
         /\ PciAddr(d, r).dev = d /\ PciAddr(d, r).reg = r
  BY DEF Reaches, PciAddr

\* The bytes an access touches are its own.
LEMMA LanesExact ==
  ASSUME NEW where \in 0..3, NEW size \in {1, 2, 4}, where % size = 0
  PROVE  Lanes(where, size) \subseteq where..(where + size - 1)
<1>1. CASE size = 1
  BY <1>1 DEF Lanes
<1>2. CASE size = 2
  <2>1. where = 0 \/ where = 2
    BY <1>2
  <2>2. CASE where = 0
    BY <1>2, <2>2 DEF Lanes
  <2>3. CASE where = 2
    BY <1>2, <2>3 DEF Lanes
  <2> QED BY <2>1, <2>2, <2>3
<1>3. CASE size = 4
  <2>1. where = 0
    BY <1>3
  <2> QED BY <1>3, <2>1 DEF Lanes
<1> QED BY <1>1, <1>2, <1>3

\* A write takes from a dword the bits of its bytes and leaves the others.
LEMMA MergeExact ==
  ASSUME NEW r \in Regs, NEW old \in SUBSET Bits, old \subseteq RegBits[r],
         NEW v \in SUBSET Bits, NEW b \in Bits \ {"RMA"}, b \in v <=> b \in old
  PROVE  b \in Stored(old, r, v) <=> b \in old
<1>1. CASE r = "id"
  BY <1>1 DEF Stored
<1>2. CASE r = "cmd"
  BY <1>2 DEF Stored, RegBits, Regs
<1>3. CASE r = "bar"
  BY <1>3 DEF Stored, RegBits, Regs
<1> QED BY <1>1, <1>2, <1>3 DEF Regs

\* A read of the kernel gets what the register it names holds.
LEMMA ReadIsExact ==
  ASSUME PciAssumption, bus = 0, NEW a \in KernelReads
  PROVE  ReadExact(a)
<1> SUFFICES ASSUME KernelRead(a)
             PROVE  Data(addr') = IF a.dev = "bridge" \/ (a.dev = "card" /\ slot /\ Master)
                                  THEN space[a.dev][a.reg] ELSE Bits
  BY DEF ReadExact
<1>1. a.dev \in Devs /\ a.reg \in Regs
  BY DEF PciAssumption
<1>2. addr' = PciAddr(a.dev, a.reg)
  BY DEF KernelRead
<1>3. /\ Reaches(addr') <=> a.dev = "bridge" \/ (a.dev = "card" /\ slot /\ Master)
      /\ addr'.dev = a.dev /\ addr'.reg = a.reg
  BY <1>1, <1>2, KernelReaches
<1> QED BY <1>3 DEF Data

\* A write of the kernel stays within the bytes of its own register.
LEMMA WriteIsExact ==
  ASSUME PciAssumption, TypeOK, bus = 0, NEW w \in KernelWrites
  PROVE  WriteExact(w)
<1> SUFFICES ASSUME KernelWrite(w), NEW d \in Present, NEW r \in Regs,
                    NEW b \in Bits \ {"RMA"}, (b \in space[d][r]) # (b \in space'[d][r])
             PROVE  d = w.dev /\ r = w.reg /\ Lane[b] \in w.where..(w.where + w.size - 1)
  BY DEF WriteExact
<1> DEFINE touched == {c \in Bits : Lane[c] \in Lanes(w.where, w.size)}
           v == {c \in w.val : Lane[c] \in Lanes(w.where, w.size)}
                  \cup {c \in Data(addr') : ~(Lane[c] \in Lanes(w.where, w.size))}
<1>1. /\ w.dev \in Devs /\ w.reg \in Regs /\ w.val \in SUBSET Bits
      /\ w.where \in 0..3 /\ w.size \in {1, 2, 4} /\ w.where % w.size = 0
  BY DEF PciAssumption
<1>2. addr' = PciAddr(w.dev, w.reg) /\ space' = Put(addr', v)
  BY DEF KernelWrite
<1>3. addr'.dev = w.dev /\ addr'.reg = w.reg
  BY <1>1, <1>2, KernelReaches
<1>4. SpaceOK(space) /\ "bridge" \in Present /\ "cmd" \in Regs
  BY SpaceTyped DEF Present, Regs
<1>5. Reaches(addr')
  <2> SUFFICES ASSUME ~Reaches(addr') PROVE FALSE
    OBVIOUS
  <2>1. space' = Latched(addr')
    BY <1>2 DEF Put
  <2>2. space' = space \/ space' = [space EXCEPT !["bridge"]["cmd"] = @ \cup {"RMA"}]
    BY <2>1 DEF Latched
  <2> QED BY <1>4, <2>2 DEF SpaceOK
<1> DEFINE old == space[w.dev][w.reg]
           new == Stored(old, w.reg, v)
<1>6. w.dev \in Present /\ Data(addr') = old /\ space' = [space EXCEPT ![w.dev][w.reg] = new]
  <2>1. w.dev \in Present
    BY <1>3, <1>5 DEF Reaches, Present
  <2>2. Data(addr') = old
    BY <1>3, <1>5 DEF Data
  <2> HIDE DEF v
  <2>3. Put(addr', v) = [space EXCEPT ![w.dev][w.reg] = new]
    BY <1>3, <1>4, <1>5, <1>1, <2>1 DEF Put, SpaceOK
  <2> QED BY <1>2, <2>1, <2>2, <2>3
<1>7. old \in SUBSET Bits /\ old \subseteq RegBits[w.reg]
  BY <1>1, <1>4, <1>6 DEF SpaceOK
<1>8. v = (w.val \cap touched) \cup (old \ touched)
  BY <1>1, <1>6, <1>7
<1> HIDE DEF old, new, v, touched
<1>9. d = w.dev /\ r = w.reg /\ space'[d][r] = new /\ space[d][r] = old
  BY <1>1, <1>4, <1>6 DEF SpaceOK, old
<1>10. touched \in SUBSET Bits
  BY DEF touched
<1>11. b \in touched
  <2> SUFFICES ASSUME b \notin touched PROVE b \in new <=> b \in old
    BY <1>9
  <2>1. v \in SUBSET Bits /\ (b \in v <=> b \in old)
    BY <1>1, <1>7, <1>8, <1>10
  <2> QED BY <1>1, <1>7, <2>1, MergeExact DEF new
<1>12. Lane[b] \in w.where..(w.where + w.size - 1)
  <2>1. Lane[b] \in Lanes(w.where, w.size)
    BY <1>11 DEF touched
  <2> QED BY <1>1, <2>1, LanesExact
<1> QED BY <1>9, <1>12

\* While BusNum is the kernel's bus the kernel's accesses are exact, in whatever
\* state the tool has left CONFIG_ADDR.
THEOREM KernelProved == ASSUME PciAssumption PROVE Spec => KernelExact
<1>1. ASSUME TypeOK, bus = 0
      PROVE  /\ \A a \in KernelReads : ReadExact(a)
             /\ \A w \in KernelWrites : WriteExact(w)
  BY <1>1, ReadIsExact, WriteIsExact
<1>2. TypeOK /\ [Next]_vars =>
        [bus = 0 => /\ \A a \in KernelReads : ReadExact(a)
                    /\ \A w \in KernelWrites : WriteExact(w)]_vars
  BY <1>1
<1> QED BY <1>2, TypeInvariant, PTL DEF Spec, KernelExact
=============================================================================
