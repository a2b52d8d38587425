------------------------------- MODULE PciConfig -------------------------------
(***************************************************************************)
(* The PCI1 bus of the board: the host bridge the kernel sets up in        *)
(* kernel/cisco2811/pci.c, the configuration accesses of the kernel, and   *)
(* tools/nm32a/pciscan.c, which reaches the same bridge through /dev/mem.  *)
(*                                                                         *)
(* Every configuration access goes through one pair of registers: the      *)
(* target is written to CONFIG_ADDR, then CONFIG_DATA reads or writes it.  *)
(* The kernel's accesses run with interrupts off on a machine with one     *)
(* CPU, so each is one action.  The tool can be preempted between its two  *)
(* halves.  The bridge answers on the bus its P2P Configuration register   *)
(* names (BusNum), and makes Type 0 cycles for the slots of that bus only. *)
(***************************************************************************)
EXTENDS Integers, Sequences, FiniteSets

CONSTANTS
  MaxBus,        \* the tool goes through the buses 0..MaxBus (255)
  KernelReads,   \* registers the PCI core, drivers and sysfs read: [dev, reg]
  KernelWrites,  \* what they write: [dev, reg, where, size, val]
  ToolReads,     \* what --cfgr is given: Addrs
  ToolWrites     \* what --cfgw is given: [bus, dev, reg, val]

(* Configuration space.  A dword is the set of its bits that are one: the   *)
(* bits of COMMAND and STATUS the code names, two bits of a base address,   *)
(* and one bit for the identity, which never changes.                       *)

Buses   == 0..MaxBus
CmdBits == {"IO", "MEM", "MASTER", "PARITY", "SERR", "RMA"}
Bits    == CmdBits \cup {"lo", "hi", "id"}
Present == {"bridge", "card"}            \* device 0 and the NM-32A
Devs    == Present \cup {"none"}         \* an empty slot
Regs    == {"id", "cmd", "bar"}
RegBits == [r \in Regs |-> CASE r = "id"  -> {"id"}
                             [] r = "cmd" -> CmdBits
                             [] r = "bar" -> {"lo", "hi"}]
Addrs   == [bus : Buses, dev : Devs, reg : Regs]

\* The byte of its dword each bit is in.
Lane == [b \in Bits |-> CASE b = "SERR" -> 1
                          [] b = "lo" -> 2
                          [] b \in {"RMA", "hi"} -> 3
                          [] OTHER -> 0]

ASSUME PciAssumption ==
  /\ MaxBus \in Nat
  /\ KernelWrites \subseteq [dev : Devs, reg : Regs, where : 0..3,
                             size : {1, 2, 4}, val : SUBSET Bits]
  /\ \A w \in KernelWrites : w.where % w.size = 0
  /\ KernelReads \subseteq [dev : Devs, reg : Regs]
  /\ ToolReads \subseteq Addrs
  /\ ToolWrites \subseteq [bus : Buses, dev : Devs, reg : Regs, val : SUBSET Bits]

VARIABLES
  up,      \* c2811_pci_init: "off", "failed", "ready"; then "scanned"
  slot,    \* the CPLD has the slot enabled
  space,   \* the registers of bridge and card
  addr,    \* CONFIG_ADDR
  bus,     \* BusNum, P2P Configuration bits 23:16
  tool,    \* pciscan: mode, the accesses left, the address half done
  said     \* history of pciscan's run

vars == <<up, slot, space, addr, bus, tool, said>>

\* One access of the tool: read or write a register, or set BusNum.  A read of
\* an identity that is absent skips the next `more' accesses.
Access == [kind : {"read", "write", "bus"}, at : Addrs, val : SUBSET Bits,
           more : 0..3, tag : {"", "before", "after"}]

Op(k, b, d, r, v, n, t) == [kind |-> k, at |-> [bus |-> b, dev |-> d, reg |-> r],
                            val |-> v, more |-> n, tag |-> t]
Rd(b, d, r)    == Op("read", b, d, r, {}, 0, "")
Id(b, d, n)    == Op("read", b, d, "id", {}, n, "")
Status(b, t)   == Op("read", b, "bridge", "cmd", {}, 0, t)
Wr(b, d, r, v) == Op("write", b, d, r, v, 0, "")
SetBus(b)      == Op("bus", b, "bridge", "id", {}, 0, "")

Idle   == [mode |-> "none", prog |-> <<>>, half |-> FALSE]
Silent == [before |-> {}, torn |-> FALSE, abort |-> FALSE,
           verdict |-> "none", cut |-> FALSE]

Init ==
  /\ up = "off" /\ slot = FALSE
  /\ space = [d \in Present |-> [r \in Regs |-> IF r = "id" THEN {"id"} ELSE {}]]
  /\ addr = [bus |-> 0, dev |-> "bridge", reg |-> "id"] /\ bus = 0
  /\ tool = Idle /\ said = Silent

-----------------------------------------------------------------------------
(* What CONFIG_DATA does when CONFIG_ADDR holds a.                          *)

Master == "MASTER" \in space["bridge"]["cmd"]

\* Without the master bit no configuration cycle leaves the bridge.
Reaches(a) == /\ a.bus = bus
              /\ \/ a.dev = "bridge"
                 \/ a.dev = "card" /\ slot /\ Master

Data(a) == IF Reaches(a) THEN space[a.dev][a.reg] ELSE Bits

\* A cycle nobody claims ends in a master abort, which the bridge latches.
Aborts(a) == ~Reaches(a) /\ Master
Latched(a) ==
  IF Aborts(a) THEN [space EXCEPT !["bridge"]["cmd"] = @ \cup {"RMA"}] ELSE space

\* A dword write: a one in STATUS clears the latched bit, the identity stays,
\* everything else is stored.
Stored(old, r, v) ==
  CASE r = "id"  -> old
    [] r = "cmd" -> ((v \cap CmdBits) \ {"RMA"}) \cup ((old \cap {"RMA"}) \ v)
    [] r = "bar" -> v \cap {"lo", "hi"}

Put(a, v) ==
  IF Reaches(a) THEN [space EXCEPT ![a.dev][a.reg] = Stored(@, a.reg, v)]
                ELSE Latched(a)

-----------------------------------------------------------------------------
(* The kernel, pci.c.                                                       *)

\* What c2811_pci_init writes to the bridge: the low half is replaced, STATUS
\* goes back as it was read, and a one there clears it.  Neither PARITY nor SERR.
BridgeCmd(cmd) == (cmd \cap {"RMA"}) \cup {"MEM", "MASTER", "IO"}

\* c2811_pci_init, with c2811_slot_enable: both mappings can fail.  The windows
\* it sets up for the CPU take no part in configuration.
PciInit ==
  /\ up = "off"
  /\ \/ /\ up' = "failed"
        /\ UNCHANGED <<slot, space, addr>>
     \/ /\ up' = "ready"
        /\ slot' \in BOOLEAN
        /\ addr' = [bus |-> 0, dev |-> "bridge", reg |-> "cmd"]
        /\ space' = [space EXCEPT !["bridge"]["cmd"] = Stored(@, "cmd", BridgeCmd(@))]
  /\ UNCHANGED <<bus, tool, said>>

\* The PCI core's scan at boot, over c2811_pci_read: the empty slots leave an
\* abort latched.
Scan ==
  /\ up = "ready" /\ up' = "scanned"
  /\ addr' = [bus |-> 0, dev |-> "none", reg |-> "id"]
  /\ space' = Latched(addr')
  /\ UNCHANGED <<slot, bus, tool, said>>

\* What an access of the kernel does to the tool's run: it comes between the
\* halves of an access, or leaves an abort.
Heard(a) == said.abort \/ (tool.mode = "rma" /\ Aborts(a))
Disturbed(a) == [said EXCEPT !.torn = @ \/ tool.half, !.abort = Heard(a)]

\* c2811_pci_addr: bus 0 only, and written before every access.
\* Mutant: an access to the same register skips the address.
PciAddrOnce(d, r) == IF addr.reg = r THEN addr ELSE [bus |-> 0, dev |-> d, reg |-> r]
PciAddr(d, r) == [bus |-> 0, dev |-> d, reg |-> r]

\* c2811_pci_read returns Data(addr'), or the bytes of it that were asked for.
KernelRead(a) ==
  /\ up = "scanned"
  /\ addr' = PciAddr(a.dev, a.reg)
  /\ space' = Latched(addr')
  /\ said' = Disturbed(addr')
  /\ UNCHANGED <<up, slot, bus, tool>>

\* The bytes of the dword an access of this size at this offset stands for.
\* Mutant: a byte takes its neighbour along.
LanesWide(where, size) == CASE size = 4 -> 0..3
                            [] OTHER -> IF where >= 2 THEN {2, 3} ELSE {0, 1}
Lanes(where, size) == CASE size = 1 -> {where}
                        [] size = 2 -> IF where >= 2 THEN {2, 3} ELSE {0, 1}
                        [] OTHER    -> 0..3

\* c2811_pci_write: a byte or a halfword is put into the dword read first.
KernelWrite(w) ==
  LET In(b) == Lane[b] \in Lanes(w.where, w.size)
  IN  /\ up = "scanned"
      /\ addr' = PciAddr(w.dev, w.reg)
      /\ space' = Put(addr', {b \in w.val : In(b)}
                               \cup {b \in Data(addr') : ~In(b)})
      /\ said' = Disturbed(addr')
      /\ UNCHANGED <<up, slot, bus, tool>>

-----------------------------------------------------------------------------
(* pciscan.c, through /dev/mem.                                             *)

\* main: the bridge's status, a device that is not there, the status again.
Decisive(b) == <<Status(b, ""), Rd(b, "none", "id"), Status(b, "")>>

\* 0x02b00146, the command --sweep-bus and --find give the bridge.
ToolCmd == {"MEM", "MASTER", "PARITY", "SERR"}

\* --sweep-bus: the command, then for every bus BusNum and the slots, and at
\* the end BusNum as it was.
\* Mutants: the last bus stays; one bus too many.
SweepLeft(b) ==
  <<Wr(b, "bridge", "cmd", ToolCmd)>> \o
  [i \in 1..(3 * (MaxBus + 1)) |->
     LET n == (i - 1) \div 3
     IN  CASE i % 3 = 1 -> SetBus(n)
           [] i % 3 = 2 -> Rd(n, "card", "id")
           [] OTHER     -> Rd(n, "none", "id")]
SweepOver(b) == SweepLeft(b) \o <<SetBus(MaxBus + 1), SetBus(b)>>
Sweep(b) == SweepLeft(b) \o <<SetBus(b)>>

\* The default walk, show_dev and the header of each device.
ScanAll ==
  [i \in 1..(9 * (MaxBus + 1)) |->
     LET n == (i - 1) \div 9
         d == <<"bridge", "card", "none">>[(((i - 1) \div 3) % 3) + 1]
     IN  CASE i % 3 = 1 -> Id(n, d, 1)
           [] i % 3 = 2 -> Rd(n, d, "bar")
           [] OTHER     -> Rd(n, d, "id")]

\* main: the decisive question first, then the option, on the bus BusNum names.
Start(mode, option) ==
  /\ up = "scanned" /\ tool.mode = "none"
  /\ tool' = [mode |-> mode, prog |-> Decisive(bus) \o option, half |-> FALSE]
  /\ UNCHANGED <<up, slot, space, addr, bus, said>>

StartScan  == Start("scan", ScanAll)
StartSweep == Start("sweep", Sweep(bus))
StartFind  == Start("find", <<Wr(bus, "bridge", "cmd", ToolCmd), Rd(bus, "card", "id")>>)
StartCfgr(a) == Start("cfgr", <<Rd(a.bus, a.dev, a.reg)>>)
StartCfgw(w) == Start("cfgw", <<Rd(w.bus, w.dev, w.reg), Wr(w.bus, w.dev, w.reg, w.val),
                                Rd(w.bus, w.dev, w.reg)>>)
StartRma(b, d) == Start("rma", <<Status(b, "before"), Rd(b, d, "id"), Status(b, "after")>>)

Running == tool.mode # "none" /\ tool.prog # <<>>
Now     == Head(tool.prog)

\* The first half of cfg_read and cfg_write.
ToolAddr ==
  /\ Running /\ ~tool.half /\ Now.kind # "bus"
  /\ addr' = Now.at
  /\ tool' = [tool EXCEPT !.half = TRUE]
  /\ UNCHANGED <<up, slot, space, bus, said>>

\* What --rma says of the two statuses it read.
\* Mutant: the status before is not looked at.
VerdictAfter(before, after) ==
  CASE before = Bits -> "failed"
    [] "RMA" \in after -> "reach"
    [] OTHER -> "no abort"
Verdict(before, after) ==
  CASE before = Bits -> "failed"
    [] "RMA" \in after /\ "RMA" \notin before -> "reach"
    [] OTHER -> "no abort"

Rest(n) == SubSeq(tool.prog, n + 1, Len(tool.prog))
Absent  == {{}, Bits}

\* The second half of cfg_read.  The answer to "before" starts the history of
\* aborts over; the one to "after" is the verdict.
ToolRead ==
  LET v == Data(addr)
  IN  /\ Running /\ tool.half /\ Now.kind = "read"
      /\ space' = Latched(addr)
      /\ said' = [said EXCEPT
                    !.before = IF Now.tag = "before" THEN v ELSE @,
                    !.abort = IF Now.tag = "before" THEN FALSE ELSE Heard(addr),
                    !.verdict = IF Now.tag = "after" THEN Verdict(said.before, v) ELSE @]
      /\ tool' = [tool EXCEPT !.half = FALSE,
                    !.prog = Rest(1 + IF v \in Absent THEN Now.more ELSE 0)]
      /\ UNCHANGED <<up, slot, addr, bus>>

\* The second half of cfg_write.
ToolWrite ==
  /\ Running /\ tool.half /\ Now.kind = "write"
  /\ space' = Put(addr, Now.val)
  /\ said' = [said EXCEPT !.abort = Heard(addr)]
  /\ tool' = [tool EXCEPT !.half = FALSE, !.prog = Rest(1)]
  /\ UNCHANGED <<up, slot, addr, bus>>

\* P2P Configuration is one register of its own.
ToolBus ==
  /\ Running /\ Now.kind = "bus"
  /\ bus' = Now.at.bus
  /\ tool' = [tool EXCEPT !.prog = Rest(1)]
  /\ UNCHANGED <<up, slot, space, addr, said>>

Exit ==
  /\ tool.mode # "none" /\ tool.prog = <<>>
  /\ tool' = Idle
  /\ said' = [Silent EXCEPT !.cut = said.cut]
  /\ UNCHANGED <<up, slot, space, addr, bus>>

\* The operator stops it.
Interrupt ==
  /\ Running
  /\ tool' = Idle
  /\ said' = [Silent EXCEPT !.cut = said.cut \/ tool.mode = "sweep"]
  /\ UNCHANGED <<up, slot, space, addr, bus>>

Next ==
  \/ PciInit \/ Scan
  \/ \E a \in KernelReads : KernelRead(a)
  \/ \E w \in KernelWrites : KernelWrite(w)
  \/ StartScan \/ StartSweep \/ StartFind
  \/ \E a \in ToolReads : StartCfgr(a)
  \/ \E w \in ToolWrites : StartCfgw(w)
  \/ \E b \in Buses, d \in Devs : StartRma(b, d)
  \/ ToolAddr \/ ToolRead \/ ToolWrite \/ ToolBus \/ Exit \/ Interrupt

Spec == Init /\ [][Next]_vars

-----------------------------------------------------------------------------
(* Properties.                                                              *)

TypeOK ==
  /\ up \in {"off", "failed", "ready", "scanned"}
  /\ slot \in BOOLEAN
  /\ space \in [Present -> [Regs -> SUBSET Bits]]
  /\ \A d \in Present, r \in Regs : space[d][r] \subseteq RegBits[r]
  /\ addr \in Addrs /\ bus \in Buses
  /\ tool \in [mode : {"none", "scan", "sweep", "find", "cfgr", "cfgw", "rma"},
               prog : Seq(Access), half : BOOLEAN]
  /\ said \in [before : SUBSET Bits, torn : BOOLEAN,
               abort : BOOLEAN, cut : BOOLEAN,
               verdict : {"none", "failed", "reach", "no abort"}]

\* While BusNum is the bus the kernel speaks, and whatever the tool is halfway
\* through: a read of the kernel gets what the register it names holds, or ones
\* from a slot that does not answer; a write changes no register but its target
\* and there no byte but those of the access.  The abort flag is the exception:
\* an unanswered cycle sets it, and a byte or halfword write of COMMAND clears
\* it by writing back the one it read.
ReadExact(a) ==
  KernelRead(a) =>
    Data(addr') = IF a.dev = "bridge" \/ (a.dev = "card" /\ slot /\ Master)
                  THEN space[a.dev][a.reg] ELSE Bits
WriteExact(w) ==
  KernelWrite(w) =>
    \A d \in Present, r \in Regs, b \in Bits \ {"RMA"} :
      (b \in space[d][r]) # (b \in space'[d][r]) =>
        d = w.dev /\ r = w.reg /\ Lane[b] \in w.where..(w.where + w.size - 1)
KernelExact ==
  [][bus = 0 => /\ \A a \in KernelReads : ReadExact(a)
                /\ \A w \in KernelWrites : WriteExact(w)]_vars

\* BusNum is the kernel's bus except during a sweep, and after one that was
\* stopped, which nothing repairs.
BusHome == bus = 0 \/ tool.mode = "sweep" \/ said.cut

\* When --rma says that cycles reach the bus, a cycle has ended in a master
\* abort since the status it read first, unless the kernel tore its reads.
RmaSound == said.verdict = "reach" /\ ~said.torn => said.abort
=============================================================================
