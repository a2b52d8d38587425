-------------------------------- MODULE BringUp --------------------------------
(***************************************************************************)
(* Bringing the NM-32A up: the microcode download of nm32a.c, the life     *)
(* cycle around it (probe, remove, the self-test's stage 1), and           *)
(* tools/nm32a/ucode.c, which downloads to the same chips through          *)
(* /dev/mem.                                                               *)
(*                                                                         *)
(* A chip runs nothing until its store is filled through two registers     *)
(* that keep a position of their own.  Probe and the self-test fill it     *)
(* without hw_lock, the tool without any lock, so the writes of the two    *)
(* interleave; each write is one action.                                   *)
(***************************************************************************)
EXTENDS Integers, Sequences

CONSTANTS
  NChips,  \* 8
  N,       \* instructions in the store, 8192
  Blob,    \* cd2481_ucode: the bytes of the packed microcode
  Runs,    \* what the tool does to a chip: [file, ds, at]
  MaxTool, \* bound: chips the tool downloads to, one after the other
  Sick     \* chips that never run

Byte  == 0..255
Chips == 0..(NChips - 1)
Pad   == 122880                     \* 0x1E000
Jump  == 212991                     \* 0x33fff, "jump 0x3fff"

ASSUME BringUpAssumption ==
  /\ NChips \in Nat \ {0} /\ N \in Nat \ {0} /\ MaxTool \in Nat
  /\ Blob \in Seq(Byte) /\ 8 * Len(Blob) >= 18 * N
  /\ Sick \subseteq Chips
  /\ Runs \subseteq [file : Seq(Byte), ds : BOOLEAN, at : Chips]

Insns == {x \in Nat : x < 262144}    \* of 18 bits
Files == {r.file : r \in Runs}

-----------------------------------------------------------------------------
(* The packed microcode.                                                    *)

Pow2 == <<1, 2, 4, 8, 16, 32, 64, 128, 256, 512, 1024, 2048, 4096, 8192, 16384,
          32768, 65536, 131072, 262144, 524288, 1048576, 2097152, 4194304, 8388608>>

\* ucode_insn and insn_at: the 18 bits from bit 18 i of the stream b, out of
\* the three bytes they are in, those past the end being zero.
Insn(b, i) ==
  LET byte == (18 * i) \div 8
      B(k) == IF byte + k < Len(b) THEN b[byte + k + 1] ELSE 0
  IN  ((B(0) + 256 * B(1) + 65536 * B(2)) \div Pow2[((18 * i) % 8) + 1]) % 262144

\* What the driver downloads, and what the tool does: the whole instructions of
\* its file, no more than the store holds, topped up with the pad.
DriverCode  == [i \in 0..(N - 1) |-> Insn(Blob, i)]
Whole(b)    == (8 * Len(b)) \div 18
ToolCode(b) == [i \in 0..(N - 1) |-> IF i < Whole(b) THEN Insn(b, i) ELSE Pad]

(* The register writes of one download.                                     *)

Air(x)  == [reg |-> "AIR", val |-> x]
Mtcr(x) == [reg |-> "MTCR", val |-> x]
Btcr(x) == [reg |-> "BTCR", val |-> x]
RstAll  == [reg |-> "CCR", val |-> 16]
Writes  == [reg : {"AIR", "MTCR", "BTCR", "CCR"}, val : Insns]

\* dl_setup: the MPU is parked, then data-write mode.
\* Mutant: it starts to write where the chip stands.
SetupNoPark(ds) == <<Mtcr(1), Btcr(1), Mtcr(2)>>
Setup(ds) ==
  IF ds THEN <<Btcr(1), Air(Jump), Mtcr(1), Btcr(3), Btcr(3), Mtcr(2)>>
        ELSE <<Air(Jump), Mtcr(1), Btcr(1), Mtcr(2)>>

Store(code) ==
  [k \in 1..(2 * N) |-> IF k % 2 = 1 THEN Air(code[(k - 1) \div 2]) ELSE Btcr(3)]

\* dl_start, then Reset All.
Go == <<Air(Jump), Mtcr(1), Btcr(3), Btcr(3), Mtcr(3), Btcr(0), RstAll>>

Download(ds, code) == Setup(ds) \o Store(code) \o Go

-----------------------------------------------------------------------------
VARIABLES
  chip,    \* per chip: the loader, the store, whether it runs, CCR
  life,    \* "absent", "probing", "bound", "removed"
  dev,     \* nm32a_dev: "null", "live", or "freed"
  wild,    \* the kernel has followed a pointer to what is gone
  driver,  \* the driver's download: [job, at, todo, alone]
  tool,    \* the tool's: [file, ds, on, at, todo, alone, calls]
  trust    \* history, per chip: the bytes of the last download reported good,
           \* <<>> once somebody has written to the loader again

vars == <<chip, life, dev, wild, driver, tool, trust>>

Reset == [air |-> 0, mtcr |-> 0, pos |-> 0, store |-> [i \in 0..(N - 1) |-> 0],
          runs |-> FALSE, ccr |-> FALSE]

Quiet   == [job |-> "none", at |-> 0, todo |-> <<>>, alone |-> TRUE]
NoTool  == [file |-> <<>>, ds |-> FALSE, on |-> FALSE, at |-> 0,
            todo |-> <<>>, alone |-> TRUE, calls |-> 0]

Init ==
  /\ chip = [c \in Chips |-> Reset]
  /\ life = "absent" /\ dev = "null"
  /\ wild = FALSE
  /\ driver = Quiet /\ tool = NoTool
  /\ trust = [c \in Chips |-> <<>>]

-----------------------------------------------------------------------------
(* What a chip does with a write; from how the code uses it.  In auxiliary   *)
(* mode a write to BTCR runs the instruction in AIR, and the jump puts the   *)
(* position to the start of the store; in write mode a step stores AIR and   *)
(* moves on.  The clock turned on in execute mode runs the store: a store    *)
(* that is not the microcode may run or not.  A chip that runs clears CCR.   *)

AfterWrite(c, w) ==
  LET s == chip[c]
  IN  CASE w.reg = "AIR"  -> {[s EXCEPT !.air = w.val]}
        [] w.reg = "MTCR" -> {[s EXCEPT !.mtcr = w.val]}
        [] w.reg = "CCR"  -> {[s EXCEPT !.ccr = ~s.runs]}
        [] w.reg = "BTCR" /\ w.val = 0 ->
             {[s EXCEPT !.runs = r, !.ccr = @ /\ ~r] :
                r \in IF s.mtcr # 3 \/ c \in Sick THEN {FALSE}
                      ELSE IF s.store = DriverCode THEN {TRUE} ELSE BOOLEAN}
        [] w.reg = "BTCR" /\ w.val # 0 ->
             {IF s.mtcr = 1 /\ s.air = Jump THEN [s EXCEPT !.runs = FALSE, !.pos = 0]
              ELSE IF s.mtcr = 2 /\ w.val = 3
              THEN [s EXCEPT !.runs = FALSE, !.store[s.pos] = s.air,
                             !.pos = (s.pos + 1) % N]
              ELSE [s EXCEPT !.runs = FALSE]}

-----------------------------------------------------------------------------
(* The driver, nm32a.c.                                                     *)

\* Nothing is said of a kernel that has followed a dead pointer: every other
\* step is one of a kernel that has not, and does not.
Sane == ~wild /\ wild' = FALSE

\* nm32a_probe, once its allocations have succeeded; when one fails it leaves
\* nothing behind.  Reset All and the wait end the work on each chip.
Probe ==
  /\ life \in {"absent", "removed"} /\ driver.job = "none"
  /\ life' = "probing"
  /\ driver' = [job |-> "probe", at |-> 0, todo |-> Download(FALSE, DriverCode),
                alone |-> TRUE]
  /\ Sane /\ UNCHANGED <<chip, dev, tool, trust>>

\* echo 1 > selftest, for a card that is there.
Selftest ==
  /\ dev = "live" /\ driver.job = "none"
  /\ driver' = [job |-> "selftest", at |-> 0, todo |-> Download(FALSE, DriverCode),
                alone |-> TRUE]
  /\ Sane /\ UNCHANGED <<chip, life, dev, tool, trust>>

\* selftest or sendbreak after the card was unbound: nm32a_dev still names it.
ParamOnFreed ==
  /\ dev = "freed" /\ ~wild /\ wild' = TRUE
  /\ UNCHANGED <<chip, life, dev, driver, tool, trust>>

Working == driver.job # "none" /\ driver.at < NChips
Gone    == driver.job = "selftest" /\ dev = "freed"

\* One register write of nm32a_download.
DriverWrite ==
  /\ Working /\ ~Gone /\ driver.todo # <<>>
  /\ \E s \in AfterWrite(driver.at, Head(driver.todo)) :
       chip' = [chip EXCEPT ![driver.at] = s]
  /\ driver' = [driver EXCEPT !.todo = Tail(@)]
  /\ tool' = [tool EXCEPT !.alone = @ /\ tool.at # driver.at]
  /\ trust' = [trust EXCEPT ![driver.at] = <<>>]
  /\ Sane /\ UNCHANGED <<life, dev>>

\* The card goes away under a self-test that is still writing to it.
DriverGone ==
  /\ Working /\ Gone /\ ~wild /\ wild' = TRUE
  /\ UNCHANGED <<chip, life, dev, driver, tool, trust>>

\* The chips are done one after the other, whatever each reported.
\* Mutant: one chip more.
NextChipOver(d) ==
  [d EXCEPT !.at = @ + 1, !.alone = TRUE,
            !.todo = IF d.at < NChips THEN Download(FALSE, DriverCode) ELSE <<>>]
NextChip(d) ==
  [d EXCEPT !.at = @ + 1, !.alone = TRUE,
            !.todo = IF d.at + 1 < NChips THEN Download(FALSE, DriverCode) ELSE <<>>]

\* ccr_wait, bounded in time: the chip has taken the command or it has not.
\* Mutant: it waits until the chip has.
WaitedForever(c) == ~chip[c].ccr
Waited(c) == TRUE

\* The end of nm32a_download.
DriverReport ==
  /\ Working /\ ~Gone /\ driver.todo = <<>> /\ Waited(driver.at)
  /\ trust' = IF ~chip[driver.at].ccr /\ driver.alone
              THEN [trust EXCEPT ![driver.at] = Blob] ELSE trust
  /\ driver' = NextChip(driver)
  /\ Sane /\ UNCHANGED <<chip, life, dev, tool>>

\* The rest of nm32a_probe: whatever becomes of the ttys and the poll thread,
\* which Nm32a has, the card is now the one the parameters are for.
ProbeEnd ==
  /\ driver.job = "probe" /\ driver.at = NChips
  /\ driver' = Quiet /\ life' = "bound" /\ dev' = "live"
  /\ Sane /\ UNCHANGED <<chip, tool, trust>>

SelftestEnd ==
  /\ driver.job = "selftest" /\ driver.at = NChips
  /\ driver' = Quiet
  /\ Sane /\ UNCHANGED <<chip, life, dev, tool, trust>>

\* nm32a_remove, and the release of what probe allocated; nm32a_dev stays.
Remove ==
  /\ life = "bound"
  /\ life' = "removed" /\ dev' = "freed"
  /\ Sane /\ UNCHANGED <<chip, driver, tool, trust>>

-----------------------------------------------------------------------------
(* ucode.c, with either setup.  Its loop over the chips is one run per chip: *)
(* between two of them it only prints.                                       *)

ToolStart(r) ==
  /\ ~tool.on /\ tool.calls < MaxTool
  /\ tool' = [file |-> r.file, ds |-> r.ds, on |-> TRUE, at |-> r.at,
              todo |-> Download(r.ds, ToolCode(r.file)), alone |-> TRUE,
              calls |-> tool.calls + 1]
  /\ Sane /\ UNCHANGED <<chip, life, dev, driver, trust>>

ToolWrite ==
  /\ tool.on /\ tool.todo # <<>>
  /\ \E s \in AfterWrite(tool.at, Head(tool.todo)) :
       chip' = [chip EXCEPT ![tool.at] = s]
  /\ tool' = [tool EXCEPT !.todo = Tail(@)]
  /\ driver' = [driver EXCEPT !.alone = @ /\ tool.at # driver.at]
  /\ trust' = [trust EXCEPT ![tool.at] = <<>>]
  /\ Sane /\ UNCHANGED <<life, dev>>

\* The two waits, both bounded by a count, and the report.
ToolReport ==
  /\ tool.on /\ tool.todo = <<>>
  /\ trust' = IF ~chip[tool.at].ccr /\ tool.alone
              THEN [trust EXCEPT ![tool.at] = tool.file] ELSE trust
  /\ tool' = [NoTool EXCEPT !.calls = tool.calls]
  /\ Sane /\ UNCHANGED <<chip, life, dev, driver>>

ToolKilled ==
  /\ tool.on /\ tool' = [NoTool EXCEPT !.calls = tool.calls]
  /\ Sane /\ UNCHANGED <<chip, life, dev, driver, trust>>

DriverStep == DriverWrite \/ DriverReport \/ ProbeEnd \/ SelftestEnd

Next ==
  \/ Probe \/ Selftest \/ ParamOnFreed \/ DriverGone \/ Remove
  \/ DriverWrite \/ DriverReport \/ ProbeEnd \/ SelftestEnd
  \/ \E r \in Runs : ToolStart(r)
  \/ ToolWrite \/ ToolReport \/ ToolKilled

Spec == Init /\ [][Next]_vars /\ WF_vars(DriverStep)

-----------------------------------------------------------------------------
(* Properties.                                                              *)

TypeOK ==
  /\ chip \in [Chips -> [air : Insns, mtcr : 0..3, pos : 0..(N - 1),
                         store : [0..(N - 1) -> Insns], runs : BOOLEAN, ccr : BOOLEAN]]
  /\ life \in {"absent", "probing", "bound", "removed"}
  /\ dev \in {"null", "live", "freed"}
  /\ wild \in BOOLEAN
  /\ driver \in [job : {"none", "probe", "selftest"}, at : 0..NChips,
                 todo : Seq(Writes), alone : BOOLEAN]
  /\ driver.todo # <<>> => driver.at \in Chips
  /\ tool \in [file : Files \cup {<<>>}, ds : BOOLEAN, on : BOOLEAN, at : Chips,
               todo : Seq(Writes), alone : BOOLEAN,
               calls : 0..MaxTool]
  /\ trust \in [Chips -> Files \cup {Blob, <<>>}]

\* Bit k of a number, and bit n of a stream of bytes.
Bit(x, k) == (x \div Pow2[k + 1]) % 2
StreamBit(b, n) == Bit(b[(n \div 8) + 1], n % 8)

\* The store holds the whole instructions of b, each with the 18 bits the stream
\* has for it, and then the pad.
Holds(store, b) ==
  \A i \in 0..(N - 1) :
    IF i < Whole(b) THEN \A k \in 0..17 : Bit(store[i], k) = StreamBit(b, 18 * i + k)
                    ELSE store[i] = Pad

\* A chip a download was reported good for, and that nobody has written to
\* since it began but that download, holds in every place of its store the 18
\* bits the microcode has for it, whatever was in the loader before: another
\* download, half a download, or one that was stopped.  Of a download that
\* somebody else wrote into, and that is reported good all the same (a mixture
\* may run), nothing is said.
LoadedExact == \A c \in Chips : trust[c] # <<>> => Holds(chip[c].store, trust[c])

\* A chip that never takes a command costs itself: a probe nobody disturbs
\* still ends, with every other chip loaded.  Disturbed means by the tool, or
\* by a kernel that has lost its way after an unbind.
ProbeServes ==
  (/\ life = "probing" /\ driver.at = 0 /\ driver.todo = Download(FALSE, DriverCode)
   /\ [](~tool.on /\ ~wild))
    ~> (life = "bound" /\ \A c \in Chips \ Sick : trust[c] = Blob)
=============================================================================
