-------------------------------- MODULE MvIrq --------------------------------
(***************************************************************************)
(* Interrupts: plat_irq_dispatch and the cascade guard (irq.c), the        *)
(* MV64340 controller's demultiplexer (mv64340_irq.c), the drivers that    *)
(* request its sources, and poke (tools/nm32a/poke.c) on its mask register.*)
(*                                                                         *)
(* One CPU.  An asserted, unmasked line is taken before the next           *)
(* instruction of any thread, so threads run only while there is none      *)
(* (Running): a line that stays asserted and unmasked stops the machine.   *)
(* The controller's output follows its registers with a delay.  Which line *)
(* it drives the code does not know.                                       *)
(***************************************************************************)
EXTENDS Integers, FiniteSets

CONSTANTS
  Sources,     \* cause bits of the controller that are wired, within 0..63
  Lines,       \* CP0 lines claimed as cascade: 2..6
  Wired,       \* the one the controller's cpu_int0 drives
  MaxEvents,   \* bound: interrupts raised by devices and timer ticks
  MaxClaims,   \* bound: request_irq and free_irq calls
  MaxStrays,   \* bound: lines raised by something other than the controller
  MaxPokes     \* bound: writes of the mask register from user space

Timer == 7

ASSUME IrqAssumption ==
  /\ Sources \subseteq 0..63
  /\ Lines \subseteq 2..6 /\ Wired \in Lines
  /\ MaxEvents \in Nat /\ MaxClaims \in Nat
  /\ MaxStrays \in Nat /\ MaxPokes \in Nat

VARIABLES
  out,         \* the controller's output, as the CPU sees it
  strays,      \* lines held up by something else
  timer,       \* IP7
  level,       \* main cause registers: sources asserted
  mask,        \* cpu_int0 mask registers: sources let through
  claimed,     \* sources with an action
  im,          \* Status.IM, lines only
  pending,     \* what plat_irq_dispatch has read; {} outside of it
  mv_unclaimed, unclaimed_work, cursor,   \* bitmap, work queued, bit it is at
  cascade_runaway_mask, runaway_work,
  logged,      \* history: sources and lines reported
  silenced,    \* history: sources whose mask bit a poke was the last to clear
  events, claims, stray_ups, pokes

controller == <<level, mask>>
reports == <<mv_unclaimed, unclaimed_work, cursor, cascade_runaway_mask,
             runaway_work, logged>>
bounds == <<events, claims, stray_ups, pokes>>
vars == <<controller, out, strays, timer, claimed, im, pending, reports, silenced,
          bounds>>

NotRunning == 64

TypeOK ==
  /\ out \in BOOLEAN /\ strays \subseteq Lines
  /\ timer \in BOOLEAN
  /\ level \subseteq Sources /\ mask \subseteq Sources /\ claimed \subseteq Sources
  /\ im \subseteq Lines
  /\ pending \subseteq Lines \cup {Timer}
  /\ mv_unclaimed \subseteq Sources /\ unclaimed_work \in BOOLEAN
  /\ cursor \in 0..NotRunning
  /\ cascade_runaway_mask \subseteq Lines /\ runaway_work \in BOOLEAN
  /\ logged \subseteq [source : Sources] \cup [line : Lines]
  /\ silenced \subseteq Sources
  /\ events \in 0..MaxEvents /\ claims \in 0..MaxClaims
  /\ stray_ups \in 0..MaxStrays /\ pokes \in 0..MaxPokes

\* After arch_init_irq: both outputs masked, every cascade line requested,
\* the one report of the guard queued.
Init ==
  /\ out = FALSE /\ strays = {} /\ timer = FALSE
  /\ level = {} /\ mask = {} /\ claimed = {}
  /\ im = Lines /\ pending = {}
  /\ mv_unclaimed = {} /\ unclaimed_work = FALSE /\ cursor = NotRunning
  /\ cascade_runaway_mask = {} /\ runaway_work = TRUE
  /\ logged = {} /\ silenced = {}
  /\ events = 0 /\ claims = 0 /\ stray_ups = 0 /\ pokes = 0

-----------------------------------------------------------------------------
(* Hardware.                                                               *)

Cause == {l \in Lines : (l = Wired /\ out) \/ l \in strays}
           \cup {l \in {Timer} : timer}
Interrupted == Cause \cap (im \cup {Timer}) # {}
Running == pending = {} /\ ~Interrupted

Raise(s) ==
  /\ events < MaxEvents /\ events' = events + 1
  /\ s \notin level /\ level' = level \cup {s}
  /\ UNCHANGED <<mask, out, strays, timer, claimed, im, pending, reports,
                 claims, stray_ups, pokes, silenced>>

Tick ==
  /\ events < MaxEvents /\ events' = events + 1
  /\ timer' = TRUE
  /\ UNCHANGED <<controller, out, strays, claimed, im, pending, reports, claims,
                 stray_ups, pokes, silenced>>

\* The controller's output catches up with its registers.
Follow ==
  /\ out # (level \cap mask # {}) /\ out' = ~out
  /\ UNCHANGED <<controller, strays, timer, claimed, im, pending, reports, bounds,
                 silenced>>

\* Something nobody has identified asserts a line, or lets go of it.
StrayUp(l) ==
  /\ stray_ups < MaxStrays /\ stray_ups' = stray_ups + 1
  /\ l # Wired /\ strays' = strays \cup {l}
  /\ UNCHANGED <<controller, out, timer, claimed, im, pending, reports, events,
                 claims, pokes, silenced>>

StrayDown(l) ==
  /\ l \in strays /\ strays' = strays \ {l}
  /\ UNCHANGED <<controller, out, timer, claimed, im, pending, reports, bounds,
                 silenced>>

-----------------------------------------------------------------------------
(* plat_irq_dispatch.                                                      *)

\* The CPU takes the interrupt and reads Status and Cause.
Take ==
  /\ pending = {} /\ Interrupted
  /\ pending' = Cause \cap (im \cup {Timer})
  /\ UNCHANGED <<controller, out, strays, timer, claimed, im, reports, bounds,
                 silenced>>

\* The timer goes first; what else is pending is taken again.
DispatchTimer ==
  /\ Timer \in pending /\ pending' = {}
  /\ timer' = FALSE
  /\ UNCHANGED <<controller, out, strays, claimed, im, reports, bounds, silenced>>

\* Both words of cause and mask.  Mutant: the low word only.
LowWord == {b \in level \cap mask : b < 32}
Serviceable == level \cap mask
IsLowest(b, S) == b \in S /\ \A c \in S : b <= c

\* mv64340_irq_dispatch, a source with an action: handle_level_irq masks it,
\* the driver quiets its device, and it is unmasked.  The output is taken to
\* follow within the time that takes.
DispatchClaimed ==
  /\ pending # {} /\ Timer \notin pending
  /\ \E b \in claimed :
       IsLowest(b, Serviceable) /\ level' = level \ {b}
  /\ out' = (level' \cap mask # {})
  /\ pending' = {}
  /\ UNCHANGED <<mask, strays, timer, claimed, im, reports, bounds, silenced>>

\* The source nobody claims is masked.  Mutant: it stays unmasked.
KeepUnclaimed(b) == UNCHANGED mask
MaskUnclaimed(b) == mask' = mask \ {b}

\* Its report is queued.  Mutant: it is not.
NoReport == UNCHANGED unclaimed_work
QueueReport == unclaimed_work' = TRUE

DispatchUnclaimed ==
  /\ pending # {} /\ Timer \notin pending
  /\ \E b \in Sources \ claimed :
       /\ IsLowest(b, Serviceable)
       /\ MaskUnclaimed(b)
       /\ mv_unclaimed' = mv_unclaimed \cup {b}
  /\ QueueReport
  /\ pending' = {}
  /\ UNCHANGED <<level, out, strays, timer, claimed, im, cursor,
                 cascade_runaway_mask, runaway_work, logged, bounds,
                 silenced>>

\* mv64340_cascade_runaway: the lines asserted with nothing to service are
\* masked.  Mutant: they are only recorded.
KeepStatus(lines) == UNCHANGED im
ClearStatus(lines) == im' = im \ lines

DispatchRunaway ==
  /\ pending # {} /\ Timer \notin pending
  /\ Serviceable = {}
  /\ ClearStatus(pending)
  /\ cascade_runaway_mask' = cascade_runaway_mask \cup pending
  /\ pending' = {}
  /\ UNCHANGED <<controller, out, strays, timer, claimed, mv_unclaimed,
                 unclaimed_work, cursor, runaway_work, logged, bounds,
                 silenced>>

Dispatch == DispatchTimer \/ DispatchClaimed \/ DispatchUnclaimed \/ DispatchRunaway

-----------------------------------------------------------------------------
(* Threads.                                                                *)

\* A driver requests its source: mv64340_irq_unmask.
\* Mutants: the mask is left as it was; the next bit is set.
LeaveMasked(s) == UNCHANGED mask
NextBit(s) == mask' = mask \cup {s + 1}
Unmask(s) == mask' = mask \cup {s}

RequestIrq(s) ==
  /\ Running /\ claims < MaxClaims /\ claims' = claims + 1
  /\ s \notin claimed /\ claimed' = claimed \cup {s}
  /\ Unmask(s) /\ silenced' = silenced \ {s}
  /\ UNCHANGED <<level, out, strays, timer, im, pending, reports, events,
                 stray_ups, pokes>>

\* ... and frees it: mv64340_irq_mask.
FreeIrq(s) ==
  /\ Running /\ claims < MaxClaims /\ claims' = claims + 1
  /\ s \in claimed /\ claimed' = claimed \ {s}
  /\ mask' = mask \ {s}
  /\ UNCHANGED <<level, out, strays, timer, im, pending, reports, events,
                 stray_ups, pokes, silenced>>

\* poke stores a byte, a half word or a word: the bits in it become those of the
\* value given, set and cleared alike.
Fields == {{s \in Sources : s \div width = i} : width \in {8, 16, 32}, i \in 0..7}

Poke(field, value) ==
  /\ Running /\ pokes < MaxPokes /\ pokes' = pokes + 1
  /\ mask' = (mask \ field) \cup value
  /\ silenced' = (silenced \cup field) \ value
  /\ UNCHANGED <<level, out, strays, timer, claimed, im, pending, reports,
                 events, claims, stray_ups>>

\* mv_unclaimed_report: the work item starts, logs and clears one set bit after
\* the other, and ends.
ReportStart ==
  /\ Running /\ unclaimed_work /\ cursor = NotRunning
  /\ unclaimed_work' = FALSE /\ cursor' = 0
  /\ UNCHANGED <<controller, out, strays, timer, claimed, im, pending,
                 mv_unclaimed, cascade_runaway_mask, runaway_work, logged, bounds,
                 silenced>>

Ahead == {b \in mv_unclaimed : b >= cursor}

ReportBit ==
  /\ Running /\ cursor # NotRunning
  /\ \E b \in Sources :
       /\ IsLowest(b, Ahead)
       /\ logged' = logged \cup {[source |-> b]}
       /\ mv_unclaimed' = mv_unclaimed \ {b}
       /\ cursor' = b + 1
  /\ UNCHANGED <<controller, out, strays, timer, claimed, im, pending,
                 unclaimed_work, cascade_runaway_mask, runaway_work, bounds,
                 silenced>>

ReportEnd ==
  /\ Running /\ cursor # NotRunning /\ Ahead = {}
  /\ cursor' = NotRunning
  /\ UNCHANGED <<controller, out, strays, timer, claimed, im, pending,
                 mv_unclaimed, unclaimed_work, cascade_runaway_mask,
                 runaway_work, logged, bounds,
                 silenced>>

\* cascade_runaway_report runs once, five seconds after arch_init_irq; its bits
\* are taken in one step.
CascadeReport ==
  /\ Running /\ runaway_work
  /\ runaway_work' = FALSE
  /\ logged' = logged \cup {[line |-> l] : l \in cascade_runaway_mask}
  /\ cascade_runaway_mask' = {}
  /\ UNCHANGED <<controller, out, strays, timer, claimed, im, pending,
                 mv_unclaimed, unclaimed_work, cursor, bounds, silenced>>

Works == ReportStart \/ ReportBit \/ ReportEnd \/ CascadeReport

Next ==
  \/ \E s \in Sources : Raise(s) \/ RequestIrq(s) \/ FreeIrq(s)
  \/ \E field \in Fields : \E value \in SUBSET field : Poke(field, value)
  \/ \E l \in Lines : StrayUp(l) \/ StrayDown(l)
  \/ Tick \/ Follow \/ Take \/ Dispatch \/ Works

Spec == Init /\ [][Next]_vars

\* The CPU executes, signals settle, and the workqueue gets its turn whenever
\* threads run.
FairSpec == /\ Spec
            /\ WF_vars(Take) /\ WF_vars(Dispatch) /\ WF_vars(Follow)
            /\ SF_vars(Works)

-----------------------------------------------------------------------------
(* Properties.                                                             *)

\* Threads always run again: no source and no line, claimed or not, known or
\* not, keeps the CPU in plat_irq_dispatch for ever.
NoLivelock == []<>Running

\* A driver's source is let through as long as the driver has it, unless a poke
\* has masked it since: nothing the demultiplexer masked before or masks later,
\* and no driver that comes or goes, takes it away.
ClaimedListens == claimed \ silenced \subseteq mask

\* An interrupt of a claimed source is serviced, unless the driver leaves, the
\* guard has masked the controller's own line or a poke has masked the source.
RaisedServed ==
  \A s \in Sources :
    s \in level /\ s \in claimed
      ~> s \notin level \/ s \notin claimed \/ Wired \notin im \/ s \in silenced

\* The guard masks the controller's own line only when its output was still up
\* for a source that had just been masked or freed: a machine in which no
\* source is freed and none pokes about keeps its cascade.
CascadeKept == claims = Cardinality(claimed) /\ pokes = 0 => Wired \in im

\* A source that was masked because nobody claims it is reported.
UnclaimedReported ==
  \A s \in Sources : s \in mv_unclaimed ~> [source |-> s] \in logged

=============================================================================
