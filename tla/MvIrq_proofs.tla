---------------------------- MODULE MvIrq_proofs ----------------------------
(***************************************************************************)
(* The safety properties of MvIrq for any set of sources and lines.        *)
(***************************************************************************)
EXTENDS MvIrq, FiniteSetTheorems, TLAPS

\* No source was freed and none was poked.
Quiet == claims = Cardinality(claimed) /\ pokes = 0

\* Only drivers and pokes change the mask of a claimed source.
MaskIsClaims == /\ claimed \ silenced \subseteq mask
                /\ pokes = 0 => mask = claimed /\ silenced = {}

\* Claims are counted.
Counted == IsFiniteSet(claimed) /\ Cardinality(claimed) <= claims

\* In a quiet machine the controller's output, and an interrupt taken from it,
\* have a source behind them, and the line is never masked.
Backed == Quiet => /\ out \/ Wired \in pending => Serviceable # {}
                   /\ Wired \in im

\* The strays are other lines than the controller's.
Apart == Wired \notin strays

IInv == TypeOK /\ MaskIsClaims /\ Counted /\ Backed /\ Apart

\* The invariant holds at reset.
LEMMA InitHolds == Init => IInv
<1> SUFFICES ASSUME Init PROVE IInv
  OBVIOUS
<1>1. TypeOK
  <2>1. /\ out \in BOOLEAN /\ timer \in BOOLEAN
        /\ unclaimed_work \in BOOLEAN /\ runaway_work \in BOOLEAN
    BY DEF Init
  <2>2. /\ strays \subseteq Lines /\ level \subseteq Sources
        /\ mask \subseteq Sources /\ claimed \subseteq Sources
        /\ im \subseteq Lines /\ pending \subseteq Lines \cup {Timer}
        /\ mv_unclaimed \subseteq Sources /\ cascade_runaway_mask \subseteq Lines
        /\ logged \subseteq [source : Sources] \cup [line : Lines]
        /\ silenced \subseteq Sources
    BY Zenon DEF Init
  <2>3. /\ cursor \in 0..NotRunning
        /\ events \in 0..MaxEvents /\ claims \in 0..MaxClaims
        /\ stray_ups \in 0..MaxStrays /\ pokes \in 0..MaxPokes
    BY IrqAssumption DEF Init, NotRunning
  <2> QED BY <2>1, <2>2, <2>3, Zenon DEF TypeOK
<1>2. Counted
  BY FS_EmptySet DEF Init, Counted
<1> QED BY <1>1, <1>2, IrqAssumption
  DEF Init, IInv, MaskIsClaims, Backed, Apart

\* Every step keeps the types.
LEMMA TypeStep == TypeOK /\ [Next]_vars => TypeOK'
<1> SUFFICES ASSUME TypeOK, [Next]_vars  PROVE TypeOK'
  OBVIOUS
<1> USE IrqAssumption DEF TypeOK, controller, reports, bounds, NotRunning, Timer
<1>1. ASSUME NEW s \in Sources, Raise(s) \/ RequestIrq(s) \/ FreeIrq(s)
      PROVE  TypeOK'
  <2>1. CASE Raise(s)  BY <2>1 DEF Raise
  <2>2. CASE RequestIrq(s)  BY <2>2 DEF RequestIrq, Unmask
  <2>3. CASE FreeIrq(s)  BY <2>3 DEF FreeIrq
  <2> QED BY <1>1, <2>1, <2>2, <2>3
<1>2. ASSUME NEW l \in Lines, StrayUp(l) \/ StrayDown(l)
      PROVE  TypeOK'
  <2>1. CASE StrayUp(l)
    <3>1. strays' \subseteq Lines  BY <2>1 DEF StrayUp
    <3>2. stray_ups' \in 0..MaxStrays  BY <2>1 DEF StrayUp
    <3> QED BY <2>1, <3>1, <3>2 DEF StrayUp
  <2>2. CASE StrayDown(l)
    <3>1. strays' \subseteq Lines  BY <2>2 DEF StrayDown
    <3> QED BY <2>2, <3>1 DEF StrayDown
  <2> QED BY <1>2, <2>1, <2>2
<1>3. CASE Tick  BY <1>3 DEF Tick
<1>4. CASE Follow  BY <1>4 DEF Follow
<1>5. CASE Take  BY <1>5 DEF Take, Cause
<1>6. CASE Dispatch
  <2>1. CASE DispatchTimer  BY <2>1 DEF DispatchTimer
  <2>2. CASE DispatchClaimed
    <3>1. level' \subseteq Sources  BY <2>2 DEF DispatchClaimed
    <3>2. out' \in BOOLEAN  BY <2>2, Zenon DEF DispatchClaimed
    <3> QED BY <2>2, <3>1, <3>2 DEF DispatchClaimed
  <2>3. CASE DispatchUnclaimed
    BY <2>3 DEF DispatchUnclaimed, MaskUnclaimed, QueueReport
  <2>4. CASE DispatchRunaway
    BY <2>4 DEF DispatchRunaway, ClearStatus
  <2> QED BY <1>6, <2>1, <2>2, <2>3, <2>4 DEF Dispatch
<1>7. CASE Works
  <2>1. CASE ReportStart
    <3>1. unclaimed_work' \in BOOLEAN
      BY <2>1, Zenon DEF ReportStart
    <3>2. cursor' = 0
      BY <2>1, Zenon DEF ReportStart
    <3>3. /\ logged' = logged /\ timer' = timer /\ out' = out
          /\ runaway_work' = runaway_work
      BY <2>1 DEF ReportStart
    <3>4. UNCHANGED <<level, mask, strays, claimed, im, pending, mv_unclaimed,
                      cascade_runaway_mask, silenced, events, claims, stray_ups,
                      pokes>>
      BY <2>1 DEF ReportStart
    <3> QED BY <3>1, <3>2, <3>3, <3>4
  <2>2. CASE ReportBit
    <3>1. PICK b \in Sources :
            /\ logged' = logged \cup {[source |-> b]}
            /\ mv_unclaimed' = mv_unclaimed \ {b} /\ cursor' = b + 1
      BY <2>2 DEF ReportBit
    <3>2. [source |-> b] \in [source : Sources]  OBVIOUS
    <3>3. cursor' \in 0..64  BY <3>1
    <3>4. logged' \subseteq [source : Sources] \cup [line : Lines]
      BY <3>1, <3>2
    <3>5. mv_unclaimed' \subseteq Sources  BY <3>1
    <3> QED BY <2>2, <3>3, <3>4, <3>5 DEF ReportBit
  <2>3. CASE ReportEnd  BY <2>3 DEF ReportEnd
  <2>4. CASE CascadeReport
    <3>1. \A l \in Lines : [line |-> l] \in [line : Lines]  OBVIOUS
    <3>2. logged' \subseteq [source : Sources] \cup [line : Lines]
      BY <2>4, <3>1 DEF CascadeReport
    <3> QED BY <2>4, <3>2 DEF CascadeReport
  <2> QED BY <1>7, <2>1, <2>2, <2>3, <2>4 DEF Works
<1>8. ASSUME NEW field \in Fields, NEW value \in SUBSET field, Poke(field, value)
      PROVE  TypeOK'
  <2>1. field \subseteq Sources  BY DEF Fields
  <2> QED BY <1>8, <2>1 DEF Poke
<1>9. CASE UNCHANGED vars  BY <1>9 DEF vars
<1> QED BY <1>1, <1>2, <1>3, <1>4, <1>5, <1>6, <1>7, <1>8, <1>9 DEF Next

\* Steps that touch neither the controller nor a claim.
LEMMA AsideKeeps ==
  ASSUME IInv, TypeOK',
         UNCHANGED <<mask, claimed, claims, pokes, silenced>>,
         level \subseteq level',
         out' = out \/ ~out' \/ Serviceable' # {},
         pending' \subseteq pending \/ Wired \notin pending' \/ out,
         Wired \in im => Wired \in im',
         Wired \notin strays'
  PROVE  IInv'
<1>1. MaskIsClaims' /\ Counted' /\ (Quiet' => Quiet)
  BY DEF IInv, MaskIsClaims, Counted, Quiet
<1>2. Serviceable \subseteq Serviceable'
  BY DEF Serviceable
<1> QED BY <1>1, <1>2 DEF IInv, Backed, Apart

\* Every step keeps the invariant.
LEMMA StepHolds == IInv /\ [Next]_vars => IInv'
<1> SUFFICES ASSUME IInv, [Next]_vars  PROVE IInv'
  OBVIOUS
<1>0. TypeOK'  BY TypeStep DEF IInv
<1>1. ASSUME NEW s \in Sources, Raise(s)  PROVE IInv'
  BY <1>0, <1>1, AsideKeeps DEF IInv, Apart, Raise
<1>2. ASSUME NEW s \in Sources, RequestIrq(s)  PROVE IInv'
  <2>1. /\ claimed' = claimed \cup {s} /\ mask' = mask \cup {s}
        /\ claims' = claims + 1 /\ claims \in Nat
        /\ UNCHANGED <<level, out, strays, pending, im, pokes>> /\ s \notin claimed
        /\ silenced' = silenced \ {s}
    BY <1>2, IrqAssumption DEF RequestIrq, Unmask, IInv, TypeOK
  <2>2. /\ IsFiniteSet(claimed') /\ Cardinality(claimed') = Cardinality(claimed) + 1
        /\ Cardinality(claimed) \in Nat
    BY <2>1, FS_AddElement, FS_CardinalityType DEF IInv, Counted
  <2>3. Counted' /\ (Quiet' => Quiet)
    BY <2>1, <2>2 DEF IInv, Counted, Quiet
  <2>4. MaskIsClaims'  BY <2>1 DEF IInv, MaskIsClaims
  <2>5. Serviceable \subseteq Serviceable'  BY <2>1 DEF Serviceable
  <2> QED BY <1>0, <2>1, <2>3, <2>4, <2>5 DEF IInv, Backed, Apart
<1>3. ASSUME NEW s \in Sources, FreeIrq(s)  PROVE IInv'
  <2>1. /\ claimed' = claimed \ {s} /\ mask' = mask \ {s}
        /\ claims' = claims + 1 /\ claims \in Nat /\ UNCHANGED <<pokes, strays, silenced>>
        /\ s \in claimed
    BY <1>3, IrqAssumption DEF FreeIrq, IInv, TypeOK
  <2>2. /\ IsFiniteSet(claimed') /\ Cardinality(claimed') = Cardinality(claimed) - 1
        /\ Cardinality(claimed) \in Nat
    BY <2>1, FS_RemoveElement, FS_CardinalityType DEF IInv, Counted
  <2>3. Counted' /\ ~Quiet'
    BY <2>1, <2>2 DEF IInv, Counted, Quiet
  <2>4. MaskIsClaims'  BY <2>1 DEF IInv, MaskIsClaims
  <2> QED BY <1>0, <2>1, <2>3, <2>4 DEF IInv, Backed, Apart
<1>4. ASSUME NEW field \in Fields, NEW value \in SUBSET field, Poke(field, value)
      PROVE  IInv'
  <2>1. /\ mask' = (mask \ field) \cup value
        /\ silenced' = (silenced \cup field) \ value
        /\ UNCHANGED <<claimed, claims, strays>>
        /\ pokes' = pokes + 1 /\ pokes \in Nat
    BY <1>4, IrqAssumption DEF Poke, IInv, TypeOK
  <2>2. MaskIsClaims' /\ Counted' /\ ~Quiet'
    BY <2>1 DEF IInv, MaskIsClaims, Counted, Quiet
  <2> QED BY <1>0, <2>1, <2>2 DEF IInv, Backed, Apart
<1>5. ASSUME NEW l \in Lines, StrayUp(l) \/ StrayDown(l)  PROVE IInv'
  BY <1>0, <1>5, AsideKeeps DEF IInv, Apart, StrayUp, StrayDown, controller, bounds
<1>6. CASE Tick
  BY <1>0, <1>6, AsideKeeps DEF IInv, Apart, Tick, controller
<1>7. CASE Follow
  <2>1. out' => Serviceable' # {}
    BY <1>7 DEF Follow, Serviceable, controller, IInv, TypeOK
  <2> QED BY <1>0, <1>7, <2>1, AsideKeeps DEF IInv, Apart, Follow, controller, bounds
<1>8. CASE Take
  <2>1. Wired \in pending' => out \/ Wired \in strays
    BY <1>8, IrqAssumption DEF Take, Cause, Timer
  <2> QED BY <1>0, <1>8, <2>1, AsideKeeps DEF IInv, Apart, Take, controller, bounds
<1>9. CASE DispatchTimer
  BY <1>0, <1>9, AsideKeeps DEF IInv, Apart, DispatchTimer, controller, bounds
<1>10. CASE DispatchClaimed
  <2>1. /\ UNCHANGED <<mask, strays, claimed, im, claims, pokes, silenced>>
        /\ pending' = {}
    BY <1>10 DEF DispatchClaimed, bounds
  <2>2. out' => Serviceable' # {}
    BY <1>10, <2>1 DEF DispatchClaimed, Serviceable
  <2>3. MaskIsClaims' /\ Counted' /\ Apart' /\ (Quiet' => Quiet)
    BY <2>1 DEF IInv, MaskIsClaims, Counted, Apart, Quiet
  <2> QED BY <1>0, <2>1, <2>2, <2>3 DEF IInv, Backed
<1>11. CASE DispatchUnclaimed
  <2>1. /\ UNCHANGED <<level, out, strays, claimed, im, claims, pokes, silenced>>
        /\ pending' = {}
    BY <1>11 DEF DispatchUnclaimed, bounds
  <2>2. PICK b \in Sources \ claimed : b \in mask /\ mask' = mask \ {b}
    BY <1>11 DEF DispatchUnclaimed, MaskUnclaimed, IsLowest, Serviceable
  <2>3. pokes # 0 /\ ~Quiet'
    BY <2>1, <2>2 DEF IInv, MaskIsClaims, Quiet
  <2>4. MaskIsClaims' /\ Counted' /\ Apart'
    BY <2>1, <2>2, <2>3 DEF IInv, MaskIsClaims, Counted, Apart
  <2> QED BY <1>0, <2>3, <2>4 DEF IInv, Backed
<1>12. CASE DispatchRunaway
  <2>1. /\ UNCHANGED <<level, mask, out, strays, claimed, claims, pokes, silenced>>
        /\ pending' = {} /\ im' = im \ pending /\ Serviceable = {}
    BY <1>12 DEF DispatchRunaway, ClearStatus, controller, bounds
  <2>2. MaskIsClaims' /\ Counted' /\ Apart' /\ (Quiet' => Quiet)
    BY <2>1 DEF IInv, MaskIsClaims, Counted, Apart, Quiet
  <2>3. Serviceable' = Serviceable  BY <2>1 DEF Serviceable
  <2> QED BY <1>0, <2>1, <2>2, <2>3 DEF IInv, Backed
<1>13. CASE Works
  <2>1. UNCHANGED <<level, mask, out, strays, claimed, im, pending, claims, pokes,
                   silenced>>
    BY <1>13 DEF Works, ReportStart, ReportBit, ReportEnd, CascadeReport,
                 controller, bounds
  <2> QED BY <1>0, <2>1, AsideKeeps DEF IInv, Apart
<1>14. CASE UNCHANGED vars
  BY <1>0, <1>14, AsideKeeps DEF IInv, Apart, vars, controller, bounds
<1> QED BY <1>1, <1>2, <1>3, <1>4, <1>5, <1>6, <1>7, <1>8, <1>9, <1>10, <1>11,
           <1>12, <1>13, <1>14
  DEF Next, Dispatch

\* The invariant holds throughout.
LEMMA Invariant == Spec => []IInv
  BY InitHolds, StepHolds, PTL DEF Spec

\* Masks, bitmaps and the report's cursor stay within the wired sources and
\* lines, whatever is raised, claimed or poked.
THEOREM TypeInvariant == Spec => []TypeOK
<1>1. IInv => TypeOK  BY DEF IInv
<1> QED BY <1>1, Invariant, PTL

\* A driver's source is let through for as long as the driver has it and no poke
\* has masked it since: mv64340_irq_dispatch masks only sources without an action.
THEOREM ListensProved == Spec => []ClaimedListens
<1>1. IInv => ClaimedListens  BY DEF IInv, MaskIsClaims, ClaimedListens
<1> QED BY <1>1, Invariant, PTL

\* The guard of plat_irq_dispatch never masks the controller's own line in a
\* machine in which no source was freed and none poked.
THEOREM CascadeProved == Spec => []CascadeKept
<1>1. IInv => CascadeKept  BY DEF IInv, Backed, Quiet, CascadeKept
<1> QED BY <1>1, Invariant, PTL

=============================================================================
