---------------------- MODULE SolutionSequences_proofs ----------------------
(***************************************************************************)
(* Theorems about the nonlinear loops of a time step, for any partition,   *)
(* penalties, rifts and limits, and whatever the solutions do.             *)
(***************************************************************************)
EXTENDS SolutionSequences, Reductions, Integers, FiniteSetTheorems,
        SequenceTheorems, TLAPS

(***************************************************************************)
(* A nonempty finite set of integers has a largest element: MaxOf finds it. *)
(***************************************************************************)
LEMMA MaxOfFinite ==
  ASSUME NEW S \in SUBSET Int, IsFiniteSet(S), S # {}
  PROVE  MaxOf(S) \in S /\ \A x \in S : x <= MaxOf(S)
<1> DEFINE Above(x) == {y \in S : x < y}
<1> DEFINE T == {Above(x) : x \in S}
<1>1. IsWellFoundedOn(StrictSubsetOrdering(Int), FiniteSubsetsOf(Int))
  BY FS_StrictSubsetOrderingWellFounded
<1>2. T \subseteq FiniteSubsetsOf(Int)
  <2>1. ASSUME NEW x \in S
        PROVE  IsFiniteSet(Above(x)) /\ Above(x) \subseteq Int
    BY FS_Subset, Above(x) \subseteq S
  <2> QED BY <2>1 DEF FiniteSubsetsOf
<1>3. T # {}
  OBVIOUS
<1>4. PICK b \in T : \A c \in T : <<c, b>> \notin StrictSubsetOrdering(Int)
  <2> HIDE DEF T
  <2> QED BY <1>1, <1>2, <1>3, WFMin
<1>5. PICK m \in S : b = Above(m)
  OBVIOUS
<1>6. ASSUME NEW y \in S, m < y
      PROVE  FALSE
  <2>1. Above(y) \subseteq Above(m) /\ Above(y) # Above(m)
    <3>1. \A z \in Above(y) : z \in Int /\ y < z /\ z \in S
      OBVIOUS
    <3>2. \A z \in Above(y) : m < z
      BY <3>1, <1>6
    <3>3. y \in Above(m) /\ y \notin Above(y)
      BY <1>6
    <3> QED BY <3>1, <3>2, <3>3
  <2>2. <<Above(y), Above(m)>> \in StrictSubsetOrdering(Int)
    BY <2>1 DEF StrictSubsetOrdering
  <2> QED BY <2>2, <1>4, <1>5
<1>7. m \in S /\ \A x \in S : x <= m
  BY <1>6
<1> QED BY <1>7 DEF MaxOf

(***************************************************************************)
(* The image of a finite set is finite.                                    *)
(***************************************************************************)
LEMMA FiniteImage ==
  ASSUME NEW S, IsFiniteSet(S), NEW f
  PROVE  IsFiniteSet({f[x] : x \in S})
<1> DEFINE T == {f[x] : x \in S}
<1> DEFINE g == [x \in S |-> f[x]]
<1>1. g \in Surjection(S, T)
  BY DEF Surjection
<1> HIDE DEF g, T
<1>2. IsFiniteSet(T)
  BY <1>1, FS_Surjection
<1> QED BY <1>2 DEF T

-----------------------------------------------------------------------------
(***************************************************************************)
(* The counters of the loops.  A counter is tested before it is increased  *)
(* or after it, so that what it may be depends on where the loop is.       *)
(***************************************************************************)
ControlType ==
  /\ pc \in PC /\ settings \in Settings /\ step \in 1..MaxSteps
  /\ vel_converged \in BOOLEAN /\ verdict \in {"none", "criterion", "limit"}

InHydrology == {"sediment", "sedimentSolve", "sedimentHead", "eplSolve", "hydrologyConverges"}

CountersInv ==
  /\ count \in Nat /\ count_local \in Nat
  /\ sedcount \in Nat /\ sedcount <= HydroMaxiter + 1
  /\ eplcount \in Nat /\ eplcount <= HydroMaxiter + 1
  /\ hydrocount \in Nat /\ hydrocount <= HydroMaxiter + 1
  /\ pc = "thermalSolve" => count <= ThermalMaxiter
  /\ pc \in {"fixedPoint", "simpleSolve", "velocity", "pressure"} =>
       count <= StressMaxiter /\ count_local < StressMaxiter
  /\ pc = "velocity" /\ count_local = 0 => count < StressMaxiter
  /\ pc \in {"sedimentSolve", "sedimentHead"} => sedcount <= HydroMaxiter
  /\ pc \in {"sedimentSolve", "sedimentHead", "eplSolve"} => eplcount <= HydroMaxiter
  /\ pc \in InHydrology => hydrocount <= HydroMaxiter

LEMMA Limits ==
  /\ ThermalMaxiter \in Nat /\ ThermalMaxiter >= 1
  /\ HydroMaxiter \in Nat /\ HydroMaxiter >= 1
  /\ StressMaxiter \in Nat /\ StressMaxiter >= 1
  /\ MaxSteps \in Nat /\ MaxSteps >= 1
  /\ ThermalThreshold \in Nat /\ RiftThreshold \in Nat
BY SequenceAssumption, PenaltyAssumption

LEMMA ControlInit == Init => ControlType /\ CountersInv
<1> SUFFICES ASSUME Init PROVE ControlType /\ CountersInv
  OBVIOUS
<1>1. /\ pc = "thermal" /\ step = 1 /\ settings \in Settings /\ vel_converged \in BOOLEAN
      /\ verdict = "none" /\ count = 0 /\ count_local = 0 /\ sedcount = 0 /\ eplcount = 0 /\ hydrocount = 0
  BY DEF Init
<1>2. ControlType
  BY <1>1, Limits DEF ControlType, PC
<1>3. CountersInv
  BY <1>1, Limits DEF CountersInv, InHydrology
<1> QED BY <1>2, <1>3

LEMMA ControlNext == ControlType /\ [Next]_vars => ControlType'
<1> SUFFICES ASSUME ControlType, [Next]_vars PROVE ControlType'
  OBVIOUS
<1> USE Limits DEF ControlType, Goto, Ended, Forgotten, Unchanged, counts, history, PC
<1>1. CASE Thermal
  BY <1>1 DEF Thermal, SkipThermal, BeginThermal, ThermalSolve, EnthalpySolve
<1>2. CASE Hydrology
  BY <1>2 DEF Hydrology, SkipHydrology, BeginHydrology, BeginSediment, SedimentSolve, SedimentGoesOn,
              SedimentConverges, BeginEpl, EplSolve, HydrologyConverges
<1>3. CASE Stressbalance
  BY <1>3 DEF Stressbalance, BeginStressbalance, FixedPoint, SimpleSolve, Velocity, Pressure
<1>4. CASE EndStep
  BY <1>4 DEF EndStep
<1>5. CASE UNCHANGED vars
  BY <1>5 DEF vars
<1> QED BY <1>1, <1>2, <1>3, <1>4, <1>5 DEF Next

LEMMA CountersNext == ControlType /\ CountersInv /\ [Next]_vars => CountersInv'
<1> SUFFICES ASSUME ControlType, CountersInv, [Next]_vars PROVE CountersInv'
  OBVIOUS
<1> USE Limits DEF CountersInv, Goto, InHydrology
<1>1. CASE SkipThermal \/ SkipHydrology
  BY <1>1 DEF SkipThermal, SkipHydrology, counts
<1>2. CASE BeginThermal
  BY <1>2 DEF BeginThermal
<1>3. ASSUME NEW over \in Overs, ThermalSolve(over) PROVE CountersInv'
  BY <1>3 DEF ThermalSolve
<1>4. ASSUME NEW converged \in BOOLEAN, EnthalpySolve(converged) PROVE CountersInv'
  BY <1>4 DEF EnthalpySolve
<1>5. CASE BeginHydrology
  BY <1>5 DEF BeginHydrology
<1>6. CASE BeginSediment
  BY <1>6 DEF BeginSediment
<1>7. ASSUME NEW over \in Overs, SedimentSolve(over) PROVE CountersInv'
  BY <1>7 DEF SedimentSolve, SedimentFails
<1>8. CASE SedimentGoesOn
  BY <1>8 DEF SedimentGoesOn, counts
<1>9. CASE SedimentConverges
  BY <1>9 DEF SedimentConverges
<1>10. ASSUME NEW d \in EplFields, BeginEpl(d) PROVE CountersInv'
  BY <1>10 DEF BeginEpl, counts
<1>11. ASSUME NEW d \in EplFields, NEW converged \in BOOLEAN, EplSolve(converged, d) PROVE CountersInv'
  BY <1>11 DEF EplSolve
<1>12. ASSUME NEW converged \in BOOLEAN, HydrologyConverges(converged) PROVE CountersInv'
  BY <1>12 DEF HydrologyConverges, NextHydrocount
<1>13. CASE BeginStressbalance
  BY <1>13 DEF BeginStressbalance
<1>14. ASSUME NEW converged \in BOOLEAN, NEW penetrated \in SUBSET Rift, FixedPoint(converged, penetrated)
       PROVE  CountersInv'
  BY <1>14 DEF FixedPoint
<1>15. ASSUME NEW converged \in BOOLEAN, SimpleSolve(converged) PROVE CountersInv'
  BY <1>15 DEF SimpleSolve, AtLimit
<1>16. ASSUME NEW converged \in BOOLEAN, Velocity(converged) PROVE CountersInv'
  BY <1>16 DEF Velocity, AtLimit
<1>17. ASSUME NEW converged \in BOOLEAN, Pressure(converged) PROVE CountersInv'
  BY <1>17 DEF Pressure, AtLimit, counts
<1>18. CASE EndStep
  BY <1>18 DEF EndStep, counts
<1>19. CASE UNCHANGED vars
  BY <1>19 DEF vars, counts
<1> QED BY <1>1, <1>2, <1>3, <1>4, <1>5, <1>6, <1>7, <1>8, <1>9, <1>10, <1>11, <1>12, <1>13, <1>14, <1>15,
           <1>16, <1>17, <1>18, <1>19 DEF Next, Thermal, Hydrology, Stressbalance

-----------------------------------------------------------------------------
(***************************************************************************)
(* The types of the loads and of the layer.                                *)
(***************************************************************************)
LoadsType ==
  /\ DOMAIN pengrids = Penalized
  /\ \A a \in Penalized : pengrids[a] \in [PengridsOf(a) -> [active : {0, 1}, zigzag : Nat]]
  /\ rifts \in [Rift -> RiftStates] /\ savedloads \in [Rift -> RiftStates]

LayerType ==
  /\ mask \in SUBSET Node /\ eplactive \in SUBSET Node /\ l2active \in SUBSET Node
  /\ eplzigzag_counter \in [Copies -> Nat]
  /\ flips \in [Node -> Nat]

LEMMA TypeOKIs == ControlType /\ CountersInv /\ LoadsType /\ LayerType => TypeOK
<1> SUFFICES ASSUME ControlType, CountersInv, LoadsType, LayerType PROVE TypeOK
  OBVIOUS
<1>1. {sedcount, eplcount, hydrocount} \subseteq 0..(HydroMaxiter + 1)
  BY Limits DEF CountersInv
<1>2. {mask, eplactive, l2active} \subseteq SUBSET Node
  BY DEF LayerType
<1> QED BY <1>1, <1>2 DEF TypeOK, ControlType, CountersInv, LoadsType, LayerType

PengridStates == [active : {0, 1}, zigzag : Nat]

LEMMA PenaltyLimits ==
  /\ RiftLock \in Nat /\ RiftThreshold \in Nat
  /\ \A a \in Penalized : PenaltyLock[a] \in Nat
  /\ "thermal" \in Penalized /\ "hydrology" \in Penalized
BY PenaltyAssumption DEF Penalized

LEMMA ResetTypes ==
  ASSUME NEW a \in Penalized, NEW p \in [PengridsOf(a) -> PengridStates]
  PROVE  /\ ResetConstraint(a) \in [PengridsOf(a) -> PengridStates]
         /\ ResetPenalties(p) \in [PengridsOf(a) -> PengridStates]
BY DEF ResetConstraint, ResetPenalties, Released, PengridStates

LEMMA ActivateType ==
  ASSUME NEW a \in Penalized, NEW p \in [PengridsOf(a) -> PengridStates], NEW over
  PROVE  ConstraintActivate(a, p, over) \in [PengridsOf(a) -> PengridStates]
<1> SUFFICES ASSUME NEW x \in PengridsOf(a)
             PROVE  ConstraintActivate(a, p, over)[x] \in PengridStates
  BY DEF ConstraintActivate
<1>1. p[x] \in PengridStates /\ p[x].zigzag \in Nat
  BY DEF PengridStates
<1>2. Zigzag(a, p, over, x) \in Nat
  BY <1>1 DEF Zigzag
<1> QED BY <1>1, <1>2 DEF ConstraintActivate, PengridStates

LEMMA ConstrainedRiftType ==
  ASSUME NEW s \in [Rift -> RiftStates], NEW penetrated, NEW f \in Rift
  PROVE  ConstrainedRift(s, penetrated, f) \in RiftStates
<1>1. s[f] \in RiftStates /\ s[f].counter \in 0..(RiftLock + 1)
  BY DEF RiftStates
<1>2. RiftCounter(s, penetrated, f) \in 0..(RiftLock + 1)
  BY <1>1, PenaltyLimits DEF RiftCounter
<1>3. \A b \in BOOLEAN : [s[f] EXCEPT !.active = b] \in RiftStates
  BY <1>1 DEF RiftStates
<1>4. \A b \in BOOLEAN, c \in 0..(RiftLock + 1) :
        [s[f] EXCEPT !.active = b, !.counter = c] \in RiftStates
  BY <1>1 DEF RiftStates
<1>5. (RiftState[f] = "closed") \in BOOLEAN /\ (f \in penetrated) \in BOOLEAN
  OBVIOUS
<1> QED BY <1>1, <1>2, <1>3, <1>4, <1>5 DEF ConstrainedRift

LEMMA RiftStateType ==
  ASSUME NEW s \in [Rift -> RiftStates], NEW penetrated
  PROVE  RiftConstraintsState(s, penetrated) \in [Rift -> RiftStates]
<1> SUFFICES ASSUME NEW f \in Rift
             PROVE  RiftConstraintsState(s, penetrated)[f] \in RiftStates
  BY DEF RiftConstraintsState
<1>1. ConstrainedRift(s, penetrated, f) \in RiftStates
  BY ConstrainedRiftType
<1>2. [ConstrainedRift(s, penetrated, f) EXCEPT !.frozen = TRUE] \in RiftStates
  BY <1>1 DEF RiftStates
<1> QED BY <1>1, <1>2 DEF RiftConstraintsState

LEMMA LoadsInit == Init => LoadsType
<1> SUFFICES ASSUME Init PROVE LoadsType
  OBVIOUS
<1>1. pengrids = [a \in Penalized |-> ResetConstraint(a)] /\ rifts = [f \in Rift |-> Intact] /\ savedloads = rifts
  BY DEF Init
<1>2. Intact \in RiftStates
  BY PenaltyLimits DEF Intact, RiftStates
<1>3. \A a \in Penalized : ResetConstraint(a) \in [PengridsOf(a) -> [active : {0, 1}, zigzag : Nat]]
  BY DEF ResetConstraint, Released
<1> QED BY <1>1, <1>2, <1>3 DEF LoadsType

LEMMA LoadsNext == LoadsType /\ [Next]_vars => LoadsType'
<1> SUFFICES ASSUME LoadsType, [Next]_vars PROVE LoadsType'
  OBVIOUS
<1>1. \A a \in Penalized : pengrids[a] \in [PengridsOf(a) -> PengridStates]
  BY DEF LoadsType, PengridStates
<1>2. ASSUME UNCHANGED <<rifts, savedloads>>,
             \/ pengrids' = pengrids
             \/ pengrids' = [a \in Penalized |-> ResetPenalties(pengrids[a])]
             \/ pengrids' = [a \in Penalized |-> IF a = "hydrology" THEN ResetConstraint(a)
                                                 ELSE ResetPenalties(pengrids[a])]
             \/ \E b \in Penalized, over \in Overs :
                  pengrids' = [pengrids EXCEPT ![b] = ConstraintActivate(b, @, over)]
      PROVE  LoadsType'
  <2>1. DOMAIN pengrids' = Penalized
    BY <1>2 DEF LoadsType
  <2>2. ASSUME NEW a \in Penalized PROVE pengrids'[a] \in [PengridsOf(a) -> PengridStates]
    <3>1. /\ ResetConstraint(a) \in [PengridsOf(a) -> PengridStates]
          /\ ResetPenalties(pengrids[a]) \in [PengridsOf(a) -> PengridStates]
      BY <1>1, ResetTypes
    <3>2. \A over : ConstraintActivate(a, pengrids[a], over) \in [PengridsOf(a) -> PengridStates]
      BY <1>1, ActivateType
    <3> QED BY <1>1, <1>2, <3>1, <3>2 DEF LoadsType
  <2> QED BY <1>2, <2>1, <2>2 DEF LoadsType, PengridStates
<1>3. CASE BeginStressbalance
  <2>1. \A a \in Penalized : ResetConstraint(a) \in [PengridsOf(a) -> PengridStates]
    BY <1>1, ResetTypes
  <2>2. rifts' = rifts /\ savedloads' \in {rifts, savedloads}
    BY <1>3 DEF BeginStressbalance
  <2>3. pengrids' = pengrids \/ pengrids' = [a \in Penalized |-> ResetConstraint(a)]
    BY <1>3 DEF BeginStressbalance
  <2> QED BY <2>1, <2>2, <2>3 DEF LoadsType, PengridStates
<1>4. ASSUME NEW converged \in BOOLEAN, NEW penetrated \in SUBSET Rift, FixedPoint(converged, penetrated)
      PROVE  LoadsType'
  <2>1. RiftConstraintsState(rifts, penetrated) \in [Rift -> RiftStates]
    BY RiftStateType DEF LoadsType
  <2>2. UNCHANGED <<pengrids, savedloads>> /\ rifts' \in {savedloads, RiftConstraintsState(rifts, penetrated)}
    BY <1>4 DEF FixedPoint
  <2> QED BY <2>1, <2>2 DEF LoadsType
<1>5. CASE Thermal
  <2>1. CASE SkipThermal \/ \E converged \in BOOLEAN : EnthalpySolve(converged)
    BY <1>2, <2>1 DEF SkipThermal, EnthalpySolve, loads
  <2>2. CASE BeginThermal
    BY <1>2, <2>2 DEF BeginThermal
  <2>3. CASE \E over \in Overs : ThermalSolve(over)
    BY <1>2, <2>3, PenaltyLimits DEF ThermalSolve
  <2> QED BY <1>5, <2>1, <2>2, <2>3 DEF Thermal
<1>6. CASE Hydrology
  <2>1. CASE \/ SkipHydrology \/ BeginHydrology \/ SedimentGoesOn \/ SedimentConverges
             \/ \E d \in EplFields, converged \in BOOLEAN : EplSolve(converged, d)
             \/ \E converged \in BOOLEAN : HydrologyConverges(converged)
    BY <1>2, <2>1 DEF SkipHydrology, BeginHydrology, SedimentGoesOn, SedimentConverges, EplSolve,
                      HydrologyConverges, loads
  <2>2. CASE BeginSediment
    BY <1>2, <2>2 DEF BeginSediment
  <2>3. CASE \E over \in Overs : SedimentSolve(over)
    BY <1>2, <2>3, PenaltyLimits DEF SedimentSolve
  <2>4. CASE \E d \in EplFields : BeginEpl(d)
    BY <1>2, <2>4 DEF BeginEpl
  <2> QED BY <1>6, <2>1, <2>2, <2>3, <2>4 DEF Hydrology
<1>7. CASE EndStep \/ UNCHANGED vars
  BY <1>2, <1>7 DEF EndStep, vars, loads
<1>8. ASSUME NEW converged \in BOOLEAN, SimpleSolve(converged) \/ Velocity(converged) \/ Pressure(converged)
      PROVE  LoadsType'
  BY <1>2, <1>8 DEF SimpleSolve, Velocity, Pressure, loads
<1> QED BY <1>3, <1>4, <1>5, <1>6, <1>7, <1>8 DEF Next, Stressbalance

LEMMA ActiveNodesType ==
  ASSUME NEW S
  PROVE  ActiveNodes(S) \in SUBSET Node
<1> SUFFICES ASSUME NEW e \in Element, NEW n \in NodesIn(e) PROVE n \in Node
  BY DEF ActiveNodes
<1>1. PICK r \in Rank : e \in {ElementsOf[r][k] : k \in DOMAIN ElementsOf[r]}
  BY DEF Element
<1>3. PICK k \in DOMAIN ElementsOf[r] : e = ElementsOf[r][k]
  BY <1>1
<1>2. NodesIn(ElementsOf[r][k]) \subseteq NodesOf[r]
  BY EplAssumption
<1> QED BY <1>3, <1>2 DEF Node

LEMMA CountedType ==
  ASSUME NEW c \in [Copies -> Nat], NEW S
  PROVE  Counted(c, S) \in [Copies -> Nat]
BY EplAssumption DEF Counted

LEMMA AssembledMaskType ==
  ASSUME NEW c, NEW S, NEW d
  PROVE  AssembledMask(c, S, d) \in SUBSET Node
BY DEF AssembledMask

LEMMA LayerInit == Init => LayerType
<1> SUFFICES ASSUME Init PROVE LayerType
  OBVIOUS
<1>1. mask \in SUBSET Node
  BY SequenceAssumption DEF Init
<1>2. eplzigzag_counter \in [Copies -> Nat] /\ flips \in [Node -> Nat]
  BY DEF Init, InitZigZagCounter
<1>3. eplactive = {} /\ l2active = {}
  BY DEF Init
<1> QED BY <1>1, <1>2, <1>3 DEF LayerType

\* How the layer changes, in a step that updates it and in one that does not.
LEMMA LayerSteps ==
  ASSUME [Next]_vars
  PROVE  \/ UNCHANGED <<mask, eplzigzag_counter, eplactive, l2active, flips>>
         \/ /\ eplzigzag_counter' = InitZigZagCounter /\ flips' = [n \in Node |-> 0]
            /\ UNCHANGED <<mask, eplactive, l2active>>
         \/ \E d \in EplFields :
              /\ l2active' \in {l2active, ActiveNodes(mask)}
              /\ UpdateDomain(d)
         \/ \E d \in EplFields :
              /\ l2active' = ActiveNodes(mask)
              /\ mask' = AssembledMask(Counted(eplzigzag_counter, Recurrence(mask, d)), mask, d)
              /\ eplactive' = ActiveNodes(mask')
              /\ eplzigzag_counter' = InitZigZagCounter
              /\ flips' = [n \in Node |-> 0]
<1>1. CASE Thermal
  BY <1>1 DEF Thermal, SkipThermal, BeginThermal, ThermalSolve, EnthalpySolve, epl
<1>2. CASE \/ SkipHydrology \/ BeginSediment \/ \E over \in Overs : SedimentSolve(over)
           \/ SedimentGoesOn \/ SedimentConverges
           \/ \E converged \in BOOLEAN : HydrologyConverges(converged)
  BY <1>2 DEF SkipHydrology, BeginSediment, SedimentSolve, SedimentGoesOn, SedimentConverges,
              HydrologyConverges, epl
<1>3. CASE BeginHydrology
  BY <1>3 DEF BeginHydrology
<1>4. ASSUME NEW d \in EplFields, BeginEpl(d)
      PROVE  l2active' = l2active /\ UpdateDomain(d)
  BY <1>4 DEF BeginEpl
<1>5. ASSUME NEW d \in EplFields, NEW converged \in BOOLEAN, EplSolve(converged, d)
      PROVE  /\ l2active' = ActiveNodes(mask)
             /\ \/ UpdateDomain(d)
                \/ /\ mask' = AssembledMask(Counted(eplzigzag_counter, Recurrence(mask, d)), mask, d)
                   /\ eplactive' = ActiveNodes(mask')
                   /\ eplzigzag_counter' = InitZigZagCounter
                   /\ flips' = [n \in Node |-> 0]
  BY <1>5 DEF EplSolve
<1>6. CASE Stressbalance
  BY <1>6 DEF Stressbalance, BeginStressbalance, FixedPoint, SimpleSolve, Velocity, Pressure, epl
<1>7. CASE EndStep \/ UNCHANGED vars
  BY <1>7 DEF EndStep, vars, epl
<1> QED BY <1>1, <1>2, <1>3, <1>4, <1>5, <1>6, <1>7 DEF Next, Hydrology

LEMMA LayerNext == LayerType /\ [Next]_vars => LayerType'
<1> SUFFICES ASSUME LayerType, [Next]_vars PROVE LayerType'
  OBVIOUS
<1>1. InitZigZagCounter \in [Copies -> Nat] /\ [n \in Node |-> 0] \in [Node -> Nat]
  BY DEF InitZigZagCounter
<1>2. ActiveNodes(mask) \in SUBSET Node
  BY ActiveNodesType
<1>3. ASSUME NEW c, NEW d, mask' = AssembledMask(c, mask, d), eplactive' = ActiveNodes(mask')
      PROVE  mask' \in SUBSET Node /\ eplactive' \in SUBSET Node
  <2>1. PICK S : S = mask'
    OBVIOUS
  <2>2. ActiveNodes(S) \in SUBSET Node /\ AssembledMask(c, mask, d) \in SUBSET Node
    BY ActiveNodesType, AssembledMaskType
  <2>3. eplactive' = ActiveNodes(S)
    BY <1>3, <2>1
  <2> QED BY <1>3, <2>2, <2>3
<1>4. ASSUME NEW d \in EplFields, UpdateDomain(d)
      PROVE  /\ mask' \in SUBSET Node /\ eplactive' \in SUBSET Node
             /\ eplzigzag_counter' \in [Copies -> Nat] /\ flips' \in [Node -> Nat]
  <2>1. mask' \in SUBSET Node /\ eplactive' \in SUBSET Node
    BY <1>3, <1>4 DEF UpdateDomain
  <2>2. eplzigzag_counter' \in [Copies -> Nat]
    BY <1>4, CountedType DEF UpdateDomain, LayerType
  <2>3. flips' \in [Node -> Nat]
    BY <1>4 DEF UpdateDomain, LayerType
  <2> QED BY <2>1, <2>2, <2>3
<1> QED BY <1>1, <1>2, <1>3, <1>4, LayerSteps DEF LayerType

\* Every variable of the loops has its type, and every loop stops counting at its limit:
\* no test of a counter lets a loop go on beyond it, whatever the solutions do.
THEOREM SequencesTypeCorrect == Spec => []TypeOK
<1>1. Spec => [](ControlType /\ CountersInv /\ LoadsType /\ LayerType)
  BY ControlInit, ControlNext, CountersNext, LoadsInit, LoadsNext, LayerInit, LayerNext, PTL DEF Spec
<1> QED BY <1>1, TypeOKIs, PTL

-----------------------------------------------------------------------------
(***************************************************************************)
(* The rift segments.  Whether a segment freezes is asked of the counts of *)
(* all the ranks, so that the answer does not depend on the segment.       *)
(***************************************************************************)
FreezeInv ==
  /\ RiftsFreezeTogether
  /\ \A f \in Rift : ~savedloads[f].frozen

\* A segment that is not frozen is given a state and a counter, and is frozen by nothing else.
LEMMA ConstrainedRiftFrozen ==
  ASSUME NEW s \in [Rift -> RiftStates], NEW penetrated, NEW f \in Rift
  PROVE  ConstrainedRift(s, penetrated, f).frozen = s[f].frozen
<1>1. s[f] \in RiftStates
  OBVIOUS
<1>2. ASSUME NEW b, NEW c
      PROVE  /\ [s[f] EXCEPT !.active = b].frozen = s[f].frozen
             /\ [s[f] EXCEPT !.active = b, !.counter = c].frozen = s[f].frozen
  BY <1>1 DEF RiftStates
<1> QED BY <1>2 DEF ConstrainedRift

LEMMA RiftsAfter ==
  ASSUME NEW s \in [Rift -> RiftStates], NEW penetrated, NEW f \in Rift
  PROVE  RiftConstraintsState(s, penetrated)[f].frozen
           = (Freezes(s, penetrated, f) \/ s[f].frozen)
<1> DEFINE rift == ConstrainedRift(s, penetrated, f)
<1>1. s[f].frozen \in BOOLEAN
  BY DEF RiftStates
<1>2. rift.frozen = s[f].frozen
  BY ConstrainedRiftFrozen
<1>3. rift \in RiftStates
  BY ConstrainedRiftType
<1>4. [rift EXCEPT !.frozen = TRUE].frozen = TRUE
  BY <1>3 DEF RiftStates
<1>5. CASE Freezes(s, penetrated, f)
  BY <1>4, <1>5 DEF RiftConstraintsState
<1>6. CASE ~Freezes(s, penetrated, f)
  BY <1>1, <1>2, <1>6 DEF RiftConstraintsState
<1> QED BY <1>5, <1>6

LEMMA FreezeInit == Init => FreezeInv
BY DEF Init, FreezeInv, RiftsFreezeTogether, Intact

\* Outside the fixed point nobody touches the rifts, and their copy is made when none is frozen.
LEMMA RiftSteps ==
  ASSUME [Next]_vars
  PROVE  \/ /\ rifts' = rifts /\ savedloads' = savedloads
            /\ pc = "fixedPoint" => pc' = "fixedPoint"
         \/ pc # "fixedPoint" /\ rifts' = rifts /\ savedloads' = rifts
         \/ \E converged \in BOOLEAN, penetrated \in SUBSET Rift : FixedPoint(converged, penetrated)
<1>1. CASE Thermal
  BY <1>1 DEF Thermal, SkipThermal, BeginThermal, ThermalSolve, EnthalpySolve, loads, Goto
<1>2. CASE Hydrology
  BY <1>2 DEF Hydrology, SkipHydrology, BeginHydrology, BeginSediment, SedimentSolve, SedimentGoesOn,
              SedimentConverges, BeginEpl, EplSolve, HydrologyConverges, loads, Goto
<1>3. CASE BeginStressbalance
  BY <1>3 DEF BeginStressbalance, Goto
<1>4. ASSUME NEW converged \in BOOLEAN, SimpleSolve(converged) \/ Velocity(converged) \/ Pressure(converged)
      PROVE  rifts' = rifts /\ savedloads' = savedloads /\ pc # "fixedPoint"
  BY <1>4 DEF SimpleSolve, Velocity, Pressure, loads, Goto
<1>5. CASE EndStep \/ UNCHANGED vars
  BY <1>5 DEF EndStep, vars, loads, Goto
<1> QED BY <1>1, <1>2, <1>3, <1>4, <1>5 DEF Next, Stressbalance

LEMMA FreezeNext == LoadsType /\ FreezeInv /\ [Next]_vars => FreezeInv'
<1> SUFFICES ASSUME LoadsType, FreezeInv, [Next]_vars PROVE FreezeInv'
  OBVIOUS
<1>1. CASE /\ rifts' = rifts /\ savedloads' = savedloads
           /\ pc = "fixedPoint" => pc' = "fixedPoint"
  BY <1>1 DEF FreezeInv, RiftsFreezeTogether
<1>2. CASE pc # "fixedPoint" /\ rifts' = rifts /\ savedloads' = rifts
  BY <1>2 DEF FreezeInv, RiftsFreezeTogether
<1>3. ASSUME NEW converged \in BOOLEAN, NEW penetrated \in SUBSET Rift, FixedPoint(converged, penetrated)
      PROVE  FreezeInv'
  <2>1. savedloads' = savedloads
    BY <1>3 DEF FixedPoint
  <2>2. CASE rifts' = savedloads
    <3>1. \A f \in Rift : savedloads[f].frozen = FALSE
      BY DEF LoadsType, RiftStates, FreezeInv
    <3> QED BY <2>1, <2>2, <3>1 DEF FreezeInv, RiftsFreezeTogether
  <2>3. CASE rifts' = RiftConstraintsState(rifts, penetrated) /\ pc' = "fixedPoint"
    <3>1. \A f \in Rift : rifts'[f].frozen = (Freezes(rifts, penetrated, f) \/ rifts[f].frozen)
      BY <2>3, RiftsAfter DEF LoadsType
    <3>2. \A f, g \in Rift : Freezes(rifts, penetrated, f) = Freezes(rifts, penetrated, g)
      BY DEF Freezes
    <3>3. \A f, g \in Rift : rifts[f].frozen = rifts[g].frozen
      BY DEF FreezeInv, RiftsFreezeTogether
    <3>4. \A f, g \in Rift : rifts'[f].frozen = rifts'[g].frozen
      BY <3>1, <3>2, <3>3
    <3> QED BY <2>1, <2>3, <3>4 DEF FreezeInv, RiftsFreezeTogether
  <2> QED BY <1>3, <2>2, <2>3 DEF FixedPoint, Goto
<1> QED BY <1>1, <1>2, <1>3, RiftSteps

\* All the rift segments of all the ranks freeze in the same iteration, and none is frozen
\* outside the fixed point: RiftConstraintsState freezes by counts of all the ranks, and
\* the loop gives back the loads that it saved.
THEOREM RiftsFreeze == Spec => []RiftsFreezeTogether
<1>1. Spec => [](LoadsType /\ FreezeInv)
  BY LoadsInit, LoadsNext, FreezeInit, FreezeNext, PTL DEF Spec
<1>2. FreezeInv => RiftsFreezeTogether
  BY DEF FreezeInv
<1> QED BY <1>1, <1>2, PTL

-----------------------------------------------------------------------------
(***************************************************************************)
(* What a loop that has converged leaves behind.                           *)
(***************************************************************************)
SettledInv ==
  /\ ConvergedMeansSettled
  /\ pc = "thermal" => verdict = "none"

LEMMA RiftIsFinite == IsFiniteSet(Rift) /\ IsFiniteSet(Rank)
<1>1. IsFiniteSet(Rank) /\ NumProcs \in Nat
  BY FS_Interval, PenaltyAssumption DEF Rank
<1> DEFINE parts == {RiftsOf[r] : r \in Rank}
<1>2. IsFiniteSet(parts)
  BY <1>1, FiniteImage
<1>3. \A s \in parts : IsFiniteSet(s)
  BY PenaltyAssumption
<1>4. IsFiniteSet(UNION parts)
  <2> HIDE DEF parts
  <2> QED BY <1>2, <1>3, FS_UNION
<1> QED BY <1>1, <1>4 DEF Rift

\* The criterion counts a changing segment once for each rank, which is never less than it
\* should be.  Where the rifts are frozen none changes.
LEMMA FewRiftsChange ==
  ASSUME LoadsType, RiftsFreezeTogether, NEW penetrated \in SUBSET Rift,
         NumUnstableRifts(rifts, penetrated) <= RiftThreshold
  PROVE  Cardinality(UnstableRifts(rifts, penetrated)) <= RiftThreshold
<1> DEFINE c == Cardinality(UnstableRifts(rifts, penetrated))
<1>1. c \in Nat
  BY RiftIsFinite, FS_Subset, FS_CardinalityType, UnstableRifts(rifts, penetrated) \subseteq Rift
     DEF UnstableRifts
<1>2. NumProcs \in Nat /\ NumProcs >= 1 /\ RiftThreshold \in Nat
  BY PenaltyAssumption
<1>3. CASE RiftIsFrozen(rifts)
  <2>1. \A f \in Rift : rifts[f].frozen
    BY <1>3 DEF RiftIsFrozen, RiftsFreezeTogether
  <2>2. UnstableRifts(rifts, penetrated) = {}
    BY <2>1 DEF UnstableRifts, RiftFlips, Untouched
  <2>3. c = 0
    BY <2>2, FS_EmptySet
  <2> QED BY <1>2, <2>3
<1>4. CASE ~RiftIsFrozen(rifts)
  <2>1. NumProcs * c <= RiftThreshold
    BY <1>4 DEF NumUnstableRifts
  <2>2. c <= NumProcs * c
    <3>1. PICK k \in Nat : NumProcs = k + 1
      <4>1. NumProcs - 1 \in Nat /\ NumProcs = (NumProcs - 1) + 1
        BY <1>2
      <4> QED BY <4>1
    <3>2. PICK m : m = c
      OBVIOUS
    <3>3. m \in Nat
      BY <1>1, <3>2
    <3>4. m <= (k + 1) * m
      <4> HIDE DEF c
      <4> QED BY <3>3, SMT
    <3> QED BY <3>1, <3>2, <3>4
  <2>3. NumProcs * c \in Nat
    <3>1. PICK m : m = c
      OBVIOUS
    <3>2. m \in Nat
      BY <1>1, <3>1
    <3>3. NumProcs * m \in Nat
      BY <1>2, <3>2
    <3> QED BY <3>1, <3>3
  <2>4. \A x, y \in Nat : x <= y /\ y <= RiftThreshold => x <= RiftThreshold
    BY <1>2
  <2> QED BY <1>1, <2>1, <2>2, <2>3, <2>4
<1> QED BY <1>3, <1>4

LEMMA SettledInit == Init => SettledInv
BY DEF Init, SettledInv, ConvergedMeansSettled

LEMMA SettledNext == LoadsType /\ FreezeInv /\ SettledInv /\ [Next]_vars => SettledInv'
<1> SUFFICES ASSUME LoadsType, FreezeInv, SettledInv, [Next]_vars PROVE SettledInv'
  OBVIOUS
<1> USE Limits DEF SettledInv, ConvergedMeansSettled, Threshold, Goto, Ended
<1>1. CASE SkipThermal \/ SkipHydrology
  BY <1>1 DEF SkipThermal, SkipHydrology, history
<1>2. CASE BeginThermal \/ BeginSediment
  BY <1>2 DEF BeginThermal, BeginSediment, history
<1>3. ASSUME NEW over \in Overs, ThermalSolve(over) PROVE SettledInv'
  BY <1>3 DEF ThermalSolve, CountOf
<1>4. ASSUME NEW converged \in BOOLEAN, EnthalpySolve(converged) PROVE SettledInv'
  BY <1>4 DEF EnthalpySolve
<1>5. CASE BeginHydrology \/ SedimentGoesOn \/ SedimentConverges \/ BeginStressbalance \/ EndStep
  BY <1>5 DEF BeginHydrology, SedimentGoesOn, SedimentConverges, BeginStressbalance, EndStep, Forgotten
<1>6. ASSUME NEW over \in Overs, SedimentSolve(over) PROVE SettledInv'
  BY <1>6 DEF SedimentSolve, SedimentFails, CountOf
<1>7. ASSUME NEW d \in EplFields, BeginEpl(d) PROVE SettledInv'
  BY <1>7 DEF BeginEpl, Forgotten
<1>8. ASSUME NEW d \in EplFields, NEW converged \in BOOLEAN, EplSolve(converged, d) PROVE SettledInv'
  BY <1>8 DEF EplSolve, history
<1>9. ASSUME NEW converged \in BOOLEAN, HydrologyConverges(converged) \/ Velocity(converged)
      PROVE  SettledInv'
  BY <1>9 DEF HydrologyConverges, Velocity, history
<1>10. ASSUME NEW converged \in BOOLEAN, NEW penetrated \in SUBSET Rift, FixedPoint(converged, penetrated)
       PROVE  SettledInv'
  <2>1. pc' # "thermal" /\ pc' \notin {"hydrology", "sedimentHead"}
    BY <1>10 DEF FixedPoint
  <2>2. verdict' = "criterion" => NumUnstableRifts(rifts, penetrated) <= RiftThreshold
    BY <1>10 DEF FixedPoint
  <2>3. unsettled' = Cardinality(UnstableRifts(rifts, penetrated))
    BY <1>10 DEF FixedPoint
  <2>4. verdict' = "criterion" => unsettled' <= RiftThreshold
    BY <2>2, <2>3, FewRiftsChange DEF FreezeInv
  <2> QED BY <2>1, <2>4
<1>11. ASSUME NEW converged \in BOOLEAN, SimpleSolve(converged) \/ Pressure(converged) PROVE SettledInv'
  BY <1>11 DEF SimpleSolve, Pressure
<1>12. CASE UNCHANGED vars
  BY <1>12 DEF vars, history
<1> QED BY <1>1, <1>2, <1>3, <1>4, <1>5, <1>6, <1>7, <1>8, <1>9, <1>10, <1>11, <1>12
        DEF Next, Thermal, Hydrology, Stressbalance

\* A loop that says it has converged leaves no more changing loads behind, over all the
\* ranks, than it is allowed to: the counts it tests are sums over the ranks, and rifts
\* that it counts as 0 because they are frozen do not change.
THEOREM ConvergedLoopsHaveSettled == Spec => []ConvergedMeansSettled
<1>1. Spec => [](LoadsType /\ FreezeInv /\ SettledInv)
  BY LoadsInit, LoadsNext, FreezeInit, FreezeNext, SettledInit, SettledNext, PTL DEF Spec
<1>2. SettledInv => ConvergedMeansSettled
  BY DEF SettledInv
<1> QED BY <1>1, <1>2, PTL

-----------------------------------------------------------------------------
(***************************************************************************)
(* The mask of the efficient layer.  A node that changes sides was marked  *)
(* as recurrent by an element, so that its counter has moved on every rank *)
(* that holds it, and the rank whose value stays has not locked it.        *)
(***************************************************************************)
LEMMA LastExists ==
  ASSUME NEW S \in SUBSET Int, IsFiniteSet(S), S # {}
  PROVE  \E x \in S : IsLast(x, S)
<1>1. MaxOf(S) \in S /\ \A x \in S : x <= MaxOf(S)
  BY MaxOfFinite
<1> QED BY <1>1 DEF IsLast

LEMMA LastRank ==
  ASSUME NEW locked, NEW writes, NEW n, WritingRanks(locked, writes, n) # {}
  PROVE  \E r \in WritingRanks(locked, writes, n) : IsLast(r, WritingRanks(locked, writes, n))
<1>1. WritingRanks(locked, writes, n) \subseteq Rank
  BY DEF WritingRanks
<1>2. IsFiniteSet(WritingRanks(locked, writes, n))
  BY <1>1, RiftIsFinite, FS_Subset
<1>3. WritingRanks(locked, writes, n) \in SUBSET Int
  BY <1>1 DEF Rank
<1> HIDE DEF WritingRanks
<1> QED BY <1>2, <1>3, LastExists

LEMMA LastWriter ==
  ASSUME NEW writes, NEW r \in Rank, NEW n, Writers(writes, r, n) # {}
  PROVE  \E k \in Writers(writes, r, n) : IsLast(k, Writers(writes, r, n))
<1>1. ElementsOf[r] \in Seq(Element)
  BY EplAssumption
<1>2. PICK len \in Nat : DOMAIN ElementsOf[r] = 1..len
  BY <1>1
<1>3. Writers(writes, r, n) \subseteq 1..len
  BY <1>2 DEF Writers
<1>4. IsFiniteSet(1..len)
  BY FS_Interval
<1>5. IsFiniteSet(Writers(writes, r, n))
  BY <1>3, <1>4, FS_Subset
<1>6. Writers(writes, r, n) \in SUBSET Int
  BY <1>3
<1> QED BY <1>5, <1>6, LastExists

LEMMA ElementOf ==
  ASSUME NEW r \in Rank, NEW k \in DOMAIN ElementsOf[r]
  PROVE  ElementsOf[r][k] \in Element
BY DEF Element

LEMMA HeldNode ==
  ASSUME NEW n \in Node
  PROVE  \E r \in Rank : \E k \in DOMAIN ElementsOf[r] : n \in NodesIn(ElementsOf[r][k]) /\ n \in NodesOf[r]
<1>1. PICK e \in Element : n \in NodesIn(e)
  BY EplAssumption
<1>2. PICK r \in Rank : e \in {ElementsOf[r][k] : k \in DOMAIN ElementsOf[r]}
  BY DEF Element
<1>3. PICK k \in DOMAIN ElementsOf[r] : e = ElementsOf[r][k]
  BY <1>2
<1>4. NodesIn(ElementsOf[r][k]) \subseteq NodesOf[r]
  BY EplAssumption
<1> QED BY <1>1, <1>3, <1>4

LEMMA FlipIsCounted ==
  ASSUME NEW c, NEW S \in SUBSET Node, NEW d, NEW n \in Node,
         ~(n \in S <=> n \in AssembledMask(c, S, d))
  PROVE  /\ n \in Recurrence(S, d)
         /\ \E r \in Rank : <<r, n>> \in Copies /\ ~IsLocked(c, <<r, n>>)
<1> DEFINE writes == {w \in Element \X Node : Writes(S, w[1], d, w[2])}
<1> DEFINE closes == {w \in writes : LeavesOut(S, w[1], d, w[2])}
<1> DEFINE locked == {p \in Copies : IsLocked(c, p)}
<1>1. \A e \in Element : <<e, n>> \in writes <=> Writes(S, e, d, n)
  OBVIOUS
<1>2. \A e \in Element : <<e, n>> \in closes <=> Writes(S, e, d, n) /\ LeavesOut(S, e, d, n)
  BY <1>1
<1>3. \A r \in Rank : <<r, n>> \in locked <=> n \in NodesOf[r] /\ IsLocked(c, <<r, n>>)
  BY DEF Copies
<1>4. n \in AssembledMask(c, S, d) <=>
        \E r \in Rank :
          /\ IsLast(r, WritingRanks(locked, writes, n))
          /\ IF <<r, n>> \in locked THEN n \in S
             ELSE \E k \in DOMAIN ElementsOf[r] :
                    /\ IsLast(k, Writers(writes, r, n))
                    /\ <<ElementsOf[r][k], n>> \notin closes
  BY DEF AssembledMask
<1>5. \A e \in Element : Recurs(S, e, d, n) => n \in Recurrence(S, d)
  BY DEF Recurrence
<1>6. \A r \in Rank : n \in NodesOf[r] => <<r, n>> \in Copies
  BY DEF Copies
<1>7. \A r \in Rank : r \in WritingRanks(locked, writes, n) <=>
        n \in NodesOf[r] /\ (<<r, n>> \in locked \/ Writers(writes, r, n) # {})
  BY DEF WritingRanks
<1>8. \A r \in Rank : \A k \in DOMAIN ElementsOf[r] :
        k \in Writers(writes, r, n) <=> Writes(S, ElementsOf[r][k], d, n)
  BY <1>1, ElementOf DEF Writers
<1>9. \A r \in Rank : Writers(writes, r, n) \subseteq DOMAIN ElementsOf[r]
  BY DEF Writers
<1>10. \A r \in WritingRanks(locked, writes, n) : r \in Rank
  BY DEF WritingRanks
<1> HIDE DEF writes, closes, locked
<1>11. CASE n \notin S
  <2>1. PICK r \in Rank :
          /\ IsLast(r, WritingRanks(locked, writes, n))
          /\ <<r, n>> \notin locked
          /\ \E k \in DOMAIN ElementsOf[r] : IsLast(k, Writers(writes, r, n))
    BY <1>4, <1>11
  <2>2. PICK k \in DOMAIN ElementsOf[r] : k \in Writers(writes, r, n)
    BY <2>1 DEF IsLast
  <2>3. Writes(S, ElementsOf[r][k], d, n)
    BY <1>8, <2>2
  <2>4. Recurs(S, ElementsOf[r][k], d, n)
    BY <1>11, <2>3 DEF Recurs, Writes
  <2>5. n \in NodesOf[r]
    BY <1>7, <2>1 DEF IsLast
  <2> QED BY <1>3, <1>5, <1>6, <2>1, <2>4, <2>5, ElementOf
<1>12. CASE n \in S
  <2>1. PICK q \in Rank : \E k \in DOMAIN ElementsOf[q] : n \in NodesIn(ElementsOf[q][k]) /\ n \in NodesOf[q]
    BY HeldNode
  <2>2. PICK k \in DOMAIN ElementsOf[q] : n \in NodesIn(ElementsOf[q][k]) /\ n \in NodesOf[q]
    BY <2>1
  <2>3. Writes(S, ElementsOf[q][k], d, n)
    BY <1>12, <2>2 DEF Writes
  <2>4. WritingRanks(locked, writes, n) # {}
    BY <1>7, <1>8, <2>2, <2>3
  <2>5. PICK r \in WritingRanks(locked, writes, n) : IsLast(r, WritingRanks(locked, writes, n))
    BY <2>4, LastRank
  <2>6. r \in Rank /\ n \in NodesOf[r]
    BY <1>7, <1>10, <2>5
  <2>7. <<r, n>> \notin locked
    BY <1>4, <1>12, <2>5, <2>6
  <2>8. PICK j \in Writers(writes, r, n) : IsLast(j, Writers(writes, r, n))
    BY <1>7, <2>5, <2>6, <2>7, LastWriter
  <2>9. j \in DOMAIN ElementsOf[r]
    BY <1>9, <2>6
  <2>10. <<ElementsOf[r][j], n>> \in closes
    BY <1>4, <1>12, <2>5, <2>6, <2>7, <2>8, <2>9
  <2>11. ElementsOf[r][j] \in Element
    BY <2>6, <2>9, ElementOf
  <2>12. Writes(S, ElementsOf[r][j], d, n) /\ LeavesOut(S, ElementsOf[r][j], d, n)
    BY <1>2, <2>10, <2>11
  <2>13. Recurs(S, ElementsOf[r][j], d, n)
    BY <2>12 DEF Writes, LeavesOut, Recurs
  <2> QED BY <1>3, <1>5, <1>6, <2>6, <2>7, <2>11, <2>13
<1> QED BY <1>11, <1>12

\* The counter of every copy of a node has moved at least as often as the node has flipped.
FlipsInv ==
  /\ EplFlipsAreBounded
  /\ \A p \in Copies : flips[p[2]] * NumAnalyses <= eplzigzag_counter[p]

LEMMA CopyOf ==
  ASSUME NEW p \in Copies
  PROVE  p[2] \in Node
BY DEF Copies

LEMMA FlipsReset ==
  ASSUME NEW z, z = [n \in Node |-> 0]
  PROVE  \A n \in Node : z[n] * NumAnalyses = 0
BY EplAssumption

LEMMA FlipsInit == Init => FlipsInv
<1> SUFFICES ASSUME Init PROVE FlipsInv
  OBVIOUS
<1>1. flips = [n \in Node |-> 0] /\ eplzigzag_counter = [p \in Copies |-> 0]
  BY DEF Init, InitZigZagCounter
<1>2. \A n \in Node : flips[n] * NumAnalyses = 0
  BY <1>1, FlipsReset
<1>3. \A p \in Copies : eplzigzag_counter[p] = 0 /\ p[2] \in Node
  BY <1>1, CopyOf
<1> QED BY <1>2, <1>3, EplAssumption DEF FlipsInv, EplFlipsAreBounded

LEMMA FlipsUpdate ==
  ASSUME LayerType, FlipsInv, NEW d, UpdateDomain(d)
  PROVE  FlipsInv'
<1> DEFINE Flipped(n) == (n \in mask) # (n \in mask')
<1>1. PICK c : c = Counted(eplzigzag_counter, Recurrence(mask, d))
  OBVIOUS
<1>2. eplzigzag_counter' = c /\ mask' = AssembledMask(c, mask, d)
  BY <1>1 DEF UpdateDomain
<1>3. c \in [Copies -> Nat]
  BY <1>1, CountedType DEF LayerType
<1>4. NumAnalyses \in Nat /\ EplFlipLock \in Nat
  BY EplAssumption
<1>5. ASSUME NEW n \in Node
      PROVE  /\ flips[n] \in Nat
             /\ ~Flipped(n) => flips'[n] = flips[n]
             /\ Flipped(n) => flips'[n] = flips[n] + 1
  BY DEF UpdateDomain, LayerType
<1>6. ASSUME NEW n \in Node, Flipped(n)
      PROVE  /\ n \in Recurrence(mask, d)
             /\ \E r \in Rank : <<r, n>> \in Copies /\ ~IsLocked(c, <<r, n>>)
  <2>1. ~(n \in mask <=> n \in AssembledMask(c, mask, d))
    BY <1>2, <1>6
  <2>2. mask \in SUBSET Node
    BY DEF LayerType
  <2> QED BY <2>1, <2>2, FlipIsCounted
<1>7. ASSUME NEW p \in Copies
      PROVE  flips'[p[2]] * NumAnalyses <= c[p]
  <2>1. p[2] \in Node
    BY CopyOf
  <2>2. flips[p[2]] * NumAnalyses <= eplzigzag_counter[p] /\ eplzigzag_counter[p] \in Nat
    BY DEF FlipsInv, LayerType
  <2>3. c[p] = IF p[2] \in Recurrence(mask, d) THEN eplzigzag_counter[p] + NumAnalyses
               ELSE eplzigzag_counter[p]
    BY <1>1 DEF Counted
  <2>4. PICK f \in Nat : f = flips[p[2]]
    BY <1>5, <2>1
  <2>5. PICK e \in Nat : e = eplzigzag_counter[p]
    BY <2>2
  <2>6. f * NumAnalyses <= e
    BY <2>2, <2>4, <2>5
  <2>7. CASE Flipped(p[2])
    <3>1. c[p] = e + NumAnalyses /\ flips'[p[2]] = f + 1
      BY <1>5, <1>6, <2>1, <2>3, <2>4, <2>5, <2>7
    <3>2. (f + 1) * NumAnalyses <= e + NumAnalyses
      BY <1>4, <2>6
    <3> QED BY <3>1, <3>2
  <2>8. CASE ~Flipped(p[2])
    <3>1. c[p] >= e /\ flips'[p[2]] = f
      BY <1>4, <1>5, <2>1, <2>3, <2>4, <2>5, <2>8
    <3>2. c[p] \in Nat /\ f * NumAnalyses \in Nat
      BY <1>3, <1>4
    <3> QED BY <2>6, <3>1, <3>2
  <2> QED BY <2>7, <2>8
<1>8. ASSUME EplFlipLock # 0, NEW n \in Node
      PROVE  flips'[n] * NumAnalyses <= EplFlipLock
  <2>1. CASE ~Flipped(n)
    BY <1>5, <1>8, <2>1 DEF FlipsInv, EplFlipsAreBounded
  <2>2. CASE Flipped(n)
    <3>1. PICK r \in Rank : <<r, n>> \in Copies /\ ~IsLocked(c, <<r, n>>)
      BY <1>6, <2>2
    <3>2. c[<<r, n>>] \in Nat /\ c[<<r, n>>] <= EplFlipLock
      BY <1>3, <1>4, <1>8, <3>1 DEF IsLocked
    <3>3. flips'[n] * NumAnalyses <= c[<<r, n>>]
      BY <1>7, <3>1
    <3>4. flips'[n] * NumAnalyses \in Nat
      <4>1. PICK f : f = flips'[n]
        OBVIOUS
      <4>2. f \in Nat
        BY <1>5, <4>1
      <4> QED BY <1>4, <4>1, <4>2
    <3> QED BY <1>4, <3>2, <3>3, <3>4
  <2> QED BY <2>1, <2>2
<1> QED BY <1>2, <1>7, <1>8 DEF FlipsInv, EplFlipsAreBounded

LEMMA FlipsNext == LayerType /\ FlipsInv /\ [Next]_vars => FlipsInv'
<1> SUFFICES ASSUME LayerType, FlipsInv, [Next]_vars PROVE FlipsInv'
  OBVIOUS
<1>1. CASE UNCHANGED <<mask, eplzigzag_counter, eplactive, l2active, flips>>
  BY <1>1 DEF FlipsInv, EplFlipsAreBounded
<1>2. CASE eplzigzag_counter' = InitZigZagCounter /\ flips' = [n \in Node |-> 0]
  <2>1. \A n \in Node : flips'[n] * NumAnalyses = 0
    BY <1>2, FlipsReset
  <2>2. \A p \in Copies : eplzigzag_counter'[p] = 0 /\ p[2] \in Node
    BY <1>2, CopyOf DEF InitZigZagCounter
  <2> QED BY <2>1, <2>2, EplAssumption DEF FlipsInv, EplFlipsAreBounded
<1>3. ASSUME NEW d \in EplFields, UpdateDomain(d)
      PROVE  FlipsInv'
  BY <1>3, FlipsUpdate
<1> QED BY <1>1, <1>2, <1>3, LayerSteps

\* With a lock no node enters and leaves the efficient layer more often than the lock
\* allows before its counters are reset: for any partition, on whichever ranks the node is
\* and whichever of its elements is the last to write, a change is counted on all of its
\* copies before the rank whose value stays looks at its own.
THEOREM EplMaskSettles == Spec => []EplFlipsAreBounded
<1>1. Spec => [](LayerType /\ FlipsInv)
  BY LayerInit, LayerNext, FlipsInit, FlipsNext, PTL DEF Spec
<1>2. FlipsInv => EplFlipsAreBounded
  BY DEF FlipsInv
<1> QED BY <1>1, <1>2, PTL

=============================================================================
