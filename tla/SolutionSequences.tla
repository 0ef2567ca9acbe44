-------------------------- MODULE SolutionSequences --------------------------
(***************************************************************************)
(* The nonlinear loops of a time step: temperature, then water under the   *)
(* ice, then velocity.  Each loop solves a linear system again and again,  *)
(* until the solution and the penalties settle or a limit is reached.      *)
(*                                                                         *)
(* One step is one solve with all that the ranks do after it.  They do it  *)
(* together: between two solves they take only reduced values.  What a     *)
(* solution makes of a penalty, of the fields under the ice and of a norm  *)
(* is chosen by the environment.                                           *)
(***************************************************************************)
EXTENDS EplMask

CONSTANTS
  Settings,          \* the settings to consider
  ThermalThreshold,  \* thermal_penalty_threshold
  ThermalMaxiter, HydroMaxiter, StressMaxiter,
  InitialMasks,      \* the masks of the efficient layer to begin with
  Overs,             \* the sets of nodes to consider that are over the limit of a penalty
  EplFields,         \* the fields under the ice to consider
  MaxSteps           \* (bound) the time steps of the run

Solvers == {"nonlinear", "newton", "stokescoupling", "la", "la_theta"}

ASSUME SequenceAssumption ==
  /\ Settings \subseteq [thermal : {"none", "dry", "enthalpy"}, hydrology : {"none", "one", "two"},
                         stressbalance : Solvers]
  /\ ThermalThreshold \in Nat
  /\ {ThermalMaxiter, HydroMaxiter, StressMaxiter} \subseteq Nat \ {0}
  /\ InitialMasks \subseteq SUBSET Node
  /\ Overs \subseteq SUBSET Node
  /\ \A d \in EplFields : d.sedhead \in [Node -> Int]
  /\ MaxSteps \in Nat \ {0}

VARIABLES
  pc, settings, step,
  pengrids,           \* pengrids[a]: the penalties of analysis a, by rank and node
  rifts, savedloads,  \* the rift segments, and their copy with conserve_loads
  count,              \* of the loop on temperature or on velocity
  count_local,        \* of the inner loop on velocity
  vel_converged,      \* the inner loop on velocity ended by its criterion
  sedcount, eplcount, hydrocount,
  mask,               \* HydrologydcMaskEplactiveNodeEnum, as a set of nodes
  eplzigzag_counter,
  eplactive, l2active, \* the active nodes of the layer and of the projection on it
  verdict,            \* (history) how the last loop ended
  unsettled,          \* (history) how many loads changed in the last solve and are not locked
  flips               \* (history) flips[n]: changes of the mask at n since the last reset

loads   == <<pengrids, rifts, savedloads>>
counts  == <<count, count_local, vel_converged, sedcount, eplcount, hydrocount>>
epl     == <<mask, eplzigzag_counter, eplactive, l2active, flips>>
history == <<verdict, unsettled>>
vars    == <<pc, settings, step, loads, counts, epl, history>>

Goto(from, to) == pc = from /\ pc' = to

Ended(by) == verdict' = by
Forgotten == verdict' = "none" /\ unsettled' = 0
Unchanged == UNCHANGED <<settings, step>>

-----------------------------------------------------------------------------
(***************************************************************************)
(* Temperature.                                                            *)
(***************************************************************************)
SkipThermal ==
  /\ settings.thermal = "none"
  /\ Goto("thermal", "hydrology")
  /\ UNCHANGED <<loads, counts, epl, history>> /\ Unchanged

\* Without enthalpy the counters of all the penalties go back to 0.
BeginThermal ==
  /\ settings.thermal # "none"
  /\ Goto("thermal", "thermalSolve")
  /\ pengrids' = IF settings.thermal = "enthalpy" THEN pengrids
                 ELSE [a \in Penalized |-> ResetPenalties(pengrids[a])]
  /\ count' = 1
  /\ UNCHANGED <<rifts, savedloads, count_local, vel_converged, sedcount, eplcount, hydrocount,
                 epl, history>>
  /\ Unchanged

\* Dry ice: the penalties decide, and the last iteration that is allowed is done.
ThermalSolve(over) ==
  LET unstable == UnstablePengrids("thermal", pengrids["thermal"], over)
      settled  == CountOf(unstable) <= ThermalThreshold
      limit    == count >= ThermalMaxiter
  IN  /\ settings.thermal = "dry"
      /\ Goto("thermalSolve", IF settled \/ limit THEN "hydrology" ELSE "thermalSolve")
      /\ pengrids' = [pengrids EXCEPT !["thermal"] = ConstraintActivate("thermal", @, over)]
      /\ count' = count + 1
      /\ unsettled' = Cardinality(unstable)
      /\ Ended(IF settled THEN "criterion" ELSE IF limit THEN "limit" ELSE "none")
      /\ UNCHANGED <<rifts, savedloads, count_local, vel_converged, sedcount, eplcount,
                     hydrocount, epl>>
      /\ Unchanged

\* Enthalpy: no penalties; the count is tested after it has been increased.
EnthalpySolve(converged) ==
  LET limit == count + 1 >= ThermalMaxiter
  IN  /\ settings.thermal = "enthalpy"
      /\ Goto("thermalSolve", IF converged \/ limit THEN "hydrology" ELSE "thermalSolve")
      /\ count' = count + 1
      /\ unsettled' = 0
      /\ Ended(IF converged THEN "criterion" ELSE IF limit THEN "limit" ELSE "none")
      /\ UNCHANGED <<loads, count_local, vel_converged, sedcount, eplcount, hydrocount, epl>>
      /\ Unchanged

-----------------------------------------------------------------------------
(***************************************************************************)
(* Water under the ice.                                                    *)
(***************************************************************************)
SkipHydrology ==
  /\ settings.hydrology = "none"
  /\ Goto("hydrology", "stressbalance")
  /\ UNCHANGED <<loads, counts, epl, history>> /\ Unchanged

TwoLayers == settings.hydrology = "two"

BeginHydrology ==
  /\ settings.hydrology # "none"
  /\ Goto("hydrology", "sediment")
  /\ hydrocount' = 1
  /\ eplzigzag_counter' = IF TwoLayers THEN InitZigZagCounter ELSE eplzigzag_counter
  /\ flips' = IF TwoLayers THEN [n \in Node |-> 0] ELSE flips
  /\ UNCHANGED <<loads, count, count_local, vel_converged, sedcount, eplcount, mask, eplactive,
                 l2active>>
  /\ Forgotten /\ Unchanged

\* A pass of the outer loop begins: the penalties on the sediment are released.
BeginSediment ==
  /\ Goto("sediment", "sedimentSolve")
  /\ sedcount' = 1 /\ eplcount' = 1
  /\ pengrids' = [a \in Penalized |-> IF a = "hydrology" THEN ResetConstraint(a)
                                      ELSE ResetPenalties(pengrids[a])]
  /\ UNCHANGED <<rifts, savedloads, count, count_local, vel_converged, hydrocount, epl, history>>
  /\ Unchanged

\* (mutant) the limit is not tested in a solve after which the penalties have settled
SedimentFails_Unsettled(unstable) == CountOf(unstable) # 0 /\ sedcount >= HydroMaxiter

\* At the limit the run stops with an error, even if the penalties have just settled.
SedimentFails(unstable) == sedcount >= HydroMaxiter

SedimentSolve(over) ==
  LET unstable == UnstablePengrids("hydrology", pengrids["hydrology"], over)
  IN  /\ Goto("sedimentSolve", IF SedimentFails(unstable) THEN "failed"
                                ELSE IF CountOf(unstable) = 0 THEN "sedimentHead"
                                ELSE "sedimentSolve")
      /\ pengrids' = [pengrids EXCEPT !["hydrology"] = ConstraintActivate("hydrology", @, over)]
      /\ sedcount' = sedcount + 1
      /\ unsettled' = Cardinality(unstable)
      /\ Ended(IF CountOf(unstable) = 0 THEN "criterion" ELSE "none")
      /\ UNCHANGED <<rifts, savedloads, count, count_local, vel_converged, eplcount, hydrocount,
                     epl>>
      /\ Unchanged

\* The mask of the layer, its counters, and the nodes that it makes active.
UpdateDomain(d) ==
  /\ eplzigzag_counter' = Counted(eplzigzag_counter, Recurrence(mask, d))
  /\ mask' = AssembledMask(eplzigzag_counter', mask, d)
  /\ eplactive' = ActiveNodes(mask')
  /\ flips' = [n \in Node |-> IF (n \in mask) # (n \in mask') THEN flips[n] + 1 ELSE flips[n]]

\* While the head of the sediment changes the penalties are looked at again.
SedimentGoesOn ==
  /\ Goto("sedimentHead", "sedimentSolve")
  /\ UNCHANGED <<loads, counts, epl>>
  /\ Forgotten /\ Unchanged

\* The head has converged.  With two layers the mask of the efficient one is next.
SedimentConverges ==
  /\ ~TwoLayers
  /\ Goto("sedimentHead", "stressbalance")
  /\ hydrocount' = hydrocount + 1
  /\ UNCHANGED <<loads, count, count_local, vel_converged, sedcount, eplcount, epl>>
  /\ Forgotten /\ Unchanged

BeginEpl(d) ==
  /\ TwoLayers
  /\ Goto("sedimentHead", "eplSolve")
  /\ UpdateDomain(d)
  /\ pengrids' = [a \in Penalized |-> ResetPenalties(pengrids[a])]
  /\ UNCHANGED <<rifts, savedloads, counts, l2active>>
  /\ Forgotten /\ Unchanged

\* One solve on the efficient layer: the nodes of the projection, the thickness, the mask.
EplSolve(converged, d) ==
  /\ Goto("eplSolve", IF eplcount >= HydroMaxiter THEN "failed"
                       ELSE IF converged THEN "hydrologyConverges" ELSE "eplSolve")
  /\ l2active' = ActiveNodes(mask)
  /\ IF converged /\ eplcount < HydroMaxiter
     THEN /\ mask' = AssembledMask(Counted(eplzigzag_counter, Recurrence(mask, d)), mask, d)
          /\ eplactive' = ActiveNodes(mask')
          /\ eplzigzag_counter' = InitZigZagCounter
          /\ flips' = [n \in Node |-> 0]
     ELSE UpdateDomain(d)
  /\ eplcount' = eplcount + 1
  /\ UNCHANGED <<loads, count, count_local, vel_converged, sedcount, hydrocount, history>>
  /\ Unchanged

\* (mutant) only a pass that converges counts
NextHydrocount_Converged(converged) == IF converged THEN hydrocount + 1 ELSE hydrocount

NextHydrocount(converged) == hydrocount + 1

\* The two layers together.
HydrologyConverges(converged) ==
  /\ Goto("hydrologyConverges", IF hydrocount >= HydroMaxiter THEN "failed"
                                 ELSE IF converged THEN "stressbalance" ELSE "sediment")
  /\ hydrocount' = NextHydrocount(converged)
  /\ UNCHANGED <<loads, count, count_local, vel_converged, sedcount, eplcount, epl, history>>
  /\ Unchanged

-----------------------------------------------------------------------------
(***************************************************************************)
(* Velocity.                                                               *)
(***************************************************************************)
\* With the fixed point the loads are copied first.  The copy of a penalty is released,
\* and so is the penalty it was copied from.
BeginStressbalance ==
  /\ Goto("stressbalance", IF settings.stressbalance = "nonlinear" THEN "fixedPoint"
                           ELSE IF settings.stressbalance = "la" THEN "velocity" ELSE "simpleSolve")
  /\ IF settings.stressbalance = "nonlinear"
     THEN /\ savedloads' = rifts
          /\ pengrids' = [a \in Penalized |-> ResetConstraint(a)]
     ELSE UNCHANGED <<savedloads, pengrids>>
  /\ count' = IF settings.stressbalance \in {"newton", "stokescoupling"} THEN 1 ELSE 0
  /\ count_local' = 0
  /\ UNCHANGED <<rifts, vel_converged, sedcount, eplcount, hydrocount, epl>>
  /\ Forgotten /\ Unchanged

\* The loop goes on with a solution that has converged while too many rifts change.
FixedPoint(converged, penetrated) ==
  LET num     == NumUnstableRifts(rifts, penetrated)
      settled == converged /\ num <= RiftThreshold
      limit   == count + 1 >= StressMaxiter
  IN  /\ Goto("fixedPoint", IF settled \/ limit THEN "end" ELSE "fixedPoint")
      /\ rifts' = IF settled \/ limit THEN savedloads
                  ELSE RiftConstraintsState(rifts, penetrated)
      /\ count' = count + 1
      /\ unsettled' = Cardinality(UnstableRifts(rifts, penetrated))
      /\ Ended(IF settled THEN "criterion" ELSE IF limit THEN "limit" ELSE "none")
      /\ UNCHANGED <<pengrids, savedloads, count_local, vel_converged, sedcount, eplcount,
                     hydrocount, epl>>
      /\ Unchanged

AtLimit(n) == n >= StressMaxiter

\* Newton's method tests the count before it increases it, the two others after it.
SimpleSolve(converged) ==
  LET newton == settings.stressbalance = "newton"
      limit  == AtLimit(IF newton THEN count ELSE count + 1)
      ends   == converged \/ limit
  IN  /\ Goto("simpleSolve", IF ends THEN "end" ELSE "simpleSolve")
      /\ count' = IF ends /\ newton THEN count ELSE count + 1
      /\ unsettled' = 0
      /\ Ended(IF converged THEN "criterion" ELSE IF limit THEN "limit" ELSE "none")
      /\ UNCHANGED <<loads, count_local, vel_converged, sedcount, eplcount, hydrocount, epl>>
      /\ Unchanged

\* The augmented Lagrangian: a loop on velocity in a loop on pressure.
Velocity(converged) ==
  LET ends == converged \/ AtLimit(count_local + 1)
  IN  /\ Goto("velocity", IF ends THEN "pressure" ELSE "velocity")
      /\ count' = IF count_local = 0 THEN count + 1 ELSE count
      /\ count_local' = IF ends THEN 0 ELSE count_local + 1
      /\ vel_converged' = converged
      /\ UNCHANGED <<loads, sedcount, eplcount, hydrocount, epl, history>>
      /\ Unchanged

\* The velocity is compared with that of the last inner iteration, and not with that of
\* the last outer one: it has converged if the inner loop has.
Pressure(converged) ==
  /\ Goto("pressure", IF (converged /\ vel_converged) \/ AtLimit(count) THEN "end" ELSE "velocity")
  /\ unsettled' = 0
  /\ Ended(IF converged /\ vel_converged THEN "criterion"
           ELSE IF AtLimit(count) THEN "limit" ELSE "none")
  /\ UNCHANGED <<loads, counts, epl>> /\ Unchanged

-----------------------------------------------------------------------------
EndStep ==
  /\ Goto("end", IF step < MaxSteps THEN "thermal" ELSE "done")
  /\ step' = IF step < MaxSteps THEN step + 1 ELSE step
  /\ Forgotten
  /\ UNCHANGED <<settings, loads, counts, epl>>

Intact == [active |-> FALSE, frozen |-> FALSE, counter |-> 0]

Init ==
  /\ settings \in Settings
  /\ pc = "thermal" /\ step = 1
  /\ pengrids = [a \in Penalized |-> ResetConstraint(a)]
  /\ rifts = [f \in Rift |-> Intact]
  /\ savedloads = rifts
  /\ count = 0 /\ count_local = 0 /\ vel_converged = FALSE
  /\ sedcount = 0 /\ eplcount = 0 /\ hydrocount = 0
  /\ mask \in IF settings.hydrology = "two" THEN InitialMasks ELSE {{}}
  /\ eplzigzag_counter = InitZigZagCounter
  /\ eplactive = {} /\ l2active = {}
  /\ verdict = "none" /\ unsettled = 0
  /\ flips = [n \in Node |-> 0]

Thermal == SkipThermal \/ BeginThermal \/ (\E over \in Overs : ThermalSolve(over))
           \/ (\E converged \in BOOLEAN : EnthalpySolve(converged))

Hydrology ==
  \/ SkipHydrology \/ BeginHydrology \/ BeginSediment
  \/ \E over \in Overs : SedimentSolve(over)
  \/ SedimentGoesOn \/ SedimentConverges
  \/ \E d \in EplFields :
       BeginEpl(d) \/ (\E converged \in BOOLEAN : EplSolve(converged, d))
  \/ \E converged \in BOOLEAN : HydrologyConverges(converged)

Stressbalance ==
  \/ BeginStressbalance
  \/ \E converged \in BOOLEAN :
       \/ \E penetrated \in SUBSET Rift : FixedPoint(converged, penetrated)
       \/ SimpleSolve(converged) \/ Velocity(converged) \/ Pressure(converged)

Next == Thermal \/ Hydrology \/ Stressbalance \/ EndStep

Spec == Init /\ [][Next]_vars

\* A run computes until it stops.
FairSpec == Spec /\ WF_vars(Next)

-----------------------------------------------------------------------------
(***************************************************************************)
(* Properties.                                                             *)
(***************************************************************************)
PC == {"thermal", "thermalSolve", "hydrology", "sediment", "sedimentSolve", "sedimentHead",
       "eplSolve", "hydrologyConverges", "stressbalance", "fixedPoint", "simpleSolve",
       "velocity", "pressure", "end", "done", "failed"}

RiftStates == [active : BOOLEAN, frozen : BOOLEAN, counter : 0..(RiftLock + 1)]

\* Every variable has its type, and no loop counts beyond its limit by more than one.
TypeOK ==
  /\ pc \in PC /\ settings \in Settings /\ step \in 1..MaxSteps
  /\ DOMAIN pengrids = Penalized
  /\ \A a \in Penalized :
       pengrids[a] \in [PengridsOf(a) -> [active : {0, 1}, zigzag : Nat]]
  /\ rifts \in [Rift -> RiftStates] /\ savedloads \in [Rift -> RiftStates]
  /\ count \in Nat /\ (pc = "thermalSolve" => count <= ThermalMaxiter)
  /\ pc \in {"fixedPoint", "simpleSolve", "velocity", "pressure"} =>
       count <= StressMaxiter /\ count_local < StressMaxiter
  /\ count_local \in Nat /\ vel_converged \in BOOLEAN
  /\ {sedcount, eplcount, hydrocount} \subseteq 0..(HydroMaxiter + 1)
  /\ {mask, eplactive, l2active} \subseteq SUBSET Node
  /\ eplzigzag_counter \in [Copies -> Nat]
  /\ verdict \in {"none", "criterion", "limit"}
  /\ flips \in [Node -> Nat]

\* What each loop may leave behind.
Threshold ==
  CASE pc = "hydrology" -> ThermalThreshold
    [] pc = "sedimentHead" -> 0
    [] pc = "end" -> RiftThreshold

\* A loop that says it has converged leaves no more changing loads behind than it is
\* allowed to, counted over all the ranks: those of the last solve, without the locked.
ConvergedMeansSettled ==
  verdict = "criterion" /\ pc \in {"hydrology", "sedimentHead", "end"} =>
    unsettled <= Threshold

\* The rift segments of all the ranks freeze in the same iteration: one that still
\* moves next to frozen ones would never be asked again.  They freeze for the time of
\* a solution only.
RiftsFreezeTogether ==
  /\ \A f, g \in Rift : rifts[f].frozen = rifts[g].frozen
  /\ pc # "fixedPoint" => \A f \in Rift : ~rifts[f].frozen

\* With a lock, no node changes sides more often than the lock allows before the
\* counters are reset, whichever ranks hold it and whatever their elements ask for.
EplFlipsAreBounded ==
  EplFlipLock # 0 => \A n \in Node : flips[n] * NumAnalyses <= EplFlipLock

\* All the loops of all the steps end, or the run stops at a limit, whatever the
\* solutions do.
SequencesEnd == <>(pc \in {"done", "failed"})

=============================================================================
