------------------------------ MODULE Penalties ------------------------------
(***************************************************************************)
(* The loads that switch themselves on and off: the penalties at nodes     *)
(* (Pengrid), which keep a temperature below the melting point or a water  *)
(* head below its maximum, and the segments of rifts (Riftfront), which    *)
(* keep the two sides of a rift apart.  After every solve each of them     *)
(* looks at the solution again, and the loop ends when few have changed.   *)
(*                                                                         *)
(* A node on a border has a penalty on each rank that holds it; the one    *)
(* whose node is a clone does nothing.  A rift segment is on one rank.     *)
(***************************************************************************)
EXTENDS Integers, FiniteSets

CONSTANTS
  NumProcs,
  NodesOf,       \* NodesOf[r]: the nodes that rank r holds
  Pengrids,      \* Pengrids[a]: the nodes with a penalty in analysis a
  PenaltyLock,   \* PenaltyLock[a]: penalty_lock of analysis a
  RiftsOf,       \* RiftsOf[r]: the rift segments of rank r
  RiftState,     \* RiftState[f]: "open" or "closed" where the user says so, or "free"
  RiftLock,      \* penalty_lock of the rifts
  RiftThreshold  \* min_mechanical_constraints

Rank == 0..(NumProcs - 1)
Node == UNION {NodesOf[r] : r \in Rank}
Rift == UNION {RiftsOf[r] : r \in Rank}
Penalized == {"thermal", "hydrology"}

ASSUME PenaltyAssumption ==
  /\ NumProcs \in Nat \ {0}
  /\ DOMAIN NodesOf = Rank /\ DOMAIN RiftsOf = Rank
  /\ \A r \in Rank : IsFiniteSet(NodesOf[r]) /\ IsFiniteSet(RiftsOf[r])
  /\ \A r, q \in Rank : r # q => RiftsOf[r] \cap RiftsOf[q] = {}
  /\ Pengrids \in [Penalized -> SUBSET Node]
  /\ PenaltyLock \in [Penalized -> Nat]
  /\ RiftState \in [Rift -> {"open", "closed", "free"}]
  /\ RiftLock \in Nat /\ RiftThreshold \in Nat

-----------------------------------------------------------------------------
(***************************************************************************)
(* Penalties at nodes.  A rank and a node name the penalty.                *)
(***************************************************************************)
PengridsOf(a) == {p \in Rank \X Pengrids[a] : p[2] \in NodesOf[p[1]]}

IsClone(p) == \E q \in Rank : q < p[1] /\ p[2] \in NodesOf[q]

Released == [active |-> 0, zigzag |-> 0]

ResetConstraint(a) == [p \in PengridsOf(a) |-> Released]

ResetPenalties(pengrids) == [p \in DOMAIN pengrids |-> [pengrids[p] EXCEPT !.zigzag = 0]]

\* A penalty changes if its node is over the limit and it was off, or the other way round.
Flips(pengrids, over, p) == ~IsClone(p) /\ (pengrids[p].active = 1) # (p[2] \in over)

Zigzag(a, pengrids, over, p) ==
  IF PenaltyLock[a] # 0 /\ Flips(pengrids, over, p) THEN pengrids[p].zigzag + 1
  ELSE pengrids[p].zigzag

Locked(a, pengrids, over, p) ==
  PenaltyLock[a] # 0 /\ Zigzag(a, pengrids, over, p) > PenaltyLock[a]

\* A lock sets the penalty active, and the next line sets it to its new state.
ConstraintActivate(a, pengrids, over) ==
  [p \in PengridsOf(a) |->
     IF IsClone(p) THEN pengrids[p]
     ELSE [active |-> IF p[2] \in over THEN 1 ELSE 0, zigzag |-> Zigzag(a, pengrids, over, p)]]

\* The penalties that have changed and are not locked.
UnstablePengrids(a, pengrids, over) ==
  {p \in PengridsOf(a) : Flips(pengrids, over, p) /\ ~Locked(a, pengrids, over, p)}

\* (mutant) the zeroth rank sends its own count
CountOf_Zeroth(unstable) == Cardinality({p \in unstable : p[1] = 0})

\* The count of a rank, summed over the ranks.
CountOf(unstable) == Cardinality(unstable)

-----------------------------------------------------------------------------
(***************************************************************************)
(* Rift segments.                                                          *)
(***************************************************************************)
Untouched(rifts, f) == rifts[f].frozen \/ RiftState[f] # "free"

RiftFlips(rifts, penetrated, f) ==
  ~Untouched(rifts, f) /\ rifts[f].active # (f \in penetrated)

\* The counter goes back to 0 beyond the lock, where more melange is taken.
RiftCounter(rifts, penetrated, f) ==
  LET counter == IF rifts[f].counter > RiftLock THEN 0 ELSE rifts[f].counter
  IN  IF RiftFlips(rifts, penetrated, f) THEN counter + 1 ELSE counter

ConstrainedRift(rifts, penetrated, f) ==
  IF rifts[f].frozen THEN rifts[f]
  ELSE IF RiftState[f] # "free" THEN [rifts[f] EXCEPT !.active = (RiftState[f] = "closed")]
  ELSE [rifts[f] EXCEPT !.active = (f \in penetrated),
                        !.counter = RiftCounter(rifts, penetrated, f)]

UnstableRifts(rifts, penetrated) == {f \in Rift : RiftFlips(rifts, penetrated, f)}

RiftIsFrozen(rifts) == \E f \in Rift : rifts[f].frozen

\* (mutant) a rank freezes its segments when few of its own have changed
Freezes_Local(rifts, penetrated, f) ==
  \E r \in Rank : /\ f \in RiftsOf[r]
                  /\ Cardinality(UnstableRifts(rifts, penetrated) \cap RiftsOf[r]) <= RiftThreshold

\* A segment freezes when few have changed, on all the ranks together.
Freezes(rifts, penetrated, f) ==
  ~RiftIsFrozen(rifts) /\ Cardinality(UnstableRifts(rifts, penetrated)) <= RiftThreshold

RiftConstraintsState(rifts, penetrated) ==
  [f \in Rift |->
     LET rift == ConstrainedRift(rifts, penetrated, f)
     IN  IF Freezes(rifts, penetrated, f) THEN [rift EXCEPT !.frozen = TRUE] ELSE rift]

\* The count is that of all the ranks, and ConstraintsStatex sums it again.
NumUnstableRifts(rifts, penetrated) ==
  IF RiftIsFrozen(rifts) THEN 0
  ELSE NumProcs * Cardinality(UnstableRifts(rifts, penetrated))

=============================================================================
