-------------------------- MODULE NodalConstraints --------------------------
(***************************************************************************)
(* The values of the constrained dofs, on top of their numbering, and what *)
(* a solution sequence does with both. A copy of a node keeps a value for  *)
(* each of its dofs (DofIndexing::svalues), which activation, deactivation *)
(* and constraints change together with its sets. A solve collects the     *)
(* values in a vector ys over the set s, finds uf over the set f, and      *)
(* merges both into ug over the set g, from which the elements read the    *)
(* solution back; the next one reduces ug to the set f to begin with.      *)
(*                                                                         *)
(* At each time step but the first numbering, dynamic constraints take     *)
(* their values from fields of the elements (ResetBoundaryConditions), by  *)
(* way of a vector that is indexed with the numbers of the step before.    *)
(***************************************************************************)
EXTENDS NodesDofx

CONSTANTS
  DynamicSpc,   \* DynamicSpc[s]: those of StaticSpc[s] that have a SpcDynamic
  Times         \* (bound) the times of a run, any of which may be the next

ASSUME DynamicAssumption ==
  /\ DynamicSpc \in [Sid -> SUBSET Nat]
  /\ \A s \in Sid : DynamicSpc[s] \subseteq StaticSpc[s]
  /\ Times \subseteq Nat \ {0}

VARIABLES
  now,        \* 0 when the model has just been read
  reset,      \* the dynamic constraints are those of this time
  dynvalue,   \* dynvalue[r][s][d]: the value of the SpcDynamic of rank r
  svalues     \* svalues[r][s][d]: the value that the copy of s on r has for d

valuevars == <<now, reset, dynvalue, svalues>>
allvars == <<vars, now, reset, dynvalue, svalues>>

\* A value is a name: of no constraint, of a given one or a field at some time, of
\* what the solver has found for a row, or of what nobody has set.
Zero         == <<"zero">>
Given(s, d, t) == <<"given", s, d, t>>
Unknown(row) == <<"unknown", row>>
Undefined    == <<"undefined">>

-----------------------------------------------------------------------------
(* Vectors, as GlobalVector has them: of the values that several ranks     *)
(* insert at a row the one of the highest rank stays, and of those of a    *)
(* rank the last one. A put is a record of row, node and value.            *)

NewVector(length) == [row \in 0..(length - 1) |-> Zero]

Assembled(vector, puts) ==
  LET At(row, r) == {p \in puts[r] : p.row = row}
      Last(row) == LET r == MaxOf({q \in Rank : At(row, q) # {}})
                   IN  CHOOSE p \in At(row, r) : \A q \in At(row, r) : q.node <= p.node
  IN  [row \in DOMAIN vector |->
         IF \A r \in Rank : At(row, r) = {} THEN vector[row] ELSE Last(row).value]

Read(vector, row) == IF row \in DOMAIN vector THEN vector[row] ELSE Undefined

\* Clones are not counted.
NumberOfDofsLocal(r, k) == RunningSum([s \in Sid |-> IF Master(r, s) THEN size[r][k][s] ELSE 0], NumNodes)
NumberOfDofs(k) == RunningSum([r \in Rank |-> NumberOfDofsLocal(r, k)], NumProcs)

DofSet(r, k, s) ==
  CASE k = "g" -> Dof(s) [] k = "f" -> fset[r][s] [] k = "s" -> Dof(s) \ fset[r][s]

\* (mutant) The place of a dof in its node is taken for that in the list of a set.
Position_InNode(set, d) == d

\* The place of a dof in the list of a set, which has only those of the set.
Position(set, d) == Cardinality({e \in set : e < d})

Row(r, k, s, d) ==
  LET list == doflist[r][k][s]
      i == Position(DofSet(r, k, s), d)
  IN  IF i \in DOMAIN list THEN list[i] ELSE UNDEF

\* What Value gives for the dofs of set k: of all copies.
OfCopies(k, nodesof, Value(_, _, _)) ==
  [r \in Rank |-> [s \in nodesof[r] |-> [d \in DofSet(r, k, s) |-> Value(r, s, d)]]]

\* The copies put their values for the dofs of set k at the rows of set j.
Puts(values, k, j) ==
  [r \in Rank |-> UNION {{[row |-> Row(r, j, s, d), node |-> s, value |-> values[r][s][d]] :
                            d \in DofSet(r, k, s)} : s \in DOMAIN values[r]}]

\* The values of the constraints.
ys == Assembled(NewVector(NumberOfDofs("s")), Puts(svalues, "s", "s"))

\* What the solver finds (external).
uf == [row \in 0..(NumberOfDofs("f") - 1) |-> Unknown(row)]

\* The f set is merged into the g set and assembled, then the s set.
Mergesolutionfromftog ==
  LET Free(r, s, d) == Read(uf, Row(r, "f", s, d))
      Constrained(r, s, d) == Read(ys, Row(r, "s", s, d))
      uf_merged == Assembled(NewVector(NumberOfDofs("g")), Puts(OfCopies("f", Holds, Free), "f", "g"))
  IN  Assembled(uf_merged, Puts(OfCopies("s", Holds, Constrained), "s", "g"))

Reducevectorgtof(ug) ==
  LET Kept(r, s, d) == Read(ug, Row(r, "g", s, d))
  IN  Assembled(NewVector(NumberOfDofs("f")), Puts(OfCopies("f", Holds, Kept), "f", "f"))

\* The fields of the elements: at a dynamic constraint, the one of this time.
GetSolutionFromInputs ==
  LET Field(r, s, d) == IF d \in DynamicSpc[s] THEN Given(s, d, now) ELSE Undefined
  IN  Assembled(NewVector(NumberOfDofs("g")), Puts(OfCopies("g", Attached, Field), "g", "g"))

-----------------------------------------------------------------------------
(* Steps.                                                                  *)

ValuedInit ==
  /\ Init
  /\ now = 0
  /\ reset = TRUE
  /\ dynvalue = [r \in Rank |-> [s \in Holds[r] |-> [d \in DynamicSpc[s] |-> Zero]]]
  /\ svalues = [r \in Rank |-> [s \in Holds[r] |-> [d \in Dof(s) |-> Zero]]]

\* UpdateDynamicConstraintsx, with the numbers of the last step.
ResetBoundaryConditions ==
  /\ \A r \in Rank : pc[r] = "update"
  /\ ~reset
  /\ reset' = TRUE
  /\ dynvalue' = [r \in Rank |-> [s \in Holds[r] |-> [d \in DynamicSpc[s] |->
                    Read(GetSolutionFromInputs, Row(r, "g", s, d))]]]
  /\ UNCHANGED <<vars, now, svalues>>

SpcValue(r, s, d) == IF d \in DynamicSpc[s] THEN dynvalue[r][s][d]
                     ELSE Given(s, d, IF d \in StaticSpc[s] THEN 0 ELSE now)

\* Activate, Deactivate and RelaxConstraint put zeros, ApplyConstraint the value.
ConstrainedValues(r, s) ==
  [d \in Dof(s) |-> IF d \in AppliedDofs(s) THEN SpcValue(r, s, d)
                    ELSE IF d \in RelaxedDofs(s) \/ MaskedActive(r, s) # active[r][s] THEN Zero
                    ELSE svalues[r][s][d]]

ApplyConstraints(r) ==
  /\ reset
  /\ UpdateConstraints(r)
  /\ svalues' = [svalues EXCEPT ![r] = [s \in Holds[r] |-> ConstrainedValues(r, s)]]
  /\ UNCHANGED <<now, reset, dynvalue>>

NextTime ==
  /\ AssembleMask
  /\ now' \in Times
  /\ reset' = FALSE
  /\ UNCHANGED <<dynvalue, svalues>>

\* The renumbering leaves the values alone.
ValuedStep(r) ==
  \/ ApplyConstraints(r)
  \/ UNCHANGED valuevars /\ (\/ SetClone(r) \/ DistributeDofs(r) \/ OffsetDofs(r)
                             \/ UpdateCloneDofs(r) \/ Solve(r))

ValuedCollective ==
  \/ ResetBoundaryConditions
  \/ NextTime
  \/ UNCHANGED valuevars /\ (\/ RequiresDofReindexing \/ AllreduceRanks \/ GatherCounts
                             \/ MaxNumDofs \/ AllreduceTrueDofs)

ValuedNext == ValuedCollective \/ \E r \in Rank : ValuedStep(r)

ValuedSpec == ValuedInit /\ [][ValuedNext]_allvars

FairValuedSpec ==
  ValuedSpec /\ WF_allvars(ValuedCollective) /\ \A r \in Rank : WF_allvars(ValuedStep(r))

-----------------------------------------------------------------------------
(* Properties.                                                             *)

\* What the model says of a constrained dof at this time.
Imposed(s, d) ==
  IF d \in DynamicSpc[s] THEN Given(s, d, now)
  ELSE IF d \in StaticSpc[s] THEN Given(s, d, 0)
  ELSE IF d \in AppliedDofs(s) THEN Given(s, d, now) ELSE Zero

FreeDofs(r) == UNION {{<<s, d>> : d \in fset[r][s]} : s \in Holds[r]}

\* When all ranks are to solve, each copy of a node reads, from the merged solution, at a
\* constrained dof what the model imposes there at this time (zero where there is
\* no ice), and at a free dof one of the unknowns, which no other dof reads, on
\* any rank; reducing the merged solution gives what the solver found.
SolutionIsMerged ==
  LET ug == Mergesolutionfromftog
      Seen(r, s, d) == Read(ug, Row(r, "g", s, d))
  IN  ((\A r \in Rank : pc[r] = "solve") /\ now # 0) =>
        /\ \A r \in Rank : \A s \in Holds[r] : \A d \in Dof(s) :
             IF d \in fset[r][s] THEN Seen(r, s, d) \in {uf[row] : row \in DOMAIN uf}
                                 ELSE Seen(r, s, d) = Imposed(s, d)
        /\ \A r, q \in Rank : \A m \in FreeDofs(r), n \in FreeDofs(q) :
             Seen(r, m[1], m[2]) = Seen(q, n[1], n[2]) <=> m = n
        /\ Reducevectorgtof(ug) = uf
=============================================================================
