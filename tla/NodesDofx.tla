----------------------------- MODULE NodesDofx -----------------------------
(***************************************************************************)
(* Renumbering of the degrees of freedom of one analysis.                  *)
(*                                                                         *)
(* Every processor (rank) of the MPI communicator holds copies of the      *)
(* nodes of its own elements; a node on a partition border has a copy on   *)
(* several ranks.  At each call of FemModel::UpdateConstraintsx a rank     *)
(* activates or deactivates its copies according to the ice mask, applies  *)
(* the single point constraints (which move dofs between the free set f    *)
(* and the constrained set s), and then all ranks renumber the dofs in     *)
(* NodesDofx, if any of them needs it: the copy on the lowest rank is the  *)
(* master and gets the numbers, the others are clones and pick them up     *)
(* from a reduced table.  The solver then indexes its vectors with these   *)
(* numbers.                                                                *)
(*                                                                         *)
(* A rank is a process.  Between two collective MPI calls it runs on its   *)
(* own; a collective is one step of all the ranks, taken when all of them  *)
(* wait in it.                                                             *)
(***************************************************************************)
EXTENDS Reductions, Integers, FiniteSets

CONSTANTS
  NumProcs,      \* size of the communicator
  NumNodes,      \* number of nodes of the analysis: sids run from 0
  Holds,         \* Holds[r]: the nodes of which rank r has a copy
  Attached,      \* Attached[r]: those that belong to an element of r
  GSize,         \* GSize[s]: number of dofs of node s
  Frozen,        \* nodes switched off for good when they were created
  StaticSpc,     \* StaticSpc[s]: dofs of s fixed by a SpcStatic or a SpcDynamic
  TransientSpc   \* TransientSpc[s]: dofs of s with a SpcTransient

Rank == 0..(NumProcs - 1)
Sid  == 0..(NumNodes - 1)
Dof(s) == 0..(GSize[s] - 1)
SetEnum == {"g", "f", "s"}
UNDEF == -9999

ASSUME SizeAssumption == NumProcs \in Nat \ {0} /\ NumNodes \in Nat \ {0}

\* A node exists because some rank has an element (or a pairing) that needs it.
ASSUME PartitionAssumption ==
  /\ Holds \in [Rank -> SUBSET Sid]
  /\ Attached \in [Rank -> SUBSET Sid]
  /\ \A r \in Rank : Attached[r] \subseteq Holds[r]
  /\ \A s \in Sid : \E r \in Rank : s \in Holds[r]

\* One constraint per dof.  A transient constraint on a frozen node makes the
\* program stop with an error as soon as it has to be relaxed.
ASSUME ConstraintAssumption ==
  /\ GSize \in [Sid -> Nat]
  /\ Frozen \subseteq Sid
  /\ StaticSpc \in [Sid -> SUBSET Nat]
  /\ TransientSpc \in [Sid -> SUBSET Nat]
  /\ \A s \in Sid : /\ StaticSpc[s] \subseteq Dof(s)
                    /\ TransientSpc[s] \subseteq Dof(s)
                    /\ StaticSpc[s] \cap TransientSpc[s] = {}
  /\ \A s \in Frozen : TransientSpc[s] = {}

VARIABLES
  pc,             \* pc[r]: what rank r does next, or the collective it waits in
  setenum,        \* setenum[r]: the set that rank r is numbering
  mask,           \* nodes with ice, as last assembled over all ranks; those
                  \* that are frozen, which nobody looks up, are left out
  relaxed,        \* <<s, d>>: the transient constraint is NaN at the current time
  active,         \* fields of the node copies, by rank and sid
  fset,
  indexingupdate,
  clone,
  size,           \* by rank, set and sid: gsize, fsize, ssize
  doflist,        \* by rank, set and sid: gdoflist, fdoflist, sdoflist
  dofcount,       \* by rank
  minranks,       \* results of the collectives, the same on every rank
  alldofcount,
  maxdofspernode,
  alltruedofs

envvars  == <<mask, relaxed>>
nodevars == <<active, fset, indexingupdate>>
commvars == <<minranks, alldofcount, maxdofspernode, alltruedofs>>
vars == <<pc, setenum, mask, relaxed, active, fset, indexingupdate, clone,
          size, doflist, dofcount, minranks, alldofcount, maxdofspernode,
          alltruedofs>>

Transients == {p \in Sid \X (UNION {TransientSpc[s] : s \in Sid}) : p[2] \in TransientSpc[p[1]]}

Goto(r, from, to) == pc[r] = from /\ pc' = [pc EXCEPT ![r] = to]
Collective(wait, to) == (\A r \in Rank : pc[r] = wait) /\ pc' = [r \in Rank |-> to]

-----------------------------------------------------------------------------
(***************************************************************************)
(* Activation and constraints of one copy.                                 *)
(***************************************************************************)

\* (mutant) the clones are left to their master
MaskedActive_MastersOnly(r, s) ==
  IF s \in Attached[r] \ Frozen /\ ~clone[r][s] THEN s \in mask ELSE active[r][s]

\* Only the nodes of the elements of this rank are visited, and a frozen node
\* is left as it is.
MaskedActive(r, s) ==
  IF s \in Attached[r] \ Frozen THEN s \in mask ELSE active[r][s]

\* Switching a node on frees all its dofs, switching it off constrains them.
MaskedFSet(r, s) ==
  IF MaskedActive(r, s) = active[r][s] THEN fset[r][s]
  ELSE IF MaskedActive(r, s) THEN Dof(s) ELSE {}

RelaxedDofs(s) == {d \in TransientSpc[s] : <<s, d>> \in relaxed}
AppliedDofs(s) == StaticSpc[s] \cup (TransientSpc[s] \ RelaxedDofs(s))

ConstrainedFSet(r, s) == (MaskedFSet(r, s) \ AppliedDofs(s)) \cup RelaxedDofs(s)

\* (mutant) DofInSSet and DofInFSet do not ask for a renumbering
AsksForIndexing_NotOfSets(r, s) == MaskedActive(r, s) # active[r][s]

\* A change of activity or of the sets makes the node ask for a renumbering.
AsksForIndexing(r, s) ==
  \/ MaskedActive(r, s) # active[r][s]
  \/ ConstrainedFSet(r, s) # MaskedFSet(r, s)

UpdateConstraints(r) ==
  /\ Goto(r, "update", "reindex?")
  /\ active' = [active EXCEPT ![r] = [s \in Holds[r] |-> MaskedActive(r, s)]]
  /\ fset' = [fset EXCEPT ![r] = [s \in Holds[r] |-> ConstrainedFSet(r, s)]]
  /\ indexingupdate' = [indexingupdate EXCEPT ![r] =
                         [s \in Holds[r] |-> indexingupdate[r][s] \/ AsksForIndexing(r, s)]]
  /\ UNCHANGED <<setenum, envvars, clone, size, doflist, dofcount, commvars>>

-----------------------------------------------------------------------------
(***************************************************************************)
(* NodesDofx.                                                              *)
(***************************************************************************)

\* (mutant) each rank looks at its own copies only
MustReindex_NotReduced(r) == \E s \in Holds[r] : indexingupdate[r][s]

\* What rank r is told: all ranks renumber as soon as one copy on one rank asks.
MustReindex(r) == \E q \in Rank : \E s \in Holds[q] : indexingupdate[q][s]

RequiresDofReindexing ==
  /\ \A r \in Rank : pc[r] = "reindex?"
  /\ pc' = [r \in Rank |-> IF MustReindex(r) THEN "ranks" ELSE "solve"]
  /\ UNCHANGED <<setenum, envvars, nodevars, clone, size, doflist, dofcount, commvars>>

\* Each rank writes its number where it has a copy, and NumProcs elsewhere.
RankEntry(r, s) == IF s \in Holds[r] THEN r ELSE NumProcs

MasterRank(s) == MinOf({RankEntry(r, s) : r \in Rank})

\* FlagClones: the lowest rank that holds the node, as reduced with MPI_MIN.
AllreduceRanks ==
  /\ Collective("ranks", "clones")
  /\ minranks' = [s \in Sid |-> MasterRank(s)]
  /\ UNCHANGED <<setenum, envvars, nodevars, clone, size, doflist, dofcount,
                 alldofcount, maxdofspernode, alltruedofs>>

SetClone(r) ==
  /\ Goto(r, "clones", "distribute")
  /\ setenum' = [setenum EXCEPT ![r] = "g"]
  /\ clone' = [clone EXCEPT ![r] = [s \in Holds[r] |-> minranks[s] # r]]
  /\ UNCHANGED <<envvars, nodevars, size, doflist, dofcount, commvars>>

\* How many dofs of the copy are in the set; f and s are counted anew each time.
InitSet(r, k, s) ==
  IF k = "g" THEN GSize[s]
  ELSE Cardinality(IF k = "f" THEN fset[r][s] ELSE Dof(s) \ fset[r][s])

\* What each node adds to the count of rank r: nothing if it is not a master.
OwnDofs(r, k) ==
  [s \in Sid |-> IF s \in Holds[r] /\ ~clone[r][s] THEN InitSet(r, k, s) ELSE 0]

LocalDofs(r, k, s) ==
  [j \in 0..(InitSet(r, k, s) - 1) |-> RunningSum(OwnDofs(r, k), s) + j]

\* (mutant) the f and s lists of the clones keep their old length
CloneDofs_NotReallocated(r, k, s) == doflist[r][k][s]

\* The f and s lists are reallocated also for the clones, which keep garbage.
CloneDofs(r, k, s) ==
  IF k = "g" THEN doflist[r][k][s] ELSE [j \in 0..(InitSet(r, k, s) - 1) |-> UNDEF]

DistributeDofs(r) ==
  LET k == setenum[r] IN
  /\ Goto(r, "distribute", "counts")
  /\ size' = [size EXCEPT ![r][k] = [s \in Holds[r] |-> InitSet(r, k, s)]]
  /\ doflist' = [doflist EXCEPT ![r][k] = [s \in Holds[r] |->
        IF clone[r][s] THEN CloneDofs(r, k, s) ELSE LocalDofs(r, k, s)]]
  /\ dofcount' = [dofcount EXCEPT ![r] = RunningSum(OwnDofs(r, k), NumNodes)]
  /\ UNCHANGED <<setenum, envvars, nodevars, clone, commvars>>

GatherCounts ==
  /\ Collective("counts", "offset")
  /\ alldofcount' = dofcount
  /\ UNCHANGED <<setenum, envvars, nodevars, clone, size, doflist, dofcount,
                 minranks, maxdofspernode, alltruedofs>>

\* (mutant) only the g set is shifted
Offset_GsetOnly(r, k) == IF k = "g" THEN RunningSum(alldofcount, r) ELSE 0

\* (mutant) a rank also counts its own dofs before it
Offset_OneTooFar(r, k) == RunningSum(alldofcount, r + 1)

\* The masters of rank r start where the ranks before it end, for each set.
Offset(r, k) == RunningSum(alldofcount, r)

OffsetDofs(r) ==
  LET k == setenum[r] IN
  /\ Goto(r, "offset", "maxdofs")
  /\ doflist' = [doflist EXCEPT ![r][k] = [s \in Holds[r] |->
        IF clone[r][s] THEN doflist[r][k][s]
        ELSE [j \in 0..(size[r][k][s] - 1) |-> doflist[r][k][s][j] + Offset(r, k)]]]
  /\ UNCHANGED <<setenum, envvars, nodevars, clone, size, dofcount, commvars>>

\* The width of the table, over all copies of all ranks, clones included.
MaxNumDofs ==
  /\ Collective("maxdofs", "truedofs")
  /\ maxdofspernode' =
       MaxOf({0} \cup UNION {{size[r][setenum[r]][s] : s \in Holds[r]} : r \in Rank})
  /\ UNCHANGED <<setenum, envvars, nodevars, clone, size, doflist, dofcount,
                 minranks, alldofcount, alltruedofs>>

\* The entry of rank r in the table, zero where it has no master to show.
ShowTrueDof(r, s, j) ==
  IF s \in Holds[r] /\ ~clone[r][s] /\ j < size[r][setenum[r]][s]
  THEN doflist[r][setenum[r]][s][j] ELSE 0

AllreduceTrueDofs ==
  /\ Collective("truedofs", "update clones")
  /\ alltruedofs' = [s \in Sid |-> [j \in 0..(maxdofspernode - 1) |->
                       MaxOf({ShowTrueDof(r, s, j) : r \in Rank})]]
  /\ UNCHANGED <<setenum, envvars, nodevars, clone, size, doflist, dofcount,
                 minranks, alldofcount, maxdofspernode>>

\* The update flag is cleared on every copy, already after the first set.
StillAsks(r, s) == FALSE

\* (mutant) the f set is followed by the g set again
NextSet_Endless(k) == IF k = "g" THEN "f" ELSE "g"

\* The sets are numbered in the order g, f, s.
NextSet(k) == IF k = "g" THEN "f" ELSE "s"

UpdateCloneDofs(r) ==
  LET k == setenum[r] IN
  /\ Goto(r, "update clones", IF k = "s" THEN "solve" ELSE "distribute")
  /\ doflist' = [doflist EXCEPT ![r][k] = [s \in Holds[r] |->
        IF clone[r][s] THEN [j \in 0..(size[r][k][s] - 1) |-> alltruedofs[s][j]]
        ELSE doflist[r][k][s]]]
  /\ indexingupdate' = [indexingupdate EXCEPT ![r] = [s \in Holds[r] |-> StillAsks(r, s)]]
  /\ setenum' = [setenum EXCEPT ![r] = NextSet(k)]
  /\ UNCHANGED <<envvars, active, fset, clone, size, dofcount, commvars>>

-----------------------------------------------------------------------------
(***************************************************************************)
(* The rest of the program: a rank uses its dof lists to build and solve   *)
(* its part of the system, then all ranks assemble the next ice mask and   *)
(* move to another time, where other transient constraints are NaN.        *)
(***************************************************************************)
Solve(r) ==
  /\ Goto(r, "solve", "mask")
  /\ UNCHANGED <<setenum, envvars, nodevars, clone, size, doflist, dofcount, commvars>>

AssembleMask ==
  /\ Collective("mask", "update")
  /\ mask' \in SUBSET (Sid \ Frozen)
  /\ relaxed' \in SUBSET Transients
  /\ UNCHANGED <<setenum, nodevars, clone, size, doflist, dofcount, commvars>>

\* The nodes as created: all dofs free, no number yet, to be numbered.
Init ==
  /\ pc = [r \in Rank |-> "update"]
  /\ setenum = [r \in Rank |-> "g"]
  /\ mask = Sid \ Frozen
  /\ relaxed \in SUBSET Transients
  /\ active = [r \in Rank |-> [s \in Holds[r] |-> s \notin Frozen]]
  /\ fset = [r \in Rank |-> [s \in Holds[r] |-> IF s \in Frozen THEN {} ELSE Dof(s)]]
  /\ indexingupdate = [r \in Rank |-> [s \in Holds[r] |-> TRUE]]
  /\ clone = [r \in Rank |-> [s \in Holds[r] |-> FALSE]]
  /\ size = [r \in Rank |-> [k \in SetEnum |-> [s \in Holds[r] |->
               IF k = "g" THEN GSize[s] ELSE 0]]]
  /\ doflist = [r \in Rank |-> [k \in SetEnum |-> [s \in Holds[r] |->
                  [j \in 0..(size[r][k][s] - 1) |-> UNDEF]]]]
  /\ dofcount = [r \in Rank |-> 0]
  /\ minranks = [s \in Sid |-> NumProcs]
  /\ alldofcount = [r \in Rank |-> 0]
  /\ maxdofspernode = 0
  /\ alltruedofs = [s \in Sid |-> [j \in {} |-> 0]]

LocalStep(r) ==
  \/ UpdateConstraints(r)
  \/ SetClone(r)
  \/ DistributeDofs(r)
  \/ OffsetDofs(r)
  \/ UpdateCloneDofs(r)
  \/ Solve(r)

CollectiveStep ==
  \/ RequiresDofReindexing
  \/ AllreduceRanks
  \/ GatherCounts
  \/ MaxNumDofs
  \/ AllreduceTrueDofs
  \/ AssembleMask

Next == CollectiveStep \/ \E r \in Rank : LocalStep(r)

Spec == Init /\ [][Next]_vars

\* No rank stops between two collectives, and MPI completes a collective that
\* all the ranks have entered.
FairSpec == Spec /\ WF_vars(CollectiveStep) /\ \A r \in Rank : WF_vars(LocalStep(r))

-----------------------------------------------------------------------------
(***************************************************************************)
(* Properties.  A rank whose lists are in use is in Solve or waits for the *)
(* others after it.                                                        *)
(***************************************************************************)
InUse(r) == pc[r] \in {"solve", "mask"}
Master(r, s) == s \in Holds[r] /\ ~clone[r][s]

PC == {"update", "reindex?", "ranks", "clones", "distribute", "counts", "offset",
       "maxdofs", "truedofs", "update clones", "solve", "mask"}

\* A field f of the node copies, with values in V.
Copies(f, V) == DOMAIN f = Rank /\ \A r \in Rank : f[r] \in [Holds[r] -> V]

\* Every variable has its type; in particular the three lists of a copy are as
\* long as its three sizes say.
TypeOK ==
  /\ pc \in [Rank -> PC]
  /\ setenum \in [Rank -> SetEnum]
  /\ mask \subseteq Sid
  /\ relaxed \subseteq Transients
  /\ Copies(active, BOOLEAN)
  /\ Copies(fset, SUBSET Nat)
  /\ \A r \in Rank : \A s \in Holds[r] : fset[r][s] \subseteq Dof(s)
  /\ Copies(indexingupdate, BOOLEAN)
  /\ Copies(clone, BOOLEAN)
  /\ DOMAIN size = Rank
  /\ \A r \in Rank : size[r] \in [SetEnum -> [Holds[r] -> Nat]]
  /\ DOMAIN doflist = Rank
  /\ \A r \in Rank : DOMAIN doflist[r] = SetEnum
  /\ \A r \in Rank, k \in SetEnum : DOMAIN doflist[r][k] = Holds[r]
  /\ \A r \in Rank, k \in SetEnum : \A s \in Holds[r] :
       doflist[r][k][s] \in [0..(size[r][k][s] - 1) -> Int]
  /\ dofcount \in [Rank -> Nat]
  /\ minranks \in [Sid -> Nat]
  /\ alldofcount \in [Rank -> Nat]
  /\ maxdofspernode \in Nat

\* The number of a dof belongs to one dof of one node: no two masters, on the
\* same or on different ranks, use the same row (Nodes.cpp: "the dofs between all
\* the cpus are not unique. We now offset the dofs").
UniqueDofs ==
  \A k \in SetEnum : \A r1, r2 \in Rank : \A s1 \in Holds[r1], s2 \in Holds[r2] :
    (InUse(r1) /\ InUse(r2) /\ Master(r1, s1) /\ Master(r2, s2)) =>
      \A j1 \in 0..(size[r1][k][s1] - 1), j2 \in 0..(size[r2][k][s2] - 1) :
        doflist[r1][k][s1][j1] = doflist[r2][k][s2][j2] => r1 = r2 /\ s1 = s2 /\ j1 = j2

\* The rows of a rank come before the rows of the ranks above it: the vectors and
\* matrices that are allocated with the local number of dofs rely on it.
RankBlocks ==
  \A k \in SetEnum : \A r1, r2 \in Rank : \A s1 \in Holds[r1], s2 \in Holds[r2] :
    (InUse(r1) /\ InUse(r2) /\ Master(r1, s1) /\ Master(r2, s2) /\ r1 < r2) =>
      \A j1 \in 0..(size[r1][k][s1] - 1), j2 \in 0..(size[r2][k][s2] - 1) :
        doflist[r1][k][s1][j1] < doflist[r2][k][s2][j2]

UsedDofs(k) ==
  UNION {UNION {{doflist[r][k][s][j] : j \in 0..(size[r][k][s] - 1)} :
                  s \in {t \in Holds[r] : Master(r, t)}} : r \in Rank}

\* No row is left out: when all the lists are in use, the numbers used are an
\* initial segment of the naturals, so that no matrix has an empty row.
DenseDofs ==
  (\A r \in Rank : InUse(r)) =>
    \A k \in SetEnum : \A x \in UsedDofs(k) : x >= 0 /\ 0..x \subseteq UsedDofs(k)

\* Every node has one master once the lists are in use.
OneMaster ==
  (\A r \in Rank : InUse(r)) =>
    \A s \in Sid : \E r \in Rank : Master(r, s) /\ \A q \in Rank : Master(q, s) => q = r

\* All the copies of a node have the same numbers: what a rank adds to a row of a
\* border node meets what the other ranks add to it.
ClonesAgree ==
  \A r1, r2 \in Rank : \A s \in Holds[r1] \cap Holds[r2] : \A k \in SetEnum :
    (InUse(r1) /\ InUse(r2)) =>
      size[r1][k][s] = size[r2][k][s] /\ doflist[r1][k][s] = doflist[r2][k][s]

\* The lists in use are those of the current sets: a dof that was activated,
\* constrained or relaxed since the last renumbering has been renumbered.
ListsMatchSets ==
  \A r \in Rank : InUse(r) =>
    \A s \in Holds[r], k \in SetEnum : size[r][k][s] = InitSet(r, k, s)

\* No list is read while its node waits for a renumbering (the assertion of
\* Node::GetDof and Node::GetDofList).
NoStaleIndices ==
  \A r \in Rank : InUse(r) => \A s \in Holds[r] : ~indexingupdate[r][s]

\* A rank never solves with lists from before the last change of a node: whatever
\* activated, constrained or relaxed a dof has had its renumbering.
IndexingIsCurrent == ListsMatchSets /\ NoStaleIndices

\* The rows of a rank follow those of the ranks below it, without a gap.
RowsFollowRanks == RankBlocks /\ DenseDofs

\* A row of the system belongs to one dof, of one node, of one rank.
RowsHaveOneOwner == OneMaster /\ UniqueDofs

Waiting(r) == pc[r] \in {"reindex?", "ranks", "counts", "maxdofs", "truedofs", "mask"}

\* Ranks that wait in a collective wait in the same one, for the same set: none
\* skips the renumbering that another one has begun.
SameCollective ==
  \A r1, r2 \in Rank : Waiting(r1) /\ Waiting(r2) =>
    /\ pc[r1] = pc[r2]
    /\ pc[r1] \in {"counts", "maxdofs", "truedofs"} => setenum[r1] = setenum[r2]

\* A node without ice has no free dof (Node::DofInFSet: "Only do this for active
\* nodes").
FreeDofsAreActive ==
  \A r \in Rank : \A s \in Holds[r] : InUse(r) /\ fset[r][s] # {} => active[r][s]

\* Every rank that updates its constraints gets to solve: no collective is left
\* waiting for a rank that went another way.
EveryUpdateIsSolved == \A r \in Rank : pc[r] = "update" ~> pc[r] = "solve"

=============================================================================
