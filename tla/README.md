# Formal models of ISSM

ISSM (the Ice Sheet and Sea-level System Model, `src/trunk`) solves the equations
of ice flow, of its temperature, its hydrology and of sea level with finite
elements on a distributed mesh. The C++ program (`src/trunk/src/c`) is started by
a Matlab or Python client (`src/trunk/src/m`), as many processes of one MPI
communicator. Most of its lines are real arithmetic, which is out of scope here.
What is in scope is the rest: how the ranks agree on the numbering of
the unknowns, on masks, on vectors, on when a loop ends, and on the step from which a
killed run restarts, how coupled models stay in step, when the nonlinear loops stop, and how each rank finds its
part of the model without asking the others. None of this has a unit test; the nightly runs of `src/trunk/test` compare numerical results of a few configurations.

Paths below are relative to `src/trunk/src/c` unless they begin with `src/` or `test/`.

## How to run

    tlc -workers 2 -config MCNodesDofx.cfg MCNodesDofx        # any MC*.cfg, with its module
    tlapm NodesDofx_proofs.tla                                # any *_proofs.tla

`PROJECT.json` lists the runs, the properties, a mutant of the code for every
property, the source lines of every definition, the hazards and the theorems.

## How the code is modelled

- **A rank is a process.** `pc[r]` is what rank `r` does next. Between two MPI calls
  it runs alone, and its steps interleave with those of the other ranks.
- **A collective is one step of all the ranks**, enabled when all of them wait in it
  (`Collective(wait, to)`). Where the code lets a rank leave earlier than others (the root of a
  scatter, `MpiVec`) or enter by another door (the barriers of `pfopen`), the
  model has queues or turns instead.
- A decision that is taken from a reduced value is written per rank (`MustReindex(r)`,
  `Flipped(r)`), so that the mutants can let the ranks disagree.
- Real numbers are replaced by small integers where only an order or a sign counts
  (elevations, time); the solution of a time step is a function of the step and the
  time.
- A variable marked *(history)* is read by properties only, a constant or variable
  marked *(bound)* keeps the instance finite. An operator marked
  *(mutant)* is a plausible bug, `X_Suffix` for the operator `X` that follows it. The
  specification never uses it.

## Inventory

"Hard" means behaviour that tests hardly reach: interleavings, orders, crashes, limits.

### Modelled, at least in part

**Degree of freedom numbering** (`classes/Nodes.cpp`, `Node.cpp`, `DofIndexing.cpp`,
`modules/NodesDofx`, `modules/SetActiveNodesLSMx`, `classes/Constraints`).
State: on each rank, copies of the nodes of its elements, with `active`, the
sets f and s, the flags `indexingupdate` and `clone`, the lists `gdoflist`, `fdoflist`,
`sdoflist`. Operations: `UpdateConstraintsx` (ice mask, `SpcNodesx`, then
`NodesDofx`), `FlagClones`, `DistributeDofs`, `OffsetDofs`, `ShowTrueDofs`,
`UpdateCloneDofs`. It is called by every core before it solves; vectors and matrices are
indexed with its numbers. Hard: the decision to renumber is taken from flags that
differ between ranks; the masters' numbers travel to the clones through a table
that is indexed with the receiver's sizes. Correct if numbers are unique, dense and
in rank order, if the copies of a node agree, if no list is read when it is out of date, and
if no rank is left alone in a collective. *Module `NodesDofx`.*

**Constraints and solution merging** (`classes/Constraints`, `modules/SpcNodesx`, `UpdateDynamicConstraintsx`,
`CreateNodalConstraintsx`, `Mergesolutionfromftogx`, `Reducevectorgtofx`). State: the values of the constrained dofs on each copy
(`svalues`) and of the dynamic constraints. Operations: `ResetBoundaryConditions`, applying and relaxing constraints, the vector
`ys`, merge of an f and an s vector into a g vector, reduction of a g vector to f. Every solution sequence does these. Hard: values are found
by counting the dofs of a set, in lists of the last renumbering, and a dynamic constraint reads with the numbers of the step before. Correct if
merge and reduction neither lose nor misplace a value, and if a constrained dof has the value of this time. *Module `NodalConstraints`, on
`NodesDofx`.*

**Partitioning and model processing** (`modules/ModelProcessorx`, `IoModelToConstraintsx`, `CreateConstraints` and `CreateLoads` of
the analyses, `Update` in `Tria.cpp`, `Tetra.cpp`, `Penta.cpp`, the node places of `TriaRef.cpp` and its kin). State: on each rank, the
elements and vertices it has, the nodes, constraints and loads it creates, the ids that its elements hook to, the counter from which the ids of an
analysis start. It runs once, before anything else. Hard: the ranks do not talk; that copies of a node agree, and that elements and loads find their
nodes, rests on the same arithmetic being repeated in about forty tables, one for each element and finite element, for meshes with edges,
faces, paired vertices and rifts. Correct if every id resolves on the rank that uses it, to the node at that point of the element, if copies agree, and
if constraints and loads are at the right places. *Modules `Mesh`, `FiniteElements`, `ModelProcessor`.*

**Grounding line migration** (`modules/GroundinglineMigrationx`,
`Element::MigrateGroundingLine`, the flood in `Tria.cpp`, `MasstransportAnalysis`).
State: base, surface, thickness and level set per element, a distributed flag vector.
Operations: potential ungrounding, flood, migration. It is called once per time step
by `transient_core`, after mass transport. Hard: the flood runs on several ranks with
copies of the flags that are one round old, and must end on all of them together. Correct if
the flood stops at the smallest closed set that contains the shelf, and if base, surface, bed and
level set stay consistent from step to step. *Module `GroundingLine`.*

**Transient loop, checkpoint and restart** (`cores/transient_core.cpp`,
`FemModel::CheckPoint`, `FemModel::Restart`, `shared/io/Disk/pfopen.cpp`,
`modules/OutputResultsx`, `classes/ExternalResults/Results.cpp`, the reader
`src/m/solve/parseresultsfromdisk.m`). State: step and time on every rank, a restart
file per rank, one output file. Hard: the job can be killed between any two file
operations of any two ranks. Correct if a launch never mixes checkpoints of two
steps, if the results are those of a run that was not killed, unless a launch found a file that was
being written, and none is missing.
*Module `TransientRestart`.*

**Distributed vectors** (`toolkits/issm/IssmMpiVec.h`, `Bucket.h`,
`toolkits/mpi/commops`, interface `toolkits/objects/Vector.h`). State: a block of
rows on each rank and buckets of contributions. Operations: `SetValue(s)`,
`Assemble`, `ToMPISerial`, the arithmetic on blocks, norms. Hard: scatters with
different roots do not synchronise the ranks; additions and insertions do not commute.
Correct if it behaves as one vector. *Modules `GlobalVector` (abstract), `MpiVec`.*

**Sea level coupling** (`cores/sealevelrise_core*.cpp`, `main/issm_slr.cpp`). Several models in one job, each
with its ranks and its transient loop: ice caps, and the earth. State: thickness changes, sea level, the
intercommunicators among the parameters, the messages under way. Operations: `TransferForcing`,
`TransferSealevel`, the iterations on the sea level, checkpoints of each model. Hard: blocking
sends and receives that an ice cap and the earth must meet in; a model with fewer steps; a restart.
Correct if what is received is what was sent for the same step, at the right vertices, and if models with as many
steps all end. *Module `SlrCoupling`.*

**Loads, penalties and rifts** (`classes/Loads/Pengrid.cpp`, `Riftfront.cpp`, `Loads.cpp`,
`modules/ConstraintsStatex`, `ResetConstraintsx`). State: for each penalty `active` and a zigzag counter, for each rift segment `active`,
`frozen` and a counter. Operations: reset, a new state from the solution, the count of the unstable. Hard: a border node has a
penalty on each rank; the count is reduced over the ranks and ends a loop; some rift segments freeze. Correct if all the ranks see the
same count, the count is what a loop is told to wait for, and segments freeze on all the ranks at once. *Module `Penalties`.*

**Transient hydrology: activation of the efficient layer (EPL)** (`FemModel.cpp:2694-2828`,
`HydrologyDCEfficientAnalysis`). State: the mask of the layer, zigzag counters by local node, active nodes. Operations: the
proposals of the elements, the counters and their lock, the assembled mask. Hard: several elements and ranks write one node; a node that is locked has to win on
every rank. Correct if a node flips no more often than the lock allows. *Module `EplMask`.*

**Solution sequences** (`solutionsequences`, with the cores `thermal_core`, `hydrology_core`, `stressbalance_core`
that call them). State: the counts of the loops. Operations: one solve and the test after it, for temperature, enthalpy, sediment, EPL, both layers
together, and the five solvers of the velocity. Hard: nested loops with separate limits, tested before or after the count goes up.
Correct if they end, whatever the solutions do, and if a loop that says it converged leaves no more changing loads than allowed.
*Module `SolutionSequences`.*

### Not modelled

| component | state and operations | hard behaviour, and what would make it correct | why it is left out |
|---|---|---|---|
| Distributed matrices, sequential vectors (`toolkits/issm`) | buckets with columns; plain arrays | as the vector | same protocol as `MpiVec` |
| MPI layer (`toolkits/mpi/issmmpi.cpp`) | none | - | a thin layer; its guarantees are those of the collectives in the models |
| Vertices (`classes/Vertices.cpp`) | one number per vertex, coordinates, pairing | the same numbering as the nodes; fields left out of the restart file | its fields after a restart are the next step of the plan |
| Finite element model (`classes/FemModel.cpp`) | container of all the others | the order of its calls | the parts that decide something are modelled with their component |
| Threads (`shared/Threads`) | ranges of a loop | integer division | serial interpolation only; one formula |
| Elements, inputs, gauss points | fields by element | - | real arithmetic; the functions of the flood are in `GroundingLine` |
| Materials, parameters, hooks, options | containers, constitutive laws | - | sequential, no protocol |
| Analyses, element-loop modules | element matrices | - | real arithmetic |
| Solvers (MUMPS, PETSc, GSL) | - | - | external |
| Single physics cores | sequences of solution sequences | - | one step of `Solve` in `TransientRestart` |
| Inversion, AD, uncertainty | loops around a run | - | driven by external optimisers |
| Ocean coupling | one half of an exchange | - | the other half is not in the repository |
| Meshing, interpolation, kriging, KML, exp | - | - | computational geometry, file conversion, mostly sequential |
| Clients and wrappers (`src/m`, `src/wrappers`) | marshalled input, results | - | sequential; the reader of results and the relaunch are in `TransientRestart` |
| Profiler, printing | timers | - | no effect on the state |

Interactions: the model processor (ModelProcessor) gives every rank its nodes, constraints and loads; which copies there are is the constant
`Holds` of NodesDofx, and a paired vertex gives the copies of `PairedHolds`. `transient_core` (TransientRestart) calls, in each step, the physics cores,
which call `UpdateConstraintsx` (NodesDofx, with the values in NodalConstraints), assemble vectors and matrices
indexed with its numbers (MpiVec), and then `GroundinglineMigrationx`
(GroundingLine), which fills vectors of flags (the collectives `AssembleLevelset`
and `AssembleFlips`, which take for granted what GlobalVector promises: the value of the
highest rank wins, and all copies agree). A restart repeats the renumbering
(`Renumber`). The cores of temperature, hydrology and velocity are the loops of `SolutionSequences`, which extends `EplMask` (the mask
is assembled as a vector, as in GroundingLine) and `Penalties`. A job with a sea level model runs one such transient loop for each model, and
they meet in `SlrCoupling`.

## The modules

| module | models | lines |
|---|---|---|
| `Reductions` | the running sum, maximum and minimum of one value per rank | 22 |
| `NodesDofx` | renumbering | 429 |
| `NodalConstraints` | values of constraints, merge and reduction of vectors, on `NodesDofx` | 191 |
| `GroundingLine` | migration of the grounding line | 342 |
| `TransientRestart` | time loop, files, restart, reader | 402 |
| `GlobalVector` | what a distributed vector promises (abstract) | 85 |
| `MpiVec` | the distributed vector, and its refinement mapping | 289 |
| `SlrCoupling` | coupled models | 390 |
| `Penalties` | penalties and rift segments | 122 |
| `EplMask` | mask of the efficient layer | 112 |
| `SolutionSequences` | the nonlinear loops, on the two above | 382 |
| `Mesh` | edges and faces of a mesh, and what is taken for granted of one | 137 |
| `FiniteElements` | the node ids of an element and where its basis functions have these nodes, on `Mesh` | 192 |
| `ModelProcessor` | nodes, constraints and loads of each rank, on `FiniteElements`, with what is taken for granted of the input | 662 |
| `MC...` | constants of the instances | |
| `..._proofs` | theorems | |

### NodesDofx

State: `pc`, `setenum` (the set being numbered), the fields of the copies
(`active`, `fset`, `indexingupdate`, `clone`, `size`, `doflist`), `dofcount`, and
the results of the collectives (`minranks`, `alldofcount`, `maxdofspernode`, `alltruedofs`).

| action | code |
|---|---|
| `UpdateConstraints(r)` | `FemModel::UpdateConstraintsx`: `SetActiveNodesLSMx` over the nodes of the rank's elements, then `SpcNodesx` over all its copies |
| `RequiresDofReindexing` | `Nodes::RequiresDofReindexing`, `MPI_MAX` of the flags |
| `AllreduceRanks`, `SetClone(r)` | `Nodes::FlagClones`: lowest rank wins |
| `DistributeDofs(r)`, `GatherCounts`, `OffsetDofs(r)` | `Nodes::DistributeDofs`, local numbers then offsets |
| `MaxNumDofs`, `AllreduceTrueDofs`, `UpdateCloneDofs(r)` | the table of true dofs and its reading by clones, after which `NextSet` goes from g to f to s |
| `Solve(r)`, `AssembleMask` | the use of the lists; the next mask and the next time |

The environment chooses any mask and any set of transient constraints that are NaN, in every
step. A table entry that no master shows is 0, as the code initialises it. Garbage in a
reallocated list is the single value `UNDEF`: no property holds or fails by its value.

### NodalConstraints

It extends NodesDofx: each of its steps is one of NodesDofx with what that does to the values, or leaves the numbering alone
(`ValuesKeepNumbering`). `svalues` are the values of the copies, `dynvalue` those of the dynamic constraints, `now` is the time.

| operator or action | code |
|---|---|
| `ResetBoundaryConditions` | `GetSolutionFromInputsx` and `UpdateDynamicConstraintsx`, between two times |
| `ApplyConstraints(r)` | `UpdateConstraints(r)`, and the values that `Activate`, `Deactivate`, `RelaxConstraint` (zero) and `ApplyConstraint` write |
| `ys`, `Mergesolutionfromftog`, `Reducevectorgtof` | the modules of these names, with `Node::VecMerge`, `VecReduce` in `Position`, `Row`, `Puts` |
| `NextTime` | the next pass of the transient loop |

A value is a name (which dof, which time, which row of the solver's vector), so that any mix-up shows. A vector takes the value of the highest rank that
inserts one, as `GlobalVector` says. What the solver finds (`uf`) is external. The reset is there in the configurations that call it: thermal and
enthalpy with PDD mass balance, and SIA coupled to another model (`transient_core.cpp:92-105`, `stressbalance_core.cpp:52-59`).

### Mesh, FiniteElements, ModelProcessor

A setting is what the input file says: the mesh, the analyses with their finite elements, rifts, pairs, the vertices with constraints; and what
Metis says (external: any partition that leaves no rank without elements).

| action | code |
|---|---|
| `ElementsAndVerticesPartitioning(r)` | the function of this name: elements of a rift together, own vertices, paired vertices |
| `CreateDatasets(r)` | for one analysis `CreateNodes`, `UpdateElements`, `CreateConstraints`, `CreateLoads` |
| `UpdateCounters` | `nodes->MaximumId` over all ranks, from which the ids of the next analysis start |
| `Solve` | the rest of the program |

`TriaNodeIds`, `TetraNodeIds`, `PentaNodeIds` are the tables of `Update`; `CreateNodes`, `ScalarNodes`, `StokesNodes` the loops of `CreateNodes.cpp`, which have to give the
same ids; `TriaPoints` and its kin say at which vertices a basis function has its node, with the field it is for. A point of a constraint is a bag of vertices with
weights in 24ths. Not modelled: the reading of the file, parameters, materials, inputs, coupled flow equations (several models on one mesh,
`StressbalanceAnalysis.cpp:188-` and `545-595`), and the analyses without loads and constraints of a kind of their own.

### GroundingLine

`Transport` is one time step of everything else: any sea level of `SeaLevels`, any
thickness of `Thicknesses`, base and surface as the Absolute adjustment of
`MasstransportAnalysis` leaves them. With soft migration follow
`PotentialUngrounding`, `AssembleLevelset`, then rounds of `AssembleNeighbors`,
`UpdatePotentialUngrounding(r)` on each rank, `AssembleFlips`; then
`MigrateGroundingLine(r)`. With the other styles `Transport` is followed by
`MigrateGroundingLine`. A rank's writes wait in `pending[r]` until the vector is assembled,
and `phi` is the copy it reads. Not modelled: Contact migration and full Stokes, the sub-element
friction laws (numerics), and the Incremental adjustment (`MasstransportAnalysis.cpp:696-699`).

### TransientRestart

A restart file is missing, empty (truncated by `fopen`), partly written, or closed, and holds a step,
a time, and whether its data is what a run that is never killed has then (`whole`). A part of a file is read without a
check (`FemModel.cpp:460-468`): either the run stops with an error (`RestartFails`), or it goes on with a model that is not whole, with the step and the time of the
file (`RestartFromFile`). `Solve` uses the parts of all the ranks, so that nothing that comes of a model that is not whole is whole again
(`OneModel`): neither the models nor the records nor the checkpoints. Step and time are written before nodes, vertices and elements; a part that
has not even them counts as an error. `Fopen(r)` and `Barrier` are the turns of `pfopen`; `RestartWithoutFile`,
`RestartFails` and `RestartFromFile` are the outcomes of `FemModel::Restart`; `Loop`, `Solve`,
`SendResults`, `WriteResults`, `CloseResults`, `WriteCheckPoint`, `CloseCheckPoint`
are the body of the time loop, in the order of `After`. `Relaunch` kills the job in any
state (or finds it ended) and starts it again in its directory. `TransientSolution` is what
`parseresultsfromdisk.m` makes of the output file. Not modelled: one output file
per rank (`io_gather=0`), Dakota, remeshing, other settings at a relaunch.

### GlobalVector and MpiVec

`GlobalVector` says: one vector; contributions count when all ranks have called
`Assemble`, those of lower ranks first and those of a rank in their order;
`ToMPISerial` gives every rank all of it. `MpiVec` has buckets, a scatter of counts and one
of values for each root, queues between each pair of ranks, and blocks. `SetValues` with several rows is as many
`SetValue`; the three `Scatterv` (rows, values, modes) of one root are one, since
no rank does anything between them. The mapping (`WholeRow`, `Incoming`) lets
the contributions count in the step in which the ranks enter `Assemble`, and looks for them where
they are at that time: with the receiver, in its queue, or still with the sender.

### SlrCoupling

A process is a model: only the zeroth ranks talk to each other, and the others follow them in collectives. `up[i]` and
`down[i]` are the messages between ice cap `i` and the earth. MPI may keep a message until it is received (`eager = FALSE`: the sender
waits) or take it at once; `Sent` tells the two apart, and both are checked.

| action | code |
|---|---|
| `Restart(m)`, `Loop(m)`, `Record(m)` | the transient loop of a model, its restart and its checkpoint |
| `SendForcingSize(i)`, `SendForcing(i)`, `RecvForcingSize`, `RecvForcing`, `Consolidate` | `TransferForcing`: sizes and vectors, by ice cap, then the vector that is plugged together with `INS_VAL` |
| `SolveSealevel(converged)` | the iterations of `sealevelrise_core_noneustatic` |
| `SendSealevelSize`, `SendSealevel`, `RecvSealevelSize(i)`, `RecvSealevel(i)` | `TransferSealevel` |
| `CommNotFound(m)` | a model whose parameters were read from a checkpoint has no intercommunicator |

A value is a name (model, vertex, step), so that a value from the wrong step or vertex is seen. Not modelled: the
geoid and bed that are computed with the sea level, and the ranks inside a model.

### Penalties, EplMask and SolutionSequences

The ranks decide only on reduced values in these loops, and one step is one solve with everything that all the ranks do after it, up
to the next solve. The environment chooses what a solution is: which nodes are over their limit (`Overs`), which rift segments
are penetrated, the fields at the nodes of the EPL, and whether a norm is small enough. `Penalties` and `EplMask` are functions of
that choice; `SolutionSequences` has the state.

| action | code |
|---|---|
| `BeginThermal`, `ThermalSolve`, `EnthalpySolve` | `thermal_core`, `enthalpy_core`, `solutionsequence_thermal_nonlinear`, `solutionsequence_nonlinear` on enthalpy |
| `BeginHydrology`, `BeginSediment`, `SedimentSolve`, `SedimentGoesOn`, `SedimentConverges`, `BeginEpl`, `EplSolve`, `HydrologyConverges` | `solutionsequence_hydro_nonlinear`: two inner loops in an outer one |
| `BeginStressbalance`, `FixedPoint`, `SimpleSolve`, `Velocity`, `Pressure` | `solutionsequence_nonlinear` with the rifts, Newton, Stokes coupling, and the two augmented Lagrangian loops |
| `ConstraintActivate`, `RiftConstraintsState`, `NumUnstableRifts` | `Pengrid::ConstraintActivate*`, `RiftConstraintsState`, `ConstraintsStatex` |
| `Writes`, `Recurs`, `Counted`, `AssembledMask` | `HydrologyDCEfficientAnalysis::HydrologyEPLGetMask`, `FemModel::HydrologyEPLupdateDomainx` |

`AssembledMask` takes the value of the last writer of the highest rank, as the vector does (`MpiVec`). Not modelled: the Shreve and
Sommers hydrology, the fraction of melange of a rift segment, the test for the base of 3d meshes (`IsOnBase`), and the numerics.

## The runs

Each passing run checks its properties against a mutant of the code, one for each property.

| run | checks | instance | states |
|---|---|---|---|
| `nodes_dofx` | `TypeOK`, `RowsHaveOneOwner`, `RowsFollowRanks`, `ClonesAgree`, `SolutionIsMerged`, `IndexingIsCurrent`, `SameCollective`, `EveryUpdateIsSolved` | 3 ranks, 4 nodes, 2 times | 40,352 |
| `grounding_line` | `TypeOK`, `FloodIsLeastClosed`, `GeometryIsConsistent`, `RanksAgree`, `UngroundingIsConnectedAtDatum`, `FloodTerminates` | 2 ranks, 4 triangles, 6 vertices | 63,966 |
| `transient_restart` | `TypeOK`, `RanksAgree`, `SameCollective`, `RestartIsTransparent`, `OutputIsComplete`, `ResumesWhereRecorded`, `RunEnds` | 3 ranks, 3 launches | 121,568 |
| `mpi_vec` | `TypeOK`, `CallsAgree`, `IsOneVector` | 3 ranks, 2 rows | 128,734 |
| `slr_coupling` | `TypeOK`, `MessagesMatch`, `ForcingIsOfThisStep`, `SealevelIsOfThisStep`, `InStep`, `RunEnds` | 2 ice caps and the earth | 11,167 |
| `solution_sequences` | `TypeOK`, `ConvergedMeansSettled`, `RiftsFreezeTogether`, `EplFlipsAreBounded`, `SequencesEnd` | 2 ranks, 2 triangles, 4 rift segments | 36,779 |
| `model_processor` | `TypeOK`, `HooksResolve`, `CopiesAgree`, `SpcsAreInterpolated`, `LoadsResolve` | 2 ranks, 5 meshes, every finite element | 5,348 |

**Bounds.** *nodes_dofx*: three ranks are needed for a rank that is neither the first nor the last
in the offsets, and for a node with two clones; the four nodes are one shared by
three ranks with a transient constraint, one shared by two, one inside a rank
with a static constraint, and one frozen. Every mask and every set of NaN constraints is
reachable in every update, so there is no bound on the number of updates. The node shared by two has a dynamic constraint; two times
(`Times`), which may follow each other in any order, are enough to tell a value of this time from one of another.
*grounding_line*: elements alternate between the ranks, so that the flood crosses a
border in every round, and it needs up to four rounds; vertex 4 is a sill where thin ice
stays grounded; the shelf starts at the left, at both ends, in the middle, or nowhere, or on the grounding line.
There is no bound on the number of time steps.
*transient_restart*: `FinalTime = 7` gives five adapted steps, the last of which has to be
shortened, or four of `FixedStep = 2`, the last of which goes beyond the final time; outputs and checkpoints fall on different steps;
`MaxLaunches = 3` lets a run be killed, restarted and killed again, so that a file may hold what was computed from a part of a file. `CHECK_DEADLOCK
FALSE`: a job that has ended or failed in its last launch does nothing more.
*mpi_vec*: rank 1 owns no row and rank 0 gives no value, the cases in which a rank could skip a call;
the values of ranks 1 and 2 differ, so that the order of insertions shows;
`MaxContributions = 3` lets a row get an addition between two insertions;
two `Assemble` in a row let a fast rank enter the second while another is
still in the first. `MaxContributions` limits the values given and nothing else: the
calls go on for ever.
*slr_coupling*: the ice caps share vertex 2 of the earth, the second has two places there, and none has vertex 4, so that the order in which
values are plugged in shows; a model may have one step less than the others; messages are eager or not; some models record. `MaxLaunches = 2`.
`CHECK_DEADLOCK FALSE`: models with fewer steps than the others do block the job, which is what `InStep` and `RunEnds` say.
*solution_sequences*: the penalty nodes 1 and 4 are on one rank each and 2 on both, two of the four rift segments are on each rank, one is
closed by the user; six settings select the loops; `EplFlipLock = 6` with `NumAnalyses = 3` lets a node flip twice, and the two initial masks and
three fields open, grow and close the layer. The limits are 3 or 4 solves, and thresholds 1, so that each loop can end by its criterion and at its limit. The
second step (`MaxSteps = 2`) starts from what the first has left. `CHECK_DEADLOCK FALSE`: the run ends.

*model_processor*: ranks agree or not in pairs, so that two are enough, with every partition that leaves none of them empty (prisms by column, as
the code extrudes the partition). Each finite element is on a mesh of each kind that has it; meshes have an inner edge or face between the ranks, a boundary, an element
with no neighbour on its rank, and, for prisms, two layers. Two analyses follow each other, in both orders, so that the second starts from the counter.
There are pairs, rifts, a discontinuous mass transport, static and transient constraints, with vertices that have none or have one at some times only.
Cases in which the program stops with an error are left out: pairs with penalties at nodes or with discontinuous elements, a transient temperature
(`ThermalAnalysis.cpp:55-56`), and transient fields on elements with a bubble (`IoModelToConstraintsx.cpp:597`).

**Fairness.** Weak fairness of the collectives of a module taken together and of the local steps of
each rank: a rank computes until its next MPI call, which holds unless the job is killed, and MPI
completes a collective that all ranks have entered. It is assumed neither for `SetValue` (a rank
may give as few values as it likes) nor for `Relaunch`. `RunEnds` excludes launches that
find a file that was being written, which the code cannot survive (see below). Since at most
`MaxLaunches` launches happen, it says that the last one ends. In `SlrCoupling` each model computes until it waits for a message, and MPI
delivers messages: weak fairness of each model's steps. In `SolutionSequences` nothing runs beside the loop: weak fairness of `Next`.

**Divergences.** Five more runs each refute one statement of the repository.

| run | statement | what the code does |
|---|---|---|
| `nodes_dofx_pairing` | a clone picks up its numbers in the table (`Node.cpp:796`) | vertex pairing gives a rank a copy that none of its elements has; the ice mask does not reach it, and it may be the master. The clones read zeros for dofs that it did not show |
| `nodes_dofx_relax` | dofs are freed "only for active nodes" (`Node.cpp:460`, with an assertion) | `SpcTransient::ConstrainNode` relaxes a dof when the value is NaN, without looking at the node |
| `grounding_line_sea_level` | "Unground only if the element is connected to the ice shelf" (`Element.cpp:1774`) | `Tria::PotentialUngrounding` has no sea level in its test, the migration has one: where the sea is below the datum the flood goes through ice that stays grounded |
| `transient_restart_checkpoint` | recording allows for a restart (`src/m/classes/settings.m:75`) | the only checkpoint is truncated before the new one is written; a launch that finds a part of it stops, or goes on with a model that is not whole (`FemModel.cpp:460-468`), to results that are not those of their step |
| `transient_restart_results` | "increase counter if this is a new step" (`parseresultsfromdisk.m:34`) | a restarted run repeats steps, which get a second entry, or appends to a record that was cut off, where the reader gives up |

They use the modules and the instances of the passing runs, except that the two of
`TransientRestart` have 2 ranks, `FinalTime = 4`, every step saved and every second one recorded,
`nodes_dofx_pairing` has 2 ranks with one node each and a pairing, and `grounding_line_sea_level`
has a sea that has fallen at vertices 1 and 2. Most of the refuted
statements have a weaker form that holds and is checked: `ClonesAgree` without pairing,
`UngroundingIsConnectedAtDatum`, `ResumesWhereRecorded`, `RestartIsTransparent` and `OutputIsComplete`.

More disagreements were met while modelling. They have no run: the models follow the code there.

- A penalty that has changed too often is meant to stay active, but the call that locks it goes on and sets `active` again from the solution
  (`classes/Loads/Pengrid.cpp:463-469` for melting, `524-533` for the sediment). No property says otherwise: `ConvergedMeansSettled` asks nothing of a
  locked penalty, which the criterion of the loop does not count.
- `Pengrid::copy` sets the zigzag counter and the state of the *original* to 0 (`Pengrid.cpp:107`).
- A hydrology iteration that converges in the last allowed solve is reported as an error (`solutionsequence_hydro_nonlinear.cpp:120`).
- The loops on enthalpy, on sea level and of the Stokes coupling do one solve less than their limit says.
- The number of unstable rift segments is summed over the ranks before `ConstraintsStatex` sums it again with that of the penalties
  (`modules/ConstraintsStatex/ConstraintsStatex.cpp:43`): it is multiplied by the number of ranks.
- The flips of the efficient layer are counted once per analysis, since the loop of `FemModel.cpp:2725` goes over the nodes of all of them: the lock
  comes earlier than `eplflip_lock` says (`NumAnalyses` in `EplMask`).
- Where elements propose different values for a node of the layer, the order of the elements decides.
- Recording allows for a restart (`src/m/classes/settings.m:75`), but the restart file of a coupled model replaces its parameters and the intercommunicators
  are not in it (`classes/Params/Parameters.cpp:223`): each model stops in its first transfer. In the model nothing wrong is exchanged, because nothing is (`InStep`).
- The Incremental hydrostatic adjustment adds the whole sea level to base and surface at every time step (`MasstransportAnalysis.cpp:697-698`), not
  its change, so that a sea level other than 0 makes the shelf drift.
- With the GroundingOnly migration the surface is not base plus thickness (`src/m/classes/geometry.m:62` says it is).
- Paired edges of a discontinuous mass transport take the numbers of vertices for those of nodes (`MasstransportAnalysis.cpp:74-75`); a penalty at a node whose vertex is only
  there for a pair stops at its assertion (`Pengrid.cpp:53`); a pair whose first vertex
  comes in by a later pair can lack its second one on that rank (`PairsComeInTurn` excludes it).
- The pressure constraints of full Stokes (`StressbalanceAnalysis.cpp:123-174`) do not have the offsets of `CreateNodes.cpp`: P1P1 adds the elements, the TaylorHood
  element of prisms misses the faces, CrouzeixRaviart and LATaylorHood have no pressure at vertices. `SpcsAreInterpolated` is checked where they agree.
- The constraints of P2 elements are also put on the quads inside a mesh, and the quarter nodes of P2xP4 get the mean value of the edge.
- A penalty and a moulin of hydrology can have one id. A rank without nodes of an analysis skips a collective (`MaximumId`).
- "This ensures that this pair of elements will be in the same partition" (`ElementsAndVerticesPartitioning.cpp:87`): not so if a later pair moves one of the two.
- A transient temperature constraint is indexed with the vertex instead of its place (`ThermalAnalysis.cpp:55`).
- `solutionsequence_stokescoupling_nonlinear.cpp:43` updates the constraints of the horizontal analysis only: the vertical one keeps its first numbering.

## Proofs

The proofs hold for every value of the constants that satisfies the named
assumptions: `SizeAssumption`, `PartitionAssumption` and `ConstraintAssumption` (NodesDofx: at
least one rank and one node, every node is somewhere, at most one constraint per dof), `DynamicAssumption` (NodalConstraints: a dynamic constraint is one
of the fixed ones), `MeshAssumption` and `GeometryAssumption` (GroundingLine: every vertex is on a rank, whole numbers, drafts that are not negative),
`RunAssumption` (TransientRestart: whole numbers, positive time steps), `LayoutAssumption` (MpiVec:
any local sizes, any program of calls), `CouplingAssumption` (SlrCoupling: at least one ice cap, transitions that lead to vertices of the earth), `PenaltyAssumption`,
`EplAssumption` and `SequenceAssumption` (SolutionSequences: a rift segment is on one rank, a rank has the nodes of its elements, every node is in
an element, as `src/m/classes/mesh2d.m:88` checks, limits of at least one solve),
`SettingsAssumption` (ModelProcessor: a mesh of elements of one kind with vertices that exist, analyses of different names, finite elements for prisms
on prisms only, a full Stokes element just where the model is full Stokes, discontinuous Galerkin on triangles, pairs of vertices that exist).

Each module of proofs begins with the lemmas that it needs of the operators of `Reductions`: that a nonempty finite set has a maximum (`MaxOfFinite`), and of the
running sum its step, that it is monotonic, and that blocks which start where the last one ends do not overlap and leave no gap
(`RunningSumOrdered`, `RunningSumCovers`). Induction over the recursive function is replaced by the least
counterexample, since the induction theorems of the library take an operator.

**`NodesDofx_proofs`**. `TypeCorrect` (`TypeOK`) from `TypeInv`, which adds that the table of dofs is wide enough
for every copy that is going to read it (`TableWide`) and that a g list keeps its size: without them a clone could
read outside the table. `RanksMeetInSameCollective` (`SameCollective`) from `SamePhase`: all the ranks
are in the same stretch between two collectives, and number the same set. This is
inductive because a collective needs all the ranks, and because what they are told by
a reduction is the same for all.

`EveryNodeHasOneMaster`, `NoListIsOutdated` (`IndexingIsCurrent`): `MastersKnown` says that
from `SetClone` on a copy is a clone unless its rank is the lowest that holds the node, and that before, while constraints
are updated, either this is so already or all the copies of the rank ask for a renumbering; `FlagsClear` says that no flag is set
once the g set is numbered, until the next update; `SizesCurrent` says that the lists of a copy have the sizes of its sets as soon as they are
numbered, and as long as the copy does not ask for a renumbering.

`EveryRowHasOneDof` (`RowsHaveOneOwner`), `RowsAreInRankOrder` (`RowsFollowRanks`), from `DofsAreUnique`, `RanksAreBlocks`, `DofsAreDense`. `NumberingInv` follows one set through its
three stages: `Local` (each master's numbers start at the running sum of the sizes of the masters before it on
its rank), `Placed` (they start there plus the running sum of the totals of the lower ranks), and `Done`, which says which
sets are placed already while the others are numbered. `SamePhase` is needed here: no rank recounts a set that another one is still placing. The three theorems follow from
the lemmas on running sums. No assumption is made on which nodes change in between.

`CopiesHaveSameNumbers` (`ClonesAgree`) holds under `Unpaired`: a copy that no element of its rank visits is of a frozen node. Without it the property is
false, as `nodes_dofx_pairing` shows. `SharedSets` says that two copies have the same sets, except while one of their ranks has updated its constraints and
the other has not: then what the first has is the update of what the second has. `CopiesInv` follows the numbers through the table: before a rank has read it,
it shows the numbers of the master (`TableShown`), also if the master's rank has gone on to the next set; afterwards the copies have them (`Picked`); and
between two renumberings they keep them, or all the copies of all the ranks ask for new ones.

The second part of `NodesDofx_proofs` is about `NodalConstraints`. `ValuesKeepNumbering`: the model with the values implements NodesDofx, step by step, so that the theorems above hold for
what the run checks, too; `ValuedRowsHaveOneOwner` is one of them. It uses no assumption on the constraints.

`SolutionsAreMerged` (`SolutionIsMerged`) holds under `Visited`, which is `Unpaired`, and that a node with a dynamic constraint is one of an element. The argument has three
parts. `PositionIsBijective`: counting the dofs of a set below a dof gives every place of the list of the set once. `RowsAreSound`: from that, `ClonesAgree`,
`UniqueDofs` and `DofsAreDense`, the copies of a dof have one row, different dofs have different rows, and the rows fill the vector. `AssembledRow`: then a vector that copies
assemble has at a row the value on which they agree, whichever rank is last. The inductive invariant is `ValuesInv`: a copy that has applied its constraints has their values, a dof that never has a
constraint has zero, a dof that is relaxed is free, the dynamic values are of this time after the reset, and the numbers with which the reset reads are still good.

**`GroundingLine_proofs`**. `TypeCorrect`, `RanksEndWithSameIce` (`RanksAgree`), `GeometryStaysConsistent`, `FloodReachesLeastClosedSet` (`FloodIsLeastClosed`), `UngroundedIceIsConnected`
(`UngroundingIsConnectedAtDatum`), for any mesh, partition, bed, sea and number of steps. `PhaseInv`: the ranks are at the same place, or in two places
that no collective separates (`Together`), and the copies of a vertex have the same ice, except where a rank is ahead: its ice is then the update of what
the others still have (`SharedIce`). `GeometryInv`: ice that has just been transported rests on the bed or floats (`RestsOrFloats`); everywhere else the base is the one
of the level set, the bed or the hydrostatic base. `FloodInv`: what floats is in every closed set that has the shelf in it (`NotTooFar`), the vectors that a rank has not read yet and
its counts are those of this round (`CountsAreOfThisRound`), and where a rank may migrate what floats is closed (`Flooded`): a round without a flip has no
vertex left that wants to float next to one that does. `SoftInv`: what wants to float is light by the datum (`WantsAreLight`), the flood only
adds to the shelf, and after the migration what floats was reached and, at the datum, what was reached and wanted to float does (`Settled`).

**`TransientRestart_proofs`**. `TypeCorrect`, `NoMixedRestart` (`RanksAgree`), `RanksMeetInSameCollective`. `RestartInv` has five parts:
`StagesAgree` and `TurnsAgree` (where the other ranks can be, given where one is), `FilesAgree` (two files that hold a model hold that of the
same step and time, and then no file is missing), `FilesMatchStages` (what the file of a rank holds, by where the rank is) and
`ModelsAgree` (step and time agree among ranks that have left the restart behind). The core of the argument: a file is truncated on all ranks, with a
barrier in between, before any of them is written, so that the disk never holds
models of two steps. It needs the turns of `pfopen` as they are: the mutant in which a rank writes its file while it has its turn
violates `RanksAgree`.

`RecordedStepsAreKept` (`ResumesWhereRecorded`) from `ResumeInv`: when all files are closed they hold the step that was recorded last (`RecordedIsClosed`), and as long as no checkpoint was
interrupted a file without a model is that of a rank which is busy writing it (`FilesAreWhole`), and the models in files and in memory are whole.
`RestartsAreTransparent` (`RestartIsTransparent`) from `TimesInv`, `ResumeInv` and `RecordsAreWhole`. `TimesInv`: wherever a step and a time are kept together, on
a rank, in a file or in the output, the time is that of the step in the run that nobody interrupts (`UninterruptedTime`, used through its recursive
equation only), and no step is beyond the last one. `RecordsAreWhole`: until a launch finds a file that was being written, every record is whole, because ranks that solve together
agree (`RanksAgree`) and have whole models. `ResultsAreComplete` (`OutputIsComplete`) from `OutputInv`: a due step that is missing from the closed
output is later than every checkpoint (`FilesComplete`), and than the steps of rank 0 before the one that it is saving (`RootComplete`). Results are closed before the
checkpoint is truncated.

**`MpiVec_proofs`**. `DistributedSizesAddUp` (the sizes of `DetermineLocalSize` add up to the size of the vector)
and `EveryRowHasOneOwner` (also with ranks that own no row).

`RanksCallTheSame` (`CallsAgree`): `ControlInv` and `StagesInv` say how far apart two ranks can be: while one is in the scatters of an `Assemble` all of them are, though a
root does not wait for its receivers. `QueuesInv`: what is under way between two ranks, by the places of both. `BehavesAsOneVector` is the refinement of `GlobalVector`,
action by action (the safety half of `IsOneVector`). `RowsInv`: a row of the vector is what the buckets of all ranks will still make of the own value of its owner, as long as the owner
is in the scatters; then what it plugs in; otherwise its own value. It needs that sorting contributions into buckets keeps the order of those for one
row. `VectorTypeCorrect` (`TypeOK`) from `TypeInv` needs that a fold of additions and insertions is a number, by the least counterexample again.

**`SlrCoupling_proofs`**. `TypeCorrect`, `MessagesAgree` (`MessagesMatch`), `ForcingIsCurrent`, `SealevelIsCurrent`, `ModelsInStep` (`InStep`), for any number of ice
caps, meshes, transitions, steps and launches, with eager messages or not. The inductive invariant is `TypeOK`, `ExchangeInv` and `DataInv`. `Exchange(i)` lists, for
each place where the earth can be in its talk with ice cap `i`, the step of `i`, its place, and what is under way between the two: a forcing that
nobody has read is always of the step that the earth does or is about to do, and an ice cap cannot begin a step before it has the sea level of the last one.
`NoExchange(i)` is what is left of it when one of the two was restarted and has lost its communicator. `DataInv` says what the vectors hold by the place of their model. The
properties alone are not inductive: that a message has the right step follows from where its sender is.

**`SolutionSequences_proofs`**. `SequencesTypeCorrect` (`TypeOK`), with the counts that the loops cannot exceed. `RiftsFreeze` (`RiftsFreezeTogether`) from `FreezeInv`, which adds
that no segment of the saved loads is frozen: with those the next loop starts. `ConvergedLoopsHaveSettled` (`ConvergedMeansSettled`) from `SettledInv`, which adds that a thermal loop about to solve has no
verdict of an earlier one. `EplMaskSettles` (`EplFlipsAreBounded`) from `FlipsInv`: the counter of every copy of a node has moved at least as often as the node has
flipped, once per analysis. A node only flips if an element asks for it, which all its copies count, and if one of its
copies is not locked yet (`FlipIsCounted`).

**`ModelProcessor_proofs`**. That the copies of a node agree although no rank tells another what it creates: `RanksNumberAlike`, `NodeCopiesAreEqual` and
`CopiesAreEqual` (`CopiesAgree`), for any mesh, partition, finite element, list of analyses and number of ranks.

1. Loops (`NodesOn`): what a rank creates in a loop are the entries of one table, which all the ranks share, at the things that are its own. Two entries
   are the same if their ids are, or their serial ids (`Agree`). Where an edge has several nodes, or only some edges have any, the serial ids count all the
   edges up to this one, on every rank; the lemmas on running sums say that they do not overlap.
2. Blocks (`Block`): a loop keeps to the ids and serial ids between two bounds, so that the loops of an element can be put one after the other. For every finite
   element this gives `NodesMade`. The bounds need that the edges and faces that a rank has are some of those of the mesh, which the folds of `Mesh`
   guarantee (by a least counterexample: the provers have no induction over the fold).
3. Constraints (`ConstraintsFit`): a rank imposes something at a node if the node is its own, whoever else has the node.
4. In the course of the run: what a rank creates depends on its elements, its vertices, its counter and the mesh (`KeptNodes`,
   `KeptConstraints`), so that a rank which is ahead has what the others are going to create. The inductive invariant `NodesInv`: the counters are equal and the ranks are at the same analysis
   (`InStep`), the old nodes of a rank have ids up to the counter and names of earlier analyses (`OldNames`) and agree (`OldNodesAgree`), and the new ones are those of
   `CreateNodes` (`NodesAreMade`). `SpcsInv` says the same of the constraints. TLC finds both invariant on the instance of `model_processor`.

`CopiesAreEqual` holds under `PressureIsWherePut`. At vertices without an equation `StressbalanceAnalysis.cpp:123-174` imposes the pressure on a node whose id it takes from the
interpolation of the velocity. This is the node of the pressure for MINI, for MINIcondensed, and for TaylorHood and XTaylorHood, these two not on prisms, whose quads have nodes as well; for
OneLayerP4z nothing is imposed. For P1P1, P1P1GLS, LATaylorHood and the elements of Crouzeix and Raviart, the constraint names another node, or none: then a rank may have a constraint
that another copy of the node lacks. A setting without such vertices satisfies it with any element.
`NodeCopiesAreEqual` does not need it.

`ModelTypeCorrect` (`TypeOK`) from `MarksInv`: the marks of a partitioned rank are what the two passes over the pairs leave (`MarksAre`). A pass marks the second vertex of a pair
only if the first has its mark by then, so the theorem holds under `PairsComeInTurn`: where a vertex is second in one pair and first in another, the first of the two comes early enough,
or the other one comes again. The inputs of `setflowequation.m:132-137` and of the nightly tests are like that; most of them have no chains, and `test1110.m:42-50`, which has
(corners are paired in both directions), gives its pairs twice. An instance with such corners is among the settings. The code checks nothing of the kind.

What the theorems on the model processor assume of the input, `PressureIsWherePut`, `PairsComeInTurn`, `ModelsAreSound` and `LoadsAreSound`, is defined in ModelProcessor, and TLC evaluates it
on the settings of the instance before the run (`SettingsAreSound` in `MCModelProcessor`), where it is true.

The second half of the module prepares the next one: what the folds of `Mesh` put into the tables of edges and faces (`EdgeNumbers`, `FaceNumbers`), that ids of different names are
different (`IdsApart`), and that different names are at different points (`PointsApart`, `PressuresApart`).

**`ModelHooks_proofs`**, on the module before. That ids lead where they should: `HooksAreResolved` (`HooksResolve`), for any number of ranks, partition, mesh, list of analyses
and finite elements. The difficulty is that ids are computed twice, by loops in `CreateNodes.cpp` and by one table per finite element in `Tria`, `Tetra` and `Penta::Update`, and
that basis functions list their points a third time.

1. Names. A name says what a node is for, apart from any arithmetic: <<block, thing, copy>>, where the block is the vertices, edges, quads, bubbles or pressures. Each finite element has a
   shape (how many nodes on what), the shape gives the id of a name (`IdOf`), and different names have different ids (`IdsApart`).
2. `NodesAreNamed`: for each finite element, what CreateNodes makes for a rank has just the names the rank is to have (`Created`), in the order of their ids.
3. `ElementsShow`: for each finite element, the table of Update lists the ids of the names of the element, and the points of its basis functions are theirs, place by place.
4. Different names are at different points (`PointsApart`, `PressuresApart`), also when two elements look at an edge or a face from two sides. This is where the mesh
   comes in: an edge is known by its ends and a face by its three smallest vertices, which is enough on a conforming mesh whose prisms are in layers.
5. A rank creates every name its elements have (`Created` is by vertices, edges, faces and elements that are its own), and what else it creates is for a pair or for a flux (`CreatedAreUsed`).
6. In the course of the run: the inductive invariant is `NodesInv`, `MarksInv` and `HooksInv`. `HooksInv` says that there is one counter for each analysis (the same on all ranks, by `NodesInv`)
   such that the ids of an analysis end before the next counter, the nodes of each rank are those of its names and are sorted, the elements have the ids of their tables, and the fluxes have
   their nodes. `HooksResolve` says nothing before the ranks are done, so that it needs all of this to be inductive. At the end the parts above are put together (`EndResolves`).

The theorem holds under `ModelsAreSound`. The elements of a mesh have different vertices and are different (`Conforming`); prisms come
from the extrusion of a layer (`src/m/classes/model.m:716-725`); triangles go round in the same direction (`src/m/mesh/FixMesh.m:40-45` turns those that do not), without which the nodes that
a rank takes of a neighbour, at the first vertex of the side and the one before it (`NodesPartitioning.cpp:100-108`), would not be those of the flux; and Update has a table for the finite element (`TableFor`: it stops with "not supported yet" otherwise). The code itself checks only the last.

`LoadsAreResolved` (`LoadsResolve`), for any number of ranks, partition and mesh: penalties, rifts, fluxes and the loads at one vertex find all of their nodes, different ones and at the vertices
they are about, and their elements, all on the rank that has the load; each side of a triangle has its flux on one rank only.

1. Elements of a rift. The pass over the rifts puts the second element where the first one is. No rift undoes an earlier one if it takes away neither of its elements (`RiftsInTurn`);
   then both elements are on one rank at the end (`EpartIs`), and their vertices with them.
2. Sides. A side is made from one or two elements, and from the second one it is seen the other way round (`TwoSides`). This needs that the fold over the elements finds each side once
   (`FlattenApart`), that an element has no side twice, and that triangles go round in the same direction, so that the two nodes which
   `DiscontinuousGalerkinNodesPartitioning` takes from the neighbour, at the first vertex of the side and the one before it, are those of the side (`SideNodes`).
3. What each function of `CreateLoads` makes has its nodes among those that `CreateNodes` makes of the same analysis (`PenpairsResolve`, `RiftfrontsResolve`, `SinglesResolve`,
   `FluxesHaveNodes`): the second vertex of a pair is on the rank by `MarksInv`.
4. In the course of the run: `LoadsInv` adds to the invariant of `HooksAreResolved` that the loads a rank has are resolved already, and that once it has made an analysis with fluxes, each side that
   starts at an element of it has one. It is inductive since nodes are never taken away (`ResolvedAfter`). `LoadsResolve` is about the end only, and needs `HooksInv` for the ids of
   the nodes that a load names.

Besides `ModelsAreSound` and `PairsComeInTurn` it assumes `LoadsAreSound`: rifts come in an order that one pass can follow, and the vertices of a rift are in its two elements; a pair
has two vertices; discontinuous transport is for plane views and has no pairs (`MasstransportAnalysis.cpp:74-75` takes numbers of vertices for numbers of nodes); and an input with thermal or melting
analysis or with the inefficient hydrology has no pairs (the assertion at `Pengrid.cpp:53` is about an element of the own rank). The code checks none of these before it numbers the nodes; without the first, the third and the fourth it goes wrong in the ways
listed above.

Model-checked only:
- everything under fairness (`EveryUpdateIsSolved`, `FloodTerminates`, both `RunEnds`, `SequencesEnd`, the fairness of `IsOneVector`):
  the prover has neither liveness under fairness nor `ENABLED`;
- `SpcsAreInterpolated` of ModelProcessor. It needs that the arithmetic of `IoModelToConstraintsx`, which computes the ids of nodes once more, is that of the names, and that every edge and every
  vertex with a constraint belongs to an element of the rank which imposes it.

## Plan

In the order of the importance of the behaviour for the results of a run.

1. `Reductions`, `NodesDofx` and its proofs. Done.
2. `GroundingLine` and its proofs. Done; next the Contact migration.
3. `TransientRestart` and its proofs. Done; next the relaunch with other settings.
4. `MpiVec`, refining `GlobalVector`, and its proofs. Done; next the operations of a rank on its own block (`Set`, `Shift`, `Scale`, `AXPY`, norms).
5. `SlrCoupling` and its proofs. Done; next the ranks inside each model.
6. `Penalties`, `EplMask`, `SolutionSequences` and their proofs. Done; next the other hydrology models.
7. `NodalConstraints`, on NodesDofx, with its refinement and proofs. Done; next the loads that `Reduceloadx` moves to the right-hand side.
8. `Mesh`, `FiniteElements`, `ModelProcessor`, and the proofs that copies agree and that elements and loads find their nodes. Done; next the proof of `SpcsAreInterpolated`;
   then coupled flow equations, and the other analyses.
9. The fields of vertices and nodes across a restart.
