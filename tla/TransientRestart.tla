-------------------------- MODULE TransientRestart --------------------------
(***************************************************************************)
(* The time loop of a transient solution, its outputs, its checkpoints and *)
(* what a run does that is started again after it was killed.              *)
(*                                                                         *)
(* Every rank writes its part of the model in a restart file of its own;   *)
(* rank 0 appends the results of all the ranks to the output file.  The    *)
(* job can be killed at any time, with all its ranks; what is on the disk  *)
(* stays.  A run that is launched again in the same directory looks for    *)
(* its restart files, and goes on from there.                              *)
(*                                                                         *)
(* The model of a rank is abstracted to its step, its time and whether its *)
(* data is what a run that is never killed has then: it is not once the    *)
(* model was read from a part of a file, or ranks with models of different *)
(* steps have solved together; nothing that comes of it is.  Time is       *)
(* counted in units in which all the time steps are whole.                 *)
(***************************************************************************)
EXTENDS Reductions, Integers, Sequences, SequencesExt, FiniteSets

CONSTANTS
  NumProcs,    \* size of the communicator
  FinalTime,
  FixedStep,   \* the time step, when it does not adapt
  Cfl,         \* Cfl[r][t]: what the elements of rank r allow at time t
  Settings,    \* the settings to consider
  MaxLaunches  \* (bound) how often the job is launched

Rank == 0..(NumProcs - 1)

ASSUME RunAssumption ==
  /\ NumProcs \in Nat \ {0}
  /\ FinalTime \in Nat /\ FixedStep \in Nat \ {0} /\ MaxLaunches \in Nat \ {0}
  /\ Cfl \in [Rank -> [0..(FinalTime - 1) -> Nat \ {0}]]
  /\ Settings \subseteq [adapt : BOOLEAN, output : Nat \ {0}, recording : Nat]

VARIABLES
  pc,           \* pc[r]: what rank r does next, or the collective it waits in
  settings,
  step,         \* StepEnum and TimeEnum, by rank
  time,
  whole,        \* whole[r]: the data of rank r is that of a run that is never killed
  turn,         \* the rank whose turn it is to open its file, in pfopen
  rst,          \* rst[r]: the restart file of rank r
  outbin,       \* the records of the output file
  launches,
  interrupted,  \* (history) a launch found a restart file that was being written
  recorded      \* (history) the last step that all the ranks have recorded

model == <<step, time, whole>>
disk  == <<rst, outbin>>
job   == <<settings, launches, interrupted>>
vars  == <<pc, settings, step, time, whole, turn, rst, outbin, launches, interrupted, recorded>>

Goto(r, from, to) == pc[r] = from /\ pc' = [pc EXCEPT ![r] = to]
All(wait) == \A r \in Rank : pc[r] = wait

\* A restart file: missing, truncated by fopen, partly written, or closed, with the
\* model that it holds.
File(state, s, t, w) == [state |-> state, step |-> s, time |-> t, whole |-> w]
Missing == File("missing", 0, 0, FALSE)

-----------------------------------------------------------------------------
(***************************************************************************)
(* pfopen: the ranks open their files in turn, with a barrier after each.  *)
(***************************************************************************)
\* (mutant) the rank writes its file while it has its turn
OpenedFile_Written(r) == File("closed", step[r], time[r], whole[r])

\* A file that is opened for writing is truncated.
OpenedFile(r) == File("empty", 0, 0, FALSE)

Fopen(r) ==
  /\ turn = r
  /\ \/ Goto(r, "fopen r", "barrier r") /\ UNCHANGED rst
     \/ Goto(r, "fopen wb", "barrier wb") /\ rst' = [rst EXCEPT ![r] = OpenedFile(r)]
  /\ UNCHANGED <<model, turn, outbin, job, recorded>>

\* (mutant) a rank enters a barrier once it has opened its file
InBarrier_OpenedOnly(r, fopen, barrier) == pc[r] = barrier

\* A rank whose turn has not come is in the barrier too.
InBarrier(r, fopen, barrier) == pc[r] = barrier \/ (pc[r] = fopen /\ turn # r)

\* (mutant) the turn is not given back to rank 0
NextTurn_NoReset == turn + 1

NextTurn == IF turn = NumProcs - 1 THEN 0 ELSE turn + 1

Barrier(fopen, barrier, to) ==
  /\ \A r \in Rank : InBarrier(r, fopen, barrier)
  /\ turn' = NextTurn
  /\ pc' = IF turn' = 0 THEN [r \in Rank |-> to] ELSE pc
  /\ UNCHANGED <<model, disk, job, recorded>>

-----------------------------------------------------------------------------
(***************************************************************************)
(* FemModel::Restart.                                                      *)
(***************************************************************************)

\* (mutant) the time is read from the parameters before the restart
RestoredTime_Before(r) == time[r]

RestoredTime(r) == rst[r].time

\* (mutant) an empty file is taken for a missing one
HasFile_NotEmpty(r) == rst[r].state \in {"partial", "closed"}

HasFile(r) == rst[r].state # "missing"

\* Restart without a file leaves the model as it was built from the input file.
RestartWithoutFile(r) ==
  /\ ~HasFile(r)
  /\ Goto(r, "restart", "loop")
  /\ UNCHANGED <<model, turn, disk, job, recorded>>

\* An empty buffer cannot be read.  A part of one is read, and the model is taken
\* from beyond the end of the buffer: an error, or a model that is not whole.  Step and
\* time are written before nodes, vertices and elements: a part that has not even them
\* counts as an error.
RestartFails(r) ==
  /\ HasFile(r) /\ rst[r].state # "closed"
  /\ Goto(r, "restart", "failed")
  /\ UNCHANGED <<model, turn, disk, job, recorded>>

RestartFromFile(r) ==
  /\ rst[r].state \in {"partial", "closed"}
  /\ Goto(r, "restart", "renumber")
  /\ step' = [step EXCEPT ![r] = rst[r].step]
  /\ time' = [time EXCEPT ![r] = RestoredTime(r)]
  /\ whole' = [whole EXCEPT ![r] = (rst[r].state = "closed" /\ rst[r].whole)]
  /\ UNCHANGED <<turn, disk, job, recorded>>

\* The vertices and the nodes are numbered again, which is collective.
Renumber ==
  /\ All("renumber")
  /\ pc' = [r \in Rank |-> "loop"]
  /\ UNCHANGED <<model, turn, disk, job, recorded>>

-----------------------------------------------------------------------------
(***************************************************************************)
(* The time loop.                                                          *)
(***************************************************************************)
Loop(r) ==
  /\ Goto(r, "loop", IF time[r] < FinalTime THEN "solve" ELSE "done")
  /\ UNCHANGED <<model, turn, disk, job, recorded>>

\* TimeAdaptx: the smallest time step of all the elements.
AdaptedStep == MinOf({Cfl[r][time[r]] : r \in Rank})

TimeStep(r) ==
  IF ~settings.adapt THEN FixedStep
  ELSE IF time[r] + AdaptedStep > FinalTime THEN FinalTime - time[r]
  ELSE AdaptedStep

\* (mutant) the results of the last step are not saved
SaveResults_Multiples(s, t) == s % settings.output = 0 \/ s = 1

SaveResults(s, t) == s % settings.output = 0 \/ t >= FinalTime \/ s = 1

Record(s) == settings.recording # 0 /\ s % settings.recording = 0

\* (mutant) the model is recorded before the results are written
After_RecordFirst(task, s, t) ==
  IF task = "solve" /\ Record(s) THEN "fopen wb"
  ELSE IF task # "output" /\ SaveResults(s, t) THEN "output" ELSE "loop"

\* What follows a task at step s and time t: first the results, then the checkpoint.
After(task, s, t) ==
  IF task = "solve" /\ SaveResults(s, t) THEN "output"
  ELSE IF task # "checkpoint" /\ Record(s) THEN "fopen wb" ELSE "loop"

\* The ranks hold the parts of one model, of one step and time.
OneModel ==
  \A r1, r2 \in Rank : whole[r1] /\ step[r1] = step[r2] /\ time[r1] = time[r2]

\* The solutions of the step are collective, from the first to the last: the data of
\* every rank comes of that of all of them.
Solve ==
  /\ All("solve")
  /\ step' = [r \in Rank |-> step[r] + 1]
  /\ time' = [r \in Rank |-> time[r] + TimeStep(r)]
  /\ whole' = [r \in Rank |-> OneModel]
  /\ pc' = [r \in Rank |-> After("solve", step'[r], time'[r])]
  /\ UNCHANGED <<turn, disk, job, recorded>>

\* OutputResultsx.  The other ranks send their data to rank 0, which writes it.
SendResults(r) ==
  /\ r # 0
  /\ Goto(r, "output", After("output", step[r], time[r]))
  /\ UNCHANGED <<model, turn, disk, job, recorded>>

\* A record has the data of all the ranks.
Results(closed) ==
  [step |-> step[0], time |-> time[0], whole |-> \A r \in Rank : whole[r], closed |-> closed]

WriteResults ==
  /\ Goto(0, "output", "close results")
  /\ outbin' = Append(outbin, Results(FALSE))
  /\ UNCHANGED <<model, turn, rst, job, recorded>>

CloseResults ==
  /\ Goto(0, "close results", After("output", step[0], time[0]))
  /\ outbin' = [outbin EXCEPT ![Len(outbin)] = Results(TRUE)]
  /\ UNCHANGED <<model, turn, rst, job, recorded>>

\* FemModel::CheckPoint, after pfopen.
WriteCheckPoint(r) ==
  /\ Goto(r, "checkpoint", "close checkpoint")
  /\ rst' = [rst EXCEPT ![r] = File("partial", step[r], time[r], whole[r])]
  /\ UNCHANGED <<model, turn, outbin, job, recorded>>

AllRecorded(s) == \A r \in Rank : rst'[r].state = "closed" /\ rst'[r].step = s

CloseCheckPoint(r) ==
  /\ Goto(r, "close checkpoint", After("checkpoint", step[r], time[r]))
  /\ rst' = [rst EXCEPT ![r] = File("closed", rst[r].step, rst[r].time, rst[r].whole)]
  /\ recorded' = IF AllRecorded(step[r]) THEN step[r] ELSE recorded
  /\ UNCHANGED <<model, turn, outbin, job>>

-----------------------------------------------------------------------------
(***************************************************************************)
(* The job.                                                                *)
(***************************************************************************)
\* (mutant) the restart files are not looked for
FirstTask_NoRestart(setting) == "loop"

FirstTask(setting) == IF setting.recording # 0 THEN "fopen r" ELSE "loop"

Init ==
  /\ settings \in Settings
  /\ pc = [r \in Rank |-> FirstTask(settings)]
  /\ step = [r \in Rank |-> 0]
  /\ time = [r \in Rank |-> 0]
  /\ whole = [r \in Rank |-> TRUE]
  /\ turn = 0
  /\ rst = [r \in Rank |-> Missing]
  /\ outbin = <<>>
  /\ launches = 1
  /\ interrupted = FALSE
  /\ recorded = 0

\* The job ends, at its end or because it is killed, and is launched again with the
\* option "restart", which keeps the directory.
Relaunch ==
  /\ launches < MaxLaunches
  /\ launches' = launches + 1
  /\ pc' = [r \in Rank |-> FirstTask(settings)]
  /\ step' = [r \in Rank |-> 0]
  /\ time' = [r \in Rank |-> 0]
  /\ whole' = [r \in Rank |-> TRUE]
  /\ turn' = 0
  /\ interrupted' = (interrupted \/ \E r \in Rank : rst[r].state \in {"empty", "partial"})
  /\ UNCHANGED <<settings, disk, recorded>>

LocalStep(r) ==
  \/ Fopen(r)
  \/ RestartWithoutFile(r)
  \/ RestartFails(r)
  \/ RestartFromFile(r)
  \/ Loop(r)
  \/ SendResults(r)
  \/ WriteCheckPoint(r)
  \/ CloseCheckPoint(r)

RootStep == WriteResults \/ CloseResults

CollectiveStep ==
  \/ Barrier("fopen r", "barrier r", "restart")
  \/ Barrier("fopen wb", "barrier wb", "checkpoint")
  \/ Renumber
  \/ Solve

RunStep == RootStep \/ CollectiveStep \/ \E r \in Rank : LocalStep(r)

Next == RunStep \/ Relaunch

Spec == Init /\ [][Next]_vars

\* A rank does not stop unless the job is killed, and MPI completes a collective
\* that all the ranks have entered.
FairSpec == Spec /\ WF_vars(RootStep) /\ WF_vars(CollectiveStep)
                 /\ \A r \in Rank : WF_vars(LocalStep(r))

-----------------------------------------------------------------------------
(***************************************************************************)
(* The client, which reads the output file when the job has ended.         *)
(***************************************************************************)

\* The reader gives up at a record that it cannot read.
Readable ==
  {i \in 1..Len(outbin) : \A j \in 1..i : outbin[j].closed}

\* One record more: the counter grows when the step changes, and the record goes
\* to the entry with that number, or to the first one.
ReadRecord(read, record) ==
  LET new == record.step # read.step /\ record.step > 1
      counter == IF new THEN read.counter + 1 ELSE read.counter
      index == IF record.step = 1 THEN 1 ELSE counter
  IN  [counter |-> counter,
       step |-> IF new THEN record.step ELSE read.step,
       entries |-> [i \in DOMAIN read.entries \cup {index} |->
                      IF i = index THEN record.step ELSE read.entries[i]]]

\* The steps of the entries of the results, by index.
TransientSolution ==
  LET records == SubSeq(outbin, 1, Cardinality(Readable))
      start == [counter |-> 1, step |-> outbin[1].step, entries |-> [i \in {} |-> 0]]
  IN  IF records = <<>> THEN [i \in {} |-> 0]
      ELSE FoldLeft(ReadRecord, start, records).entries

-----------------------------------------------------------------------------
(***************************************************************************)
(* Properties.                                                             *)
(***************************************************************************)
PC == {"fopen r", "barrier r", "restart", "renumber", "loop", "solve", "output", "close results",
       "fopen wb", "barrier wb", "checkpoint", "close checkpoint", "done", "failed"}

\* Every variable has its type.
TypeOK ==
  /\ pc \in [Rank -> PC]
  /\ settings \in Settings
  /\ step \in [Rank -> Nat]
  /\ time \in [Rank -> Nat]
  /\ whole \in [Rank -> BOOLEAN]
  /\ turn \in Rank
  /\ rst \in [Rank -> [state : {"missing", "empty", "partial", "closed"},
                     step : Nat, time : Nat, whole : BOOLEAN]]
  /\ outbin \in Seq([step : Nat, time : Nat, whole : BOOLEAN, closed : BOOLEAN])
  /\ launches \in 1..MaxLaunches
  /\ interrupted \in BOOLEAN
  /\ recorded \in Nat

Done == All("done")

\* The time after k steps of a run that is never killed.
UninterruptedTime[k \in 0..FinalTime] ==
  IF k = 0 THEN 0
  ELSE LET t == UninterruptedTime[k - 1]
           cfl == MinOf({Cfl[r][t] : r \in Rank})
       IN  IF t >= FinalTime THEN t
           ELSE IF ~settings.adapt THEN t + FixedStep
           ELSE IF t + cfl > FinalTime THEN FinalTime ELSE t + cfl

LastStep == MinOf({k \in 0..FinalTime : UninterruptedTime[k] >= FinalTime})

\* The ranks that solve a step together are at the same step and the same time,
\* wherever the job was killed before: no rank restarts from an older checkpoint
\* than the others.
RanksAgree ==
  All("solve") => \A r1, r2 \in Rank : step[r1] = step[r2] /\ time[r1] = time[r2]

Waiting(r) == pc[r] \in {"barrier r", "renumber", "solve", "barrier wb"}

\* Ranks that wait in a collective wait in the same one.
SameCollective ==
  \A r1, r2 \in Rank : Waiting(r1) /\ Waiting(r2) => pc[r1] = pc[r2]

\* In every record of the output file, and in the model at the end, the time is the one
\* that a run that is never killed has at that step, and no step is beyond its last one.
\* The data is that of such a run as well, unless a launch found a restart file that was
\* being written: FemModel::Restart does not notice that a part of a file is missing, and
\* the run goes on, to results that are not those of its step.
RestartIsTransparent ==
  /\ \A i \in 1..Len(outbin) :
       /\ outbin[i].step <= LastStep /\ outbin[i].time = UninterruptedTime[outbin[i].step]
       /\ outbin[i].whole \/ interrupted
  /\ Done => \A r \in Rank :
       /\ step[r] = LastStep /\ time[r] = UninterruptedTime[LastStep]
       /\ whole[r] \/ interrupted

\* A step is due in the output file.
Due(k) == k \in 1..LastStep /\ (k % settings.output = 0 \/ k \in {1, LastStep})

\* At the end the output file has all the steps that are due, however often the
\* run was killed and whether it found a checkpoint or not.
OutputIsComplete ==
  Done => \A k \in 1..LastStep :
    Due(k) => \E i \in 1..Len(outbin) : outbin[i].closed /\ outbin[i].step = k

\* A run that was not killed while it was recording goes on from the last step
\* that was recorded, and not from an earlier one, with the data of that step.
ResumesWhereRecorded ==
  All("solve") /\ ~interrupted => \A r \in Rank : step[r] >= recorded /\ whole[r]

\* A run that has recorded a step can be restarted (settings.m: "frequency at which
\* the runs are being recorded, allowing for a restart").
RecordedRunCanRestart ==
  recorded > 0 => \A r \in Rank : pc[r] # "failed" /\ whole[r]

\* The client finds in the results of a run that was restarted each of the steps that are
\* due, and finds it once (settings.m: "frequency at which the runs are being recorded,
\* allowing for a restart"; parseresultsfromdisk.m: "Check step, increase counter if this
\* is a new step").
ClientReadsEachStepOnce ==
  Done => \A k \in 1..LastStep : Due(k) =>
    Cardinality({i \in DOMAIN TransientSolution : TransientSolution[i] = k}) = 1

\* The last launch of a run gets to its end, unless a launch found a restart file that
\* was being written.
RunEnds == <>[](Done \/ interrupted)

=============================================================================
