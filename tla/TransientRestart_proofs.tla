---------------------- MODULE TransientRestart_proofs ----------------------
(***************************************************************************)
(* Theorems about checkpoints and restarts, for any number of ranks, any   *)
(* time steps, any settings and any number of launches.                    *)
(***************************************************************************)
EXTENDS TransientRestart, Reductions, Integers, FiniteSetTheorems,
        SequenceTheorems, TLAPS

(***************************************************************************)
(* A nonempty set of natural numbers has a least element.                  *)
(***************************************************************************)
LEMMA LeastElement ==
  ASSUME NEW T \in SUBSET Nat, T # {}
  PROVE  \E x \in T : \A y \in T : x <= y
<1> DEFINE Below == {0..(n-1) : n \in T}
<1>1. IsWellFoundedOn(StrictSubsetOrdering(Nat), FiniteSubsetsOf(Nat))
  BY FS_StrictSubsetOrderingWellFounded
<1>2. Below \subseteq FiniteSubsetsOf(Nat)
  <2>1. \A n \in Nat : IsFiniteSet(0..(n-1))
    BY FS_Interval
  <2> QED BY <2>1 DEF FiniteSubsetsOf
<1>3. Below # {}
  OBVIOUS
<1>4. PICK b \in Below : \A c \in Below : <<c, b>> \notin StrictSubsetOrdering(Nat)
  <2> HIDE DEF Below
  <2> QED BY <1>1, <1>2, <1>3, WFMin
<1>5. PICK x \in T : b = 0..(x-1)
  OBVIOUS
<1>6. ASSUME NEW y \in T, y < x
      PROVE  FALSE
  <2>1. 0..(y-1) \subseteq 0..(x-1) /\ 0..(y-1) # 0..(x-1)
    <3>1. y \in 0..(x-1) /\ y \notin 0..(y-1)
      BY <1>6
    <3>2. 0..(y-1) \subseteq 0..(x-1)
      BY <1>6
    <3> QED BY <3>1, <3>2
  <2>2. 0..(y-1) \in SUBSET Nat /\ 0..(x-1) \in SUBSET Nat
    OBVIOUS
  <2>3. <<0..(y-1), b>> \in StrictSubsetOrdering(Nat)
    BY <2>1, <2>2, <1>5 DEF StrictSubsetOrdering
  <2> QED BY <2>3, <1>4
<1> QED BY <1>6

(***************************************************************************)
(* MinOf is the least element of a nonempty set of natural numbers.        *)
(***************************************************************************)
LEMMA MinOfNat ==
  ASSUME NEW S \in SUBSET Nat, S # {}
  PROVE  MinOf(S) \in S /\ \A x \in S : MinOf(S) <= x
BY LeastElement DEF MinOf

-----------------------------------------------------------------------------
LEMMA RankFacts ==
  /\ NumProcs \in Nat \ {0}
  /\ 0 \in Rank
  /\ \A r \in Rank : r \in Nat /\ r <= NumProcs - 1
  /\ FinalTime \in Nat
  /\ FixedStep \in Nat
BY RunAssumption DEF Rank

-----------------------------------------------------------------------------
(***************************************************************************)
(* Type correctness.  A rank that is going to solve is before the final    *)
(* time, where the elements have a time step to offer.                     *)
(***************************************************************************)
BeforeFinalTime == \A r \in Rank : pc[r] = "solve" => time[r] < FinalTime

PCType == pc \in [Rank -> PC]
ModelTypes == step \in [Rank -> Nat] /\ time \in [Rank -> Nat] /\ whole \in [Rank -> BOOLEAN]
FileType == rst \in [Rank -> [state : {"missing", "empty", "partial", "closed"},
                             step : Nat, time : Nat, whole : BOOLEAN]]
OutputType == outbin \in Seq([step : Nat, time : Nat, whole : BOOLEAN, closed : BOOLEAN])
JobTypes == settings \in Settings /\ launches \in 1..MaxLaunches /\ interrupted \in BOOLEAN

TypeInv ==
  /\ PCType
  /\ ModelTypes
  /\ turn \in Rank
  /\ FileType
  /\ OutputType
  /\ JobTypes
  /\ recorded \in Nat
  /\ BeforeFinalTime

\* The parts of the invariant that a step keeps with the variables they are about.
LEMMA TypesKept ==
  ASSUME TypeInv
  PROVE  /\ UNCHANGED model => ModelTypes'
         /\ UNCHANGED turn => turn' \in Rank
         /\ UNCHANGED rst => FileType'
         /\ UNCHANGED outbin => OutputType'
         /\ UNCHANGED job => JobTypes'
         /\ UNCHANGED recorded => recorded' \in Nat
BY DEF TypeInv, ModelTypes, FileType, OutputType, JobTypes, model, job

\* A rank that goes elsewhere than to the next step.
LEMMA GotoKeeps ==
  ASSUME TypeInv, NEW r \in Rank, NEW from, NEW to \in PC \ {"solve"}, Goto(r, from, to)
  PROVE  PCType' /\ (UNCHANGED model => BeforeFinalTime')
BY DEF TypeInv, PCType, BeforeFinalTime, Goto, model

LEMMA AdaptedStepNat ==
  ASSUME TypeInv, All("solve")
  PROVE  AdaptedStep \in Nat
<1> DEFINE S == {Cfl[r][time[r]] : r \in Rank}
<1>1. \A r \in Rank : time[r] \in 0..(FinalTime - 1)
  <2>1. \A r \in Rank : time[r] \in Nat /\ time[r] < FinalTime
    BY DEF TypeInv, ModelTypes, BeforeFinalTime, All
  <2> QED BY <2>1, RankFacts
<1>2. \A r \in Rank : Cfl[r][time[r]] \in Nat
  BY <1>1, RunAssumption
<1>3. S \in SUBSET Nat /\ S # {}
  BY <1>2, RankFacts
<1>4. MinOf(S) \in S
  BY <1>3, MinOfNat
<1> QED BY <1>3, <1>4 DEF AdaptedStep

LEMMA TimeStepNat ==
  ASSUME TypeInv, All("solve"), NEW r \in Rank
  PROVE  TimeStep(r) \in Nat
<1>1. time[r] \in Nat /\ time[r] < FinalTime
  BY DEF TypeInv, ModelTypes, BeforeFinalTime, All
<1> QED BY <1>1, AdaptedStepNat, RankFacts DEF TimeStep

LEMMA AfterType ==
  ASSUME NEW task, NEW s, NEW t
  PROVE  After(task, s, t) \in {"output", "fopen wb", "loop"}
BY DEF After

LEMMA ExceptType ==
  ASSUME NEW S, NEW s \in Seq(S), NEW x \in S, NEW i
  PROVE  [s EXCEPT ![i] = x] \in Seq(S)
<1>1. s \in [1..Len(s) -> S] /\ Len(s) \in Nat
  BY LenProperties
<1>2. [s EXCEPT ![i] = x] \in [1..Len(s) -> S]
  BY <1>1
<1> QED BY <1>1, <1>2, SeqDef

LEMMA ReplacedEntry ==
  ASSUME NEW S, NEW s \in Seq(S), NEW x \in S, NEW n, NEW t, t = [s EXCEPT ![n] = x]
  PROVE  /\ Len(t) = Len(s)
         /\ n \in 1..Len(s) => t[n] = x
         /\ \A i \in 1..Len(s) : t[i] = s[i] \/ (i = n /\ t[i] = x)
<1>1. s \in [1..Len(s) -> S] /\ Len(s) \in Nat
  BY LenProperties
<1>2. t \in Seq(S)
  BY ExceptType
<1>3. t \in [1..Len(s) -> S] /\ t \in [1..Len(t) -> S] /\ Len(t) \in Nat
  BY <1>1, <1>2, LenProperties
<1>4. Len(t) = Len(s)
  <2>1. DOMAIN t = 1..Len(s) /\ DOMAIN t = 1..Len(t)
    BY <1>3
  <2> QED BY <1>1, <1>3, <2>1
<1> QED BY <1>1, <1>4

LEMMA TypeInit == Init => TypeInv
<1> SUFFICES ASSUME Init PROVE TypeInv
  OBVIOUS
<1> USE RankFacts
<1>1. JobTypes
  <2>1. settings \in Settings /\ launches = 1 /\ interrupted = FALSE
    BY DEF Init
  <2>2. 1 \in 1..MaxLaunches
    BY RunAssumption
  <2> QED BY <2>1, <2>2 DEF JobTypes
<1>2. FirstTask(settings) \in {"fopen r", "loop"}
  BY DEF FirstTask
<1>3. PCType /\ BeforeFinalTime
  BY <1>2 DEF Init, PCType, PC, BeforeFinalTime
<1>4. ModelTypes /\ turn \in Rank /\ recorded \in Nat
  BY DEF Init, ModelTypes
<1>5. FileType
  BY DEF Init, FileType, Missing, File
<1>6. OutputType
  BY DEF Init, OutputType
<1> QED BY <1>1, <1>3, <1>4, <1>5, <1>6 DEF TypeInv

LEMMA TypeNext == TypeInv /\ [Next]_vars => TypeInv'
<1> SUFFICES ASSUME TypeInv, [Next]_vars PROVE TypeInv'
  OBVIOUS
<1> USE RankFacts
<1>1. ASSUME NEW r \in Rank, Fopen(r) PROVE TypeInv'
  <2>1. PCType' /\ BeforeFinalTime'
    BY <1>1, GotoKeeps DEF Fopen, PC
  <2>2. FileType'
    <3>1. CASE UNCHANGED rst
      BY <3>1, TypesKept
    <3>2. CASE rst' = [rst EXCEPT ![r] = OpenedFile(r)]
      BY <3>2 DEF TypeInv, FileType, OpenedFile, File
    <3> QED BY <1>1, <3>1, <3>2 DEF Fopen
  <2> QED BY <1>1, <2>1, <2>2, TypesKept DEF TypeInv, Fopen
<1>2. ASSUME NEW r \in Rank, RestartWithoutFile(r) \/ RestartFails(r) PROVE TypeInv'
  <2>1. PCType' /\ BeforeFinalTime'
    BY <1>2, GotoKeeps DEF RestartWithoutFile, RestartFails, PC
  <2> QED BY <1>2, <2>1, TypesKept DEF TypeInv, RestartWithoutFile, RestartFails, disk
<1>3. ASSUME NEW r \in Rank, RestartFromFile(r) PROVE TypeInv'
  <2>1. PCType' /\ BeforeFinalTime'
    BY <1>3 DEF TypeInv, PCType, PC, ModelTypes, BeforeFinalTime, RestartFromFile, Goto
  <2>2. rst[r].step \in Nat /\ RestoredTime(r) \in Nat
    BY DEF TypeInv, FileType, RestoredTime
  <2>3. (rst[r].state = "closed" /\ rst[r].whole) \in BOOLEAN
    OBVIOUS
  <2>4. ModelTypes'
    BY <1>3, <2>2, <2>3 DEF TypeInv, ModelTypes, RestartFromFile
  <2> QED BY <1>3, <2>1, <2>4, TypesKept DEF TypeInv, RestartFromFile, disk
<1>4. ASSUME NEW r \in Rank, Loop(r) PROVE TypeInv'
  <2>1. PCType' /\ BeforeFinalTime'
    BY <1>4 DEF TypeInv, PCType, PC, BeforeFinalTime, Loop, Goto, model
  <2> QED BY <1>4, <2>1, TypesKept DEF TypeInv, Loop, disk
<1>5. ASSUME NEW r \in Rank, SendResults(r) PROVE TypeInv'
  <2>1. PCType' /\ BeforeFinalTime'
    BY <1>5, AfterType, GotoKeeps DEF SendResults, PC
  <2> QED BY <1>5, <2>1, TypesKept DEF TypeInv, SendResults, disk
<1>6. ASSUME NEW r \in Rank, WriteCheckPoint(r) PROVE TypeInv'
  <2>1. PCType' /\ BeforeFinalTime'
    BY <1>6, GotoKeeps DEF WriteCheckPoint, PC
  <2>2. FileType'
    BY <1>6 DEF TypeInv, FileType, ModelTypes, WriteCheckPoint, File
  <2> QED BY <1>6, <2>1, <2>2, TypesKept DEF TypeInv, WriteCheckPoint
<1>7. ASSUME NEW r \in Rank, CloseCheckPoint(r) PROVE TypeInv'
  <2>1. PCType' /\ BeforeFinalTime'
    BY <1>7, AfterType, GotoKeeps DEF CloseCheckPoint, PC
  <2>2. FileType'
    BY <1>7 DEF TypeInv, FileType, CloseCheckPoint, File
  <2>3. recorded' \in Nat
    BY <1>7 DEF TypeInv, ModelTypes, CloseCheckPoint
  <2> QED BY <1>7, <2>1, <2>2, <2>3, TypesKept DEF TypeInv, CloseCheckPoint
<1>8. ASSUME NEW b \in BOOLEAN PROVE Results(b) \in [step : Nat, time : Nat, whole : BOOLEAN, closed : BOOLEAN]
  BY DEF TypeInv, ModelTypes, Results
<1>9. ASSUME WriteResults PROVE TypeInv'
  <2>1. PCType' /\ BeforeFinalTime'
    BY <1>9, GotoKeeps DEF WriteResults, PC
  <2>2. OutputType'
    <3>1. outbin' = Append(outbin, Results(FALSE))
      BY <1>9 DEF WriteResults
    <3> QED BY <1>8, <3>1, AppendProperties DEF TypeInv, OutputType
  <2> QED BY <1>9, <2>1, <2>2, TypesKept DEF TypeInv, WriteResults
<1>10. ASSUME CloseResults PROVE TypeInv'
  <2>1. PCType' /\ BeforeFinalTime'
    BY <1>10, AfterType, GotoKeeps DEF CloseResults, PC
  <2>2. OutputType'
    <3>1. outbin' = [outbin EXCEPT ![Len(outbin)] = Results(TRUE)]
      BY <1>10 DEF CloseResults
    <3> QED BY <1>8, <3>1, ExceptType DEF TypeInv, OutputType
  <2> QED BY <1>10, <2>1, <2>2, TypesKept DEF TypeInv, CloseResults
<1>11. ASSUME NEW fopen, NEW barrier, NEW to \in PC \ {"solve"}, Barrier(fopen, barrier, to)
       PROVE  TypeInv'
  <2>1. turn' \in Rank
    <3>1. turn' = IF turn = NumProcs - 1 THEN 0 ELSE turn + 1
      BY <1>11 DEF Barrier, NextTurn
    <3>2. turn \in 0..(NumProcs - 1)
      BY DEF TypeInv, Rank
    <3> QED BY <3>1, <3>2 DEF Rank
  <2>2. PCType' /\ BeforeFinalTime'
    BY <1>11 DEF TypeInv, PCType, BeforeFinalTime, Barrier, model
  <2> QED BY <1>11, <2>1, <2>2, TypesKept DEF TypeInv, Barrier, disk
<1>12. ASSUME Renumber PROVE TypeInv'
  <2>1. PCType' /\ BeforeFinalTime'
    BY <1>12 DEF PCType, PC, BeforeFinalTime, Renumber
  <2> QED BY <1>12, <2>1, TypesKept DEF TypeInv, Renumber, disk
<1>13. ASSUME Solve PROVE TypeInv'
  <2>1. \A r \in Rank : TimeStep(r) \in Nat
    BY <1>13, TimeStepNat DEF Solve
  <2>2. ModelTypes'
    <3>1. OneModel \in BOOLEAN
      BY DEF OneModel
    <3> QED BY <1>13, <2>1, <3>1 DEF Solve, TypeInv, ModelTypes
  <2>3. pc' \in [Rank -> {"output", "fopen wb", "loop"}]
    BY <1>13, AfterType DEF Solve
  <2>4. PCType' /\ BeforeFinalTime'
    BY <2>3 DEF PCType, PC, BeforeFinalTime
  <2> QED BY <1>13, <2>2, <2>4, TypesKept DEF TypeInv, Solve, disk
<1>14. ASSUME Relaunch PROVE TypeInv'
  <2>1. FirstTask(settings) \in {"fopen r", "loop"}
    BY DEF FirstTask
  <2>2. PCType' /\ BeforeFinalTime'
    BY <1>14, <2>1 DEF PCType, PC, BeforeFinalTime, Relaunch
  <2>3. ModelTypes' /\ turn' \in Rank
    BY <1>14 DEF ModelTypes, Relaunch
  <2>4. launches' \in 1..MaxLaunches
    BY <1>14, RunAssumption DEF Relaunch, TypeInv, JobTypes
  <2>5. interrupted' \in BOOLEAN
    BY <1>14 DEF Relaunch, TypeInv, JobTypes
  <2>6. JobTypes'
    BY <1>14, <2>4, <2>5 DEF Relaunch, TypeInv, JobTypes
  <2> QED BY <1>14, <2>2, <2>3, <2>6, TypesKept DEF TypeInv, Relaunch, disk
<1>15. ASSUME UNCHANGED vars PROVE TypeInv'
  BY <1>15, TypesKept DEF TypeInv, PCType, BeforeFinalTime, vars, model, job
<1>16. {"restart", "checkpoint"} \subseteq PC \ {"solve"}
  BY DEF PC
<1> QED BY <1>1, <1>2, <1>3, <1>4, <1>5, <1>6, <1>7, <1>9, <1>10, <1>11, <1>12, <1>13, <1>14, <1>15, <1>16
        DEF Next, RunStep, RootStep, CollectiveStep, LocalStep

\* Every variable has its type, in every launch and whatever the restart files hold.
THEOREM TypeCorrect == Spec => []TypeOK
<1>1. TypeInv => TypeOK
  BY DEF TypeInv, PCType, ModelTypes, FileType, OutputType, JobTypes, TypeOK
<1> QED BY <1>1, TypeInit, TypeNext, PTL DEF Spec

-----------------------------------------------------------------------------
(***************************************************************************)
(* What the ranks restart from.  The invariant follows a checkpoint from   *)
(* the turns of pfopen, where every file is truncated before any is        *)
(* written, to a launch that finds the files as the kill has left them.    *)
(***************************************************************************)
ReadOpen  == {"fopen r", "barrier r"}
Starting  == {"restart", "renumber", "failed"}
Going     == {"loop", "solve", "done"}
Saving    == {"output", "close results"}
WriteOpen == {"fopen wb", "barrier wb"}
Writing   == {"checkpoint", "close checkpoint"}

\* Where the ranks can be together.
StagesAgree ==
  \A r, q \in Rank :
    /\ pc[r] \in ReadOpen => pc[q] \in ReadOpen
    /\ pc[r] \in Starting => pc[q] \in Starting \cup Going
    /\ pc[r] \in WriteOpen => pc[q] \in Saving \cup WriteOpen
    /\ pc[r] \in Writing => pc[q] \in Writing \cup Going
    /\ pc[r] \in Saving /\ pc[q] \in Going => ~Record(step[r])
    /\ pc[r] \in WriteOpen \cup Writing => Record(step[r])

\* The ranks open their files in the order of their numbers.
TurnsAgree ==
  /\ \A r \in Rank : /\ pc[r] \in {"fopen r", "fopen wb"} => turn <= r
                     /\ pc[r] \in {"barrier r", "barrier wb"} => r <= turn
                     /\ turn # 0 => pc[r] \in ReadOpen \cup WriteOpen

HasModel(r) == rst[r].state \in {"partial", "closed"}

\* What two restart files can hold at the same time.
FilesAgree ==
  \A r, q \in Rank :
    HasModel(r) => /\ rst[q].state # "missing"
                   /\ HasModel(q) => rst[q].step = rst[r].step /\ rst[q].time = rst[r].time

\* What the file of a rank holds, by where the rank is.
FilesMatchStages ==
  \A r \in Rank :
    /\ pc[r] = "renumber" => HasModel(r) /\ rst[r].step = step[r] /\ rst[r].time = time[r]
    /\ pc[r] \in {"barrier wb", "checkpoint"} => rst[r].state = "empty"
    /\ pc[r] = "close checkpoint" =>
         rst[r].state = "partial" /\ rst[r].step = step[r] /\ rst[r].time = time[r]
    /\ pc[r] \in Going => \A q \in Rank :
         /\ pc[q] \in Starting => rst[r].state = "missing"
         /\ pc[q] \in Writing =>
              rst[r].state = "closed" /\ rst[r].step = step[r] /\ rst[r].time = time[r]

\* Ranks that have left the restart behind have the same model, and so have those
\* that have not found it yet.
ModelsAgree ==
  /\ \A r, q \in Rank : pc[r] \notin Starting /\ pc[q] \notin Starting =>
       step[q] = step[r] /\ time[q] = time[r]
  /\ \A r \in Rank : pc[r] \in ReadOpen \cup {"restart"} => step[r] = 0 /\ time[r] = 0
  /\ \A r, q \in Rank : pc[r] \in Starting /\ pc[q] \in Going => step[q] = 0 /\ time[q] = 0

RestartInv == StagesAgree /\ TurnsAgree /\ FilesAgree /\ FilesMatchStages /\ ModelsAgree

LEMMA RestartInit == Init => RestartInv
<1> SUFFICES ASSUME Init PROVE RestartInv
  OBVIOUS
<1> USE RankFacts
<1>1. FirstTask(settings) \in {"fopen r", "loop"}
  BY DEF FirstTask
<1>2. pc = [r \in Rank |-> FirstTask(settings)] /\ turn = 0
  BY DEF Init
<1>3. \A r \in Rank : step[r] = 0 /\ time[r] = 0 /\ rst[r].state = "missing"
  BY DEF Init, Missing, File
<1>4. StagesAgree
  BY <1>1, <1>2 DEF StagesAgree, ReadOpen, Starting, Going, Saving, WriteOpen, Writing
<1>5. TurnsAgree
  <2>1. \A r \in Rank : pc[r] \in {"fopen r", "loop"}
    BY <1>1, <1>2
  <2>2. \A r \in Rank : 0 <= r
    BY RankFacts
  <2> QED BY <1>2, <2>1, <2>2 DEF TurnsAgree
<1>6. FilesAgree
  BY <1>3 DEF FilesAgree, HasModel
<1>7. FilesMatchStages
  BY <1>1, <1>2, <1>3 DEF FilesMatchStages, Starting, Going, Writing
<1>8. ModelsAgree
  BY <1>1, <1>2, <1>3 DEF ModelsAgree, Starting, Going
<1> QED BY <1>4, <1>5, <1>6, <1>7, <1>8 DEF RestartInv

\* What a rank that goes on leaves alone.
LEMMA GotoFacts ==
  ASSUME TypeInv, NEW r \in Rank, NEW from, NEW to, Goto(r, from, to)
  PROVE  pc[r] = from /\ pc'[r] = to /\ \A q \in Rank : q # r => pc'[q] = pc[q]
BY DEF TypeInv, PCType, Goto

LEMMA RestartKeptByFopen ==
  ASSUME TypeInv, RestartInv, NEW r \in Rank, Fopen(r)
  PROVE  RestartInv'
<1> USE DEF RestartInv
<1>1. /\ turn' = turn /\ turn = r /\ r \in Nat
      /\ step' = step /\ time' = time /\ settings' = settings
  BY RankFacts DEF Fopen, model, job
<1>2. CASE Goto(r, "fopen r", "barrier r") /\ rst' = rst
  <2>1. pc[r] = "fopen r" /\ pc'[r] = "barrier r" /\ \A q \in Rank : q # r => pc'[q] = pc[q]
    BY <1>2, GotoFacts
  <2>2. \A q \in Rank : pc[q] \in ReadOpen /\ pc'[q] \in ReadOpen
    BY <2>1 DEF StagesAgree, ReadOpen
  <2>3. StagesAgree'
    BY <2>2 DEF StagesAgree, ReadOpen, Starting, Saving, Going, WriteOpen, Writing
  <2>4. TurnsAgree'
    BY <1>1, <2>1, <2>2 DEF TurnsAgree, ReadOpen
  <2>5. FilesAgree'
    BY <1>2 DEF FilesAgree, HasModel
  <2>6. FilesMatchStages'
    BY <2>2 DEF FilesMatchStages, ReadOpen, Going
  <2>7. ModelsAgree'
    BY <1>1, <2>2 DEF ModelsAgree, ReadOpen, Starting, Going
  <2> QED BY <2>3, <2>4, <2>5, <2>6, <2>7
<1>3. CASE Goto(r, "fopen wb", "barrier wb") /\ rst' = [rst EXCEPT ![r] = File("empty", 0, 0, FALSE)]
  <2>1. pc[r] = "fopen wb" /\ pc'[r] = "barrier wb" /\ \A q \in Rank : q # r => pc'[q] = pc[q]
    BY <1>3, GotoFacts
  <2>2. rst'[r].state = "empty" /\ \A q \in Rank : q # r => rst'[q] = rst[q]
    BY <1>3 DEF TypeInv, FileType, File
  <2>3. \A q \in Rank : /\ pc[q] \in {"output", "close results", "fopen wb", "barrier wb"}
                       /\ pc'[q] \in {"output", "close results", "fopen wb", "barrier wb"}
    BY <1>1, <2>1 DEF StagesAgree, Saving, WriteOpen
  <2>4. StagesAgree'
    <3>1. \A q \in Rank : pc'[q] \in {"fopen wb", "barrier wb"} => pc[q] \in {"fopen wb", "barrier wb"}
      BY <2>1
    <3>2. \A q \in Rank : pc[q] \in {"fopen wb", "barrier wb"} => Record(step[q])
      BY DEF StagesAgree, WriteOpen
    <3>3. \A q \in Rank : Record(step[q])' = Record(step[q])
      BY <1>1 DEF Record
    <3>4. \A q \in Rank : pc'[q] \in {"fopen wb", "barrier wb"} => Record(step[q])'
      BY <3>1, <3>2, <3>3
    <3> QED BY <2>3, <3>4 DEF StagesAgree, ReadOpen, Starting, Saving, Going, WriteOpen, Writing
  <2>5. TurnsAgree'
    BY <1>1, <2>1, <2>3 DEF TurnsAgree, ReadOpen, WriteOpen
  <2>6. FilesAgree'
    BY <2>2 DEF FilesAgree, HasModel
  <2>7. FilesMatchStages'
    BY <2>1, <2>2, <2>3 DEF FilesMatchStages, Going
  <2>8. ModelsAgree'
    <3>1. \A q \in Rank : /\ pc[q] \notin Starting /\ pc'[q] \notin Starting
                         /\ pc'[q] \notin ReadOpen /\ pc'[q] # "restart"
      BY <2>3 DEF Starting, ReadOpen
    <3> QED BY <1>1, <3>1 DEF ModelsAgree
  <2> QED BY <2>4, <2>5, <2>6, <2>7, <2>8
<1> QED BY <1>2, <1>3 DEF Fopen, OpenedFile

LEMMA StagesApart ==
  \A p : /\ p \in Starting => p \notin ReadOpen \cup Going \cup Saving \cup WriteOpen \cup Writing
         /\ p \in Going => p \notin ReadOpen \cup Saving \cup WriteOpen \cup Writing
         /\ p \in Saving => p \notin ReadOpen \cup WriteOpen \cup Writing
         /\ p \in Writing => p \notin ReadOpen \cup WriteOpen
         /\ p \in ReadOpen => p \notin WriteOpen
BY DEF ReadOpen, Starting, Going, Saving, WriteOpen, Writing

LEMMA RestartKeptByRestartWithoutFile ==
  ASSUME TypeInv, RestartInv, NEW r \in Rank, RestartWithoutFile(r)
  PROVE  RestartInv'
<1> USE DEF RestartInv
<1>1. turn' = turn /\ step' = step /\ time' = time /\ settings' = settings /\ rst' = rst
  BY DEF RestartWithoutFile, model, job, disk
<1>2. pc[r] = "restart" /\ pc'[r] = "loop" /\ \A q \in Rank : q # r => pc'[q] = pc[q]
  BY GotoFacts DEF RestartWithoutFile
<1>3. rst[r].state = "missing"
  BY DEF RestartWithoutFile, HasFile
<1>4. pc[r] \in Starting /\ pc'[r] \in Going
  BY <1>2 DEF Starting, Going
<1>5. \A q \in Rank : pc[q] \in Starting \cup Going /\ pc'[q] \in Starting \cup Going
  BY <1>2, <1>4 DEF StagesAgree
<1>6. \A q \in Rank : pc'[q] \notin ReadOpen \cup Saving \cup WriteOpen \cup Writing
  BY <1>5, StagesApart
<1>7. \A q \in Rank : pc[q] \notin ReadOpen \cup WriteOpen
  BY <1>5, StagesApart
<1>8. StagesAgree'
  BY <1>5, <1>6 DEF StagesAgree
<1>9. TurnsAgree'
  <2>1. turn = 0
    BY <1>7 DEF TurnsAgree
  <2>2. \A q \in Rank : pc'[q] \notin {"fopen r", "fopen wb", "barrier r", "barrier wb"}
    BY <1>6 DEF ReadOpen, WriteOpen
  <2> QED BY <1>1, <2>1, <2>2 DEF TurnsAgree
<1>10. FilesAgree'
  BY <1>1 DEF FilesAgree, HasModel
<1>11. FilesMatchStages'
  <2>1. \A q \in Rank : pc'[q] \notin {"barrier wb", "checkpoint", "close checkpoint"}
    BY <1>6 DEF WriteOpen, Writing
  <2>2. \A q \in Rank : pc'[q] \in Going => rst[q].state = "missing"
    BY <1>2, <1>3, <1>4 DEF FilesMatchStages
  <2>3. \A q \in Rank : pc'[q] = "renumber" => pc[q] = "renumber"
    BY <1>2
  <2> QED BY <1>1, <1>6, <2>1, <2>2, <2>3 DEF FilesMatchStages, HasModel
<1>12. ModelsAgree'
  <2>1. \A q \in Rank : pc'[q] \in Going => step[q] = 0 /\ time[q] = 0
    BY <1>2, <1>4 DEF ModelsAgree
  <2>2. \A q \in Rank : pc'[q] \notin Starting => pc'[q] \in Going
    BY <1>5
  <2>3. \A q \in Rank : pc'[q] = "restart" => pc[q] = "restart"
    BY <1>2
  <2> QED BY <1>1, <1>6, <2>1, <2>2, <2>3 DEF ModelsAgree
<1> QED BY <1>8, <1>9, <1>10, <1>11, <1>12

\* A rank that stays in its stage, and changes neither its model nor its file.
LEMMA RestartKeptInStage ==
  ASSUME RestartInv, NEW r \in Rank, UNCHANGED <<turn, step, time, settings, rst>>,
         \A q \in Rank : q # r => pc'[q] = pc[q],
         \/ pc[r] \in Starting /\ pc'[r] = "failed"
         \/ pc[r] \in Going /\ pc'[r] \in Going
         \/ pc[r] \in Saving /\ pc'[r] \in Saving
  PROVE  RestartInv'
<1> USE DEF RestartInv
<1>1. \A q \in Rank : /\ pc'[q] \in Starting <=> pc[q] \in Starting
                      /\ pc'[q] \in Going <=> pc[q] \in Going
                      /\ pc'[q] \in Saving <=> pc[q] \in Saving
                      /\ pc'[q] \in ReadOpen <=> pc[q] \in ReadOpen
                      /\ pc'[q] \in WriteOpen <=> pc[q] \in WriteOpen
                      /\ pc'[q] \in Writing <=> pc[q] \in Writing
  <2>1. "failed" \in Starting
    BY DEF Starting
  <2> QED BY <2>1, StagesApart
<1>2. \A q \in Rank : pc'[q] # pc[q] => pc'[q] \notin {"fopen r", "fopen wb", "barrier r", "barrier wb",
          "renumber", "restart", "checkpoint", "close checkpoint"}
  BY DEF Going, Saving
<1>3. StagesAgree'
  <2>1. \A q \in Rank : Record(step[q])' = Record(step[q])
    BY DEF Record
  <2> QED BY <1>1, <2>1 DEF StagesAgree
<1>4. TurnsAgree'
  BY <1>1, <1>2 DEF TurnsAgree
<1>5. FilesAgree'
  BY DEF FilesAgree, HasModel
<1>6. FilesMatchStages'
  BY <1>1, <1>2 DEF FilesMatchStages, HasModel
<1>7. ModelsAgree'
  BY <1>1, <1>2 DEF ModelsAgree
<1> QED BY <1>3, <1>4, <1>5, <1>6, <1>7

LEMMA RestartKeptByRestartFromFile ==
  ASSUME TypeInv, RestartInv, NEW r \in Rank, RestartFromFile(r)
  PROVE  RestartInv'
<1> USE DEF RestartInv
<1>1. turn' = turn /\ settings' = settings /\ rst' = rst
  BY DEF RestartFromFile, job, disk
<1>2. pc[r] = "restart" /\ pc'[r] = "renumber" /\ \A q \in Rank : q # r => pc'[q] = pc[q]
  BY GotoFacts DEF RestartFromFile
<1>3. /\ step'[r] = rst[r].step /\ time'[r] = rst[r].time
      /\ \A q \in Rank : q # r => step'[q] = step[q] /\ time'[q] = time[q]
  BY DEF RestartFromFile, RestoredTime, TypeInv, ModelTypes
<1>4. pc[r] \in Starting /\ pc'[r] \in Starting
  BY <1>2 DEF Starting
<1>5. \A q \in Rank : pc[q] \in Starting \cup Going /\ pc'[q] \in Starting \cup Going
  BY <1>2, <1>4 DEF StagesAgree
<1>6. \A q \in Rank : pc'[q] \notin ReadOpen \cup Saving \cup WriteOpen \cup Writing
  BY <1>5, StagesApart
<1>7. \A q \in Rank : pc[q] \notin ReadOpen \cup WriteOpen
  BY <1>5, StagesApart
<1>8. StagesAgree'
  BY <1>5, <1>6 DEF StagesAgree
<1>9. TurnsAgree'
  <2>1. turn = 0
    BY <1>7 DEF TurnsAgree
  <2>2. \A q \in Rank : pc'[q] \notin {"fopen r", "fopen wb", "barrier r", "barrier wb"}
    BY <1>6 DEF ReadOpen, WriteOpen
  <2> QED BY <1>1, <2>1, <2>2 DEF TurnsAgree
<1>10. FilesAgree'
  BY <1>1 DEF FilesAgree, HasModel
<1>11. FilesMatchStages'
  <2>1. \A q \in Rank : pc'[q] \notin {"barrier wb", "checkpoint", "close checkpoint"}
    BY <1>6 DEF WriteOpen, Writing
  <2>2. \A q \in Rank : pc'[q] \in Going => q # r /\ rst[q].state = "missing"
    BY <1>2, <1>4, StagesApart DEF FilesMatchStages
  <2>3. HasModel(r)
    BY DEF RestartFromFile, HasModel
  <2>4. \A q \in Rank : pc'[q] = "renumber" => q = r \/ pc[q] = "renumber"
    BY <1>2
  <2> QED BY <1>1, <1>3, <1>6, <2>1, <2>2, <2>3, <2>4 DEF FilesMatchStages, HasModel
<1>12. ModelsAgree'
  <2>1. \A q \in Rank : pc'[q] \in Going => q # r /\ step[q] = 0 /\ time[q] = 0
    BY <1>2, <1>4, StagesApart DEF ModelsAgree
  <2>2. \A q \in Rank : pc'[q] \notin Starting => pc'[q] \in Going
    BY <1>5
  <2>3. \A q \in Rank : pc'[q] = "restart" => q # r /\ pc[q] = "restart"
    BY <1>2
  <2> QED BY <1>1, <1>3, <1>6, <2>1, <2>2, <2>3 DEF ModelsAgree
<1> QED BY <1>8, <1>9, <1>10, <1>11, <1>12

LEMMA RestartKeptByRenumber ==
  ASSUME TypeInv, RestartInv, Renumber
  PROVE  RestartInv'
<1> USE DEF RestartInv
<1>1. turn' = turn /\ step' = step /\ time' = time /\ rst' = rst
  BY DEF Renumber, model, disk
<1>2. \A q \in Rank : pc[q] = "renumber" /\ pc'[q] = "loop"
  BY DEF Renumber, All
<1>3. \A q \in Rank : pc[q] \in Starting /\ pc'[q] \in Going
  BY <1>2 DEF Starting, Going
<1>4. \A q \in Rank : pc'[q] \notin Starting \cup ReadOpen \cup Saving \cup WriteOpen \cup Writing
  BY <1>3, StagesApart
<1>5. StagesAgree'
  BY <1>4 DEF StagesAgree
<1>6. TurnsAgree'
  BY <1>1, <1>2, <1>3, StagesApart DEF TurnsAgree
<1>7. FilesAgree'
  BY <1>1 DEF FilesAgree, HasModel
<1>8. FilesMatchStages'
  BY <1>2, <1>4 DEF FilesMatchStages
<1>9. ModelsAgree'
  <2>1. \A q \in Rank : HasModel(q) /\ rst[q].step = step[q] /\ rst[q].time = time[q]
    BY <1>2 DEF FilesMatchStages
  <2>2. \A p, q \in Rank : step[p] = step[q] /\ time[p] = time[q]
    BY <2>1 DEF FilesAgree
  <2> QED BY <1>1, <1>2, <1>4, <2>2 DEF ModelsAgree
<1> QED BY <1>5, <1>6, <1>7, <1>8, <1>9

LEMMA AfterOutput ==
  ASSUME NEW s, NEW t
  PROVE  After("output", s, t) = IF Record(s) THEN "fopen wb" ELSE "loop"
BY DEF After

\* A rank that has done its part in the output of the results.
LEMMA RestartKeptAfterOutput ==
  ASSUME TypeInv, RestartInv, NEW r \in Rank, UNCHANGED <<turn, step, time, settings, rst>>,
         pc[r] \in Saving, pc'[r] = After("output", step[r], time[r]),
         \A q \in Rank : q # r => pc'[q] = pc[q]
  PROVE  RestartInv'
<1> USE DEF RestartInv
<1>1. \A q \in Rank : pc[q] \notin Starting \cup ReadOpen \cup Writing
  BY StagesApart DEF StagesAgree
<1>2. turn = 0
  BY StagesApart DEF TurnsAgree
<1>3. \A q \in Rank : step[q] = step[r] /\ time[q] = time[r]
  BY <1>1 DEF ModelsAgree
<1>4. \A q \in Rank : Record(step[q])' = Record(step[q]) /\ Record(step[q]) = Record(step[r])
  BY <1>3 DEF Record
<1>5. CASE Record(step[r])
  <2>1. pc'[r] = "fopen wb"
    BY <1>5, AfterOutput
  <2>2. pc'[r] \in WriteOpen
    BY <2>1 DEF WriteOpen
  <2>3. \A q \in Rank : pc[q] \notin Going
    BY <1>5 DEF StagesAgree
  <2>4. \A q \in Rank : pc[q] \in Saving \cup WriteOpen
    <3>1. \A q \in Rank : pc[q] \in PC
      BY DEF TypeInv, PCType
    <3> QED BY <1>1, <2>3, <3>1 DEF PC, Starting, ReadOpen, Writing, Going, Saving, WriteOpen
  <2>5. \A q \in Rank : pc'[q] \in Saving \cup WriteOpen
    BY <2>2, <2>4
  <2>6. \A q \in Rank : pc'[q] \notin Starting \cup ReadOpen \cup Writing \cup Going
    BY <2>5, StagesApart
  <2>7. StagesAgree'
    BY <1>4, <1>5, <2>5, <2>6 DEF StagesAgree
  <2>8. TurnsAgree'
    <3>1. \A q \in Rank : 0 <= q
      BY RankFacts
    <3>2. pc'[r] \notin {"barrier r", "barrier wb"}
      BY <2>1
    <3> QED BY <1>2, <3>1, <3>2 DEF TurnsAgree
  <2>9. FilesAgree'
    BY DEF FilesAgree, HasModel
  <2>10. FilesMatchStages'
    <3>1. \A q \in Rank : pc'[q] \notin {"renumber", "checkpoint", "close checkpoint"}
      BY <2>6 DEF Starting, Writing
    <3>2. \A q \in Rank : pc'[q] = "barrier wb" => pc[q] = "barrier wb"
      BY <2>1
    <3> QED BY <2>6, <3>1, <3>2 DEF FilesMatchStages
  <2>11. ModelsAgree'
    BY <1>3, <2>6 DEF ModelsAgree, Starting
  <2> QED BY <2>7, <2>8, <2>9, <2>10, <2>11
<1>6. CASE ~Record(step[r])
  <2>1. pc'[r] = "loop"
    BY <1>6, AfterOutput
  <2>2. pc'[r] \in Going
    BY <2>1 DEF Going
  <2>3. \A q \in Rank : pc[q] \notin WriteOpen
    BY <1>4, <1>6 DEF StagesAgree
  <2>4. \A q \in Rank : pc'[q] \notin Starting \cup ReadOpen \cup Writing \cup WriteOpen
    BY <1>1, <2>2, <2>3, StagesApart
  <2>5. StagesAgree'
    BY <1>4, <1>6, <2>4 DEF StagesAgree
  <2>6. TurnsAgree'
    BY <1>2, <2>1, RankFacts DEF TurnsAgree
  <2>7. FilesAgree'
    BY DEF FilesAgree, HasModel
  <2>8. FilesMatchStages'
    <3>1. \A q \in Rank : pc'[q] \notin {"renumber", "barrier wb", "checkpoint", "close checkpoint"}
      BY <2>4 DEF Starting, Writing, WriteOpen
    <3> QED BY <2>4, <3>1 DEF FilesMatchStages
  <2>9. ModelsAgree'
    BY <1>3, <2>4 DEF ModelsAgree, Starting
  <2> QED BY <2>5, <2>6, <2>7, <2>8, <2>9
<1> QED BY <1>5, <1>6

LEMMA TurnArithmetic ==
  \A t, q, n \in Nat :
    /\ t + 1 # 0
    /\ t <= q /\ t # q => t + 1 <= q
    /\ q <= t => q <= t + 1
    /\ t = n - 1 /\ t <= q /\ q <= n - 1 => t = q
OBVIOUS

LEMMA RestartKeptByBarrierRead ==
  ASSUME TypeInv, RestartInv, Barrier("fopen r", "barrier r", "restart")
  PROVE  RestartInv'
<1> USE DEF RestartInv
<1>1. step' = step /\ time' = time /\ rst' = rst /\ settings' = settings
  BY DEF Barrier, model, disk, job
<1>2. \A q \in Rank : pc[q] = "barrier r" \/ (pc[q] = "fopen r" /\ turn # q)
  BY DEF Barrier, InBarrier
<1>3. turn \in Nat /\ turn <= NumProcs - 1 /\ NumProcs \in Nat
  BY RankFacts DEF TypeInv
<1>4. \A q \in Rank : pc[q] \in ReadOpen
  BY <1>2 DEF ReadOpen
<1>5. FilesAgree'
  BY <1>1 DEF FilesAgree, HasModel
<1>8. \A q \in Rank : Record(step[q])' = Record(step[q])
  BY <1>1 DEF Record
<1>6. CASE turn # NumProcs - 1
  <2>1. turn' = turn + 1 /\ pc' = pc
    <3>1. turn' = turn + 1
      BY <1>6 DEF Barrier, NextTurn
    <3>2. turn' # 0
      BY <1>3, <3>1, TurnArithmetic
    <3> QED BY <3>1, <3>2 DEF Barrier
  <2>2. StagesAgree' /\ FilesMatchStages' /\ ModelsAgree'
    <3>1. StagesAgree'
      BY <1>8, <2>1 DEF StagesAgree
    <3>2. FilesMatchStages'
      BY <1>1, <2>1 DEF FilesMatchStages, HasModel
    <3>3. ModelsAgree'
      BY <1>1, <2>1 DEF ModelsAgree
    <3> QED BY <3>1, <3>2, <3>3
  <2>3. \A q \in Rank : /\ pc'[q] \in {"fopen r", "fopen wb"} => turn' <= q
                        /\ pc'[q] \in {"barrier r", "barrier wb"} => q <= turn'
    <3> SUFFICES ASSUME NEW q \in Rank
                 PROVE  /\ pc[q] \in {"fopen r", "fopen wb"} => turn + 1 <= q
                        /\ pc[q] \in {"barrier r", "barrier wb"} => q <= turn + 1
      BY <2>1
    <3>1. q \in Nat
      BY RankFacts
    <3>2. /\ pc[q] \in {"fopen r", "fopen wb"} => turn <= q /\ turn # q
          /\ pc[q] \in {"barrier r", "barrier wb"} => q <= turn
      BY <1>2 DEF TurnsAgree
    <3> QED BY <1>3, <3>1, <3>2, TurnArithmetic
  <2>4. TurnsAgree'
    BY <1>4, <2>1, <2>3 DEF TurnsAgree
  <2> QED BY <1>5, <2>2, <2>4
<1>7. CASE turn = NumProcs - 1
  <2>1. turn' = 0 /\ \A q \in Rank : pc'[q] = "restart"
    BY <1>7 DEF Barrier, NextTurn
  <2>2. \A q \in Rank : pc'[q] \in Starting
    BY <2>1 DEF Starting
  <2>3. \A q \in Rank : pc'[q] \notin ReadOpen \cup Saving \cup Going \cup WriteOpen \cup Writing
    BY <2>2, StagesApart
  <2>4. StagesAgree'
    BY <2>2, <2>3 DEF StagesAgree
  <2>5. TurnsAgree'
    BY <2>1 DEF TurnsAgree
  <2>6. FilesMatchStages'
    BY <2>1, <2>3 DEF FilesMatchStages
  <2>7. ModelsAgree'
    BY <1>1, <1>4, <2>2, <2>3 DEF ModelsAgree
  <2> QED BY <1>5, <2>4, <2>5, <2>6, <2>7
<1> QED BY <1>6, <1>7

LEMMA RestartKeptByBarrierWrite ==
  ASSUME TypeInv, RestartInv, Barrier("fopen wb", "barrier wb", "checkpoint")
  PROVE  RestartInv'
<1> USE DEF RestartInv
<1>1. step' = step /\ time' = time /\ rst' = rst /\ settings' = settings
  BY DEF Barrier, model, disk, job
<1>2. \A q \in Rank : pc[q] = "barrier wb" \/ (pc[q] = "fopen wb" /\ turn # q)
  BY DEF Barrier, InBarrier
<1>3. turn \in Nat /\ turn <= NumProcs - 1 /\ NumProcs \in Nat
  BY RankFacts DEF TypeInv
<1>4. \A q \in Rank : pc[q] \in WriteOpen
  BY <1>2 DEF WriteOpen
<1>5. FilesAgree'
  BY <1>1 DEF FilesAgree, HasModel
<1>6. \A q \in Rank : Record(step[q])' = Record(step[q])
  BY <1>1 DEF Record
<1>7. CASE turn # NumProcs - 1
  <2>1. turn' = turn + 1 /\ pc' = pc
    <3>1. turn' = turn + 1
      BY <1>7 DEF Barrier, NextTurn
    <3>2. turn' # 0
      BY <1>3, <3>1, TurnArithmetic
    <3> QED BY <3>1, <3>2 DEF Barrier
  <2>2. StagesAgree' /\ FilesMatchStages' /\ ModelsAgree'
    <3>1. StagesAgree'
      BY <1>6, <2>1 DEF StagesAgree
    <3>2. FilesMatchStages'
      BY <1>1, <2>1 DEF FilesMatchStages, HasModel
    <3>3. ModelsAgree'
      BY <1>1, <2>1 DEF ModelsAgree
    <3> QED BY <3>1, <3>2, <3>3
  <2>3. \A q \in Rank : /\ pc'[q] \in {"fopen r", "fopen wb"} => turn' <= q
                        /\ pc'[q] \in {"barrier r", "barrier wb"} => q <= turn'
    <3> SUFFICES ASSUME NEW q \in Rank
                 PROVE  /\ pc[q] \in {"fopen r", "fopen wb"} => turn + 1 <= q
                        /\ pc[q] \in {"barrier r", "barrier wb"} => q <= turn + 1
      BY <2>1
    <3>1. q \in Nat
      BY RankFacts
    <3>2. /\ pc[q] \in {"fopen r", "fopen wb"} => turn <= q /\ turn # q
          /\ pc[q] \in {"barrier r", "barrier wb"} => q <= turn
      BY <1>2 DEF TurnsAgree
    <3> QED BY <1>3, <3>1, <3>2, TurnArithmetic
  <2>4. TurnsAgree'
    BY <1>4, <2>1, <2>3 DEF TurnsAgree
  <2> QED BY <1>5, <2>2, <2>4
<1>8. CASE turn = NumProcs - 1
  <2>1. turn' = 0 /\ \A q \in Rank : pc'[q] = "checkpoint"
    BY <1>8 DEF Barrier, NextTurn
  <2>2. \A q \in Rank : pc[q] = "barrier wb"
    <3> SUFFICES ASSUME NEW q \in Rank, pc[q] = "fopen wb", turn # q PROVE FALSE
      BY <1>2
    <3>1. turn <= q
      BY DEF TurnsAgree
    <3>2. q \in Nat /\ q <= NumProcs - 1
      BY RankFacts
    <3> QED BY <1>3, <1>8, <3>1, <3>2, TurnArithmetic
  <2>3. \A q \in Rank : pc'[q] \in Writing
    BY <2>1 DEF Writing
  <2>4. \A q \in Rank : pc'[q] \notin Starting \cup ReadOpen \cup Saving \cup Going \cup WriteOpen
    BY <2>3, StagesApart
  <2>5. StagesAgree'
    BY <1>4, <1>6, <2>3, <2>4 DEF StagesAgree
  <2>6. TurnsAgree'
    BY <2>1 DEF TurnsAgree
  <2>7. FilesMatchStages'
    BY <1>1, <2>1, <2>2, <2>4 DEF FilesMatchStages
  <2>8. ModelsAgree'
    BY <1>1, <1>4, <2>1, <2>4, StagesApart DEF ModelsAgree
  <2> QED BY <1>5, <2>5, <2>6, <2>7, <2>8
<1> QED BY <1>7, <1>8

LEMMA AfterSolve ==
  ASSUME NEW s, NEW t
  PROVE  /\ After("solve", s, t) \in Saving \cup Going \cup {"fopen wb"}
         /\ After("solve", s, t) = "fopen wb" => Record(s)
         /\ After("solve", s, t) \in Going => After("solve", s, t) = "loop"
BY DEF After, Saving, Going

LEMMA RestartKeptBySolve ==
  ASSUME TypeInv, RestartInv, Solve
  PROVE  RestartInv'
<1> USE DEF RestartInv
<1>1. turn' = turn /\ rst' = rst /\ settings' = settings
  BY DEF Solve, disk, job
<1>2. \A q \in Rank : pc[q] = "solve"
  BY DEF Solve, All
<1>3. \A q \in Rank : pc[q] \in Going
  BY <1>2 DEF Going
<1>4. turn = 0
  BY <1>3, RankFacts, StagesApart DEF TurnsAgree
<1>5. \A p, q \in Rank : step[p] = step[q] /\ time[p] = time[q]
  BY <1>3, StagesApart DEF ModelsAgree
<1>6. \A p, q \in Rank : step'[p] = step'[q] /\ time'[p] = time'[q]
  <2> SUFFICES ASSUME NEW p \in Rank, NEW q \in Rank
               PROVE  step'[p] = step'[q] /\ time'[p] = time'[q]
    OBVIOUS
  <2>1. TimeStep(p) = TimeStep(q)
    BY <1>5 DEF TimeStep
  <2>2. /\ step'[p] = step[p] + 1 /\ step'[q] = step[q] + 1
        /\ time'[p] = time[p] + TimeStep(p) /\ time'[q] = time[q] + TimeStep(q)
    BY DEF Solve
  <2>3. step[p] = step[q] /\ time[p] = time[q]
    BY <1>5
  <2> QED BY <2>1, <2>2, <2>3
<1> DEFINE next(q) == After("solve", step'[q], time'[q])
<1>7. \A q \in Rank : pc'[q] = next(q)
  BY DEF Solve
<1>8. \A p, q \in Rank : pc'[p] = pc'[q]
  BY <1>6, <1>7
<1>9. \A q \in Rank : /\ pc'[q] \in Saving \cup Going \cup {"fopen wb"}
                      /\ pc'[q] = "fopen wb" => Record(step[q])'
                      /\ pc'[q] \in Going => pc'[q] = "loop"
  <2> SUFFICES ASSUME NEW q \in Rank
               PROVE  /\ pc'[q] \in Saving \cup Going \cup {"fopen wb"}
                      /\ pc'[q] = "fopen wb" => Record(step[q])'
                      /\ pc'[q] \in Going => pc'[q] = "loop"
    OBVIOUS
  <2>1. Record(step[q])' = Record(step'[q])
    BY <1>1 DEF Record
  <2>2. pc'[q] = After("solve", step'[q], time'[q])
    BY <1>7
  <2>3. /\ After("solve", step'[q], time'[q]) \in Saving \cup Going \cup {"fopen wb"}
        /\ After("solve", step'[q], time'[q]) = "fopen wb" => Record(step'[q])
        /\ After("solve", step'[q], time'[q]) \in Going
             => After("solve", step'[q], time'[q]) = "loop"
    BY AfterSolve
  <2> HIDE DEF next
  <2> QED BY <2>1, <2>2, <2>3
<1>10. "fopen wb" \in WriteOpen
  BY DEF WriteOpen
<1>11. \A q \in Rank : pc'[q] \notin Starting \cup ReadOpen \cup Writing
  BY <1>9, <1>10, StagesApart
<1>12. StagesAgree'
  <2>1. \A q \in Rank : pc'[q] \in WriteOpen => Record(step[q])'
    BY <1>9, StagesApart
  <2>2. \A p, q \in Rank : ~ (pc'[p] \in Saving /\ pc'[q] \in Going)
    BY <1>8, StagesApart
  <2>3. \A p, q \in Rank : pc'[p] \in WriteOpen => pc'[q] \in WriteOpen
    BY <1>8
  <2> QED BY <1>11, <2>1, <2>2, <2>3 DEF StagesAgree
<1>13. TurnsAgree'
  <2>1. \A q \in Rank : pc'[q] \notin {"barrier r", "barrier wb"}
    BY <1>9 DEF Saving, Going
  <2>2. \A q \in Rank : 0 <= q
    BY RankFacts
  <2> QED BY <1>1, <1>4, <2>1, <2>2 DEF TurnsAgree
<1>14. FilesAgree'
  BY <1>1 DEF FilesAgree, HasModel
<1>15. FilesMatchStages'
  <2>1. \A q \in Rank : pc'[q] \notin {"renumber", "barrier wb", "checkpoint", "close checkpoint"}
    BY <1>9 DEF Saving, Going
  <2> QED BY <1>11, <2>1 DEF FilesMatchStages
<1>16. ModelsAgree'
  BY <1>6, <1>11 DEF ModelsAgree, Starting
<1> QED BY <1>12, <1>13, <1>14, <1>15, <1>16

LEMMA RestartKeptByWriteCheckPoint ==
  ASSUME TypeInv, RestartInv, NEW r \in Rank, WriteCheckPoint(r)
  PROVE  RestartInv'
<1> USE DEF RestartInv
<1>1. turn' = turn /\ step' = step /\ time' = time /\ settings' = settings
  BY DEF WriteCheckPoint, model, job
<1>2. /\ pc[r] = "checkpoint" /\ pc'[r] = "close checkpoint"
      /\ \A q \in Rank : q # r => pc'[q] = pc[q]
  BY GotoFacts DEF WriteCheckPoint
<1>3. /\ rst'[r].state = "partial" /\ rst'[r].step = step[r] /\ rst'[r].time = time[r]
      /\ \A q \in Rank : q # r => rst'[q] = rst[q]
  <2>1. rst' = [rst EXCEPT ![r] = File("partial", step[r], time[r], whole[r])]
    BY DEF WriteCheckPoint
  <2> QED BY <2>1 DEF TypeInv, FileType, File
<1>4. pc[r] \in Writing /\ pc'[r] \in Writing
  BY <1>2 DEF Writing
<1>5. \A q \in Rank : pc[q] \in Writing \cup Going
  BY <1>4 DEF StagesAgree
<1>6. \A q \in Rank : pc'[q] \in Writing \cup Going
  BY <1>2, <1>4, <1>5
<1>7. \A q \in Rank : pc[q] \notin Starting \cup ReadOpen \cup Saving \cup WriteOpen
  BY <1>5, StagesApart
<1>8. \A q \in Rank : pc'[q] \notin Starting \cup ReadOpen \cup Saving \cup WriteOpen
  BY <1>6, StagesApart
<1>9. \A q \in Rank : step[q] = step[r] /\ time[q] = time[r]
  BY <1>7 DEF ModelsAgree
<1>10. StagesAgree'
  <2>1. \A q \in Rank : Record(step[q])' = Record(step[q])
    BY <1>1 DEF Record
  <2>2. \A q \in Rank : pc'[q] \in Writing => Record(step[q])
    BY <1>2, <1>4 DEF StagesAgree
  <2> QED BY <1>6, <1>8, <2>1, <2>2 DEF StagesAgree
<1>11. TurnsAgree'
  <2>1. turn = 0
    BY <1>7 DEF TurnsAgree
  <2>2. \A q \in Rank : pc'[q] \notin {"fopen r", "fopen wb", "barrier r", "barrier wb"}
    BY <1>8 DEF ReadOpen, WriteOpen
  <2> QED BY <1>1, <2>1, <2>2 DEF TurnsAgree
<1>12. \A q \in Rank : q # r =>
         /\ rst[q].state # "missing"
         /\ HasModel(q) => rst[q].step = step[r] /\ rst[q].time = time[r]
  <2> SUFFICES ASSUME NEW q \in Rank, q # r
               PROVE  /\ rst[q].state # "missing"
                      /\ HasModel(q) => rst[q].step = step[r] /\ rst[q].time = time[r]
    OBVIOUS
  <2>1. CASE pc[q] \in Going
    <3>1. rst[q].state = "closed" /\ rst[q].step = step[q] /\ rst[q].time = time[q]
      BY <1>4, <2>1 DEF FilesMatchStages
    <3> QED BY <1>9, <3>1
  <2>2. CASE pc[q] = "checkpoint"
    BY <2>2 DEF FilesMatchStages, HasModel
  <2>3. CASE pc[q] = "close checkpoint"
    <3>1. rst[q].state = "partial" /\ rst[q].step = step[q] /\ rst[q].time = time[q]
      BY <2>3 DEF FilesMatchStages
    <3> QED BY <1>9, <3>1
  <2> QED BY <1>5, <2>1, <2>2, <2>3 DEF Writing
<1>13. FilesAgree'
  BY <1>3, <1>12 DEF FilesAgree, HasModel
<1>14. FilesMatchStages'
  <2>1. \A q \in Rank : pc'[q] \notin {"renumber", "barrier wb"}
    BY <1>8 DEF Starting, WriteOpen
  <2>2. \A q \in Rank : pc'[q] \in Going => q # r /\ pc[q] \in Going
    BY <1>2, <1>4, StagesApart
  <2>3. \A q \in Rank : pc'[q] \in Going =>
          rst'[q].state = "closed" /\ rst'[q].step = step[q] /\ rst'[q].time = time[q]
    BY <1>3, <1>4, <2>2 DEF FilesMatchStages
  <2>4. \A q \in Rank : pc'[q] = "checkpoint" => q # r /\ rst'[q].state = "empty"
    BY <1>2, <1>3 DEF FilesMatchStages
  <2>5. \A q \in Rank : pc'[q] = "close checkpoint" =>
          rst'[q].state = "partial" /\ rst'[q].step = step[q] /\ rst'[q].time = time[q]
    BY <1>2, <1>3 DEF FilesMatchStages
  <2> QED BY <1>1, <1>8, <2>1, <2>3, <2>4, <2>5 DEF FilesMatchStages
<1>15. ModelsAgree'
  BY <1>1, <1>8, <1>9 DEF ModelsAgree, Starting
<1> QED BY <1>10, <1>11, <1>13, <1>14, <1>15

LEMMA RestartKeptByCloseCheckPoint ==
  ASSUME TypeInv, RestartInv, NEW r \in Rank, CloseCheckPoint(r)
  PROVE  RestartInv'
<1> USE DEF RestartInv
<1>1. turn' = turn /\ step' = step /\ time' = time /\ settings' = settings
  BY DEF CloseCheckPoint, model, job
<1>2. /\ pc[r] = "close checkpoint" /\ pc'[r] = "loop"
      /\ \A q \in Rank : q # r => pc'[q] = pc[q]
  <2>1. After("checkpoint", step[r], time[r]) = "loop"
    BY DEF After
  <2>2. Goto(r, "close checkpoint", "loop")
    BY <2>1 DEF CloseCheckPoint
  <2> QED BY <2>2, GotoFacts
<1>3. rst[r].state = "partial" /\ rst[r].step = step[r] /\ rst[r].time = time[r]
  BY <1>2 DEF FilesMatchStages
<1>4. /\ rst'[r].state = "closed" /\ rst'[r].step = rst[r].step /\ rst'[r].time = rst[r].time
      /\ \A q \in Rank : q # r => rst'[q] = rst[q]
  <2>1. rst' = [rst EXCEPT ![r] = File("closed", rst[r].step, rst[r].time, rst[r].whole)]
    BY DEF CloseCheckPoint
  <2> QED BY <2>1 DEF TypeInv, FileType, File
<1>5. pc[r] \in Writing /\ pc'[r] \in Going
  BY <1>2 DEF Writing, Going
<1>6. \A q \in Rank : pc[q] \in Writing \cup Going
  BY <1>5 DEF StagesAgree
<1>7. \A q \in Rank : pc'[q] \in Writing \cup Going
  BY <1>2, <1>5, <1>6
<1>8. \A q \in Rank : pc[q] \notin Starting \cup ReadOpen \cup Saving \cup WriteOpen
  BY <1>6, StagesApart
<1>9. \A q \in Rank : pc'[q] \notin Starting \cup ReadOpen \cup Saving \cup WriteOpen
  BY <1>7, StagesApart
<1>10. \A q \in Rank : step[q] = step[r] /\ time[q] = time[r]
  BY <1>8 DEF ModelsAgree
<1>11. \A q \in Rank : pc'[q] \in Writing => q # r /\ pc[q] \in Writing
  BY <1>2, <1>5, StagesApart
<1>12. StagesAgree'
  <2>1. \A q \in Rank : Record(step[q])' = Record(step[q])
    BY <1>1 DEF Record
  <2>2. \A q \in Rank : pc'[q] \in Writing => Record(step[q])
    BY <1>11 DEF StagesAgree
  <2> QED BY <1>7, <1>9, <2>1, <2>2 DEF StagesAgree
<1>13. TurnsAgree'
  <2>1. turn = 0
    BY <1>8 DEF TurnsAgree
  <2>2. \A q \in Rank : pc'[q] \notin {"fopen r", "fopen wb", "barrier r", "barrier wb"}
    BY <1>9 DEF ReadOpen, WriteOpen
  <2> QED BY <1>1, <2>1, <2>2 DEF TurnsAgree
<1>14. FilesAgree'
  <2>1. \A q \in Rank : /\ HasModel(q)' <=> HasModel(q)
                        /\ rst'[q].state = "missing" <=> rst[q].state = "missing"
                        /\ rst'[q].step = rst[q].step /\ rst'[q].time = rst[q].time
    BY <1>3, <1>4 DEF HasModel
  <2> QED BY <2>1 DEF FilesAgree
<1>15. FilesMatchStages'
  <2>1. \A q \in Rank : pc'[q] \notin {"renumber", "barrier wb"}
    BY <1>9 DEF Starting, WriteOpen
  <2>2. \A q \in Rank : pc'[q] \in Going =>
          rst'[q].state = "closed" /\ rst'[q].step = step[q] /\ rst'[q].time = time[q]
    BY <1>2, <1>3, <1>4, <1>5 DEF FilesMatchStages
  <2>3. \A q \in Rank : pc'[q] = "checkpoint" => q # r /\ rst'[q].state = "empty"
    BY <1>2, <1>4 DEF FilesMatchStages
  <2>4. \A q \in Rank : pc'[q] = "close checkpoint" => q # r /\
          rst'[q].state = "partial" /\ rst'[q].step = step[q] /\ rst'[q].time = time[q]
    BY <1>2, <1>4 DEF FilesMatchStages
  <2> QED BY <1>1, <1>9, <2>1, <2>2, <2>3, <2>4 DEF FilesMatchStages
<1>16. ModelsAgree'
  BY <1>1, <1>9, <1>10 DEF ModelsAgree, Starting
<1> QED BY <1>12, <1>13, <1>14, <1>15, <1>16

\* A kill leaves the files alone, and a launch begins without a model.
LEMMA RestartKeptByRelaunch ==
  ASSUME RestartInv, Relaunch
  PROVE  RestartInv'
<1> USE DEF RestartInv
<1>1. rst' = rst /\ turn' = 0
  BY DEF Relaunch, disk
<1>2. \A q \in Rank : step'[q] = 0 /\ time'[q] = 0
  BY DEF Relaunch
<1>3. FirstTask(settings) \in {"fopen r", "loop"}
  BY DEF FirstTask
<1>4. \A q \in Rank : pc'[q] = FirstTask(settings)
  BY DEF Relaunch
<1>5. \A p, q \in Rank : pc'[p] = pc'[q] /\ pc'[q] \in {"fopen r", "loop"}
  BY <1>3, <1>4
<1>6. \A q \in Rank : pc'[q] \notin Starting \cup Saving \cup WriteOpen \cup Writing
  BY <1>5 DEF Starting, Saving, WriteOpen, Writing
<1>7. StagesAgree'
  BY <1>5, <1>6 DEF StagesAgree
<1>8. TurnsAgree'
  <2>1. \A q \in Rank : 0 <= q
    BY RankFacts
  <2> QED BY <1>1, <1>5, <2>1 DEF TurnsAgree
<1>9. FilesAgree'
  BY <1>1 DEF FilesAgree, HasModel
<1>10. FilesMatchStages'
  BY <1>5, <1>6 DEF FilesMatchStages
<1>11. ModelsAgree'
  BY <1>2, <1>6 DEF ModelsAgree
<1> QED BY <1>7, <1>8, <1>9, <1>10, <1>11

LEMMA RestartNext == TypeInv /\ RestartInv /\ [Next]_vars => RestartInv'
<1> SUFFICES ASSUME TypeInv, RestartInv, [Next]_vars PROVE RestartInv'
  OBVIOUS
<1>1. ASSUME NEW r \in Rank, RestartFails(r) PROVE RestartInv'
  <2>1. UNCHANGED <<turn, step, time, settings, rst>>
    BY <1>1 DEF RestartFails, model, disk, job
  <2>2. pc[r] = "restart" /\ pc'[r] = "failed" /\ \A q \in Rank : q # r => pc'[q] = pc[q]
    BY <1>1, GotoFacts DEF RestartFails
  <2>3. pc[r] \in Starting
    BY <2>2 DEF Starting
  <2> QED BY <2>1, <2>2, <2>3, RestartKeptInStage
<1>2. ASSUME NEW r \in Rank, Loop(r) PROVE RestartInv'
  <2>1. UNCHANGED <<turn, step, time, settings, rst>>
    BY <1>2 DEF Loop, model, disk, job
  <2>2. /\ pc[r] = "loop" /\ pc'[r] = IF time[r] < FinalTime THEN "solve" ELSE "done"
        /\ \A q \in Rank : q # r => pc'[q] = pc[q]
    BY <1>2, GotoFacts DEF Loop
  <2>3. pc[r] \in Going /\ pc'[r] \in Going
    BY <2>2 DEF Going
  <2> QED BY <2>1, <2>2, <2>3, RestartKeptInStage
<1>3. ASSUME NEW r \in Rank, SendResults(r) PROVE RestartInv'
  <2>1. UNCHANGED <<turn, step, time, settings, rst>>
    BY <1>3 DEF SendResults, model, disk, job
  <2>2. /\ pc[r] = "output" /\ pc'[r] = After("output", step[r], time[r])
        /\ \A q \in Rank : q # r => pc'[q] = pc[q]
    BY <1>3, GotoFacts DEF SendResults
  <2>3. pc[r] \in Saving
    BY <2>2 DEF Saving
  <2> QED BY <2>1, <2>2, <2>3, RestartKeptAfterOutput
<1>4. ASSUME WriteResults PROVE RestartInv'
  <2>1. UNCHANGED <<turn, step, time, settings, rst>>
    BY <1>4 DEF WriteResults, model, job
  <2>2. 0 \in Rank /\ pc[0] = "output" /\ pc'[0] = "close results" /\ \A q \in Rank : q # 0 => pc'[q] = pc[q]
    BY <1>4, GotoFacts, RankFacts DEF WriteResults
  <2>3. pc[0] \in Saving /\ pc'[0] \in Saving
    BY <2>2 DEF Saving
  <2> QED BY <2>1, <2>2, <2>3, RestartKeptInStage
<1>5. ASSUME CloseResults PROVE RestartInv'
  <2>1. UNCHANGED <<turn, step, time, settings, rst>>
    BY <1>5 DEF CloseResults, model, job
  <2>2. /\ 0 \in Rank /\ pc[0] = "close results" /\ pc'[0] = After("output", step[0], time[0])
        /\ \A q \in Rank : q # 0 => pc'[q] = pc[q]
    BY <1>5, GotoFacts, RankFacts DEF CloseResults
  <2>3. pc[0] \in Saving
    BY <2>2 DEF Saving
  <2> QED BY <2>1, <2>2, <2>3, RestartKeptAfterOutput
<1>6. ASSUME UNCHANGED vars PROVE RestartInv'
  <2>1. UNCHANGED <<pc, turn, step, time, settings, rst>>
    BY <1>6 DEF vars
  <2>2. \A q \in Rank : Record(step[q])' = Record(step[q])
    BY <2>1 DEF Record
  <2>3. StagesAgree'
    BY <2>1, <2>2 DEF StagesAgree, RestartInv
  <2>4. TurnsAgree'
    BY <2>1 DEF TurnsAgree, RestartInv
  <2>5. FilesAgree'
    BY <2>1 DEF FilesAgree, HasModel, RestartInv
  <2>6. FilesMatchStages'
    BY <2>1 DEF FilesMatchStages, HasModel, RestartInv
  <2>7. ModelsAgree'
    BY <2>1 DEF ModelsAgree, RestartInv
  <2> QED BY <2>3, <2>4, <2>5, <2>6, <2>7 DEF RestartInv
<1> QED BY <1>1, <1>2, <1>3, <1>4, <1>5, <1>6, RestartKeptByFopen, RestartKeptByRestartWithoutFile,
           RestartKeptByRestartFromFile, RestartKeptByRenumber, RestartKeptByBarrierRead,
           RestartKeptByBarrierWrite, RestartKeptBySolve, RestartKeptByWriteCheckPoint,
           RestartKeptByCloseCheckPoint, RestartKeptByRelaunch
        DEF Next, RunStep, RootStep, CollectiveStep, LocalStep

LEMMA RestartInvariant == Spec => [](TypeInv /\ RestartInv)
BY TypeInit, TypeNext, RestartInit, RestartNext, PTL DEF Spec

\* The ranks that solve a step together are at the same step and time, however many
\* they are and wherever the job was killed: pfopen lets no rank write its file
\* before the last one has truncated its own.
THEOREM NoMixedRestart == Spec => []RanksAgree
<1>1. RestartInv => RanksAgree
  BY DEF RestartInv, ModelsAgree, RanksAgree, All, Starting
<1> QED BY <1>1, RestartInvariant, PTL

\* Ranks that wait in a collective wait in the same one: either all of them have found
\* a restart file, or none.
THEOREM RanksMeetInSameCollective == Spec => []SameCollective
<1>1. ASSUME RestartInv PROVE SameCollective
  <2> SUFFICES ASSUME NEW p \in Rank, NEW q \in Rank, Waiting(p), Waiting(q), pc[p] # pc[q]
               PROVE  FALSE
    BY DEF SameCollective
  <2>0. /\ \A a, b \in Rank : pc[a] \in ReadOpen => pc[b] \in ReadOpen
        /\ \A a, b \in Rank : pc[a] \in WriteOpen => pc[b] \in WriteOpen \cup Saving
    BY <1>1 DEF RestartInv, StagesAgree
  <2>1. ASSUME NEW a \in Rank, NEW b \in Rank, pc[a] = "barrier r", Waiting(b)
        PROVE  pc[b] = "barrier r"
    <3>1. pc[a] \in ReadOpen
      BY <2>1 DEF ReadOpen
    <3>2. pc[b] \in ReadOpen
      BY <2>0, <3>1
    <3> QED BY <2>1, <3>2 DEF ReadOpen, Waiting
  <2>2. ASSUME NEW a \in Rank, NEW b \in Rank, pc[a] = "barrier wb", Waiting(b)
        PROVE  pc[b] = "barrier wb"
    <3>1. pc[a] \in WriteOpen
      BY <2>2 DEF WriteOpen
    <3>2. pc[b] \in WriteOpen \cup Saving
      BY <2>0, <3>1
    <3> QED BY <2>2, <3>2 DEF WriteOpen, Saving, Waiting
  <2>3. ASSUME NEW a \in Rank, NEW b \in Rank, pc[a] = "renumber", pc[b] = "solve" PROVE FALSE
    <3>1. pc[a] \in Starting /\ pc[b] \in Going
      BY <2>3 DEF Starting, Going
    <3>2. rst[b].state = "missing"
      BY <1>1, <3>1 DEF RestartInv, FilesMatchStages
    <3>3. HasModel(a)
      BY <1>1, <2>3 DEF RestartInv, FilesMatchStages
    <3> QED BY <1>1, <3>2, <3>3 DEF RestartInv, FilesAgree
  <2> QED BY <2>1, <2>2, <2>3 DEF Waiting
<1> QED BY <1>1, RestartInvariant, PTL

-----------------------------------------------------------------------------
(***************************************************************************)
(* What a restart loses.  The last recorded step is the one of the files   *)
(* when all of them are closed, and a file that is not closed while the    *)
(* job has not been killed in the middle of a checkpoint is the file of a  *)
(* rank that is busy writing it.  Till then every model, in memory and in  *)
(* a file, is that of a run that is never killed.                          *)
(***************************************************************************)
RecordedIsClosed ==
  /\ settings.recording = 0 => recorded = 0
  /\ \A r \in Rank : rst[r].state = "missing" => recorded = 0
  /\ (\A r \in Rank : rst[r].state = "closed") => \A r \in Rank : rst[r].step = recorded

WholeAt(r) ==
  /\ rst[r].state = "empty" => pc[r] \in {"barrier wb", "checkpoint"}
  /\ rst[r].state = "partial" => pc[r] = "close checkpoint"
  /\ whole[r]
  /\ HasModel(r) => rst[r].whole
  /\ pc[r] \notin ReadOpen \cup Starting => step[r] >= recorded

FilesAreWhole == ~interrupted => \A r \in Rank : WholeAt(r)

ResumeInv == RecordedIsClosed /\ FilesAreWhole

LEMMA ResumeInit == Init => ResumeInv
<1> SUFFICES ASSUME Init PROVE ResumeInv
  OBVIOUS
<1>1. recorded = 0
  BY DEF Init
<1>2. \A r \in Rank : step[r] = 0 /\ whole[r] /\ rst[r].state = "missing" /\ ~HasModel(r)
  BY DEF Init, Missing, File, HasModel
<1>3. RecordedIsClosed
  BY <1>1, <1>2, RankFacts DEF RecordedIsClosed
<1>4. \A r \in Rank : step[r] >= recorded
  BY <1>1, <1>2
<1>5. FilesAreWhole
  BY <1>2, <1>4 DEF FilesAreWhole, WholeAt
<1> QED BY <1>3, <1>5 DEF ResumeInv

\* A step that changes no file and no model, and lets a rank go on.
LEMMA ResumeKeptByGoing ==
  ASSUME ResumeInv, UNCHANGED <<step, whole, rst, settings, interrupted, recorded>>,
         \A q \in Rank : pc'[q] # pc[q] =>
           /\ pc[q] \notin {"barrier wb", "checkpoint", "close checkpoint"} \/ pc'[q] = "checkpoint"
           /\ pc[q] # "close checkpoint"
           /\ ~interrupted /\ pc'[q] \notin ReadOpen \cup Starting => step[q] >= recorded
  PROVE  ResumeInv'
<1>1. RecordedIsClosed'
  <2>1. rst' = rst /\ settings' = settings /\ recorded' = recorded
    OBVIOUS
  <2> QED BY <2>1 DEF ResumeInv, RecordedIsClosed
<1>2. FilesAreWhole'
  <2> SUFFICES ASSUME ~interrupted, NEW q \in Rank PROVE WholeAt(q)'
    BY DEF FilesAreWhole
  <2>1. WholeAt(q)
    BY DEF ResumeInv, FilesAreWhole
  <2>2. CASE pc'[q] = pc[q]
    BY <2>1, <2>2 DEF WholeAt, HasModel
  <2>3. CASE pc'[q] # pc[q]
    BY <2>1, <2>3 DEF WholeAt, HasModel
  <2> QED BY <2>2, <2>3
<1> QED BY <1>1, <1>2 DEF ResumeInv

LEMMA ResumeKeptByFopen ==
  ASSUME TypeInv, ResumeInv, NEW r \in Rank, Fopen(r)
  PROVE  ResumeInv'
<1>1. UNCHANGED <<step, whole, settings, interrupted, recorded>>
  BY DEF Fopen, model, job
<1>2. CASE Goto(r, "fopen r", "barrier r") /\ rst' = rst
  <2>1. pc[r] = "fopen r" /\ pc'[r] = "barrier r" /\ \A q \in Rank : q # r => pc'[q] = pc[q]
    BY <1>2, GotoFacts
  <2> QED BY <1>1, <1>2, <2>1, ResumeKeptByGoing DEF ReadOpen
<1>3. CASE Goto(r, "fopen wb", "barrier wb") /\ rst' = [rst EXCEPT ![r] = File("empty", 0, 0, FALSE)]
  <2>1. pc[r] = "fopen wb" /\ pc'[r] = "barrier wb" /\ \A q \in Rank : q # r => pc'[q] = pc[q]
    BY <1>3, GotoFacts
  <2>2. rst'[r].state = "empty" /\ \A q \in Rank : q # r => rst'[q] = rst[q]
    BY <1>3 DEF TypeInv, FileType, File
  <2>3. RecordedIsClosed'
    <3>1. \A q \in Rank : rst'[q].state = "missing" => rst[q].state = "missing"
      BY <2>2
    <3>2. ~ \A q \in Rank : rst'[q].state = "closed"
      BY <2>2
    <3>3. settings' = settings /\ recorded' = recorded
      BY <1>1
    <3> QED BY <3>1, <3>2, <3>3 DEF ResumeInv, RecordedIsClosed
  <2>4. FilesAreWhole'
    <3> SUFFICES ASSUME ~interrupted, NEW q \in Rank PROVE WholeAt(q)'
      BY <1>1 DEF FilesAreWhole
    <3>1. WholeAt(q)
      BY DEF ResumeInv, FilesAreWhole
    <3>2. CASE q # r
      BY <1>1, <2>1, <2>2, <3>1, <3>2 DEF WholeAt, HasModel
    <3>3. CASE q = r
      BY <1>1, <2>1, <2>2, <3>1, <3>3 DEF WholeAt, HasModel, ReadOpen, Starting
    <3> QED BY <3>2, <3>3
  <2> QED BY <2>3, <2>4 DEF ResumeInv
<1> QED BY <1>2, <1>3 DEF Fopen, OpenedFile

LEMMA ResumeKeptByRestartFromFile ==
  ASSUME TypeInv, ResumeInv, NEW r \in Rank, RestartFromFile(r)
  PROVE  ResumeInv'
<1>1. UNCHANGED <<rst, settings, interrupted, recorded>>
  BY DEF RestartFromFile, disk, job
<1>2. pc[r] = "restart" /\ pc'[r] = "renumber" /\ \A q \in Rank : q # r => pc'[q] = pc[q]
  BY GotoFacts DEF RestartFromFile
<1>3. /\ whole'[r] = (rst[r].state = "closed" /\ rst[r].whole)
      /\ \A q \in Rank : q # r => step'[q] = step[q] /\ whole'[q] = whole[q]
  BY DEF RestartFromFile, TypeInv, ModelTypes
<1>4. RecordedIsClosed'
  BY <1>1 DEF ResumeInv, RecordedIsClosed
<1>5. FilesAreWhole'
  <2> SUFFICES ASSUME ~interrupted, NEW q \in Rank PROVE WholeAt(q)'
    BY <1>1 DEF FilesAreWhole
  <2>1. WholeAt(q)
    BY DEF ResumeInv, FilesAreWhole
  <2>2. CASE q # r
    BY <1>1, <1>2, <1>3, <2>1, <2>2 DEF WholeAt, HasModel
  <2>3. CASE q = r
    <3>1. rst[r].state \in {"partial", "closed"}
      BY DEF RestartFromFile
    <3>2. rst[r].state = "closed"
      BY <1>2, <2>1, <2>3, <3>1 DEF WholeAt
    <3>3. rst[r].whole
      BY <2>1, <2>3, <3>1 DEF WholeAt, HasModel
    <3> QED BY <1>1, <1>2, <1>3, <2>3, <3>2, <3>3 DEF WholeAt, Starting
  <2> QED BY <2>2, <2>3
<1> QED BY <1>4, <1>5 DEF ResumeInv

\* The ranks that have found their files begin where the files were closed.
LEMMA ResumeKeptByRenumber ==
  ASSUME TypeInv, RestartInv, ResumeInv, Renumber
  PROVE  ResumeInv'
<1>1. UNCHANGED <<step, whole, rst, settings, interrupted, recorded>>
  BY DEF Renumber, model, disk, job
<1>2. \A q \in Rank : pc[q] = "renumber"
  BY DEF Renumber, All
<1>3. \A q \in Rank : HasModel(q) /\ rst[q].step = step[q]
  BY <1>2 DEF RestartInv, FilesMatchStages
<1>4. ASSUME ~interrupted PROVE \A q \in Rank : step[q] >= recorded
  <2>1. \A q \in Rank : WholeAt(q)
    BY <1>4 DEF ResumeInv, FilesAreWhole
  <2>2. \A q \in Rank : rst[q].state = "closed"
    BY <1>2, <1>3, <2>1 DEF WholeAt, HasModel
  <2>3. \A q \in Rank : step[q] = recorded
    BY <1>3, <2>2 DEF ResumeInv, RecordedIsClosed
  <2> QED BY <2>3 DEF TypeInv
<1> QED BY <1>1, <1>2, <1>4, ResumeKeptByGoing

\* All the ranks have whole models of one step.
LEMMA ResumeKeptBySolve ==
  ASSUME TypeInv, RestartInv, ResumeInv, Solve
  PROVE  ResumeInv'
<1>1. UNCHANGED <<rst, settings, interrupted, recorded>>
  BY DEF Solve, disk, job
<1>2. \A q \in Rank : /\ pc[q] = "solve" /\ step'[q] = step[q] + 1 /\ whole'[q] = OneModel
                      /\ pc'[q] \in {"output", "fopen wb", "loop"}
  BY AfterType DEF Solve, All
<1>3. RecordedIsClosed'
  BY <1>1 DEF ResumeInv, RecordedIsClosed
<1>4. FilesAreWhole'
  <2> SUFFICES ASSUME ~interrupted, NEW q \in Rank PROVE WholeAt(q)'
    BY <1>1 DEF FilesAreWhole
  <2>1. WholeAt(q)
    BY DEF ResumeInv, FilesAreWhole
  <2>2. step[q] >= recorded /\ step[q] \in Nat /\ recorded \in Nat
    BY <1>2, <2>1 DEF WholeAt, ReadOpen, Starting, TypeInv, ModelTypes
  <2>3. step'[q] >= recorded'
    <3>1. step'[q] = step[q] + 1 /\ recorded' = recorded
      BY <1>1, <1>2
    <3> QED BY <2>2, <3>1
  <2>4. OneModel
    <3>1. \A p \in Rank : whole[p]
      BY DEF ResumeInv, FilesAreWhole, WholeAt
    <3>2. \A p \in Rank : pc[p] \notin Starting
      BY <1>2 DEF Starting
    <3> QED BY <3>1, <3>2 DEF OneModel, RestartInv, ModelsAgree
  <2> QED BY <1>1, <1>2, <2>1, <2>3, <2>4 DEF WholeAt, HasModel
<1> QED BY <1>3, <1>4 DEF ResumeInv

LEMMA ResumeKeptByWriteCheckPoint ==
  ASSUME TypeInv, ResumeInv, NEW r \in Rank, WriteCheckPoint(r)
  PROVE  ResumeInv'
<1>1. UNCHANGED <<step, whole, settings, interrupted, recorded>>
  BY DEF WriteCheckPoint, model, job
<1>2. pc[r] = "checkpoint" /\ pc'[r] = "close checkpoint" /\ \A q \in Rank : q # r => pc'[q] = pc[q]
  BY GotoFacts DEF WriteCheckPoint
<1>3. /\ rst'[r].state = "partial" /\ rst'[r].whole = whole[r]
      /\ \A q \in Rank : q # r => rst'[q] = rst[q]
  BY DEF WriteCheckPoint, TypeInv, FileType, File
<1>4. RecordedIsClosed'
  <2>1. \A q \in Rank : rst'[q].state = "missing" => rst[q].state = "missing"
    BY <1>3
  <2>2. ~ \A q \in Rank : rst'[q].state = "closed"
    BY <1>3
  <2>3. settings' = settings /\ recorded' = recorded
    BY <1>1
  <2> QED BY <2>1, <2>2, <2>3 DEF ResumeInv, RecordedIsClosed
<1>5. FilesAreWhole'
  <2> SUFFICES ASSUME ~interrupted, NEW q \in Rank PROVE WholeAt(q)'
    BY <1>1 DEF FilesAreWhole
  <2>1. WholeAt(q)
    BY DEF ResumeInv, FilesAreWhole
  <2>2. CASE q # r
    BY <1>1, <1>2, <1>3, <2>1, <2>2 DEF WholeAt, HasModel
  <2>3. CASE q = r
    BY <1>1, <1>2, <1>3, <2>1, <2>3 DEF WholeAt, ReadOpen, Starting
  <2> QED BY <2>2, <2>3
<1> QED BY <1>4, <1>5 DEF ResumeInv

\* The last rank to close its file records the step, which all the ranks have reached.
LEMMA ResumeKeptByCloseCheckPoint ==
  ASSUME TypeInv, RestartInv, ResumeInv, NEW r \in Rank, CloseCheckPoint(r)
  PROVE  ResumeInv'
<1>1. UNCHANGED <<step, whole, settings, interrupted>>
  BY DEF CloseCheckPoint, model, job
<1>2. pc[r] = "close checkpoint" /\ pc'[r] = "loop" /\ \A q \in Rank : q # r => pc'[q] = pc[q]
  <2>1. After("checkpoint", step[r], time[r]) = "loop"
    BY DEF After
  <2>2. Goto(r, "close checkpoint", "loop")
    BY <2>1 DEF CloseCheckPoint
  <2> QED BY <2>2, GotoFacts
<1>3. rst[r].state = "partial" /\ rst[r].step = step[r]
  BY <1>2 DEF RestartInv, FilesMatchStages
<1>4. /\ rst'[r].state = "closed" /\ rst'[r].step = step[r] /\ rst'[r].whole = rst[r].whole
      /\ \A q \in Rank : q # r => rst'[q] = rst[q]
  <2>1. rst' = [rst EXCEPT ![r] = File("closed", rst[r].step, rst[r].time, rst[r].whole)]
    BY DEF CloseCheckPoint
  <2>2. /\ rst'[r].state = "closed" /\ rst'[r].step = rst[r].step /\ rst'[r].whole = rst[r].whole
        /\ \A q \in Rank : q # r => rst'[q] = rst[q]
    BY <2>1 DEF TypeInv, FileType, File
  <2> QED BY <1>3, <2>2
<1>5. pc[r] \in Writing
  BY <1>2 DEF Writing
<1>6. \A q \in Rank : pc[q] \in Writing \cup Going
  BY <1>5 DEF RestartInv, StagesAgree
<1>7. \A q \in Rank : step[q] = step[r] /\ step[q] \in Nat
  <2>1. \A q \in Rank : pc[q] \notin Starting
    BY <1>6, StagesApart
  <2> QED BY <2>1 DEF RestartInv, ModelsAgree, TypeInv, ModelTypes
<1>8. \A q \in Rank : HasModel(q) => rst[q].step = step[r]
  BY <1>3 DEF RestartInv, FilesAgree, HasModel
<1>9. (\A q \in Rank : rst'[q].state = "closed") => \A q \in Rank : rst'[q].step = step[r]
  BY <1>4, <1>8 DEF HasModel
<1>10. recorded' = IF \A q \in Rank : rst'[q].state = "closed" THEN step[r] ELSE recorded
  BY <1>9 DEF CloseCheckPoint, AllRecorded
<1>11. settings.recording # 0
  <2>1. Record(step[r])
    BY <1>5 DEF RestartInv, StagesAgree
  <2> QED BY <2>1 DEF Record
<1>12. RecordedIsClosed'
  <2>1. \A q \in Rank : rst'[q].state = "missing" => recorded' = 0
    <3> SUFFICES ASSUME NEW q \in Rank, rst'[q].state = "missing" PROVE recorded' = 0
      OBVIOUS
    <3>1. recorded' = recorded
      BY <1>10
    <3>2. rst[q].state = "missing"
      BY <1>4
    <3> QED BY <3>1, <3>2 DEF ResumeInv, RecordedIsClosed
  <2>2. (\A q \in Rank : rst'[q].state = "closed") => \A q \in Rank : rst'[q].step = recorded'
    BY <1>9, <1>10
  <2> QED BY <1>1, <1>11, <2>1, <2>2 DEF RecordedIsClosed
<1>13. FilesAreWhole'
  <2> SUFFICES ASSUME ~interrupted, NEW q \in Rank PROVE WholeAt(q)'
    BY <1>1 DEF FilesAreWhole
  <2>1. WholeAt(q)
    BY DEF ResumeInv, FilesAreWhole
  <2>2. step[q] >= recorded'
    <3>1. pc[q] \notin ReadOpen \cup Starting
      BY <1>6, StagesApart
    <3>2. step[q] >= recorded
      BY <2>1, <3>1 DEF WholeAt
    <3>3. CASE recorded' = step[r]
      BY <1>7, <3>3
    <3>4. CASE recorded' = recorded
      BY <3>2, <3>4
    <3> QED BY <1>10, <3>3, <3>4
  <2>3. CASE q # r
    BY <1>1, <1>2, <1>4, <2>1, <2>2, <2>3 DEF WholeAt, HasModel
  <2>4. CASE q = r
    BY <1>1, <1>2, <1>3, <1>4, <2>1, <2>2, <2>4 DEF WholeAt, HasModel
  <2> QED BY <2>3, <2>4
<1> QED BY <1>12, <1>13 DEF ResumeInv

\* A launch that finds no half-written file finds what was recorded, or nothing if
\* nothing was.
LEMMA ResumeKeptByRelaunch ==
  ASSUME TypeInv, ResumeInv, Relaunch
  PROVE  ResumeInv'
<1>1. UNCHANGED <<rst, settings, recorded>>
  BY DEF Relaunch, disk
<1>2. \A q \in Rank : pc'[q] = FirstTask(settings) /\ step'[q] = 0 /\ whole'[q] = TRUE
  BY DEF Relaunch
<1>3. RecordedIsClosed'
  BY <1>1 DEF ResumeInv, RecordedIsClosed
<1>4. FilesAreWhole'
  <2> SUFFICES ASSUME ~interrupted', NEW q \in Rank PROVE WholeAt(q)'
    BY DEF FilesAreWhole
  <2>1. rst[q].state \notin {"empty", "partial"}
    BY DEF Relaunch
  <2>2. pc'[q] \notin ReadOpen \cup Starting => step'[q] >= recorded'
    <3>1. CASE settings.recording = 0
      <4>1. recorded' = 0
        BY <1>1, <3>1 DEF ResumeInv, RecordedIsClosed
      <4> QED BY <1>2, <4>1
    <3>2. CASE settings.recording # 0
      BY <1>2, <3>2 DEF FirstTask, ReadOpen
    <3> QED BY <3>1, <3>2
  <2>3. HasModel(q) => rst[q].whole
    BY DEF Relaunch, ResumeInv, FilesAreWhole, WholeAt
  <2> QED BY <1>1, <1>2, <2>1, <2>2, <2>3 DEF WholeAt, HasModel
<1> QED BY <1>3, <1>4 DEF ResumeInv

LEMMA ResumeNext == TypeInv /\ RestartInv /\ ResumeInv /\ [Next]_vars => ResumeInv'
<1> SUFFICES ASSUME TypeInv, RestartInv, ResumeInv, [Next]_vars PROVE ResumeInv'
  OBVIOUS
<1>0. \A q \in Rank : ~interrupted /\ pc[q] \notin ReadOpen \cup Starting => step[q] >= recorded
  BY DEF ResumeInv, FilesAreWhole, WholeAt
<1>1. ASSUME NEW r \in Rank, RestartWithoutFile(r) PROVE ResumeInv'
  <2>1. UNCHANGED <<step, whole, rst, settings, interrupted, recorded>>
    BY <1>1 DEF RestartWithoutFile, model, disk, job
  <2>2. pc[r] = "restart" /\ pc'[r] = "loop" /\ \A q \in Rank : q # r => pc'[q] = pc[q]
    BY <1>1, GotoFacts DEF RestartWithoutFile
  <2>3. recorded = 0 /\ step[r] \in Nat
    BY <1>1 DEF RestartWithoutFile, HasFile, ResumeInv, RecordedIsClosed, TypeInv, ModelTypes
  <2>4. step[r] >= recorded
    BY <2>3
  <2> QED BY <2>1, <2>2, <2>4, ResumeKeptByGoing
<1>2. ASSUME NEW r \in Rank, NEW from \in {"loop", "output", "close results"}, NEW to,
             Goto(r, from, to), UNCHANGED <<step, whole, rst, settings, interrupted, recorded>>
      PROVE  ResumeInv'
  <2>1. pc[r] = from /\ pc'[r] = to /\ \A q \in Rank : q # r => pc'[q] = pc[q]
    BY <1>2, GotoFacts
  <2>2. pc[r] \notin ReadOpen \cup Starting
    BY <2>1 DEF ReadOpen, Starting
  <2> QED BY <1>0, <1>2, <2>1, <2>2, ResumeKeptByGoing
<1>3. ASSUME NEW r \in Rank, RestartFails(r) PROVE ResumeInv'
  <2>1. UNCHANGED <<step, whole, rst, settings, interrupted, recorded>>
    BY <1>3 DEF RestartFails, model, disk, job
  <2>2. pc[r] = "restart" /\ pc'[r] = "failed" /\ \A q \in Rank : q # r => pc'[q] = pc[q]
    BY <1>3, GotoFacts DEF RestartFails
  <2>3. pc'[r] \in Starting
    BY <2>2 DEF Starting
  <2> QED BY <2>1, <2>2, <2>3, ResumeKeptByGoing
<1>4. ASSUME NEW r \in Rank, Loop(r) PROVE ResumeInv'
  <2>1. UNCHANGED <<step, whole, rst, settings, interrupted, recorded>>
    BY <1>4 DEF Loop, model, disk, job
  <2> QED BY <1>2, <1>4, <2>1 DEF Loop
<1>6. ASSUME NEW r \in Rank, SendResults(r) PROVE ResumeInv'
  <2>1. UNCHANGED <<step, whole, rst, settings, interrupted, recorded>>
    BY <1>6 DEF SendResults, model, disk, job
  <2> QED BY <1>2, <1>6, <2>1 DEF SendResults
<1>7. ASSUME WriteResults PROVE ResumeInv'
  <2>1. UNCHANGED <<step, whole, rst, settings, interrupted, recorded>>
    BY <1>7 DEF WriteResults, model, job
  <2> QED BY <1>2, <1>7, <2>1, RankFacts DEF WriteResults
<1>8. ASSUME CloseResults PROVE ResumeInv'
  <2>1. UNCHANGED <<step, whole, rst, settings, interrupted, recorded>>
    BY <1>8 DEF CloseResults, model, job
  <2> QED BY <1>2, <1>8, <2>1, RankFacts DEF CloseResults
<1>9. ASSUME Barrier("fopen r", "barrier r", "restart") PROVE ResumeInv'
  <2>1. UNCHANGED <<step, whole, rst, settings, interrupted, recorded>>
    BY <1>9 DEF Barrier, model, disk, job
  <2>2. \A q \in Rank : pc[q] \in {"fopen r", "barrier r"}
    BY <1>9 DEF Barrier, InBarrier
  <2>3. \A q \in Rank : pc'[q] = pc[q] \/ pc'[q] = "restart"
    BY <1>9 DEF Barrier
  <2>4. "restart" \in Starting
    BY DEF Starting
  <2> QED BY <2>1, <2>2, <2>3, <2>4, ResumeKeptByGoing
<1>10. ASSUME Barrier("fopen wb", "barrier wb", "checkpoint") PROVE ResumeInv'
  <2>1. UNCHANGED <<step, whole, rst, settings, interrupted, recorded>>
    BY <1>10 DEF Barrier, model, disk, job
  <2>2. \A q \in Rank : pc[q] \in {"fopen wb", "barrier wb"}
    BY <1>10 DEF Barrier, InBarrier
  <2>3. \A q \in Rank : pc'[q] = pc[q] \/ pc'[q] = "checkpoint"
    BY <1>10 DEF Barrier
  <2>4. \A q \in Rank : pc[q] \notin ReadOpen \cup Starting
    BY <2>2 DEF ReadOpen, Starting
  <2> QED BY <1>0, <2>1, <2>2, <2>3, <2>4, ResumeKeptByGoing
<1>11. ASSUME UNCHANGED vars PROVE ResumeInv'
  BY <1>11, ResumeKeptByGoing DEF vars
<1> QED BY <1>1, <1>3, <1>4, <1>6, <1>7, <1>8, <1>9, <1>10, <1>11, ResumeKeptByFopen,
           ResumeKeptByRestartFromFile, ResumeKeptByRenumber, ResumeKeptBySolve,
           ResumeKeptByWriteCheckPoint, ResumeKeptByCloseCheckPoint, ResumeKeptByRelaunch
        DEF Next, RunStep, RootStep, CollectiveStep, LocalStep

LEMMA ResumeInvariant == Spec => []ResumeInv
BY ResumeInit, ResumeNext, RestartInvariant, PTL DEF Spec

\* A job that was not killed while it was recording loses no recorded step: every rank
\* solves on from a whole model, at the last step that all the files hold or later.
THEOREM RecordedStepsAreKept == Spec => []ResumesWhereRecorded
<1>1. ResumeInv => ResumesWhereRecorded
  BY DEF ResumeInv, FilesAreWhole, WholeAt, ResumesWhereRecorded, All, ReadOpen, Starting
<1> QED BY <1>1, ResumeInvariant, PTL

-----------------------------------------------------------------------------
(***************************************************************************)
(* The run that is never killed.  Its times are a table that exists, that  *)
(* the rules of the loop determine, and that reaches the final time.       *)
(***************************************************************************)
LEMMA IterationExists ==
  ASSUME NEW n \in Nat, NEW next \in [Nat -> Nat]
  PROVE  \E f \in [0..n -> Nat] : \A k \in 0..n : f[k] = IF k = 0 THEN 0 ELSE next[f[k-1]]
<1> DEFINE Iterates(f, m) == f \in [0..m -> Nat] /\ \A k \in 0..m : f[k] = IF k = 0 THEN 0 ELSE next[f[k-1]]
<1> DEFINE Bad == {m \in Nat : ~ \E f : Iterates(f, m)}
<1> SUFFICES ASSUME Bad # {} PROVE FALSE
  OBVIOUS
<1>1. PICK m \in Bad : \A k \in Bad : m <= k
  <2>1. Bad \in SUBSET Nat
    OBVIOUS
  <2> HIDE DEF Bad
  <2> QED BY <2>1, LeastElement
<1>2. Iterates([k \in 0..0 |-> 0], 0)
  OBVIOUS
<1>3. m # 0
  BY <1>2
<1>4. PICK f : Iterates(f, m-1)
  <2>1. m-1 \in Nat /\ ~ (m <= m-1)
    BY <1>3
  <2>2. m-1 \notin Bad
    <3> HIDE DEF Bad
    <3> QED BY <1>1, <2>1
  <2> QED BY <2>1, <2>2
<1>5. f[m-1] \in Nat /\ next[f[m-1]] \in Nat
  BY <1>3, <1>4
<1> DEFINE g == [k \in 0..m |-> IF k = m THEN next[f[m-1]] ELSE f[k]]
<1>6. Iterates(g, m)
  <2>1. ASSUME NEW k \in 0..m PROVE g[k] \in Nat /\ g[k] = IF k = 0 THEN 0 ELSE next[g[k-1]]
    <3>1. CASE k = m
      BY <1>3, <1>5, <3>1
    <3>2. CASE k # m
      <4>1. k \in 0..(m-1)
        BY <3>2
      <4>2. f[k] \in Nat /\ f[k] = IF k = 0 THEN 0 ELSE next[f[k-1]]
        BY <1>4, <4>1
      <4>3. k # 0 => k-1 \in 0..m /\ k-1 # m
        BY <4>1
      <4> QED BY <3>2, <4>1, <4>2, <4>3
    <3> QED BY <3>1, <3>2
  <2>2. g \in [0..m -> Nat]
    <3> HIDE DEF Iterates
    <3> QED BY <2>1
  <2> QED BY <2>1, <2>2
<1> QED BY <1>6

\* The time after a step that begins at time t.
NextTime(t) ==
  LET cfl == MinOf({Cfl[r][t] : r \in Rank})
  IN  IF t >= FinalTime THEN t
      ELSE IF ~settings.adapt THEN t + FixedStep
      ELSE IF t + cfl > FinalTime THEN FinalTime ELSE t + cfl

LEMMA NextTimeLater ==
  ASSUME NEW t \in Nat
  PROVE  NextTime(t) \in Nat /\ (t < FinalTime => NextTime(t) > t)
<1> DEFINE S == {Cfl[r][t] : r \in Rank}
<1>1. CASE t >= FinalTime
  BY <1>1, RankFacts DEF NextTime
<1>2. CASE t < FinalTime
  <2>1. \A r \in Rank : Cfl[r][t] \in Nat /\ Cfl[r][t] # 0
    BY <1>2, RunAssumption
  <2>2. S \in SUBSET Nat /\ S # {}
    BY <2>1, RankFacts
  <2>3. MinOf(S) \in S
    BY <2>2, MinOfNat
  <2>4. MinOf(S) \in Nat /\ MinOf(S) # 0
    BY <2>1, <2>3
  <2>5. FixedStep \in Nat /\ FixedStep # 0
    BY RunAssumption
  <2> DEFINE cfl == MinOf(S)
  <2>6. NextTime(t) = IF ~settings.adapt THEN t + FixedStep
                      ELSE IF t + cfl > FinalTime THEN FinalTime ELSE t + cfl
    BY <1>2, RankFacts DEF NextTime
  <2> HIDE DEF cfl
  <2> QED BY <1>2, <2>4, <2>5, <2>6, RankFacts DEF cfl
<1> QED BY <1>1, <1>2, RankFacts

LEMMA UninterruptedTimes ==
  /\ UninterruptedTime \in [0..FinalTime -> Nat]
  /\ UninterruptedTime[0] = 0
  /\ \A k \in 1..FinalTime : UninterruptedTime[k] = NextTime(UninterruptedTime[k - 1])
<1> DEFINE U == UninterruptedTime
           Next1 == [t \in Nat |-> NextTime(t)]
           Table(f) == f = [k \in 0..FinalTime |-> IF k = 0 THEN 0 ELSE NextTime(f[k - 1])]
<1>1. U = CHOOSE f : Table(f)
  BY DEF UninterruptedTime, NextTime
<1>2. Next1 \in [Nat -> Nat]
  BY NextTimeLater
<1>3. PICK g \in [0..FinalTime -> Nat] :
        \A k \in 0..FinalTime : g[k] = IF k = 0 THEN 0 ELSE Next1[g[k - 1]]
  <2> HIDE DEF Next1
  <2> QED BY <1>2, IterationExists, RankFacts
<1>4. \A k \in 1..FinalTime : g[k - 1] \in Nat
  BY <1>3, RankFacts
<1>5. \A k \in 0..FinalTime : g[k] = IF k = 0 THEN 0 ELSE NextTime(g[k - 1])
  <2> SUFFICES ASSUME NEW k \in 0..FinalTime PROVE g[k] = IF k = 0 THEN 0 ELSE NextTime(g[k - 1])
    OBVIOUS
  <2>1. g[k] = IF k = 0 THEN 0 ELSE Next1[g[k - 1]]
    BY <1>3
  <2>2. ASSUME k # 0 PROVE Next1[g[k - 1]] = NextTime(g[k - 1])
    <3>1. k \in 1..FinalTime
      BY <2>2, RankFacts
    <3> QED BY <1>4, <3>1
  <2> QED BY <2>1, <2>2
<1>6. Table(g)
  BY <1>5
<1>7. Table(U)
  <2> HIDE DEF U, Table
  <2> QED BY <1>1, <1>6
<1>8. U = g
  <2> DEFINE Bad == {k \in 0..FinalTime : U[k] # g[k]}
  <2>1. ASSUME Bad # {} PROVE FALSE
    <3>1. PICK k \in Bad : \A j \in Bad : k <= j
      <4>1. Bad \in SUBSET Nat
        OBVIOUS
      <4> HIDE DEF Bad
      <4> QED BY <2>1, <4>1, LeastElement
    <3>2. k \in 0..FinalTime
      OBVIOUS
    <3>3. U[k] = IF k = 0 THEN 0 ELSE NextTime(U[k - 1])
      BY <1>7, <3>2
    <3>4. k # 0 => k - 1 \in 0..FinalTime /\ ~ (k <= k - 1)
      BY <3>2, RankFacts
    <3>5. k # 0 => U[k - 1] = g[k - 1]
      BY <3>1, <3>4
    <3>6. U[k] = g[k]
      BY <1>5, <3>2, <3>3, <3>5
    <3> QED BY <3>6
  <2>2. \A k \in 0..FinalTime : U[k] = g[k]
    BY <2>1
  <2>3. U = [k \in 0..FinalTime |-> U[k]]
    <3>1. U = [k \in 0..FinalTime |-> IF k = 0 THEN 0 ELSE NextTime(U[k - 1])]
      BY <1>7
    <3> HIDE DEF U
    <3> QED BY <3>1
  <2> HIDE DEF U
  <2> QED BY <1>3, <2>2, <2>3
<1> HIDE DEF Table, U, Next1
<1>9. U \in [0..FinalTime -> Nat] /\ \A k \in 0..FinalTime : U[k] = IF k = 0 THEN 0 ELSE NextTime(U[k - 1])
  BY <1>5, <1>8
<1>10. 0 \in 0..FinalTime /\ \A k \in 1..FinalTime : k \in 0..FinalTime /\ k # 0
  BY RankFacts
<1> QED BY <1>9, <1>10 DEF U

\* The last step is the first one that reaches the final time.
LEMMA LastStepFacts ==
  /\ LastStep \in 0..FinalTime
  /\ UninterruptedTime[LastStep] >= FinalTime
  /\ \A k \in 0..FinalTime : UninterruptedTime[k] >= FinalTime => LastStep <= k
<1> DEFINE Reach == {k \in 0..FinalTime : UninterruptedTime[k] >= FinalTime}
           Bad == {k \in 0..FinalTime : ~ (UninterruptedTime[k] >= k \/ UninterruptedTime[k] >= FinalTime)}
<1>1. Bad = {}
  <2>1. ASSUME Bad # {} PROVE FALSE
    <3>1. PICK k \in Bad : \A j \in Bad : k <= j
      <4>1. Bad \in SUBSET Nat
        OBVIOUS
      <4> HIDE DEF Bad
      <4> QED BY <2>1, <4>1, LeastElement
    <3>2. k \in 0..FinalTime /\ UninterruptedTime[k] \in Nat
      BY UninterruptedTimes
    <3>3. k # 0
      BY UninterruptedTimes
    <3>4. k - 1 \in 0..FinalTime /\ k \in 1..FinalTime /\ ~ (k <= k - 1)
      BY <3>2, <3>3, RankFacts
    <3>5. UninterruptedTime[k - 1] >= k - 1 \/ UninterruptedTime[k - 1] >= FinalTime
      BY <3>1, <3>4
    <3>6. UninterruptedTime[k - 1] \in Nat /\ UninterruptedTime[k] = NextTime(UninterruptedTime[k - 1])
      BY <3>4, UninterruptedTimes
    <3>7. CASE UninterruptedTime[k - 1] >= FinalTime
      <4>1. UninterruptedTime[k] = UninterruptedTime[k - 1]
        BY <3>6, <3>7 DEF NextTime
      <4> QED BY <3>7, <4>1
    <3>8. CASE UninterruptedTime[k - 1] < FinalTime
      <4>1. UninterruptedTime[k] > UninterruptedTime[k - 1]
        BY <3>6, <3>8, NextTimeLater
      <4>2. UninterruptedTime[k - 1] >= k - 1
        BY <3>5, <3>6, <3>8, RankFacts
      <4>3. UninterruptedTime[k] >= k
        BY <3>2, <3>6, <4>1, <4>2
      <4> QED BY <4>3
    <3> QED BY <3>6, <3>7, <3>8, RankFacts
  <2> QED BY <2>1
<1>2. FinalTime \in Reach
  BY <1>1, RankFacts
<1>3. Reach \in SUBSET Nat /\ Reach # {}
  BY <1>2
<1>4. MinOf(Reach) \in Reach /\ \A k \in Reach : MinOf(Reach) <= k
  <2> HIDE DEF Reach
  <2> QED BY <1>3, MinOfNat
<1>5. LastStep = MinOf(Reach)
  BY DEF LastStep
<1> QED BY <1>4, <1>5

\* The settings do not change, and neither does what they ask for.
LEMMA DueKept ==
  ASSUME settings' = settings
  PROVE  UninterruptedTime' = UninterruptedTime /\ LastStep' = LastStep /\ \A k : Due(k)' <=> Due(k)
<1>1. UninterruptedTime' = UninterruptedTime
  BY DEF UninterruptedTime
<1>2. LastStep' = LastStep
  BY <1>1 DEF LastStep
<1> QED BY <1>1, <1>2 DEF Due

-----------------------------------------------------------------------------
(***************************************************************************)
(* Every model, in memory, in a restart file or in the output file, is one *)
(* of the run that is never killed.                                        *)
(***************************************************************************)
OnTime(s, t) == s <= LastStep /\ t = UninterruptedTime[s]

ModelsOnTime == \A r \in Rank : OnTime(step[r], time[r])
FilesOnTime  == \A r \in Rank : HasModel(r) => OnTime(rst[r].step, rst[r].time)
OutputOnTime == \A i \in 1..Len(outbin) : OnTime(outbin[i].step, outbin[i].time)
EndsOnTime   == \A r \in Rank : pc[r] = "done" => time[r] >= FinalTime

TimesInv == ModelsOnTime /\ FilesOnTime /\ OutputOnTime /\ EndsOnTime

LEMMA TimesInit == Init => TimesInv
<1> SUFFICES ASSUME Init PROVE TimesInv
  OBVIOUS
<1>1. OnTime(0, 0)
  BY LastStepFacts, UninterruptedTimes, RankFacts DEF OnTime
<1>2. ModelsOnTime
  BY <1>1 DEF Init, ModelsOnTime
<1>3. FilesOnTime
  BY DEF Init, FilesOnTime, HasModel, Missing, File
<1>4. OutputOnTime
  BY DEF Init, OutputOnTime
<1>5. EndsOnTime
  BY DEF Init, EndsOnTime, FirstTask
<1> QED BY <1>2, <1>3, <1>4, <1>5 DEF TimesInv

\* The parts of the invariant that a step keeps with the variables they are about.
LEMMA TimesKept ==
  ASSUME TimesInv, settings' = settings
  PROVE  /\ UNCHANGED <<step, time>> => ModelsOnTime'
         /\ UNCHANGED rst => FilesOnTime'
         /\ UNCHANGED outbin => OutputOnTime'
         /\ UNCHANGED <<pc, time>> => EndsOnTime'
<1> USE DueKept DEF TimesInv, OnTime
<1>1. ASSUME UNCHANGED <<step, time>> PROVE ModelsOnTime'
  BY <1>1 DEF ModelsOnTime
<1>2. ASSUME UNCHANGED rst PROVE FilesOnTime'
  BY <1>2 DEF FilesOnTime, HasModel
<1>3. ASSUME UNCHANGED outbin PROVE OutputOnTime'
  BY <1>3 DEF OutputOnTime
<1>4. ASSUME UNCHANGED <<pc, time>> PROVE EndsOnTime'
  BY <1>4 DEF EndsOnTime
<1> QED BY <1>1, <1>2, <1>3, <1>4

\* A rank that goes on without ending.
LEMMA EndsKept ==
  ASSUME TimesInv, UNCHANGED time,
         \A q \in Rank : pc'[q] = pc[q] \/ pc'[q] # "done"
  PROVE  EndsOnTime'
BY DEF TimesInv, EndsOnTime

LEMMA TimesKeptByRestartFromFile ==
  ASSUME TypeInv, TimesInv, NEW r \in Rank, RestartFromFile(r)
  PROVE  TimesInv'
<1>1. UNCHANGED <<rst, outbin, settings>>
  BY DEF RestartFromFile, disk, job
<1>2. pc[r] = "restart" /\ pc'[r] = "renumber" /\ \A q \in Rank : q # r => pc'[q] = pc[q]
  BY GotoFacts DEF RestartFromFile
<1>3. /\ step'[r] = rst[r].step /\ time'[r] = rst[r].time
      /\ \A q \in Rank : q # r => step'[q] = step[q] /\ time'[q] = time[q]
  BY DEF RestartFromFile, RestoredTime, TypeInv, ModelTypes
<1>4. OnTime(rst[r].step, rst[r].time)
  BY DEF RestartFromFile, HasModel, TimesInv, FilesOnTime
<1>5. ModelsOnTime'
  BY <1>1, <1>3, <1>4, DueKept DEF TimesInv, ModelsOnTime, OnTime
<1>6. EndsOnTime'
  BY <1>2, <1>3 DEF TimesInv, EndsOnTime
<1> QED BY <1>1, <1>5, <1>6, TimesKept DEF TimesInv

\* All the ranks solve the same step, with the time step of the run that is never killed.
LEMMA TimesKeptBySolve ==
  ASSUME TypeInv, RestartInv, TimesInv, Solve
  PROVE  TimesInv'
<1>1. UNCHANGED <<rst, outbin, settings>>
  BY DEF Solve, disk, job
<1>2. \A q \in Rank : /\ pc[q] = "solve" /\ step'[q] = step[q] + 1 /\ time'[q] = time[q] + TimeStep(q)
                      /\ pc'[q] \in {"output", "fopen wb", "loop"}
  BY AfterType DEF Solve, All
<1>3. ASSUME NEW r \in Rank PROVE OnTime(step'[r], time'[r])
  <2> DEFINE t == time[r]
             cfl == MinOf({Cfl[q][t] : q \in Rank})
  <2>1. t \in Nat /\ t < FinalTime /\ step[r] \in Nat
    BY <1>2 DEF TypeInv, ModelTypes, BeforeFinalTime
  <2>2. step[r] <= LastStep /\ t = UninterruptedTime[step[r]]
    BY DEF TimesInv, ModelsOnTime, OnTime
  <2>3. step[r] # LastStep
    BY <2>1, <2>2, LastStepFacts, RankFacts
  <2>4. step[r] + 1 \in 1..FinalTime /\ step[r] + 1 <= LastStep /\ step[r] + 1 - 1 = step[r]
    BY <2>1, <2>2, <2>3, LastStepFacts, RankFacts
  <2>5. UninterruptedTime[step[r] + 1] = NextTime(t)
    <3>1. ASSUME NEW k \in 1..FinalTime PROVE UninterruptedTime[k] = NextTime(UninterruptedTime[k - 1])
      BY UninterruptedTimes
    <3> DEFINE n == step[r] + 1
    <3>2. n \in 1..FinalTime /\ n - 1 = step[r]
      BY <2>1, <2>4
    <3> HIDE DEF n
    <3>3. UninterruptedTime[n] = NextTime(UninterruptedTime[n - 1])
      BY <3>1, <3>2
    <3> QED BY <2>2, <3>2, <3>3 DEF n
  <2>6. AdaptedStep = cfl
    <3>1. \A q \in Rank : time[q] = t
      BY <1>2 DEF RestartInv, ModelsAgree, Starting
    <3>2. {Cfl[q][time[q]] : q \in Rank} = {Cfl[q][t] : q \in Rank}
      BY <3>1
    <3> QED BY <3>2 DEF AdaptedStep
  <2>7. AdaptedStep \in Nat
    BY AdaptedStepNat DEF Solve
  <2>8. NextTime(t) = IF ~settings.adapt THEN t + FixedStep
                      ELSE IF t + AdaptedStep > FinalTime THEN FinalTime ELSE t + AdaptedStep
    BY <2>1, <2>6, RankFacts DEF NextTime
  <2>9. NextTime(t) = t + TimeStep(r)
    <3> HIDE DEF cfl
    <3> QED BY <2>1, <2>7, <2>8, RankFacts DEF TimeStep
  <2> QED BY <1>2, <2>4, <2>5, <2>9 DEF OnTime
<1>4. ModelsOnTime'
  BY <1>1, <1>3, DueKept DEF ModelsOnTime, OnTime
<1>5. EndsOnTime'
  BY <1>2 DEF EndsOnTime
<1> QED BY <1>1, <1>4, <1>5, TimesKept DEF TimesInv

LEMMA TimesKeptByFiles ==
  ASSUME TypeInv, TimesInv, NEW r \in Rank, UNCHANGED <<step, time, outbin, settings>>,
         \A q \in Rank : pc'[q] = pc[q] \/ pc'[q] # "done",
         \A q \in Rank : q # r => rst'[q] = rst[q],
         rst'[r].state = "empty" \/ OnTime(rst'[r].step, rst'[r].time)
  PROVE  TimesInv'
<1>1. FilesOnTime'
  BY DueKept DEF TimesInv, FilesOnTime, HasModel, OnTime
<1> QED BY <1>1, TimesKept, EndsKept DEF TimesInv

\* The output file after rank 0 has begun a record, and after it has closed it.
LEMMA ResultsWritten ==
  ASSUME TypeInv, WriteResults
  PROVE  /\ Len(outbin) \in Nat /\ Len(outbin') = Len(outbin) + 1
         /\ \A i \in 1..Len(outbin') :
              \/ i \in 1..Len(outbin) /\ outbin'[i] = outbin[i]
              \/ /\ i = Len(outbin') /\ outbin'[i].step = step[0] /\ outbin'[i].time = time[0]
                 /\ (\A r \in Rank : whole[r]) => outbin'[i].whole
         /\ \A i \in 1..Len(outbin) : i \in 1..Len(outbin') /\ outbin'[i] = outbin[i]
<1> DEFINE R == [step : Nat, time : Nat, whole : BOOLEAN, closed : BOOLEAN]
           x == Results(FALSE)
<1>1. x \in R /\ x.step = step[0] /\ x.time = time[0] /\ ((\A r \in Rank : whole[r]) => x.whole)
  BY RankFacts DEF TypeInv, ModelTypes, Results
<1>2. outbin \in Seq(R) /\ outbin' = Append(outbin, x)
  BY DEF TypeInv, OutputType, WriteResults
<1> HIDE DEF R, x
<1>3. Len(outbin) \in Nat
  BY <1>2, LenProperties
<1>4. /\ Len(outbin') = Len(outbin) + 1
      /\ \A i \in 1..Len(outbin) : outbin'[i] = outbin[i]
      /\ outbin'[Len(outbin) + 1] = x
  BY <1>1, <1>2, AppendProperties
<1> QED BY <1>1, <1>3, <1>4

LEMMA ResultsClosed ==
  ASSUME TypeInv, CloseResults
  PROVE  /\ Len(outbin') = Len(outbin) /\ Len(outbin) \in Nat
         /\ \A i \in 1..Len(outbin) :
              \/ outbin'[i] = outbin[i]
              \/ /\ i = Len(outbin) /\ outbin'[i].step = step[0] /\ outbin'[i].time = time[0]
                 /\ (\A r \in Rank : whole[r]) => outbin'[i].whole
         /\ Len(outbin) \in 1..Len(outbin) =>
              outbin'[Len(outbin)].closed /\ outbin'[Len(outbin)].step = step[0]
<1> DEFINE R == [step : Nat, time : Nat, whole : BOOLEAN, closed : BOOLEAN]
           x == Results(TRUE)
<1>1. /\ x \in R /\ x.step = step[0] /\ x.time = time[0] /\ x.closed
      /\ (\A r \in Rank : whole[r]) => x.whole
  BY RankFacts DEF TypeInv, ModelTypes, Results
<1>2. outbin \in Seq(R) /\ outbin' = [outbin EXCEPT ![Len(outbin)] = x]
  BY DEF TypeInv, OutputType, CloseResults
<1> HIDE DEF R, x
<1>3. Len(outbin) \in Nat
  BY <1>2, LenProperties
<1>4. /\ Len(outbin') = Len(outbin)
      /\ Len(outbin) \in 1..Len(outbin) => outbin'[Len(outbin)] = x
      /\ \A i \in 1..Len(outbin) : outbin'[i] = outbin[i] \/ (i = Len(outbin) /\ outbin'[i] = x)
  BY <1>1, <1>2, ReplacedEntry
<1> QED BY <1>1, <1>3, <1>4

LEMMA TimesNext == TypeInv /\ RestartInv /\ TimesInv /\ [Next]_vars => TimesInv'
<1> SUFFICES ASSUME TypeInv, RestartInv, TimesInv, [Next]_vars PROVE TimesInv'
  OBVIOUS
<1> USE RankFacts
<1>1. ASSUME UNCHANGED <<step, time, rst, outbin, settings>>,
             \A q \in Rank : pc'[q] = pc[q] \/ pc'[q] # "done" \/ time[q] >= FinalTime
      PROVE  TimesInv'
  <2>1. EndsOnTime'
    BY <1>1 DEF TimesInv, EndsOnTime
  <2> QED BY <1>1, <2>1, TimesKept DEF TimesInv
<1>2. ASSUME NEW r \in Rank, NEW from, NEW to, Goto(r, from, to), to # "done" \/ time[r] >= FinalTime
      PROVE  \A q \in Rank : pc'[q] = pc[q] \/ pc'[q] # "done" \/ time[q] >= FinalTime
  BY <1>2, GotoFacts
<1>3. ASSUME NEW r \in Rank, Fopen(r) PROVE TimesInv'
  <2>1. UNCHANGED <<step, time, outbin, settings>>
    BY <1>3 DEF Fopen, model, job
  <2>2. CASE Goto(r, "fopen r", "barrier r") /\ rst' = rst
    BY <1>1, <1>2, <2>1, <2>2
  <2>3. CASE Goto(r, "fopen wb", "barrier wb") /\ rst' = [rst EXCEPT ![r] = File("empty", 0, 0, FALSE)]
    <3>1. rst'[r].state = "empty" /\ \A q \in Rank : q # r => rst'[q] = rst[q]
      BY <2>3 DEF TypeInv, FileType, File
    <3>2. \A q \in Rank : pc'[q] = pc[q] \/ pc'[q] # "done"
      BY <2>3, GotoFacts
    <3> QED BY <2>1, <3>1, <3>2, TimesKeptByFiles
  <2> QED BY <1>3, <2>2, <2>3 DEF Fopen, OpenedFile
<1>4. ASSUME NEW r \in Rank, RestartWithoutFile(r) \/ RestartFails(r) PROVE TimesInv'
  <2>1. UNCHANGED <<step, time, rst, outbin, settings>>
    BY <1>4 DEF RestartWithoutFile, RestartFails, model, disk, job
  <2> QED BY <1>1, <1>2, <1>4, <2>1 DEF RestartWithoutFile, RestartFails
<1>5. ASSUME NEW r \in Rank, Loop(r) PROVE TimesInv'
  <2>1. UNCHANGED <<step, time, rst, outbin, settings>>
    BY <1>5 DEF Loop, model, disk, job
  <2>2. time[r] \in Nat
    BY DEF TypeInv, ModelTypes
  <2>3. (IF time[r] < FinalTime THEN "solve" ELSE "done") # "done" \/ time[r] >= FinalTime
    BY <2>2
  <2>4. \A q \in Rank : pc'[q] = pc[q] \/ pc'[q] # "done" \/ time[q] >= FinalTime
    BY <1>2, <1>5, <2>3 DEF Loop
  <2> QED BY <1>1, <2>1, <2>4
<1>6. \A task, s, t : After(task, s, t) # "done"
  BY DEF After
<1>7. ASSUME NEW r \in Rank, SendResults(r) PROVE TimesInv'
  <2>1. UNCHANGED <<step, time, rst, outbin, settings>>
    BY <1>7 DEF SendResults, model, disk, job
  <2> QED BY <1>1, <1>2, <1>6, <1>7, <2>1 DEF SendResults
<1>8. OnTime(step[0], time[0])
  BY DEF TimesInv, ModelsOnTime
<1>9. ASSUME WriteResults PROVE TimesInv'
  <2>1. UNCHANGED <<step, time, rst, settings>>
    BY <1>9 DEF WriteResults, model, job
  <2>2. OutputOnTime'
    <3> SUFFICES ASSUME NEW i \in 1..Len(outbin') PROVE OnTime(outbin'[i].step, outbin'[i].time)
      BY <2>1, DueKept DEF OutputOnTime, OnTime
    <3> QED BY <1>8, <1>9, ResultsWritten DEF TimesInv, OutputOnTime
  <2>3. EndsOnTime'
    <3>1. pc'[0] = "close results" /\ \A q \in Rank : q # 0 => pc'[q] = pc[q]
      BY <1>9, GotoFacts DEF WriteResults
    <3> QED BY <2>1, <3>1, EndsKept
  <2> QED BY <2>1, <2>2, <2>3, TimesKept DEF TimesInv
<1>10. ASSUME CloseResults PROVE TimesInv'
  <2>1. UNCHANGED <<step, time, rst, settings>>
    BY <1>10 DEF CloseResults, model, job
  <2>2. OutputOnTime'
    <3> SUFFICES ASSUME NEW i \in 1..Len(outbin') PROVE OnTime(outbin'[i].step, outbin'[i].time)
      BY <2>1, DueKept DEF OutputOnTime, OnTime
    <3> QED BY <1>8, <1>10, ResultsClosed DEF TimesInv, OutputOnTime
  <2>3. EndsOnTime'
    <3>1. pc'[0] = After("output", step[0], time[0]) /\ \A q \in Rank : q # 0 => pc'[q] = pc[q]
      BY <1>10, GotoFacts DEF CloseResults
    <3> QED BY <1>6, <2>1, <3>1, EndsKept
  <2> QED BY <2>1, <2>2, <2>3, TimesKept DEF TimesInv
<1>11. ASSUME NEW r \in Rank, WriteCheckPoint(r) PROVE TimesInv'
  <2>1. UNCHANGED <<step, time, outbin, settings>>
    BY <1>11 DEF WriteCheckPoint, model, job
  <2>2. rst' = [rst EXCEPT ![r] = File("partial", step[r], time[r], whole[r])]
    BY <1>11 DEF WriteCheckPoint
  <2>3. /\ rst'[r].state = "partial" /\ rst'[r].step = step[r] /\ rst'[r].time = time[r]
        /\ \A q \in Rank : q # r => rst'[q] = rst[q]
    BY <2>2 DEF TypeInv, FileType, File
  <2>4. OnTime(rst'[r].step, rst'[r].time)
    BY <2>3 DEF TimesInv, ModelsOnTime
  <2>5. \A q \in Rank : pc'[q] = pc[q] \/ pc'[q] # "done"
    BY <1>11, GotoFacts DEF WriteCheckPoint
  <2> QED BY <2>1, <2>3, <2>4, <2>5, TimesKeptByFiles
<1>12. ASSUME NEW r \in Rank, CloseCheckPoint(r) PROVE TimesInv'
  <2>1. UNCHANGED <<step, time, outbin, settings>>
    BY <1>12 DEF CloseCheckPoint, model, job
  <2>2. rst' = [rst EXCEPT ![r] = File("closed", rst[r].step, rst[r].time, rst[r].whole)]
    BY <1>12 DEF CloseCheckPoint
  <2>3. /\ rst'[r].state = "closed" /\ rst'[r].step = rst[r].step /\ rst'[r].time = rst[r].time
        /\ \A q \in Rank : q # r => rst'[q] = rst[q]
    BY <2>2 DEF TypeInv, FileType, File
  <2>4. pc[r] = "close checkpoint"
    BY <1>12 DEF CloseCheckPoint, Goto
  <2>5. HasModel(r)
    BY <2>4 DEF RestartInv, FilesMatchStages, HasModel
  <2>6. OnTime(rst'[r].step, rst'[r].time)
    BY <2>3, <2>5 DEF TimesInv, FilesOnTime
  <2>7. \A q \in Rank : pc'[q] = pc[q] \/ pc'[q] # "done"
    <3>1. pc'[r] = After("checkpoint", step[r], time[r]) /\ \A q \in Rank : q # r => pc'[q] = pc[q]
      BY <1>12, GotoFacts DEF CloseCheckPoint
    <3> QED BY <1>6, <3>1
  <2> QED BY <2>1, <2>3, <2>6, <2>7, TimesKeptByFiles
<1>13. ASSUME NEW fopen, NEW barrier, NEW to, to # "done", Barrier(fopen, barrier, to) PROVE TimesInv'
  <2>1. UNCHANGED <<step, time, rst, outbin, settings>>
    BY <1>13 DEF Barrier, model, disk, job
  <2>2. \A q \in Rank : pc'[q] = pc[q] \/ pc'[q] # "done"
    BY <1>13 DEF Barrier
  <2> QED BY <1>1, <2>1, <2>2
<1>14. ASSUME Renumber PROVE TimesInv'
  <2>1. UNCHANGED <<step, time, rst, outbin, settings>>
    BY <1>14 DEF Renumber, model, disk, job
  <2>2. \A q \in Rank : pc'[q] # "done"
    BY <1>14 DEF Renumber
  <2> QED BY <1>1, <2>1, <2>2
<1>15. ASSUME Relaunch PROVE TimesInv'
  <2>1. UNCHANGED <<rst, outbin, settings>>
    BY <1>15 DEF Relaunch, disk
  <2>2. OnTime(0, 0)
    BY LastStepFacts, UninterruptedTimes DEF OnTime
  <2>3. \A q \in Rank : step'[q] = 0 /\ time'[q] = 0 /\ pc'[q] # "done"
    BY <1>15 DEF Relaunch, FirstTask
  <2>4. ModelsOnTime'
    BY <2>1, <2>2, <2>3, DueKept DEF ModelsOnTime, OnTime
  <2>5. EndsOnTime'
    BY <2>3 DEF EndsOnTime
  <2> QED BY <2>1, <2>4, <2>5, TimesKept DEF TimesInv
<1>16. ASSUME UNCHANGED vars PROVE TimesInv'
  BY <1>1, <1>16 DEF vars
<1> QED BY <1>3, <1>4, <1>5, <1>7, <1>9, <1>10, <1>11, <1>12, <1>13, <1>14, <1>15, <1>16,
           TimesKeptByRestartFromFile, TimesKeptBySolve
        DEF Next, RunStep, RootStep, CollectiveStep, LocalStep

LEMMA TimesInvariant == Spec => []TimesInv
BY TimesInit, TimesNext, RestartInvariant, PTL DEF Spec

LEMMA EndStep ==
  ASSUME TypeInv, TimesInv, NEW r \in Rank, pc[r] = "done"
  PROVE  step[r] = LastStep
<1>1. step[r] \in Nat /\ step[r] <= LastStep /\ UninterruptedTime[step[r]] >= FinalTime
  BY DEF TypeInv, ModelTypes, TimesInv, ModelsOnTime, EndsOnTime, OnTime
<1>2. LastStep \in 0..FinalTime /\ step[r] \in 0..FinalTime
  BY <1>1, LastStepFacts, RankFacts
<1> QED BY <1>1, <1>2, LastStepFacts

-----------------------------------------------------------------------------
(***************************************************************************)
(* What the records hold.  As long as no launch has found a part of a      *)
(* file, the files and the models in memory are whole (FilesAreWhole), and *)
(* a record takes the data of all the ranks.                               *)
(***************************************************************************)
RecordsAreWhole == ~interrupted => \A i \in 1..Len(outbin) : outbin[i].whole

LEMMA RecordsInit == Init => RecordsAreWhole
BY DEF Init, RecordsAreWhole

LEMMA RecordsNext == TypeInv /\ ResumeInv /\ RecordsAreWhole /\ [Next]_vars => RecordsAreWhole'
<1> SUFFICES ASSUME TypeInv, ResumeInv, RecordsAreWhole, [Next]_vars PROVE RecordsAreWhole'
  OBVIOUS
<1>1. ~interrupted => \A r \in Rank : whole[r]
  BY DEF ResumeInv, FilesAreWhole, WholeAt
<1>2. ASSUME WriteResults PROVE RecordsAreWhole'
  <2>1. interrupted' = interrupted
    BY <1>2 DEF WriteResults, job
  <2> QED BY <1>1, <1>2, <2>1, ResultsWritten DEF RecordsAreWhole
<1>3. ASSUME CloseResults PROVE RecordsAreWhole'
  <2>1. interrupted' = interrupted
    BY <1>3 DEF CloseResults, job
  <2> QED BY <1>1, <1>3, <2>1, ResultsClosed DEF RecordsAreWhole
<1>4. ASSUME outbin' = outbin, ~interrupted' => ~interrupted PROVE RecordsAreWhole'
  BY <1>4 DEF RecordsAreWhole
<1>5. ASSUME NEW r \in Rank, LocalStep(r) PROVE outbin' = outbin /\ interrupted' = interrupted
  BY <1>5 DEF LocalStep, Fopen, RestartWithoutFile, RestartFails, RestartFromFile, Loop, SendResults,
              WriteCheckPoint, CloseCheckPoint, disk, job
<1>6. ASSUME CollectiveStep PROVE outbin' = outbin /\ interrupted' = interrupted
  BY <1>6 DEF CollectiveStep, Barrier, Renumber, Solve, disk, job
<1>7. ASSUME Relaunch PROVE outbin' = outbin /\ (~interrupted' => ~interrupted)
  BY <1>7 DEF Relaunch, disk
<1>8. ASSUME UNCHANGED vars PROVE outbin' = outbin /\ interrupted' = interrupted
  BY <1>8 DEF vars
<1> QED BY <1>2, <1>3, <1>4, <1>5, <1>6, <1>7, <1>8 DEF Next, RunStep, RootStep

\* A run that was killed and restarted, any number of times and at any point, writes at each
\* step the results of the time that a run that is never killed has there, and ends at the
\* same step and time.  The data is that of such a run too, in every record and in the model
\* at the end, unless a launch found a restart file that was being written.
THEOREM RestartsAreTransparent == Spec => []RestartIsTransparent
<1>1. TypeInv /\ TimesInv /\ ResumeInv /\ RecordsAreWhole => RestartIsTransparent
  <2> SUFFICES ASSUME TypeInv, TimesInv, ResumeInv, RecordsAreWhole PROVE RestartIsTransparent
    OBVIOUS
  <2>1. \A i \in 1..Len(outbin) :
          outbin[i].step <= LastStep /\ outbin[i].time = UninterruptedTime[outbin[i].step]
    BY DEF TimesInv, OutputOnTime, OnTime
  <2>2. \A i \in 1..Len(outbin) : outbin[i].whole \/ interrupted
    BY DEF RecordsAreWhole
  <2>3. \A r \in Rank : whole[r] \/ interrupted
    BY DEF ResumeInv, FilesAreWhole, WholeAt
  <2>4. ASSUME Done, NEW r \in Rank PROVE step[r] = LastStep /\ time[r] = UninterruptedTime[LastStep]
    <3>1. step[r] = LastStep
      BY <2>4, EndStep DEF Done, All
    <3> QED BY <3>1 DEF TimesInv, ModelsOnTime, OnTime
  <2> QED BY <2>1, <2>2, <2>3, <2>4 DEF RestartIsTransparent
<1>2. Spec => []RecordsAreWhole
  BY RecordsInit, RecordsNext, ResumeInvariant, RestartInvariant, PTL DEF Spec
<1> QED BY <1>1, <1>2, TimesInvariant, ResumeInvariant, RestartInvariant, PTL

-----------------------------------------------------------------------------
(***************************************************************************)
(* The output file is complete.  The steps that are due and not yet in the *)
(* file are later than every checkpoint, and not before the step that rank *)
(* 0 is at: it records a step when it has written its results, and never   *)
(* before.                                                                 *)
(***************************************************************************)
Written(k) == \E i \in 1..Len(outbin) : outbin[i].closed /\ outbin[i].step = k

Missed == {k \in 1..LastStep : Due(k) /\ ~Written(k)}

\* The step of a checkpoint is not among those that are missed, nor is one before it.
FilesComplete == \A r \in Rank : HasModel(r) => \A k \in Missed : rst[r].step < k

RootComplete ==
  \A k \in Missed : step[0] < k \/ (step[0] = k /\ pc[0] \in Saving)

\* The record that rank 0 is about to close is the last one, and of its step.
Closing == pc[0] = "close results" =>
  Len(outbin) \in 1..Len(outbin) /\ outbin[Len(outbin)].step = step[0]

OutputInv == FilesComplete /\ RootComplete /\ Closing

LEMMA MissedFacts == \A k \in Missed : k \in Nat /\ 0 < k /\ k <= LastStep /\ Due(k)
BY LastStepFacts, RankFacts DEF Missed

\* Results that are in the file stay there.
LEMMA MissedKept ==
  ASSUME settings' = settings, \A k \in 1..LastStep : Written(k) => Written(k)'
  PROVE  Missed' \subseteq Missed
BY DueKept DEF Missed

LEMMA SameOutput ==
  ASSUME settings' = settings, outbin' = outbin
  PROVE  Missed' \subseteq Missed
BY MissedKept DEF Written

LEMMA OutputInit == Init => OutputInv
<1> SUFFICES ASSUME Init PROVE OutputInv
  OBVIOUS
<1>1. FilesComplete
  BY DEF Init, FilesComplete, HasModel, Missing, File
<1>2. step[0] = 0
  BY RankFacts DEF Init
<1>3. RootComplete
  BY <1>2, MissedFacts DEF RootComplete
<1>4. Closing
  BY RankFacts DEF Init, Closing, FirstTask
<1> QED BY <1>1, <1>3, <1>4 DEF OutputInv

\* The parts of the invariant that a step keeps with the variables they are about.
LEMMA OutputKept ==
  ASSUME OutputInv, Missed' \subseteq Missed
  PROVE  /\ UNCHANGED rst => FilesComplete'
         /\ UNCHANGED step /\ (pc[0] \in Saving => pc'[0] \in Saving) => RootComplete'
         /\ UNCHANGED <<step, outbin>> /\ (pc'[0] = "close results" => pc[0] = "close results") => Closing'
<1> USE DEF OutputInv
<1>1. ASSUME UNCHANGED rst PROVE FilesComplete'
  BY <1>1 DEF FilesComplete, HasModel
<1>2. ASSUME UNCHANGED step, pc[0] \in Saving => pc'[0] \in Saving PROVE RootComplete'
  BY <1>2 DEF RootComplete
<1>3. ASSUME UNCHANGED <<step, outbin>>, pc'[0] = "close results" => pc[0] = "close results" PROVE Closing'
  BY <1>3 DEF Closing
<1> QED BY <1>1, <1>2, <1>3

LEMMA OutputKeptByRestartFromFile ==
  ASSUME TypeInv, OutputInv, NEW r \in Rank, RestartFromFile(r)
  PROVE  OutputInv'
<1>1. UNCHANGED <<rst, outbin, settings>>
  BY DEF RestartFromFile, disk, job
<1>2. pc[r] = "restart" /\ pc'[r] = "renumber" /\ \A q \in Rank : q # r => pc'[q] = pc[q]
  BY GotoFacts DEF RestartFromFile
<1>3. step'[r] = rst[r].step /\ \A q \in Rank : q # r => step'[q] = step[q]
  BY DEF RestartFromFile, TypeInv, ModelTypes
<1>4. Missed' \subseteq Missed
  BY <1>1, SameOutput
<1>5. RootComplete' /\ Closing'
  <2>1. CASE r = 0
    <3>1. \A k \in Missed : rst[r].step < k
      BY DEF RestartFromFile, HasModel, OutputInv, FilesComplete
    <3> QED BY <1>2, <1>3, <1>4, <2>1, <3>1 DEF RootComplete, Closing
  <2>2. CASE r # 0
    BY <1>1, <1>2, <1>3, <1>4, <2>2, RankFacts DEF OutputInv, RootComplete, Closing
  <2> QED BY <2>1, <2>2
<1> QED BY <1>1, <1>4, <1>5, OutputKept DEF OutputInv

\* A step that is due is saved before anything else.
LEMMA OutputKeptBySolve ==
  ASSUME TypeInv, RestartInv, TimesInv, OutputInv, Solve
  PROVE  OutputInv'
<1>1. UNCHANGED <<rst, outbin, settings>>
  BY DEF Solve, disk, job
<1>2. /\ pc[0] = "solve" /\ step'[0] = step[0] + 1 /\ step[0] \in Nat
      /\ pc'[0] = After("solve", step'[0], time'[0])
  BY RankFacts DEF Solve, All, TypeInv, ModelTypes
<1>3. Missed' \subseteq Missed
  BY <1>1, SameOutput
<1>4. ASSUME NEW k \in Missed, step'[0] = k PROVE pc'[0] \in Saving
  <2>1. Due(k) /\ k \in Nat
    BY MissedFacts
  <2>2. TimesInv'
    BY TimesKeptBySolve
  <2>3. time'[0] = UninterruptedTime[k]
    BY <1>1, <1>4, <2>2, DueKept, RankFacts DEF TimesInv, ModelsOnTime, OnTime
  <2>4. SaveResults(k, time'[0])
    BY <2>1, <2>3, LastStepFacts DEF Due, SaveResults
  <2>5. SaveResults(step'[0], time'[0])
    BY <1>4, <2>4
  <2>6. pc'[0] = "output"
    BY <1>2, <2>5 DEF After
  <2> QED BY <2>6 DEF Saving
<1>5. RootComplete'
  <2> SUFFICES ASSUME NEW k \in Missed PROVE step'[0] < k \/ (step'[0] = k /\ pc'[0] \in Saving)
    BY <1>3 DEF RootComplete
  <2>1. step[0] < k
    BY <1>2 DEF OutputInv, RootComplete, Saving
  <2>2. step'[0] < k \/ step'[0] = k
    BY <1>2, <2>1, MissedFacts
  <2> QED BY <1>4, <2>2
<1>6. Closing'
  BY <1>2, AfterType DEF Closing
<1> QED BY <1>1, <1>3, <1>5, <1>6, OutputKept DEF OutputInv

LEMMA OutputKeptByWriteResults ==
  ASSUME TypeInv, OutputInv, WriteResults
  PROVE  OutputInv'
<1>1. UNCHANGED <<rst, step, settings>>
  BY DEF WriteResults, model, job
<1>2. pc[0] = "output" /\ pc'[0] = "close results"
  BY GotoFacts, RankFacts DEF WriteResults
<1>3. Missed' \subseteq Missed
  BY <1>1, ResultsWritten, MissedKept DEF Written
<1>4. Closing'
  <2>1. Len(outbin') \in 1..Len(outbin') /\ ~ (Len(outbin') \in 1..Len(outbin))
    BY ResultsWritten
  <2>2. outbin'[Len(outbin')].step = step[0]
    BY <2>1, ResultsWritten
  <2> QED BY <1>1, <2>1, <2>2 DEF Closing
<1> QED BY <1>1, <1>2, <1>3, <1>4, OutputKept DEF OutputInv, Saving

\* Rank 0 closes its record before it goes on.
LEMMA OutputKeptByCloseResults ==
  ASSUME TypeInv, OutputInv, CloseResults
  PROVE  OutputInv'
<1>1. UNCHANGED <<rst, step, settings>>
  BY DEF CloseResults, model, job
<1>2. pc[0] = "close results" /\ pc'[0] = After("output", step[0], time[0])
  BY GotoFacts, RankFacts DEF CloseResults
<1>3. Len(outbin) \in 1..Len(outbin) /\ outbin[Len(outbin)].step = step[0]
  BY <1>2 DEF OutputInv, Closing
<1>4. Len(outbin') = Len(outbin) /\ outbin'[Len(outbin)].closed /\ outbin'[Len(outbin)].step = step[0]
  BY <1>3, ResultsClosed
<1>5. Written(step[0])'
  <2>1. \E i \in 1..Len(outbin') : outbin'[i].closed /\ outbin'[i].step = step'[0]
    BY <1>1, <1>3, <1>4
  <2> QED BY <2>1 DEF Written
<1>6. \A k : Written(k) => Written(k)'
  <2> SUFFICES ASSUME NEW k, NEW i \in 1..Len(outbin), outbin[i].closed, outbin[i].step = k
               PROVE  \E j \in 1..Len(outbin') : outbin'[j].closed /\ outbin'[j].step = k
    BY DEF Written
  <2>1. CASE outbin'[i] = outbin[i]
    BY <1>4, <2>1
  <2>2. CASE i = Len(outbin)
    BY <1>3, <1>4, <2>2
  <2> QED BY <2>1, <2>2, ResultsClosed
<1>7. Missed' \subseteq Missed
  BY <1>1, <1>6, MissedKept
<1>8. \A k \in Missed' : k # step[0]
  BY <1>1, <1>3, <1>4 DEF Missed, Written
<1>9. RootComplete'
  BY <1>1, <1>7, <1>8 DEF OutputInv, RootComplete
<1>10. Closing'
  BY <1>2, AfterType DEF Closing
<1> QED BY <1>1, <1>7, <1>9, <1>10, OutputKept DEF OutputInv

\* A checkpoint is written when rank 0 has left its results behind.
LEMMA OutputKeptByWriteCheckPoint ==
  ASSUME TypeInv, RestartInv, OutputInv, NEW r \in Rank, WriteCheckPoint(r)
  PROVE  OutputInv'
<1>1. UNCHANGED <<step, outbin, settings>>
  BY DEF WriteCheckPoint, model, job
<1>2. pc[r] = "checkpoint" /\ pc'[r] = "close checkpoint" /\ \A q \in Rank : q # r => pc'[q] = pc[q]
  BY GotoFacts DEF WriteCheckPoint
<1>3. rst' = [rst EXCEPT ![r] = File("partial", step[r], time[r], whole[r])]
  BY DEF WriteCheckPoint
<1>4. /\ rst'[r].state = "partial" /\ rst'[r].step = step[r] /\ rst'[r].time = time[r]
      /\ \A q \in Rank : q # r => rst'[q] = rst[q]
  BY <1>3 DEF TypeInv, FileType, File
<1>5. Missed' \subseteq Missed
  BY <1>1, SameOutput
<1>6. pc[0] \in Writing \cup Going /\ pc[r] \in Writing
  BY <1>2, RankFacts DEF RestartInv, StagesAgree, Writing
<1>7. step[0] = step[r]
  BY <1>6, StagesApart, RankFacts DEF RestartInv, ModelsAgree
<1>8. \A k \in Missed : step[r] < k
  BY <1>6, <1>7, StagesApart DEF OutputInv, RootComplete
<1>9. FilesComplete'
  BY <1>4, <1>5, <1>8 DEF OutputInv, FilesComplete, HasModel
<1>10. pc[0] \notin Saving /\ pc'[0] # "close results"
  <2>1. pc[0] \notin Saving
    BY <1>6, StagesApart
  <2> QED BY <1>2, <2>1, RankFacts DEF Saving
<1> QED BY <1>1, <1>5, <1>9, <1>10, OutputKept DEF OutputInv

LEMMA OutputNext == TypeInv /\ RestartInv /\ TimesInv /\ OutputInv /\ [Next]_vars => OutputInv'
<1> SUFFICES ASSUME TypeInv, RestartInv, TimesInv, OutputInv, [Next]_vars PROVE OutputInv'
  OBVIOUS
<1>1. ASSUME UNCHANGED <<step, rst, outbin, settings>>, pc[0] \in Saving => pc'[0] \in Saving,
             pc'[0] = "close results" => pc[0] = "close results"
      PROVE  OutputInv'
  <2>1. Missed' \subseteq Missed
    BY <1>1, SameOutput
  <2> QED BY <1>1, <2>1, OutputKept DEF OutputInv
<1>2. ASSUME NEW r \in Rank, NEW from, NEW to, Goto(r, from, to), from \notin Saving \/ r # 0,
             to # "close results", UNCHANGED <<step, rst, outbin, settings>>
      PROVE  OutputInv'
  <2>1. pc[r] = from /\ pc'[r] = to /\ \A q \in Rank : q # r => pc'[q] = pc[q]
    BY <1>2, GotoFacts
  <2> QED BY <1>1, <1>2, <2>1, RankFacts
<1>3. ASSUME NEW r \in Rank, Fopen(r) PROVE OutputInv'
  <2>1. UNCHANGED <<step, outbin, settings>>
    BY <1>3 DEF Fopen, model, job
  <2>2. CASE Goto(r, "fopen r", "barrier r") /\ rst' = rst
    BY <1>2, <2>1, <2>2 DEF Saving
  <2>3. CASE Goto(r, "fopen wb", "barrier wb") /\ rst' = [rst EXCEPT ![r] = File("empty", 0, 0, FALSE)]
    <3>1. rst'[r].state = "empty" /\ \A q \in Rank : q # r => rst'[q] = rst[q]
      BY <2>3 DEF TypeInv, FileType, File
    <3>2. Missed' \subseteq Missed
      BY <2>1, SameOutput
    <3>3. FilesComplete'
      BY <3>1, <3>2 DEF OutputInv, FilesComplete, HasModel
    <3>4. pc[r] = "fopen wb" /\ pc'[r] = "barrier wb" /\ \A q \in Rank : q # r => pc'[q] = pc[q]
      BY <2>3, GotoFacts
    <3>5. (pc[0] \in Saving => pc'[0] \in Saving) /\ (pc'[0] = "close results" => pc[0] = "close results")
      BY <3>4, RankFacts DEF Saving
    <3> QED BY <2>1, <3>2, <3>3, <3>5, OutputKept DEF OutputInv
  <2> QED BY <1>3, <2>2, <2>3 DEF Fopen, OpenedFile
<1>4. ASSUME NEW r \in Rank, RestartWithoutFile(r) \/ RestartFails(r) PROVE OutputInv'
  <2>1. UNCHANGED <<step, rst, outbin, settings>>
    BY <1>4 DEF RestartWithoutFile, RestartFails, model, disk, job
  <2> QED BY <1>2, <1>4, <2>1 DEF RestartWithoutFile, RestartFails, Saving
<1>5. ASSUME NEW r \in Rank, Loop(r) PROVE OutputInv'
  <2>1. UNCHANGED <<step, rst, outbin, settings>>
    BY <1>5 DEF Loop, model, disk, job
  <2>2. (IF time[r] < FinalTime THEN "solve" ELSE "done") # "close results" /\ "loop" \notin Saving
    BY DEF Saving
  <2> QED BY <1>2, <1>5, <2>1, <2>2 DEF Loop
<1>6. \A task, s, t : After(task, s, t) # "close results"
  BY DEF After
<1>7. ASSUME NEW r \in Rank, SendResults(r) PROVE OutputInv'
  <2>1. UNCHANGED <<step, rst, outbin, settings>>
    BY <1>7 DEF SendResults, model, disk, job
  <2> QED BY <1>2, <1>6, <1>7, <2>1 DEF SendResults
<1>8. ASSUME NEW r \in Rank, CloseCheckPoint(r) PROVE OutputInv'
  <2>1. UNCHANGED <<step, outbin, settings>>
    BY <1>8 DEF CloseCheckPoint, model, job
  <2>2. rst' = [rst EXCEPT ![r] = File("closed", rst[r].step, rst[r].time, rst[r].whole)]
    BY <1>8 DEF CloseCheckPoint
  <2>3. /\ rst'[r].state = "closed" /\ rst'[r].step = rst[r].step /\ rst'[r].time = rst[r].time
        /\ \A q \in Rank : q # r => rst'[q] = rst[q]
    BY <2>2 DEF TypeInv, FileType, File
  <2>4. /\ pc[r] = "close checkpoint" /\ pc'[r] = After("checkpoint", step[r], time[r])
        /\ \A q \in Rank : q # r => pc'[q] = pc[q]
    BY <1>8, GotoFacts DEF CloseCheckPoint
  <2>5. HasModel(r)
    BY <2>4 DEF RestartInv, FilesMatchStages, HasModel
  <2>6. Missed' \subseteq Missed
    BY <2>1, SameOutput
  <2>7. FilesComplete'
    BY <2>3, <2>5, <2>6 DEF OutputInv, FilesComplete, HasModel
  <2>8. (pc[0] \in Saving => pc'[0] \in Saving) /\ (pc'[0] = "close results" => pc[0] = "close results")
    BY <1>6, <2>4, RankFacts DEF Saving
  <2> QED BY <2>1, <2>6, <2>7, <2>8, OutputKept DEF OutputInv
<1>9. ASSUME Barrier("fopen r", "barrier r", "restart") \/ Barrier("fopen wb", "barrier wb", "checkpoint")
      PROVE  OutputInv'
  <2>1. UNCHANGED <<step, rst, outbin, settings>>
    BY <1>9 DEF Barrier, model, disk, job
  <2>2. /\ pc[0] \in {"fopen r", "barrier r", "fopen wb", "barrier wb"}
        /\ pc'[0] = pc[0] \/ pc'[0] \in {"restart", "checkpoint"}
    BY <1>9, RankFacts DEF Barrier, InBarrier
  <2> QED BY <1>1, <2>1, <2>2 DEF Saving
<1>10. ASSUME Renumber PROVE OutputInv'
  <2>1. UNCHANGED <<step, rst, outbin, settings>>
    BY <1>10 DEF Renumber, model, disk, job
  <2>2. pc[0] = "renumber" /\ pc'[0] = "loop"
    BY <1>10, RankFacts DEF Renumber, All
  <2> QED BY <1>1, <2>1, <2>2 DEF Saving
<1>11. ASSUME Relaunch PROVE OutputInv'
  <2>1. UNCHANGED <<rst, outbin, settings>>
    BY <1>11 DEF Relaunch, disk
  <2>2. Missed' \subseteq Missed
    BY <2>1, SameOutput
  <2>3. step'[0] = 0 /\ pc'[0] # "close results"
    BY <1>11, RankFacts DEF Relaunch, FirstTask
  <2>4. RootComplete'
    BY <2>2, <2>3, MissedFacts DEF RootComplete
  <2>5. Closing'
    BY <2>3 DEF Closing
  <2> QED BY <2>1, <2>2, <2>4, <2>5, OutputKept DEF OutputInv
<1>12. ASSUME UNCHANGED vars PROVE OutputInv'
  BY <1>1, <1>12 DEF vars
<1> QED BY <1>3, <1>4, <1>5, <1>7, <1>8, <1>9, <1>10, <1>11, <1>12, OutputKeptByRestartFromFile,
           OutputKeptBySolve, OutputKeptByWriteResults, OutputKeptByCloseResults,
           OutputKeptByWriteCheckPoint
        DEF Next, RunStep, RootStep, CollectiveStep, LocalStep

\* At the end of a run the output file has every step that is due, however often the
\* run was killed: no checkpoint is ahead of the results in the file.
THEOREM ResultsAreComplete == Spec => []OutputIsComplete
<1>1. TypeInv /\ TimesInv /\ OutputInv => OutputIsComplete
  <2> SUFFICES ASSUME TypeInv, TimesInv, OutputInv, Done, NEW k \in 1..LastStep, Due(k)
               PROVE  Written(k)
    BY DEF OutputIsComplete, Written
  <2>1. pc[0] = "done" /\ step[0] = LastStep
    BY EndStep, RankFacts DEF Done, All
  <2>2. k \notin Missed
    BY <2>1, LastStepFacts, RankFacts DEF OutputInv, RootComplete, Saving
  <2> QED BY <2>2 DEF Missed
<1>2. Spec => []OutputInv
  BY OutputInit, OutputNext, TimesInvariant, RestartInvariant, PTL DEF Spec
<1> QED BY <1>1, <1>2, TimesInvariant, RestartInvariant, PTL

=============================================================================
