------------------------------- MODULE MpiVec -------------------------------
(***************************************************************************)
(* The distributed vector of the program's own toolkit.                    *)
(*                                                                         *)
(* Each rank owns a block of rows.  What it gives for a row is kept in     *)
(* buckets until Assemble, which sorts the buckets by the owner of their   *)
(* row and ships them: one rank after the other is the root of a scatter,  *)
(* first of the numbers of values, so that the others can allocate, and    *)
(* then of the values.  The owner puts them in its block, and the buckets  *)
(* are dropped.                                                            *)
(*                                                                         *)
(* The root of a scatter sends and goes on; the other ranks wait for what  *)
(* it sends to them.  A rank has one queue for each root, since MPI        *)
(* matches the scatters of one root in the order of the calls.  All the    *)
(* other collectives need every rank, and are one step of all of them.     *)
(*                                                                         *)
(* Buckets are kept by row: only the order of those of the same row        *)
(* matters.  A bucket of several rows (SetValues) is as many of one row,   *)
(* and the three scatters of rows, values and modes are one, since no rank *)
(* does anything between them.                                             *)
(***************************************************************************)
EXTENDS Reductions, Integers, FiniteSets, SequencesExt

CONSTANTS
  NumProcs,          \* size of the communicator
  m,                 \* m[r]: the local size of rank r
  Values,            \* Values[r]: the values that rank r gives
  Program,           \* the calls that every rank makes, again and again
  MaxContributions   \* (bound) how many values are given in all

Rank == 0..(NumProcs - 1)
InsMode == {"ADD_VAL", "INS_VAL"}
GivenBy(r) == [mode : InsMode, value : Values[r]]
Contribution == UNION {GivenBy(r) : r \in Rank}

ASSUME LayoutAssumption ==
  /\ NumProcs \in Nat \ {0}
  /\ m \in [Rank -> Nat]
  /\ Values \in [Rank -> SUBSET Int]
  /\ Program \in Seq({"Assemble", "ToMPISerial"}) /\ Program # <<>>
  /\ MaxContributions \in Nat

VARIABLES
  pc,            \* pc[r]: what rank r does next, or the collective it waits in
  calls,         \* calls[r]: its calls so far, modulo the length of the program
  vector,        \* vector[r]: its block
  buckets,       \* buckets[r][x]: what r gave for row x since the last Assemble
  root,          \* root[r]: the root of the scatter that r is in
  numvalues,     \* numvalues[r][i]: how many values rank i has announced to r
  fromcpu,       \* fromcpu[r][i]: what r has got from rank i, by row
  queue,         \* queue[r][i]: what rank i has sent and r has not taken
  serial,        \* serial[r]: the serial copy of rank r
  given          \* (bound) number of values given

transfer == <<root, numvalues, fromcpu, queue>>
vars == <<pc, calls, vector, buckets, root, numvalues, fromcpu, queue, serial, given>>

\* DetermineLocalSize: the rows of rank r in a vector that is made from its size.
DetermineLocalSize(size, r) == size \div NumProcs + (IF r < size % NumProcs THEN 1 ELSE 0)

\* DetermineGlobalSize: the size of a vector that is made from local sizes.
M == RunningSum(m, NumProcs)
Row == 0..(M - 1)

LowerRow == [r \in Rank |-> RunningSum(m, r)]
UpperRow == [r \in Rank |-> LowerRow[r] + m[r]]

RowRank == [x \in Row |-> CHOOSE r \in Rank : LowerRow[r] <= x /\ x < UpperRow[r]]

RowsOf == [r \in Rank |-> LowerRow[r]..(UpperRow[r] - 1)]

Goto(r, from, to) == pc[r] = from /\ pc' = [pc EXCEPT ![r] = to]
Collective(wait, to) == (\A r \in Rank : pc[r] = wait) /\ pc' = [r \in Rank |-> to]

Applied(v, c) == IF c.mode = "ADD_VAL" THEN v + c.value ELSE c.value

\* The value v of a row after the buckets of all the ranks: s[i] are those of rank i.
AppliedInRankOrder(v, s) ==
  LET after[i \in 0..NumProcs] == IF i = 0 THEN v ELSE FoldLeft(Applied, after[i-1], s[i-1])
  IN  after[NumProcs]

-----------------------------------------------------------------------------
SetValue(r) ==
  /\ Goto(r, "fill", "fill")
  /\ given < MaxContributions
  /\ given' = given + 1
  /\ \E x \in Row, c \in GivenBy(r) : buckets' = [buckets EXCEPT ![r][x] = Append(@, c)]
  /\ UNCHANGED <<calls, vector, transfer, serial>>

\* (mutant) a rank with no buckets has nothing to assemble
Called_IfNotEmpty(r) ==
  IF Program[calls[r] + 1] = "Assemble" /\ \A x \in Row : buckets[r][x] = <<>>
  THEN "fill" ELSE Program[calls[r] + 1]

\* All the ranks run the same program.
Called(r) == Program[calls[r] + 1]

Call(r) ==
  /\ Goto(r, "fill", Called(r))
  /\ calls' = [calls EXCEPT ![r] = (@ + 1) % Len(Program)]
  /\ UNCHANGED <<given, vector, buckets, transfer, serial>>

-----------------------------------------------------------------------------
(***************************************************************************)
(* Assemble.                                                               *)
(***************************************************************************)
DetermineRowRank ==
  /\ Collective("Assemble", "counts")
  /\ root' = [r \in Rank |-> 0]
  /\ UNCHANGED <<calls, given, vector, buckets, numvalues, fromcpu, queue, serial>>

\* (mutant) the buckets are not sorted by the owner of their row
BucketsForCpu_Unsorted(r, q) == buckets[r]

\* The buckets of rank r whose row belongs to rank q.
BucketsForCpu(r, q) == [x \in RowsOf[q] |-> buckets[r][x]]

\* How many values these buckets f for rank q hold.
MarshallSize(f, q) == RunningSum([j \in 0..(m[q] - 1) |-> Len(f[LowerRow[q] + j])], m[q])

Message(call, r, q) ==
  [call |-> call, size |-> MarshallSize(BucketsForCpu(r, q), q), buckets |-> BucketsForCpu(r, q)]

\* What rank r, the root, sends goes to the queues of the others.
Sent(call, r) ==
  [q \in Rank |-> IF q = r THEN queue[q] ELSE [queue[q] EXCEPT ![r] = Append(@, Message(call, r, q))]]

\* After the last root comes the next task.
NextRoot(r, here, next) ==
  /\ pc[r] = here
  /\ root' = [root EXCEPT ![r] = (@ + 1) % NumProcs]
  /\ pc' = [pc EXCEPT ![r] = IF root[r] = NumProcs - 1 THEN next ELSE here]

ScatterCounts(r) ==
  /\ NextRoot(r, "counts", "values")
  /\ IF root[r] = r
     THEN /\ queue' = Sent("Scatter", r)
          /\ numvalues' = [numvalues EXCEPT ![r][r] = Message("Scatter", r, r).size]
     ELSE /\ queue[r][root[r]] # <<>>
          /\ queue' = [queue EXCEPT ![r][root[r]] = Tail(@)]
          /\ numvalues' = [numvalues EXCEPT ![r][root[r]] = Head(queue[r][root[r]]).size]
  /\ UNCHANGED <<calls, given, vector, buckets, fromcpu, serial>>

\* A rank takes part in the scatter also if it expects nothing from the root.
Expects(r) == TRUE

ScatterValues(r) ==
  /\ NextRoot(r, "values", "bounds")
  /\ IF root[r] = r
     THEN /\ queue' = Sent("Scatterv", r)
          /\ fromcpu' = [fromcpu EXCEPT ![r][r] = BucketsForCpu(r, r)]
     ELSE IF Expects(r)
     THEN /\ queue[r][root[r]] # <<>>
          /\ queue' = [queue EXCEPT ![r][root[r]] = Tail(@)]
          /\ fromcpu' = [fromcpu EXCEPT ![r][root[r]] = Head(queue[r][root[r]]).buckets]
     ELSE UNCHANGED <<queue, fromcpu>>
  /\ UNCHANGED <<calls, given, vector, buckets, numvalues, serial>>

GetOwnershipBoundaries ==
  /\ Collective("bounds", "plug")
  /\ UNCHANGED <<calls, given, vector, buckets, transfer, serial>>

\* (mutant) what the rank has itself is applied first
Plugged_OwnFirst(r, x) ==
  AppliedInRankOrder(FoldLeft(Applied, vector[r][x - LowerRow[r]], fromcpu[r][r][x]),
                     [i \in Rank |-> IF i = r THEN <<>> ELSE fromcpu[r][i][x]])

\* Row x of rank r after the values of all the ranks, in rank order.
Plugged(r, x) ==
  AppliedInRankOrder(vector[r][x - LowerRow[r]], [i \in Rank |-> fromcpu[r][i][x]])

Plug(r) ==
  /\ Goto(r, "plug", "fill")
  /\ vector' = [vector EXCEPT ![r] = [j \in 0..(m[r] - 1) |-> Plugged(r, LowerRow[r] + j)]]
  /\ buckets' = [buckets EXCEPT ![r] = [x \in Row |-> <<>>]]
  /\ numvalues' = [numvalues EXCEPT ![r] = [i \in Rank |-> 0]]
  /\ fromcpu' = [fromcpu EXCEPT ![r] = [i \in Rank |-> [x \in RowsOf[r] |-> <<>>]]]
  /\ UNCHANGED <<calls, given, root, queue, serial>>

-----------------------------------------------------------------------------
\* The blocks are gathered, that of rank q from row LowerRow[q] on.
ToMPISerial ==
  /\ Collective("ToMPISerial", "fill")
  /\ serial' = [r \in Rank |-> [x \in Row |-> vector[RowRank[x]][x - LowerRow[RowRank[x]]]]]
  /\ UNCHANGED <<calls, given, vector, buckets, transfer>>

Init ==
  /\ pc = [r \in Rank |-> "fill"]
  /\ calls = [r \in Rank |-> 0]
  /\ vector = [r \in Rank |-> [j \in 0..(m[r] - 1) |-> 0]]
  /\ buckets = [r \in Rank |-> [x \in Row |-> <<>>]]
  /\ root = [r \in Rank |-> 0]
  /\ numvalues = [r \in Rank |-> [i \in Rank |-> 0]]
  /\ fromcpu = [r \in Rank |-> [i \in Rank |-> [x \in RowsOf[r] |-> <<>>]]]
  /\ queue = [r \in Rank |-> [i \in Rank |-> <<>>]]
  /\ serial = [r \in Rank |-> [x \in Row |-> 0]]
  /\ given = 0

CollectiveStep == DetermineRowRank \/ GetOwnershipBoundaries \/ ToMPISerial

LocalStep(r) == Call(r) \/ ScatterCounts(r) \/ ScatterValues(r) \/ Plug(r)

Next == CollectiveStep \/ \E r \in Rank : LocalStep(r) \/ SetValue(r)

Spec == Init /\ [][Next]_vars

\* No rank stops between two collectives, and MPI completes a collective that all the
\* ranks have entered.  How long a rank goes on to give values is not limited.
FairSpec == Spec /\ WF_vars(CollectiveStep) /\ \A r \in Rank : WF_vars(LocalStep(r))

-----------------------------------------------------------------------------
(***************************************************************************)
(* Properties.                                                             *)
(***************************************************************************)
PC == {"fill", "Assemble", "ToMPISerial", "counts", "values", "bounds", "plug"}

\* Every variable has its type.
TypeOK ==
  /\ pc \in [Rank -> PC]
  /\ calls \in [Rank -> 0..(Len(Program) - 1)]
  /\ DOMAIN vector = Rank /\ \A r \in Rank : vector[r] \in [0..(m[r] - 1) -> Int]
  /\ buckets \in [Rank -> [Row -> Seq(Contribution)]]
  /\ root \in [Rank -> Rank]
  /\ numvalues \in [Rank -> [Rank -> Nat]]
  /\ DOMAIN fromcpu = Rank
  /\ \A r \in Rank : fromcpu[r] \in [Rank -> [RowsOf[r] -> Seq(Contribution)]]
  /\ DOMAIN queue = Rank
  /\ \A r \in Rank : queue[r] \in [Rank -> Seq([call : {"Scatter", "Scatterv"}, size : Nat,
                                                buckets : [RowsOf[r] -> Seq(Contribution)]])]
  /\ serial \in [Rank -> [Row -> Int]]
  /\ given \in 0..MaxContributions

Waiting(r) == pc[r] \in {"Assemble", "bounds", "ToMPISerial"}

\* Ranks that wait in a collective wait in the same one, and no rank is still in a
\* scatter of another Assemble than theirs.
SameCollective ==
  \A r1, r2 \in Rank : Waiting(r1) =>
    /\ Waiting(r2) => pc[r1] = pc[r2]
    /\ pc[r1] # "bounds" => pc[r2] \notin {"counts", "values"}

ValuesIn(f) == {p \in (DOMAIN f) \X (1..MaxContributions) : p[2] \in DOMAIN f[p[1]]}

\* What a rank takes is what it has called for, of the size that it has allocated.
MessagesMatch ==
  \A r \in Rank : \A i \in Rank : root[r] = i /\ queue[r][i] # <<>> =>
    /\ pc[r] = "counts" => Head(queue[r][i]).call = "Scatter"
    /\ pc[r] = "values" => /\ Head(queue[r][i]).call = "Scatterv"
                           /\ Cardinality(ValuesIn(Head(queue[r][i]).buckets)) = numvalues[r][i]

\* Nothing is left in the queues of a rank that is not in a scatter.
QueuesAreDrained ==
  \A r \in Rank : pc[r] \in {"fill", "bounds", "plug", "ToMPISerial"} =>
    \A i \in Rank : queue[r][i] = <<>>

\* The ranks call the same collectives in the same order, with the same sizes, and
\* leave none half done: the rules of MPI that nothing in the code checks.
CallsAgree == SameCollective /\ MessagesMatch /\ QueuesAreDrained

-----------------------------------------------------------------------------
(***************************************************************************)
(* The vector as a whole.  The values that are given count from the step   *)
(* in which all the ranks have entered Assemble.                           *)
(***************************************************************************)
Shipping(r) == pc[r] \in {"counts", "values", "bounds", "plug"}

\* What comes from rank i to rank r: taken, on its way, or not yet sent.
Taken(r, i) == pc[r] \in {"bounds", "plug"} \/ (pc[r] = "values" /\ root[r] > i)
OnItsWay(r, i) == {k \in DOMAIN queue[r][i] : queue[r][i][k].call = "Scatterv"}
Incoming(r, i) ==
  IF Taken(r, i) THEN fromcpu[r][i]
  ELSE IF OnItsWay(r, i) # {} THEN queue[r][i][MinOf(OnItsWay(r, i))].buckets
  ELSE BucketsForCpu(i, r)

WholeRow(x) ==
  LET q == RowRank[x]
      block == vector[q][x - LowerRow[q]]
  IN  IF Shipping(q) THEN AppliedInRankOrder(block, [i \in Rank |-> Incoming(q, i)[x]]) ELSE block

Whole == INSTANCE GlobalVector WITH
  value <- [x \in Row |-> WholeRow(x)],
  pending <- [r \in Rank |-> IF Shipping(r) THEN [x \in Row |-> <<>>] ELSE buckets[r]],
  status <- [r \in Rank |-> IF Shipping(r) THEN "assembled" ELSE pc[r]],
  copy <- serial

\* The blocks, buckets and scatters of the ranks behave as one vector whose rows take
\* the values of all the ranks at once, in rank order, and every Assemble ends.
IsOneVector == Whole!FairSpec
=============================================================================
