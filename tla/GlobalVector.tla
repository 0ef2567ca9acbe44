---------------------------- MODULE GlobalVector ----------------------------
(***************************************************************************)
(* What the rest of the program relies on when it uses a distributed       *)
(* vector (toolkits/objects/Vector.h): there is one vector; any rank may   *)
(* give a value for any row; the values count when all the ranks have      *)
(* called Assemble, those of the lower ranks first and those of one rank   *)
(* in the order in which it gave them; and ToMPISerial, which all the      *)
(* ranks call, hands each of them the whole vector.                        *)
(*                                                                         *)
(* A call that all the ranks make takes effect in one step.  A rank comes  *)
(* back from Assemble some time later, and may then go on while others     *)
(* are still in the call.                                                  *)
(***************************************************************************)
EXTENDS Integers, SequencesExt

CONSTANTS
  NumProcs,   \* size of the communicator
  M,          \* size of the vector
  Values      \* Values[r]: the values that rank r gives

Rank == 0..(NumProcs - 1)
InsMode == {"ADD_VAL", "INS_VAL"}
GivenBy(r) == [mode : InsMode, value : Values[r]]
Contribution == UNION {GivenBy(r) : r \in Rank}

VARIABLES
  value,      \* by row
  pending,    \* by rank and row: what the rank has given since the last Assemble
  status,     \* by rank: it fills the vector, waits in a call, or is in Assemble
  copy        \* by rank: what ToMPISerial has returned last

vars == <<value, pending, status, copy>>
Row == 0..(M - 1)
Nothing == [x \in Row |-> <<>>]

\* ADD_VAL adds to the row, INS_VAL replaces it.
Applied(v, c) == IF c.mode = "ADD_VAL" THEN v + c.value ELSE c.value

\* The value v of a row after the contributions of all the ranks: s[i] are those of
\* rank i.
AppliedInRankOrder(v, s) ==
  LET after[i \in 0..NumProcs] == IF i = 0 THEN v ELSE FoldLeft(Applied, after[i-1], s[i-1])
  IN  after[NumProcs]

Init ==
  /\ value = [x \in Row |-> 0]
  /\ pending = [r \in Rank |-> Nothing]
  /\ status = [r \in Rank |-> "fill"]
  /\ copy = [r \in Rank |-> [x \in Row |-> 0]]

SetValue(r) ==
  /\ status[r] = "fill"
  /\ \E x \in Row, c \in GivenBy(r) : pending' = [pending EXCEPT ![r][x] = Append(@, c)]
  /\ UNCHANGED <<value, status, copy>>

Call(r) ==
  /\ status[r] = "fill"
  /\ status' \in {[status EXCEPT ![r] = call] : call \in {"Assemble", "ToMPISerial"}}
  /\ UNCHANGED <<value, pending, copy>>

Assemble ==
  /\ \A r \in Rank : status[r] = "Assemble"
  /\ value' = [x \in Row |-> AppliedInRankOrder(value[x], [r \in Rank |-> pending[r][x]])]
  /\ pending' = [r \in Rank |-> Nothing]
  /\ status' = [r \in Rank |-> "assembled"]
  /\ UNCHANGED copy

Return(r) ==
  /\ status[r] = "assembled"
  /\ status' = [status EXCEPT ![r] = "fill"]
  /\ UNCHANGED <<value, pending, copy>>

ToMPISerial ==
  /\ \A r \in Rank : status[r] = "ToMPISerial"
  /\ copy' = [r \in Rank |-> value]
  /\ status' = [r \in Rank |-> "fill"]
  /\ UNCHANGED <<value, pending>>

Next == Assemble \/ ToMPISerial \/ \E r \in Rank : SetValue(r) \/ Call(r) \/ Return(r)

Spec == Init /\ [][Next]_vars

\* A call that all the ranks have made takes effect, and every rank comes back.
FairSpec == Spec /\ WF_vars(Assemble) /\ WF_vars(ToMPISerial) /\ \A r \in Rank : WF_vars(Return(r))
=============================================================================
