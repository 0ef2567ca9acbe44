----------------------------- MODULE Reductions -----------------------------
(***************************************************************************)
(* What the processors compute from a table with one entry each.           *)
(*                                                                         *)
(* The maximum and the minimum of the entries are reductions of MPI.  The  *)
(* running sum is a loop that appears again and again: a processor adds up *)
(* the dofs of its own nodes in list order, and then shifts them by the    *)
(* total of the processors of lower rank (Nodes::DistributeDofs); the rows *)
(* of a distributed vector begin where those of the lower ranks end; and a *)
(* sum over all processors is the last running sum.                        *)
(***************************************************************************)
EXTENDS Integers

\* w[0] + ... + w[n-1]: what a loop that starts at 0 holds when it reaches n.
RunningSum(w, n) ==
  LET sum[i \in 0..n] == IF i = 0 THEN 0 ELSE sum[i-1] + w[i-1]
  IN  sum[n]

MaxOf(S) == CHOOSE m \in S : \A x \in S : x <= m
MinOf(S) == CHOOSE m \in S : \A x \in S : m <= x

=============================================================================
