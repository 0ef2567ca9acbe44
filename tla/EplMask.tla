------------------------------- MODULE EplMask -------------------------------
(***************************************************************************)
(* The efficient drainage layer (EPL) under the ice: which nodes belong to *)
(* it.  Each element says what should become of its nodes: a node opens if *)
(* the sediment cannot hold its water, or if the layer is full next to it  *)
(* and it is downstream; it closes if the layer gets too thin.  The        *)
(* elements write into a distributed vector, where the last one wins.  A   *)
(* node that has flipped too often keeps its value.                        *)
(***************************************************************************)
EXTENDS Integers, Sequences, Penalties

CONSTANTS
  ElementsOf,   \* ElementsOf[r]: the elements of rank r, in their order
  VerticesOf,   \* VerticesOf[e]: the nodes of element e, in their order
  NumAnalyses,  \* the analyses that have nodes: each has one at every vertex
  EplFlipLock   \* eplflip_lock

Element == UNION {{ElementsOf[r][k] : k \in DOMAIN ElementsOf[r]} : r \in Rank}
NodesIn(e) == {VerticesOf[e][k] : k \in DOMAIN VerticesOf[e]}

ASSUME EplAssumption ==
  /\ DOMAIN ElementsOf = Rank /\ DOMAIN VerticesOf = Element
  /\ \A r \in Rank : ElementsOf[r] \in Seq(Element)
  /\ \A n \in Node : \E e \in Element : n \in NodesIn(e)
  /\ \A r \in Rank : \A k \in DOMAIN ElementsOf[r] : NodesIn(ElementsOf[r][k]) \subseteq NodesOf[r]
  /\ NumAnalyses \in Nat \ {0} /\ EplFlipLock \in Nat

\* An element is active if one of its nodes is in the mask (ElementizeEplMask).
IsActive(mask, e) == NodesIn(e) \cap mask # {}

-----------------------------------------------------------------------------
(***************************************************************************)
(* What an element writes, from the fields d at its nodes:                 *)
(*   d.thin      the nodes where the layer is too thin,                    *)
(*   d.residual  those with water that the sediment does not hold,         *)
(*   d.full      those where the head of the layer is at its maximum,      *)
(*   d.sedhead   the head of the sediment.                                 *)
(***************************************************************************)
Lowest(e, d) == {n \in NodesIn(e) : \A k \in NodesIn(e) : d.sedhead[n] <= d.sedhead[k]}

\* The places of e from which the layer grows to node n.
GrowsFrom(mask, e, d, n) ==
  {k \in DOMAIN VerticesOf[e] :
     /\ VerticesOf[e][k] \in d.full /\ VerticesOf[e][k] # n
     /\ IsActive(mask, e) /\ n \in Lowest(e, d)}

Closes(mask, e, d, n) == n \in mask /\ n \in d.thin

\* Element e gives node n a value, in the loop over its places.
Writes(mask, e, d, n) ==
  /\ n \in NodesIn(e)
  /\ n \in mask \/ n \in d.residual \/ GrowsFrom(mask, e, d, n) # {}

\* The last of these values is 0: n closes at its place, and the layer does not grow
\* to it from a later one.
LeavesOut(mask, e, d, n) ==
  \E k \in DOMAIN VerticesOf[e] :
    /\ VerticesOf[e][k] = n /\ Closes(mask, e, d, n)
    /\ \A j \in GrowsFrom(mask, e, d, n) : j < k

\* Element e marks node n in the vector of recurrences.
Recurs(mask, e, d, n) ==
  n \in NodesIn(e) /\ (Closes(mask, e, d, n) \/ (n \notin mask /\ Writes(mask, e, d, n)))

Recurrence(mask, d) == {n \in Node : \E e \in Element : Recurs(mask, e, d, n)}

-----------------------------------------------------------------------------
(***************************************************************************)
(* The counters, one for each rank and node, and the new mask.             *)
(***************************************************************************)
Copies == {p \in Rank \X Node : p[2] \in NodesOf[p[1]]}

InitZigZagCounter == [p \in Copies |-> 0]

\* (mutant) the counters of clones are left out
Counted_Masters(counter, recurrence) ==
  [p \in Copies |-> IF p[2] \in recurrence /\ ~IsClone(p) THEN counter[p] + NumAnalyses
                    ELSE counter[p]]

\* The loop is over the nodes of all the analyses, and their counters are indexed by
\* the place of a node in its own analysis: the counter of a node moves once for each.
Counted(counter, recurrence) ==
  [p \in Copies |-> IF p[2] \in recurrence THEN counter[p] + NumAnalyses ELSE counter[p]]

IsLocked(counter, p) == EplFlipLock # 0 /\ counter[p] > EplFlipLock

\* The places, in the list of rank r, of its elements that write node n.
Writers(writes, r, n) == {k \in DOMAIN ElementsOf[r] : <<ElementsOf[r][k], n>> \in writes}

\* The ranks that write node n: the lock is written after the elements.
WritingRanks(locked, writes, n) ==
  {r \in Rank : n \in NodesOf[r] /\ (<<r, n>> \in locked \/ Writers(writes, r, n) # {})}

IsLast(x, S) == x \in S /\ \A y \in S : y <= x

\* The values of the highest rank stay, and among them the last: the old value where the
\* node is locked, else that of an element.  A node that nobody writes has 0.
AssembledMask(counter, mask, d) ==
  LET writes == {w \in Element \X Node : Writes(mask, w[1], d, w[2])}
      closes == {w \in writes : LeavesOut(mask, w[1], d, w[2])}
      locked == {p \in Copies : IsLocked(counter, p)}
  IN  {n \in Node : \E r \in Rank :
         /\ IsLast(r, WritingRanks(locked, writes, n))
         /\ IF <<r, n>> \in locked THEN n \in mask
            ELSE \E k \in DOMAIN ElementsOf[r] :
                   /\ IsLast(k, Writers(writes, r, n))
                   /\ <<ElementsOf[r][k], n>> \notin closes}

\* All the nodes of the active elements (HydrologyEPLGetActive).
ActiveNodes(mask) == UNION {NodesIn(e) : e \in {x \in Element : IsActive(mask, x)}}

=============================================================================
