-------------------------- MODULE SlrCoupling_proofs --------------------------
(***************************************************************************)
(* Proofs about the coupling of the models, for any number of ice caps, of *)
(* vertices and of steps, and however often the job is killed.             *)
(***************************************************************************)
EXTENDS SlrCoupling, Reductions, Integers, FiniteSetTheorems, SequenceTheorems,
        TLAPS

(***************************************************************************)
(* A nonempty finite set of integers has a largest element: MaxOf finds it. *)
(***************************************************************************)
LEMMA MaxOfFinite ==
  ASSUME NEW S \in SUBSET Int, IsFiniteSet(S), S # {}
  PROVE  MaxOf(S) \in S /\ \A x \in S : x <= MaxOf(S)
<1> DEFINE Above(x) == {y \in S : x < y}
<1> DEFINE T == {Above(x) : x \in S}
<1>1. IsWellFoundedOn(StrictSubsetOrdering(Int), FiniteSubsetsOf(Int))
  BY FS_StrictSubsetOrderingWellFounded
<1>2. T \subseteq FiniteSubsetsOf(Int)
  <2>1. ASSUME NEW x \in S
        PROVE  IsFiniteSet(Above(x)) /\ Above(x) \subseteq Int
    BY FS_Subset, Above(x) \subseteq S
  <2> QED BY <2>1 DEF FiniteSubsetsOf
<1>3. T # {}
  OBVIOUS
<1>4. PICK b \in T : \A c \in T : <<c, b>> \notin StrictSubsetOrdering(Int)
  <2> HIDE DEF T
  <2> QED BY <1>1, <1>2, <1>3, WFMin
<1>5. PICK m \in S : b = Above(m)
  OBVIOUS
<1>6. ASSUME NEW y \in S, m < y
      PROVE  FALSE
  <2>1. Above(y) \subseteq Above(m) /\ Above(y) # Above(m)
    <3>1. \A z \in Above(y) : z \in Int /\ y < z /\ z \in S
      OBVIOUS
    <3>2. \A z \in Above(y) : m < z
      BY <3>1, <1>6
    <3>3. y \in Above(m) /\ y \notin Above(y)
      BY <1>6
    <3> QED BY <3>1, <3>2, <3>3
  <2>2. <<Above(y), Above(m)>> \in StrictSubsetOrdering(Int)
    BY <2>1 DEF StrictSubsetOrdering
  <2> QED BY <2>2, <1>4, <1>5
<1>7. m \in S /\ \A x \in S : x <= m
  BY <1>6
<1> QED BY <1>7 DEF MaxOf

-----------------------------------------------------------------------------
(***************************************************************************)
(* The inductive invariant.  It says, for each ice cap and the earth, what *)
(* is on its way between them: a function of where the two are.            *)
(***************************************************************************)
S(i) == Size(NumVertices[i])
V(i) == Vector(Thickness(i, step[i]))
Levels(i, s) == [j \in 1..NumVertices[i] |-> Value(Earth, Transitions[i][j], s)]
L(i, s) == Vector(Levels(i, s))

Idle == {"restart", "loop", "record", "done"}

\* Where the earth is in its exchange with ice cap i.
EarthIdle(i) == pc[Earth] \in Idle \/ (pc[Earth] \in {"sealevel nv", "sealevel values"} /\ i < peer)
AwaitsSize(i) == \/ pc[Earth] = "forcing nv" /\ i >= peer
                 \/ pc[Earth] = "forcing values" /\ i > peer
AwaitsValues(i) == pc[Earth] = "forcing values" /\ i = peer
HasForcing(i) == \/ pc[Earth] \in {"forcing nv", "forcing values"} /\ i < peer
                 \/ pc[Earth] \in {"consolidate", "solve"}
                 \/ pc[Earth] = "sealevel nv" /\ i >= peer
                 \/ pc[Earth] = "sealevel values" /\ i > peer
HasSentSize(i) == pc[Earth] = "sealevel values" /\ i = peer

\* The ice cap has sent so much of its forcing, and waits for nothing.
Sending(i) ==
  /\ down[i] = <<>>
  /\ \/ pc[i] = "forcing nv" /\ up[i] = <<>>
     \/ pc[i] = "forcing values" /\ up[i] = <<S(i)>>
     \/ pc[i] = "sealevel nv" /\ up[i] = <<S(i), V(i)>>

\* The answer to the forcing is on its way to the ice cap, or there.
Answered(i) ==
  /\ up[i] = <<>>
  /\ \/ pc[i] \in Idle /\ down[i] = <<>>
     \/ pc[i] = "sealevel nv" /\ down[i] = <<S(i), L(i, step[i])>>
     \/ pc[i] = "sealevel values" /\ down[i] = <<L(i, step[i])>> /\ nv[i] = NumVertices[i]

Exchange(i) ==
  \/ /\ EarthIdle(i)
     /\ \/ step[i] = step[Earth] /\ Answered(i)
        \/ step[i] = step[Earth] + 1 /\ Sending(i)
  \/ /\ AwaitsSize(i)
     /\ \/ step[i] = step[Earth] - 1 /\ Answered(i)
        \/ step[i] = step[Earth] /\ Sending(i)
  \/ /\ AwaitsValues(i)
     /\ step[i] = step[Earth] /\ down[i] = <<>> /\ nvs[i] = NumVertices[i]
     /\ \/ pc[i] = "forcing values" /\ up[i] = <<>>
        \/ pc[i] = "sealevel nv" /\ up[i] = <<V(i)>>
  \/ /\ HasForcing(i)
     /\ step[i] = step[Earth] /\ pc[i] = "sealevel nv"
     /\ up[i] = <<>> /\ down[i] = <<>> /\ forcings[i] = Thickness(i, step[Earth])
  \/ /\ HasSentSize(i)
     /\ step[i] = step[Earth] /\ up[i] = <<>>
     /\ \/ pc[i] = "sealevel nv" /\ down[i] = <<S(i)>>
        \/ pc[i] = "sealevel values" /\ down[i] = <<>> /\ nv[i] = NumVertices[i]

\* A model that was restarted from a file exchanges nothing.
Restarted == {"loop", "forcing nv", "done", "failed"}

NoExchange(i) ==
  /\ down[i] = <<>>
  /\ ~hasComm[i] => pc[i] \in Restarted /\ up[i] = <<>>
  /\ ~hasComm[Earth] => /\ pc[Earth] \in Restarted
                        /\ hasComm[i] => (pc[i] \in Idle /\ up[i] = <<>>) \/ Sending(i)
  /\ ~hasComm[i] /\ hasComm[Earth] => EarthIdle(i) \/ AwaitsSize(i)

ExchangeOf(i) == IF hasComm[i] /\ hasComm[Earth] THEN Exchange(i) ELSE NoExchange(i)

ExchangeInv == \A i \in Icecap : ExchangeOf(i)

\* What the models know, by where they are.
ThicknessInv ==
  \A i \in Icecap : pc[i] \in {"forcing nv", "forcing values"} =>
    deltathickness[i] = Thickness(i, step[i])

ConsolidatedInv ==
  pc[Earth] = "solve" =>
    deltathickness[Earth] = [v \in 1..NumVertices[Earth] |-> Plugged(v)]

SealevelInv ==
  /\ pc[Earth] \in {"sealevel nv", "sealevel values"} =>
       \A v \in 1..NumVertices[Earth] : sealevel[Earth][v] = Value(Earth, v, step[Earth])
  /\ \A i \in Icecap : pc[i] = "record" => sealevel[i] = Levels(i, step[i])

\* A restart comes first, and a model that has lost its communicator does not go far.
RestartInv ==
  \A m \in Model :
    /\ pc[m] = "restart" => step[m] = 0 /\ hasComm[m]
    /\ pc[m] \notin {"restart", "loop", "done"} => step[m] # 0
    /\ ~hasComm[m] => pc[m] \in Restarted

\* The earth sends the sea level from the first ice cap on.
PeerInv == pc[Earth] \in {"consolidate", "solve"} => peer = 0

DataInv == ThicknessInv /\ ConsolidatedInv /\ SealevelInv /\ RestartInv /\ PeerInv

IInv == TypeOK /\ ExchangeInv /\ DataInv

-----------------------------------------------------------------------------
(***************************************************************************)
(* Constants, and the values that are sent.                                *)
(***************************************************************************)
LEMMA Models ==
  /\ Earth \in Model /\ Earth \notin Icecap /\ Icecap \subseteq Model
  /\ Icecap \subseteq Nat /\ 0 \in Icecap
  /\ \A m \in Model : m \in Icecap \/ m = Earth
BY CouplingAssumption DEF Earth, Icecap, Model

LEMMA ValueType ==
  ASSUME NEW m \in Model, NEW j \in Nat, NEW s \in Nat
  PROVE  Value(m, j, s) \in Values
BY DEF Value, Values

LEMMA VerticesType == \A m \in Model : NumVertices[m] \in Nat \ {0}
BY CouplingAssumption

LEMMA TransitionsType ==
  ASSUME NEW i \in Icecap
  PROVE  /\ Transitions[i] \in Seq(1..NumVertices[Earth])
         /\ Len(Transitions[i]) = NumVertices[i]
         /\ \A j \in 1..NumVertices[i] : Transitions[i][j] \in 1..NumVertices[Earth]
BY CouplingAssumption, Models, VerticesType

LEMMA BlankType == \A m \in Model : Blank(m) \in Field(m)
<1>1. Zero \in Values
  BY ValueType, Models DEF Zero
<1> QED BY <1>1 DEF Blank, Field

LEMMA ThicknessType ==
  ASSUME NEW m \in Model, NEW s \in Nat
  PROVE  Thickness(m, s) \in Field(m)
<1>1. \A j \in 1..NumVertices[m] : Value(m, j, s) \in Values
  BY ValueType, VerticesType
<1> QED BY <1>1 DEF Thickness, Field

LEMMA LevelsType ==
  ASSUME NEW i \in Icecap, NEW s \in Nat
  PROVE  Levels(i, s) \in Field(i)
<1>1. \A j \in 1..NumVertices[i] : Transitions[i][j] \in Nat
  BY TransitionsType, VerticesType, Models
<1>2. \A j \in 1..NumVertices[i] : Value(Earth, Transitions[i][j], s) \in Values
  BY <1>1, ValueType, Models
<1> QED BY <1>2 DEF Levels, Field

\* A field of a model, as the vector of a message.
LEMMA VectorType ==
  ASSUME NEW m \in Model, NEW f \in Field(m)
  PROVE  /\ f \in Seq(Values) /\ Len(f) = NumVertices[m]
         /\ Vector(f) \in Vectors /\ Vector(f) \in Messages
         /\ Vector(f).kind = "values" /\ Vector(f).nv = NumVertices[m] /\ Vector(f).values = f
<1>1. NumVertices[m] \in Nat
  BY VerticesType
<1>2. f \in [1..NumVertices[m] -> Values]
  BY DEF Field
<1>3. f \in Seq(Values) /\ Len(f) = NumVertices[m]
  BY <1>1, <1>2
<1> QED BY <1>1, <1>3 DEF Vector, Vectors, Messages

LEMMA SizeType ==
  ASSUME NEW n \in Nat
  PROVE  Size(n) \in Messages /\ Size(n).kind = "nv" /\ Size(n).nv = n /\ Size(n).values = <<>>
BY DEF Size, Messages

LEMMA MessageFields ==
  ASSUME NEW x \in Messages
  PROVE  x.nv \in Nat /\ x.values \in Seq(Values)
<1>1. CASE x \in Vectors
  BY <1>1 DEF Vectors
<1>2. CASE x \in [kind : {"nv"}, nv : Nat, values : {<<>>}]
  <2>1. x.nv \in Nat /\ x.values = <<>>
    BY <1>2
  <2> QED BY <2>1
<1> QED BY <1>1, <1>2 DEF Messages

\* What remains of a queue, and what is at its head.
LEMMA QueueType ==
  ASSUME NEW q \in Seq(Messages), q # <<>>
  PROVE  Head(q) \in Messages /\ Tail(q) \in Seq(Messages)
OBVIOUS

LEMMA AppendType ==
  ASSUME NEW q \in Seq(Messages), NEW x \in Messages
  PROVE  Append(q, x) \in Seq(Messages)
OBVIOUS

\* The last of the ice caps that cover a vertex, and of the places in it, exist.
LEMMA LastExists ==
  ASSUME NEW S1 \in SUBSET Int, IsFiniteSet(S1), S1 # {}
  PROVE  \E x \in S1 : IsLast(x, S1)
BY MaxOfFinite DEF IsLast

LEMMA PluggedValue ==
  ASSUME NEW v \in 1..NumVertices[Earth], NEW s \in Nat,
         \A i \in Icecap : forcings[i] = Thickness(i, s)
  PROVE  IF Covering(v) = {} THEN Plugged(v) = Zero
         ELSE \E i \in Covering(v) : \E j \in Places(v, i) :
                /\ IsLast(i, Covering(v)) /\ IsLast(j, Places(v, i))
                /\ Plugged(v) = Value(i, j, s)
<1>1. CASE Covering(v) = {}
  BY <1>1 DEF Plugged
<1>2. CASE Covering(v) # {}
  <2> DEFINE i == CHOOSE x \in Covering(v) : IsLast(x, Covering(v))
             j == CHOOSE x \in Places(v, i) : IsLast(x, Places(v, i))
  <2>1. i \in Covering(v) /\ IsLast(i, Covering(v))
    <3>1. Covering(v) \subseteq 0..(NumIcecaps - 1)
      BY DEF Covering, Icecap
    <3>2. IsFiniteSet(0..(NumIcecaps - 1))
      BY FS_Interval, CouplingAssumption
    <3>3. IsFiniteSet(Covering(v)) /\ Covering(v) \in SUBSET Int
      <4>1. Covering(v) \in SUBSET (0..(NumIcecaps - 1))
        BY <3>1
      <4>2. IsFiniteSet(Covering(v))
        BY <4>1, <3>2, FS_Subset
      <4>3. \A x \in 0..(NumIcecaps - 1) : x \in Int
        OBVIOUS
      <4> QED BY <4>1, <4>2, <4>3
    <3> QED BY <3>3, <1>2, LastExists
  <2>2. i \in Icecap /\ Places(v, i) # {}
    BY <2>1 DEF Covering
  <2>3. j \in Places(v, i) /\ IsLast(j, Places(v, i))
    <3> HIDE DEF i
    <3>1. Len(Transitions[i]) \in Nat
      BY <2>2, TransitionsType, VerticesType, Models
    <3>2. Places(v, i) \subseteq 1..Len(Transitions[i])
      BY DEF Places
    <3>3. IsFiniteSet(Places(v, i)) /\ Places(v, i) \in SUBSET Int
      <4>1. IsFiniteSet(1..Len(Transitions[i]))
        BY <3>1, FS_Interval
      <4>2. IsFiniteSet(Places(v, i))
        BY <4>1, <3>2, FS_Subset
      <4>3. \A x \in 1..Len(Transitions[i]) : x \in Int
        BY <3>1
      <4> QED BY <3>2, <4>2, <4>3
    <3> QED BY <3>3, <2>2, LastExists
  <2>4. Plugged(v) = forcings[i][j]
    BY <1>2 DEF Plugged
  <2> HIDE DEF i, j
  <2>5. j \in 1..NumVertices[i]
    BY <2>2, <2>3, TransitionsType DEF Places
  <2>6. forcings[i][j] = Value(i, j, s)
    BY <2>2, <2>5 DEF Thickness
  <2> QED BY <1>2, <2>1, <2>3, <2>4, <2>6
<1> QED BY <1>1, <1>2

LEMMA PluggedType ==
  ASSUME NEW v \in 1..NumVertices[Earth], NEW s \in Nat,
         \A i \in Icecap : forcings[i] = Thickness(i, s)
  PROVE  Plugged(v) \in Values
<1>1. CASE Covering(v) = {}
  BY <1>1, PluggedValue, ValueType, Models DEF Zero
<1>2. CASE Covering(v) # {}
  <2>1. PICK i \in Covering(v) : \E j \in Places(v, i) : Plugged(v) = Value(i, j, s)
    BY <1>2, PluggedValue
  <2>2. PICK j \in Places(v, i) : Plugged(v) = Value(i, j, s)
    BY <2>1
  <2>3. i \in Icecap /\ j \in Nat
    BY TransitionsType, VerticesType, Models DEF Covering, Places
  <2> QED BY <2>2, <2>3, ValueType, Models
<1> QED BY <1>1, <1>2

-----------------------------------------------------------------------------
(* A step counter that goes up by one is still a step counter.             *)
LEMMA CountUp ==
  ASSUME NEW f \in [Model -> Nat], NEW m \in Model
  PROVE  /\ [f EXCEPT ![m] = @ + 1] \in [Model -> Nat]
         /\ [f EXCEPT ![m] = @ + 1][m] \in Nat
OBVIOUS

(***************************************************************************)
(* Types.  A vector that arrives has the size of the mesh because of what  *)
(* is on its way.                                                          *)
(***************************************************************************)
LEMMA TypeStep ==
  ASSUME TypeOK, ExchangeInv, DataInv, Next
  PROVE  TypeOK'
<1> USE Models
<1> USE DEF TypeOK, Goto
<1>1. ASSUME NEW m \in Model, Restart(m)
      PROVE  TypeOK'
  BY <1>1 DEF Restart, inputs, earths, network, PC
<1>2. ASSUME NEW m \in Model, Loop(m)
      PROVE  TypeOK'
  <2> DEFINE Goes == step[m] < settings.steps[m]
  <2>1. CASE Goes
    <3>1. step' = [step EXCEPT ![m] = @ + 1]
      BY <1>2, <2>1 DEF Loop
    <3>2. step' \in [Model -> Nat] /\ step'[m] \in Nat
      <4>1. step \in [Model -> Nat]
        BY DEF TypeOK
      <4> HIDE DEF TypeOK
      <4> QED BY <3>1, <4>1, CountUp
    <3>3. Thickness(m, step'[m]) \in Field(m)
      BY <3>2, ThicknessType
    <3> QED BY <1>2, <2>1, <3>2, <3>3 DEF Loop, FirstTransfer, PC, network, job
  <2>2. CASE ~Goes
    BY <1>2, <2>2 DEF Loop, PC, network, job
  <2> QED BY <2>1, <2>2
<1>3. ASSUME NEW m \in Model, CommNotFound(m)
      PROVE  TypeOK'
  BY <1>3 DEF CommNotFound, inputs, earths, network, job, PC
<1>4. ASSUME NEW m \in Model, Record(m)
      PROVE  TypeOK'
  BY <1>4 DEF Record, File, inputs, earths, network, PC
<1>5. ASSUME NEW i \in Icecap, SendForcingSize(i)
      PROVE  TypeOK'
  <2>1. Size(NumVertices[i]) \in Messages
    BY SizeType, VerticesType
  <2>2. Append(up[i], Size(NumVertices[i])) \in Seq(Messages)
    BY <2>1, AppendType
  <2> QED BY <1>5, <2>2 DEF SendForcingSize, inputs, earths, job, PC
<1>6. ASSUME NEW i \in Icecap, SendForcing(i)
      PROVE  TypeOK'
  <2>1. Vector(deltathickness[i]) \in Messages
    BY VectorType
  <2>2. Append(up[i], Vector(deltathickness[i])) \in Seq(Messages)
    BY <2>1, AppendType
  <2> QED BY <1>6, <2>2 DEF SendForcing, AfterForcing, inputs, earths, job, PC
<1>7. ASSUME NEW i \in Icecap, RecvSealevelSize(i)
      PROVE  TypeOK'
  <2>1. Head(down[i]) \in Messages /\ Tail(down[i]) \in Seq(Messages) /\ Head(down[i]).nv \in Nat
    BY <1>7, QueueType, MessageFields DEF RecvSealevelSize
  <2> QED BY <1>7, <2>1 DEF RecvSealevelSize, inputs, earths, job, PC
<1>8. ASSUME NEW i \in Icecap, RecvSealevel(i)
      PROVE  TypeOK'
  <2>1. Head(down[i]) \in Messages /\ Tail(down[i]) \in Seq(Messages)
    BY <1>8, QueueType DEF RecvSealevel
  <2>2. down[i] = <<L(i, step[i])>>
    <3>1. pc[i] = "sealevel values" /\ down[i] # <<>>
      BY <1>8 DEF RecvSealevel
    <3> QED BY <3>1 DEF ExchangeInv, ExchangeOf, Exchange, NoExchange, Answered, Sending, HasForcing,
                        HasSentSize, AwaitsValues, Idle, Restarted
  <2>3. Head(down[i]).values \in Field(i)
    <3>1. Levels(i, step[i]) \in Field(i)
      BY LevelsType
    <3>2. Head(down[i]) = Vector(Levels(i, step[i]))
      BY <2>2 DEF L
    <3>3. Vector(Levels(i, step[i])).values = Levels(i, step[i])
      BY DEF Vector
    <3> QED BY <3>1, <3>2, <3>3
  <2> QED BY <1>8, <2>1, <2>3 DEF RecvSealevel, earths, job, PC
<1>9. ASSUME RecvForcingSize
      PROVE  TypeOK'
  <2>1. Head(up[peer]) \in Messages /\ Tail(up[peer]) \in Seq(Messages) /\ Head(up[peer]).nv \in Nat
    BY <1>9, QueueType, MessageFields DEF RecvForcingSize
  <2> QED BY <1>9, <2>1 DEF RecvForcingSize, inputs, job, PC
<1>10. ASSUME RecvForcing
       PROVE  TypeOK'
  <2>1. Tail(up[peer]) \in Seq(Messages) /\ Head(up[peer]).values \in Seq(Values)
    BY <1>10, QueueType, MessageFields DEF RecvForcing
  <2>2. (IF LastIcecap THEN 0 ELSE peer + 1) \in Icecap
    BY CouplingAssumption DEF LastIcecap, Icecap
  <2> QED BY <1>10, <2>1, <2>2 DEF RecvForcing, inputs, job, PC
<1>11. ASSUME Consolidate
       PROVE  TypeOK'
  <2>1. \A i \in Icecap : forcings[i] = Thickness(i, step[Earth])
    BY <1>11 DEF Consolidate, ExchangeInv, ExchangeOf, Exchange, NoExchange, DataInv, RestartInv, EarthIdle, AwaitsSize,
                 AwaitsValues, HasForcing, HasSentSize, Idle, Restarted
  <2>2. \A v \in 1..NumVertices[Earth] : Plugged(v) \in Values
    BY <2>1, PluggedType
  <2>3. [v \in 1..NumVertices[Earth] |-> Plugged(v)] \in Field(Earth)
    BY <2>2 DEF Field
  <2> QED BY <1>11, <2>3 DEF Consolidate, network, job, PC
<1>12. ASSUME NEW converged \in BOOLEAN, SolveSealevel(converged)
       PROVE  TypeOK'
  <2>1. sealevel[Earth] \in [1..NumVertices[Earth] -> Values]
    BY DEF Field
  <2>2. \A v \in 1..NumVertices[Earth] : Value(Earth, v, step[Earth]) \in Values
    BY ValueType, VerticesType
  <2>3. [v \in DOMAIN sealevel[Earth] |-> Value(Earth, v, step[Earth])] \in Field(Earth)
    BY <2>1, <2>2 DEF Field
  <2>4. count' \in Nat /\ UNCHANGED <<step, deltathickness, peer, nvs, nv, forcings, network, job>>
    <3>1. count' = count + 1 /\ UNCHANGED <<step, deltathickness, peer, nvs, nv, forcings, network, job>>
      BY <1>12, Zenon DEF SolveSealevel
    <3> QED BY <3>1
  <2>5. CASE UNCHANGED <<pc, sealevel>>
    BY <2>4, <2>5 DEF network, job
  <2>6. CASE ~UNCHANGED <<pc, sealevel>>
    <3>1. /\ pc' = [pc EXCEPT ![Earth] = "sealevel nv"]
          /\ sealevel' = [sealevel EXCEPT ![Earth] = [v \in DOMAIN sealevel[Earth] |-> Value(Earth, v, step[Earth])]]
      BY <1>12, <2>6 DEF SolveSealevel
    <3>2. pc' \in [Model -> PC]
      BY <3>1 DEF PC
    <3>3. DOMAIN sealevel' = Model /\ \A m \in Model : sealevel'[m] \in Field(m)
      BY <3>1, <2>3
    <3> QED BY <2>4, <3>2, <3>3 DEF network, job
  <2> QED BY <2>5, <2>6
<1>13. ASSUME SendSealevelSize
       PROVE  TypeOK'
  <2>1. Size(SealevelSize(peer)) \in Messages
    BY SizeType, TransitionsType, VerticesType DEF SealevelSize
  <2>2. Append(down[peer], Size(SealevelSize(peer))) \in Seq(Messages)
    BY <2>1, AppendType
  <2> QED BY <1>13, <2>2 DEF SendSealevelSize, inputs, earths, job, PC
<1>14. ASSUME SendSealevel
       PROVE  TypeOK'
  <2>1. SealevelOf(peer) \in Field(peer)
    BY TransitionsType DEF SealevelOf, Field
  <2>2. Vector(SealevelOf(peer)) \in Messages
    BY <2>1, VectorType
  <2>3. Append(down[peer], Vector(SealevelOf(peer))) \in Seq(Messages)
    BY <2>2, AppendType
  <2>4. (IF LastIcecap THEN 0 ELSE peer + 1) \in Icecap
    BY CouplingAssumption DEF LastIcecap, Icecap
  <2> QED BY <1>14, <2>3, <2>4 DEF SendSealevel, inputs, job, PC
<1>15. ASSUME Relaunch
       PROVE  TypeOK'
  <2>1. \A m \in Model : FirstTask(m) \in PC
    BY DEF FirstTask, PC
  <2>2. launches' \in 1..MaxLaunches
    BY <1>15, CouplingAssumption DEF Relaunch
  <2> QED BY <1>15, <2>1, <2>2, BlankType DEF Relaunch
<1> QED
  BY <1>1, <1>2, <1>3, <1>4, <1>5, <1>6, <1>7, <1>8, <1>9, <1>10, <1>11, <1>12, <1>13, <1>14, <1>15
  DEF Next, EarthStep, IcecapStep, ModelStep

-----------------------------------------------------------------------------
(***************************************************************************)
(* The exchange.  A step of an ice cap leaves those of the others alone.   *)
(***************************************************************************)
LEMMA Queues ==
  ASSUME NEW x, NEW y
  PROVE  /\ Append(<<>>, x) = <<x>> /\ Append(<<x>>, y) = <<x, y>>
         /\ <<x>> # <<>> /\ Head(<<x>>) = x /\ Tail(<<x>>) = <<>>
         /\ <<x, y>> # <<>> /\ Head(<<x, y>>) = x /\ Tail(<<x, y>>) = <<y>>
         /\ <<x>> # <<x, y>>
<1>1. /\ Append(<<>>, x) = <<x>> /\ <<x>> # <<>> /\ Head(<<x>>) = x /\ Tail(<<x>>) = <<>>
      /\ <<x, y>> # <<>> /\ Head(<<x, y>>) = x /\ Tail(<<x, y>>) = <<y>>
      /\ <<x>> # <<x, y>>
  OBVIOUS
<1>2. Append(<<x>>, y) = <<x, y>>
  <2>1. Len(<<x>>) = 1 /\ <<x>> \in Seq({x, y})
    OBVIOUS
  <2>2. Append(<<x>>, y) \in Seq({x, y}) /\ <<x, y>> \in Seq({x, y}) /\ Len(<<x, y>>) = 2
    BY <2>1
  <2>3. Append(<<x>>, y)[1] = x /\ Append(<<x>>, y)[2] = y /\ Len(Append(<<x>>, y)) = 2
    BY <2>1
  <2>4. \A k \in 1..2 : Append(<<x>>, y)[k] = <<x, y>>[k]
    BY <2>3
  <2> QED BY <2>2, <2>3, <2>4, SeqEqual
<1> QED BY <1>1, <1>2

LEMMA SameExchange ==
  ASSUME NEW i \in Icecap, ExchangeOf(i),
         pc'[i] = pc[i], pc'[Earth] = pc[Earth], step'[i] = step[i], step'[Earth] = step[Earth],
         hasComm'[i] = hasComm[i], hasComm'[Earth] = hasComm[Earth], peer' = peer,
         up'[i] = up[i], down'[i] = down[i], nvs'[i] = nvs[i], nv'[i] = nv[i],
         forcings'[i] = forcings[i]
  PROVE  ExchangeOf(i)'
BY DEF ExchangeOf, Exchange, NoExchange, EarthIdle, AwaitsSize, AwaitsValues, HasForcing,
       HasSentSize, Sending, Answered, V, L

LEMMA IcecapExchange ==
  ASSUME TypeOK, ExchangeInv, DataInv, NEW i \in Icecap, IcecapStep(i)
  PROVE  ExchangeInv'
<1> USE Models DEF TypeOK, Goto
<1>1. ASSUME NEW k \in Icecap, k # i
      PROVE  ExchangeOf(k)'
  <2>1. /\ pc'[k] = pc[k] /\ pc'[Earth] = pc[Earth] /\ step'[k] = step[k]
        /\ step'[Earth] = step[Earth] /\ hasComm'[k] = hasComm[k]
        /\ hasComm'[Earth] = hasComm[Earth] /\ peer' = peer
        /\ up'[k] = up[k] /\ down'[k] = down[k] /\ nvs'[k] = nvs[k] /\ nv'[k] = nv[k]
        /\ forcings'[k] = forcings[k]
    <3>1. CASE ModelStep(i)
      BY <1>1, <3>1 DEF ModelStep, Restart, Loop, CommNotFound, Record, inputs, earths, network, job
    <3>2. CASE ~ModelStep(i)
      BY <1>1, <3>2 DEF IcecapStep, SendForcingSize, SendForcing, RecvSealevelSize,
                        RecvSealevel, inputs, earths, job
    <3> QED BY <3>1, <3>2
  <2> QED BY <2>1, SameExchange DEF ExchangeInv
<1>2. /\ pc'[Earth] = pc[Earth] /\ step'[Earth] = step[Earth]
      /\ hasComm'[Earth] = hasComm[Earth] /\ UNCHANGED <<peer, nvs, forcings>>
  <2>1. CASE Restart(i)
    BY <2>1 DEF Restart, inputs, earths
  <2>2. CASE Loop(i)
    BY <2>2 DEF Loop, job
  <2>3. CASE CommNotFound(i) \/ Record(i)
    BY <2>3 DEF CommNotFound, Record, inputs, earths, job
  <2>4. CASE ~ModelStep(i)
    BY <2>4 DEF IcecapStep, SendForcingSize, SendForcing, RecvSealevelSize, RecvSealevel, inputs,
                earths, job
  <2> QED BY <2>1, <2>2, <2>3, <2>4 DEF ModelStep
<1>3. ExchangeOf(i)
  BY DEF ExchangeInv
<1>4. ExchangeOf(i)'
  <2> USE DEF ExchangeOf, Exchange, NoExchange, EarthIdle, AwaitsSize, AwaitsValues, HasForcing,
              HasSentSize, Sending, Answered, V, L, Idle, Restarted
  <2>1. ASSUME Restart(i)
        PROVE  ExchangeOf(i)'
    BY <1>2, <1>3, <2>1 DEF Restart, inputs, network, DataInv, RestartInv
  <2>2. ASSUME Loop(i)
        PROVE  ExchangeOf(i)'
    <3>1. pc[i] = "loop" /\ UNCHANGED <<up, down, nv, hasComm>>
      BY <2>2 DEF Loop, network, job
    <3>2. CASE pc'[i] = "done" /\ step'[i] = step[i]
      BY <1>2, <1>3, <3>1, <3>2
    <3>3. CASE pc'[i] = "forcing nv" /\ step'[i] = step[i] + 1
      <4>1. CASE ~(hasComm[i] /\ hasComm[Earth])
        BY <1>2, <1>3, <3>1, <3>3, <4>1
      <4>2. CASE hasComm[i] /\ hasComm[Earth]
        <5>1. /\ up[i] = <<>> /\ down[i] = <<>>
              /\ \/ EarthIdle(i) /\ step[i] = step[Earth]
                 \/ AwaitsSize(i) /\ step[i] = step[Earth] - 1
          BY <1>3, <3>1, <4>2
        <5>2. Sending(i)'
          BY <3>1, <3>3, <5>1
        <5>3. step[i] \in Int /\ step[Earth] \in Int
          OBVIOUS
        <5>4. CASE EarthIdle(i) /\ step[i] = step[Earth]
          <6>1. EarthIdle(i)' /\ step'[i] = step'[Earth] + 1
            BY <1>2, <3>3, <5>4
          <6> QED BY <1>2, <3>1, <4>2, <5>2, <6>1
        <5>5. CASE AwaitsSize(i) /\ step[i] = step[Earth] - 1
          <6>1. AwaitsSize(i)'
            BY <1>2, <5>5
          <6>2. step'[i] = step'[Earth]
            <7> HIDE DEF AwaitsSize, TypeOK
            <7>1. step'[i] = step[i] + 1
              BY <3>3
            <7>2. step'[Earth] = step[Earth]
              BY <1>2
            <7>3. step[i] = step[Earth] - 1
              BY <5>5
            <7>4. (step[Earth] - 1) + 1 = step[Earth]
              BY <5>3
            <7> QED BY <7>1, <7>2, <7>3, <7>4
          <6> QED BY <1>2, <3>1, <4>2, <5>2, <6>1, <6>2
        <5> QED BY <5>1, <5>4, <5>5
      <4> QED BY <4>1, <4>2
    <3>4. \/ pc'[i] = "done" /\ step'[i] = step[i]
          \/ pc'[i] = "forcing nv" /\ step'[i] = step[i] + 1
      BY <2>2 DEF Loop, FirstTransfer
    <3> QED BY <3>2, <3>3, <3>4
  <2>3. ASSUME CommNotFound(i)
        PROVE  ExchangeOf(i)'
    BY <1>2, <1>3, <2>3 DEF CommNotFound, inputs, network, job
  <2>4. ASSUME Record(i)
        PROVE  ExchangeOf(i)'
    BY <1>2, <1>3, <2>4 DEF Record, inputs, network
  <2>5. ASSUME SendForcingSize(i)
        PROVE  ExchangeOf(i)'
    BY <1>2, <1>3, <2>5, Queues DEF SendForcingSize, inputs, job, S
  <2>6. ASSUME SendForcing(i)
        PROVE  ExchangeOf(i)'
    <3>1. pc[i] = "forcing values" /\ pc'[i] = "sealevel nv"
          /\ up'[i] = Append(up[i], Vector(Thickness(i, step[i])))
          /\ UNCHANGED <<step, down, nv, hasComm>>
      BY <2>6 DEF SendForcing, AfterForcing, inputs, job, DataInv, ThicknessInv
    <3>2. CASE up[i] = <<S(i)>>
      <4>1. up'[i] = <<S(i), Vector(Thickness(i, step[i]))>>
        BY <3>1, <3>2, Queues
      <4> QED BY <1>2, <1>3, <3>1, <3>2, <4>1, Queues
    <3>3. CASE up[i] = <<>>
      <4>1. up'[i] = <<Vector(Thickness(i, step[i]))>>
        BY <3>1, <3>3, Queues
      <4> QED BY <1>2, <1>3, <3>1, <3>3, <4>1, Queues
    <3>4. up[i] = <<S(i)>> \/ up[i] = <<>>
      BY <1>3, <3>1
    <3> QED BY <3>2, <3>3, <3>4
  <2>7. ASSUME RecvSealevelSize(i)
        PROVE  ExchangeOf(i)'
    <3>1. S(i).nv = NumVertices[i]
      BY DEF S, Size
    <3>2. pc[i] = "sealevel nv" /\ pc'[i] = "sealevel values" /\ down[i] # <<>>
          /\ down'[i] = Tail(down[i]) /\ nv'[i] = Head(down[i]).nv
          /\ UNCHANGED <<step, up, hasComm>>
      BY <2>7 DEF RecvSealevelSize, inputs, job
    <3>3. CASE down[i] = <<S(i), L(i, step[i])>>
      <4>1. down'[i] = <<L(i, step[i])>> /\ nv'[i] = NumVertices[i]
        <5> HIDE DEF L, TypeOK
        <5>1. Tail(<<S(i), L(i, step[i])>>) = <<L(i, step[i])>>
          BY Queues
        <5>2. Head(<<S(i), L(i, step[i])>>) = S(i)
          BY Queues
        <5> QED BY <3>1, <3>2, <3>3, <5>1, <5>2
      <4> QED BY <1>2, <1>3, <3>2, <3>3, <4>1, Queues
    <3>4. CASE down[i] = <<S(i)>>
      <4>1. down'[i] = <<>> /\ nv'[i] = NumVertices[i]
        BY <3>1, <3>2, <3>4, Queues
      <4>2. hasComm[i] /\ hasComm[Earth] /\ HasSentSize(i) /\ step[i] = step[Earth] /\ up[i] = <<>>
        BY <1>3, <3>2, <3>4, Queues
      <4> QED BY <1>2, <3>2, <4>1, <4>2
    <3>5. down[i] = <<S(i), L(i, step[i])>> \/ down[i] = <<S(i)>>
      BY <1>3, <3>2
    <3> QED BY <3>3, <3>4, <3>5
  <2>8. ASSUME RecvSealevel(i)
        PROVE  ExchangeOf(i)'
    BY <1>2, <1>3, <2>8, Queues DEF RecvSealevel, earths, job
  <2> HIDE DEF ExchangeOf
  <2> QED
    BY <2>1, <2>2, <2>3, <2>4, <2>5, <2>6, <2>7, <2>8 DEF IcecapStep, ModelStep
<1> QED BY <1>1, <1>4 DEF ExchangeInv

\* The earth is at one place of its exchange with an ice cap at a time.
LEMMA Positions ==
  ASSUME TypeOK, NEW i \in Icecap
  PROVE  /\ i < peer \/ i = peer \/ i > peer
         /\ i < peer => i # peer /\ ~(i > peer) /\ ~(i >= peer)
         /\ i > peer => i # peer /\ i >= peer
         /\ i = peer => i >= peer /\ ~(i < peer) /\ ~(i > peer)
<1>1. i \in Int /\ peer \in Int
  BY CouplingAssumption DEF TypeOK, Icecap
<1> QED BY <1>1

LEMMA OnePosition ==
  ASSUME TypeOK, NEW i \in Icecap
  PROVE  /\ EarthIdle(i) => ~AwaitsSize(i) /\ ~AwaitsValues(i) /\ ~HasForcing(i) /\ ~HasSentSize(i)
         /\ AwaitsSize(i) => ~AwaitsValues(i) /\ ~HasForcing(i) /\ ~HasSentSize(i)
         /\ AwaitsValues(i) => ~HasForcing(i) /\ ~HasSentSize(i)
         /\ HasForcing(i) => ~HasSentSize(i)
BY Positions DEF EarthIdle, AwaitsSize, AwaitsValues, HasForcing, HasSentSize, Idle

\* The next ice cap, in the loops of the earth.
LEMMA NextPeer ==
  ASSUME TypeOK, NEW i \in Icecap, peer' = (IF LastIcecap THEN 0 ELSE peer + 1)
  PROVE  /\ i > peer => ~LastIcecap /\ i >= peer'
         /\ i <= peer /\ ~LastIcecap => i < peer'
         /\ i < peer \/ i = peer => i <= peer
         /\ LastIcecap => i >= peer'
<1>1. i \in Int /\ peer \in Int /\ NumIcecaps \in Int /\ 0 <= i /\ i <= NumIcecaps - 1
  BY CouplingAssumption DEF TypeOK, Icecap
<1>2. CASE LastIcecap
  BY <1>1, <1>2 DEF LastIcecap
<1>3. CASE ~LastIcecap
  BY <1>1, <1>3 DEF LastIcecap
<1> QED BY <1>2, <1>3

\* What the earth sends to an ice cap is the sea level at its vertices.
LEMMA SealevelsMatch ==
  ASSUME DataInv, NEW i \in Icecap, pc[Earth] = "sealevel values", step[i] = step[Earth]
  PROVE  SealevelOf(i) = Levels(i, step[i])
<1>1. \A v \in 1..NumVertices[Earth] : sealevel[Earth][v] = Value(Earth, v, step[i])
  BY DEF DataInv, SealevelInv
<1>2. /\ Len(Transitions[i]) = NumVertices[i]
      /\ \A j \in 1..NumVertices[i] : Transitions[i][j] \in 1..NumVertices[Earth]
  BY TransitionsType
<1> QED BY <1>1, <1>2 DEF SealevelOf, Levels

\* A step of the earth, seen from each ice cap.
LEMMA EarthExchange ==
  ASSUME TypeOK, ExchangeInv, DataInv, EarthStep, NEW i \in Icecap
  PROVE  ExchangeOf(i)'
<1> USE Models DEF TypeOK, Goto
<1>1. pc'[i] = pc[i] /\ step'[i] = step[i] /\ hasComm'[i] = hasComm[i] /\ nv' = nv
  <2>1. CASE Restart(Earth)
    BY <2>1 DEF Restart, inputs
  <2>2. CASE Loop(Earth)
    BY <2>2 DEF Loop, job
  <2>3. CASE CommNotFound(Earth) \/ Record(Earth)
    BY <2>3 DEF CommNotFound, Record, inputs, job
  <2>4. CASE RecvForcingSize \/ RecvForcing \/ Consolidate \/ SendSealevelSize \/ SendSealevel
    BY <2>4 DEF RecvForcingSize, RecvForcing, Consolidate, SendSealevelSize, SendSealevel, inputs,
                earths, job
  <2>5. ASSUME NEW converged \in BOOLEAN, SolveSealevel(converged)
        PROVE  pc'[i] = pc[i] /\ step'[i] = step[i] /\ hasComm'[i] = hasComm[i] /\ nv' = nv
    <3>1. UNCHANGED <<step, nv, job>> /\ (UNCHANGED pc \/ pc' = [pc EXCEPT ![Earth] = "sealevel nv"])
      BY <2>5, Zenon DEF SolveSealevel
    <3> QED BY <3>1 DEF job
  <2> QED BY <2>1, <2>2, <2>3, <2>4, <2>5 DEF EarthStep, ModelStep
<1>2. ExchangeOf(i) /\ step[i] \in Int /\ step[Earth] \in Int
  BY DEF ExchangeInv
<1>3. peer = i => peer \in Icecap
  OBVIOUS
<1> USE DEF ExchangeOf, Exchange, NoExchange, Sending, Answered, V, L, Idle, Restarted
<1>4. ASSUME Restart(Earth)
      PROVE  ExchangeOf(i)'
  BY <1>1, <1>2, <1>4 DEF Restart, inputs, earths, network, DataInv, RestartInv, EarthIdle,
                          AwaitsSize, AwaitsValues, HasForcing, HasSentSize
<1>5. ASSUME Loop(Earth)
      PROVE  ExchangeOf(i)'
  <2>1. pc[Earth] = "loop" /\ UNCHANGED <<up, down, hasComm, nvs, forcings>>
    BY <1>5 DEF Loop, network, job
  <2>2. EarthIdle(i)
    BY <2>1 DEF EarthIdle
  <2>3. CASE pc'[Earth] = "done" /\ step'[Earth] = step[Earth]
    <3>1. EarthIdle(i)'
      BY <2>3 DEF EarthIdle
    <3> QED BY <1>1, <1>2, <2>1, <2>2, <2>3, <3>1, OnePosition
  <2>4. CASE pc'[Earth] = "forcing nv" /\ step'[Earth] = step[Earth] + 1 /\ peer' = 0
    <3>1. i >= 0
      BY CouplingAssumption DEF Icecap
    <3>2. AwaitsSize(i)'
      BY <2>4, <3>1 DEF AwaitsSize
    <3>3. step[i] = step[Earth] => step'[i] = step'[Earth] - 1
      <4> HIDE DEF TypeOK
      <4>1. step'[i] = step[i] /\ step'[Earth] = step[Earth] + 1
        BY <1>1, <2>4
      <4>2. step[Earth] \in Int
        BY <1>2
      <4>3. (step[Earth] + 1) - 1 = step[Earth]
        BY <4>2
      <4> QED BY <4>1, <4>3
    <3>4. step[i] = step[Earth] + 1 => step'[i] = step'[Earth]
      BY <1>1, <2>4
    <3> QED BY <1>1, <1>2, <2>1, <2>2, <2>4, <3>2, <3>3, <3>4, OnePosition
  <2>5. \/ pc'[Earth] = "done" /\ step'[Earth] = step[Earth]
        \/ pc'[Earth] = "forcing nv" /\ step'[Earth] = step[Earth] + 1 /\ peer' = 0
    BY <1>5 DEF Loop, FirstTransfer
  <2> QED BY <2>3, <2>4, <2>5
<1>6. ASSUME CommNotFound(Earth)
      PROVE  ExchangeOf(i)'
  BY <1>1, <1>2, <1>6 DEF CommNotFound, inputs, earths, network, job
<1>7. ASSUME Record(Earth)
      PROVE  ExchangeOf(i)'
  BY <1>1, <1>2, <1>7 DEF Record, inputs, earths, network, EarthIdle, AwaitsSize, AwaitsValues,
                          HasForcing, HasSentSize
<1>8. ASSUME RecvForcingSize
      PROVE  ExchangeOf(i)'
  <2>1. /\ pc[Earth] = "forcing nv" /\ pc'[Earth] = "forcing values" /\ hasComm[Earth]
        /\ up[peer] # <<>> /\ up'[peer] = Tail(up[peer]) /\ nvs'[peer] = Head(up[peer]).nv
        /\ \A k \in Icecap : k # peer => up'[k] = up[k] /\ nvs'[k] = nvs[k]
        /\ UNCHANGED <<step, hasComm, peer, down, forcings>>
    BY <1>8 DEF RecvForcingSize, inputs, job
  <2>2. CASE i > peer
    <3>1. AwaitsSize(i) /\ AwaitsSize(i)' /\ i # peer
      BY <2>1, <2>2, Positions DEF AwaitsSize
    <3> QED BY <1>1, <1>2, <2>1, <3>1, OnePosition
  <2>3. CASE i < peer
    <3>1. HasForcing(i) /\ HasForcing(i)' /\ i # peer /\ ~AwaitsSize(i) /\ ~EarthIdle(i)
      BY <2>1, <2>3, Positions DEF HasForcing, AwaitsSize, EarthIdle
    <3> QED BY <1>1, <1>2, <2>1, <3>1, OnePosition
  <2>4. CASE i = peer
    <3>1. AwaitsSize(i) /\ AwaitsValues(i)'
      BY <2>1, <2>4, Positions DEF AwaitsSize, AwaitsValues
    <3>2. hasComm[i] /\ Sending(i) /\ step[i] = step[Earth]
      BY <1>2, <2>1, <2>4, <3>1, OnePosition
    <3>3. S(i).nv = NumVertices[i]
      BY DEF S, Size
    <3>4. CASE up[i] = <<S(i)>> /\ pc[i] = "forcing values"
      <4>1. up'[i] = <<>> /\ nvs'[i] = NumVertices[i]
        BY <2>1, <2>4, <3>3, <3>4, Queues
      <4> QED BY <1>1, <1>2, <2>1, <3>1, <3>2, <3>4, <4>1
    <3>5. CASE up[i] = <<S(i), V(i)>> /\ pc[i] = "sealevel nv"
      <4>1. up'[i] = <<V(i)>> /\ nvs'[i] = NumVertices[i]
        <5> HIDE DEF V, S, TypeOK
        <5>1. Tail(<<S(i), V(i)>>) = <<V(i)>> /\ Head(<<S(i), V(i)>>) = S(i)
          BY Queues
        <5>2. up'[i] = Tail(up[i]) /\ nvs'[i] = Head(up[i]).nv /\ up[i] = <<S(i), V(i)>>
          BY <2>1, <2>4, <3>5
        <5>3. up'[i] = <<V(i)>>
          BY <5>1, <5>2
        <5>4. Head(up[i]) = S(i)
          BY <5>1, <5>2
        <5> QED BY <3>3, <5>2, <5>3, <5>4
      <4> QED BY <1>1, <1>2, <2>1, <3>1, <3>2, <3>5, <4>1
    <3> QED BY <2>1, <2>4, <3>2, <3>4, <3>5
  <2> QED BY <2>2, <2>3, <2>4, Positions
<1>9. ASSUME RecvForcing
      PROVE  ExchangeOf(i)'
  <2>1. /\ pc[Earth] = "forcing values" /\ up[peer] # <<>>
        /\ up'[peer] = Tail(up[peer]) /\ forcings'[peer] = Head(up[peer]).values
        /\ \A k \in Icecap : k # peer => up'[k] = up[k] /\ forcings'[k] = forcings[k]
        /\ UNCHANGED <<step, hasComm, nvs, down>>
        /\ pc'[Earth] = IF LastIcecap THEN "consolidate" ELSE "forcing nv"
        /\ peer' = IF LastIcecap THEN 0 ELSE peer + 1
    BY <1>9 DEF RecvForcing, inputs, job
  <2>2. hasComm[Earth]
    BY <2>1 DEF DataInv, RestartInv
  <2>3. CASE i > peer
    <3>1. AwaitsSize(i) /\ AwaitsSize(i)' /\ i # peer
      BY <2>1, <2>3, Positions, NextPeer DEF AwaitsSize
    <3> QED BY <1>1, <1>2, <2>1, <2>2, <3>1, OnePosition
  <2>4. CASE i < peer
    <3>1. HasForcing(i) /\ HasForcing(i)' /\ i # peer /\ ~AwaitsSize(i) /\ ~EarthIdle(i)
      BY <2>1, <2>4, Positions, NextPeer DEF HasForcing, AwaitsSize, EarthIdle
    <3> QED BY <1>1, <1>2, <2>1, <2>2, <3>1, OnePosition
  <2>5. CASE i = peer
    <3>1. AwaitsValues(i) /\ HasForcing(i)' /\ ~AwaitsSize(i) /\ ~EarthIdle(i)
      BY <2>1, <2>5, Positions, NextPeer DEF AwaitsValues, HasForcing, AwaitsSize, EarthIdle
    <3>2. /\ hasComm[i] /\ step[i] = step[Earth] /\ down[i] = <<>>
          /\ pc[i] = "sealevel nv" /\ up[i] = <<V(i)>>
      BY <1>2, <2>1, <2>2, <2>5, <3>1, OnePosition
    <3>3. Vector(Thickness(i, step[i])).values = Thickness(i, step[i])
      BY DEF Vector
    <3>4. up'[i] = <<>> /\ forcings'[i] = Thickness(i, step[Earth])
      <4> HIDE DEF V, TypeOK
      <4>1. Tail(<<V(i)>>) = <<>> /\ Head(<<V(i)>>) = V(i)
        BY Queues
      <4>2. up'[i] = Tail(up[i]) /\ forcings'[i] = Head(up[i]).values /\ up[i] = <<V(i)>>
        BY <2>1, <2>5, <3>2
      <4>3. up'[i] = <<>> /\ Head(up[i]) = V(i)
        BY <4>1, <4>2
      <4>4. V(i).values = Thickness(i, step[Earth])
        BY <3>2, <3>3 DEF V
      <4> QED BY <4>2, <4>3, <4>4
    <3> QED BY <1>1, <2>1, <2>2, <3>1, <3>2, <3>4
  <2> QED BY <2>3, <2>4, <2>5, Positions
<1>10. ASSUME Consolidate
       PROVE  ExchangeOf(i)'
  <2>1. /\ pc[Earth] = "consolidate" /\ pc'[Earth] = "solve"
        /\ UNCHANGED <<step, hasComm, peer, nvs, forcings, up, down>>
    BY <1>10 DEF Consolidate, network, job
  <2>2. HasForcing(i) /\ HasForcing(i)' /\ ~AwaitsSize(i) /\ ~EarthIdle(i) /\ hasComm[Earth]
    BY <2>1 DEF HasForcing, AwaitsSize, EarthIdle, DataInv, RestartInv
  <2> QED BY <1>1, <1>2, <2>1, <2>2, OnePosition
<1>11. ASSUME NEW converged \in BOOLEAN, SolveSealevel(converged)
       PROVE  ExchangeOf(i)'
  <2>1. pc[Earth] = "solve" /\ UNCHANGED <<step, peer, nvs, nv, forcings, network, job>>
    BY <1>11, Zenon DEF SolveSealevel
  <2>2. UNCHANGED <<step, hasComm, nvs, forcings, up, down>>
    BY <2>1 DEF network, job
  <2>3. pc'[Earth] \in {"solve", "sealevel nv"} /\ peer' = peer
    BY <1>11, <2>1, Zenon DEF SolveSealevel
  <2>4. HasForcing(i) /\ ~AwaitsSize(i) /\ ~EarthIdle(i) /\ hasComm[Earth]
    BY <2>1 DEF HasForcing, AwaitsSize, EarthIdle, DataInv, RestartInv
  <2>5. i >= peer
    <3>1. peer = 0
      BY <2>1 DEF DataInv, PeerInv
    <3>2. i \in Int /\ i >= 0
      BY CouplingAssumption DEF Icecap
    <3> QED BY <3>1, <3>2
  <2>6. HasForcing(i)'
    BY <2>3, <2>5 DEF HasForcing
  <2> QED BY <1>1, <1>2, <2>2, <2>4, <2>6, OnePosition
<1>12. ASSUME SendSealevelSize
       PROVE  ExchangeOf(i)'
  <2>1. /\ pc[Earth] = "sealevel nv" /\ pc'[Earth] = "sealevel values"
        /\ down'[peer] = Append(down[peer], Size(SealevelSize(peer)))
        /\ \A k \in Icecap : k # peer => down'[k] = down[k]
        /\ UNCHANGED <<step, hasComm, peer, nvs, forcings, up>>
    BY <1>12 DEF SendSealevelSize, inputs, earths, job
  <2>2. hasComm[Earth]
    BY <2>1 DEF DataInv, RestartInv
  <2>3. CASE i > peer
    <3>1. HasForcing(i) /\ HasForcing(i)' /\ i # peer
      BY <2>1, <2>3, Positions DEF HasForcing
    <3> QED BY <1>1, <1>2, <2>1, <2>2, <3>1, OnePosition
  <2>4. CASE i < peer
    <3>1. EarthIdle(i) /\ EarthIdle(i)' /\ i # peer
      BY <2>1, <2>4, Positions DEF EarthIdle
    <3> QED BY <1>1, <1>2, <2>1, <2>2, <3>1, OnePosition
  <2>5. CASE i = peer
    <3>1. HasForcing(i) /\ HasSentSize(i)' /\ ~AwaitsSize(i) /\ ~EarthIdle(i)
      BY <2>1, <2>5, Positions DEF HasForcing, HasSentSize, AwaitsSize, EarthIdle
    <3>2. /\ hasComm[i] /\ step[i] = step[Earth] /\ down[i] = <<>>
          /\ pc[i] = "sealevel nv" /\ up[i] = <<>>
      BY <1>2, <2>2, <3>1, OnePosition
    <3>3. down'[i] = <<S(i)>>
      <4>1. Size(SealevelSize(i)) = S(i)
        BY TransitionsType DEF SealevelSize, S
      <4> HIDE DEF S, TypeOK
      <4>2. Append(<<>>, S(i)) = <<S(i)>>
        BY Queues
      <4> QED BY <2>1, <2>5, <3>2, <4>1, <4>2
    <3> QED BY <1>1, <2>1, <2>2, <3>1, <3>2, <3>3
  <2> QED BY <2>3, <2>4, <2>5, Positions
<1>13. ASSUME SendSealevel
       PROVE  ExchangeOf(i)'
  <2>1. /\ pc[Earth] = "sealevel values"
        /\ down'[peer] = Append(down[peer], Vector(SealevelOf(peer)))
        /\ \A k \in Icecap : k # peer => down'[k] = down[k]
        /\ UNCHANGED <<step, hasComm, nvs, forcings, up>>
        /\ pc'[Earth] = IF LastIcecap THEN "record" ELSE "sealevel nv"
        /\ peer' = IF LastIcecap THEN 0 ELSE peer + 1
    BY <1>13 DEF SendSealevel, inputs, job
  <2>2. hasComm[Earth]
    BY <2>1 DEF DataInv, RestartInv
  <2>3. CASE i > peer
    <3>1. HasForcing(i) /\ HasForcing(i)' /\ i # peer
      BY <2>1, <2>3, Positions, NextPeer DEF HasForcing
    <3> QED BY <1>1, <1>2, <2>1, <2>2, <3>1, OnePosition
  <2>4. CASE i < peer
    <3>1. EarthIdle(i) /\ EarthIdle(i)' /\ i # peer
      BY <2>1, <2>4, Positions, NextPeer DEF EarthIdle
    <3> QED BY <1>1, <1>2, <2>1, <2>2, <3>1, OnePosition
  <2>5. CASE i = peer
    <3>1. HasSentSize(i) /\ EarthIdle(i)'
      BY <2>1, <2>5, Positions, NextPeer DEF HasSentSize, EarthIdle
    <3>2. /\ hasComm[i] /\ step[i] = step[Earth] /\ up[i] = <<>>
          /\ \/ pc[i] = "sealevel nv" /\ down[i] = <<S(i)>>
             \/ pc[i] = "sealevel values" /\ down[i] = <<>> /\ nv[i] = NumVertices[i]
      BY <1>2, <2>2, <3>1, OnePosition
    <3>3. SealevelOf(i) = Levels(i, step[i])
      BY <2>1, <3>2, SealevelsMatch
    <3>4. down'[i] = Append(down[i], L(i, step[i]))
      BY <2>1, <2>5, <3>3
    <3> HIDE DEF L, S
    <3>5. CASE pc[i] = "sealevel nv" /\ down[i] = <<S(i)>>
      <4>1. down'[i] = <<S(i), L(i, step[i])>>
        BY <3>4, <3>5, Queues
      <4>2. L(i, step[i])' = L(i, step[i])
        BY <1>1 DEF L, Levels
      <4> QED BY <1>1, <2>1, <2>2, <3>1, <3>2, <3>5, <4>1, <4>2
    <3>6. CASE pc[i] = "sealevel values" /\ down[i] = <<>> /\ nv[i] = NumVertices[i]
      <4>1. down'[i] = <<L(i, step[i])>>
        BY <3>4, <3>6, Queues
      <4>2. L(i, step[i])' = L(i, step[i])
        BY <1>1 DEF L, Levels
      <4> QED BY <1>1, <2>1, <2>2, <3>1, <3>2, <3>6, <4>1, <4>2
    <3> QED BY <3>2, <3>5, <3>6
  <2> QED BY <2>3, <2>4, <2>5, Positions
<1> HIDE DEF ExchangeOf
<1> QED
  BY <1>4, <1>5, <1>6, <1>7, <1>8, <1>9, <1>10, <1>11, <1>12, <1>13 DEF EarthStep, ModelStep

LEMMA RelaunchExchange ==
  ASSUME TypeOK, Relaunch
  PROVE  ExchangeInv'
BY Models DEF Relaunch, ExchangeInv, ExchangeOf, Exchange, EarthIdle, Answered, FirstTask, Idle

LEMMA ExchangeStep ==
  ASSUME TypeOK, ExchangeInv, DataInv, Next
  PROVE  ExchangeInv'
<1>1. ASSUME EarthStep
      PROVE  ExchangeInv'
  BY <1>1, EarthExchange DEF ExchangeInv
<1> QED BY <1>1, IcecapExchange, RelaunchExchange DEF Next

-----------------------------------------------------------------------------
(***************************************************************************)
(* What the models know.                                                   *)
(***************************************************************************)
LEMMA ThicknessStep ==
  ASSUME TypeOK, ExchangeInv, DataInv, Next
  PROVE  ThicknessInv'
<1> SUFFICES ASSUME NEW i \in Icecap, pc'[i] \in {"forcing nv", "forcing values"}
             PROVE  deltathickness'[i] = Thickness(i, step'[i])
  BY DEF ThicknessInv, Thickness
<1> USE Models DEF TypeOK, Goto
<1>1. pc[i] \in {"forcing nv", "forcing values"} => deltathickness[i] = Thickness(i, step[i])
  BY DEF DataInv, ThicknessInv
<1>2. ASSUME NEW m \in Model, Restart(m)
      PROVE  deltathickness'[i] = Thickness(i, step'[i])
  BY <1>1, <1>2 DEF Restart, inputs
<1>3. ASSUME NEW m \in Model, Loop(m)
      PROVE  deltathickness'[i] = Thickness(i, step'[i])
  <2>1. CASE m = i
    BY <1>3, <2>1 DEF Loop
  <2>2. CASE m # i
    BY <1>1, <1>3, <2>2 DEF Loop
  <2> QED BY <2>1, <2>2
<1>4. ASSUME NEW m \in Model, CommNotFound(m) \/ Record(m)
      PROVE  deltathickness'[i] = Thickness(i, step'[i])
  BY <1>1, <1>4 DEF CommNotFound, Record, inputs
<1>5. ASSUME NEW k \in Icecap, \/ SendForcingSize(k) \/ SendForcing(k)
                              \/ RecvSealevelSize(k) \/ RecvSealevel(k)
      PROVE  deltathickness'[i] = Thickness(i, step'[i])
  BY <1>1, <1>5 DEF SendForcingSize, SendForcing, AfterForcing, RecvSealevelSize, RecvSealevel, inputs
<1>6. CASE RecvForcingSize \/ RecvForcing \/ Consolidate \/ SendSealevelSize \/ SendSealevel
  BY <1>1, <1>6 DEF RecvForcingSize, RecvForcing, Consolidate, SendSealevelSize, SendSealevel, inputs
<1>7. ASSUME NEW converged \in BOOLEAN, SolveSealevel(converged)
      PROVE  deltathickness'[i] = Thickness(i, step'[i])
  <2>1. UNCHANGED <<step, deltathickness>> /\ (UNCHANGED pc \/ pc' = [pc EXCEPT ![Earth] = "sealevel nv"])
    BY <1>7, Zenon DEF SolveSealevel
  <2> QED BY <1>1, <2>1
<1>8. CASE Relaunch
  BY <1>8 DEF Relaunch, FirstTask
<1> QED
  BY <1>2, <1>3, <1>4, <1>5, <1>6, <1>7, <1>8 DEF Next, EarthStep, IcecapStep, ModelStep

LEMMA ConsolidatedStep ==
  ASSUME TypeOK, ExchangeInv, DataInv, Next
  PROVE  ConsolidatedInv'
<1> SUFFICES ASSUME pc'[Earth] = "solve"
             PROVE  deltathickness'[Earth] = [v \in 1..NumVertices[Earth] |-> Plugged(v)]'
  BY DEF ConsolidatedInv
<1> USE Models DEF TypeOK, Goto
<1>1. CASE Consolidate
  <2>1. deltathickness'[Earth] = [v \in 1..NumVertices[Earth] |-> Plugged(v)]
    BY <1>1 DEF Consolidate
  <2>2. UNCHANGED forcings
    BY <1>1 DEF Consolidate
  <2>3. \A v : Plugged(v)' = Plugged(v)
    BY <2>2 DEF Plugged
  <2> QED BY <2>1, <2>3
<1>2. CASE pc[Earth] = "solve" /\ deltathickness'[Earth] = deltathickness[Earth]
           /\ UNCHANGED forcings
  <2>1. deltathickness[Earth] = [v \in 1..NumVertices[Earth] |-> Plugged(v)]
    BY <1>2 DEF DataInv, ConsolidatedInv
  <2> QED BY <1>2, <2>1 DEF Plugged
<1>3. ASSUME NEW m \in Model, Restart(m)
      PROVE  pc[Earth] = "solve" /\ deltathickness'[Earth] = deltathickness[Earth] /\ UNCHANGED forcings
  BY <1>3 DEF Restart, inputs, earths
<1>4. ASSUME NEW m \in Model, Loop(m)
      PROVE  pc[Earth] = "solve" /\ deltathickness'[Earth] = deltathickness[Earth] /\ UNCHANGED forcings
  BY <1>4 DEF Loop, FirstTransfer
<1>5. ASSUME NEW m \in Model, CommNotFound(m) \/ Record(m)
      PROVE  pc[Earth] = "solve" /\ deltathickness'[Earth] = deltathickness[Earth] /\ UNCHANGED forcings
  BY <1>5 DEF CommNotFound, Record, inputs, earths
<1>6. ASSUME NEW k \in Icecap, \/ SendForcingSize(k) \/ SendForcing(k)
                              \/ RecvSealevelSize(k) \/ RecvSealevel(k)
      PROVE  pc[Earth] = "solve" /\ deltathickness'[Earth] = deltathickness[Earth] /\ UNCHANGED forcings
  BY <1>6 DEF SendForcingSize, SendForcing, RecvSealevelSize, RecvSealevel, inputs, earths
<1>7. CASE RecvForcingSize \/ RecvForcing \/ SendSealevelSize \/ SendSealevel
  BY <1>7 DEF RecvForcingSize, RecvForcing, SendSealevelSize, SendSealevel
<1>8. ASSUME NEW converged \in BOOLEAN, SolveSealevel(converged)
      PROVE  pc[Earth] = "solve" /\ deltathickness'[Earth] = deltathickness[Earth] /\ UNCHANGED forcings
  BY <1>8, Zenon DEF SolveSealevel
<1>9. CASE Relaunch
  BY <1>9 DEF Relaunch, FirstTask
<1> QED
  BY <1>1, <1>2, <1>3, <1>4, <1>5, <1>6, <1>7, <1>8, <1>9
  DEF Next, EarthStep, IcecapStep, ModelStep

LEMMA SealevelStep ==
  ASSUME TypeOK, ExchangeInv, DataInv, Next
  PROVE  SealevelInv'
<1> USE Models DEF TypeOK, Goto
<1> DEFINE Solved == \A v \in 1..NumVertices[Earth] : sealevel[Earth][v] = Value(Earth, v, step[Earth])
           EarthKept == /\ pc[Earth] \in {"sealevel nv", "sealevel values"}
                        /\ sealevel'[Earth] = sealevel[Earth] /\ step'[Earth] = step[Earth]
           Kept(i) == /\ pc[i] = "record"
                      /\ sealevel'[i] = sealevel[i] /\ step'[i] = step[i]
<1>1. pc[Earth] \in {"sealevel nv", "sealevel values"} => Solved
  BY DEF DataInv, SealevelInv
<1>2. \A i \in Icecap : pc[i] = "record" => sealevel[i] = Levels(i, step[i])
  BY DEF DataInv, SealevelInv
<1>3. ASSUME pc'[Earth] \in {"sealevel nv", "sealevel values"}
      PROVE  EarthKept \/ Solved'
  <2>1. ASSUME NEW m \in Model, Restart(m)
        PROVE  EarthKept
    BY <1>3, <2>1 DEF Restart, inputs
  <2>2. ASSUME NEW m \in Model, Loop(m)
        PROVE  EarthKept
    BY <1>3, <2>2 DEF Loop, FirstTransfer
  <2>3. ASSUME NEW m \in Model, CommNotFound(m) \/ Record(m)
        PROVE  EarthKept
    BY <1>3, <2>3 DEF CommNotFound, Record, inputs
  <2>4. ASSUME NEW k \in Icecap, \/ SendForcingSize(k) \/ SendForcing(k)
                                \/ RecvSealevelSize(k) \/ RecvSealevel(k)
        PROVE  EarthKept
    BY <1>3, <2>4 DEF SendForcingSize, SendForcing, RecvSealevelSize, RecvSealevel, inputs
  <2>5. CASE RecvForcingSize \/ RecvForcing \/ Consolidate \/ SendSealevelSize \/ SendSealevel
    BY <1>3, <2>5 DEF RecvForcingSize, RecvForcing, Consolidate, SendSealevelSize, SendSealevel, inputs
  <2>6. ASSUME NEW converged \in BOOLEAN, SolveSealevel(converged)
        PROVE  Solved'
    <3>1. /\ pc[Earth] = "solve" /\ UNCHANGED step
          /\ \/ UNCHANGED pc
             \/ sealevel' = [sealevel EXCEPT
                               ![Earth] = [v \in DOMAIN @ |-> Value(Earth, v, step[Earth])]]
      BY <2>6, Zenon DEF SolveSealevel
    <3>2. sealevel' = [sealevel EXCEPT
                        ![Earth] = [v \in DOMAIN @ |-> Value(Earth, v, step[Earth])]]
      BY <1>3, <3>1
    <3>3. DOMAIN sealevel[Earth] = 1..NumVertices[Earth]
      BY DEF Field
    <3>4. sealevel'[Earth] = [v \in 1..NumVertices[Earth] |-> Value(Earth, v, step[Earth])]
      BY <3>2, <3>3
    <3> QED BY <3>1, <3>4
  <2>7. CASE Relaunch
    BY <1>3, <2>7 DEF Relaunch, FirstTask
  <2> QED
    BY <2>1, <2>2, <2>3, <2>4, <2>5, <2>6, <2>7 DEF Next, EarthStep, IcecapStep, ModelStep
<1>4. ASSUME NEW i \in Icecap, pc'[i] = "record"
      PROVE  sealevel'[i] = Levels(i, step'[i])
  <2>1. ASSUME NEW m \in Model, Restart(m)
        PROVE  Kept(i)
    BY <1>4, <2>1 DEF Restart, inputs
  <2>2. ASSUME NEW m \in Model, Loop(m)
        PROVE  Kept(i)
    BY <1>4, <2>2 DEF Loop, FirstTransfer
  <2>3. ASSUME NEW m \in Model, CommNotFound(m) \/ Record(m)
        PROVE  Kept(i)
    BY <1>4, <2>3 DEF CommNotFound, Record, inputs
  <2>4. ASSUME NEW k \in Icecap, SendForcingSize(k) \/ SendForcing(k) \/ RecvSealevelSize(k)
        PROVE  Kept(i)
    BY <1>4, <2>4 DEF SendForcingSize, SendForcing, AfterForcing, RecvSealevelSize, inputs
  <2>5. ASSUME NEW k \in Icecap, k # i, RecvSealevel(k)
        PROVE  Kept(i)
    BY <1>4, <2>5 DEF RecvSealevel
  <2>6. ASSUME RecvSealevel(i)
        PROVE  sealevel'[i] = Levels(i, step'[i])
    <3>1. /\ pc[i] = "sealevel values" /\ down[i] # <<>> /\ UNCHANGED step
          /\ sealevel'[i] = Head(down[i]).values
      BY <2>6 DEF RecvSealevel
    <3>2. down[i] = <<L(i, step[i])>>
      BY <3>1 DEF ExchangeInv, ExchangeOf, Exchange, NoExchange, Answered, Sending, HasForcing,
                  HasSentSize, AwaitsValues, Idle, Restarted
    <3>3. L(i, step[i]).values = Levels(i, step[i])
      BY DEF L, Vector
    <3> HIDE DEF L, Levels, TypeOK
    <3>4. Head(<<L(i, step[i])>>) = L(i, step[i])
      BY Queues
    <3> QED BY <3>1, <3>2, <3>3, <3>4
  <2>7. ASSUME RecvForcingSize \/ RecvForcing \/ Consolidate \/ SendSealevelSize \/ SendSealevel
        PROVE  Kept(i)
    BY <1>4, <2>7 DEF RecvForcingSize, RecvForcing, Consolidate, SendSealevelSize, SendSealevel, inputs
  <2>8. ASSUME NEW converged \in BOOLEAN, SolveSealevel(converged)
        PROVE  Kept(i)
    <3>1. /\ UNCHANGED step
          /\ UNCHANGED pc \/ pc' = [pc EXCEPT ![Earth] = "sealevel nv"]
          /\ \/ UNCHANGED sealevel
             \/ sealevel' = [sealevel EXCEPT
                               ![Earth] = [v \in DOMAIN @ |-> Value(Earth, v, step[Earth])]]
      BY <2>8, Zenon DEF SolveSealevel
    <3> QED BY <1>4, <3>1
  <2>9. CASE Relaunch
    BY <1>4, <2>9 DEF Relaunch, FirstTask
  <2>10. Kept(i) => sealevel'[i] = Levels(i, step'[i])
    BY <1>2
  <2>11. CASE RecvSealevel(i)
    BY <2>6, <2>11
  <2>12. Kept(i) \/ RecvSealevel(i) \/ sealevel'[i] = Levels(i, step'[i])
    BY <1>4, <2>1, <2>2, <2>3, <2>4, <2>5, <2>7, <2>8, <2>9 DEF Next, EarthStep, IcecapStep, ModelStep
  <2> QED BY <2>10, <2>11, <2>12
<1>5. \A i \in Icecap : pc'[i] = "record" => sealevel'[i] = Levels(i, step'[i])
  BY <1>4
<1>6. pc'[Earth] \in {"sealevel nv", "sealevel values"} => Solved'
  BY <1>1, <1>3
<1>7. \A i : Levels(i, step[i])' = Levels(i, step'[i])
  BY DEF Levels
<1> QED BY <1>5, <1>6, <1>7 DEF SealevelInv

LEMMA RestartStep ==
  ASSUME TypeOK, ExchangeInv, DataInv, Next
  PROVE  RestartInv' /\ PeerInv'
<1> USE Models DEF TypeOK, Goto, DataInv, RestartInv, PeerInv, Restarted
<1>1. ASSUME NEW m \in Model, Restart(m)
      PROVE  RestartInv' /\ PeerInv'
  BY <1>1 DEF Restart, inputs, earths
<1>2. ASSUME NEW m \in Model, Loop(m)
      PROVE  RestartInv' /\ PeerInv'
  <2>1. UNCHANGED hasComm
    BY <1>2 DEF Loop, job
  <2>2. /\ pc[m] = "loop" /\ pc' = [pc EXCEPT ![m] = pc'[m]]
        /\ \/ pc'[m] = "done" /\ UNCHANGED step
           \/ pc'[m] = "forcing nv" /\ step' = [step EXCEPT ![m] = @ + 1]
        /\ m # Earth => UNCHANGED peer
    BY <1>2 DEF Loop, FirstTransfer
  <2>3. PeerInv'
    BY <2>2
  <2>4. \A k \in Model : k # m => pc'[k] = pc[k] /\ step'[k] = step[k]
    BY <2>2
  <2>5. pc'[m] \in Restarted /\ pc'[m] # "restart" /\ (pc'[m] = "done" \/ step'[m] # 0)
    <3>1. step \in [Model -> Nat]
      OBVIOUS
    <3> HIDE DEF TypeOK, DataInv, RestartInv, PeerInv
    <3>2. \A n \in Nat : n + 1 # 0
      OBVIOUS
    <3>3. step' = [step EXCEPT ![m] = @ + 1] => step'[m] = step[m] + 1
      BY <3>1
    <3>4. pc'[m] = "done" \/ (pc'[m] = "forcing nv" /\ step'[m] = step[m] + 1)
      BY <2>2, <3>3
    <3> QED BY <3>1, <3>2, <3>4
  <2> QED BY <2>1, <2>3, <2>4, <2>5
<1>3. ASSUME NEW m \in Model, CommNotFound(m) \/ Record(m)
      PROVE  RestartInv' /\ PeerInv'
  BY <1>3 DEF CommNotFound, Record, inputs, earths, job
<1>4. ASSUME NEW i \in Icecap, \/ SendForcingSize(i) \/ SendForcing(i)
                              \/ RecvSealevelSize(i) \/ RecvSealevel(i)
      PROVE  RestartInv' /\ PeerInv'
  BY <1>4 DEF SendForcingSize, SendForcing, AfterForcing, RecvSealevelSize, RecvSealevel, inputs, earths, job
<1>5. CASE RecvForcingSize \/ RecvForcing \/ Consolidate \/ SendSealevelSize \/ SendSealevel
  <2>1. UNCHANGED <<step, hasComm>>
    BY <1>5 DEF RecvForcingSize, RecvForcing, Consolidate, SendSealevelSize, SendSealevel, inputs, job
  <2>2. /\ pc[Earth] \notin {"restart", "loop", "done", "failed"}
        /\ pc'[Earth] \notin {"restart", "loop", "done", "failed"}
        /\ \A i \in Icecap : pc'[i] = pc[i]
    <3>1. CASE RecvForcingSize \/ Consolidate \/ SendSealevelSize
      BY <3>1 DEF RecvForcingSize, Consolidate, SendSealevelSize
    <3>2. CASE RecvForcing
      BY <3>2 DEF RecvForcing
    <3>3. CASE SendSealevel
      BY <3>3 DEF SendSealevel
    <3> QED BY <1>5, <3>1, <3>2, <3>3
  <2>3. hasComm[Earth]
    BY <1>5 DEF RecvForcingSize, RecvForcing, Consolidate, SendSealevelSize, SendSealevel
  <2>4. RestartInv'
    BY <2>1, <2>2, <2>3
  <2>5. PeerInv'
    BY <1>5 DEF RecvForcingSize, RecvForcing, Consolidate, SendSealevelSize, SendSealevel
  <2> QED BY <2>4, <2>5
<1>6. ASSUME NEW converged \in BOOLEAN, SolveSealevel(converged)
      PROVE  RestartInv' /\ PeerInv'
  <2>1. /\ pc[Earth] = "solve" /\ UNCHANGED <<step, peer, job>>
        /\ UNCHANGED pc \/ pc' = [pc EXCEPT ![Earth] = "sealevel nv"]
    BY <1>6, Zenon DEF SolveSealevel
  <2>2. hasComm[Earth] /\ UNCHANGED hasComm
    BY <2>1 DEF job
  <2>3. step[Earth] # 0
    BY <2>1
  <2> QED BY <2>1, <2>2, <2>3
<1>7. CASE Relaunch
  BY <1>7 DEF Relaunch, FirstTask
<1> QED
  BY <1>1, <1>2, <1>3, <1>4, <1>5, <1>6, <1>7 DEF Next, EarthStep, IcecapStep, ModelStep

LEMMA InitIInv == Init => IInv
<1> SUFFICES ASSUME Init
             PROVE  IInv
  OBVIOUS
<1> USE Models, CouplingAssumption DEF Init
<1>1. TypeOK
  <2>1. \A m \in Model : Blank(m) \in Field(m)
    BY BlankType
  <2>2. pc \in [Model -> PC]
    BY DEF FirstTask, PC
  <2> QED BY <2>1, <2>2 DEF TypeOK
<1>2. ExchangeInv
  BY DEF ExchangeInv, ExchangeOf, Exchange, EarthIdle, Answered, FirstTask, Idle
<1>3. DataInv
  BY DEF DataInv, ThicknessInv, ConsolidatedInv, SealevelInv, RestartInv, PeerInv, FirstTask
<1> QED BY <1>1, <1>2, <1>3 DEF IInv

LEMMA StutterIInv == IInv /\ UNCHANGED vars => IInv'
<1> SUFFICES ASSUME IInv, UNCHANGED vars
             PROVE  IInv'
  OBVIOUS
<1> USE DEF IInv, vars
<1>1. TypeOK'
  BY DEF TypeOK
<1>2. ExchangeInv'
  <2>1. \A i : V(i)' = V(i)
    BY DEF V, Thickness
  <2>2. \A i : S(i)' = S(i)
    OBVIOUS
  <2>3. \A i \in Icecap : ExchangeOf(i)
    BY DEF ExchangeInv
  <2>4. ASSUME NEW i \in Icecap
        PROVE  ExchangeOf(i)'
    <3>1. /\ (EarthIdle(i)' <=> EarthIdle(i)) /\ (AwaitsSize(i)' <=> AwaitsSize(i))
          /\ (AwaitsValues(i)' <=> AwaitsValues(i)) /\ (HasForcing(i)' <=> HasForcing(i))
          /\ (HasSentSize(i)' <=> HasSentSize(i))
      BY DEF EarthIdle, AwaitsSize, AwaitsValues, HasForcing, HasSentSize
    <3>2. (Sending(i)' <=> Sending(i)) /\ (Answered(i)' <=> Answered(i))
      BY <2>1 DEF Sending, Answered
    <3>3. Exchange(i)' <=> Exchange(i)
      BY <2>1, <3>1, <3>2 DEF Exchange
    <3>4. NoExchange(i)' <=> NoExchange(i)
      BY <3>1, <3>2 DEF NoExchange
    <3> QED BY <2>3, <3>3, <3>4 DEF ExchangeOf
  <2> QED BY <2>4 DEF ExchangeInv
<1>3. DataInv'
  <2>1. \A v : Plugged(v)' = Plugged(v)
    BY DEF Plugged
  <2>2. ConsolidatedInv'
    BY <2>1 DEF DataInv, ConsolidatedInv
  <2>3. ThicknessInv' /\ SealevelInv'
    BY DEF DataInv, ThicknessInv, SealevelInv
  <2>4. RestartInv' /\ PeerInv'
    BY DEF DataInv, RestartInv, PeerInv
  <2> QED BY <2>2, <2>3, <2>4 DEF DataInv
<1> QED BY <1>1, <1>2, <1>3

LEMMA Invariance == Spec => []IInv
<1>1. IInv /\ [Next]_vars => IInv'
  BY TypeStep, ExchangeStep, ThicknessStep, ConsolidatedStep, SealevelStep, RestartStep, StutterIInv
  DEF IInv, DataInv
<1> QED BY InitIInv, <1>1, PTL DEF Spec

-----------------------------------------------------------------------------
\* The variables have their types: what a model receives fits its mesh.
THEOREM TypeCorrect == Spec => []TypeOK
<1>1. IInv => TypeOK
  BY DEF IInv
<1> QED BY Invariance, <1>1, PTL

\* TransferForcing and TransferSealevel agree at both ends on what is sent next and how
\* long it is, however many ice caps there are.
THEOREM MessagesAgree == Spec => []MessagesMatch
<1>1. IInv => MessagesMatch
  <2> SUFFICES ASSUME IInv
               PROVE  MessagesMatch
    OBVIOUS
  <2>1. peer \in Icecap /\ \A i \in Icecap : ExchangeOf(i)
    BY DEF IInv, TypeOK, ExchangeInv
  <2>2. hasComm[Earth] \/ pc[Earth] \in Restarted
    BY Models DEF IInv, DataInv, RestartInv
  <2>3. ASSUME NEW i \in Icecap
        PROVE  S(i).kind = "nv" /\ V(i).kind = "values" /\ V(i).nv = NumVertices[i]
               /\ L(i, step[i]).kind = "values" /\ L(i, step[i]).nv = NumVertices[i]
    <3>1. step[i] \in Nat
      BY Models DEF IInv, TypeOK
    <3>2. Thickness(i, step[i]) \in Field(i) /\ Levels(i, step[i]) \in Field(i)
      BY <3>1, ThicknessType, LevelsType, Models
    <3>3. V(i).kind = "values" /\ V(i).nv = NumVertices[i]
      BY <3>2, VectorType, Models DEF V
    <3>4. L(i, step[i]).kind = "values" /\ L(i, step[i]).nv = NumVertices[i]
      BY <3>2, VectorType, Models DEF L
    <3>5. S(i).kind = "nv"
      BY DEF S, Size
    <3> QED BY <3>3, <3>4, <3>5
  <2>4. ASSUME up[peer] # <<>>, pc[Earth] = "forcing nv"
        PROVE  Head(up[peer]).kind = "nv"
    <3>1. Sending(peer)
      BY <2>1, <2>4 DEF ExchangeOf, Exchange, NoExchange, Answered, AwaitsValues, HasForcing, HasSentSize
    <3>2. up[peer] = <<S(peer)>> \/ up[peer] = <<S(peer), V(peer)>>
      BY <2>4, <3>1 DEF Sending
    <3>3. Head(up[peer]) = S(peer)
      BY <3>2, Queues
    <3> QED BY <2>1, <2>3, <3>3
  <2>5. ASSUME up[peer] # <<>>, pc[Earth] = "forcing values"
        PROVE  Head(up[peer]).kind = "values" /\ Head(up[peer]).nv = nvs[peer]
    <3>1. AwaitsValues(peer)
      BY <2>5 DEF AwaitsValues
    <3>2. hasComm[Earth]
      BY <2>2, <2>5 DEF Restarted
    <3>3. Exchange(peer)
      BY <2>1, <2>5, <3>2 DEF ExchangeOf, NoExchange
    <3>4. ~EarthIdle(peer) /\ ~AwaitsSize(peer) /\ ~HasForcing(peer) /\ ~HasSentSize(peer)
      BY <2>1, <3>1, OnePosition DEF IInv
    <3>5. up[peer] = <<V(peer)>> /\ nvs[peer] = NumVertices[peer]
      BY <2>5, <3>3, <3>4 DEF Exchange
    <3>6. Head(up[peer]) = V(peer)
      BY <3>5, Queues
    <3> QED BY <2>1, <2>3, <3>5, <3>6
  <2>6. ASSUME NEW i \in Icecap, down[i] # <<>>, pc[i] = "sealevel nv"
        PROVE  Head(down[i]).kind = "nv"
    <3>1. down[i] = <<S(i), L(i, step[i])>> \/ down[i] = <<S(i)>>
      BY <2>1, <2>6 DEF ExchangeOf, Exchange, NoExchange, Answered, Sending, Idle
    <3>2. Head(down[i]) = S(i)
      BY <3>1, Queues
    <3> QED BY <2>3, <3>2
  <2>7. ASSUME NEW i \in Icecap, down[i] # <<>>, pc[i] = "sealevel values"
        PROVE  Head(down[i]).kind = "values" /\ Head(down[i]).nv = nv[i] /\ nv[i] = NumVertices[i]
    <3>1. down[i] = <<L(i, step[i])>> /\ nv[i] = NumVertices[i]
      BY <2>1, <2>7 DEF ExchangeOf, Exchange, NoExchange, Answered, Sending, Idle
    <3>2. Head(down[i]) = L(i, step[i])
      BY <3>1, Queues
    <3> QED BY <2>3, <3>1, <3>2
  <2> QED BY <2>4, <2>5, <2>6, <2>7 DEF MessagesMatch
<1> QED BY Invariance, <1>1, PTL

\* The zeroth ranks consolidate the thicknesses of the step that the earth solves for.
THEOREM ForcingIsCurrent == Spec => []ForcingIsOfThisStep
<1>1. IInv => ForcingIsOfThisStep
  <2> SUFFICES ASSUME IInv, pc[Earth] = "solve", NEW v \in 1..NumVertices[Earth]
               PROVE  IF Covering(v) = {} THEN deltathickness[Earth][v] = Zero
                      ELSE \E i \in Covering(v) : \E j \in Places(v, i) :
                             /\ IsLast(i, Covering(v)) /\ IsLast(j, Places(v, i))
                             /\ deltathickness[Earth][v] = Value(i, j, step[Earth])
    BY DEF ForcingIsOfThisStep
  <2>1. deltathickness[Earth][v] = Plugged(v)
    BY DEF IInv, DataInv, ConsolidatedInv
  <2>2. \A i \in Icecap : forcings[i] = Thickness(i, step[Earth])
    BY Models DEF IInv, ExchangeInv, ExchangeOf, Exchange, NoExchange, DataInv, RestartInv, EarthIdle,
                  AwaitsSize, AwaitsValues, HasForcing, HasSentSize, Idle, Restarted
  <2>3. step[Earth] \in Nat
    BY Models DEF IInv, TypeOK
  <2> QED BY <2>1, <2>2, <2>3, PluggedValue
<1> QED BY Invariance, <1>1, PTL

\* TransferSealevel brings each ice cap the sea level of its own step, at its own vertices.
THEOREM SealevelIsCurrent == Spec => []SealevelIsOfThisStep
<1>1. IInv => SealevelIsOfThisStep
  BY DEF IInv, DataInv, SealevelInv, Levels, SealevelIsOfThisStep
<1> QED BY Invariance, <1>1, PTL

\* The blocking exchange of sealevelrise_core keeps the models in step.
THEOREM ModelsInStep == Spec => []InStep
<1>1. IInv => InStep
  <2> SUFFICES ASSUME IInv, NEW i \in Icecap, hasComm[i], hasComm[Earth]
               PROVE  /\ step[i] - step[Earth] \in {-1, 0, 1}
                      /\ pc[i] \in BetweenSteps /\ pc[Earth] \in BetweenSteps => step[i] = step[Earth]
    BY DEF InStep
  <2>1. Exchange(i)
    BY DEF IInv, ExchangeInv, ExchangeOf
  <2>2. step[i] \in Int /\ step[Earth] \in Int
    BY Models DEF IInv, TypeOK
  <2>3. step[i] = step[Earth] \/ step[i] = step[Earth] + 1 \/ step[i] = step[Earth] - 1
    BY <2>1 DEF Exchange
  <2>4. ASSUME pc[i] \in BetweenSteps, pc[Earth] \in BetweenSteps
        PROVE  step[i] = step[Earth]
    BY <2>1, <2>4 DEF BetweenSteps, Exchange, Answered, Sending, AwaitsSize, AwaitsValues, HasForcing, HasSentSize
  <2>5. step[i] - step[Earth] \in {-1, 0, 1}
    BY <2>2, <2>3
  <2> QED BY <2>4, <2>5
<1> QED BY Invariance, <1>1, PTL

=============================================================================
