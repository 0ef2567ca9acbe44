------------------------------ MODULE SlrCoupling ------------------------------
(***************************************************************************)
(* Several models in one job: ice caps and the earth, which compute the    *)
(* sea level together.  Each model has ranks and a communicator of its     *)
(* own, and runs the transient solution on it.  At every step the ice caps *)
(* send their change of thickness to the earth, the earth solves for the   *)
(* sea level, and sends it back.                                           *)
(*                                                                         *)
(* The zeroth ranks talk over one intercommunicator for each ice cap, and  *)
(* the other ranks of a model follow their zeroth rank in collectives: a   *)
(* process here is a model.  What a model computes in a step is a function *)
(* of the step and of what it has received, so that a value is named by    *)
(* the model, the vertex and the step it comes from.                       *)
(***************************************************************************)
EXTENDS Integers, Sequences, FiniteSets

CONSTANTS
  NumIcecaps,
  NumVertices,   \* NumVertices[m]: the vertices of model m
  Transitions,   \* Transitions[i][j]: the vertex of the earth at vertex j of ice cap i
  MaxIterations, \* max_nonlinear_iterations of the sea level
  Settings,      \* the settings to consider
  MaxLaunches    \* (bound) how often the job is launched

Earth == NumIcecaps
Icecap == 0..(NumIcecaps - 1)
Model == 0..NumIcecaps

\* The ice caps have as many vertices as their transitions: the client checks it.
ASSUME CouplingAssumption ==
  /\ NumIcecaps \in Nat \ {0} /\ MaxIterations \in Nat /\ MaxLaunches \in Nat \ {0}
  /\ NumVertices \in [Model -> Nat \ {0}]
  /\ Transitions \in [Icecap -> Seq(1..NumVertices[Earth])]
  /\ \A i \in Icecap : Len(Transitions[i]) = NumVertices[i]
  /\ Settings \subseteq [steps : [Model -> Nat], recording : [Model -> Nat], eager : BOOLEAN]

VARIABLES
  pc,             \* pc[m]: what the zeroth rank of model m does next
  settings,
  step,           \* step[m]: StepEnum
  deltathickness, \* deltathickness[m][j]: SealevelriseDeltathicknessEnum at vertex j
  sealevel,       \* sealevel[m][j]: SealevelEnum at vertex j
  hasComm,        \* hasComm[m]: IcecapToEarthCommEnum is among the parameters
  peer,           \* the ice cap the earth turns to, in its loops over the ice caps
  count,          \* the count of the iterations on the sea level
  nvs,            \* nvs[i]: the number of values that ice cap i has announced
  nv,             \* nv[i]: the number of values that the earth has announced to i
  forcings,       \* forcings[i]: what the earth has received from ice cap i
  up, down,       \* up[i], down[i]: the messages from ice cap i to the earth, and back
  rst,            \* rst[m]: the restart files of model m
  launches

inputs  == <<step, deltathickness, sealevel>>
earths  == <<peer, count, nvs, forcings>>
network == <<up, down>>
job     == <<settings, hasComm, rst, launches>>
vars    == <<pc, settings, step, deltathickness, sealevel, hasComm, peer, count, nvs, nv,
             forcings, up, down, rst, launches>>

Goto(m, from, to) == pc[m] = from /\ pc' = [pc EXCEPT ![m] = to]

Value(from, at, s) == [from |-> from, at |-> at, step |-> s]
Zero == Value(Earth, 0, 0)

-----------------------------------------------------------------------------
(***************************************************************************)
(* Messages.  A size and a vector, in this order, with the same tag.       *)
(***************************************************************************)
Size(n) == [kind |-> "nv", nv |-> n, values |-> <<>>]
Vector(values) == [kind |-> "values", nv |-> Len(values), values |-> values]

\* MPI_Send returns at once if the message is eager, else when it has been received.
Sent(queue) == settings.eager \/ queue = <<>>

AllSent(m) == IF m = Earth THEN \A i \in Icecap : Sent(down[i]) ELSE Sent(up[m])

-----------------------------------------------------------------------------
(***************************************************************************)
(* The time loop of a model.                                               *)
(***************************************************************************)
Restart(m) ==
  /\ Goto(m, "restart", "loop")
  /\ IF rst[m].step = 0
     THEN UNCHANGED <<inputs, hasComm>>
     ELSE \* The parameters are those of the file, which holds no communicator.
          /\ step' = [step EXCEPT ![m] = rst[m].step]
          /\ deltathickness' = [deltathickness EXCEPT ![m] = rst[m].deltathickness]
          /\ sealevel' = [sealevel EXCEPT ![m] = rst[m].sealevel]
          /\ hasComm' = [hasComm EXCEPT ![m] = FALSE]
  /\ UNCHANGED <<settings, earths, nv, network, rst, launches>>

\* (mutant) an ice cap waits for the sea level before it sends its forcing
FirstTransfer_Sealevel(m) == IF m = Earth THEN "forcing nv" ELSE "sealevel nv"

FirstTransfer(m) == "forcing nv"

Thickness(m, s) == [j \in 1..NumVertices[m] |-> Value(m, j, s)]

\* One step: the solutions before the sea level, of which the earth has none.
Loop(m) ==
  /\ Goto(m, "loop", IF step[m] < settings.steps[m] THEN FirstTransfer(m) ELSE "done")
  /\ IF step[m] < settings.steps[m]
     THEN /\ step' = [step EXCEPT ![m] = @ + 1]
          /\ deltathickness' = IF m = Earth THEN deltathickness
                               ELSE [deltathickness EXCEPT ![m] = Thickness(m, step'[m])]
          /\ peer' = IF m = Earth THEN 0 ELSE peer
     ELSE UNCHANGED <<step, deltathickness, peer>>
  /\ UNCHANGED <<sealevel, count, nvs, nv, forcings, network, job>>

\* TransferForcing looks for the communicator first.
CommNotFound(m) ==
  /\ ~hasComm[m]
  /\ Goto(m, "forcing nv", "failed")
  /\ UNCHANGED <<inputs, earths, nv, network, job>>

-----------------------------------------------------------------------------
(***************************************************************************)
(* TransferForcing.                                                        *)
(***************************************************************************)
SendForcingSize(i) ==
  /\ hasComm[i]
  /\ Goto(i, "forcing nv", "forcing values")
  /\ up' = [up EXCEPT ![i] = Append(@, Size(NumVertices[i]))]
  /\ UNCHANGED <<inputs, earths, nv, down, job>>

\* (mutant) an ice cap goes on with its next step, and reads the sea level later
AfterForcing_GoOn == "record"

AfterForcing == "sealevel nv"

SendForcing(i) ==
  /\ Sent(up[i])
  /\ Goto(i, "forcing values", AfterForcing)
  /\ up' = [up EXCEPT ![i] = Append(@, Vector(deltathickness[i]))]
  /\ UNCHANGED <<inputs, earths, nv, down, job>>

RecvForcingSize ==
  /\ hasComm[Earth] /\ up[peer] # <<>>
  /\ Goto(Earth, "forcing nv", "forcing values")
  /\ nvs' = [nvs EXCEPT ![peer] = Head(up[peer]).nv]
  /\ up' = [up EXCEPT ![peer] = Tail(@)]
  /\ UNCHANGED <<inputs, peer, count, nv, forcings, down, job>>

\* (mutant) the loop goes on for one model more
LastIcecap_OneTooFar == peer = NumIcecaps

LastIcecap == peer = NumIcecaps - 1

RecvForcing ==
  /\ up[peer] # <<>>
  /\ Goto(Earth, "forcing values", IF LastIcecap THEN "consolidate" ELSE "forcing nv")
  /\ forcings' = [forcings EXCEPT ![peer] = Head(up[peer]).values]
  /\ up' = [up EXCEPT ![peer] = Tail(@)]
  /\ peer' = IF LastIcecap THEN 0 ELSE peer + 1
  /\ UNCHANGED <<inputs, count, nvs, nv, down, job>>

\* The places where a vertex of the earth gets a value, in ice cap i.
Places(v, i) == {j \in 1..Len(Transitions[i]) : Transitions[i][j] = v}
Covering(v) == {i \in Icecap : Places(v, i) # {}}

IsLast(x, S) == x \in S /\ \A y \in S : y <= x

\* (mutant) the values that are plugged in first stay
Plugged_First(v) ==
  IF Covering(v) = {} THEN Zero
  ELSE LET i == CHOOSE x \in Covering(v) : \A y \in Covering(v) : x <= y
           j == CHOOSE x \in Places(v, i) : \A y \in Places(v, i) : x <= y
       IN  forcings[i][j]

\* Plugged in with INS_VAL, by ice cap and by place: the last value stays.
Plugged(v) ==
  IF Covering(v) = {} THEN Zero
  ELSE LET i == CHOOSE x \in Covering(v) : IsLast(x, Covering(v))
           j == CHOOSE x \in Places(v, i) : IsLast(x, Places(v, i))
       IN  forcings[i][j]

Consolidate ==
  /\ Goto(Earth, "consolidate", "solve")
  /\ deltathickness' = [deltathickness EXCEPT
                          ![Earth] = [v \in 1..NumVertices[Earth] |-> Plugged(v)]]
  /\ count' = 1
  /\ UNCHANGED <<step, sealevel, peer, nvs, nv, forcings, network, job>>

-----------------------------------------------------------------------------
(***************************************************************************)
(* The sea level, by iteration.  Whether an iteration converges is a       *)
(* matter of the data.                                                     *)
(***************************************************************************)
SolveSealevel(converged) ==
  /\ pc[Earth] = "solve"
  /\ count' = count + 1
  /\ IF converged \/ count' >= MaxIterations
     THEN /\ pc' = [pc EXCEPT ![Earth] = "sealevel nv"]
          /\ sealevel' = [sealevel EXCEPT
                            ![Earth] = [v \in DOMAIN @ |-> Value(Earth, v, step[Earth])]]
     ELSE UNCHANGED <<pc, sealevel>>
  /\ UNCHANGED <<step, deltathickness, peer, nvs, nv, forcings, network, job>>

-----------------------------------------------------------------------------
(***************************************************************************)
(* TransferSealevel.                                                       *)
(***************************************************************************)
\* (mutant) the size that is sent is that of the mesh of the earth
SealevelSize_OfEarth(i) == NumVertices[Earth]

SealevelSize(i) == Len(Transitions[i])

SendSealevelSize ==
  /\ AllSent(Earth)
  /\ Goto(Earth, "sealevel nv", "sealevel values")
  /\ down' = [down EXCEPT ![peer] = Append(@, Size(SealevelSize(peer)))]
  /\ UNCHANGED <<inputs, earths, nv, up, job>>

\* (mutant) the values are taken in the order of the vertices of the earth
SealevelOf_NotByTransition(i) == [j \in 1..Len(Transitions[i]) |-> sealevel[Earth][j]]

SealevelOf(i) == [j \in 1..Len(Transitions[i]) |-> sealevel[Earth][Transitions[i][j]]]

SendSealevel ==
  /\ AllSent(Earth)
  /\ Goto(Earth, "sealevel values", IF LastIcecap THEN "record" ELSE "sealevel nv")
  /\ down' = [down EXCEPT ![peer] = Append(@, Vector(SealevelOf(peer)))]
  /\ peer' = IF LastIcecap THEN 0 ELSE peer + 1
  /\ UNCHANGED <<inputs, count, nvs, nv, forcings, up, job>>

RecvSealevelSize(i) ==
  /\ Sent(up[i]) /\ down[i] # <<>>
  /\ Goto(i, "sealevel nv", "sealevel values")
  /\ nv' = [nv EXCEPT ![i] = Head(down[i]).nv]
  /\ down' = [down EXCEPT ![i] = Tail(@)]
  /\ UNCHANGED <<inputs, earths, up, job>>

RecvSealevel(i) ==
  /\ down[i] # <<>>
  /\ Goto(i, "sealevel values", "record")
  /\ sealevel' = [sealevel EXCEPT ![i] = Head(down[i]).values]
  /\ down' = [down EXCEPT ![i] = Tail(@)]
  /\ UNCHANGED <<step, deltathickness, earths, nv, up, job>>

-----------------------------------------------------------------------------
\* The end of a step: the checkpoint of the model.
File(m) == [step |-> step[m], deltathickness |-> deltathickness[m], sealevel |-> sealevel[m]]

Record(m) ==
  /\ AllSent(m)
  /\ Goto(m, "record", "loop")
  /\ rst' = IF settings.recording[m] # 0 /\ step[m] % settings.recording[m] = 0
            THEN [rst EXCEPT ![m] = File(m)] ELSE rst
  /\ UNCHANGED <<inputs, earths, nv, network, settings, hasComm, launches>>

-----------------------------------------------------------------------------
(***************************************************************************)
(* The job.                                                                *)
(***************************************************************************)
FirstTask(m) == IF settings.recording[m] # 0 THEN "restart" ELSE "loop"

Blank(m) == [j \in 1..NumVertices[m] |-> Zero]

Init ==
  /\ settings \in Settings
  /\ pc = [m \in Model |-> FirstTask(m)]
  /\ step = [m \in Model |-> 0]
  /\ deltathickness = [m \in Model |-> Blank(m)]
  /\ sealevel = [m \in Model |-> Blank(m)]
  /\ hasComm = [m \in Model |-> TRUE]
  /\ peer = 0 /\ count = 0
  /\ nvs = [i \in Icecap |-> 0]
  /\ nv = [i \in Icecap |-> 0]
  /\ forcings = [i \in Icecap |-> <<>>]
  /\ up = [i \in Icecap |-> <<>>]
  /\ down = [i \in Icecap |-> <<>>]
  /\ rst = [m \in Model |-> [step |-> 0, deltathickness |-> Blank(m), sealevel |-> Blank(m)]]
  /\ launches = 1

\* The job ends, at its end or because it is killed with all its models, and is
\* launched again: what is left are the restart files.
Relaunch ==
  /\ launches < MaxLaunches
  /\ launches' = launches + 1
  /\ pc' = [m \in Model |-> FirstTask(m)]
  /\ step' = [m \in Model |-> 0]
  /\ deltathickness' = [m \in Model |-> Blank(m)]
  /\ sealevel' = [m \in Model |-> Blank(m)]
  /\ hasComm' = [m \in Model |-> TRUE]
  /\ peer' = 0 /\ count' = 0
  /\ nvs' = [i \in Icecap |-> 0]
  /\ nv' = [i \in Icecap |-> 0]
  /\ forcings' = [i \in Icecap |-> <<>>]
  /\ up' = [i \in Icecap |-> <<>>]
  /\ down' = [i \in Icecap |-> <<>>]
  /\ UNCHANGED <<settings, rst>>

ModelStep(m) == Restart(m) \/ Loop(m) \/ CommNotFound(m) \/ Record(m)

IcecapStep(i) ==
  \/ ModelStep(i)
  \/ SendForcingSize(i) \/ SendForcing(i)
  \/ RecvSealevelSize(i) \/ RecvSealevel(i)

EarthStep ==
  \/ ModelStep(Earth)
  \/ RecvForcingSize \/ RecvForcing \/ Consolidate
  \/ \E converged \in BOOLEAN : SolveSealevel(converged)
  \/ SendSealevelSize \/ SendSealevel

Next == EarthStep \/ (\E i \in Icecap : IcecapStep(i)) \/ Relaunch

Spec == Init /\ [][Next]_vars

\* A rank does not stop by itself, and a message that was sent gets there.
FairSpec == Spec /\ WF_vars(EarthStep) /\ \A i \in Icecap : WF_vars(IcecapStep(i))

-----------------------------------------------------------------------------
(***************************************************************************)
(* Properties.                                                             *)
(***************************************************************************)
PC == {"restart", "loop", "forcing nv", "forcing values", "consolidate", "solve",
       "sealevel nv", "sealevel values", "record", "done", "failed"}

Values == [from : Model, at : Nat, step : Nat]
Vectors == [kind : {"values"}, nv : Nat, values : Seq(Values)]
Messages == [kind : {"nv"}, nv : Nat, values : {<<>>}] \cup Vectors
Field(m) == [1..NumVertices[m] -> Values]

\* Every variable has its type; a vector of the inputs has the size of its mesh.
TypeOK ==
  /\ pc \in [Model -> PC]
  /\ settings \in Settings
  /\ step \in [Model -> Nat]
  /\ DOMAIN deltathickness = Model /\ DOMAIN sealevel = Model /\ DOMAIN rst = Model
  /\ \A m \in Model : deltathickness[m] \in Field(m) /\ sealevel[m] \in Field(m)
  /\ hasComm \in [Model -> BOOLEAN]
  /\ peer \in Icecap
  /\ count \in Nat
  /\ nvs \in [Icecap -> Nat]
  /\ nv \in [Icecap -> Nat]
  /\ forcings \in [Icecap -> Seq(Values)]
  /\ up \in [Icecap -> Seq(Messages)]
  /\ down \in [Icecap -> Seq(Messages)]
  /\ \A m \in Model : rst[m].step \in Nat /\ rst[m].deltathickness \in Field(m)
                                         /\ rst[m].sealevel \in Field(m)
  /\ launches \in 1..MaxLaunches

\* What is received is what is waited for: a size where a size is read, and as many
\* values as were announced, which are as many as the receiver has vertices for.
MessagesMatch ==
  /\ up[peer] # <<>> =>
       /\ pc[Earth] = "forcing nv" => Head(up[peer]).kind = "nv"
       /\ pc[Earth] = "forcing values" =>
            Head(up[peer]).kind = "values" /\ Head(up[peer]).nv = nvs[peer]
  /\ \A i \in Icecap : down[i] # <<>> =>
       /\ pc[i] = "sealevel nv" => Head(down[i]).kind = "nv"
       /\ pc[i] = "sealevel values" =>
            Head(down[i]).kind = "values" /\ Head(down[i]).nv = nv[i] /\ nv[i] = NumVertices[i]

\* The forcing of the earth is that of its own step: at a vertex that ice caps cover
\* the value of the last of them, at any other nothing.
ForcingIsOfThisStep ==
  pc[Earth] = "solve" =>
    \A v \in 1..NumVertices[Earth] :
      IF Covering(v) = {} THEN deltathickness[Earth][v] = Zero
      ELSE \E i \in Covering(v) : \E j \in Places(v, i) :
             /\ IsLast(i, Covering(v)) /\ IsLast(j, Places(v, i))
             /\ deltathickness[Earth][v] = Value(i, j, step[Earth])

\* An ice cap ends its step with the sea level that the earth has computed for the
\* same step, at the vertices where the ice cap is on the earth.
SealevelIsOfThisStep ==
  \A i \in Icecap : pc[i] = "record" =>
    \A j \in 1..NumVertices[i] : sealevel[i][j] = Value(Earth, Transitions[i][j], step[i])

BetweenSteps == {"loop", "done"}

\* No model is ahead of another by more than a step, and two models that are both
\* between steps, or at their end, are at the same step: a job cannot end if its
\* models do not have the same number of steps.
InStep ==
  \A i \in Icecap : hasComm[i] /\ hasComm[Earth] =>
    /\ step[i] - step[Earth] \in {-1, 0, 1}
    /\ pc[i] \in BetweenSteps /\ pc[Earth] \in BetweenSteps => step[i] = step[Earth]

SameSteps == \A m \in Model : settings.steps[m] = settings.steps[Earth]

\* Models that have the same number of steps all end, whether the messages wait for
\* their receiver or not, unless one of them was restarted from a checkpoint.
RunEnds == <>[](\/ \A m \in Model : pc[m] = "done"
                \/ ~SameSteps
                \/ \E m \in Model : ~hasComm[m])

=============================================================================
