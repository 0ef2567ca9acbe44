-------------------------- MODULE MCModelProcessor --------------------------
(***************************************************************************)
(* Small meshes of each kind for ModelProcessor, each with the analyses    *)
(* and finite elements that the code has for it, on two ranks.             *)
(***************************************************************************)
EXTENDS ModelProcessor

\* A strip of four triangles; the same, cut by a rift; a vertical section.
Strip   == [kind |-> "tria", domain |-> "2Dhorizontal", nv |-> 6, onbase |-> {},
            elements |-> << <<1, 2, 3>>, <<2, 4, 3>>, <<3, 4, 5>>, <<4, 6, 5>> >>]
Rifted  == [Strip EXCEPT !.nv = 8,
            !.elements = << <<1, 2, 3>>, <<2, 4, 3>>, <<5, 6, 7>>, <<6, 8, 7>> >>]
Section == [kind |-> "tria", domain |-> "2Dvertical", nv |-> 5, onbase |-> {1, 2, 5},
            elements |-> << <<1, 2, 3>>, <<2, 4, 3>>, <<2, 5, 4>> >>]
\* Three tetrahedra; three prisms in each of two layers.
Tetras  == [kind |-> "tetra", domain |-> "3D", nv |-> 6, onbase |-> {1, 2, 3},
            elements |-> << <<1, 2, 3, 4>>, <<2, 3, 4, 5>>, <<3, 4, 5, 6>> >>]
Column(base) == [k \in 1..6 |-> IF k <= 3 THEN base[k] ELSE base[k - 3] + 5]
Raised(element) == [k \in 1..6 |-> element[k] + 5]
Prisms  == [kind |-> "penta", domain |-> "3D", nv |-> 15, onbase |-> 1..5,
            elements |-> LET low == << Column(<<1, 2, 3>>), Column(<<2, 4, 3>>), Column(<<3, 4, 5>>) >>
                         IN  low \o << Raised(low[1]), Raised(low[2]), Raised(low[3]) >>]

Ice(model, fe) == [name |-> "Stressbalance", model |-> model, fe |-> fe, stabilization |-> 0]
Other(name)    == [name |-> name, model |-> "none", fe |-> "P1", stabilization |-> 0]
Thickness(s)   == [name |-> "Masstransport", model |-> "none", fe |-> "P1", stabilization |-> s]

\* Pairs across both directions, as test1110.m makes them: two of them form a chain.
Periodic == << <<1, 5>>, <<2, 6>>, <<1, 2>>, <<5, 6>> >>
NoPairs == [stressbalance |-> << >>, masstransport |-> << >>]
Spc(layout, mesh, some, times) ==
  [layout |-> layout, at |-> [v \in 1..mesh.nv |-> IF v \in some THEN times ELSE {}]]

\* A prism has the rank of its column; the others have any partition that leaves
\* no rank without elements, after the rifts, too.
Partitions(mesh, rifts) ==
  {p \in [1..Len(mesh.elements) -> Ranks] :
     /\ Ranks = Range(Epart([epart |-> p, rifts |-> rifts]))
     /\ mesh.kind = "penta" => \A e \in 1..3 : p[e] = p[e + 3]}

Family(mesh, analyses, rifts, pairings, spcs, none) ==
  {[mesh |-> mesh, analyses |-> as, epart |-> p, rifts |-> rifts, pairing |-> q, spc |-> spc, none |-> none] :
     as \in analyses, p \in Partitions(mesh, rifts), q \in pairings, spc \in spcs}

\* Static fields for every finite element, transient ones for those that take them.
StaticOn(mesh, some) == {Spc("static", mesh, some, {0})}
TransientOn(mesh, some, others) ==
  {[Spc("transient", mesh, some, {1, 2}) EXCEPT !.at = [v \in 1..mesh.nv |->
      IF v \in some THEN {1, 2} ELSE IF v \in others THEN {2} ELSE {}]]}

StripSettings ==
  Family(Strip, {<<Ice("SSA", fe), Thickness(1)>> : fe \in {"P1", "P1bubble", "P1bubblecondensed", "P2"}}
                  \cup {<<Thickness(1), Ice("SSA", "P1")>>, <<Ice("L1L2", "P1"), Thickness(1)>>},
         << >>, {[stressbalance |-> << <<1, 5>>, <<2, 6>> >>, masstransport |-> << <<1, 5>>, <<2, 6>> >>]},
         StaticOn(Strip, {1, 2, 3, 5}), {})
  \cup Family(Strip, {<<Ice("SIA", "P1"), Thickness(3)>>, <<Ice("SSA", "P2"), Thickness(3)>>,
                      <<Thickness(3), Other("HydrologyDCInefficient")>>},
              << >>, {NoPairs}, TransientOn(Strip, {1, 2, 3}, {4, 5}), {})
  \cup Family(Strip, {<<Ice("SSA", "P1"), Thickness(1)>>}, << >>,
              {[stressbalance |-> Periodic, masstransport |-> Periodic]}, StaticOn(Strip, {1, 2, 3, 5}), {})
  \cup Family(Strip, {<<Ice("SSA", "P2bubble"), Other("HydrologyDCInefficient")>>},
              << >>, {NoPairs}, StaticOn(Strip, {1, 2, 3, 5}), {})

RiftSettings ==
  Family(Rifted, {<<Ice("SSA", "P1"), Thickness(1)>>, <<Thickness(1), Ice("SSA", "P1")>>},
         << [node1 |-> 3, node2 |-> 5, el1 |-> 2, el2 |-> 3], [node1 |-> 4, node2 |-> 6, el1 |-> 2, el2 |-> 3] >>,
         {NoPairs}, StaticOn(Rifted, {1, 8}), {})

SectionSettings ==
  Family(Section, {<<Ice("FS", fe), Thickness(1)>> :
                     fe \in {"P1P1", "P1P1GLS", "LATaylorHood", "LACrouzeixRaviart", "CrouzeixRaviart"}}
                    \cup {<<Ice("HO", fe)>> : fe \in {"P1", "P1bubble", "P2"}},
         << >>, {NoPairs}, StaticOn(Section, {1, 2, 3}), {})
  \cup Family(Section, {<<Ice("FS", fe), Thickness(1)>> : fe \in {"MINI", "MINIcondensed", "TaylorHood", "XTaylorHood"}},
              << >>, {[stressbalance |-> << <<1, 5>>, <<3, 4>> >>, masstransport |-> << <<1, 5>>, <<3, 4>> >>]},
              StaticOn(Section, {1, 2, 3}), {3, 4})

TetraSettings ==
  Family(Tetras, {<<Ice("FS", fe), Thickness(1)>> : fe \in {"MINI", "MINIcondensed", "TaylorHood"}}
                   \cup {<<Ice("HO", "P2"), Other("Thermal")>>},
         << >>, {NoPairs}, StaticOn(Tetras, {1, 3, 4, 6}), {2, 6})
  \cup Family(Tetras, {<<Other("Melting"), Ice("FS", "LATaylorHood")>>},
              << >>, {NoPairs}, StaticOn(Tetras, {1, 3, 4, 6}), {})

PrismSettings ==
  Family(Prisms, {<<Ice("HO", fe), Other("Melting")>> :
                    fe \in {"P1", "P1bubble", "P1xP2", "P1xP3", "P2xP1", "P2", "P2bubble", "P2xP4"}}
                   \cup {<<Ice("FS", fe), Other("Thermal")>> :
                           fe \in {"P1P1", "TaylorHood", "OneLayerP4z", "CrouzeixRaviart", "LACrouzeixRaviart"}}
                   \cup {<<Ice("SSA", "P1"), Other("HydrologyDCInefficient")>>},
         << >>, {NoPairs}, StaticOn(Prisms, {1, 2, 4, 6, 7, 9, 11, 12, 13}), {})
  \cup Family(Prisms, {<<Ice("HO", fe)>> : fe \in {"P1xP2", "P1xP3", "P2xP1", "P2"}},
              << >>, {NoPairs}, TransientOn(Prisms, {1, 2, 4, 6, 7}, {9, 11}), {})
  \cup Family(Prisms, {<<Ice("FS", "MINI"), Thickness(1)>>},
              << >>, {NoPairs}, StaticOn(Prisms, {1, 2, 6, 7}), {11, 12})

MCSettings == StripSettings \cup RiftSettings \cup SectionSettings \cup TetraSettings \cup PrismSettings

\* The models of the instance satisfy what the theorems assume.
ASSUME SettingsAreSound == ModelsAreSound /\ LoadsAreSound /\ PairsComeInTurn /\ PressureIsWherePut
=============================================================================
