-------------------------- MODULE MCAdministration --------------------------
(***************************************************************************)
(* Accounts: two requests at a time; a second account holds one of three     *)
(* addresses.  Memberships: two clerks, two users besides the owner, two      *)
(* custom roles besides the seeded one.  Maps: two editors and one reader, a   *)
(* building with four nodes on two floors, or one that is yet to be created.   *)
(***************************************************************************)
EXTENDS Administration

Floor(n) == [number |-> n, name |-> n, walls |-> {}]
Node(f, x, y) == [floor |-> f, place |-> <<x, y>>, type |-> "NORMAL", poi |-> FALSE]
Walk(id, length) == [id |-> id, length |-> length, weight |-> length, transit |-> "WALKWAY", late |-> FALSE]

\* Two floors (1, 2), the nodes 3, 4 and the shop 5 on the first and 6 on the second, a
\* corridor and stairs.
Mall ==
  [site |-> [status |-> "here", owned |-> 1, extra |-> 0], last |-> 8,
   floors |-> 1 :> Floor(1) @@ 2 :> Floor(2),
   nodes |-> 3 :> Node(1, 0, 0) @@ 4 :> Node(1, 0, 3) @@ 6 :> Node(2, 0, 0) @@
             5 :> [Node(1, 4, 0) EXCEPT !.type = "POI", !.poi = TRUE],
   edges |-> <<3, 4>> :> Walk(7, 9) @@
             <<4, 6>> :> [Walk(8, 0) EXCEPT !.weight = 400, !.transit = "STAIRS"]]
Nothing ==
  [site |-> [status |-> "planned", owned |-> 0, extra |-> 0], last |-> 0,
   floors |-> <<>>, nodes |-> <<>>, edges |-> <<>>]

TheMaps == {Mall, Nothing}

Put(n, place, linked, listed, links) ==
  [op |-> "putNode", node |-> n, place |-> place, type |-> "", linked |-> linked,
   listed |-> listed, links |-> links]

Moves ==
  { [op |-> "node", node |-> 3, place |-> <<1, 1>>, type |-> ""],
    [op |-> "node", node |-> 4, place |-> <<2, 0>>, type |-> "TRANSIT"],
    Put(4, <<0, 1>>, TRUE, TRUE, <<5>>), Put(4, <<0, 1>>, TRUE, FALSE, <<>>) }
Wirings ==
  { [op |-> "connect", pair |-> <<5, 4>>, transit |-> "WALKWAY", weight |-> 7],
    [op |-> "link", pair |-> <<6, 3>>, transit |-> "ELEVATOR"],
    [op |-> "join", pair |-> <<3, 5>>],
    [op |-> "autoConnect", floor |-> 1],
    [op |-> "edge", pair |-> <<4, 6>>, transit |-> "ESCALATOR", weight |-> "kept", value |-> 0],
    [op |-> "edge", pair |-> <<3, 4>>, transit |-> "", weight |-> "given", value |-> 5],
    [op |-> "edge", pair |-> <<3, 4>>, transit |-> "", weight |-> "reset", value |-> 0],
    [op |-> "dropEdge", pair |-> <<3, 4>>] }
Placings ==
  { [op |-> "addNode", floor |-> 2, place |-> <<0, 2>>],
    [op |-> "post", number |-> 3, place |-> <<0, 0>>, links |-> <<6>>],
    [op |-> "dropNode", node |-> 4],
    [op |-> "poi", node |-> 5], [op |-> "dropPoi", node |-> 5], [op |-> "dropPoi", node |-> 4] }
Buildings ==
  { [op |-> "floor", number |-> 3], [op |-> "floor", number |-> 4], [op |-> "renumber", floor |-> 2, number |-> 3],
    [op |-> "dropFloor", floor |-> 2], [op |-> "dropAt", number |-> 2],
    [op |-> "profile"], [op |-> "dropBuilding"], [op |-> "erase"], [op |-> "eraseOwner"],
    [op |-> "new", names |-> <<1, 2>>], [op |-> "replace", names |-> <<2, 5, 1>>] }

TheChanges == Moves \cup Wirings \cup Placings \cup Buildings
Costs == [STAIRS |-> 400, ESCALATOR |-> 350, ELEVATOR |-> 300, WALKWAY |-> 400]

Symmetry == Permutations(Process) \cup Permutations(Password) \cup Permutations(Email \ TakenEmail)
            \cup Permutations(Clerk) \cup Permutations(User)
=============================================================================
