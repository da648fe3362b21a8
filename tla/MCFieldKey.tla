------------------------------ MODULE MCFieldKey ------------------------------
(* One room between two exits, the way to one tagged "wing#2" and to the other  *)
(* "wing".  Of two evacuations the first asks for "wing#2", the second for "wing" *)
(* without "2#".                                                            *)
EXTENDS Planning, TLC

Unmeasured == -1
Text(tokens) == [i \in DOMAIN tokens |-> <<tokens[i]>>]

Node(x, type) ==
  [floor |-> 0, x |-> x, y |-> 0, type |-> type, vis |-> "PUBLIC", poi |-> 0, code |-> 0]
Walkway(a, b, px, tag) ==
  [src |-> a, dst |-> b, dir |-> "BOTH", transit |-> "WALKWAY", accessible |-> TRUE,
   vis |-> "PUBLIC", tags |-> {tag}, rank |-> "PRIMARY", px |-> px, weight |-> px,
   lengthM |-> NoLength]
Wings ==
  [rated |-> FALSE, scale |-> [f \in {0} |-> 1], drawn |-> {}, hidden |-> {},
   node |-> ("o" :> Node(5, "ROOM")) @@ ("x" :> Node(0, "EMERGENCY_EXIT"))
         @@ ("y" :> Node(15, "EMERGENCY_EXIT")),
   edge |-> (1 :> Walkway("o", "x", 5, Text(<<"wing", "#", "2">>)))
         @@ (2 :> Walkway("o", "y", 10, Text(<<"wing">>)))]

OneBuilding == {Wings}
Open == {{}}
Evacuation(include, exclude) ==
  [mode |-> "evacuate", name |-> "emergency", explicit |-> FALSE, include |-> include,
   exclude |-> exclude, heading |-> 4, from |-> "o", to |-> <<>>]
Asked ==
  { Evacuation(<<Text(<<"wing", "#", "2">>)>>, <<>>),
    Evacuation(<<Text(<<"wing">>)>>, <<Text(<<"2", "#">>)>>) }
=============================================================================
