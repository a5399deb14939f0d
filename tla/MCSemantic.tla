----------------------------- MODULE MCSemantic -----------------------------
(* A root with a table of items and a field: a list longer than one page, *)
(* an item with a child too deep to read, and a parent that is nowhere.   *)
EXTENDS Semantic, TLC

CONSTANTS root, table, i1, i2, x, field1

MCNodes == {root, table, i1, i2, x, field1}

Tree(f) == f @@ [n \in MCNodes |-> <<>>]

MCTrees ==
  {Tree(root :> <<table, field1>> @@ table :> <<i1, i2>>),
   Tree(root :> <<table, x>> @@ table :> <<i1>> @@ x :> <<i2>> @@ i2 :> <<field1>>)}

MCPlaced == MCNodes \ {x}

MCRoleOf == [n \in MCNodes |-> IF n \in {root, table, field1} THEN n ELSE "item"]

MCShapes ==
  [lists : {{i1, i2, field1}}, skeleton : BOOLEAN]

MCConditions ==
  {[appears |-> FALSE, lists |-> {i2}], [appears |-> TRUE, lists |-> {field1}]}

MCVerbs ==
  {[verb |-> "select", wanted |-> TRUE], [verb |-> "toggle", wanted |-> FALSE],
   [verb |-> "toggle", wanted |-> TRUE], [verb |-> "type", wanted |-> TRUE]}
=============================================================================
