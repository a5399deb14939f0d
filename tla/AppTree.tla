------------------------------- MODULE AppTree -------------------------------
(***************************************************************************)
(* The application a walk reads and a verb acts on, as ax.rs and the Linux *)
(* reader meet it: a tree of nodes whose lists change while they are read, *)
(* and answers that may be late, refused, or those of a node no longer     *)
(* there.  GTK: an object dropped from its list may go on answering as it  *)
(* did, and listing what it listed.  Qt: an item of the table is an object *)
(* for its place, and answers for whatever is there now.  All of it is     *)
(* external.                                                               *)
(***************************************************************************)
EXTENDS Integers, Sequences, FiniteSets, SequencesExt, FiniteSetsExt

CONSTANTS
  None, Nodes, Root,
  Table,       \* the list whose items Qt places; on GTK it selects its items
  Trees,       \* the lists the application may begin with
  MaxChanges,  \* bound: changes of a list or of a state
  MaxTroubles  \* bound: messages that are late, refused or half answered

\* A child is one parent's, once; the root is nobody's.
ASSUME TreeAssumption ==
  /\ IsFiniteSet(Nodes) /\ {Root, Table} \subseteq Nodes /\ None \notin Nodes
  /\ \A tree \in Trees :
       /\ tree \in [Nodes -> Seq(Nodes)]
       /\ \A p, q \in Nodes : \A i \in DOMAIN tree[p], j \in DOMAIN tree[q] :
            tree[p][i] # Root /\ (tree[p][i] = tree[q][j] => p = q /\ i = j)

VARIABLES
  toolkit,   \* gtk or qt
  kids,      \* each node's children, in order
  on,        \* the nodes that read on, or selected
  changes,   \* lists and states changed so far
  troubles,
  arranged,  \* history: lists changed so far
  stayed,    \* history: nodes in the tree, and refusing nothing, since the look began
  steady     \* history: those of them that no list moved while it was being read

app_vars == <<toolkit, kids, on, changes, troubles, arranged, stayed, steady>>

Kids(n)   == ToSet(kids[n])

AppInit ==
  /\ toolkit \in {"gtk", "qt"}
  /\ kids \in Trees
  /\ on = {}
  /\ changes = 0 /\ troubles = 0 /\ arranged = 0
  /\ stayed = {} /\ steady = {}

Spread(S) == S \cup UNION {Kids(n) : n \in S}

\* All that is below a node: so many levels that there can be no more.
Below(n) ==
  LET levels[i \in 0 .. Cardinality(Nodes)] ==
        IF i = 0 THEN Kids(n) ELSE Spread(levels[i - 1])
  IN  levels[Cardinality(Nodes)]

Attached == {Root} \cup Below(Root)

\* The root, and the nodes that some node lists, though it may itself be in no tree.
Kept == {Root} \cup UNION {Kids(n) : n \in Nodes}

\* ---- handles --------------------------------------------------------------------

\* What a walk holds of a node: the node it read, its parent then, its place.
RootHandle == [node |-> Root, parent |-> None, path |-> <<>>]

Positional(h) == toolkit = "qt" /\ h.parent = Table

ChildAt(n, i) == IF n # None /\ i \in DOMAIN kids[n] THEN kids[n][i] ELSE None

\* The node a handle answers for now.
Designated(h) == IF Positional(h) THEN ChildAt(Table, Last(h.path)) ELSE h.node

\* The children from place i to place j, as one reply lists them.
HandlesOf(h, i, j) ==
  LET p == Designated(h)
  IN  [k \in 1 .. (IF j < i THEN 0 ELSE j - i + 1) |->
        [node |-> ChildAt(p, i + k - 1), parent |-> p, path |-> Append(h.path, i + k - 1)]]

\* ---- answers --------------------------------------------------------------------

Trouble == troubles < MaxTroubles /\ troubles' = troubles + 1

\* The nodes that can answer.
Present(n) == n # None /\ (toolkit = "gtk" \/ n \in Attached)

\* How a message to a node is answered; mute: its states come too late.
Answers(n, how) ==
  \/ how = "ok" /\ Present(n) /\ UNCHANGED troubles
  \/ how = "gone" /\ n \notin Attached /\ UNCHANGED troubles
  \/ how \in {"late", "refused", "mute"} /\ Trouble /\ n \in Attached

\* ---- what the application and the person do meanwhile -----------------------------

Change == changes < MaxChanges /\ changes' = changes + 1

Rearranges(p, list) ==
  /\ Change
  /\ kids' = [kids EXCEPT ![p] = list]
  /\ arranged' = arranged + 1
  /\ UNCHANGED <<toolkit, on, troubles>>

Removes(p) == \E i \in DOMAIN kids[p] : Rearranges(p, RemoveAt(kids[p], i))

Inserts(p) ==
  \E n \in Nodes \ Kept :
    /\ kids[n] = <<>>
    /\ \E i \in 1 .. Len(kids[p]) + 1 : Rearranges(p, InsertAt(kids[p], i, n))

Sorts(p) ==
  \E i, j \in DOMAIN kids[p] :
    i < j /\ Rearranges(p, [kids[p] EXCEPT ![i] = kids[p][j], ![j] = kids[p][i]])

Flips ==
  /\ Change
  /\ \E n \in Kids(Table) : on' = IF n \in on THEN on \ {n} ELSE on \cup {n}
  /\ UNCHANGED <<toolkit, kids, troubles, arranged, stayed, steady>>
=============================================================================
