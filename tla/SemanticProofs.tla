--------------------------- MODULE SemanticProofs ---------------------------
(***************************************************************************)
(* What a verb sends reaches the control that was listed, ends in what was *)
(* asked, and says so.  The inductive invariant follows a verb from its    *)
(* look to its answer: as long as no list has changed since the look       *)
(* began, what the look found is the control listed, in place.             *)
(*                                                                         *)
(* And a walk leaves out nothing it does not tell of, so that what a wait  *)
(* finds gone is gone.  The inductive invariant (Stands) says where each   *)
(* node in place is: shown by what is listed already, or yet to be come to *)
(* from one frame of the stack, in its page or among the children it has   *)
(* still to read, and from no other.                                       *)
(***************************************************************************)
EXTENDS Semantic, FiniteSetTheorems, SequenceTheorems, TLAPS

-----------------------------------------------------------------------------
(* Counting.                                                               *)

LEMMA HasLeast ==
  ASSUME NEW T, T \subseteq Nat, T # {}
  PROVE  \E x \in T : \A y \in T : x <= y
<1>1. PICK x \in T : \A y \in T : ~(<<y, x>> \in OpToRel(<, Nat))
  BY WFMin, NatLessThanWellFounded
<1>2. ASSUME NEW y \in T PROVE x <= y
  <2>1. ~(y < x) /\ x \in Nat /\ y \in Nat
    BY <1>1 DEF OpToRel
  <2> QED BY <2>1
<1> QED BY <1>2

\* A set of numbers that has 0 and the next of each of its own below N has all to N.
LEMMA CountsUp ==
  ASSUME NEW N \in Nat, NEW S, 0 \in S, \A i \in 0 .. N : i \in S /\ i < N => i + 1 \in S
  PROVE  0 .. N \subseteq S
<1> SUFFICES ASSUME (0 .. N) \ S # {} PROVE FALSE
  OBVIOUS
<1> DEFINE T == (0 .. N) \ S
<1>1. T \subseteq Nat /\ T # {}
  OBVIOUS
<1> HIDE DEF T
<1>2. PICK x \in T : \A y \in T : x <= y
  BY <1>1, HasLeast
<1>3. x # 0 /\ x - 1 \in 0 .. N /\ x - 1 < N /\ x \in Nat
  BY DEF T
<1>4. x - 1 \notin T
  BY <1>2, <1>3
<1> QED
  BY <1>3, <1>4 DEF T

\* A function given by its first value and by each value from the one before it.
Iterated(f, N, X, a, g) ==
  f \in [0 .. N -> X] /\ f[0] = a /\ \A i \in 1 .. N : f[i] = g[i][f[i - 1]]

LEMMA Iterates ==
  ASSUME NEW N \in Nat, NEW X, NEW a \in X, NEW g \in [Nat -> [X -> X]]
  PROVE  \E f : Iterated(f, N, X, a, g)
<1> DEFINE Is(f, n) == f \in [0 .. n -> X] /\ f[0] = a
                       /\ \A i \in 1 .. n : f[i] = g[i][f[i - 1]]
           S == {n \in 0 .. N : \E f \in [0 .. n -> X] : Is(f, n)}
<1>1. 0 \in S
  <2> DEFINE h == [i \in 0 .. 0 |-> a]
  <2>1. h \in [0 .. 0 -> X] /\ h[0] = a /\ 1 .. 0 = {}
    OBVIOUS
  <2>2. Is(h, 0)
    BY <2>1
  <2> HIDE DEF h
  <2> QED BY <2>1, <2>2
<1>2. ASSUME NEW n \in 0 .. N, n \in S, n < N PROVE n + 1 \in S
  <2>1. PICK f \in [0 .. n -> X] : Is(f, n)
    BY <1>2
  <2> DEFINE h == [i \in 0 .. (n + 1) |-> IF i = n + 1 THEN g[n + 1][f[n]] ELSE f[i]]
  <2>2. f[n] \in X /\ g[n + 1][f[n]] \in X /\ n \in Nat
    OBVIOUS
  <2>3. h \in [0 .. (n + 1) -> X]
    BY <2>2
  <2>4. ASSUME NEW i \in 1 .. (n + 1) PROVE h[i] = g[i][h[i - 1]]
    <3>1. CASE i = n + 1
      <4>1. i - 1 = n /\ i \in 0 .. (n + 1) /\ n \in 0 .. (n + 1) /\ n # n + 1
        BY <3>1, <2>2
      <4>2. h[i] = g[n + 1][f[n]] /\ h[i - 1] = f[n]
        BY <3>1, <4>1
      <4> HIDE DEF h
      <4> QED BY <3>1, <4>1, <4>2
    <3>2. CASE i # n + 1
      <4>1. i \in 1 .. n /\ h[i] = f[i] /\ h[i - 1] = f[i - 1]
        BY <3>2, <2>2
      <4> QED BY <4>1, <2>1
    <3> QED BY <3>1, <3>2
  <2>5. h[0] = a
    BY <2>1, <2>2
  <2>6. Is(h, n + 1)
    BY <2>3, <2>4, <2>5
  <2>7. n + 1 \in 0 .. N
    BY <1>2
  <2> HIDE DEF h
  <2>8. \E e \in [0 .. (n + 1) -> X] : Is(e, n + 1)
    BY <2>3, <2>6
  <2> QED BY <2>7, <2>8
<1> HIDE DEF S
<1>3. N \in S
  <2>1. 0 .. N \subseteq S
    BY <1>1, <1>2, CountsUp
  <2> QED BY <2>1
<1>4. PICK f \in [0 .. N -> X] : Is(f, N)
  BY <1>3 DEF S
<1> QED BY <1>4 DEF Iterated

-----------------------------------------------------------------------------
(* The tree.                                                               *)

TreeOK == kids \in [Nodes -> Seq(Nodes)]

LEMMA KidsAreNodes == TreeOK => \A n \in Nodes : Kids(n) \in SUBSET Nodes
BY DEF TreeOK, Kids, ToSet

LEMMA SpreadsAreNodes ==
  ASSUME TreeOK, NEW S \in SUBSET Nodes
  PROVE  Spread(S) \in SUBSET Nodes /\ S \subseteq Spread(S)
BY KidsAreNodes DEF Spread

LEMMA BelowIsClosed ==
  ASSUME TreeOK, NEW n \in Nodes
  PROVE  /\ Below(n) \in SUBSET Nodes
         /\ Kids(n) \subseteq Below(n)
         /\ \A m \in Below(n) : Kids(m) \subseteq Below(n)
         /\ \A S : Kids(n) \subseteq S /\ (\A m \in S : Kids(m) \subseteq S) => Below(n) \subseteq S
<1> DEFINE N == Cardinality(Nodes)
           X == SUBSET Nodes
           a == Kids(n)
           g == [i \in Nat |-> [S \in X |-> Spread(S)]]
           Are(f) == f = [i \in 0 .. N |-> IF i = 0 THEN Kids(n) ELSE Spread(f[i - 1])]
           levels == CHOOSE f : Are(f)
<1>1. N \in Nat
  BY TreeAssumption, FS_CardinalityType
<1>2. \E f : Are(f)
  <2>1. g \in [Nat -> [X -> X]]
    BY SpreadsAreNodes
  <2>2. a \in X
    BY KidsAreNodes
  <2> HIDE DEF g, N, X, a
  <2>3. PICK f : Iterated(f, N, X, a, g)
    BY <1>1, <2>1, <2>2, Iterates
  <2>4. ASSUME NEW i \in 0 .. N, i # 0 PROVE g[i][f[i - 1]] = Spread(f[i - 1])
    <3>1. i - 1 \in 0 .. N /\ i \in Nat
      BY <1>1, <2>4
    <3>2. f[i - 1] \in X
      BY <2>3, <3>1 DEF Iterated
    <3> QED BY <3>1, <3>2 DEF g
  <2>5. ASSUME NEW i \in 0 .. N
        PROVE  f[i] = IF i = 0 THEN Kids(n) ELSE Spread(f[i - 1])
    <3>1. i # 0 => i \in 1 .. N
      BY <1>1
    <3> QED BY <2>3, <2>4, <3>1 DEF a, Iterated
  <2>6. f = [i \in 0 .. N |-> f[i]]
    BY <2>3 DEF Iterated
  <2>7. Are(f)
    BY <2>5, <2>6
  <2> HIDE DEF Are
  <2> QED BY <2>7
<1>3. Below(n) = levels[N]
  BY DEF Below
<1>4. Are(levels)
  <2> HIDE DEF Are
  <2> QED BY <1>2
<1> DEFINE l(i) == levels[i]
<1>5. l(0) = Kids(n) /\ \A i \in 0 .. N : i < N => l(i + 1) = Spread(l(i))
  <2>1. \A i \in 0 .. N : levels[i] = IF i = 0 THEN Kids(n) ELSE Spread(levels[i - 1])
    <3> HIDE DEF N, levels
    <3> QED BY <1>4
  <2> HIDE DEF N, levels
  <2>2. ASSUME NEW i \in 0 .. N, i < N PROVE l(i + 1) = Spread(l(i))
    <3>1. i + 1 \in 0 .. N /\ i + 1 # 0 /\ (i + 1) - 1 = i
      BY <1>1, <2>2
    <3> QED BY <2>1, <3>1
  <2>3. 0 \in 0 .. N
    BY <1>1
  <2> QED BY <2>1, <2>2, <2>3
<1> HIDE DEF l, levels
\* Every level is of nodes, and has the children.
<1>6. \A i \in 0 .. N : l(i) \in SUBSET Nodes /\ Kids(n) \subseteq l(i)
  <2> DEFINE S == {i \in 0 .. N : l(i) \in SUBSET Nodes /\ Kids(n) \subseteq l(i)}
  <2>1. 0 \in S
    BY <1>1, <1>5, KidsAreNodes
  <2>2. ASSUME NEW i \in 0 .. N, i \in S, i < N PROVE i + 1 \in S
    <3>1. l(i + 1) = Spread(l(i)) /\ i + 1 \in 0 .. N
      BY <1>1, <1>5, <2>2
    <3> QED BY <2>2, <3>1, SpreadsAreNodes
  <2> HIDE DEF S
  <2>3. 0 .. N \subseteq S
    BY <1>1, <2>1, <2>2, CountsUp
  <2> QED BY <2>3 DEF S
\* A level that the next adds nothing to is closed, and one that is not has grown.
<1>7. \A i \in 0 .. N : (\A m \in l(i) : Kids(m) \subseteq l(i)) \/ Cardinality(l(i)) >= i
  <2> DEFINE Closed(i) == \A m \in l(i) : Kids(m) \subseteq l(i)
             S == {i \in 0 .. N : Closed(i) \/ Cardinality(l(i)) >= i}
  <2>0. ASSUME NEW i \in 0 .. N PROVE IsFiniteSet(l(i)) /\ Cardinality(l(i)) \in Nat
    BY <1>6, TreeAssumption, FS_Subset, FS_CardinalityType
  <2>1. 0 \in S
    BY <1>1, <2>0
  <2>2. ASSUME NEW i \in 0 .. N, i \in S, i < N PROVE i + 1 \in S
    <3>1. l(i + 1) = Spread(l(i)) /\ i + 1 \in 0 .. N /\ i \in Nat
      BY <1>1, <1>5, <2>2
    <3>2. CASE Closed(i)
      <4>1. l(i + 1) = l(i)
        BY <3>1, <3>2 DEF Spread
      <4> QED BY <3>1, <3>2, <4>1
    <3>3. CASE ~Closed(i)
      <4>1. l(i) \subseteq l(i + 1) /\ l(i) # l(i + 1)
        BY <3>1, <3>3 DEF Spread
      <4>2. Cardinality(l(i)) <= Cardinality(l(i + 1)) /\ Cardinality(l(i)) # Cardinality(l(i + 1))
        BY <2>0, <3>1, <4>1, FS_Subset
      <4>3. Cardinality(l(i)) >= i
        BY <2>2, <3>3
      <4>4. Cardinality(l(i + 1)) >= i + 1
        BY <2>0, <3>1, <4>2, <4>3
      <4> QED BY <3>1, <4>4
    <3> QED BY <3>2, <3>3
  <2> HIDE DEF S
  <2>3. 0 .. N \subseteq S
    BY <1>1, <2>1, <2>2, CountsUp
  <2> QED BY <2>3 DEF S
<1>8. \A m \in l(N) : Kids(m) \subseteq l(N)
  <2>1. N \in 0 .. N /\ l(N) \in SUBSET Nodes
    BY <1>1, <1>6
  <2>2. CASE Cardinality(l(N)) >= N
    <3>1. Cardinality(l(N)) <= Cardinality(Nodes) /\ Cardinality(l(N)) \in Nat
          /\ (Cardinality(l(N)) = Cardinality(Nodes) => l(N) = Nodes)
      BY <2>1, TreeAssumption, FS_Subset, FS_CardinalityType
    <3>2. l(N) = Nodes
      BY <1>1, <2>2, <3>1
    <3> QED BY <3>2, KidsAreNodes
  <2> QED BY <1>7, <2>1, <2>2
<1>9. ASSUME NEW R, Kids(n) \subseteq R, \A m \in R : Kids(m) \subseteq R
      PROVE  l(N) \subseteq R
  <2> DEFINE S == {i \in 0 .. N : l(i) \subseteq R}
  <2>1. 0 \in S
    BY <1>1, <1>5, <1>9
  <2>2. ASSUME NEW i \in 0 .. N, i \in S, i < N PROVE i + 1 \in S
    <3>1. l(i + 1) = Spread(l(i)) /\ i + 1 \in 0 .. N
      BY <1>1, <1>5, <2>2
    <3> QED BY <1>9, <2>2, <3>1 DEF Spread
  <2> HIDE DEF S
  <2>3. 0 .. N \subseteq S
    BY <1>1, <2>1, <2>2, CountsUp
  <2> QED BY <1>1, <2>3 DEF S
<1>10. Below(n) = l(N) /\ N \in 0 .. N
  BY <1>1, <1>3 DEF l
<1> QED
  BY <1>6, <1>8, <1>9, <1>10

LEMMA AttachedIsClosed ==
  ASSUME TreeOK
  PROVE  /\ Attached \in SUBSET Nodes /\ Root \in Attached
         /\ \A m \in Attached : Kids(m) \subseteq Attached
BY BelowIsClosed, TreeAssumption DEF Attached

LEMMA ChildrenAreAttached ==
  ASSUME TreeOK, NEW m \in Attached \cup {None}, NEW i
  PROVE  /\ ChildAt(m, i) \in Attached \cup {None}
         /\ ChildAt(m, i) # None => m # None /\ i \in DOMAIN kids[m] /\ ChildAt(m, i) = kids[m][i]
<1>1. CASE m # None /\ i \in DOMAIN kids[m]
  <2>1. kids[m][i] \in Kids(m) /\ Kids(m) \subseteq Attached
    BY <1>1, AttachedIsClosed DEF Kids, ToSet
  <2> QED BY <1>1, <2>1 DEF ChildAt
<1>2. CASE ~(m # None /\ i \in DOMAIN kids[m])
  BY <1>2 DEF ChildAt
<1> QED BY <1>1, <1>2

\* What a path leads to is shown.
LEMMA PathsLeadToTheAttached ==
  ASSUME TreeOK, NEW path, Len(path) \in Nat
  PROVE  AtPath(path) \in Attached \cup {None}
<1> DEFINE N == Len(path)
           X == Attached \cup {None}
           g == [i \in Nat |-> [m \in X |-> ChildAt(m, path[i])]]
           Is(f) == f = [i \in 0 .. N |-> IF i = 0 THEN Root ELSE ChildAt(f[i - 1], path[i])]
           node == CHOOSE f : Is(f)
<1>1. \E f : Is(f)
  <2>1. g \in [Nat -> [X -> X]]
    BY ChildrenAreAttached
  <2>2. Root \in X /\ N \in Nat
    BY AttachedIsClosed
  <2> HIDE DEF g, N, X
  <2>3. PICK f : Iterated(f, N, X, Root, g)
    BY <2>1, <2>2, Iterates
  <2>4. ASSUME NEW i \in 0 .. N, i # 0 PROVE g[i][f[i - 1]] = ChildAt(f[i - 1], path[i])
    <3>1. i - 1 \in 0 .. N /\ i \in Nat
      BY <2>4 DEF N
    <3>2. f[i - 1] \in X
      BY <2>3, <3>1 DEF Iterated
    <3> QED BY <3>1, <3>2 DEF g
  <2>5. ASSUME NEW i \in 0 .. N
        PROVE  f[i] = IF i = 0 THEN Root ELSE ChildAt(f[i - 1], path[i])
    <3>1. i # 0 => i \in 1 .. N
      BY <2>2
    <3> QED BY <2>3, <2>4, <3>1 DEF Iterated
  <2>6. f = [i \in 0 .. N |-> f[i]]
    BY <2>3 DEF Iterated
  <2>7. Is(f)
    BY <2>5, <2>6
  <2> QED BY <2>7
<1>2. AtPath(path) = node[N]
  BY DEF AtPath
<1>3. Is(node)
  <2> HIDE DEF Is
  <2> QED BY <1>1
<1> HIDE DEF node
<1>4. \A i \in 0 .. N : node[i] = IF i = 0 THEN Root ELSE ChildAt(node[i - 1], path[i])
  BY <1>3
<1>5. 0 .. N \subseteq {i \in 0 .. N : node[i] \in X}
  <2> DEFINE S == {i \in 0 .. N : node[i] \in X}
  <2>1. 0 \in S
    BY <1>4, AttachedIsClosed
  <2>2. ASSUME NEW i \in 0 .. N, i \in S, i < N PROVE i + 1 \in S
    <3>1. i + 1 \in 0 .. N /\ node[i + 1] = ChildAt(node[i], path[i + 1])
      BY <1>4, <2>2
    <3> QED BY <2>2, <3>1, ChildrenAreAttached
  <2> HIDE DEF S
  <2>3. 0 .. N \subseteq S
    BY <2>1, <2>2, CountsUp
  <2> QED BY <2>3 DEF S
<1> QED BY <1>2, <1>5
-----------------------------------------------------------------------------
(* Trees.  A child is one parent's, once; the root is nobody's.            *)

Forest ==
  \A p, q \in Nodes : \A i \in DOMAIN kids[p], j \in DOMAIN kids[q] :
    kids[p][i] # Root /\ (kids[p][i] = kids[q][j] => p = q /\ i = j)

\* A node is another, or below it.
Under(n, m) == m # None /\ (n = m \/ n \in Below(m))

LEMMA OneParent ==
  ASSUME Forest, NEW p \in Nodes, NEW q \in Nodes, NEW n, n \in Kids(p), n \in Kids(q)
  PROVE  p = q /\ n # Root
BY DEF Forest, Kids, ToSet

LEMMA BelowIsBelow ==
  ASSUME TreeOK, NEW a \in Nodes, NEW b \in Below(a)
  PROVE  Below(b) \subseteq Below(a) /\ Kids(b) \subseteq Below(a)
<1>1. b \in Nodes /\ Kids(b) \subseteq Below(a) /\ \A m \in Below(a) : Kids(m) \subseteq Below(a)
  BY BelowIsClosed
<1> QED BY <1>1, BelowIsClosed

LEMMA BelowHasAParent ==
  ASSUME TreeOK, NEW a \in Nodes, NEW n \in Below(a)
  PROVE  \E p \in Nodes : Under(p, a) /\ n \in Kids(p)
<1> DEFINE S == {x \in Below(a) : \E p \in Nodes : Under(p, a) /\ x \in Kids(p)}
<1>1. a # None
  BY TreeAssumption
<1>2. Kids(a) \subseteq S
  BY <1>1, BelowIsClosed DEF Under
<1>3. \A m \in S : Kids(m) \subseteq S
  BY <1>1, BelowIsClosed DEF Under
<1> HIDE DEF S
<1>4. Below(a) \subseteq S
  BY <1>2, <1>3, BelowIsClosed
<1> QED BY <1>4 DEF S

LEMMA ParentsAreBelow ==
  ASSUME TreeOK, Forest, NEW a \in Nodes, NEW n \in Below(a), NEW p \in Nodes, n \in Kids(p)
  PROVE  Under(p, a) /\ n # Root
BY BelowHasAParent, OneParent

LEMMA UnderIsBelow ==
  ASSUME TreeOK, NEW a \in Nodes, NEW b, Under(b, a), NEW n, Under(n, b)
  PROVE  Under(n, a) /\ (b \in Below(a) => n \in Below(a))
BY BelowIsBelow DEF Under

LEMMA AttachedParents ==
  ASSUME TreeOK, Forest, NEW n \in Attached, NEW p \in Nodes, n \in Kids(p)
  PROVE  p \in Attached
BY ParentsAreBelow, OneParent, TreeAssumption DEF Attached, Under

LEMMA AttachedAncestors ==
  ASSUME TreeOK, Forest, NEW n \in Attached, NEW m \in Nodes, Under(n, m)
  PROVE  m \in Attached
<1> SUFFICES ASSUME m \notin Attached PROVE FALSE
  OBVIOUS
<1> DEFINE S == Below(m) \ Attached
<1>1. Kids(m) \subseteq S
  BY BelowIsClosed, AttachedParents
<1>2. \A x \in S : Kids(x) \subseteq S
  BY BelowIsClosed, AttachedParents
<1> HIDE DEF S
<1>3. Below(m) \subseteq S
  BY <1>1, <1>2, BelowIsClosed
<1> QED BY <1>3 DEF S, Under

LEMMA NoCycles == ASSUME TreeOK, Forest, NEW n \in Attached PROVE n \notin Below(n)
<1> DEFINE A == {x \in Attached : x \notin Below(x)}
<1>1. /\ Attached \in SUBSET Nodes /\ Root \in Attached
      /\ \A m \in Attached : Kids(m) \subseteq Attached
  BY AttachedIsClosed
<1>2. Root \in A
  BY <1>1, BelowHasAParent, OneParent
<1>3. ASSUME NEW x \in A, NEW c \in Kids(x) PROVE c \in A
  <2>1. x \in Nodes /\ c \in Nodes /\ c \in Attached /\ c \in Below(x)
    BY <1>1, <1>3, BelowIsClosed
  <2>2. ASSUME c \in Below(c) PROVE FALSE
    <3>1. Under(x, c)
      BY <2>1, <2>2, ParentsAreBelow
    <3>2. x \in Below(x)
      BY <2>1, <3>1, BelowIsBelow DEF Under
    <3> QED BY <3>2
  <2> QED BY <2>1, <2>2
<1>4. Kids(Root) \subseteq A /\ \A x \in A : Kids(x) \subseteq A
  BY <1>2, <1>3
<1> HIDE DEF A
<1>5. Below(Root) \subseteq A
  BY <1>1, <1>4, BelowIsClosed
<1> QED BY <1>2, <1>5 DEF A, Attached

\* Nothing is below both of two nodes of which neither is below the other.
LEMMA SubtreesAreApart ==
  ASSUME TreeOK, Forest, NEW a \in Nodes, NEW b \in Nodes, ~Under(a, b), ~Under(b, a), NEW n
  PROVE  ~(Under(n, a) /\ Under(n, b))
<1> DEFINE S == {x \in Below(a) : ~Under(x, b)}
<1>0. a # None /\ b # None
  BY TreeAssumption
<1>1. ASSUME NEW x \in Nodes, Under(x, a), ~Under(x, b), NEW c \in Kids(x) PROVE c \in S
  <2>1. c \in Below(a)
    BY <1>1, BelowIsClosed DEF Under
  <2>2. c # b
    BY <1>0, <2>1 DEF Under
  <2>3. c \notin Below(b)
    BY <1>1, ParentsAreBelow
  <2> QED BY <2>1, <2>2, <2>3 DEF Under
<1>2. Kids(a) \subseteq S
  BY <1>0, <1>1 DEF Under
<1>3. \A x \in S : Kids(x) \subseteq S
  BY <1>0, <1>1, BelowIsClosed DEF Under
<1> HIDE DEF S
<1>4. Below(a) \subseteq S
  BY <1>2, <1>3, BelowIsClosed
<1> QED BY <1>4 DEF S, Under

LEMMA ChildrenAreNodes ==
  ASSUME TreeOK, NEW p \in Nodes, NEW i \in DOMAIN kids[p]
  PROVE  /\ kids[p][i] \in Nodes /\ kids[p][i] # None /\ kids[p][i] \in Kids(p)
         /\ kids[p][i] \in Below(p)
<1>1. kids[p] \in Seq(Nodes)
  BY DEF TreeOK
<1>2. kids[p][i] \in Nodes /\ kids[p][i] \in Kids(p)
  BY <1>1 DEF Kids, ToSet
<1> QED BY <1>2, BelowIsClosed, TreeAssumption

LEMMA SiblingsAreApart ==
  ASSUME TreeOK, Forest, NEW p \in Nodes, NEW i \in DOMAIN kids[p], NEW j \in DOMAIN kids[p],
         NEW n \in Attached, Under(n, kids[p][i]), Under(n, kids[p][j])
  PROVE  i = j
<1> DEFINE a == kids[p][i]
           b == kids[p][j]
<1>1. /\ a \in Nodes /\ b \in Nodes /\ a \in Kids(p) /\ b \in Kids(p) /\ a \in Below(p)
      /\ b \in Below(p) /\ a \in Attached /\ b \in Attached
  BY ChildrenAreNodes, AttachedAncestors
<1>2. a = b => i = j
  BY DEF Forest
<1> HIDE DEF a, b
<1>3. ASSUME NEW x \in Nodes, NEW y \in Nodes, x \in Kids(p), y \in Kids(p), x \in Attached,
             x \in Below(p), y \in Below(x)
      PROVE  FALSE
  <2>1. Under(p, x)
    BY <1>3, ParentsAreBelow
  <2>2. x \in Below(x)
    BY <1>3, <2>1, BelowIsBelow DEF Under
  <2> QED BY <1>3, <2>2, NoCycles
<1>4. a \notin Below(b) /\ b \notin Below(a)
  BY <1>1, <1>3
<1>5. CASE a # b
  <2>1. ~Under(a, b) /\ ~Under(b, a)
    BY <1>4, <1>5 DEF Under
  <2> QED BY <1>1, <2>1, SubtreesAreApart DEF a, b
<1> QED BY <1>2, <1>5

\* What is below a node is under one of its children.
LEMMA BelowSplits ==
  ASSUME TreeOK, NEW p \in Nodes, NEW n
  PROVE  n \in Below(p) <=> \E i \in DOMAIN kids[p] : Under(n, kids[p][i])
<1> DEFINE S == {x \in Below(p) : \E i \in DOMAIN kids[p] : Under(x, kids[p][i])}
<1>1. Kids(p) \subseteq S
  <2>1. ASSUME NEW c \in Kids(p) PROVE c \in S
    <3>1. PICK i \in DOMAIN kids[p] : kids[p][i] = c
      BY DEF Kids, ToSet, TreeOK
    <3> QED BY <3>1, ChildrenAreNodes DEF Under
  <2> QED BY <2>1
<1>2. \A x \in S : Kids(x) \subseteq S
  <2>1. ASSUME NEW x \in S, NEW c \in Kids(x) PROVE c \in S
    <3>1. PICK i \in DOMAIN kids[p] : Under(x, kids[p][i])
      OBVIOUS
    <3>2. c \in Below(p) /\ x \in Nodes
      BY BelowIsClosed
    <3>3. Under(c, kids[p][i])
      BY <3>1, ChildrenAreNodes, BelowIsClosed DEF Under
    <3> QED BY <3>2, <3>3
  <2> QED BY <2>1
<1> HIDE DEF S
<1>3. Below(p) \subseteq S
  BY <1>1, <1>2, BelowIsClosed
<1>4. ASSUME NEW i \in DOMAIN kids[p], Under(n, kids[p][i]) PROVE n \in Below(p)
  BY <1>4, ChildrenAreNodes, BelowIsBelow DEF Under
<1> QED BY <1>3, <1>4 DEF S

-----------------------------------------------------------------------------
(* A tree that changes: what its list does not drop, nor has anew, is      *)
(* under what it was under before.                                         *)

\* The lists of the nodes but p are as they were, p's has its own children and a new node.
Relisted(p, list, new) ==
  /\ list \in Seq(Nodes) /\ kids' = [kids EXCEPT ![p] = list]
  /\ \A i, j \in DOMAIN list : list[i] = list[j] => i = j
  /\ \A i \in DOMAIN list : list[i] \in Kids(p) \cup new
  /\ \A n \in new : n \in Nodes /\ n # Root /\ kids[n] = <<>> /\ \A q \in Nodes : n \notin Kids(q)

LEMMA Concats ==
  ASSUME NEW S, NEW a \in Seq(S), NEW b \in Seq(S)
  PROVE  /\ a \o b \in Seq(S) /\ Len(a \o b) = Len(a) + Len(b)
         /\ \A i \in 1 .. Len(a) + Len(b) :
              (a \o b)[i] = IF i <= Len(a) THEN a[i] ELSE b[i - Len(a)]
BY ConcatProperties

LEMMA RemovingRelists ==
  ASSUME TreeOK, Forest, NEW p \in Nodes, Removes(p)
  PROVE  \E list : Relisted(p, list, {})
<1> DEFINE s == kids[p]
<1>1. s \in Seq(Nodes) /\ Len(s) \in Nat /\ DOMAIN s = 1 .. Len(s)
  BY DEF TreeOK
<1>2. PICK i \in DOMAIN s : Rearranges(p, RemoveAt(s, i))
  BY DEF Removes
<1> DEFINE list == RemoveAt(s, i)
           from(k) == IF k < i THEN k ELSE k + 1
<1>3. i \in 1 .. Len(s)
  BY <1>1
<1> HIDE DEF s
<1>4. /\ list \in Seq(Nodes) /\ Len(list) = Len(s) - 1
      /\ \A k \in 1 .. Len(s) - 1 : from(k) \in 1 .. Len(s) /\ list[k] = s[from(k)]
  <2> DEFINE a == SubSeq(s, 1, i - 1)
             b == SubSeq(s, i + 1, Len(s))
  <2>1. a \in Seq(Nodes) /\ Len(a) = i - 1 /\ \A k \in 1 .. i - 1 : a[k] = s[k]
    BY <1>1, <1>3
  <2>2. b \in Seq(Nodes) /\ Len(b) = Len(s) - i /\ \A k \in 1 .. Len(s) - i : b[k] = s[k + i]
    BY <1>1, <1>3
  <2>3. list = a \o b
    BY DEF RemoveAt
  <2> HIDE DEF a, b, list
  <2>4. list \in Seq(Nodes) /\ Len(list) = Len(s) - 1
    <3>1. list \in Seq(Nodes) /\ Len(list) = Len(a) + Len(b)
      BY <2>1, <2>2, <2>3, Concats
    <3> QED BY <1>1, <1>3, <2>1, <2>2, <3>1
  <2>5. ASSUME NEW k \in 1 .. Len(s) - 1
        PROVE  from(k) \in 1 .. Len(s) /\ list[k] = s[from(k)]
    <3>1. list[k] = IF k <= i - 1 THEN a[k] ELSE b[k - (i - 1)]
      BY <1>1, <1>3, <2>1, <2>2, <2>3, <2>5
    <3>2. CASE k < i
      BY <1>1, <1>3, <2>1, <3>1, <3>2
    <3>3. CASE ~(k < i)
      <4>1. k - (i - 1) \in 1 .. Len(s) - i /\ (k - (i - 1)) + i = k + 1 /\ ~(k <= i - 1)
        BY <1>1, <1>3, <2>5, <3>3
      <4>2. b[k - (i - 1)] = s[k + 1]
        BY <2>2, <4>1
      <4> QED BY <1>1, <1>3, <2>5, <3>1, <3>3, <4>1, <4>2
    <3> QED BY <3>2, <3>3
  <2> QED BY <2>4, <2>5
<1> HIDE DEF list
<1>5. DOMAIN list = 1 .. Len(s) - 1
  BY <1>1, <1>4
<1>6. \A k \in DOMAIN list : from(k) \in DOMAIN s /\ list[k] = s[from(k)]
  BY <1>1, <1>4, <1>5
<1>7. \A k, l \in DOMAIN list : from(k) = from(l) => k = l
  BY <1>1, <1>3, <1>5
<1> HIDE DEF from
<1>8. \A k, l \in DOMAIN list : list[k] = list[l] => k = l
  BY <1>6, <1>7 DEF Forest, s
<1>9. \A k \in DOMAIN list : list[k] \in Kids(p)
  BY <1>6 DEF Kids, ToSet, s
<1>10. kids' = [kids EXCEPT ![p] = list]
  BY <1>2 DEF Rearranges, list
<1> QED BY <1>4, <1>8, <1>9, <1>10 DEF Relisted

LEMMA InsertingRelists ==
  ASSUME TreeOK, Forest, NEW p \in Nodes, Inserts(p)
  PROVE  \E list, n : Relisted(p, list, {n})
<1> DEFINE s == kids[p]
<1>1. s \in Seq(Nodes) /\ Len(s) \in Nat /\ DOMAIN s = 1 .. Len(s)
  BY DEF TreeOK
<1>2. PICK n \in Nodes \ Kept, i \in 1 .. Len(s) + 1 :
        kids[n] = <<>> /\ Rearranges(p, InsertAt(s, i, n))
  BY DEF Inserts
<1> DEFINE list == InsertAt(s, i, n)
           from(k) == IF k < i THEN k ELSE k - 1
<1> HIDE DEF s
<1>4. /\ list \in Seq(Nodes) /\ Len(list) = Len(s) + 1
      /\ list[i] = n
      /\ \A k \in 1 .. Len(s) + 1 : k # i => from(k) \in 1 .. Len(s) /\ list[k] = s[from(k)]
  <2> DEFINE a == SubSeq(s, 1, i - 1)
             b == SubSeq(s, i, Len(s))
             o == <<n>>
  <2>1. a \in Seq(Nodes) /\ Len(a) = i - 1 /\ \A k \in 1 .. i - 1 : a[k] = s[k]
    BY <1>1, <1>2
  <2>2. b \in Seq(Nodes) /\ Len(b) = Len(s) - i + 1
        /\ \A k \in 1 .. Len(s) - i + 1 : b[k] = s[k + i - 1]
    BY <1>1, <1>2
  <2>3. list = a \o o \o b /\ o \in Seq(Nodes) /\ Len(o) = 1 /\ o[1] = n
    BY <1>2 DEF InsertAt
  <2> HIDE DEF a, b, o, list
  <2>4. a \o o \in Seq(Nodes) /\ Len(a \o o) = i /\ (a \o o)[i] = n
        /\ \A k \in 1 .. i - 1 : (a \o o)[k] = s[k]
    <3>0. a \in Seq(Nodes) /\ o \in Seq(Nodes)
      BY <2>1, <2>3
    <3>1. /\ a \o o \in Seq(Nodes) /\ Len(a \o o) = Len(a) + Len(o)
          /\ \A k \in 1 .. Len(a) + Len(o) :
               (a \o o)[k] = IF k <= Len(a) THEN a[k] ELSE o[k - Len(a)]
      BY <3>0, Concats, Zenon
    <3>2. Len(a) + Len(o) = i /\ i \in 1 .. i /\ ~(i <= i - 1) /\ i - (i - 1) = 1
          /\ \A k \in 1 .. i - 1 : k \in 1 .. i /\ k <= i - 1
      BY <1>1, <1>2, <2>1, <2>3
    <3> QED BY <2>1, <2>3, <3>1, <3>2
  <2> DEFINE ao == a \o o
  <2>5. list = ao \o b
    BY <2>3
  <2> HIDE DEF ao
  <2>6. list \in Seq(Nodes) /\ Len(list) = Len(s) + 1
    <3>0. ao \in Seq(Nodes) /\ b \in Seq(Nodes)
      BY <2>2, <2>4 DEF ao
    <3>1. list \in Seq(Nodes) /\ Len(list) = Len(ao) + Len(b)
      BY <3>0, <2>5, Concats, Zenon
    <3> QED BY <1>1, <1>2, <2>2, <2>4, <3>1 DEF ao
  <2>7. \A k \in 1 .. Len(s) + 1 : list[k] = IF k <= i THEN ao[k] ELSE b[k - i]
    <3>0. ao \in Seq(Nodes) /\ b \in Seq(Nodes)
      BY <2>2, <2>4 DEF ao
    <3>1. \A k \in 1 .. Len(ao) + Len(b) :
            list[k] = IF k <= Len(ao) THEN ao[k] ELSE b[k - Len(ao)]
      BY <3>0, <2>5, Concats, Zenon
    <3>2. Len(ao) = i /\ Len(ao) + Len(b) = Len(s) + 1
      BY <1>1, <1>2, <2>2, <2>4 DEF ao
    <3> QED BY <3>1, <3>2
  <2>8. ASSUME NEW k \in 1 .. Len(s) + 1, k # i
        PROVE  from(k) \in 1 .. Len(s) /\ list[k] = s[from(k)]
    <3>1. CASE k < i
      BY <1>1, <1>2, <2>4, <2>7, <3>1 DEF ao
    <3>2. CASE ~(k < i)
      <4>1. k - i \in 1 .. Len(s) - i + 1 /\ k - i + i - 1 = k - 1 /\ ~(k <= i)
        BY <1>1, <1>2, <2>8, <3>2
      <4>2. b[k - i] = s[k - 1]
        BY <2>2, <4>1
      <4> QED BY <1>1, <1>2, <2>7, <2>8, <3>2, <4>1, <4>2
    <3> QED BY <3>1, <3>2
  <2>9. list[i] = n
    BY <1>1, <1>2, <2>4, <2>7 DEF ao
  <2> QED BY <2>6, <2>8, <2>9
<1> HIDE DEF list
<1>5. DOMAIN list = 1 .. Len(s) + 1
  BY <1>1, <1>4
<1>6. \A k \in DOMAIN list : k # i => from(k) \in DOMAIN s /\ list[k] = s[from(k)]
  BY <1>1, <1>4, <1>5
<1>7. \A k, l \in DOMAIN list : k # i /\ l # i /\ from(k) = from(l) => k = l
  BY <1>1, <1>2, <1>5
<1> HIDE DEF from
<1>8. \A k \in DOMAIN list : k # i => list[k] \in Kids(p)
  BY <1>6 DEF Kids, ToSet, s
<1>9. n \notin Kids(p)
  BY <1>2 DEF Kept
<1>10. \A k, l \in DOMAIN list : list[k] = list[l] => k = l
  <2> SUFFICES ASSUME NEW k \in DOMAIN list, NEW l \in DOMAIN list, list[k] = list[l] PROVE k = l
    OBVIOUS
  <2>1. k # i /\ l # i => k = l
    BY <1>6, <1>7 DEF Forest, s
  <2> QED BY <1>4, <1>8, <1>9, <2>1
<1>11. \A k \in DOMAIN list : list[k] \in Kids(p) \cup {n}
  BY <1>4, <1>8
<1>12. kids' = [kids EXCEPT ![p] = list]
  BY <1>2 DEF Rearranges, list
<1>13. n \in Nodes /\ n # Root /\ kids[n] = <<>> /\ \A q \in Nodes : n \notin Kids(q)
  BY <1>2 DEF Kept
<1>14. Relisted(p, list, {n})
  BY <1>4, <1>10, <1>11, <1>12, <1>13 DEF Relisted
<1> QED BY <1>14

LEMMA SortingRelists ==
  ASSUME TreeOK, Forest, NEW p \in Nodes, Sorts(p)
  PROVE  \E list : Relisted(p, list, {})
<1> DEFINE s == kids[p]
<1>1. s \in Seq(Nodes) /\ Len(s) \in Nat /\ DOMAIN s = 1 .. Len(s)
  BY DEF TreeOK
<1>2. PICK i, j \in DOMAIN s : i < j /\ Rearranges(p, [s EXCEPT ![i] = s[j], ![j] = s[i]])
  BY DEF Sorts
<1> DEFINE list == [s EXCEPT ![i] = s[j], ![j] = s[i]]
           from(k) == IF k = i THEN j ELSE IF k = j THEN i ELSE k
<1> HIDE DEF s
<1>3. i # j
  BY <1>1, <1>2
<1>4. list \in Seq(Nodes) /\ DOMAIN list = DOMAIN s
  BY <1>1
<1>5. \A k \in DOMAIN s : from(k) \in DOMAIN s /\ list[k] = s[from(k)]
  BY <1>1, <1>3
<1> HIDE DEF list
<1>6. \A k, l \in DOMAIN s : from(k) = from(l) => k = l
  BY <1>3
<1> HIDE DEF from
<1>7. \A k, l \in DOMAIN list : list[k] = list[l] => k = l
  BY <1>4, <1>5, <1>6 DEF Forest, s
<1>8. \A k \in DOMAIN list : list[k] \in Kids(p)
  BY <1>4, <1>5 DEF Kids, ToSet, s
<1>9. kids' = [kids EXCEPT ![p] = list]
  BY <1>2 DEF Rearranges, list
<1> QED BY <1>4, <1>7, <1>8, <1>9 DEF Relisted

\* What BelowIsClosed says of every node, and of a node of the tree as it will be.
BelowLaw ==
  \A n \in Nodes :
    /\ Below(n) \in SUBSET Nodes
    /\ Kids(n) \subseteq Below(n)
    /\ \A m \in Below(n) : Kids(m) \subseteq Below(n)
    /\ \A S : Kids(n) \subseteq S /\ (\A m \in S : Kids(m) \subseteq S) => Below(n) \subseteq S

LEMMA BelowNow == TreeOK => BelowLaw
BY BelowIsClosed DEF BelowLaw

LEMMA BelowNext == TreeOK' => BelowLaw'
BY BelowNow, PTL

LEMMA RelistedTree ==
  ASSUME TreeOK, Forest, NEW p \in Nodes, NEW list, NEW new, Relisted(p, list, new)
  PROVE  TreeOK' /\ Forest'
<1>1. /\ \A q \in Nodes : kids'[q] = IF q = p THEN list ELSE kids[q]
      /\ kids' \in [Nodes -> Seq(Nodes)]
  BY DEF Relisted, TreeOK
<1>2. \A i \in DOMAIN list : list[i] # Root
  BY DEF Relisted, Forest, Kids, ToSet
<1>3. ASSUME NEW i \in DOMAIN list, NEW q \in Nodes, q # p, NEW j \in DOMAIN kids[q]
      PROVE  list[i] # kids[q][j]
  <2>1. kids[q][j] \in Kids(q)
    BY ChildrenAreNodes
  <2> QED BY <1>3, <2>1, OneParent DEF Relisted
<1>4. ASSUME NEW a \in Nodes, NEW b \in Nodes, NEW i \in DOMAIN kids'[a], NEW j \in DOMAIN kids'[b]
      PROVE  kids'[a][i] # Root /\ (kids'[a][i] = kids'[b][j] => a = b /\ i = j)
  <2>1. CASE a = p /\ b = p
    BY <1>1, <1>2, <2>1 DEF Relisted
  <2>2. CASE a = p /\ b # p
    BY <1>1, <1>2, <1>3, <2>2
  <2>3. CASE a # p /\ b = p
    <3>1. kids'[a] = kids[a] /\ kids'[b] = list
      BY <1>1, <2>3
    <3>2. i \in DOMAIN kids[a] /\ j \in DOMAIN list
      BY <3>1
    <3>3. kids[a][i] # Root /\ list[j] # kids[a][i]
      BY <1>3, <2>3, <3>2 DEF Forest
    <3> QED BY <3>1, <3>3
  <2>4. CASE a # p /\ b # p
    <3>1. kids'[a] = kids[a] /\ kids'[b] = kids[b]
      BY <1>1, <2>4
    <3>2. i \in DOMAIN kids[a] /\ j \in DOMAIN kids[b]
      BY <3>1
    <3>3. kids[a][i] # Root /\ (kids[a][i] = kids[b][j] => a = b /\ i = j)
      BY <3>2 DEF Forest
    <3> QED BY <3>1, <3>3
  <2> QED BY <2>1, <2>2, <2>3, <2>4
<1> QED BY <1>1, <1>4 DEF TreeOK, Forest

LEMMA RelistedKids ==
  ASSUME TreeOK, NEW p \in Nodes, NEW list, NEW new, Relisted(p, list, new)
  PROVE  /\ \A q \in Nodes : q # p => Kids(q)' = Kids(q) /\ kids'[q] = kids[q]
         /\ Kids(p)' \subseteq Kids(p) \cup new /\ Kids(p)' = ToSet(list)
         /\ Kids(p) \subseteq Below(p) /\ \A n \in new : n \in Nodes /\ Kids(n) = {}
<1>1. \A q \in Nodes : kids'[q] = IF q = p THEN list ELSE kids[q]
  BY DEF Relisted, TreeOK
<1>2. Kids(p)' = {list[i] : i \in DOMAIN list} /\ Kids(p)' = ToSet(list)
  BY <1>1 DEF Kids, ToSet
<1>3. ASSUME NEW n \in new PROVE Kids(n) = {} /\ n \in Nodes
  BY DEF Relisted, Kids, ToSet
<1>4. Kids(p)' \subseteq Kids(p) \cup new
  BY <1>2 DEF Relisted
<1>5. \A q \in Nodes : q # p => Kids(q)' = Kids(q) /\ kids'[q] = kids[q]
  BY <1>1 DEF Kids
<1> QED BY <1>2, <1>3, <1>4, <1>5, BelowIsClosed

\* What a new list of p leaves out, and all that is below it.
LeftOut(p, list) == Kids(p) \ ToSet(list)

WithAllBelow(S) == S \cup UNION {Below(n) : n \in S}

Remains(n, p, list, new) == n \notin WithAllBelow(LeftOut(p, list)) /\ n \notin new

LEMMA StaysBelow ==
  ASSUME TreeOK, Forest, NEW p \in Nodes, NEW list, NEW new, Relisted(p, list, new),
         NEW m \in Nodes, NEW n, Remains(n, p, list, new)
  PROVE  n \in Below(m)' <=> n \in Below(m)
<1>1. TreeOK' /\ BelowLaw /\ BelowLaw'
  BY RelistedTree, BelowNow, BelowNext
<1>2. /\ \A q \in Nodes : q # p => Kids(q)' = Kids(q)
      /\ Kids(p)' \subseteq Kids(p) \cup new /\ Kids(p)' = ToSet(list)
      /\ Kids(p) \subseteq Below(p) /\ \A x \in new : x \in Nodes /\ Kids(x) = {}
  BY RelistedKids
<1> DEFINE R == WithAllBelow(LeftOut(p, list))
<1>3. LeftOut(p, list) \subseteq Nodes /\ Kids(p) \subseteq Kids(p)' \cup LeftOut(p, list)
  BY <1>2, KidsAreNodes DEF LeftOut
<1>4. /\ LeftOut(p, list) \subseteq R /\ R \subseteq Nodes
      /\ \A x \in R : Kids(x) \subseteq R
  BY <1>1, <1>3 DEF WithAllBelow, BelowLaw
<1>5. Below(m) \subseteq Below(m)' \cup R
  <2> DEFINE S == Below(m)' \cup R
  <2> HIDE DEF R
  <2>1. Kids(m) \subseteq S
    BY <1>1, <1>2, <1>3, <1>4 DEF BelowLaw
  <2>2. \A x \in S : Kids(x) \subseteq S
    <3> SUFFICES ASSUME NEW x \in S PROVE Kids(x) \subseteq S
      OBVIOUS
    <3>1. CASE x \in R
      BY <1>4, <3>1
    <3>2. CASE x \in Below(m)'
      <4>1. x \in Nodes /\ Kids(x)' \subseteq Below(m)'
        BY <1>1, <3>2 DEF BelowLaw
      <4> QED BY <1>2, <1>3, <1>4, <4>1
    <3> QED BY <3>1, <3>2
  <2> HIDE DEF S
  <2>3. Below(m) \subseteq S
    BY <2>1, <2>2, BelowIsClosed
  <2> QED BY <2>3 DEF S
<1>6. Below(m)' \subseteq Below(m) \cup new
  <2> DEFINE S == Below(m) \cup new
  <2>1. \A x \in Nodes : Kids(x)' \subseteq Kids(x) \cup new
    BY <1>2
  <2>2. Kids(m)' \subseteq S
    BY <1>1, <2>1 DEF BelowLaw
  <2>3. \A x \in S : Kids(x)' \subseteq S
    <3> SUFFICES ASSUME NEW x \in S PROVE Kids(x)' \subseteq S
      OBVIOUS
    <3>1. x \in Nodes /\ Kids(x) \subseteq S
      BY <1>1, <1>2 DEF BelowLaw
    <3> QED BY <2>1, <3>1
  <2> HIDE DEF S
  <2>4. Below(m)' \subseteq S
    BY <1>1, <2>2, <2>3 DEF BelowLaw
  <2> QED BY <2>4 DEF S
<1> QED BY <1>5, <1>6 DEF Remains

-----------------------------------------------------------------------------
(* What the worker holds.                                                  *)

Node == Nodes \cup {None}

Handle == [node : Node, parent : Node, path : Seq(Nat)]

Entry == [handle : Handle, shown : Nodes, hidden : Nat]

\* Nothing of a list is read before it is counted.
Frame ==
  {f \in [handle : Handle, depth : Nat,
          at : {"root", "count", "pages", "copy", "copied", "cut", "cut_copy"},
          count : Nat, read : Nat, page : Seq(Handle), more : BOOLEAN] :
     f.at = "count" => f.read = 0}

Walk == [shape : [lists : SUBSET Nodes, skeleton : BOOLEAN], stack : Seq(Frame),
         visited : Nat, truncated : {None, "time", "nodes", "depth"},
         nodes : Seq(Entry), hidden : Nat]

\* A handle that is not for a place is for the node it was read of.
Honest(e) == Positional(e.handle) \/ e.handle.node = e.shown

WalkOK(w) == w \in Walk /\ \A i \in DOMAIN w.nodes : Honest(w.nodes[i])

TypeInv ==
  /\ TreeOK /\ Forest
  /\ toolkit \in {"gtk", "qt"} /\ arranged \in Nat /\ changes \in Nat /\ troubles \in Nat
  /\ walk # None => WalkOK(walk)
  /\ refs \in Seq(Entry) /\ \A i \in DOMAIN refs : Honest(refs[i])

\* ---- the tree's changes --------------------------------------------------

LEMMA RearrangingKeeps ==
  ASSUME TypeInv, NEW p \in Attached, Removes(p) \/ Inserts(p) \/ Sorts(p)
  PROVE  /\ TreeOK' /\ Forest' /\ toolkit' = toolkit /\ on' = on
         /\ arranged' = arranged + 1 /\ changes' = changes + 1 /\ troubles' = troubles
<1>0. TreeOK' /\ Forest'
  <2>1. p \in Nodes /\ TreeOK /\ Forest
    BY AttachedIsClosed DEF TypeInv
  <2>2. \E list, new : Relisted(p, list, new)
    BY <2>1, RemovingRelists, InsertingRelists, SortingRelists
  <2> QED BY <2>1, <2>2, RelistedTree
<1>1. p \in Nodes /\ kids[p] \in Seq(Nodes)
  BY AttachedIsClosed DEF TypeInv, TreeOK
<1>2. ASSUME NEW list \in Seq(Nodes), Rearranges(p, list)
      PROVE  /\ TreeOK' /\ toolkit' = toolkit /\ on' = on
             /\ arranged' = arranged + 1 /\ changes' = changes + 1 /\ troubles' = troubles
  BY <1>1, <1>2 DEF TypeInv, TreeOK, Rearranges, Change
<1>3. CASE Removes(p)
  <2>1. PICK i \in DOMAIN kids[p] : Rearranges(p, RemoveAt(kids[p], i))
    BY <1>3 DEF Removes
  <2>2. RemoveAt(kids[p], i) \in Seq(Nodes)
    BY <1>1 DEF RemoveAt
  <2> QED BY <1>0, <1>2, <2>1, <2>2
<1>4. CASE Inserts(p)
  <2>1. PICK n \in Nodes, i \in 1 .. Len(kids[p]) + 1 : Rearranges(p, InsertAt(kids[p], i, n))
    BY <1>4 DEF Inserts
  <2>2. InsertAt(kids[p], i, n) \in Seq(Nodes)
    BY <1>1, <2>1 DEF InsertAt
  <2> QED BY <1>0, <1>2, <2>1, <2>2
<1>5. CASE Sorts(p)
  <2>1. PICK i, j \in DOMAIN kids[p] :
          Rearranges(p, [kids[p] EXCEPT ![i] = kids[p][j], ![j] = kids[p][i]])
    BY <1>5 DEF Sorts
  <2>2. [kids[p] EXCEPT ![i] = kids[p][j], ![j] = kids[p][i]] \in Seq(Nodes)
    BY <1>1, <2>1
  <2> QED BY <1>0, <1>2, <2>1, <2>2
<1> QED BY <1>0, <1>3, <1>4, <1>5

\* ---- a walk's operators ---------------------------------------------------

LEMMA Bounds ==
  /\ MaxChildren \in Nat /\ MaxChildren \in Int /\ MaxChildren > 0
  /\ ChildPage \in Nat /\ ChildPage \in Int /\ ChildPage > 0
BY WalkAssumption

LEMMA MinOfTwo == \A a, b \in Int : Min({a, b}) \in {a, b} /\ Min({a, b}) <= a /\ Min({a, b}) <= b
<1> TAKE a, b \in Int
<1>1. \E x \in {a, b} : \A y \in {a, b} : x <= y
  <2>1. CASE a <= b
    BY <2>1
  <2>2. CASE b <= a
    BY <2>2
  <2> QED BY <2>1, <2>2
<1> QED BY <1>1 DEF Min

LEMMA MinOfThree ==
  \A a, b, c \in Int : /\ Min({a, b, c}) \in {a, b, c}
                       /\ Min({a, b, c}) <= a /\ Min({a, b, c}) <= b /\ Min({a, b, c}) <= c
<1> TAKE a, b, c \in Int
<1>1. \E x \in {a, b, c} : \A y \in {a, b, c} : x <= y
  <2>1. CASE a <= b /\ a <= c
    BY <2>1
  <2>2. CASE b <= a /\ b <= c
    BY <2>2
  <2>3. CASE c <= a /\ c <= b
    BY <2>3
  <2> QED BY <2>1, <2>2, <2>3
<1> QED BY <1>1 DEF Min

LEMMA DesignatedIsANode ==
  ASSUME TreeOK, NEW h \in Handle
  PROVE  Designated(h) \in Node
<1>1. \A i : ChildAt(Table, i) \in Node
  BY TreeAssumption DEF ChildAt, TreeOK, Node
<1> QED BY <1>1 DEF Designated, Handle

LEMMA FrontAndLast ==
  ASSUME NEW S, NEW s \in Seq(S), s # <<>>
  PROVE  /\ Front(s) \in Seq(S) /\ Last(s) \in S /\ Len(Front(s)) = Len(s) - 1
         /\ \A i \in 1 .. Len(s) - 1 : Front(s)[i] = s[i]
<1>1. Len(s) \in Nat \ {0} /\ \A i \in 1 .. Len(s) : s[i] \in S
  BY EmptySeq, ElementOfSeq
<1>2. Last(s) \in S
  BY <1>1 DEF Last
<1> DEFINE n == Len(s) - 1
<1>3. /\ SubSeq(s, 1, n) \in Seq(S)
      /\ Len(SubSeq(s, 1, n)) = n
      /\ \A i \in 1 .. n : SubSeq(s, 1, n)[i] = s[i]
  <2>1. n \in Int /\ 1 \in Int /\ n >= 0 /\ \A i \in 1 .. n : s[i] \in S
    BY <1>1
  <2> HIDE DEF n
  <2>2. /\ SubSeq(s, 1, n) \in Seq(S)
        /\ Len(SubSeq(s, 1, n)) = IF 1 <= n THEN n - 1 + 1 ELSE 0
        /\ \A i \in 1 .. n - 1 + 1 : SubSeq(s, 1, n)[i] = s[1 + i - 1]
    BY <2>1, SubSeqProperties
  <2> QED BY <2>1, <2>2
<1> QED BY <1>2, <1>3 DEF Front

LEMMA NotesAreWalks ==
  ASSUME NEW w, WalkOK(w), NEW why \in {"time", "nodes", "depth"}
  PROVE  WalkOK(Note(w, why)) /\ Note(w, why).nodes = w.nodes
BY DEF WalkOK, Note, Walk

LEMMA PoppedAreWalks ==
  ASSUME NEW w, WalkOK(w), w.stack # <<>>
  PROVE  WalkOK(Pop(w)) /\ Pop(w).nodes = w.nodes
<1>1. Front(w.stack) \in Seq(Frame)
  BY FrontAndLast DEF WalkOK, Walk
<1> QED BY <1>1 DEF WalkOK, Pop, Walk

LEMMA ReplacedAreWalks ==
  ASSUME NEW w, WalkOK(w), w.stack # <<>>, NEW f \in Frame
  PROVE  WalkOK(Replace(w, f)) /\ Replace(w, f).nodes = w.nodes
<1>1. Append(Front(w.stack), f) \in Seq(Frame)
  BY FrontAndLast DEF WalkOK, Walk
<1> QED BY <1>1 DEF WalkOK, Replace, Walk

LEMMA PushedAreWalks ==
  ASSUME NEW w, WalkOK(w), NEW h \in Handle, NEW depth \in Nat,
         NEW at \in {"root", "count", "cut"}
  PROVE  WalkOK(Push(w, h, depth, at)) /\ Push(w, h, depth, at).nodes = w.nodes
<1> DEFINE f == [handle |-> h, depth |-> depth, at |-> at, count |-> 0, read |-> 0,
                 page |-> <<>>, more |-> FALSE]
<1>1. f \in Frame
  BY DEF Frame
<1> HIDE DEF f
<1>2. Append(w.stack, f) \in Seq(Frame)
  BY <1>1 DEF WalkOK, Walk
<1>3. Push(w, h, depth, at) = [w EXCEPT !.stack = Append(w.stack, f)]
  BY DEF Push, f
<1> QED BY <1>2, <1>3 DEF WalkOK, Walk

LEMMA UnansweredAreWalks ==
  ASSUME NEW w, WalkOK(w), NEW h \in Handle, NEW depth \in Nat, NEW how
  PROVE  WalkOK(Unanswered(w, h, depth, how)) /\ Unanswered(w, h, depth, how).nodes = w.nodes
<1>1. WalkOK(Note(w, "time")) /\ Note(w, "time").nodes = w.nodes /\ depth + 1 \in Nat
  BY NotesAreWalks
<1> QED BY <1>1, PushedAreWalks DEF Unanswered

LEMMA CollectedAreWalks ==
  ASSUME TreeOK, NEW w, WalkOK(w), NEW h \in Handle, NEW hidden \in Nat, NEW how
  PROVE  WalkOK(Collected(w, h, hidden, how))
<1> DEFINE n == Designated(h)
           e == [handle |-> h, shown |-> n, hidden |-> hidden]
           listed == [w EXCEPT !.nodes = Append(@, e)]
<1>1. CASE n \notin Placed
  BY <1>1 DEF Collected, WalkOK, Walk
<1>2. CASE n \in Placed
  <2>1. e \in Entry /\ Honest(e)
    BY <1>2, WalkAssumption DEF Entry, Honest, Designated
  <2> HIDE DEF e
  <2>2. Append(w.nodes, e) \in Seq(Entry)
        /\ \A i \in DOMAIN Append(w.nodes, e) : Honest(Append(w.nodes, e)[i])
    BY <2>1 DEF WalkOK, Walk
  <2>3. WalkOK(listed)
    BY <2>2 DEF WalkOK, Walk
  <2>4. WalkOK(Note(listed, "time"))
    BY <2>3, NotesAreWalks
  <2> HIDE DEF listed
  <2>5. Collected(w, h, hidden, how) = IF how = "mute" THEN Note(listed, "time") ELSE listed
    BY <1>2 DEF Collected, listed, e
  <2> QED BY <2>3, <2>4, <2>5
<1> QED BY <1>1, <1>2

LEMMA ConsideredAreWalks ==
  ASSUME TreeOK, NEW w, WalkOK(w), NEW h \in Handle, NEW how
  PROVE  WalkOK(Considered(w, h, how))
BY CollectedAreWalks DEF Considered

LEMMA MetAreWalks ==
  ASSUME TreeOK, NEW w, WalkOK(w), NEW h \in Handle, NEW depth \in Nat, NEW how
  PROVE  WalkOK(Met(w, h, depth, how))
BY ConsideredAreWalks, PushedAreWalks DEF Met

LEMMA NewWalksAreWalks ==
  ASSUME NEW shape \in [lists : SUBSET Nodes, skeleton : BOOLEAN]
  PROVE  WalkOK(NewWalk(shape))
<1> DEFINE w == [shape |-> shape, stack |-> <<>>, visited |-> 0, truncated |-> None,
                 nodes |-> <<>>, hidden |-> 0]
<1>1. WalkOK(w)
  BY DEF WalkOK, Walk
<1>2. RootHandle \in Handle
  BY TreeAssumption DEF RootHandle, Handle, Node
<1> HIDE DEF w
<1>3. NewWalk(shape) = Push(w, RootHandle, 0, "root")
  BY DEF NewWalk, w
<1> QED BY <1>1, <1>2, <1>3, PushedAreWalks

LEMMA PagesAreHandles ==
  ASSUME TreeOK, NEW h \in Handle, NEW i \in Nat, NEW j \in Int
  PROVE  /\ HandlesOf(h, i + 1, j) \in Seq(Handle)
         /\ Len(HandlesOf(h, i + 1, j)) = IF j < i + 1 THEN 0 ELSE j - i
         /\ \A k \in 1 .. j - i : HandlesOf(h, i + 1, j)[k] =
              [node |-> ChildAt(Designated(h), i + k), parent |-> Designated(h),
               path |-> Append(h.path, i + k)]
<1> DEFINE n == IF j < i + 1 THEN 0 ELSE j - (i + 1) + 1
           p == Designated(h)
           e(k) == [node |-> ChildAt(p, (i + 1) + k - 1), parent |-> p,
                    path |-> Append(h.path, (i + 1) + k - 1)]
<1>1. n \in Nat /\ n = IF j < i + 1 THEN 0 ELSE j - i
  OBVIOUS
<1>2. p \in Node /\ \A k : ChildAt(p, k) \in Node
  BY DesignatedIsANode DEF ChildAt, TreeOK, Node
<1>3. ASSUME NEW k \in 1 .. n
      PROVE  /\ e(k) \in Handle
             /\ e(k) = [node |-> ChildAt(p, i + k), parent |-> p, path |-> Append(h.path, i + k)]
  <2>1. (i + 1) + k - 1 = i + k /\ i + k \in Nat
    BY <1>1
  <2>2. Append(h.path, i + k) \in Seq(Nat)
    BY <2>1 DEF Handle
  <2> HIDE DEF p
  <2> QED BY <1>2, <2>1, <2>2 DEF Handle
<1>4. HandlesOf(h, i + 1, j) = [k \in 1 .. n |-> e(k)]
  BY DEF HandlesOf
<1> HIDE DEF n, e, p
<1>5. \A k \in 1 .. j - i : k \in 1 .. n
  BY <1>1
<1>6. HandlesOf(h, i + 1, j) \in Seq(Handle) /\ Len(HandlesOf(h, i + 1, j)) = n
  BY <1>1, <1>3, <1>4
<1>7. \A k \in 1 .. n : HandlesOf(h, i + 1, j)[k] = e(k)
  BY <1>4
<1> QED BY <1>1, <1>3, <1>5, <1>6, <1>7 DEF p

\* ---- a walk's steps --------------------------------------------------------

SameTree == UNCHANGED <<toolkit, kids, changes, arranged>>

LEMMA ReadsKeepTheTree ==
  ASSUME TypeInv, NEW h, NEW how, NEW hides, Reads(h, how, hides)
  PROVE  SameTree /\ troubles' \in Nat
BY DEF Reads, SameTree, Answers, Trouble, TypeInv

LEMMA SilenceKeepsTheTree == TypeInv /\ Silent => SameTree /\ troubles' \in Nat
BY DEF Silent, SameTree, app_vars, TypeInv

LEMMA TopIsAFrame ==
  ASSUME TypeInv, walk # None, walk.stack # <<>>
  PROVE  /\ WalkOK(walk) /\ Top \in Frame
         /\ Designated(Top.handle) \in Node
         /\ Designated(Top.handle) # None => Len(kids[Designated(Top.handle)]) \in Nat
<1>1. WalkOK(walk) /\ Top \in Frame
  BY FrontAndLast DEF TypeInv, WalkOK, Walk, Top
<1>2. Designated(Top.handle) \in Node
  BY <1>1, DesignatedIsANode DEF TypeInv, Frame
<1> QED BY <1>1, <1>2 DEF TypeInv, TreeOK, Node

LEMMA UnreadAreWalks ==
  ASSUME TypeInv, walk # None, walk.stack # <<>>, NEW how
  PROVE  WalkOK(Unread(how))
BY TopIsAFrame, PoppedAreWalks, NotesAreWalks DEF Unread

LEMMA CopiesAreWalks ==
  ASSUME TypeInv, walk # None, walk.stack # <<>>
  PROVE  WalkOK(Copies)
<1>1. [Top EXCEPT !.at = "copy"] \in Frame
  BY TopIsAFrame DEF Frame
<1> QED BY <1>1, TopIsAFrame, ReplacedAreWalks DEF Copies

LEMMA VisitedAreWalks ==
  ASSUME NEW w, WalkOK(w)
  PROVE  WalkOK([w EXCEPT !.visited = @ + 1])
BY DEF WalkOK, Walk

LEMMA VisitRootKeeps == TypeInv /\ VisitRoot => SameTree /\ troubles' \in Nat /\ WalkOK(walk')
<1> SUFFICES ASSUME TypeInv, VisitRoot PROVE SameTree /\ troubles' \in Nat /\ WalkOK(walk')
  OBVIOUS
<1> DEFINE why == Stopped(walk, 0)
           w   == [Pop(walk) EXCEPT !.visited = @ + 1]
<1>1. walk # None /\ walk.stack # <<>> /\ WalkOK(walk) /\ WalkOK(Pop(walk))
  BY TopIsAFrame, PoppedAreWalks DEF VisitRoot, Walking
<1>2. CASE why # None
  <2>1. walk' = Note(Pop(walk), why) /\ Silent
    BY <1>2 DEF VisitRoot
  <2>2. why \in {"time", "nodes", "depth"}
    BY <1>2 DEF Stopped
  <2> HIDE DEF why
  <2> QED BY <1>1, <2>1, <2>2, NotesAreWalks, SilenceKeepsTheTree
<1>3. CASE why = None
  <2>1. PICK how \in {"ok", "gone", "late", "refused"} :
          /\ Reads(RootHandle, how, {Root})
          /\ walk' = IF how = "ok" THEN Push(w, RootHandle, 1, "count")
                     ELSE Unanswered(w, RootHandle, 0, how)
    BY <1>3 DEF VisitRoot
  <2>2. WalkOK(w)
    BY <1>1, VisitedAreWalks
  <2>3. RootHandle \in Handle
    BY TreeAssumption DEF RootHandle, Handle, Node
  <2> HIDE DEF w
  <2> QED BY <2>1, <2>2, <2>3, PushedAreWalks, UnansweredAreWalks, ReadsKeepTheTree
<1> QED BY <1>2, <1>3

LEMMA VisitKeeps == TypeInv /\ Visit => SameTree /\ troubles' \in Nat /\ WalkOK(walk')
<1> SUFFICES ASSUME TypeInv, Visit PROVE SameTree /\ troubles' \in Nat /\ WalkOK(walk')
  OBVIOUS
<1> DEFINE h    == Head(Top.page)
           f    == [Top EXCEPT !.page = Tail(@)]
           rest == Replace(walk, f)
           w    == [rest EXCEPT !.visited = @ + 1]
           why  == Stopped(walk, Top.depth)
<1>1. walk # None /\ walk.stack # <<>> /\ Top.page # <<>> /\ WalkOK(walk) /\ Top \in Frame
  BY TopIsAFrame DEF Visit
<1>2. h \in Handle /\ f \in Frame
  <2>1. Top.page \in Seq(Handle) /\ Tail(Top.page) \in Seq(Handle) /\ h \in Handle
    BY <1>1 DEF Frame
  <2> QED BY <1>1, <2>1 DEF Frame
<1>3. WalkOK(rest)
  <2> HIDE DEF f
  <2> QED BY <1>1, <1>2, ReplacedAreWalks
<1>4. CASE why # None
  <2>1. walk' = Note(rest, why) /\ Silent
    BY <1>1, <1>4 DEF Visit
  <2>2. why \in {"time", "nodes", "depth"}
    BY <1>4 DEF Stopped
  <2> HIDE DEF why, rest
  <2> QED BY <1>3, <2>1, <2>2, NotesAreWalks, SilenceKeepsTheTree
<1>5. CASE why = None
  <2>1. PICK how \in {"ok", "mute", "gone", "late", "refused"} :
          /\ Reads(h, how, {Designated(h)})
          /\ walk' = IF how \in {"ok", "mute"} THEN Met(w, h, Top.depth, how)
                     ELSE Unanswered(w, h, Top.depth, how)
    BY <1>5 DEF Visit
  <2>2. WalkOK(w)
    BY <1>3, VisitedAreWalks
  <2>3. Top.depth \in Nat /\ TreeOK
    BY <1>1 DEF Frame, TypeInv
  <2> HIDE DEF w, h
  <2> QED BY <1>2, <2>1, <2>2, <2>3, MetAreWalks, UnansweredAreWalks, ReadsKeepTheTree
<1> QED BY <1>4, <1>5

LEMMA CutKeeps == TypeInv /\ Cut => SameTree /\ troubles' \in Nat /\ WalkOK(walk')
<1> SUFFICES ASSUME TypeInv, Cut PROVE SameTree /\ troubles' \in Nat /\ WalkOK(walk')
  OBVIOUS
<1>1. /\ walk # None /\ walk.stack # <<>> /\ WalkOK(walk) /\ Top \in Frame /\ WalkOK(Pop(walk))
      /\ Designated(Top.handle) # None => Len(kids[Designated(Top.handle)]) \in Nat
  BY TopIsAFrame, PoppedAreWalks DEF Cut, Walking
<1> DEFINE h == Top.handle
           hid(how) == IF how = "ok" THEN Min({Len(kids[Designated(h)]), MaxChildren}) ELSE 0
           w(how) == IF how = "late" THEN Note(Pop(walk), "time") ELSE Pop(walk)
           copies(how) == how = "refused" /\ Top.at = "cut"
<1>2. PICK how \in {"ok", "gone", "late", "refused"} :
        /\ Reads(h, how, IF copies(how) THEN {} ELSE Below(Designated(h)))
        /\ walk' = IF copies(how) THEN Replace(walk, [Top EXCEPT !.at = "cut_copy"])
                   ELSE IF hid(how) = 0 THEN Considered(w(how), h, "ok")
                   ELSE Collected(w(how), h, hid(how), "ok")
  BY DEF Cut
<1>3. SameTree /\ troubles' \in Nat
  BY <1>2, ReadsKeepTheTree
<1>4. WalkOK(w(how))
  BY <1>1, NotesAreWalks
<1>5. hid(how) \in Nat
  <2>1. how = "ok" => Designated(h) # None
    BY <1>2 DEF Reads, Answers, Present
  <2>2. how = "ok" => Len(kids[Designated(h)]) \in Int /\ Len(kids[Designated(h)]) \in Nat
    BY <1>1, <2>1
  <2>3. MaxChildren \in Nat /\ MaxChildren \in Int
    BY Bounds
  <2>4. how = "ok" =>
          Min({Len(kids[Designated(h)]), MaxChildren}) \in {Len(kids[Designated(h)]), MaxChildren}
    BY <2>2, <2>3, MinOfTwo
  <2> QED BY <2>2, <2>3, <2>4
<1>6. h \in Handle /\ TreeOK
  BY <1>1 DEF Frame, TypeInv
<1>7. [Top EXCEPT !.at = "cut_copy"] \in Frame
  BY <1>1 DEF Frame
<1>8. WalkOK(Replace(walk, [Top EXCEPT !.at = "cut_copy"]))
  BY <1>1, <1>7, ReplacedAreWalks
<1> HIDE DEF w, hid, h
<1>9. WalkOK(Considered(w(how), h, "ok")) /\ WalkOK(Collected(w(how), h, hid(how), "ok"))
  BY <1>4, <1>5, <1>6, ConsideredAreWalks, CollectedAreWalks
<1> QED BY <1>2, <1>3, <1>8, <1>9

LEMMA CountsKeeps == TypeInv /\ Counts => SameTree /\ troubles' \in Nat /\ WalkOK(walk')
<1> SUFFICES ASSUME TypeInv, Counts PROVE SameTree /\ troubles' \in Nat /\ WalkOK(walk')
  OBVIOUS
<1>1. /\ walk # None /\ walk.stack # <<>> /\ WalkOK(walk) /\ Top \in Frame
      /\ Designated(Top.handle) # None => Len(kids[Designated(Top.handle)]) \in Nat
  BY TopIsAFrame DEF Counts, Walking
<1> DEFINE f == [Top EXCEPT !.at = "pages", !.count = Len(kids[Designated(Top.handle)])]
<1>2. PICK how \in {"ok", "gone", "late", "refused"} :
        /\ Reads(Top.handle, how, {})
        /\ walk' = CASE how = "ok" -> Replace(walk, f)
                     [] how = "refused" -> Copies
                     [] OTHER -> Unread(how)
  BY DEF Counts
<1>3. SameTree /\ troubles' \in Nat
  BY <1>2, ReadsKeepTheTree
<1>4. CASE how = "ok"
  <2>1. Designated(Top.handle) # None
    BY <1>2, <1>4 DEF Reads, Answers, Present
  <2>2. f \in Frame
    BY <1>1, <2>1 DEF Frame
  <2> HIDE DEF f
  <2>3. walk' = Replace(walk, f)
    BY <1>2, <1>4
  <2>4. WalkOK(Replace(walk, f))
    BY <1>1, <2>2, ReplacedAreWalks
  <2> QED BY <1>3, <2>3, <2>4
<1>5. CASE how # "ok"
  <2>1. WalkOK(Copies) /\ WalkOK(Unread(how))
    BY <1>1, CopiesAreWalks, UnreadAreWalks
  <2>2. walk' = Copies \/ walk' = Unread(how)
    BY <1>2, <1>5
  <2> QED BY <1>3, <2>1, <2>2
<1> QED BY <1>4, <1>5

LEMMA PagesKeeps == TypeInv /\ Pages => SameTree /\ troubles' \in Nat /\ WalkOK(walk')
<1> SUFFICES ASSUME TypeInv, Pages PROVE SameTree /\ troubles' \in Nat /\ WalkOK(walk')
  OBVIOUS
<1> DEFINE f      == Top
           size   == Len(kids[Designated(f.handle)])
           wanted == Min({f.count, MaxChildren})
           asked  == Min({ChildPage, wanted - f.read, size - f.read})
           page   == HandlesOf(f.handle, f.read + 1, f.read + asked)
           why    == IF f.read >= wanted THEN None ELSE Stopped(walk, f.depth)
           short  == f.read >= wanted /\ f.count > wanted
           next   == [f EXCEPT !.page = page, !.read = @ + asked]
<1>0. f.at = "pages"
  BY DEF Pages, Walking
<1>1. /\ walk # None /\ walk.stack # <<>> /\ WalkOK(walk) /\ f \in Frame /\ WalkOK(Pop(walk))
      /\ Designated(f.handle) # None => size \in Nat
  BY TopIsAFrame, PoppedAreWalks DEF Pages, Walking
<1>2. CASE f.read >= wanted \/ why # None
  <2>1. /\ walk' = IF why # None THEN Note(Pop(walk), why)
                   ELSE IF short THEN Note(Pop(walk), "nodes") ELSE Pop(walk)
        /\ Silent
    BY <1>2 DEF Pages
  <2>2. why # None => why \in {"time", "nodes", "depth"}
    BY DEF Stopped
  <2> HIDE DEF why, short
  <2> QED BY <1>1, <2>1, <2>2, NotesAreWalks, SilenceKeepsTheTree
<1>3. CASE ~(f.read >= wanted) /\ why = None
  <2>1. PICK how \in {"ok", "gone", "late", "refused"} :
          /\ Reads(f.handle, how, {})
          /\ walk' = CASE how = "ok" /\ page = <<>> -> Pop(walk)
                       [] how = "ok" /\ page # <<>> -> Replace(walk, next)
                       [] how = "refused" -> Copies
                       [] OTHER -> Unread(how)
    BY <1>3 DEF Pages
  <2>2. SameTree /\ troubles' \in Nat
    BY <2>1, ReadsKeepTheTree
  <2>3. CASE how = "ok"
    <3>1. Designated(f.handle) # None
      BY <2>1, <2>3 DEF Reads, Answers, Present
    <3>2. size \in Int /\ size \in Nat
      BY <1>1, <3>1
    <3>3. f.count \in Nat /\ f.read \in Nat /\ f.handle \in Handle /\ TreeOK
      BY <1>1 DEF Frame, TypeInv
    <3> HIDE DEF f, size
    <3>4. wanted \in Int
      <4>1. wanted \in {f.count, MaxChildren}
        <5>1. f.count \in Int
          BY <3>3
        <5> QED BY <5>1, Bounds, MinOfTwo, Zenon
      <4> QED BY <3>3, <4>1, Bounds
    <3> HIDE DEF wanted
    <3>5. asked \in Int
      <4>1. ChildPage \in Int /\ wanted - f.read \in Int /\ size - f.read \in Int
        BY <3>2, <3>3, <3>4, Bounds
      <4>2. asked \in {ChildPage, wanted - f.read, size - f.read}
        BY <4>1, MinOfThree, Zenon
      <4> QED BY <4>1, <4>2
    <3> HIDE DEF asked
    <3>6. f.read + asked \in Int
      BY <3>3, <3>5
    <3>7. /\ page \in Seq(Handle)
          /\ Len(page) = IF f.read + asked < f.read + 1 THEN 0 ELSE (f.read + asked) - f.read
      BY <3>3, <3>6, PagesAreHandles
    <3> HIDE DEF page
    <3>8. page # <<>> => f.read + asked \in Nat
      <4>1. page # <<>> => Len(page) # 0
        BY <3>7, EmptySeq
      <4> QED BY <3>3, <3>5, <3>7, <4>1
    <3>9. page # <<>> => next \in Frame
      <4>1. f \in Frame /\ f.at = "pages"
        BY <1>0, <1>1 DEF f
      <4> HIDE DEF f
      <4> QED BY <3>7, <3>8, <4>1 DEF Frame
    <3> HIDE DEF next
    <3>10. page # <<>> => WalkOK(Replace(walk, next))
      BY <1>1, <3>9, ReplacedAreWalks
    <3> QED BY <1>1, <2>1, <2>2, <2>3, <3>10
  <2>4. CASE how # "ok"
    <3>1. WalkOK(Copies) /\ WalkOK(Unread(how))
      BY <1>1, CopiesAreWalks, UnreadAreWalks
    <3> HIDE DEF page, next
    <3>2. CASE how = "refused"
      <4>1. walk' = Copies
        BY <2>1, <3>2
      <4> QED BY <2>2, <3>1, <4>1
    <3>3. CASE how # "refused"
      <4>1. walk' = Unread(how)
        BY <2>1, <2>4, <3>3
      <4> QED BY <2>2, <3>1, <4>1
    <3> QED BY <3>2, <3>3
  <2> QED BY <2>3, <2>4
<1> QED BY <1>2, <1>3

LEMMA CopyKeeps == TypeInv /\ Copy => SameTree /\ troubles' \in Nat /\ WalkOK(walk')
<1> SUFFICES ASSUME TypeInv, Copy PROVE SameTree /\ troubles' \in Nat /\ WalkOK(walk')
  OBVIOUS
<1> DEFINE f    == Top
           size == Len(kids[Designated(f.handle)])
           room == Min({size, MaxChildren})
           page == HandlesOf(f.handle, f.read + 1, room)
           next == [f EXCEPT !.at = "copied", !.more = size > MaxChildren, !.page = page]
<1>1. /\ walk # None /\ walk.stack # <<>> /\ WalkOK(walk) /\ f \in Frame
      /\ Designated(f.handle) # None => size \in Nat
  BY TopIsAFrame DEF Copy, Walking
<1>2. PICK how \in {"ok", "gone", "late", "refused"} :
        /\ Reads(f.handle, how, Below(Designated(f.handle)))
        /\ walk' = IF how # "ok" THEN Unread(how) ELSE Replace(walk, next)
  BY DEF Copy, Rest
<1>3. SameTree /\ troubles' \in Nat
  BY <1>2, ReadsKeepTheTree
<1>4. CASE how = "ok"
  <2>1. Designated(f.handle) # None
    BY <1>2, <1>4 DEF Reads, Answers, Present
  <2>2. size \in Int /\ size \in Nat
    BY <1>1, <2>1
  <2>3. f.read \in Nat /\ f.handle \in Handle /\ TreeOK
    BY <1>1 DEF Frame, TypeInv
  <2> HIDE DEF f, size
  <2>4. room \in Int
    <3>1. MaxChildren \in Int
      BY Bounds
    <3>2. room \in {size, MaxChildren}
      BY <2>2, <3>1, MinOfTwo
    <3> QED BY <2>2, <3>1, <3>2
  <2> HIDE DEF room
  <2>5. page \in Seq(Handle)
    BY <2>3, <2>4, PagesAreHandles
  <2> HIDE DEF page
  <2>6. (size > MaxChildren) \in BOOLEAN
    OBVIOUS
  <2>7. next \in Frame
    BY <1>1, <2>5, <2>6 DEF Frame
  <2> HIDE DEF next
  <2>8. WalkOK(Replace(walk, next))
    BY <1>1, <2>7, ReplacedAreWalks
  <2> QED BY <1>2, <1>3, <1>4, <2>8
<1>5. CASE how # "ok"
  <2>1. WalkOK(Unread(how))
    BY <1>1, UnreadAreWalks
  <2> QED BY <1>2, <1>3, <1>5, <2>1
<1> QED BY <1>4, <1>5

LEMMA WalkStepKeeps ==
  TypeInv /\ WalkStep => walk # None /\ SameTree /\ troubles' \in Nat /\ WalkOK(walk')
<1> SUFFICES ASSUME TypeInv, WalkStep
             PROVE  walk # None /\ SameTree /\ troubles' \in Nat /\ WalkOK(walk')
  OBVIOUS
<1>1. walk # None
  BY DEF WalkStep, VisitRoot, Visit, Cut, Counts, Pages, Copy, Copied, Walking
<1>2. CASE Copied
  <2>1. WalkOK(Pop(walk)) /\ WalkOK(Note(Pop(walk), "nodes"))
    BY <1>2, TopIsAFrame, PoppedAreWalks, NotesAreWalks DEF Copied, Walking
  <2> QED BY <1>1, <1>2, <2>1, SilenceKeepsTheTree DEF Copied
<1> QED
  BY <1>1, <1>2, VisitRootKeeps, VisitKeeps, CutKeeps, CountsKeeps, PagesKeeps, CopyKeeps
  DEF WalkStep
-----------------------------------------------------------------------------
(* What the worker is about.                                               *)

ElementsJob == [kind : {"elements"}, at : {"walk", "answered"}, code : {None, "ok"}]

WaitJob ==
  [kind : {"wait"}, at : {"walk", "sleep", "answered"},
   code : {None, "met", "not_met", "cancelled"}, cond : Conditions, looks : Nat,
   truncated : {None, "time", "nodes", "depth"}]

\* A verb that has found its reference again.
Found == {"container", "state", "index", "send", "judge", "selection", "delete", "insert"}

VerbJob ==
  [kind : {"verb"}, at : {"look", "candidates", "one", "placed", "answered"} \cup Found,
   code : {None, "ok", "paused", "identity_unknown", "ambiguous_element", "stale_element",
           "state_unreadable", "ax_action_unsupported", "ax_action_failed", "sent_unknown"},
   verb : {"select", "toggle", "type"}, wanted : BOOLEAN, ref : Entry, tries : Nat,
   placed : Node, was : BOOLEAN \cup {None}, index : Nat, polls : Nat, sent : BOOLEAN,
   arranged : Nat, changes : Nat, effect : {None, "unknown", "changed", "not_observed"}]

JobInv ==
  \/ job = NoJob
  \/ job \in ElementsJob \cup WaitJob /\ WalkOK(walk)
  \/ job \in VerbJob

\* What a verb was asked of, and the changes since its look began.
AskedInv(j) ==
  /\ Honest(j.ref)
  /\ j.arranged <= arranged /\ j.changes <= changes
  /\ changes = j.changes => arranged = j.arranged
  /\ j.verb = "select" => j.wanted
  /\ IF j.verb = "type" THEN j.ref.shown = Field ELSE j.ref.handle.parent = Table
  /\ j.at \in {"container", "state", "index", "send", "judge"} => j.verb # "type"
  /\ j.at \in {"selection", "delete", "insert"} => j.verb = "type"
  /\ j.at \in {"container", "index"} => j.verb = "select" /\ toolkit = "gtk"
  /\ j.at = "one" => ~Positional(j.ref.handle)
  /\ j.at = "placed" => Positional(j.ref.handle)

\* What the look has found, as long as no list has changed.
FoundInv(j) ==
  LET h == j.ref.handle
  IN  /\ j.at = "candidates" => j.placed \in Attached \cup {None}
      /\ j.at = "one" => h.node \in Kept \cup {None}
      /\ j.at = "placed" => Table \in Attached
      /\ j.at \in Found => Designated(h) = j.ref.shown /\ j.ref.shown \in Kept
      /\ j.at \in {"state", "index"} /\ j.verb = "select" /\ toolkit = "gtk" =>
           h.node \in Kids(Table)
      /\ j.at = "send" /\ j.verb = "select" /\ toolkit = "gtk" =>
           ChildAt(Table, j.index) = h.node

VerbInv(j) ==
  /\ AskedInv(j)
  /\ arranged = j.arranged => FoundInv(j)
  /\ j.at \in {"index", "send"} /\ changes = j.changes =>
       (Designated(j.ref.handle) \in on) # j.wanted

\* What has landed, and what the verb knows of it.
LandsInv(j, l) ==
  /\ j.at \notin {"judge", "insert", "answered"} => l = {}
  /\ j.at = "insert" /\ l # {} => j.was = TRUE
  /\ j.at = "judge" => j.sent
  /\ j.at = "answered" /\ ~j.sent => l = {}
  /\ \A m \in l : (m.to = j.ref.shown /\ m.listed) \/ arranged > j.arranged
  /\ \A m \in l : m.on = j.wanted \/ changes > j.changes

IInv ==
  /\ TypeInv /\ JobInv
  /\ IF job.kind = "verb" THEN VerbInv(job) /\ LandsInv(job, lands) ELSE lands = {}

LEMMA InvariantImplies ==
  IInv => MessagesLandOnTheListed /\ WritesEndAsAsked /\ NotSentMeansUntouched
BY DEF IInv, LandsInv, MessagesLandOnTheListed, WritesEndAsAsked, NotSentMeansUntouched, At

LEMMA KindsOfJobs ==
  ASSUME JobInv
  PROVE  /\ job.kind = "verb" <=> job \in VerbJob
         /\ job.kind \in {"elements", "wait"} =>
              WalkOK(walk) /\ job \in (IF job.kind = "wait" THEN WaitJob ELSE ElementsJob)
         /\ job.kind = "none" <=> job = NoJob
         /\ job.kind \in {"none", "elements", "wait", "verb"}
BY DEF JobInv, NoJob, ElementsJob, WaitJob, VerbJob

-----------------------------------------------------------------------------
(* Steps that are not a verb's.                                            *)

LEMMA SameTreeSameAttached ==
  UNCHANGED kids => Attached' = Attached /\ Kept' = Kept /\ Kids(Table)' = Kids(Table)
BY DEF Attached, Below, Spread, Kids, Kept

\* What is in the tree, some list has, or it is the root.
LEMMA AttachedIsKept == TreeOK => Attached \subseteq Kept /\ Kids(Table) \subseteq Kept
<1> SUFFICES ASSUME TreeOK PROVE Attached \subseteq Kept /\ Kids(Table) \subseteq Kept
  OBVIOUS
<1>1. \A n \in Below(Root) : \E q \in Nodes : n \in Kids(q)
  BY BelowHasAParent, TreeAssumption
<1> QED BY <1>1, TreeAssumption DEF Attached, Kept

LEMMA TypeInvKept ==
  ASSUME TypeInv, SameTree, troubles' \in Nat, WalkOK(walk') \/ walk' \in {walk, None},
         refs' = refs \/ (refs' = walk.nodes /\ WalkOK(walk))
  PROVE  TypeInv'
<1>1. TreeOK' /\ Forest' /\ (toolkit \in {"gtk", "qt"} /\ arranged \in Nat /\ changes \in Nat)'
  BY DEF TypeInv, SameTree, TreeOK, Forest
<1>2. (walk # None => WalkOK(walk))'
  BY DEF TypeInv, SameTree, WalkOK, Honest, Positional
<1>3. (refs \in Seq(Entry) /\ \A i \in DOMAIN refs : Honest(refs[i]))'
  BY DEF TypeInv, SameTree, WalkOK, Honest, Positional, Walk
<1> QED BY <1>1, <1>2, <1>3 DEF TypeInv

\* A job that is no verb, with nothing landed.
LEMMA OthersKeep ==
  ASSUME TypeInv', lands' = {},
         \/ job' = NoJob
         \/ job' \in ElementsJob \cup WaitJob /\ WalkOK(walk')
         , toolkit' = toolkit
  PROVE  IInv'
<1>1. WalkOK(walk') => WalkOK(walk)'
  BY DEF WalkOK, Honest, Positional
<1>2. JobInv'
  BY <1>1 DEF JobInv
<1>3. job'.kind # "verb"
  BY DEF NoJob, ElementsJob, WaitJob
<1> QED BY <1>2, <1>3 DEF IInv

LEMMA WalksStart ==
  ASSUME TypeInv, NEW shape \in [lists : SUBSET Nodes, skeleton : BOOLEAN], StartsWalk(shape)
  PROVE  WalkOK(walk') /\ SameTree /\ troubles' \in Nat
BY NewWalksAreWalks DEF StartsWalk, SameTree, TypeInv

LEMMA TakeElementsKeeps == IInv /\ TakeElements => IInv'
<1> SUFFICES ASSUME IInv, TakeElements PROVE IInv'
  OBVIOUS
<1> DEFINE new == [kind |-> "elements", at |-> "walk", code |-> None]
<1>1. PICK shape \in Shapes : Takes(new) /\ StartsWalk(shape)
  BY DEF TakeElements
<1>2. new \in ElementsJob
  BY DEF ElementsJob
<1>3. WalkOK(walk') /\ SameTree /\ troubles' \in Nat
  BY <1>1, SemanticAssumption, WalksStart DEF IInv
<1>4. job' = new /\ refs' = refs /\ lands' = {}
  BY <1>1 DEF Takes, NoJob, IInv
<1>5. TypeInv'
  BY <1>3, <1>4, TypeInvKept DEF IInv
<1> HIDE DEF new
<1> QED BY <1>2, <1>3, <1>4, <1>5, OthersKeep DEF SameTree

LEMMA TakeWaitKeeps == IInv /\ TakeWait => IInv'
<1> SUFFICES ASSUME IInv, TakeWait PROVE IInv'
  OBVIOUS
<1> DEFINE new(c) == [kind |-> "wait", at |-> "walk", code |-> None, cond |-> c, looks |-> 1,
                      truncated |-> None]
<1>1. PICK c \in Conditions :
        Takes(new(c)) /\ StartsWalk([lists |-> c.lists, skeleton |-> FALSE])
  BY DEF TakeWait
<1>2. new(c) \in WaitJob
  BY DEF WaitJob
<1>3. WalkOK(walk') /\ SameTree /\ troubles' \in Nat
  <2>1. [lists |-> c.lists, skeleton |-> FALSE] \in [lists : SUBSET Nodes, skeleton : BOOLEAN]
    BY SemanticAssumption
  <2> QED BY <1>1, <2>1, WalksStart DEF IInv
<1>4. job' = new(c) /\ refs' = refs /\ lands' = {}
  BY <1>1 DEF Takes, NoJob, IInv
<1>5. TypeInv'
  BY <1>3, <1>4, TypeInvKept DEF IInv
<1> HIDE DEF new
<1> QED BY <1>2, <1>3, <1>4, <1>5, OthersKeep DEF SameTree

LEMMA ReplyKeeps == IInv /\ Reply => IInv'
<1> SUFFICES ASSUME IInv, Reply PROVE IInv'
  OBVIOUS
<1>1. SameTree /\ troubles' \in Nat /\ walk' = None /\ refs' = refs /\ job' = NoJob /\ lands' = {}
  BY DEF Reply, SameTree, IInv, TypeInv
<1>2. TypeInv'
  BY <1>1, TypeInvKept DEF IInv
<1> QED BY <1>1, <1>2, OthersKeep DEF SameTree

LEMMA WalksKeep == IInv /\ Walks => IInv'
<1> SUFFICES ASSUME IInv, Walks PROVE IInv'
  OBVIOUS
<1>1. SameTree /\ troubles' \in Nat /\ WalkOK(walk') /\ UNCHANGED <<refs, job, lands>>
  BY WalkStepKeeps DEF Walks, IInv, semantic_vars
<1>2. TypeInv'
  BY <1>1, TypeInvKept DEF IInv
<1>3. job \in ElementsJob \cup WaitJob /\ lands = {}
  <2>1. job.at = "walk" /\ job # NoJob
    BY DEF Walks
  <2>2. job \notin VerbJob
    BY <2>1 DEF VerbJob, Found
  <2> QED BY <2>1, <2>2, KindsOfJobs DEF IInv, JobInv
<1> QED BY <1>1, <1>2, <1>3, OthersKeep DEF SameTree

LEMMA ListElementsKeeps == IInv /\ ListElements => IInv'
<1> SUFFICES ASSUME IInv, ListElements PROVE IInv'
  OBVIOUS
<1>1. job \in ElementsJob /\ WalkOK(walk) /\ lands = {} /\ TypeInv
  BY KindsOfJobs DEF ListElements, At, IInv
<1>2. /\ SameTree /\ troubles' \in Nat /\ walk' = walk /\ refs' = walk.nodes /\ lands' = {}
      /\ job' = Answered("ok")
  BY <1>1 DEF ListElements, App, app_vars, NoWalk, walk_vars, SameTree, TypeInv
<1>3. TypeInv'
  BY <1>1, <1>2, TypeInvKept
<1>4. job' \in ElementsJob
  BY <1>1, <1>2 DEF Answered, ElementsJob
<1> QED BY <1>1, <1>2, <1>3, <1>4, OthersKeep DEF SameTree

LEMMA LookEndsKeeps == IInv /\ LookEnds => IInv'
<1> SUFFICES ASSUME IInv, LookEnds PROVE IInv'
  OBVIOUS
<1>1. job \in WaitJob /\ WalkOK(walk) /\ lands = {} /\ TypeInv
  BY KindsOfJobs DEF LookEnds, At, IInv
<1>2. SameTree /\ troubles' \in Nat /\ walk' = walk /\ refs' = refs /\ lands' = {}
  BY <1>1 DEF LookEnds, App, app_vars, NoWalk, walk_vars, Worker, SameTree, TypeInv
<1>3. TypeInv'
  BY <1>1, <1>2, TypeInvKept
<1>4. job' \in WaitJob
  <2>1. walk.truncated \in {None, "time", "nodes", "depth"}
    BY <1>1 DEF WalkOK, Walk
  <2> DEFINE why == IF Seen(job.cond, walk) = "unproven" THEN walk.truncated ELSE None
             j == [job EXCEPT !.truncated = why]
  <2>2. why \in {None, "time", "nodes", "depth"}
    BY <2>1
  <2>3. \/ job' = Answered("met")
        \/ job' = [j EXCEPT !.at = "answered", !.code = "not_met"]
        \/ job' = [j EXCEPT !.at = "sleep"]
    BY DEF LookEnds
  <2> HIDE DEF why
  <2> QED BY <1>1, <2>2, <2>3 DEF Answered, WaitJob
<1> QED BY <1>1, <1>2, <1>3, <1>4, OthersKeep DEF SameTree

LEMMA SleepEndsKeeps == IInv /\ SleepEnds => IInv'
<1> SUFFICES ASSUME IInv, SleepEnds PROVE IInv'
  OBVIOUS
<1>1. job \in WaitJob /\ WalkOK(walk) /\ lands = {} /\ TypeInv
  BY KindsOfJobs DEF SleepEnds, At, IInv
<1>2. refs' = refs /\ lands' = {}
  BY <1>1 DEF SleepEnds, Worker
<1>3. SameTree /\ troubles' \in Nat /\ WalkOK(walk')
  <2>1. walk.shape \in [lists : SUBSET Nodes, skeleton : BOOLEAN]
    BY <1>1 DEF WalkOK, Walk
  <2>2. CASE paused
    BY <1>1, <2>2 DEF SleepEnds, App, app_vars, NoWalk, walk_vars, SameTree, TypeInv
  <2>3. CASE ~paused
    BY <1>1, <2>1, <2>3, WalksStart DEF SleepEnds
  <2> QED BY <2>2, <2>3
<1>4. TypeInv'
  BY <1>1, <1>2, <1>3, TypeInvKept
<1>5. job' \in WaitJob
  <2> DEFINE n == job.looks + 1
  <2>1. job' = Answered("cancelled") \/ job' = [job EXCEPT !.at = "walk", !.looks = n]
    BY DEF SleepEnds
  <2>2. n \in Nat
    BY <1>1 DEF WaitJob
  <2> HIDE DEF n
  <2> QED BY <1>1, <2>1, <2>2 DEF Answered, WaitJob
<1> QED BY <1>2, <1>3, <1>4, <1>5, OthersKeep DEF SameTree

-----------------------------------------------------------------------------
(* A verb's steps.                                                         *)

\* The application and what the worker keeps of it are as they were.
Sends == SameTree /\ troubles' \in Nat /\ UNCHANGED <<walk, refs>>
Stays == Sends /\ on' = on

LEMMA AsksStay ==
  ASSUME IInv, NEW j, VerbStep(j), App \/ \E n, how : Asks(n, how)
  PROVE  Stays /\ job' = j
BY DEF IInv, TypeInv, VerbStep, NoWalk, walk_vars, Worker, App, app_vars, Asks, Answers,
       Trouble, Stays, Sends, SameTree

LEMMA SentKeeps ==
  ASSUME IInv, Sends, on' = on \/ job'.at \notin {"index", "send"},
         job' \in VerbJob, VerbInv(job'), LandsInv(job', lands')
  PROVE  IInv'
<1>1. TypeInv'
  BY TypeInvKept DEF IInv, Sends
<1>2. Attached' = Attached /\ Kept' = Kept /\ Kids(Table)' = Kids(Table)
  BY SameTreeSameAttached DEF Sends, SameTree
<1>3. AskedInv(job)'
  BY DEF VerbInv, AskedInv, Sends, SameTree, Honest, Positional
<1>4. \A h : Designated(h)' = Designated(h)
  BY DEF Sends, SameTree, Designated, Positional, ChildAt
<1>5. \A n, i : ChildAt(n, i)' = ChildAt(n, i)
  BY DEF Sends, SameTree, ChildAt
<1>6. VerbInv(job)'
  BY <1>2, <1>3, <1>4, <1>5 DEF VerbInv, FoundInv, Sends, SameTree
<1>7. LandsInv(job, lands)'
  BY DEF LandsInv, Sends, SameTree
<1>8. JobInv' /\ job'.kind = "verb"
  BY DEF JobInv, VerbJob
<1> QED BY <1>1, <1>6, <1>7, <1>8 DEF IInv

LEMMA VerbKeeps ==
  ASSUME IInv, Stays, job' \in VerbJob, VerbInv(job'), LandsInv(job', lands')
  PROVE  IInv'
BY SentKeeps DEF Stays

\* What is asked stays what it was.
SameRequest(j) ==
  /\ j \in VerbJob
  /\ j.ref = job.ref /\ j.verb = job.verb /\ j.wanted = job.wanted
  /\ j.arranged = job.arranged /\ j.changes = job.changes

LEMMA AnsweredKeeps ==
  ASSUME NEW j, SameRequest(j), j.at = "answered", VerbInv(job)
  PROVE  VerbInv(j)
BY DEF SameRequest, VerbInv, AskedInv, FoundInv, Found

Codes == {None, "ok", "paused", "identity_unknown", "ambiguous_element", "stale_element",
          "state_unreadable", "ax_action_unsupported", "ax_action_failed", "sent_unknown"}

LEMMA AnsweredAsAsked ==
  ASSUME job \in VerbJob, NEW code \in Codes
  PROVE  LET j == Answered(code)
         IN  /\ SameRequest(j) /\ j.at = "answered" /\ j.sent = job.sent
             /\ SameRequest([j EXCEPT !.sent = TRUE])
             /\ [j EXCEPT !.sent = TRUE].at = "answered" /\ [j EXCEPT !.sent = TRUE].sent
BY DEF Answered, SameRequest, VerbJob, Codes

\* An answer, of a request that stands as it did.
LEMMA AnswersKeep ==
  ASSUME IInv, job.kind = "verb", NEW code \in Codes, Stays, job' = Answered(code), lands' = {}
  PROVE  IInv'
<1>1. job \in VerbJob /\ VerbInv(job)
  BY KindsOfJobs DEF IInv
<1>2. SameRequest(job') /\ job'.at = "answered"
  BY <1>1, AnsweredAsAsked
<1>3. VerbInv(job')
  BY <1>1, <1>2, AnsweredKeeps
<1>4. LandsInv(job', lands')
  BY <1>2 DEF LandsInv
<1> QED BY <1>2, <1>3, <1>4, VerbKeeps DEF SameRequest

LEMMA UnreadableKeeps ==
  ASSUME IInv, job.kind = "verb", Stays, job' = Unreadable, lands = {}, lands' = {}
  PROVE  IInv'
<1>1. CASE job' = Answered("identity_unknown")
  BY <1>1, AnswersKeep DEF Codes
<1>2. CASE job' = [job EXCEPT !.at = "look", !.tries = @ + 1]
  <2>1. job \in VerbJob /\ VerbInv(job)
    BY KindsOfJobs DEF IInv
  <2>2. SameRequest(job') /\ job'.at = "look"
    <3> DEFINE n == job.tries + 1
    <3>1. job' = [job EXCEPT !.at = "look", !.tries = n]
      BY <1>2
    <3>2. n \in Nat
      BY <2>1 DEF VerbJob
    <3> HIDE DEF n
    <3> QED BY <2>1, <3>1, <3>2 DEF SameRequest, VerbJob
  <2>3. VerbInv(job')
    BY <2>1, <2>2 DEF SameRequest, VerbInv, AskedInv, FoundInv, Found
  <2>4. LandsInv(job', lands')
    BY <2>2 DEF LandsInv
  <2> QED BY <2>2, <2>3, <2>4, VerbKeeps DEF SameRequest
<1> QED BY <1>1, <1>2 DEF Unreadable

LEMMA BarredKeeps == IInv /\ job.kind = "verb" /\ lands = {} /\ Barred => IInv'
BY AsksStay, AnswersKeep DEF Barred, Codes

LEMMA LookAtPlaceKeeps == IInv /\ LookAtPlace => IInv'
<1> SUFFICES ASSUME IInv, LookAtPlace PROVE IInv'
  OBVIOUS
<1>1. job \in VerbJob /\ VerbInv(job) /\ TypeInv /\ job.kind = "verb" /\ lands = {} /\ lands' = {}
  BY KindsOfJobs DEF IInv, LookAtPlace, At, LandsInv
<1> DEFINE n == AtPath(job.ref.handle.path)
           j == [job EXCEPT !.at = "candidates", !.placed = n,
                   !.arranged = arranged, !.changes = changes]
<1>2. CASE VerbStep(j) /\ App
  <2>1. n \in Attached \cup {None} /\ Attached \in SUBSET Nodes
    <3>1. Len(job.ref.handle.path) \in Nat /\ TreeOK
      BY <1>1 DEF VerbJob, Entry, Handle, TypeInv
    <3> QED BY <3>1, PathsLeadToTheAttached, AttachedIsClosed
  <2>2. Stays /\ job' = j
    <3> HIDE DEF j
    <3> QED BY <1>2, AsksStay
  <2> HIDE DEF n
  <2>3. job' \in VerbJob /\ job'.at = "candidates" /\ job'.placed = n
        /\ job'.arranged = arranged /\ job'.changes = changes
        /\ job'.ref = job.ref /\ job'.verb = job.verb /\ job'.wanted = job.wanted
    BY <1>1, <2>1, <2>2 DEF VerbJob, Node, TypeInv
  <2>4. VerbInv(job')
    <3>1. AskedInv(job')
      BY <1>1, <2>3 DEF VerbInv, AskedInv, TypeInv
    <3>2. FoundInv(job')
      BY <2>1, <2>3 DEF FoundInv, Found
    <3> QED BY <2>3, <3>1, <3>2 DEF VerbInv
  <2>5. LandsInv(job', lands')
    BY <1>1, <2>3 DEF LandsInv
  <2> QED BY <2>2, <2>3, <2>4, <2>5, VerbKeeps
<1>3. CASE Asks(Root, "late") /\ VerbStep(Unreadable)
  BY <1>1, <1>3, AsksStay, UnreadableKeeps
<1> QED BY <1>2, <1>3 DEF LookAtPlace

\* What is found by the look has its object in place, or answers for its place.
LEMMA CandidatesKeeps == IInv /\ Candidates => IInv'
<1> SUFFICES ASSUME IInv, Candidates PROVE IInv'
  OBVIOUS
<1>1. job \in VerbJob /\ VerbInv(job) /\ TypeInv /\ job.kind = "verb" /\ lands = {} /\ lands' = {}
  BY KindsOfJobs DEF IInv, Candidates, At, LandsInv
<1>2. job.at = "candidates"
  BY DEF Candidates, At
<1> DEFINE h == job.ref.handle
<1>3. CASE Verdict \in {"one", "placed"} /\ VerbStep([job EXCEPT !.at = Verdict]) /\ App
  <2>1. Stays /\ job' = [job EXCEPT !.at = Verdict]
    BY <1>3, AsksStay
  <2>2. Verdict = "one" =>
          ~Positional(h) /\ (job.placed = h.node \/ h.node \in Kept)
    <3>1. (~Positional(h) /\ job.placed = h.node) \/ ListedElsewhere(h) \/ Verdict # "one"
      BY DEF Verdict
    <3> QED BY <3>1 DEF ListedElsewhere
  <2>3. Verdict = "placed" => SaysItIsThere(h)
    BY DEF Verdict
  <2>4. SaysItIsThere(h) => Positional(h) /\ Table \in Attached
    <3>1. Len(Front(h.path)) \in Nat
      <4>1. h.path \in Seq(Nat)
        BY <1>1 DEF VerbJob, Entry, Handle
      <4>2. CASE h.path = <<>>
        BY <4>2 DEF Front
      <4>3. CASE h.path # <<>>
        BY <4>1, <4>3, FrontAndLast
      <4> QED BY <4>2, <4>3
    <3>2. AtPath(Front(h.path)) \in Attached \cup {None}
      BY <1>1, <3>1, PathsLeadToTheAttached DEF TypeInv
    <3> QED BY <3>2, TreeAssumption DEF SaysItIsThere
  <2> HIDE DEF h
  <2>5. SameRequest(job') /\ job'.at = Verdict /\ job'.placed = job.placed
    BY <1>1, <1>3, <2>1 DEF SameRequest, VerbJob
  <2>6. AskedInv(job')
    BY <1>1, <1>3, <2>2, <2>3, <2>4, <2>5 DEF SameRequest, VerbInv, AskedInv, h
  <2>7. arranged = job.arranged => FoundInv(job')
    BY <1>1, <1>2, <1>3, <2>2, <2>3, <2>4, <2>5, AttachedIsKept
    DEF SameRequest, VerbInv, FoundInv, Found, TypeInv, h
  <2>8. VerbInv(job')
    BY <1>3, <2>5, <2>6, <2>7 DEF VerbInv, SameRequest
  <2>9. LandsInv(job', lands')
    BY <1>1, <1>3, <2>5 DEF LandsInv
  <2> QED BY <2>1, <2>5, <2>8, <2>9, VerbKeeps DEF SameRequest
<1>4. CASE Verdict \notin {"one", "placed"} /\ VerbStep(Answered(Verdict)) /\ App
  <2>1. Verdict \in Codes
    BY <1>4 DEF Verdict, Codes
  <2> QED BY <1>1, <1>4, <2>1, AsksStay, AnswersKeep
<1>5. CASE \E n \in Attached : Asks(n, "late") /\ VerbStep(Unreadable)
  BY <1>1, <1>5, AsksStay, UnreadableKeeps
<1> QED BY <1>3, <1>4, <1>5 DEF Candidates

\* An answer of the object found is the listed control's, and some list has it.
LEMMA RereadKeeps == IInv /\ Reread => IInv'
<1> SUFFICES ASSUME IInv, Reread PROVE IInv'
  OBVIOUS
<1>1. job \in VerbJob /\ VerbInv(job) /\ TypeInv /\ job.kind = "verb" /\ lands = {} /\ lands' = {}
  BY KindsOfJobs DEF IInv, Reread, At, LandsInv
<1>2. job.at \in {"one", "placed"}
  BY DEF Reread, At
<1> DEFINE h == job.ref.handle
           n == Designated(h)
           same == IF job.at = "placed" THEN StillAsListed(n) ELSE SameRole(n)
           next == Route
<1>3. PICK how \in {"ok", "gone", "late", "refused"} :
        /\ Asks(n, how)
        /\ VerbStep(IF how = "ok" /\ same THEN [job EXCEPT !.at = next]
                    ELSE Answered("stale_element"))
  BY DEF Reread
<1>4. CASE how = "ok" /\ same
  <2>1. Stays /\ job' = [job EXCEPT !.at = next]
    BY <1>3, <1>4, AsksStay
  <2>2. n # None
    BY <1>3, <1>4 DEF Asks, Answers, Present
  <2>3. arranged = job.arranged => n = job.ref.shown /\ n \in Kept
    <3> SUFFICES ASSUME arranged = job.arranged PROVE n = job.ref.shown /\ n \in Kept
      OBVIOUS
    <3>1. CASE job.at = "one"
      <4>1. ~Positional(h) /\ h.node \in Kept \cup {None} /\ Honest(job.ref)
        BY <1>1, <3>1 DEF VerbInv, AskedInv, FoundInv
      <4> QED BY <2>2, <4>1 DEF Designated, Honest
    <3>2. CASE job.at = "placed"
      <4>1. Positional(h) /\ Table \in Attached
        BY <1>1, <3>2 DEF VerbInv, AskedInv, FoundInv
      <4>2. n = ChildAt(Table, Last(h.path)) /\ n \in Kept
        BY <1>1, <2>2, <4>1, ChildrenAreAttached, AttachedIsKept DEF Designated, TypeInv
      <4> QED BY <1>4, <3>2, <4>2 DEF StillAsListed
    <3> QED BY <1>2, <3>1, <3>2
  <2>4. SameRequest(job') /\ job'.at = next /\ next \in {"selection", "container", "state"}
    BY <1>1, <2>1 DEF SameRequest, VerbJob, Found, Route
  <2> HIDE DEF n, same
  <2>5. AskedInv(job')
    BY <1>1, <2>4 DEF SameRequest, VerbInv, AskedInv, Route, Selects
  <2>6. arranged = job.arranged => FoundInv(job')
    BY <2>3, <2>4 DEF SameRequest, FoundInv, Found, Route, Selects, n
  <2>7. VerbInv(job')
    BY <2>4, <2>5, <2>6 DEF VerbInv, SameRequest
  <2>8. LandsInv(job', lands')
    BY <1>1, <2>4 DEF LandsInv
  <2> QED BY <2>1, <2>4, <2>7, <2>8, VerbKeeps DEF SameRequest
<1>5. CASE ~(how = "ok" /\ same)
  <2>1. VerbStep(Answered("stale_element"))
    BY <1>3, <1>5
  <2>2. Stays /\ job' = Answered("stale_element")
    BY <1>3, <2>1, AsksStay
  <2> QED BY <1>1, <2>2, AnswersKeep DEF Codes
<1> QED BY <1>4, <1>5

\* The container found is the one that lists the item.
LEMMA FindContainerKeeps == IInv /\ FindContainer => IInv'
<1> SUFFICES ASSUME IInv, FindContainer PROVE IInv'
  OBVIOUS
<1>1. /\ job \in VerbJob /\ VerbInv(job) /\ job.kind = "verb" /\ job.at = "container"
      /\ lands = {} /\ lands' = {}
  BY KindsOfJobs DEF IInv, FindContainer, At, LandsInv
<1> DEFINE n == job.ref.handle.node
           go == [job EXCEPT !.at = "state"]
<1>2. CASE n \in Kids(Table) /\ App /\ VerbStep(go)
  <2>1. Stays /\ job' = go
    <3> HIDE DEF go
    <3> QED BY <1>2, AsksStay
  <2>2. SameRequest(job') /\ job'.at = "state"
    BY <1>1, <2>1 DEF SameRequest, VerbJob, Found
  <2>3. AskedInv(job')
    BY <1>1, <2>2 DEF SameRequest, VerbInv, AskedInv
  <2>4. arranged = job.arranged => FoundInv(job')
    BY <1>1, <1>2, <2>2 DEF SameRequest, VerbInv, FoundInv, Found
  <2>5. VerbInv(job')
    BY <1>1, <2>2, <2>3, <2>4 DEF VerbInv, SameRequest
  <2>6. LandsInv(job', lands')
    BY <1>1, <2>2 DEF LandsInv
  <2> QED BY <2>1, <2>2, <2>5, <2>6, VerbKeeps DEF SameRequest
<1>3. CASE (App \/ \E how : Asks(n, how)) /\ VerbStep(Answered("ax_action_unsupported"))
  BY <1>1, <1>3, AsksStay, AnswersKeep DEF Codes
<1> QED BY <1>2, <1>3 DEF FindContainer

LEMMA StateBeforeKeeps == IInv /\ StateBefore => IInv'
<1> SUFFICES ASSUME IInv, StateBefore PROVE IInv'
  OBVIOUS
<1>1. /\ job \in VerbJob /\ VerbInv(job) /\ TypeInv /\ job.kind = "verb" /\ job.at = "state"
      /\ lands = {} /\ lands' = {}
  BY KindsOfJobs DEF IInv, StateBefore, At, LandsInv
<1> DEFINE n == Designated(job.ref.handle)
           is == n \in on
           next == IF Selects THEN "index" ELSE "send"
           ok == [Answered("ok") EXCEPT !.effect = "not_observed", !.was = is]
           go == [job EXCEPT !.at = next, !.was = is]
<1>2. PICK how \in {"ok", "gone", "late", "refused"} :
        /\ Asks(n, how)
        /\ VerbStep(IF how # "ok" THEN Answered("state_unreadable")
                    ELSE IF Already(is) THEN ok ELSE go)
  BY DEF StateBefore
<1> HIDE DEF ok, go
<1>3. Stays /\ job' = (IF how # "ok" THEN Answered("state_unreadable")
                       ELSE IF Already(is) THEN ok ELSE go)
  BY <1>2, AsksStay
<1>4. CASE job' = Answered("state_unreadable")
  BY <1>1, <1>3, <1>4, AnswersKeep DEF Codes
<1>5. CASE job' = ok
  <2>1. is \in BOOLEAN
    OBVIOUS
  <2> HIDE DEF is
  <2>2. SameRequest(job') /\ job'.at = "answered"
    BY <1>1, <1>5, <2>1 DEF ok, Answered, SameRequest, VerbJob
  <2>3. VerbInv(job')
    BY <1>1, <2>2, AnsweredKeeps
  <2>4. LandsInv(job', lands')
    BY <1>1, <2>2 DEF LandsInv
  <2> QED BY <1>3, <2>2, <2>3, <2>4, VerbKeeps DEF SameRequest
<1>6. CASE job' = go /\ ~Already(is)
  <2>1. is \in BOOLEAN /\ is # job.wanted
    BY <1>6 DEF Already
  <2> HIDE DEF is
  <2>2. SameRequest(job') /\ job'.at = next
    BY <1>1, <1>6, <2>1 DEF go, SameRequest, VerbJob, Found
  <2>3. AskedInv(job')
    BY <1>1, <2>2 DEF SameRequest, VerbInv, AskedInv, Selects
  <2>4. arranged = job.arranged => FoundInv(job')
    <3>1. arranged = job.arranged =>
            /\ n = job.ref.shown /\ job.ref.shown \in Kept
            /\ job.verb = "select" /\ toolkit = "gtk" => job.ref.handle.node \in Kids(Table)
      BY <1>1 DEF VerbInv, FoundInv, Found
    <3>2. job'.at = "send" => ~(job'.verb = "select" /\ toolkit = "gtk")
      BY <2>2 DEF SameRequest, Selects
    <3> QED BY <2>2, <3>1, <3>2 DEF SameRequest, FoundInv, Found
  <2>5. VerbInv(job')
    BY <2>1, <2>2, <2>3, <2>4 DEF VerbInv, SameRequest, is
  <2>6. LandsInv(job', lands')
    BY <1>1, <2>2 DEF LandsInv
  <2> QED BY <1>3, <2>2, <2>5, <2>6, VerbKeeps DEF SameRequest
<1> QED BY <1>3, <1>4, <1>5, <1>6

LEMMA ReadIndexKeeps == IInv /\ ReadIndex => IInv'
<1> SUFFICES ASSUME IInv, ReadIndex PROVE IInv'
  OBVIOUS
<1>1. /\ job \in VerbJob /\ VerbInv(job) /\ TypeInv /\ job.kind = "verb" /\ job.at = "index"
      /\ lands = {}
  BY KindsOfJobs DEF IInv, ReadIndex, At, LandsInv
<1> DEFINE n == job.ref.handle.node
           go(i) == [job EXCEPT !.at = "send", !.index = i]
<1>2. CASE Barred
  BY <1>1, <1>2, BarredKeeps
<1>3. CASE /\ \E p \in Nodes : \E i \in DOMAIN kids[p] : kids[p][i] = n /\ VerbStep(go(i))
           /\ App /\ lands' = lands
  <2>00. PICK p \in Nodes : \E i \in DOMAIN kids[p] : kids[p][i] = n /\ VerbStep(go(i))
    BY <1>3
  <2>0. PICK place \in DOMAIN kids[p] : kids[p][place] = n /\ VerbStep(go(place))
    BY <2>00
  <2>1. Stays /\ job' = go(place)
    <3> HIDE DEF go
    <3> QED BY <1>3, <2>0, AsksStay
  <2>2. place \in Nat
    BY <1>1, <2>0 DEF TypeInv, TreeOK
  <2>4. n \in Kids(Table) => ChildAt(Table, place) = n
    <3>1. n \in Kids(p) /\ TreeOK /\ Forest /\ Table \in Nodes /\ Table # None
      BY <1>1, <2>0, ChildrenAreNodes, TreeAssumption DEF TypeInv
    <3>2. n \in Kids(Table) => p = Table
      BY <3>1, OneParent
    <3> QED BY <2>0, <3>1, <3>2 DEF ChildAt
  <2>5. SameRequest(job') /\ job'.at = "send" /\ job'.index = place
    BY <1>1, <2>1, <2>2 DEF SameRequest, VerbJob, Found
  <2>6. AskedInv(job')
    BY <1>1, <2>5 DEF SameRequest, VerbInv, AskedInv
  <2>7. arranged = job.arranged => FoundInv(job')
    BY <1>1, <2>4, <2>5 DEF SameRequest, VerbInv, AskedInv, FoundInv, Found
  <2>8. VerbInv(job')
    BY <1>1, <2>5, <2>6, <2>7 DEF VerbInv, SameRequest
  <2>9. LandsInv(job', lands')
    BY <1>1, <1>3, <2>5 DEF LandsInv
  <2> QED BY <2>1, <2>5, <2>8, <2>9, VerbKeeps DEF SameRequest
<1>4. CASE App /\ VerbStep(Answered("ax_action_failed")) /\ lands' = lands
  BY <1>1, <1>4, AsksStay, AnswersKeep DEF Codes
<1>5. CASE /\ \E how : Asks(n, how)
           /\ VerbStep(Answered("state_unreadable")) /\ lands' = lands
  BY <1>1, <1>5, AsksStay, AnswersKeep DEF Codes
<1> QED BY <1>2, <1>3, <1>4, <1>5 DEF ReadIndex

LEMMA JudgeKeeps == IInv /\ Judge => IInv'
<1> SUFFICES ASSUME IInv, Judge PROVE IInv'
  OBVIOUS
<1>1. /\ job \in VerbJob /\ VerbInv(job) /\ LandsInv(job, lands) /\ TypeInv
      /\ job.kind = "verb" /\ job.at = "judge" /\ job.sent
  BY KindsOfJobs DEF IInv, Judge, At, LandsInv
<1> DEFINE n == Designated(job.ref.handle)
           shows(how) == how = "ok" /\ (n \in on) = job.wanted
           effect(how) == IF how # "ok" THEN "unknown"
                          ELSE IF shows(how) THEN "changed" ELSE "not_observed"
           again == [job EXCEPT !.polls = @ + 1]
           done(how) == [Answered("ok") EXCEPT !.effect = effect(how)]
<1>2. PICK how \in {"ok", "gone", "late", "refused"} :
        /\ Asks(n, how)
        /\ VerbStep(IF ~shows(how) /\ ~paused /\ job.polls < Polls THEN again ELSE done(how))
        /\ lands' = lands
  BY DEF Judge
<1> HIDE DEF again, done, shows
<1>3. Stays /\ (job' = again \/ job' = done(how))
  BY <1>2, AsksStay
<1>4. CASE job' = again
  <2>1. SameRequest(job') /\ job'.at = "judge" /\ job'.sent
    <3> DEFINE k == job.polls + 1
    <3>1. k \in Nat /\ job' = [job EXCEPT !.polls = k]
      BY <1>1, <1>4 DEF VerbJob, again
    <3> HIDE DEF k
    <3> QED BY <1>1, <3>1 DEF SameRequest, VerbJob
  <2>2. VerbInv(job')
    BY <1>1, <2>1 DEF SameRequest, VerbInv, AskedInv, FoundInv, Found
  <2>3. LandsInv(job', lands')
    BY <1>1, <1>2, <2>1 DEF SameRequest, LandsInv
  <2> QED BY <1>3, <2>1, <2>2, <2>3, VerbKeeps DEF SameRequest
<1>5. CASE job' = done(how)
  <2>1. effect(how) \in {"unknown", "changed", "not_observed"}
    OBVIOUS
  <2> HIDE DEF effect
  <2>2. SameRequest(job') /\ job'.at = "answered" /\ job'.sent
    BY <1>1, <1>5, <2>1 DEF done, Answered, SameRequest, VerbJob
  <2>3. VerbInv(job')
    BY <1>1, <2>2, AnsweredKeeps
  <2>4. LandsInv(job', lands')
    BY <1>1, <1>2, <2>2 DEF SameRequest, LandsInv
  <2> QED BY <1>3, <2>2, <2>3, <2>4, VerbKeeps DEF SameRequest
<1> QED BY <1>3, <1>4, <1>5

LEMMA ReadSelectionKeeps == IInv /\ ReadSelection => IInv'
<1> SUFFICES ASSUME IInv, ReadSelection PROVE IInv'
  OBVIOUS
<1>1. /\ job \in VerbJob /\ VerbInv(job) /\ TypeInv /\ job.kind = "verb" /\ job.at = "selection"
      /\ lands = {}
  BY KindsOfJobs DEF IInv, ReadSelection, At, LandsInv
<1>2. CASE Barred
  BY <1>1, <1>2, BarredKeeps
<1>3. CASE ~Barred
  <2>1. PICK how \in {"ok", "gone", "late", "refused"}, next \in {"delete", "insert"} :
          /\ Asks(Field, how)
          /\ VerbStep(IF how # "ok" THEN Answered("state_unreadable")
                      ELSE [job EXCEPT !.at = next])
          /\ lands' = lands
    BY <1>3 DEF ReadSelection
  <2>2. Stays
    BY <2>1, AsksStay
  <2>3. CASE job' = Answered("state_unreadable")
    BY <1>1, <2>1, <2>2, <2>3, AnswersKeep DEF Codes
  <2>4. CASE job' = [job EXCEPT !.at = next]
    <3>1. SameRequest(job') /\ job'.at = next
      BY <1>1, <2>1, <2>4 DEF SameRequest, VerbJob, Found
    <3>2. VerbInv(job')
      BY <1>1, <2>1, <3>1 DEF SameRequest, VerbInv, AskedInv, FoundInv, Found
    <3>3. LandsInv(job', lands')
      BY <1>1, <2>1, <3>1 DEF LandsInv
    <3> QED BY <2>2, <3>1, <3>2, <3>3, VerbKeeps DEF SameRequest
  <2> QED BY <2>1, <2>3, <2>4 DEF VerbStep
<1> QED BY <1>2, <1>3

\* The message goes to the control found, and turns its state over.
LEMMA SendKeeps == IInv /\ Send => IInv'
<1> SUFFICES ASSUME IInv, Send PROVE IInv'
  OBVIOUS
<1>1. /\ job \in VerbJob /\ VerbInv(job) /\ TypeInv /\ job.kind = "verb" /\ job.at = "send"
      /\ lands = {}
  BY KindsOfJobs DEF IInv, Send, At, LandsInv
<1> DEFINE n == Addressee
           judge == [job EXCEPT !.at = "judge", !.sent = TRUE]
           late == [Answered("sent_unknown") EXCEPT !.sent = TRUE]
<1>2. CASE Barred
  BY <1>1, <1>2, BarredKeeps
<1>3. CASE ~Barred
  <2>1. /\ \/ Answers(n, "ok") /\ Lands(n) /\ VerbStep(judge)
           \/ Answers(n, "late") /\ (Lands(n) \/ UNCHANGED <<on, lands>>) /\ VerbStep(late)
           \/ (\E how \in {"gone", "refused"} : Answers(n, how))
              /\ UNCHANGED <<on, lands>> /\ VerbStep(Answered("ax_action_failed"))
        /\ UNCHANGED <<toolkit, kids, changes, arranged, stayed, steady>>
    BY <1>3 DEF Send
  <2>2. Sends
    BY <1>1, <2>1 DEF Sends, SameTree, VerbStep, NoWalk, walk_vars, Worker, Answers, Trouble,
                      TypeInv
  \* Where it goes.
  <2>3. arranged = job.arranged => n = job.ref.shown /\ n \in Kept
    <3> SUFFICES ASSUME arranged = job.arranged PROVE n = job.ref.shown /\ n \in Kept
      OBVIOUS
    <3>1. Designated(job.ref.handle) = job.ref.shown /\ job.ref.shown \in Kept
      BY <1>1 DEF VerbInv, FoundInv, Found
    <3>2. CASE Selects
      <4>1. n = job.ref.handle.node
        BY <1>1, <3>2 DEF VerbInv, FoundInv, Addressee, Selects
      <4>2. Designated(job.ref.handle) = job.ref.handle.node
        BY <3>2 DEF Designated, Positional, Selects
      <4> QED BY <3>1, <4>1, <4>2
    <3>3. CASE ~Selects
      BY <3>1, <3>3 DEF Addressee
    <3> QED BY <3>2, <3>3
  \* What it leaves.
  <2>4. Lands(n) => LET m == [to |-> n, listed |-> n \in Kept, on |-> n \in on']
                    IN  lands' = {m} /\ (m.on = job.wanted \/ changes # job.changes)
    <3> SUFFICES ASSUME Lands(n), changes = job.changes PROVE (n \in on') = job.wanted
      BY DEF Lands
    <3>1. job.wanted \in BOOLEAN
      BY <1>1 DEF VerbJob
    <3>2. CASE Selects
      <4>1. job.wanted = TRUE
        BY <1>1, <3>1, <3>2 DEF VerbInv, AskedInv, Selects
      <4>2. n \in on'
        BY <3>2 DEF Lands
      <4> QED BY <4>1, <4>2
    <3>3. CASE ~Selects
      <4>1. n = Designated(job.ref.handle)
        BY <3>3 DEF Addressee
      <4>2. (n \in on) # job.wanted
        BY <1>1, <4>1 DEF VerbInv
      <4>3. n \in on' <=> n \notin on
        BY <3>3 DEF Lands
      <4> QED BY <3>1, <4>2, <4>3
    <3> QED BY <3>2, <3>3
  <2>5. job.arranged \in Nat /\ arranged \in Nat /\ job.arranged <= arranged
        /\ job.changes \in Nat /\ changes \in Nat /\ job.changes <= changes
    BY <1>1 DEF VerbJob, VerbInv, AskedInv, TypeInv
  <2>6. CASE job' = Answered("ax_action_failed") /\ UNCHANGED <<on, lands>>
    <3>1. Stays
      BY <2>2, <2>6 DEF Stays
    <3> QED BY <1>1, <2>6, <3>1, AnswersKeep DEF Codes
  <2>7. CASE job' \in {judge, late} /\ (Lands(n) \/ UNCHANGED <<on, lands>>)
    <3>1. SameRequest(job') /\ job'.at \in {"judge", "answered"} /\ job'.sent
      BY <1>1, <2>7 DEF SameRequest, VerbJob, Found, Answered
    <3>2. VerbInv(job')
      BY <1>1, <3>1 DEF SameRequest, VerbInv, AskedInv, FoundInv, Found
    <3>3. LandsInv(job', lands')
      <4>1. CASE UNCHANGED lands
        BY <1>1, <3>1, <4>1 DEF LandsInv
      <4>2. CASE Lands(n)
        <5> DEFINE m == [to |-> n, listed |-> n \in Kept, on |-> n \in on']
        <5>1. lands' = {m} /\ (m.on = job.wanted \/ changes # job.changes)
          BY <2>4, <4>2, Zenon
        <5>2. m.to = n /\ (m.listed <=> n \in Kept)
          OBVIOUS
        <5> HIDE DEF m, n
        <5>3. m.on = job.wanted \/ changes > job.changes
          BY <2>5, <5>1
        <5>4. (m.to = job.ref.shown /\ m.listed) \/ arranged > job.arranged
          BY <2>3, <2>5, <5>2
        <5> QED BY <3>1, <5>1, <5>3, <5>4 DEF SameRequest, LandsInv
      <4> QED BY <2>7, <4>1, <4>2
    <3> QED BY <2>2, <3>1, <3>2, <3>3, SentKeeps DEF SameRequest
  <2> QED BY <2>1, <2>6, <2>7 DEF VerbStep
<1> QED BY <1>2, <1>3

\* A write of the field, and the job it leaves when done and when it failed.
LEMMA WriteKeeps ==
  ASSUME IInv, job.kind = "verb", job.at \in {"delete", "insert"},
         NEW done, NEW failed, Write(done, failed),
         SameRequest(done), SameRequest(failed),
         done.at \in {"insert", "answered"}, failed.at = "answered",
         done.at = "insert" => done.was = TRUE,
         done.at = "answered" => done.sent,
         ~failed.sent => lands = {}
  PROVE  IInv'
<1>1. /\ job \in VerbJob /\ VerbInv(job) /\ LandsInv(job, lands) /\ TypeInv /\ job.verb = "type"
      /\ job.ref.shown = Field
  BY KindsOfJobs DEF IInv, VerbInv, AskedInv
<1> DEFINE late == [Answered("sent_unknown") EXCEPT !.sent = TRUE]
<1>2. Stays /\ job' \in {done, late, failed}
  <2> HIDE DEF late
  <2> QED BY AsksStay DEF Write, late
<1>3. /\ Writes \/ lands' = lands
      /\ job' = done \/ job' = late \/ (job' = failed /\ lands' = lands)
  BY DEF Write, VerbStep
<1>4. SameRequest(late) /\ late.at = "answered" /\ late.sent
  BY <1>1, AnsweredAsAsked DEF Codes
<1> HIDE DEF late
<1>5. ASSUME NEW j, SameRequest(j), j.at \in {"insert", "answered"} PROVE VerbInv(j)
  BY <1>1, <1>5 DEF SameRequest, VerbInv, AskedInv, FoundInv, Found
<1>6. ASSUME Writes
      PROVE  \A m \in lands' : /\ (m.to = job.ref.shown /\ m.listed) \/ arranged > job.arranged
                               /\ m.on = job.wanted \/ changes > job.changes
  <2> DEFINE m == [to |-> Field, listed |-> Field \in Kept, on |-> job.wanted]
  <2>1. lands' = {m}
    BY <1>6 DEF Writes
  <2>2. m.to = Field /\ m.on = job.wanted /\ (m.listed <=> Field \in Kept)
    OBVIOUS
  <2> HIDE DEF m
  <2>3. arranged = job.arranged => Field \in Kept
    BY <1>1 DEF VerbInv, FoundInv, Found
  <2>4. job.arranged \in Nat /\ arranged \in Nat /\ job.arranged <= arranged
    BY <1>1 DEF VerbJob, VerbInv, AskedInv, TypeInv
  <2>5. arranged = job.arranged \/ arranged > job.arranged
    BY <2>4
  <2> QED BY <1>1, <2>1, <2>2, <2>3, <2>5
<1>7. ASSUME lands' = lands
      PROVE  \A m \in lands' : /\ (m.to = job.ref.shown /\ m.listed) \/ arranged > job.arranged
                               /\ m.on = job.wanted \/ changes > job.changes
  BY <1>1, <1>7 DEF LandsInv
<1>8. SameRequest(job') /\ VerbInv(job') /\ job' \in VerbJob
  BY <1>2, <1>4, <1>5 DEF SameRequest
<1>9. LandsInv(job', lands')
  <2>1. \A m \in lands' : /\ (m.to = job.ref.shown /\ m.listed) \/ arranged > job.arranged
                          /\ m.on = job.wanted \/ changes > job.changes
    BY <1>3, <1>6, <1>7
  <2>2. job'.at = "insert" => job'.was = TRUE
    BY <1>2, <1>4
  <2>3. job'.at = "answered" /\ ~job'.sent => lands' = {}
    BY <1>3, <1>4
  <2> QED BY <1>2, <1>4, <1>8, <2>1, <2>2, <2>3 DEF SameRequest, LandsInv
<1> QED BY <1>2, <1>8, <1>9, VerbKeeps

LEMMA DeleteSelectionKeeps == IInv /\ DeleteSelection => IInv'
<1> SUFFICES ASSUME IInv, DeleteSelection PROVE IInv'
  OBVIOUS
<1>1. /\ job \in VerbJob /\ job.kind = "verb" /\ job.at = "delete" /\ VerbInv(job) /\ lands = {}
  BY KindsOfJobs DEF IInv, DeleteSelection, At, LandsInv
<1> DEFINE done == [job EXCEPT !.at = "insert", !.was = TRUE]
           failed == Answered("ax_action_failed")
<1>2. Write(done, failed)
  BY DEF DeleteSelection
<1>3. SameRequest(done) /\ done.at = "insert" /\ done.was = TRUE
  BY <1>1 DEF SameRequest, VerbJob, Found
<1>4. SameRequest(failed) /\ failed.at = "answered"
  BY <1>1, AnsweredAsAsked DEF Codes
<1> HIDE DEF done, failed
<1> QED BY <1>1, <1>2, <1>3, <1>4, WriteKeeps

\* Once the deletion is in, no end of the insertion says nothing went out.
LEMMA InsertTextKeeps == IInv /\ InsertText => IInv'
<1> SUFFICES ASSUME IInv, InsertText PROVE IInv'
  OBVIOUS
<1>1. /\ job \in VerbJob /\ job.kind = "verb" /\ job.at = "insert" /\ VerbInv(job)
      /\ lands # {} => job.was = TRUE
  BY KindsOfJobs DEF IInv, InsertText, At, LandsInv
<1> DEFINE done == [Answered("ok") EXCEPT !.sent = TRUE]
           failed == InsertFailed
<1>2. Write(done, failed)
  BY DEF InsertText
<1>3. SameRequest(done) /\ done.at = "answered" /\ done.sent
  BY <1>1, AnsweredAsAsked DEF Codes
<1>4. SameRequest(failed) /\ failed.at = "answered" /\ (~failed.sent => lands = {})
  BY <1>1, AnsweredAsAsked DEF Codes, InsertFailed
<1> HIDE DEF done, failed
<1> QED BY <1>1, <1>2, <1>3, <1>4, WriteKeeps

LEMMA TakeVerbKeeps == IInv /\ TakeVerb => IInv'
<1> SUFFICES ASSUME IInv, TakeVerb PROVE IInv'
  OBVIOUS
<1> DEFINE new(v, i) ==
      [kind |-> "verb", at |-> "look", code |-> None, verb |-> v.verb, wanted |-> v.wanted,
       ref |-> refs[i], tries |-> 0, placed |-> None, was |-> None, index |-> 0, polls |-> 0,
       sent |-> FALSE, arranged |-> arranged, changes |-> changes, effect |-> None]
<1>1. PICK v \in Verbs, i \in DOMAIN refs :
        /\ IF v.verb = "type" THEN refs[i].shown = Field ELSE refs[i].handle.parent = Table
        /\ Takes(new(v, i))
        /\ App /\ NoWalk
  BY DEF TakeVerb
<1>2. TypeInv /\ lands' = {} /\ Stays
  BY <1>1 DEF IInv, Takes, NoJob, App, app_vars, NoWalk, walk_vars, Stays, Sends, SameTree, TypeInv
<1>3. v.verb \in {"select", "toggle", "type"} /\ v.wanted \in BOOLEAN
      /\ (v.verb = "select" => v.wanted)
  BY SemanticAssumption
<1>4. refs[i] \in Entry /\ Honest(refs[i])
  BY <1>2 DEF TypeInv
<1>5. new(v, i) \in VerbJob
  BY <1>2, <1>3, <1>4 DEF VerbJob, Node, TypeInv
<1>6. VerbInv(new(v, i))
  BY <1>1, <1>2, <1>3, <1>4 DEF VerbInv, AskedInv, FoundInv, Found, TypeInv
<1>7. LandsInv(new(v, i), lands')
  BY <1>2 DEF LandsInv
<1>8. job' = new(v, i)
  BY <1>1 DEF Takes
<1> HIDE DEF new
<1> QED BY <1>2, <1>5, <1>6, <1>7, <1>8, VerbKeeps

\* A list changed, or a state: what the look found no longer counts.
LEMMA OutsideKeeps == IInv /\ Outside => IInv'
<1> SUFFICES ASSUME IInv, Outside PROVE IInv'
  OBVIOUS
<1>1. TypeInv /\ JobInv /\ UNCHANGED <<walk, refs, job, lands>>
  BY DEF IInv, Outside, walk_vars, semantic_vars
<1>2. /\ TreeOK' /\ Forest' /\ toolkit' = toolkit /\ troubles' = troubles /\ changes' = changes + 1
      /\ arranged' = arranged + 1 \/ (arranged' = arranged /\ kids' = kids)
  <2>1. CASE ListChanges
    BY <1>1, <2>1, RearrangingKeeps DEF ListChanges
  <2>2. CASE Flips
    BY <1>1, <2>2 DEF Flips, Change, TypeInv, TreeOK, Forest
  <2> QED BY <2>1, <2>2 DEF Outside
<1>3. TypeInv'
  BY <1>1, <1>2 DEF TypeInv, WalkOK, Honest, Positional
<1>4. JobInv'
  BY <1>1, <1>2 DEF JobInv, WalkOK, Honest, Positional
<1>5. CASE job.kind # "verb"
  BY <1>1, <1>3, <1>4, <1>5 DEF IInv
<1>6. CASE job.kind = "verb"
  <2>1. job \in VerbJob /\ VerbInv(job) /\ LandsInv(job, lands)
    BY <1>6, KindsOfJobs DEF IInv
  <2>2. /\ job.arranged \in Nat /\ arranged \in Nat /\ job.arranged <= arranged
        /\ job.changes \in Nat /\ changes \in Nat /\ job.changes <= changes
    BY <1>1, <2>1 DEF VerbJob, VerbInv, AskedInv, TypeInv
  <2>3. changes' # job.changes /\ changes' > job.changes /\ job.changes <= changes'
    BY <1>2, <2>2
  <2>4. /\ job.arranged <= arranged' /\ (arranged > job.arranged => arranged' > job.arranged)
        /\ arranged' = job.arranged => arranged' = arranged /\ kids' = kids
    BY <1>2, <2>2
  <2>5. AskedInv(job)'
    BY <1>1, <1>2, <2>1, <2>3, <2>4 DEF VerbInv, AskedInv, Honest, Positional
  <2>6. arranged' = job.arranged => FoundInv(job)'
    <3> SUFFICES ASSUME arranged' = job.arranged PROVE FoundInv(job)'
      OBVIOUS
    <3>1. kids' = kids /\ toolkit' = toolkit /\ job' = job /\ FoundInv(job)
      BY <1>1, <1>2, <2>1, <2>4 DEF VerbInv
    <3>2. Attached' = Attached /\ Kept' = Kept /\ Kids(Table)' = Kids(Table)
      BY <3>1, SameTreeSameAttached
    <3> QED BY <3>1, <3>2 DEF FoundInv, Designated, Positional, ChildAt
  <2>7. VerbInv(job)'
    BY <1>1, <2>3, <2>5, <2>6 DEF VerbInv
  <2>8. LandsInv(job, lands)'
    BY <1>1, <2>1, <2>3, <2>4 DEF LandsInv
  <2> QED BY <1>1, <1>3, <1>4, <2>7, <2>8 DEF IInv
<1> QED BY <1>5, <1>6

\* A step that changes nothing the invariant speaks of.
LEMMA QuietKeeps ==
  ASSUME IInv, UNCHANGED <<toolkit, kids, on, changes, troubles, arranged, walk, refs, job, lands>>
  PROVE  IInv'
<1>1. Stays
  BY DEF Stays, Sends, SameTree, IInv, TypeInv
<1>2. CASE job.kind = "verb"
  BY <1>1, <1>2, KindsOfJobs, VerbKeeps DEF IInv
<1>3. CASE job.kind # "verb"
  <2>1. TypeInv'
    BY TypeInvKept, <1>1 DEF Stays, Sends, IInv
  <2>2. job \in ElementsJob \cup WaitJob => WalkOK(walk)
    BY KindsOfJobs DEF IInv, ElementsJob, WaitJob
  <2> QED
    BY <1>1, <1>3, <2>1, <2>2, OthersKeep, KindsOfJobs DEF IInv, JobInv, Stays, Sends, SameTree
<1> QED BY <1>2, <1>3

-----------------------------------------------------------------------------
(* The theorems.                                                           *)

LEMMA Starts == SemanticInit => IInv
<1> SUFFICES ASSUME SemanticInit PROVE IInv
  OBVIOUS
<1>1. TypeInv
  BY TreeAssumption DEF SemanticInit, AppInit, WalkInit, TypeInv, TreeOK, Forest
<1>2. JobInv /\ job.kind # "verb" /\ lands = {}
  BY DEF SemanticInit, JobInv, NoJob
<1> QED BY <1>1, <1>2 DEF IInv

LEMMA Steps == IInv /\ [SemanticNext]_vars => IInv'
<1> SUFFICES ASSUME IInv, [SemanticNext]_vars PROVE IInv'
  OBVIOUS
<1>1. CASE TakeElements \/ TakeWait \/ TakeVerb \/ Walks \/ ListElements \/ LookEnds \/ SleepEnds
  BY <1>1, TakeElementsKeeps, TakeWaitKeeps, TakeVerbKeeps, WalksKeep, ListElementsKeeps,
     LookEndsKeeps, SleepEndsKeeps
<1>2. CASE \/ LookAtPlace \/ Candidates \/ Reread \/ FindContainer \/ StateBefore \/ ReadIndex
           \/ Send \/ Judge
  BY <1>2, LookAtPlaceKeeps, CandidatesKeeps, RereadKeeps, FindContainerKeeps,
     StateBeforeKeeps, ReadIndexKeeps, SendKeeps, JudgeKeeps
<1>3. CASE ReadSelection \/ DeleteSelection \/ InsertText \/ Reply
  BY <1>3, ReadSelectionKeeps, DeleteSelectionKeeps, InsertTextKeeps, ReplyKeeps
<1>4. CASE Outside
  BY <1>4, OutsideKeeps
<1>5. CASE PauseComes
  BY <1>5, QuietKeeps DEF PauseComes, app_vars, walk_vars
<1>6. CASE Deadline
  BY <1>6, QuietKeeps DEF Deadline, DeadlinePasses, app_vars, semantic_vars
<1>7. CASE UNCHANGED vars
  BY <1>7, QuietKeeps DEF vars, app_vars, walk_vars, semantic_vars
<1> QED
  BY <1>1, <1>2, <1>3, <1>4, <1>5, <1>6, <1>7 DEF SemanticNext, Idle

THEOREM Invariance == SemanticSpec => []IInv
BY Starts, Steps, PTL DEF SemanticSpec

(***************************************************************************)
(* A message of a verb takes effect on the control that was listed, while  *)
(* its own parent still lists it, unless a list changed since the look     *)
(* began that found the reference again: identity.rs and acting.rs look at *)
(* the place and at the object, ask the object's parent and no node above  *)
(* it, and act on what answers as listed.                                  *)
(***************************************************************************)
THEOREM MessagesReachTheListed == SemanticSpec => []MessagesLandOnTheListed
BY Invariance, InvariantImplies, PTL

(***************************************************************************)
(* A toggle or a select leaves no control in the state not asked for,      *)
(* unless something changed meanwhile: the state is read before one        *)
(* message is sent, and a control already as asked is sent none.           *)
(***************************************************************************)
THEOREM WritesAreAsAsked == SemanticSpec => []WritesEndAsAsked
BY Invariance, InvariantImplies, PTL

(***************************************************************************)
(* What a verb answers with nothing sent has changed nothing, a deletion   *)
(* of the selection before an insertion that failed included.              *)
(***************************************************************************)
THEOREM UnsentChangesNothing == SemanticSpec => []NotSentMeansUntouched
BY Invariance, InvariantImplies, PTL

-----------------------------------------------------------------------------
(* What a walk has still to read.                                          *)

Beneath(n, h) == \E m \in Nodes : Designated(h) = m /\ Under(n, m)

\* A node is under a handle of a frame's page.
InSlot(n, f, k) == k \in DOMAIN f.page /\ Beneath(n, f.page[k])

\* The frame's own node is yet to be read.
Whole(n, f) ==
  \/ f.at = "root" /\ Under(n, Root)
  \/ f.at \in {"cut", "cut_copy"} /\ Beneath(n, f.handle)

\* The frame's node was read, its children from place read + 1 on were not.
Holds(n, f, i) ==
  /\ f.at \in {"count", "pages", "copy"} /\ f.read < i
  /\ \E p, c \in Nodes : Designated(f.handle) = p /\ ChildAt(p, i) = c /\ Under(n, c)

Waits(n, f) == Whole(n, f) \/ (\E k \in Nat : InSlot(n, f, k)) \/ (\E i \in Nat : Holds(n, f, i))

\* The count that a frame pages by may leave some of that out.
Comes(n, f) ==
  \/ Whole(n, f) \/ \E k \in Nat : InSlot(n, f, k)
  \/ \E i \in Nat : Holds(n, f, i) /\ (f.at = "pages" => i <= f.count)

\* A walk that says it was cut short, or will.
Told(w) ==
  \/ w.truncated # None \/ w.hidden > 0
  \/ \E j \in DOMAIN w.stack : w.stack[j].at = "copied" /\ w.stack[j].more

Shows(n, e) == n = e.shown \/ (e.hidden > 0 /\ n \in Below(e.shown))

\* Nothing that a walk is asked for is lost.
Covers(w, S) ==
  Told(w) \/
  \A n \in S \cap w.shape.lists \cap Inside :
    \/ \E i \in DOMAIN w.nodes : Shows(n, w.nodes[i])
    \/ \E j \in DOMAIN w.stack : Comes(n, w.stack[j])

\* Nothing waits in two of a frame's lists.
OnceIn(n, f) ==
  /\ \A k, l \in Nat : InSlot(n, f, k) /\ InSlot(n, f, l) => k = l
  /\ \A k, i \in Nat : ~(InSlot(n, f, k) /\ Holds(n, f, i))
  /\ \A k \in Nat : ~(InSlot(n, f, k) /\ Whole(n, f))

\* Nothing is listed twice, nor waits to be.
Once(w, S) ==
  \A n \in S :
    /\ \A i, j \in DOMAIN w.nodes : w.nodes[i].shown = n /\ w.nodes[j].shown = n => i = j
    /\ \A j \in DOMAIN w.stack :
         /\ OnceIn(n, w.stack[j])
         /\ Waits(n, w.stack[j]) =>
              /\ \A i \in DOMAIN w.nodes : w.nodes[i].shown # n
              /\ \A l \in DOMAIN w.stack : Waits(n, w.stack[l]) => j = l

\* Only a skeleton hides anything.
NoCuts(w) ==
  ~w.shape.skeleton =>
    /\ w.hidden = 0
    /\ \A i \in DOMAIN w.nodes : w.nodes[i].hidden = 0
    /\ \A j \in DOMAIN w.stack : w.stack[j].at \notin {"cut", "cut_copy"}

\* ---- what stays where it was ------------------------------------------------------

\* Where n is in p's list, or under, the list has what it had.
Unmoved(n, p, list) ==
  \A i \in DOMAIN kids[p] :
    Under(n, kids[p][i]) => i \in DOMAIN list /\ list[i] = kids[p][i]

\* What holds of a list and of where n is in it, as BelowSplits and SiblingsAreApart have it.
ListLaw ==
  \A p \in Nodes : \A n :
    /\ n \in Below(p) <=> \E i \in DOMAIN kids[p] : Under(n, kids[p][i])
    /\ n \in Attached =>
         \A i, j \in DOMAIN kids[p] : Under(n, kids[p][i]) /\ Under(n, kids[p][j]) => i = j

LEMMA ListNow == TreeOK /\ Forest => ListLaw
BY BelowSplits, SiblingsAreApart DEF ListLaw

LEMMA ListNext == TreeOK' /\ Forest' => ListLaw'
BY ListNow, PTL

\* A child of p that n is under.
Leads(n, p, i) == i \in DOMAIN kids[p] /\ Under(n, kids[p][i])

\* What is known of a node that a change neither takes away nor brings.
Staying(n, p, list, new) ==
  /\ n \in Nodes /\ n \in Attached /\ n \in Attached' /\ Remains(n, p, list, new)
  /\ toolkit' = toolkit

LEMMA StaysUnder ==
  ASSUME TreeOK, Forest, NEW p \in Nodes, NEW list, NEW new, Relisted(p, list, new),
         NEW n, Staying(n, p, list, new)
  PROVE  /\ \A m \in Nodes : Under(n, m)' <=> Under(n, m)
         /\ \A q \in Nodes : (\E i : Leads(n, q, i)') <=> (\E i : Leads(n, q, i))
         /\ \A q \in Nodes : \A i : Leads(n, q, i) => n \in Below(q)
         /\ \A q \in Nodes : \A i : Leads(n, q, i)' => n \in Below(q)
<1>1. \A m \in Nodes : n \in Below(m)' <=> n \in Below(m)
  BY StaysBelow DEF Staying
<1>2. ListLaw /\ ListLaw'
  BY ListNow, ListNext, RelistedTree
<1>3. \A q \in Nodes : n \in Below(q) <=> \E i : Leads(n, q, i)
  BY <1>2 DEF ListLaw, Leads
<1>4. \A q \in Nodes : n \in Below(q)' <=> \E i : Leads(n, q, i)'
  BY <1>2 DEF ListLaw, Leads
<1> QED BY <1>1, <1>3, <1>4 DEF Under

\* What stays in its place of the list is found there as before.
LEMMA StaysInPlace ==
  ASSUME TreeOK, Forest, NEW p \in Nodes, NEW list, NEW new, Relisted(p, list, new),
         NEW n, Staying(n, p, list, new), Unmoved(n, p, list), NEW i
  PROVE  /\ Leads(n, p, i)' <=> Leads(n, p, i)
         /\ Leads(n, p, i) => kids'[p][i] = kids[p][i]
<1>1. TreeOK' /\ Forest' /\ kids'[p] = list
  BY RelistedTree DEF Relisted, TreeOK
<1>2. ASSUME NEW k, Leads(n, p, k)
      PROVE  k \in DOMAIN list /\ list[k] = kids[p][k] /\ Leads(n, p, k)'
  <2>1. k \in DOMAIN list /\ list[k] = kids[p][k] /\ Under(n, kids[p][k])
    BY <1>2 DEF Unmoved, Leads
  <2>2. kids[p][k] \in Nodes
    BY <1>2, ChildrenAreNodes DEF Leads
  <2>3. Under(n, kids[p][k])'  <=> Under(n, list[k])'
    BY <1>1, <2>1
  <2>4. \A m \in Nodes : Under(n, m)' <=> Under(n, m)
    BY StaysUnder
  <2>5. \A m : m = kids[p][k] => Under(n, m)'
    BY <2>1, <2>2, <2>4
  <2> QED BY <1>1, <2>1, <2>5 DEF Leads
<1>3. ASSUME Leads(n, p, i)' PROVE Leads(n, p, i)
  <2>1. PICK j : Leads(n, p, j)
    BY <1>3, StaysUnder
  <2>2. Leads(n, p, j)'
    BY <1>2, <2>1
  <2>3. i = j
    BY <1>1, <1>3, <2>2, ListNext DEF ListLaw, Leads, Staying
  <2> QED BY <2>1, <2>3
<1> QED BY <1>1, <1>2, <1>3

LEMMA StaysBeneath ==
  ASSUME TreeOK, Forest, NEW p \in Nodes, NEW list, NEW new, Relisted(p, list, new),
         NEW n, Staying(n, p, list, new),
         NEW h, h.parent = p => Unmoved(n, p, list)
  PROVE  /\ Beneath(n, h) => Designated(h)' = Designated(h)
         /\ Beneath(n, h)' => Designated(h)' = Designated(h)
         /\ Beneath(n, h)' <=> Beneath(n, h)
<1>1. \A m \in Nodes : Under(n, m)' <=> Under(n, m)
  BY StaysUnder
<1>2. \A q \in Nodes : q # p => kids'[q] = kids[q]
  BY RelistedKids
<1>3. Table \in Nodes /\ None \notin Nodes
  BY TreeAssumption
<1> DEFINE k == Last(h.path)
<1>4. CASE p = Table /\ Positional(h)
  <2>1. Unmoved(n, p, list) /\ Positional(h)'
    BY <1>4 DEF Positional, Staying
  <2>2. Designated(h) = ChildAt(p, k) /\ Designated(h)' = ChildAt(p, k)'
    BY <1>4, <2>1 DEF Designated
  <2> HIDE DEF k
  <2>3. /\ Leads(n, p, k)' <=> Leads(n, p, k)
        /\ Leads(n, p, k) => kids'[p][k] = kids[p][k]
    BY <2>1, StaysInPlace
  <2>4. Beneath(n, h) => Leads(n, p, k)
    BY <1>3, <2>2 DEF Beneath, ChildAt, Leads
  <2>5. ASSUME Beneath(n, h)' PROVE Leads(n, p, k)'
    <3>1. PICK m \in Nodes : ChildAt(p, k)' = m /\ Under(n, m)'
      BY <2>2, <2>5 DEF Beneath
    <3>2. k \in DOMAIN kids'[p] /\ kids'[p][k] = m
      BY <1>3, <3>1 DEF ChildAt
    <3> QED BY <3>1, <3>2 DEF Leads
  <2>6. ASSUME Leads(n, p, k)
        PROVE  Designated(h)' = Designated(h) /\ Designated(h) \in Nodes
    <3>1. Leads(n, p, k)' /\ kids'[p][k] = kids[p][k]
      BY <2>3, <2>6
    <3>2. k \in DOMAIN kids[p] /\ k \in DOMAIN kids'[p]
      BY <2>6, <3>1 DEF Leads
    <3> QED BY <1>3, <2>2, <3>1, <3>2, ChildrenAreNodes DEF ChildAt
  <2>7. Leads(n, p, k) => (Beneath(n, h)' <=> Beneath(n, h))
    BY <1>1, <2>6 DEF Beneath
  <2> QED BY <2>3, <2>4, <2>5, <2>6, <2>7
<1>5. CASE ~(p = Table /\ Positional(h))
  <2>1. Designated(h)' = Designated(h)
    BY <1>2, <1>3, <1>5 DEF Designated, Positional, ChildAt, Staying
  <2> QED BY <1>1, <2>1 DEF Beneath
<1> QED BY <1>4, <1>5

\* Where a walk is part way through the list, what it has still to read is in its place.
Settled(n, f, p, list) ==
  /\ f.at = "count" => f.read = 0
  /\ f.handle.parent = p => Unmoved(n, p, list)
  /\ \A k \in DOMAIN f.page : f.page[k].parent = p => Unmoved(n, p, list)
  /\ f.at \in {"pages", "copy", "copied"} /\ Designated(f.handle) = p => Unmoved(n, p, list)

\* A frame holds the node where its node's list leads to it.
LEMMA HoldsLeads ==
  ASSUME TreeOK, NEW n, NEW f, NEW i
  PROVE  Holds(n, f, i) <=>
           /\ f.at \in {"count", "pages", "copy"} /\ f.read < i
           /\ \E q \in Nodes : Designated(f.handle) = q /\ Leads(n, q, i)
<1>1. None \notin Nodes
  BY TreeAssumption
<1>2. ASSUME NEW q \in Nodes
      PROVE  (\E c \in Nodes : ChildAt(q, i) = c /\ Under(n, c)) <=> Leads(n, q, i)
  BY <1>1, ChildrenAreNodes DEF ChildAt, Leads
<1> QED BY <1>2 DEF Holds

HoldsLaw ==
  \A n, f, i :
    Holds(n, f, i) <=>
      /\ f.at \in {"count", "pages", "copy"} /\ f.read < i
      /\ \E q \in Nodes : Designated(f.handle) = q /\ Leads(n, q, i)

LEMMA HoldsNow == TreeOK => HoldsLaw
BY HoldsLeads DEF HoldsLaw

LEMMA HoldsNext == TreeOK' => HoldsLaw'
BY HoldsNow, PTL

LEMMA StaysHeld ==
  ASSUME TreeOK, Forest, NEW p \in Nodes, NEW list, NEW new, Relisted(p, list, new),
         NEW n, Staying(n, p, list, new), NEW f, Settled(n, f, p, list)
  PROVE  /\ f.at # "count" => \A i : Holds(n, f, i)' <=> Holds(n, f, i)
         /\ f.at = "count" => ((\E i \in Nat : Holds(n, f, i)') <=> (\E i \in Nat : Holds(n, f, i)))
<1>1. TreeOK' /\ Forest' /\ HoldsLaw /\ HoldsLaw'
  BY RelistedTree, HoldsNow, HoldsNext
<1>2. \A q \in Nodes : q # p => kids'[q] = kids[q]
  BY RelistedKids
<1>3. /\ \A m \in Nodes : Under(n, m)' <=> Under(n, m)
      /\ \A q \in Nodes : (\E i : Leads(n, q, i)') <=> (\E i : Leads(n, q, i))
      /\ \A q \in Nodes : \A i : Leads(n, q, i) => n \in Below(q)
      /\ \A q \in Nodes : \A i : Leads(n, q, i)' => n \in Below(q)
  BY StaysUnder
<1>4. ASSUME NEW q \in Nodes, n \in Below(q)
      PROVE  Designated(f.handle)' = q <=> Designated(f.handle) = q
  <2>1. Under(n, q) /\ Under(n, q)'
    BY <1>3, <1>4, TreeAssumption DEF Under
  <2>2. /\ Designated(f.handle) = q => Beneath(n, f.handle)
        /\ Designated(f.handle)' = q => Beneath(n, f.handle)'
    BY <2>1 DEF Beneath
  <2> QED BY <2>2, StaysBeneath DEF Settled
<1>5. ASSUME NEW q \in Nodes, q # p \/ Unmoved(n, p, list), NEW i
      PROVE  Leads(n, q, i)' <=> Leads(n, q, i)
  <2>1. CASE q = p
    BY <1>5, <2>1, StaysInPlace
  <2>2. CASE q # p
    <3>1. kids'[q] = kids[q]
      BY <1>2, <2>2
    <3>2. \A k \in DOMAIN kids[q] : kids[q][k] \in Nodes
      BY ChildrenAreNodes
    <3> QED BY <1>3, <3>1, <3>2 DEF Leads
  <2> QED BY <2>1, <2>2
<1>6. ASSUME f.at # "count", NEW i PROVE Holds(n, f, i)' <=> Holds(n, f, i)
  <2>1. ASSUME NEW q \in Nodes, f.at \in {"pages", "copy"}
        PROVE  Designated(f.handle)' = q /\ Leads(n, q, i)'
                 <=> Designated(f.handle) = q /\ Leads(n, q, i)
    BY <1>3, <1>4, <1>5, <2>1 DEF Settled
  <2>2. Holds(n, f, i) <=>
          /\ f.at \in {"count", "pages", "copy"} /\ f.read < i
          /\ \E q \in Nodes : Designated(f.handle) = q /\ Leads(n, q, i)
    BY <1>1 DEF HoldsLaw
  <2>3. Holds(n, f, i)' <=>
          /\ f.at \in {"count", "pages", "copy"} /\ f.read < i
          /\ \E q \in Nodes : Designated(f.handle)' = q /\ Leads(n, q, i)'
    BY <1>1 DEF HoldsLaw
  <2> QED BY <1>6, <2>1, <2>2, <2>3
<1>7. ASSUME f.at = "count"
      PROVE  (\E i \in Nat : Holds(n, f, i)') <=> (\E i \in Nat : Holds(n, f, i))
  <2>0. f.read = 0
    BY <1>7 DEF Settled
  <2>1. \A q \in Nodes : \A i : /\ Leads(n, q, i) => i \in Nat /\ 0 < i
                                /\ Leads(n, q, i)' => i \in Nat /\ 0 < i
    BY <1>1 DEF Leads, TreeOK
  <2>2. (\E i \in Nat : Holds(n, f, i)) <=>
          \E q \in Nodes : Designated(f.handle) = q /\ \E i : Leads(n, q, i)
    BY <1>1, <1>7, <2>0, <2>1 DEF HoldsLaw
  <2>3. (\E i \in Nat : Holds(n, f, i)') <=>
          \E q \in Nodes : Designated(f.handle)' = q /\ \E i : Leads(n, q, i)'
    BY <1>1, <1>7, <2>0, <2>1 DEF HoldsLaw
  <2> QED BY <1>3, <1>4, <2>2, <2>3
<1> QED BY <1>6, <1>7

LEMMA StaysWaiting ==
  ASSUME TreeOK, Forest, NEW p \in Nodes, NEW list, NEW new, Relisted(p, list, new),
         NEW n, Staying(n, p, list, new), NEW f, Settled(n, f, p, list)
  PROVE  /\ Waits(n, f)' <=> Waits(n, f)
         /\ Comes(n, f)' <=> Comes(n, f)
         /\ OnceIn(n, f)' <=> OnceIn(n, f)
<1>1. \A k : InSlot(n, f, k)' <=> InSlot(n, f, k)
  <2>1. ASSUME NEW k \in DOMAIN f.page PROVE Beneath(n, f.page[k])' <=> Beneath(n, f.page[k])
    <3> DEFINE h == f.page[k]
    <3>1. h.parent = p => Unmoved(n, p, list)
      BY DEF Settled
    <3> HIDE DEF h
    <3>2. Beneath(n, h)' <=> Beneath(n, h)
      BY <3>1, StaysBeneath
    <3> QED BY <3>2 DEF h
  <2> QED BY <2>1 DEF InSlot
<1>2. Whole(n, f)' <=> Whole(n, f)
  <2>1. Under(n, Root)' <=> Under(n, Root)
    BY StaysUnder, TreeAssumption
  <2>2. Beneath(n, f.handle)' <=> Beneath(n, f.handle)
    BY StaysBeneath DEF Settled
  <2> QED BY <2>1, <2>2 DEF Whole
<1>3. /\ f.at # "count" => \A i : Holds(n, f, i)' <=> Holds(n, f, i)
      /\ f.at = "count" => ((\E i \in Nat : Holds(n, f, i)') <=> (\E i \in Nat : Holds(n, f, i)))
  BY StaysHeld
<1>4. (\E i \in Nat : Holds(n, f, i)') <=> (\E i \in Nat : Holds(n, f, i))
  BY <1>3
<1>5. Waits(n, f)' <=> Waits(n, f)
  BY <1>1, <1>2, <1>4 DEF Waits
<1>6. Comes(n, f)' <=> Comes(n, f)
  <2>1. CASE f.at = "count"
    BY <1>1, <1>2, <1>4, <2>1 DEF Comes
  <2>2. CASE f.at # "count"
    BY <1>1, <1>2, <1>3, <2>2 DEF Comes
  <2> QED BY <2>1, <2>2
<1>7. OnceIn(n, f)' <=> OnceIn(n, f)
  BY <1>1, <1>2, <1>4 DEF OnceIn
<1> QED BY <1>5, <1>6, <1>7

LEMMA StaysWhole ==
  ASSUME TreeOK, Forest, NEW p \in Nodes, NEW list, NEW new, Relisted(p, list, new),
         NEW w \in Walk, NEW S \in SUBSET Nodes,
         \A n \in S : Staying(n, p, list, new),
         \A n \in S : \A j \in DOMAIN w.stack : Settled(n, w.stack[j], p, list),
         Covers(w, S), Once(w, S)
  PROVE  Covers(w, S)' /\ Once(w, S)'
<1>1. ASSUME NEW n \in S, NEW j \in DOMAIN w.stack
      PROVE  /\ Waits(n, w.stack[j])' <=> Waits(n, w.stack[j])
             /\ Comes(n, w.stack[j])' <=> Comes(n, w.stack[j])
             /\ OnceIn(n, w.stack[j])' <=> OnceIn(n, w.stack[j])
  <2> DEFINE f == w.stack[j]
  <2>1. Settled(n, f, p, list) /\ Staying(n, p, list, new)
    OBVIOUS
  <2> HIDE DEF f
  <2>2. /\ Waits(n, f)' <=> Waits(n, f)
        /\ Comes(n, f)' <=> Comes(n, f)
        /\ OnceIn(n, f)' <=> OnceIn(n, f)
    BY <2>1, StaysWaiting
  <2> QED BY <2>2 DEF f
<1>2. ASSUME NEW n \in S, NEW m \in Nodes PROVE n \in Below(m)' <=> n \in Below(m)
  BY StaysBelow DEF Staying
<1>3. ASSUME NEW n \in S, NEW i \in DOMAIN w.nodes
      PROVE  Shows(n, w.nodes[i])' <=> Shows(n, w.nodes[i])
  <2>1. w.nodes \in Seq(Entry)
    BY DEF Walk
  <2> DEFINE e == w.nodes[i]
  <2>2. e \in Entry
    BY <2>1
  <2> HIDE DEF e
  <2>3. e.shown \in Nodes
    BY <2>2 DEF Entry
  <2>4. Shows(n, e)' <=> Shows(n, e)
    BY <1>2, <2>3 DEF Shows
  <2> QED BY <2>4 DEF e
<1>4. Covers(w, S)'
  BY <1>1, <1>3 DEF Covers, Told
<1>5. Once(w, S)'
  BY <1>1 DEF Once
<1> QED BY <1>4, <1>5

LEMMA SteadyStays ==
  ASSUME TreeOK, Forest, NEW p \in Nodes, NEW list, NEW new, Relisted(p, list, new),
         toolkit' = toolkit,
         NEW n \in Attached, n \notin WithAllBelow(LeftOut(p, list))
  PROVE  Staying(n, p, list, new)
<1>1. n \in Nodes /\ Root \in Nodes
  BY AttachedIsClosed
<1>2. n \notin new
  <2>1. n = Root \/ \E q \in Nodes : n \in Kids(q)
    BY BelowHasAParent, <1>1 DEF Attached
  <2> QED BY <2>1 DEF Relisted
<1>3. Remains(n, p, list, new)
  BY <1>2 DEF Remains
<1>4. n = Root \/ n \in Below(Root)'
  BY <1>1, <1>3, StaysBelow DEF Attached
<1>5. n \in Attached'
  BY <1>4, TreeAssumption DEF Attached
<1> QED BY <1>1, <1>3, <1>5 DEF Staying

\* The handles and the lists of a walk's frames are those it has in hand.
LEMMA FramesAreInHand ==
  ASSUME walk # None, NEW j \in DOMAIN walk.stack, NEW f, f = walk.stack[j], NEW p,
         \/ f.handle.parent = p
         \/ \E k \in DOMAIN f.page : f.page[k].parent = p
         \/ f.at \in {"pages", "copy", "copied"} /\ Designated(f.handle) = p
  PROVE  p \in InHand
<1>1. f \in ToSet(walk.stack)
  BY DEF ToSet
<1>2. \A k \in DOMAIN f.page : f.page[k] \in ToSet(f.page)
  BY DEF ToSet
<1> QED BY <1>1, <1>2 DEF InHand

\* ---- a tree that does not change --------------------------------------------------

LEMMA SameTreeSame ==
  ASSUME kids' = kids, toolkit' = toolkit
  PROVE  /\ Attached' = Attached /\ (Forest' <=> Forest) /\ (TreeOK' <=> TreeOK)
         /\ \A w, S : (Covers(w, S)' <=> Covers(w, S)) /\ (Once(w, S)' <=> Once(w, S))
<1>1. \A n : Below(n)' = Below(n)
  BY DEF Below, Kids, Spread
<1>2. \A h : Designated(h)' = Designated(h)
  BY DEF Designated, Positional, ChildAt
<1>3. \A n, m : Under(n, m)' <=> Under(n, m)
  BY <1>1 DEF Under
<1>4. \A n, h : Beneath(n, h)' <=> Beneath(n, h)
  BY <1>2, <1>3 DEF Beneath
<1>5. \A p, i : ChildAt(p, i)' = ChildAt(p, i)
  BY DEF ChildAt
<1>6. /\ \A n, f, k : InSlot(n, f, k)' <=> InSlot(n, f, k)
      /\ \A n, f : Whole(n, f)' <=> Whole(n, f)
      /\ \A n, f, i : Holds(n, f, i)' <=> Holds(n, f, i)
  BY <1>2, <1>3, <1>4, <1>5 DEF InSlot, Whole, Holds
<1>7. /\ \A n, f : Waits(n, f)' <=> Waits(n, f)
      /\ \A n, f : Comes(n, f)' <=> Comes(n, f)
      /\ \A n, f : OnceIn(n, f)' <=> OnceIn(n, f)
      /\ \A n, e : Shows(n, e)' <=> Shows(n, e)
  BY <1>1, <1>6 DEF Waits, Comes, OnceIn, Shows
<1>8. \A w, S : Covers(w, S)' <=> Covers(w, S)
  BY <1>7 DEF Covers, Told
<1>9. \A w, S : Once(w, S)' <=> Once(w, S)
  BY <1>7 DEF Once
<1>10. Attached' = Attached
  BY <1>1 DEF Attached
<1> QED BY <1>8, <1>9, <1>10 DEF Forest, TreeOK

-----------------------------------------------------------------------------
(* A step of a walk: the top of the stack gives way to other frames.       *)

\* A stack t that is s with its top exchanged for gs.
Gives(s, t, b, gs) ==
  /\ b \in Nat /\ b + 1 \in DOMAIN s /\ s[b + 1] = Last(s)
  /\ \A j \in 1 .. b : j \in DOMAIN s /\ j \in DOMAIN t /\ t[j] = s[j] /\ j # b + 1
  /\ \A j \in DOMAIN gs : b + j \in DOMAIN t /\ t[b + j] = gs[j] /\ b + j \notin 1 .. b
  /\ \A j \in DOMAIN s : j \in 1 .. b \/ j = b + 1
  /\ \A j \in DOMAIN t : j \in 1 .. b \/ \E k \in DOMAIN gs : j = b + k
  /\ \A j, k \in DOMAIN gs : b + j = b + k => j = k

LEMMA TopGivesWay ==
  ASSUME NEW S, NEW s \in Seq(S), s # <<>>, NEW gs \in Seq(S), NEW t, t = Front(s) \o gs
  PROVE  \E b : Gives(s, t, b, gs)
<1> DEFINE b == Len(s) - 1
<1>1. /\ Front(s) \in Seq(S) /\ Len(Front(s)) = b
      /\ \A j \in 1 .. b : Front(s)[j] = s[j]
  BY FrontAndLast
<1>2. Len(s) \in Nat \ {0} /\ b \in Nat /\ b + 1 = Len(s) /\ DOMAIN s = 1 .. b + 1
      /\ Last(s) = s[b + 1]
  BY EmptySeq DEF Last
<1> HIDE DEF b
<1>3. /\ t \in Seq(S) /\ Len(t) = b + Len(gs) /\ DOMAIN t = 1 .. b + Len(gs)
      /\ \A j \in 1 .. b + Len(gs) : t[j] = IF j <= b THEN Front(s)[j] ELSE gs[j - b]
  <2>1. /\ t \in Seq(S) /\ Len(t) = b + Len(gs)
        /\ \A j \in 1 .. b + Len(gs) : t[j] = IF j <= b THEN Front(s)[j] ELSE gs[j - b]
    BY <1>1, Concats
  <2> QED BY <2>1
<1>4. DOMAIN gs = 1 .. Len(gs) /\ Len(gs) \in Nat
  OBVIOUS
<1>5. \A j \in 1 .. b : j \in DOMAIN s /\ j \in DOMAIN t /\ t[j] = s[j] /\ j # b + 1
  BY <1>1, <1>2, <1>3, <1>4
<1>6. ASSUME NEW j \in DOMAIN gs
      PROVE  b + j \in DOMAIN t /\ t[b + j] = gs[j] /\ b + j \notin 1 .. b
  <2>1. b + j \in 1 .. b + Len(gs) /\ ~(b + j <= b) /\ (b + j) - b = j
    BY <1>2, <1>4
  <2> QED BY <1>3, <2>1
<1>7. ASSUME NEW j \in DOMAIN t PROVE j \in 1 .. b \/ \E k \in DOMAIN gs : j = b + k
  <2>1. CASE j <= b
    BY <1>2, <1>3, <2>1
  <2>2. CASE ~(j <= b)
    <3>1. j \in 1 .. b + Len(gs)
      BY <1>3
    <3>2. j - b \in DOMAIN gs /\ j = b + (j - b)
      BY <1>2, <1>4, <2>2, <3>1
    <3> QED BY <3>2
  <2> QED BY <2>1, <2>2
<1>8. \A j, k \in DOMAIN gs : b + j = b + k => j = k
  BY <1>2, <1>4
<1>9. Gives(s, t, b, gs)
  BY <1>2, <1>5, <1>6, <1>7, <1>8 DEF Gives
<1> QED BY <1>9

\* The entry a step lists, if it lists one.
Lists(w, v, e) == v.nodes = Append(w.nodes, e)

LEMMA ListingAdds ==
  ASSUME NEW w \in Walk, NEW v \in Walk, NEW e, v.nodes = w.nodes \/ Lists(w, v, e)
  PROVE  /\ \A i \in DOMAIN w.nodes : i \in DOMAIN v.nodes /\ v.nodes[i] = w.nodes[i]
         /\ Lists(w, v, e) => \E i \in DOMAIN v.nodes : i \notin DOMAIN w.nodes /\ v.nodes[i] = e
         /\ \A i, j \in DOMAIN v.nodes \ DOMAIN w.nodes :
              i = j /\ v.nodes[i] = e /\ Lists(w, v, e)
<1>1. w.nodes \in Seq(Entry) /\ Len(w.nodes) \in Nat /\ DOMAIN w.nodes = 1 .. Len(w.nodes)
  BY DEF Walk
<1>2. CASE v.nodes = w.nodes
  <2>1. ~Lists(w, v, e)
    BY <1>1, <1>2 DEF Lists
  <2> QED BY <1>2, <2>1
<1>3. CASE Lists(w, v, e)
  <2>1. DOMAIN v.nodes = 1 .. Len(w.nodes) + 1 /\ v.nodes[Len(w.nodes) + 1] = e
        /\ \A i \in 1 .. Len(w.nodes) : v.nodes[i] = w.nodes[i]
    BY <1>1, <1>3 DEF Lists
  <2> QED BY <1>1, <1>3, <2>1
<1> QED BY <1>2, <1>3

\* What came to the top comes to what takes its place, or is listed.
LEMMA CoversOn ==
  ASSUME NEW w \in Walk, w.stack # <<>>, NEW v \in Walk, NEW gs \in Seq(Frame), NEW e,
         NEW R, NEW S, S \subseteq R,
         v.shape = w.shape, v.stack = Front(w.stack) \o gs, v.nodes = w.nodes \/ Lists(w, v, e),
         Covers(w, R), Told(w) => Told(v),
         Told(v) \/ \A n \in S \cap w.shape.lists \cap Inside :
                      Comes(n, Last(w.stack)) =>
                        (Lists(w, v, e) /\ Shows(n, e)) \/ \E j \in DOMAIN gs : Comes(n, gs[j])
  PROVE  Covers(v, S)
<1> SUFFICES ASSUME ~Told(v), NEW n \in S \cap w.shape.lists \cap Inside
             PROVE  \/ \E i \in DOMAIN v.nodes : Shows(n, v.nodes[i])
                    \/ \E j \in DOMAIN v.stack : Comes(n, v.stack[j])
  BY DEF Covers
<1>1. PICK b : Gives(w.stack, v.stack, b, gs)
  BY TopGivesWay DEF Walk
<1>2. CASE \E i \in DOMAIN w.nodes : Shows(n, w.nodes[i])
  BY <1>2, ListingAdds
<1>3. CASE \E j \in DOMAIN w.stack : Comes(n, w.stack[j])
  <2>1. PICK j \in DOMAIN w.stack : Comes(n, w.stack[j])
    BY <1>3
  <2>2. CASE j \in 1 .. b
    BY <1>1, <2>1, <2>2 DEF Gives
  <2>3. CASE j = b + 1
    <3>1. Comes(n, Last(w.stack))
      BY <1>1, <2>1, <2>3 DEF Gives
    <3>2. CASE Lists(w, v, e) /\ Shows(n, e)
      BY <3>2, ListingAdds
    <3>3. CASE \E k \in DOMAIN gs : Comes(n, gs[k])
      BY <1>1, <3>3 DEF Gives
    <3> QED BY <3>1, <3>2, <3>3
  <2> QED BY <1>1, <2>2, <2>3 DEF Gives
<1> QED BY <1>2, <1>3 DEF Covers

\* What waits for what takes the top's place waited for the top, and what is listed did.
LEMMA OnceOn ==
  ASSUME NEW w \in Walk, w.stack # <<>>, NEW v \in Walk, NEW gs \in Seq(Frame), NEW e,
         NEW R, NEW S, S \subseteq R,
         v.stack = Front(w.stack) \o gs, v.nodes = w.nodes \/ Lists(w, v, e), Once(w, R),
         \A n \in S : \A j \in DOMAIN gs :
            OnceIn(n, gs[j]) /\ (Waits(n, gs[j]) => Waits(n, Last(w.stack))),
         \A n \in S : \A j, k \in DOMAIN gs : Waits(n, gs[j]) /\ Waits(n, gs[k]) => j = k,
         Lists(w, v, e) /\ e.shown \in S =>
            Waits(e.shown, Last(w.stack)) /\ \A j \in DOMAIN gs : ~Waits(e.shown, gs[j])
  PROVE  Once(v, S)
<1> SUFFICES ASSUME NEW n \in S
             PROVE
    /\ \A i, j \in DOMAIN v.nodes : v.nodes[i].shown = n /\ v.nodes[j].shown = n => i = j
    /\ \A j \in DOMAIN v.stack :
         /\ OnceIn(n, v.stack[j])
         /\ Waits(n, v.stack[j]) =>
              /\ \A i \in DOMAIN v.nodes : v.nodes[i].shown # n
              /\ \A l \in DOMAIN v.stack : Waits(n, v.stack[l]) => j = l
  BY DEF Once
<1>1. PICK b : Gives(w.stack, v.stack, b, gs)
  BY TopGivesWay DEF Walk
<1>2. /\ \A i, j \in DOMAIN w.nodes : w.nodes[i].shown = n /\ w.nodes[j].shown = n => i = j
      /\ \A j \in DOMAIN w.stack :
           /\ OnceIn(n, w.stack[j])
           /\ Waits(n, w.stack[j]) =>
                /\ \A i \in DOMAIN w.nodes : w.nodes[i].shown # n
                /\ \A l \in DOMAIN w.stack : Waits(n, w.stack[l]) => j = l
  BY DEF Once
<1>3. /\ \A i \in DOMAIN w.nodes : i \in DOMAIN v.nodes /\ v.nodes[i] = w.nodes[i]
      /\ \A i, j \in DOMAIN v.nodes \ DOMAIN w.nodes :
              i = j /\ v.nodes[i] = e /\ Lists(w, v, e)
  BY ListingAdds
\* What waits in the new stack waited in the old.
<1>4. ASSUME NEW j \in DOMAIN v.stack, Waits(n, v.stack[j])
      PROVE  \/ j \in 1 .. b /\ Waits(n, w.stack[j])
             \/ Waits(n, w.stack[b + 1]) /\ \E k \in DOMAIN gs : j = b + k /\ Waits(n, gs[k])
  BY <1>1, <1>4 DEF Gives
<1>5. ASSUME NEW j \in DOMAIN v.stack PROVE OnceIn(n, v.stack[j])
  BY <1>1, <1>2, <1>5 DEF Gives
<1>6. ASSUME NEW j \in DOMAIN v.stack, Waits(n, v.stack[j]), NEW i \in DOMAIN v.nodes
      PROVE  v.nodes[i].shown # n
  <2>1. CASE i \in DOMAIN w.nodes
    <3>1. \E l \in DOMAIN w.stack : Waits(n, w.stack[l])
      BY <1>1, <1>4, <1>6 DEF Gives
    <3> QED BY <1>2, <1>3, <2>1, <3>1
  <2>2. CASE i \notin DOMAIN w.nodes
    <3> SUFFICES ASSUME v.nodes[i].shown = n PROVE FALSE
      OBVIOUS
    <3>1. v.nodes[i] = e /\ Lists(w, v, e)
      BY <1>3, <2>2
    <3>2. Waits(n, w.stack[b + 1]) /\ \A k \in DOMAIN gs : ~Waits(n, gs[k])
      BY <1>1, <3>1 DEF Gives
    <3>3. j \in 1 .. b /\ Waits(n, w.stack[j])
      BY <1>4, <1>6, <3>2
    <3> QED BY <1>1, <1>2, <3>2, <3>3 DEF Gives
  <2> QED BY <2>1, <2>2
<1>7. ASSUME NEW j \in DOMAIN v.stack, Waits(n, v.stack[j]),
             NEW l \in DOMAIN v.stack, Waits(n, v.stack[l])
      PROVE  j = l
  <2>1. CASE j \in 1 .. b /\ l \in 1 .. b
    BY <1>1, <1>2, <1>7, <2>1 DEF Gives
  <2>2. CASE j \in 1 .. b /\ l \notin 1 .. b
    <3>1. Waits(n, w.stack[j]) /\ Waits(n, w.stack[b + 1])
      BY <1>1, <1>4, <1>7, <2>2 DEF Gives
    <3> QED BY <1>1, <1>2, <2>2, <3>1 DEF Gives
  <2>3. CASE j \notin 1 .. b /\ l \in 1 .. b
    <3>1. Waits(n, w.stack[l]) /\ Waits(n, w.stack[b + 1])
      BY <1>1, <1>4, <1>7, <2>3 DEF Gives
    <3> QED BY <1>1, <1>2, <2>3, <3>1 DEF Gives
  <2>4. CASE j \notin 1 .. b /\ l \notin 1 .. b
    BY <1>4, <1>7, <2>4
  <2> QED BY <2>1, <2>2, <2>3, <2>4
<1>8. ASSUME NEW i \in DOMAIN v.nodes, NEW j \in DOMAIN v.nodes,
             v.nodes[i].shown = n, v.nodes[j].shown = n
      PROVE  i = j
  <2>1. Lists(w, v, e) /\ e.shown = n => \A k \in DOMAIN w.nodes : w.nodes[k].shown # n
    BY <1>1, <1>2 DEF Gives
  <2>2. CASE i \in DOMAIN w.nodes /\ j \in DOMAIN w.nodes
    BY <1>2, <1>3, <1>8, <2>2
  <2>3. CASE i \notin DOMAIN w.nodes \/ j \notin DOMAIN w.nodes
    BY <1>3, <1>8, <2>1, <2>3
  <2> QED BY <2>2, <2>3
<1> QED BY <1>5, <1>6, <1>7, <1>8

\* What holds of a walk from its start to its end.
Goes(w, S) == Covers(w, S) /\ Once(w, S) /\ NoCuts(w)

LEMMA TopIsOnce ==
  ASSUME NEW w \in Walk, w.stack # <<>>
  PROVE  /\ \A R : Once(w, R) => \A n \in R : OnceIn(n, Last(w.stack))
         /\ NoCuts(w) => w.shape.skeleton \/ Last(w.stack).at \notin {"cut", "cut_copy"}
<1>1. Len(w.stack) \in DOMAIN w.stack /\ Last(w.stack) = w.stack[Len(w.stack)]
  BY EmptySeq DEF Walk, Last
<1> QED BY <1>1 DEF Once, NoCuts

\* A step from w to v: gs in the top's place, and e listed if anything is.
Step(w, v, gs, e) ==
  /\ w \in Walk /\ v \in Walk /\ w.stack # <<>> /\ gs \in Seq(Frame)
  /\ v.shape = w.shape /\ v.stack = Front(w.stack) \o gs
  /\ v.nodes = w.nodes \/ Lists(w, v, e)
  /\ Told(w) => Told(v)
  /\ ~w.shape.skeleton =>
       /\ v.hidden = w.hidden
       /\ Lists(w, v, e) => e.hidden = 0
       /\ \A j \in DOMAIN gs : gs[j].at \notin {"cut", "cut_copy"}

LEMMA GoesOn ==
  ASSUME NEW w, NEW v, NEW gs, NEW e, NEW R, NEW S, S \subseteq R, Goes(w, R), Step(w, v, gs, e),
         Told(v) \/ \A n \in S \cap w.shape.lists \cap Inside :
                      Comes(n, Last(w.stack)) =>
                        (Lists(w, v, e) /\ Shows(n, e)) \/ \E j \in DOMAIN gs : Comes(n, gs[j]),
         \A n \in S : OnceIn(n, Last(w.stack)) =>
           /\ \A j \in DOMAIN gs :
                OnceIn(n, gs[j]) /\ (Waits(n, gs[j]) => Waits(n, Last(w.stack)))
           /\ \A j, k \in DOMAIN gs : Waits(n, gs[j]) /\ Waits(n, gs[k]) => j = k
           /\ Lists(w, v, e) /\ e.shown = n =>
                Waits(n, Last(w.stack)) /\ \A j \in DOMAIN gs : ~Waits(n, gs[j])
  PROVE  Goes(v, S)
<1>1. Covers(v, S)
  BY CoversOn DEF Goes, Step
<1>2. \A n \in S : OnceIn(n, Last(w.stack))
  BY TopIsOnce DEF Goes, Step
<1>3. Once(v, S)
  BY <1>2, OnceOn DEF Goes, Step
<1>4. NoCuts(v)
  <2> SUFFICES ASSUME ~w.shape.skeleton
               PROVE  /\ v.hidden = 0
                      /\ \A i \in DOMAIN v.nodes : v.nodes[i].hidden = 0
                      /\ \A j \in DOMAIN v.stack : v.stack[j].at \notin {"cut", "cut_copy"}
    BY DEF NoCuts, Step
  <2>1. PICK b : Gives(w.stack, v.stack, b, gs)
    BY TopGivesWay DEF Walk, Step
  <2>2. \A j \in DOMAIN v.stack : v.stack[j].at \notin {"cut", "cut_copy"}
    BY <2>1 DEF Gives, Goes, NoCuts, Step
  <2>3. ASSUME NEW i \in DOMAIN v.nodes PROVE v.nodes[i].hidden = 0
    <3>1. CASE i \in DOMAIN w.nodes
      BY <3>1, ListingAdds DEF Goes, NoCuts, Step
    <3>2. CASE i \notin DOMAIN w.nodes
      BY <3>2, ListingAdds DEF Step
    <3> QED BY <3>1, <3>2
  <2> QED BY <2>2, <2>3 DEF Goes, NoCuts, Step
<1> QED BY <1>1, <1>3, <1>4 DEF Goes

\* v is no less told than w, but for what the top of its stack would have told.
Tells(w, v) ==
  /\ v.shape = w.shape /\ v.hidden = w.hidden
  /\ w.truncated # None => v.truncated # None
  /\ Last(w.stack).at = "copied" /\ Last(w.stack).more => Told(v)

LEMMA ToldOn ==
  ASSUME NEW w \in Walk, NEW v \in Walk, w.stack # <<>>, NEW gs \in Seq(Frame),
         v.stack = Front(w.stack) \o gs,
         w.hidden > 0 => v.hidden > 0, w.truncated # None => v.truncated # None,
         Last(w.stack).at = "copied" /\ Last(w.stack).more => Told(v), Told(w)
  PROVE  Told(v)
<1>1. PICK b : Gives(w.stack, v.stack, b, gs)
  BY TopGivesWay DEF Walk
<1>2. CASE \E j \in DOMAIN w.stack : w.stack[j].at = "copied" /\ w.stack[j].more
  <2>1. PICK j \in DOMAIN w.stack : w.stack[j].at = "copied" /\ w.stack[j].more
    BY <1>2
  <2> QED BY <1>1, <2>1 DEF Gives, Told
<1> QED BY <1>2 DEF Told

LEMMA PoppedGoes ==
  ASSUME NEW w \in Walk, NEW v \in Walk, w.stack # <<>>, Tells(w, v), v.stack = Front(w.stack),
         v.nodes = w.nodes, NEW R, NEW S, S \subseteq R, Goes(w, R),
         Told(v) \/ \A n \in S \cap w.shape.lists \cap Inside : ~Comes(n, Last(w.stack))
  PROVE  Goes(v, S)
<1> DEFINE gs == <<>>
           e == [hidden |-> 0, shown |-> None]
<1>1. gs \in Seq(Frame) /\ DOMAIN gs = {} /\ v.stack = Front(w.stack) \o gs
  BY FrontAndLast DEF Walk
<1> HIDE DEF gs
<1>2. w.hidden > 0 => v.hidden > 0
  BY DEF Tells
<1>3. Told(w) => Told(v)
  BY <1>1, <1>2, ToldOn DEF Tells
<1>4. e.hidden = 0 /\ ~Lists(w, v, e)
  <2>1. w.nodes \in Seq(Entry)
    BY DEF Walk
  <2> QED BY <2>1 DEF Lists
<1> HIDE DEF e
<1>5. Step(w, v, gs, e)
  BY <1>1, <1>3, <1>4 DEF Step, Tells
<1> QED BY <1>1, <1>4, <1>5, GoesOn

LEMMA ReplacedGoes ==
  ASSUME NEW w \in Walk, NEW v \in Walk, w.stack # <<>>, Tells(w, v), NEW g \in Frame,
         v.stack = Append(Front(w.stack), g), v.nodes = w.nodes, NEW R, NEW S, S \subseteq R,
         Goes(w, R), w.shape.skeleton \/ g.at \notin {"cut", "cut_copy"},
         Told(v) \/ \A n \in S \cap w.shape.lists \cap Inside :
                      Comes(n, Last(w.stack)) => Comes(n, g),
         \A n \in S : OnceIn(n, Last(w.stack)) =>
           OnceIn(n, g) /\ (Waits(n, g) => Waits(n, Last(w.stack)))
  PROVE  Goes(v, S)
<1> DEFINE gs == <<g>>
           e == [hidden |-> 0, shown |-> None]
<1>1. gs \in Seq(Frame) /\ DOMAIN gs = {1} /\ gs[1] = g /\ v.stack = Front(w.stack) \o gs
  BY FrontAndLast DEF Walk
<1> HIDE DEF gs
<1>2. w.hidden > 0 => v.hidden > 0
  BY DEF Tells
<1>3. Told(w) => Told(v)
  BY <1>1, <1>2, ToldOn DEF Tells
<1>4. e.hidden = 0 /\ ~Lists(w, v, e)
  <2>1. w.nodes \in Seq(Entry)
    BY DEF Walk
  <2> QED BY <2>1 DEF Lists
<1> HIDE DEF e
<1>5. Step(w, v, gs, e)
  BY <1>1, <1>3, <1>4 DEF Step, Tells
<1>6. \/ Told(v)
      \/ \A n \in S \cap w.shape.lists \cap Inside :
           Comes(n, Last(w.stack)) => \E j \in DOMAIN gs : Comes(n, gs[j])
  BY <1>1
<1> QED BY <1>1, <1>4, <1>5, <1>6, GoesOn

\* ---- what a message tells ---------------------------------------------------------

Going ==
  TypeInv /\ Forest /\ steady \subseteq Attached /\ (walk # None => Goes(walk, steady))

LEMMA ReadsSay ==
  ASSUME TypeInv, NEW h \in Handle, NEW how, NEW hides, Reads(h, how, hides)
  PROVE  /\ steady' \subseteq steady /\ (how = "refused" => steady' \cap hides = {})
         /\ how \in {"ok", "mute", "late", "refused"} =>
              Designated(h) \in Nodes /\ Designated(h) # None
         /\ how = "gone" => Designated(h) \notin Attached
<1>1. TreeOK /\ Designated(h) \in Node
  BY DesignatedIsANode DEF TypeInv
<1>2. Attached \in SUBSET Nodes /\ None \notin Nodes
  BY <1>1, AttachedIsClosed, TreeAssumption
<1> QED BY <1>1, <1>2 DEF Reads, Answers, Present, Node

LEMMA SilenceSays == Silent => steady' = steady
BY DEF Silent, app_vars

\* Nothing in place is beneath a handle of what is gone.
LEMMA GoneIsEmpty ==
  ASSUME TreeOK, Forest, NEW h, Designated(h) \notin Attached, NEW n \in Attached
  PROVE  ~Beneath(n, h)
BY AttachedAncestors DEF Beneath

LEMMA NotesTell ==
  ASSUME NEW w, WalkOK(w), NEW why \in {"time", "nodes", "depth"}
  PROVE  /\ Told(Note(w, why)) /\ WalkOK(Note(w, why))
         /\ Note(w, why).stack = w.stack /\ Note(w, why).nodes = w.nodes
         /\ Note(w, why).shape = w.shape /\ Note(w, why).hidden = w.hidden
         /\ Note(w, why).truncated # None
<1>1. /\ Note(w, why).stack = w.stack /\ Note(w, why).nodes = w.nodes
      /\ Note(w, why).shape = w.shape /\ Note(w, why).hidden = w.hidden
      /\ Note(w, why).truncated # None
  BY WalkAssumption DEF Note, WalkOK, Walk
<1> QED BY <1>1, NotesAreWalks DEF Told

\* ---- frames -----------------------------------------------------------------------

LEMMA EmptyPages == ASSUME NEW f, f.page = <<>>, NEW n, NEW k PROVE ~InSlot(n, f, k)
BY DEF InSlot

LEMMA HoldsIs ==
  ASSUME TreeOK, NEW f, NEW p \in Nodes, Designated(f.handle) = p, NEW n, NEW i
  PROVE  Holds(n, f, i) <=> /\ f.at \in {"count", "pages", "copy"} /\ f.read < i
                            /\ i \in DOMAIN kids[p] /\ Under(n, kids[p][i])
<1>1. i \in DOMAIN kids[p] => ChildAt(p, i) = kids[p][i] /\ kids[p][i] \in Nodes
  BY ChildrenAreNodes, TreeAssumption DEF ChildAt
<1>2. i \notin DOMAIN kids[p] => ChildAt(p, i) = None
  BY DEF ChildAt
<1> QED BY <1>1, <1>2, TreeAssumption DEF Holds

LEMMA HoldsBelow ==
  ASSUME TreeOK, NEW f, NEW n, NEW i, Holds(n, f, i)
  PROVE  \E p \in Nodes : Designated(f.handle) = p /\ n \in Below(p)
<1>1. PICK p \in Nodes : Designated(f.handle) = p
  BY DEF Holds
<1>2. n \in Below(p)
  BY <1>1, HoldsIs, BelowSplits
<1> QED BY <1>1, <1>2

\* A frame whose children have not been counted has all that is below its node.
LEMMA CountsAll ==
  ASSUME TreeOK, NEW f, f.at = "count", f.read = 0, f.page = <<>>,
         NEW p \in Nodes, Designated(f.handle) = p, NEW n
  PROVE  (Waits(n, f) <=> n \in Below(p)) /\ (Comes(n, f) <=> n \in Below(p)) /\ OnceIn(n, f)
<1>1. ~Whole(n, f) /\ \A k : ~InSlot(n, f, k)
  BY EmptyPages DEF Whole
<1>2. \A i \in DOMAIN kids[p] : i \in Nat /\ 0 < i
  BY DEF TreeOK
<1>3. (\E i \in Nat : Holds(n, f, i)) <=> n \in Below(p)
  BY <1>2, HoldsIs, BelowSplits
<1> QED BY <1>1, <1>3 DEF Waits, Comes, OnceIn

LEMMA RootHandleIsRoot == RootHandle \in Handle /\ Designated(RootHandle) = Root
BY TreeAssumption DEF RootHandle, Handle, Node, Designated, Positional

\* ---- the steps ----------------------------------------------------------------------

\* What each shows of the walk it makes, with what it leaves in place.
LEMMA VisitRootGoes ==
  ASSUME Going, VisitRoot, NEW v, v = walk', NEW S, S = steady'
  PROVE  S \subseteq steady /\ Goes(v, S)
<1> DEFINE why == Stopped(walk, 0)
           w   == [Pop(walk) EXCEPT !.visited = @ + 1]
           f(d) == [handle |-> RootHandle, depth |-> d, at |-> "count", count |-> 0,
                    read |-> 0, page |-> <<>>, more |-> FALSE]
<1>1. /\ walk # None /\ walk.stack # <<>> /\ WalkOK(walk) /\ WalkOK(Pop(walk)) /\ WalkOK(w)
      /\ walk \in Walk /\ Top.at = "root" /\ Top.page = <<>> /\ Top = Last(walk.stack)
  BY TopIsAFrame, PoppedAreWalks, VisitedAreWalks DEF VisitRoot, Walking, Going, WalkOK, Top
<1>2. v \in Walk /\ TypeInv /\ TreeOK /\ Forest /\ steady \subseteq Attached /\ Goes(walk, steady)
  BY <1>1, VisitRootKeeps DEF Going, WalkOK, TypeInv
<1>3. /\ Pop(walk).stack = Front(walk.stack) /\ Pop(walk).nodes = walk.nodes
      /\ Pop(walk).shape = walk.shape /\ Pop(walk).hidden = walk.hidden
      /\ Pop(walk).truncated = walk.truncated
  BY <1>1 DEF Pop, Walk
<1>4. w.stack = Front(walk.stack) /\ w.nodes = walk.nodes /\ w.shape = walk.shape
      /\ w.hidden = walk.hidden /\ w.truncated = walk.truncated
  BY <1>1, <1>3 DEF WalkOK, Walk
<1>5. CASE why # None
  <2>1. v = Note(Pop(walk), why) /\ S = steady
    BY <1>5, SilenceSays DEF VisitRoot
  <2>2. why \in {"time", "nodes", "depth"}
    BY <1>5 DEF Stopped
  <2> HIDE DEF why, w
  <2>3. Told(v) /\ v.stack = Front(walk.stack) /\ v.nodes = walk.nodes /\ Tells(walk, v)
    BY <1>1, <1>3, <2>1, <2>2, NotesTell DEF Tells
  <2> QED BY <1>1, <1>2, <2>1, <2>3, PoppedGoes
<1>6. CASE why = None
  <2>1. PICK how \in {"ok", "gone", "late", "refused"} :
          /\ Reads(RootHandle, how, {Root})
          /\ walk' = IF how = "ok" THEN Push(w, RootHandle, 1, "count")
                     ELSE Unanswered(w, RootHandle, 0, how)
    BY <1>6 DEF VisitRoot
  <2> HIDE DEF w, why
  <2>2. S \subseteq steady /\ how # "gone"
    BY <1>2, <2>1, RootHandleIsRoot, ReadsSay, AttachedIsClosed
  <2>3. PICK u \in {w, Note(w, "time")}, d \in {1, 0 + 1} :
          v = Push(u, RootHandle, d, "count")
    BY <2>1, <2>2 DEF Unanswered
  <2>4. /\ u.stack = Front(walk.stack) /\ u.nodes = walk.nodes /\ u.shape = walk.shape
        /\ u.hidden = walk.hidden /\ (walk.truncated # None => u.truncated # None)
        /\ WalkOK(u)
    BY <1>1, <1>4, <2>3, NotesTell
  <2>5. f(d) \in Frame /\ f(d).at = "count" /\ f(d).read = 0 /\ f(d).page = <<>>
        /\ f(d).handle = RootHandle
    BY <2>3, RootHandleIsRoot DEF Frame
  <2>6. v = [u EXCEPT !.stack = Append(u.stack, f(d))]
    BY <2>3 DEF Push
  <2> DEFINE g == f(d)
  <2> HIDE DEF f
  <2>7. /\ v.stack = Append(Front(walk.stack), g) /\ v.nodes = walk.nodes /\ Tells(walk, v)
    BY <1>1, <2>4, <2>6 DEF WalkOK, Walk, Tells
  <2>8. \A n : /\ Waits(n, g) <=> n \in Below(Root)
               /\ Comes(n, g) <=> n \in Below(Root)
               /\ OnceIn(n, g)
    BY <1>2, <2>5, RootHandleIsRoot, CountsAll, TreeAssumption
  <2>9. \A n : Waits(n, g) => Waits(n, Last(walk.stack))
    BY <1>1, <2>8, TreeAssumption DEF Waits, Whole, Under
  <2>10. \A n \in Inside : Comes(n, Last(walk.stack)) => Comes(n, g)
    <3> SUFFICES ASSUME NEW n \in Inside, Comes(n, Top) PROVE n \in Below(Root)
      BY <1>1, <2>8
    <3>1. n # Root
      BY DEF Inside
    <3>2. Whole(n, Top)
      BY <1>1, EmptyPages DEF Comes, Holds
    <3> QED BY <1>1, <3>1, <3>2 DEF Whole, Under
  <2> HIDE DEF g
  <2>11. g \in Frame /\ g.at = "count"
    BY <2>5 DEF g
  <2> QED BY <1>1, <1>2, <2>2, <2>7, <2>8, <2>9, <2>10, <2>11, ReplacedGoes
<1> QED BY <1>5, <1>6

\* A frame at its children, none of which is being read.
AtChildren(f) == f.at \in {"count", "pages", "copy"} /\ f.page = <<>>

LEMMA ComesBelow ==
  ASSUME TreeOK, NEW f, AtChildren(f), NEW n, Comes(n, f)
  PROVE  \E p \in Nodes : Designated(f.handle) = p /\ n \in Below(p)
<1>1. \E i : Holds(n, f, i)
  BY EmptyPages DEF Comes, Whole, AtChildren
<1> QED BY <1>1, HoldsBelow

LEMMA PoppedIs ==
  ASSUME NEW w, WalkOK(w), w.stack # <<>>
  PROVE  /\ w \in Walk /\ WalkOK(Pop(w)) /\ Pop(w) \in Walk /\ Pop(w).stack = Front(w.stack)
         /\ Pop(w).nodes = w.nodes /\ Pop(w).shape = w.shape /\ Pop(w).hidden = w.hidden
         /\ Pop(w).truncated = w.truncated
BY PoppedAreWalks DEF Pop, WalkOK, Walk

LEMMA ReplacedIs ==
  ASSUME NEW w, WalkOK(w), w.stack # <<>>, NEW f \in Frame
  PROVE  /\ WalkOK(Replace(w, f)) /\ Replace(w, f) \in Walk
         /\ Replace(w, f).stack = Append(Front(w.stack), f)
         /\ Replace(w, f).nodes = w.nodes /\ Replace(w, f).shape = w.shape
         /\ Replace(w, f).hidden = w.hidden /\ Replace(w, f).truncated = w.truncated
<1>1. w \in Walk
  BY DEF WalkOK
<1>2. Replace(w, f).stack = Append(Front(w.stack), f)
  BY <1>1 DEF Replace, Walk
<1>3. /\ Replace(w, f).nodes = w.nodes /\ Replace(w, f).shape = w.shape
      /\ Replace(w, f).hidden = w.hidden /\ Replace(w, f).truncated = w.truncated
  BY <1>1 DEF Replace, Walk
<1> QED BY <1>2, <1>3, ReplacedAreWalks DEF WalkOK

LEMMA UnreadGoes ==
  ASSUME Going, walk # None, walk.stack # <<>>, AtChildren(Top), NEW how, NEW S, S \subseteq steady,
         how = "late" \/ \A n \in S : \A p \in Nodes :
                           Designated(Top.handle) = p => n \notin Below(p)
  PROVE  Goes(Unread(how), S)
<1>1. WalkOK(walk) /\ Goes(walk, steady) /\ TreeOK /\ Top = Last(walk.stack) /\ Top.at # "copied"
  BY TopIsAFrame DEF Going, TypeInv, Top, AtChildren
<1> DEFINE v == Unread(how)
<1>2. /\ v \in Walk /\ v.stack = Front(walk.stack) /\ v.nodes = walk.nodes /\ Tells(walk, v)
      /\ how = "late" => Told(v)
  <2>1. CASE how = "late"
    <3>1. v = Note(Pop(walk), "time")
      BY <2>1 DEF Unread
    <3> HIDE DEF v
    <3> QED BY <1>1, <3>1, PoppedIs, NotesTell DEF Tells, WalkOK
  <2>2. CASE how # "late"
    <3>1. v = Pop(walk)
      BY <2>2 DEF Unread
    <3> HIDE DEF v
    <3> QED BY <1>1, <2>2, <3>1, PoppedIs DEF Tells, WalkOK
  <2> QED BY <2>1, <2>2
<1>3. Told(v) \/ \A n \in S \cap walk.shape.lists \cap Inside : ~Comes(n, Last(walk.stack))
  <2>1. how # "late" => \A n \in S : ~Comes(n, Top)
    BY <1>1, ComesBelow
  <2> HIDE DEF v
  <2> QED BY <1>1, <1>2, <2>1
<1> HIDE DEF v
<1>4. Goes(v, S)
  BY <1>1, <1>2, <1>3, PoppedGoes DEF WalkOK
<1> QED BY <1>4 DEF v

LEMMA CopiesGoes ==
  ASSUME Going, walk # None, walk.stack # <<>>, AtChildren(Top), NEW S, S \subseteq steady
  PROVE  Goes(Copies, S)
<1>1. /\ WalkOK(walk) /\ Goes(walk, steady) /\ TreeOK /\ Top = Last(walk.stack) /\ Top.at # "copied"
      /\ Top \in Frame
  BY TopIsAFrame DEF Going, TypeInv, Top, AtChildren
<1> DEFINE g == [Top EXCEPT !.at = "copy"]
           v == Replace(walk, g)
<1>2. g \in Frame /\ g.at = "copy" /\ g.page = <<>> /\ g.read = Top.read /\ g.handle = Top.handle
  BY <1>1 DEF Frame, AtChildren
<1> HIDE DEF g
<1>3. \A n, i : Holds(n, g, i) <=> Holds(n, Top, i)
  BY <1>2 DEF Holds, AtChildren
<1>4. \A n : ~Whole(n, g) /\ ~Whole(n, Top) /\ \A k : ~InSlot(n, g, k) /\ ~InSlot(n, Top, k)
  BY <1>2, EmptyPages DEF Whole, AtChildren
<1>5. \A n : (Comes(n, Top) => Comes(n, g)) /\ OnceIn(n, g) /\ (Waits(n, g) => Waits(n, Top))
  BY <1>2, <1>3, <1>4 DEF Comes, OnceIn, Waits
<1>6. /\ v \in Walk /\ v.stack = Append(Front(walk.stack), g) /\ v.nodes = walk.nodes
      /\ Tells(walk, v)
  BY <1>1, <1>2, ReplacedIs DEF Tells
<1> HIDE DEF v
<1>7. Goes(v, S)
  BY <1>1, <1>2, <1>5, <1>6, ReplacedGoes DEF WalkOK
<1> QED BY <1>7 DEF v, g, Copies

\* What a parent that is gone had is not in place.
LEMMA GoneGoes ==
  ASSUME Going, NEW f, Designated(f.handle) \notin Attached, NEW n \in steady
  PROVE  \A p \in Nodes : Designated(f.handle) = p => n \notin Below(p)
<1>1. TreeOK /\ Forest /\ n \in Attached
  BY DEF Going, TypeInv
<1> QED BY <1>1, AttachedAncestors, TreeAssumption DEF Under

LEMMA CountsGoes ==
  ASSUME Going, Counts, NEW v, v = walk', NEW S, S = steady'
  PROVE  S \subseteq steady /\ Goes(v, S)
<1> DEFINE g == [Top EXCEPT !.at = "pages", !.count = Len(kids[Designated(Top.handle)])]
<1>1. /\ walk # None /\ walk.stack # <<>> /\ WalkOK(walk) /\ Top.at = "count" /\ Top.page = <<>>
      /\ Top = Last(walk.stack) /\ AtChildren(Top) /\ TypeInv /\ TreeOK /\ Goes(walk, steady)
      /\ Top \in Frame /\ Top.handle \in Handle
  BY TopIsAFrame DEF Counts, Walking, Going, AtChildren, Top, TypeInv, Frame
<1>2. PICK how \in {"ok", "gone", "late", "refused"} :
        /\ Reads(Top.handle, how, {})
        /\ v = CASE how = "ok"      -> Replace(walk, g)
                 [] how = "refused" -> Copies
                 [] OTHER           -> Unread(how)
  BY DEF Counts
<1> HIDE DEF g
<1>3. /\ S \subseteq steady
      /\ how = "ok" => Designated(Top.handle) \in Nodes
      /\ how = "gone" => Designated(Top.handle) \notin Attached
  BY <1>1, <1>2, ReadsSay
<1>4. CASE how = "ok"
  <2> DEFINE p == Designated(Top.handle)
  <2>1. p \in Nodes /\ Len(kids[p]) \in Nat /\ DOMAIN kids[p] = 1 .. Len(kids[p])
    BY <1>1, <1>3, <1>4 DEF TreeOK
  <2>2. /\ g \in Frame /\ g.at = "pages" /\ g.page = <<>> /\ g.read = Top.read
        /\ g.handle = Top.handle /\ g.count = Len(kids[p])
    BY <1>1, <2>1 DEF Frame, g
  <2> HIDE DEF p
  <2>3. p = Designated(Top.handle)
    BY DEF p
  <2>4. \A n, i : Holds(n, g, i) <=> Holds(n, Top, i)
    BY <1>1, <2>2 DEF Holds
  <2>5. \A n, i : Holds(n, g, i) => i <= g.count
    BY <1>1, <2>1, <2>2, <2>3, HoldsIs
  <2>6. \A n : ~Whole(n, g) /\ ~Whole(n, Top) /\ \A k : ~InSlot(n, g, k) /\ ~InSlot(n, Top, k)
    BY <1>1, <2>2, EmptyPages DEF Whole
  <2>7. \A n : (Comes(n, Top) => Comes(n, g)) /\ OnceIn(n, g) /\ (Waits(n, g) => Waits(n, Top))
    BY <2>4, <2>5, <2>6 DEF Comes, OnceIn, Waits
  <2>8. /\ v \in Walk /\ v.stack = Append(Front(walk.stack), g) /\ v.nodes = walk.nodes
        /\ Tells(walk, v)
    BY <1>1, <1>2, <1>4, <2>2, ReplacedIs DEF Tells
  <2> QED BY <1>1, <1>3, <2>2, <2>7, <2>8, ReplacedGoes DEF WalkOK
<1>5. CASE how = "refused"
  BY <1>1, <1>2, <1>3, <1>5, CopiesGoes
<1>6. CASE how \in {"gone", "late"}
  <2>1. v = Unread(how)
    BY <1>2, <1>6
  <2>2. how = "gone" => \A n \in S : \A p \in Nodes :
                          Designated(Top.handle) = p => n \notin Below(p)
    BY <1>3, GoneGoes
  <2> QED BY <1>1, <1>3, <1>6, <2>1, <2>2, UnreadGoes
<1> QED BY <1>4, <1>5, <1>6

LEMMA CopiedGoes ==
  ASSUME Going, Copied, NEW v, v = walk', NEW S, S = steady'
  PROVE  S \subseteq steady /\ Goes(v, S)
<1>1. /\ walk # None /\ walk.stack # <<>> /\ WalkOK(walk) /\ Top.at = "copied" /\ Top.page = <<>>
      /\ Top = Last(walk.stack) /\ Goes(walk, steady) /\ S = steady
  BY TopIsAFrame, SilenceSays DEF Copied, Walking, Going, Top
<1>2. v = IF Top.more THEN Note(Pop(walk), "nodes") ELSE Pop(walk)
  BY DEF Copied
<1>3. \A n : ~Comes(n, Top)
  BY <1>1, EmptyPages DEF Comes, Whole, Holds
<1>4. /\ v \in Walk /\ v.stack = Front(walk.stack) /\ v.nodes = walk.nodes /\ Tells(walk, v)
  <2>1. CASE Top.more
    BY <1>1, <1>2, <2>1, PoppedIs, NotesTell DEF Tells, WalkOK
  <2>2. CASE ~Top.more
    BY <1>1, <1>2, <2>2, PoppedIs DEF Tells
  <2> QED BY <2>1, <2>2
<1> QED BY <1>1, <1>3, <1>4, PoppedGoes DEF WalkOK

\* A handle of a page is for the child at its place.
LEMMA PagesDesignate ==
  ASSUME TreeOK, NEW h \in Handle, NEW p \in Nodes, Designated(h) = p, NEW r \in Nat, NEW j \in Int,
         j <= Len(kids[p]), NEW n, NEW k
  PROVE  LET page == HandlesOf(h, r + 1, j)
         IN  k \in DOMAIN page /\ Beneath(n, page[k]) <=>
               k \in Nat /\ 0 < k /\ r + k <= j /\ Under(n, kids[p][r + k])
<1> DEFINE page == HandlesOf(h, r + 1, j)
           e == [node |-> ChildAt(p, r + k), parent |-> p, path |-> Append(h.path, r + k)]
<1>1. /\ page \in Seq(Handle) /\ Len(page) = IF j < r + 1 THEN 0 ELSE j - r
      /\ k \in 1 .. j - r => page[k] = e
  BY PagesAreHandles
<1> HIDE DEF page
<1>2. k \in DOMAIN page <=> k \in 1 .. j - r
  BY <1>1
<1>3. k \in 1 .. j - r <=> k \in Nat /\ 0 < k /\ r + k <= j
  OBVIOUS
<1>4. ASSUME k \in 1 .. j - r PROVE Designated(page[k]) = kids[p][r + k] /\ kids[p][r + k] \in Nodes
  <2>1. r + k \in DOMAIN kids[p] /\ r + k \in Nat
    BY <1>3, <1>4 DEF TreeOK
  <2>2. ChildAt(p, r + k) = kids[p][r + k] /\ kids[p][r + k] \in Nodes
    BY <2>1, ChildrenAreNodes, TreeAssumption DEF ChildAt
  <2>3. Last(Append(h.path, r + k)) = r + k
    BY <2>1 DEF Handle, Last
  <2>4. Designated(e) = ChildAt(p, r + k)
    BY <2>3 DEF Designated, Positional
  <2> QED BY <1>1, <1>4, <2>2, <2>4
<1>5. k \in 1 .. j - r => (Beneath(n, page[k]) <=> Under(n, kids[p][r + k]))
  BY <1>4 DEF Beneath
<1>6. k \in DOMAIN page /\ Beneath(n, page[k]) <=>
        k \in Nat /\ 0 < k /\ r + k <= j /\ Under(n, kids[p][r + k])
  BY <1>2, <1>3, <1>5
<1> QED BY <1>6 DEF page

\* A page read takes what it holds of the frame, and leaves the rest.
LEMMA PageTakes ==
  ASSUME TreeOK, Forest, NEW f \in Frame, AtChildren(f), NEW p \in Nodes, Designated(f.handle) = p,
         NEW j \in Int, j <= Len(kids[p]), NEW g \in Frame, g.handle = f.handle,
         g.page = HandlesOf(f.handle, f.read + 1, j),
         g.at = "copied" \/ (g.at = "pages" /\ g.read = j /\ f.read <= j), NEW n \in Attached
  PROVE  /\ OnceIn(n, g) /\ (Waits(n, g) => Waits(n, f))
         /\ \A i \in Nat : Holds(n, f, i) =>
              (\E k \in Nat : InSlot(n, g, k)) \/ (j < i /\ (g.at = "pages" => Holds(n, g, i)))
<1>1. f.handle \in Handle /\ f.read \in Nat
  BY DEF Frame
<1>2. \A k : InSlot(n, g, k) <=>
               k \in Nat /\ 0 < k /\ f.read + k <= j /\ Under(n, kids[p][f.read + k])
  BY <1>1, PagesDesignate DEF InSlot
<1>3. \A i : Holds(n, f, i) <=> f.read < i /\ i \in DOMAIN kids[p] /\ Under(n, kids[p][i])
  BY HoldsIs DEF AtChildren
<1>4. \A i : Holds(n, g, i) <=> /\ g.at = "pages" /\ j < i /\ i \in DOMAIN kids[p]
                                /\ Under(n, kids[p][i])
  BY HoldsIs DEF AtChildren
<1>5. ~Whole(n, g) /\ ~Whole(n, f)
  BY DEF Whole, AtChildren
<1>6. DOMAIN kids[p] = 1 .. Len(kids[p]) /\ Len(kids[p]) \in Nat
  BY DEF TreeOK
\* A handle of the page stands for a child that the frame held.
<1>7. ASSUME NEW k, InSlot(n, g, k)
      PROVE  /\ k \in Nat /\ f.read + k \in Nat /\ f.read + k <= j
             /\ f.read + k \in DOMAIN kids[p] /\ Under(n, kids[p][f.read + k])
             /\ Holds(n, f, f.read + k)
  <2>1. k \in Nat /\ 0 < k /\ f.read + k <= j /\ Under(n, kids[p][f.read + k])
    BY <1>2, <1>7
  <2>2. f.read + k \in DOMAIN kids[p] /\ f.read < f.read + k /\ f.read + k \in Nat
    BY <1>1, <1>6, <2>1
  <2> QED BY <1>3, <2>1, <2>2
<1>8. ASSUME NEW i \in Nat, Holds(n, g, i) PROVE Holds(n, f, i)
  BY <1>1, <1>3, <1>4, <1>6, <1>8
<1>9. Waits(n, g) => Waits(n, f)
  BY <1>5, <1>7, <1>8 DEF Waits
<1>10. ASSUME NEW k \in Nat, NEW l \in Nat, InSlot(n, g, k), InSlot(n, g, l) PROVE k = l
  <2>1. f.read + k = f.read + l
    <3> DEFINE a == f.read + k
               b == f.read + l
    <3>1. /\ a \in DOMAIN kids[p] /\ Under(n, kids[p][a])
          /\ b \in DOMAIN kids[p] /\ Under(n, kids[p][b])
      BY <1>7, <1>10
    <3> HIDE DEF a, b
    <3>2. a = b
      BY <3>1, SiblingsAreApart
    <3> QED BY <3>2 DEF a, b
  <2> QED BY <1>1, <2>1
<1>11. ASSUME NEW k \in Nat, NEW i \in Nat, InSlot(n, g, k), Holds(n, g, i) PROVE FALSE
  <2> DEFINE a == f.read + k
  <2>1. a \in DOMAIN kids[p] /\ Under(n, kids[p][a]) /\ a <= j /\ a \in Nat
    BY <1>7, <1>11
  <2>2. i \in DOMAIN kids[p] /\ Under(n, kids[p][i]) /\ j < i
    BY <1>4, <1>11
  <2> HIDE DEF a
  <2>3. a = i
    BY <2>1, <2>2, SiblingsAreApart
  <2> QED BY <2>1, <2>2, <2>3
<1>12. OnceIn(n, g)
  BY <1>5, <1>10, <1>11 DEF OnceIn
<1>13. ASSUME NEW i \in Nat, Holds(n, f, i)
       PROVE  (\E k \in Nat : InSlot(n, g, k)) \/ (j < i /\ (g.at = "pages" => Holds(n, g, i)))
  <2>1. f.read < i /\ i \in DOMAIN kids[p] /\ Under(n, kids[p][i])
    BY <1>3, <1>13
  <2>2. CASE i <= j
    <3> DEFINE k == i - f.read
    <3>1. k \in Nat /\ 0 < k /\ f.read + k = i
      BY <1>1, <2>1
    <3> HIDE DEF k
    <3>2. InSlot(n, g, k)
      BY <1>2, <2>1, <2>2, <3>1
    <3> QED BY <3>1, <3>2
  <2>3. CASE ~(i <= j)
    BY <1>4, <2>1, <2>3
  <2> QED BY <2>2, <2>3
<1> QED BY <1>9, <1>12, <1>13

LEMMA PagesGoes ==
  ASSUME Going, Pages, NEW v, v = walk', NEW S, S = steady'
  PROVE  S \subseteq steady /\ Goes(v, S)
<1> DEFINE f      == Top
           size   == Len(kids[Designated(f.handle)])
           wanted == Min({f.count, MaxChildren})
           asked  == Min({ChildPage, wanted - f.read, size - f.read})
           page   == HandlesOf(f.handle, f.read + 1, f.read + asked)
           why    == IF f.read >= wanted THEN None ELSE Stopped(walk, f.depth)
           short  == f.read >= wanted /\ f.count > wanted
           next   == [f EXCEPT !.page = page, !.read = @ + asked]
<1>0. f.at = "pages"
  BY DEF Pages, Walking
<1>1. /\ walk # None /\ walk.stack # <<>> /\ WalkOK(walk) /\ f.at = "pages" /\ f.page = <<>>
      /\ f = Last(walk.stack) /\ AtChildren(f) /\ TypeInv /\ TreeOK /\ Forest /\ Goes(walk, steady)
      /\ f \in Frame /\ f.handle \in Handle /\ steady \subseteq Attached
  BY TopIsAFrame DEF Pages, Walking, Going, AtChildren, Top, TypeInv, Frame
<1>2. f.count \in Nat /\ f.count \in Int /\ f.read \in Nat
  BY <1>1 DEF Frame
<1>3. v \in Walk
  BY <1>1, PagesKeeps DEF WalkOK
<1>4. wanted \in Int /\ wanted <= f.count
  <2>1. MaxChildren \in Int
    BY Bounds
  <2> HIDE DEF f
  <2>2. wanted \in {f.count, MaxChildren} /\ wanted <= f.count
    BY <1>2, <2>1, MinOfTwo, Zenon
  <2> QED BY <1>2, <2>1, <2>2
<1>5. \A n : ~Whole(n, f) /\ \A k : ~InSlot(n, f, k)
  BY <1>1, EmptyPages DEF Whole
<1>6. CASE f.read >= wanted \/ why # None
  <2>1. /\ v = IF why # None THEN Note(Pop(walk), why)
               ELSE IF short THEN Note(Pop(walk), "nodes") ELSE Pop(walk)
        /\ S = steady
    BY <1>6, SilenceSays DEF Pages
  <2>2. why # None => why \in {"time", "nodes", "depth"}
    BY DEF Stopped
  <2>3. why = None /\ ~short => f.read >= f.count
    BY <1>2, <1>4, <1>6
  <2> HIDE DEF why, short, wanted, f
  <2>4. /\ v.stack = Front(walk.stack) /\ v.nodes = walk.nodes /\ Tells(walk, v)
        /\ Told(v) \/ f.read >= f.count
    <3>1. CASE why # None \/ short
      <4>1. PICK y \in {"time", "nodes", "depth"} : v = Note(Pop(walk), y)
        BY <2>1, <2>2, <3>1
      <4> QED BY <1>1, <4>1, PoppedIs, NotesTell DEF Tells
    <3>2. CASE why = None /\ ~short
      <4>1. v = Pop(walk)
        BY <2>1, <3>2
      <4> QED BY <1>1, <2>3, <3>2, <4>1, PoppedIs DEF Tells, f
    <3> QED BY <3>1, <3>2
  <2>5. f.read >= f.count => \A n : ~Comes(n, f)
    BY <1>1, <1>2, <1>5 DEF Comes, Holds
  <2> QED BY <1>1, <1>3, <2>1, <2>4, <2>5, PoppedGoes DEF WalkOK
<1>7. CASE ~(f.read >= wanted) /\ why = None
  <2>1. PICK how \in {"ok", "gone", "late", "refused"} :
          /\ Reads(f.handle, how, {})
          /\ v = CASE how = "ok" /\ page = <<>> -> Pop(walk)
                   [] how = "ok" /\ page # <<>> -> Replace(walk, next)
                   [] how = "refused" -> Copies
                   [] OTHER -> Unread(how)
    BY <1>7 DEF Pages
  <2>2. /\ S \subseteq steady
        /\ how = "ok" => Designated(f.handle) \in Nodes
        /\ how = "gone" => Designated(f.handle) \notin Attached
    BY <1>1, <2>1, ReadsSay
  <2>3. CASE how = "ok"
    <3> DEFINE p == Designated(f.handle)
    <3>1. p \in Nodes /\ size = Len(kids[p]) /\ size \in Nat /\ DOMAIN kids[p] = 1 .. size
      BY <1>1, <2>2, <2>3 DEF TreeOK
    <3>2. p = Designated(f.handle)
      OBVIOUS
    <3> HIDE DEF p, size
    <3>3. /\ asked \in Int /\ asked \in {ChildPage, wanted - f.read, size - f.read}
          /\ asked <= size - f.read
      <4>1. ChildPage \in Int /\ wanted - f.read \in Int /\ size - f.read \in Int
        BY <1>2, <1>4, <3>1, Bounds
      <4> HIDE DEF f, wanted
      <4>2. asked \in {ChildPage, wanted - f.read, size - f.read} /\ asked <= size - f.read
        BY <4>1, MinOfThree, Zenon
      <4> QED BY <4>1, <4>2
    <3>4. ChildPage \in Int /\ ChildPage > 0
      BY Bounds
    <3> HIDE DEF asked, wanted, f
    <3> DEFINE j == f.read + asked
    <3>5. j \in Int /\ j <= size /\ (asked > 0 \/ f.read >= size)
      BY <1>2, <1>4, <1>7, <3>1, <3>3, <3>4
    <3>6. /\ page \in Seq(Handle) /\ page = HandlesOf(f.handle, f.read + 1, j)
          /\ Len(page) = IF j < f.read + 1 THEN 0 ELSE j - f.read
      BY <1>1, <1>2, <3>5, PagesAreHandles
    <3> HIDE DEF page
    <3>7. page = <<>> => f.read >= size
      <4>1. page = <<>> => Len(page) = 0
        OBVIOUS
      <4> QED BY <1>2, <3>3, <3>5, <3>6, <4>1
    <3>8. page # <<>> => f.read <= j /\ j \in Nat
      <4>1. page # <<>> => Len(page) # 0
        BY <3>6, EmptySeq
      <4> QED BY <1>2, <3>3, <3>6, <4>1
    <3>9. CASE page = <<>>
      <4>1. v = Pop(walk)
        BY <2>1, <2>3, <3>9
      <4>2. \A n : ~Comes(n, f)
        <5>1. ASSUME NEW n, NEW i \in Nat, Holds(n, f, i) PROVE FALSE
          <6>1. f.read < i /\ i \in DOMAIN kids[p]
            BY <1>1, <3>1, <3>2, <5>1, HoldsIs
          <6> QED BY <1>2, <3>1, <3>7, <3>9, <6>1
        <5> QED BY <1>5, <5>1 DEF Comes
      <4>3. v.stack = Front(walk.stack) /\ v.nodes = walk.nodes /\ Tells(walk, v)
        BY <1>1, <4>1, PoppedIs DEF Tells
      <4> QED BY <1>1, <1>3, <2>2, <4>2, <4>3, PoppedGoes DEF WalkOK
    <3>10. CASE page # <<>>
      <4>1. v = Replace(walk, next)
        BY <2>1, <2>3, <3>10
      <4>2. /\ next \in Frame /\ next.handle = f.handle /\ next.page = page /\ next.at = "pages"
            /\ next.read = j /\ next.count = f.count
        BY <1>1, <3>6, <3>8, <3>10 DEF Frame
      <4> HIDE DEF next, j
      <4>3. v.stack = Append(Front(walk.stack), next) /\ v.nodes = walk.nodes /\ Tells(walk, v)
        BY <1>1, <4>1, <4>2, ReplacedIs DEF Tells
      <4>4. ASSUME NEW n \in S
            PROVE  /\ OnceIn(n, next) /\ (Waits(n, next) => Waits(n, f))
                   /\ \A i \in Nat : Holds(n, f, i) =>
                        (\E k \in Nat : InSlot(n, next, k)) \/ Holds(n, next, i)
        BY <1>1, <2>2, <3>1, <3>2, <3>5, <3>6, <3>8, <3>10, <4>2, PageTakes
      <4>5. \A n \in S : Comes(n, f) => Comes(n, next)
        BY <1>1, <1>5, <4>2, <4>4 DEF Comes
      <4> QED BY <1>1, <1>3, <2>2, <4>2, <4>3, <4>4, <4>5, ReplacedGoes DEF WalkOK
    <3> QED BY <3>9, <3>10
  <2>4. CASE how = "refused"
    <3>1. v = Copies
      BY <2>1, <2>4
    <3> QED BY <1>1, <2>2, <3>1, CopiesGoes
  <2>5. CASE how \in {"gone", "late"}
    <3>1. v = Unread(how)
      BY <2>1, <2>5
    <3> HIDE DEF page, next, why, wanted
    <3>2. how = "gone" => \A n \in S : \A p \in Nodes :
                            Designated(f.handle) = p => n \notin Below(p)
      BY <2>2, GoneGoes
    <3> QED BY <1>1, <2>2, <2>5, <3>1, <3>2, UnreadGoes
  <2> QED BY <2>3, <2>4, <2>5
<1> QED BY <1>6, <1>7

LEMMA CopyGoes ==
  ASSUME Going, Copy, NEW v, v = walk', NEW S, S = steady'
  PROVE  S \subseteq steady /\ Goes(v, S)
<1> DEFINE f    == Top
           size == Len(kids[Designated(f.handle)])
           room == Min({size, MaxChildren})
           page == HandlesOf(f.handle, f.read + 1, room)
           next == [f EXCEPT !.at = "copied", !.more = size > MaxChildren, !.page = page]
<1>1. /\ walk # None /\ walk.stack # <<>> /\ WalkOK(walk) /\ f.at = "copy" /\ f.page = <<>>
      /\ f = Last(walk.stack) /\ AtChildren(f) /\ TypeInv /\ TreeOK /\ Forest /\ Goes(walk, steady)
      /\ f \in Frame /\ f.handle \in Handle /\ steady \subseteq Attached /\ f.read \in Nat
  BY TopIsAFrame DEF Copy, Walking, Going, AtChildren, Top, TypeInv, Frame
<1>2. PICK how \in {"ok", "gone", "late", "refused"} :
        /\ Reads(f.handle, how, Below(Designated(f.handle)))
        /\ v = IF how # "ok" THEN Unread(how) ELSE Replace(walk, next)
  BY DEF Copy, Rest
<1>3. /\ S \subseteq steady
      /\ how = "ok" => Designated(f.handle) \in Nodes
      /\ how = "gone" => Designated(f.handle) \notin Attached
      /\ how = "refused" => S \cap Below(Designated(f.handle)) = {}
  BY <1>1, <1>2, ReadsSay
<1>4. v \in Walk
  BY <1>1, CopyKeeps DEF WalkOK
<1>5. CASE how = "ok"
  <2> DEFINE p == Designated(f.handle)
  <2>1. p \in Nodes /\ size = Len(kids[p]) /\ size \in Nat /\ DOMAIN kids[p] = 1 .. size
    BY <1>1, <1>3, <1>5 DEF TreeOK
  <2>2. p = Designated(f.handle)
    OBVIOUS
  <2> HIDE DEF p, size, f
  <2>3. room \in Int /\ room <= size /\ (room = size \/ size > MaxChildren)
    <3>1. MaxChildren \in Int /\ size \in Int
      BY Bounds, <2>1
    <3>2. room \in {size, MaxChildren} /\ room <= size /\ room <= MaxChildren
      BY <3>1, MinOfTwo, Zenon
    <3> QED BY <3>1, <3>2
  <2> HIDE DEF room
  <2>4. page \in Seq(Handle) /\ page = HandlesOf(f.handle, f.read + 1, room)
    BY <1>1, <2>3, PagesAreHandles
  <2> HIDE DEF page
  <2>5. (size > MaxChildren) \in BOOLEAN
    OBVIOUS
  <2>6. /\ next \in Frame /\ next.handle = f.handle /\ next.page = page /\ next.at = "copied"
        /\ next.more <=> size > MaxChildren
    BY <1>1, <2>4, <2>5 DEF Frame
  <2> HIDE DEF next
  <2>7. /\ v.stack = Append(Front(walk.stack), next) /\ v.nodes = walk.nodes /\ Tells(walk, v)
    BY <1>1, <1>2, <1>5, <2>6, ReplacedIs DEF Tells
  <2>8. next.more => Told(v)
    <3> SUFFICES ASSUME next.more PROVE \E j \in DOMAIN v.stack : v.stack[j] = next
      BY <2>6 DEF Told
    <3>1. Front(walk.stack) \in Seq(Frame)
      BY <1>1, FrontAndLast DEF WalkOK, Walk
    <3>2. Len(v.stack) \in DOMAIN v.stack /\ v.stack[Len(v.stack)] = next
      BY <2>6, <2>7, <3>1
    <3> QED BY <3>2
  <2>9. ASSUME NEW n \in S
        PROVE  /\ OnceIn(n, next) /\ (Waits(n, next) => Waits(n, f))
               /\ \A i \in Nat : Holds(n, f, i) =>
                    (\E k \in Nat : InSlot(n, next, k)) \/ room < i
    BY <1>1, <1>3, <2>1, <2>2, <2>3, <2>4, <2>6, PageTakes
  <2>10. \A n, i : Holds(n, f, i) => i <= size
    BY <1>1, <2>1, <2>2, HoldsIs
  <2>11. ~next.more => room = size
    BY <2>3, <2>6
  <2>12. ~next.more => \A n \in S : Comes(n, f) => Comes(n, next)
    <3> SUFFICES ASSUME room = size, NEW n \in S, Comes(n, f) PROVE Comes(n, next)
      BY <2>11
    <3>1. PICK i \in Nat : Holds(n, f, i)
      BY <1>1, EmptyPages DEF Comes, Whole
    <3>2. i <= size /\ ~(room < i)
      BY <2>1, <2>10, <3>1
    <3> QED BY <2>9, <3>1, <3>2 DEF Comes
  <2> QED BY <1>1, <1>3, <1>4, <2>6, <2>7, <2>8, <2>9, <2>12, ReplacedGoes DEF WalkOK
<1>6. CASE how # "ok"
  <2>1. v = Unread(how)
    BY <1>2, <1>6
  <2> HIDE DEF page, next, room, size
  <2>2. how = "gone" => \A n \in S : \A p \in Nodes : Designated(f.handle) = p => n \notin Below(p)
    BY <1>3, GoneGoes
  <2>3. how = "refused" =>
          \A n \in S : \A p \in Nodes : Designated(f.handle) = p => n \notin Below(p)
    BY <1>3
  <2> QED BY <1>1, <1>3, <1>6, <2>1, <2>2, <2>3, UnreadGoes
<1> QED BY <1>5, <1>6

\* The frame of a page whose first handle is being visited, from then on.
Taken(f) == [f EXCEPT !.page = Tail(@)]

LEMMA TakenIs ==
  ASSUME NEW f \in Frame, f.page # <<>>
  PROVE  /\ Taken(f) \in Frame /\ Head(f.page) \in Handle
         /\ Taken(f).at = f.at /\ Taken(f).more = f.more
         /\ \A n : /\ Waits(n, Taken(f)) => Waits(n, f)
                   /\ Beneath(n, Head(f.page)) => Waits(n, f)
                   /\ Comes(n, f) => Beneath(n, Head(f.page)) \/ Comes(n, Taken(f))
                   /\ OnceIn(n, f) => OnceIn(n, Taken(f))
                   /\ OnceIn(n, f) /\ Beneath(n, Head(f.page)) => ~Waits(n, Taken(f))
<1> DEFINE g == Taken(f)
           h == Head(f.page)
<1>1. /\ f.page \in Seq(Handle) /\ Len(f.page) \in Nat \ {0} /\ h = f.page[1] /\ h \in Handle
      /\ DOMAIN f.page = 1 .. Len(f.page)
      /\ Tail(f.page) \in Seq(Handle) /\ DOMAIN Tail(f.page) = 1 .. Len(f.page) - 1
      /\ \A k \in 1 .. Len(f.page) - 1 : Tail(f.page)[k] = f.page[k + 1]
  BY EmptySeq DEF Frame
<1>2. /\ g \in Frame /\ g.at = f.at /\ g.more = f.more /\ g.page = Tail(f.page)
      /\ g.read = f.read /\ g.handle = f.handle /\ g.count = f.count
  BY <1>1 DEF Frame, Taken
<1> HIDE DEF g, h
<1> SUFFICES ASSUME NEW n
             PROVE  /\ Waits(n, g) => Waits(n, f)
                    /\ Beneath(n, h) => Waits(n, f)
                    /\ Comes(n, f) => Beneath(n, h) \/ Comes(n, g)
                    /\ OnceIn(n, f) => OnceIn(n, g)
                    /\ OnceIn(n, f) /\ Beneath(n, h) => ~Waits(n, g)
  BY <1>1, <1>2 DEF g, h
<1>3. (Whole(n, g) <=> Whole(n, f)) /\ \A i : Holds(n, g, i) <=> Holds(n, f, i)
  BY <1>2 DEF Whole, Holds
<1>4. ASSUME NEW k, InSlot(n, g, k)
      PROVE  k \in Nat /\ k + 1 \in Nat /\ k + 1 # 1 /\ InSlot(n, f, k + 1)
  <2>1. k \in 1 .. Len(f.page) - 1
    BY <1>1, <1>2, <1>4 DEF InSlot
  <2>2. k + 1 \in 1 .. Len(f.page) /\ k \in Nat /\ k + 1 # 1
    BY <1>1, <2>1
  <2> QED BY <1>1, <1>2, <1>4, <2>1, <2>2 DEF InSlot
<1>5. ASSUME NEW k \in Nat, InSlot(n, f, k), k # 1 PROVE k - 1 \in Nat /\ InSlot(n, g, k - 1)
  <2>1. k \in 1 .. Len(f.page)
    BY <1>1, <1>5 DEF InSlot
  <2>2. k - 1 \in 1 .. Len(f.page) - 1 /\ k - 1 \in Nat /\ (k - 1) + 1 = k
    BY <1>1, <1>5, <2>1
  <2>3. g.page[k - 1] = f.page[k]
    BY <1>1, <1>2, <2>2
  <2> QED BY <1>1, <1>2, <1>5, <2>2, <2>3 DEF InSlot
<1>6. InSlot(n, f, 1) <=> Beneath(n, h)
  BY <1>1 DEF InSlot
<1>7. Waits(n, g) => Waits(n, f)
  BY <1>3, <1>4 DEF Waits
<1>8. Beneath(n, h) => Waits(n, f)
  BY <1>6 DEF Waits
<1>9. Comes(n, f) => Beneath(n, h) \/ Comes(n, g)
  BY <1>2, <1>3, <1>5, <1>6 DEF Comes
<1>10. ASSUME OnceIn(n, f) PROVE OnceIn(n, g)
  <2>1. ASSUME NEW k \in Nat, NEW l \in Nat, InSlot(n, g, k), InSlot(n, g, l) PROVE k = l
    <3>1. k + 1 = l + 1
      BY <1>4, <1>10, <2>1 DEF OnceIn
    <3> QED BY <3>1
  <2>2. \A k, i \in Nat : ~(InSlot(n, g, k) /\ Holds(n, g, i))
    BY <1>3, <1>4, <1>10 DEF OnceIn
  <2>3. \A k \in Nat : ~(InSlot(n, g, k) /\ Whole(n, g))
    BY <1>3, <1>4, <1>10 DEF OnceIn
  <2> QED BY <2>1, <2>2, <2>3 DEF OnceIn
<1>11. ASSUME OnceIn(n, f), Beneath(n, h), Waits(n, g) PROVE FALSE
  <2>1. InSlot(n, f, 1)
    BY <1>6, <1>11
  <2>2. \A k : ~InSlot(n, g, k)
    BY <1>4, <1>11, <2>1 DEF OnceIn
  <2> QED BY <1>3, <1>11, <2>1, <2>2 DEF Waits, OnceIn
<1> QED BY <1>7, <1>8, <1>9, <1>10, <1>11

\* A visit that pushes a frame for the node of its handle.
LEMMA PushedGoes ==
  ASSUME Going, walk # None, walk.stack # <<>>, Top.page # <<>>, NEW v \in Walk, NEW g \in Frame,
         NEW e, NEW S, S \subseteq steady, v.shape = walk.shape, v.hidden = walk.hidden,
         walk.truncated # None => v.truncated # None,
         v.stack = Append(Append(Front(walk.stack), Taken(Top)), g),
         v.nodes = walk.nodes \/ Lists(walk, v, e),
         walk.shape.skeleton \/ g.at \notin {"cut", "cut_copy"},
         Lists(walk, v, e) => e.hidden = 0 /\ Beneath(e.shown, Head(Top.page)),
         \A n \in S : /\ OnceIn(n, g) /\ (Waits(n, g) => Beneath(n, Head(Top.page)))
                      /\ Lists(walk, v, e) /\ e.shown = n => ~Waits(n, g),
         Told(v) \/ \A n \in S \cap walk.shape.lists \cap Inside :
                      Beneath(n, Head(Top.page)) =>
                        Comes(n, g) \/ (Lists(walk, v, e) /\ e.shown = n)
  PROVE  Goes(v, S)
<1> DEFINE f == Taken(Top)
           h == Head(Top.page)
           gs == <<f, g>>
<1>1. /\ WalkOK(walk) /\ walk \in Walk /\ Goes(walk, steady) /\ Top = Last(walk.stack)
      /\ Top \in Frame
  BY TopIsAFrame DEF Going, Top, WalkOK
<1>2. /\ f \in Frame /\ f.at = Top.at /\ f.more = Top.more
      /\ \A n : /\ Waits(n, f) => Waits(n, Top)
                /\ Beneath(n, h) => Waits(n, Top)
                /\ Comes(n, Top) => Beneath(n, h) \/ Comes(n, f)
                /\ OnceIn(n, Top) => OnceIn(n, f)
                /\ OnceIn(n, Top) /\ Beneath(n, h) => ~Waits(n, f)
  BY <1>1, TakenIs
<1> HIDE DEF f, h
<1>3. /\ gs \in Seq(Frame) /\ DOMAIN gs = {1, 2} /\ gs[1] = f /\ gs[2] = g
      /\ v.stack = Front(walk.stack) \o gs
  <2>1. Front(walk.stack) \in Seq(Frame)
    BY <1>1, FrontAndLast DEF Walk
  <2>2. gs \in Seq(Frame) /\ DOMAIN gs = {1, 2} /\ gs[1] = f /\ gs[2] = g
    BY <1>2
  <2>3. Append(Append(Front(walk.stack), f), g) = Front(walk.stack) \o gs
    BY <1>2, <2>1
  <2> QED BY <2>2, <2>3 DEF f
<1> HIDE DEF gs
<1>4. Told(walk) => Told(v)
  <2>1. \E j \in DOMAIN v.stack : v.stack[j] = f
    <3>1. PICK b : Gives(walk.stack, v.stack, b, gs)
      BY <1>1, <1>3, TopGivesWay DEF Walk
    <3> QED BY <1>3, <3>1 DEF Gives
  <2>2. Top.at = "copied" /\ Top.more => Told(v)
    BY <1>2, <2>1 DEF Told
  <2> QED BY <1>1, <1>3, <2>2, ToldOn
<1>5. Step(walk, v, gs, e)
  <2>1. ~walk.shape.skeleton => Top.at \notin {"cut", "cut_copy"}
    BY <1>1, TopIsOnce DEF Goes
  <2> QED BY <1>1, <1>2, <1>3, <1>4, <2>1 DEF Step
<1>6. \/ Told(v)
      \/ \A n \in S \cap walk.shape.lists \cap Inside :
           Comes(n, Top) =>
             (Lists(walk, v, e) /\ Shows(n, e)) \/ \E j \in DOMAIN gs : Comes(n, gs[j])
  BY <1>2, <1>3 DEF Shows, h
<1>7. ASSUME NEW n \in S, OnceIn(n, Top)
      PROVE  /\ \A j \in DOMAIN gs : OnceIn(n, gs[j]) /\ (Waits(n, gs[j]) => Waits(n, Top))
             /\ \A j, k \in DOMAIN gs : Waits(n, gs[j]) /\ Waits(n, gs[k]) => j = k
             /\ Lists(walk, v, e) /\ e.shown = n =>
                  Waits(n, Top) /\ \A j \in DOMAIN gs : ~Waits(n, gs[j])
  <2>1. OnceIn(n, f) /\ OnceIn(n, g) /\ (Waits(n, f) => Waits(n, Top))
        /\ (Waits(n, g) => Beneath(n, h)) /\ (Beneath(n, h) => Waits(n, Top) /\ ~Waits(n, f))
    BY <1>2, <1>7 DEF h
  <2>2. Lists(walk, v, e) /\ e.shown = n => Beneath(n, h) /\ ~Waits(n, g)
    BY DEF h
  <2> QED BY <1>3, <2>1, <2>2
<1> QED BY <1>1, <1>5, <1>6, <1>7, GoesOn

LEMMA CollectedIs ==
  ASSUME TreeOK, NEW w, WalkOK(w), NEW h \in Handle, NEW hidden \in Nat, NEW how
  PROVE  LET c == Collected(w, h, hidden, how)
             e == [handle |-> h, shown |-> Designated(h), hidden |-> hidden]
         IN  /\ WalkOK(c) /\ c.stack = w.stack /\ c.shape = w.shape
             /\ w.truncated # None => c.truncated # None
             /\ Designated(h) \in Placed => Lists(w, c, e) /\ c.hidden = w.hidden
             /\ Designated(h) \notin Placed => c.nodes = w.nodes /\ c.hidden = w.hidden + hidden
             /\ Designated(h) \in Placed /\ how = "mute" => Told(c)
<1> DEFINE c == Collected(w, h, hidden, how)
           e == [handle |-> h, shown |-> Designated(h), hidden |-> hidden]
           listed == [w EXCEPT !.nodes = Append(@, e)]
<1>1. WalkOK(c) /\ w \in Walk
  BY CollectedAreWalks DEF WalkOK
<1>2. CASE Designated(h) \notin Placed
  <2>1. c = [w EXCEPT !.hidden = @ + hidden]
    BY <1>2 DEF Collected
  <2> HIDE DEF c
  <2>2. /\ c.stack = w.stack /\ c.shape = w.shape /\ c.truncated = w.truncated
        /\ c.nodes = w.nodes /\ c.hidden = w.hidden + hidden
    BY <1>1, <2>1 DEF Walk
  <2> QED BY <1>1, <1>2, <2>2 DEF c
<1>3. CASE Designated(h) \in Placed
  <2>1. c = IF how = "mute" THEN Note(listed, "time") ELSE listed
    BY <1>3 DEF Collected
  <2> HIDE DEF c, e
  <2>2. /\ listed.stack = w.stack /\ listed.shape = w.shape /\ listed.truncated = w.truncated
        /\ listed.nodes = Append(w.nodes, e) /\ listed.hidden = w.hidden
    BY <1>1 DEF Walk
  <2>3. listed.truncated \in {None, "time", "nodes", "depth"}
    BY <1>1, <2>2 DEF Walk
  <2>4. c = listed \/ (/\ c = Note(listed, "time")
                       /\ c.stack = listed.stack /\ c.shape = listed.shape
                       /\ c.nodes = listed.nodes /\ c.hidden = listed.hidden /\ c.truncated # None)
    <3>1. CASE how = "mute"
      <4>1. c = [listed EXCEPT !.truncated = "time"]
        BY <2>1, <3>1 DEF Note
      <4>2. /\ c.stack = listed.stack /\ c.shape = listed.shape
            /\ c.nodes = listed.nodes /\ c.hidden = listed.hidden
        BY <4>1
      <4>3. c.truncated = "time"
        BY <1>1, <4>1 DEF Walk
      <4> QED BY <2>1, <3>1, <4>2, <4>3, WalkAssumption
    <3> QED BY <2>1, <3>1
  <2>5. how = "mute" => Told(c)
    BY <2>1, <2>4, <1>1, WalkAssumption DEF Told, Note, Walk
  <2>6. c.stack = w.stack /\ c.shape = w.shape /\ (w.truncated # None => c.truncated # None)
        /\ Lists(w, c, e) /\ c.hidden = w.hidden
    BY <2>2, <2>4 DEF Lists
  <2> QED BY <1>1, <1>3, <2>5, <2>6 DEF c, e
<1> QED BY <1>2, <1>3

\* v is w with a frame for h pushed.
Pushes(w, v, h, at) ==
  \E g \in Frame :
    /\ v.stack = Append(w.stack, g) /\ WalkOK(v) /\ v.nodes = w.nodes /\ v.shape = w.shape
    /\ v.hidden = w.hidden /\ v.truncated = w.truncated
    /\ g.at = at /\ g.handle = h /\ g.page = <<>> /\ g.read = 0

LEMMA PushedIs ==
  ASSUME NEW w, WalkOK(w), NEW h \in Handle, NEW d \in Nat, NEW at \in {"count", "cut"}
  PROVE  Pushes(w, Push(w, h, d, at), h, at)
<1> DEFINE g == [handle |-> h, depth |-> d, at |-> at, count |-> 0, read |-> 0,
                 page |-> <<>>, more |-> FALSE]
           v == Push(w, h, d, at)
<1>1. g \in Frame /\ g.at = at /\ g.handle = h /\ g.page = <<>> /\ g.read = 0
  BY DEF Frame
<1>2. v = [w EXCEPT !.stack = Append(w.stack, g)] /\ w \in Walk
  BY DEF Push, WalkOK
<1>3. WalkOK(v)
  BY PushedAreWalks
<1> HIDE DEF g, v
<1>4. /\ v.stack = Append(w.stack, g) /\ v.nodes = w.nodes /\ v.shape = w.shape
      /\ v.hidden = w.hidden /\ v.truncated = w.truncated
  BY <1>2 DEF Walk
<1>5. Pushes(w, v, h, at)
  BY <1>1, <1>3, <1>4 DEF Pushes
<1> QED BY <1>5 DEF v

LEMMA VisitGoes ==
  ASSUME Going, Visit, NEW v, v = walk', NEW S, S = steady'
  PROVE  S \subseteq steady /\ Goes(v, S)
<1> DEFINE h    == Head(Top.page)
           f    == Taken(Top)
           rest == Replace(walk, f)
           w    == [rest EXCEPT !.visited = @ + 1]
           why  == Stopped(walk, Top.depth)
           e    == [handle |-> h, shown |-> Designated(h), hidden |-> 0]
<1>1. /\ walk # None /\ walk.stack # <<>> /\ Top.page # <<>> /\ WalkOK(walk) /\ walk \in Walk
      /\ Top \in Frame /\ Top = Last(walk.stack) /\ TypeInv /\ TreeOK /\ Forest
      /\ Goes(walk, steady) /\ steady \subseteq Attached /\ Top.depth \in Nat
  BY TopIsAFrame DEF Visit, Going, Top, TypeInv, WalkOK, Frame
<1>2. /\ f \in Frame /\ h \in Handle /\ f.at = Top.at /\ f.more = Top.more
      /\ \A n : /\ Waits(n, f) => Waits(n, Top)
                /\ Comes(n, Top) => Beneath(n, h) \/ Comes(n, f)
                /\ OnceIn(n, Top) => OnceIn(n, f)
  BY <1>1, TakenIs
<1> HIDE DEF f
<1>3. /\ WalkOK(rest) /\ rest.stack = Append(Front(walk.stack), f) /\ rest.nodes = walk.nodes
      /\ rest.shape = walk.shape /\ rest.hidden = walk.hidden /\ rest.truncated = walk.truncated
  BY <1>1, <1>2, ReplacedIs
<1> HIDE DEF rest
<1>4. /\ WalkOK(w) /\ w.stack = Append(Front(walk.stack), f) /\ w.nodes = walk.nodes
      /\ w.shape = walk.shape /\ w.hidden = walk.hidden /\ w.truncated = walk.truncated
  BY <1>3, VisitedAreWalks DEF WalkOK, Walk
<1>5. v \in Walk
  BY <1>1, VisitKeeps DEF WalkOK
<1>6. walk.shape.skeleton \/ f.at \notin {"cut", "cut_copy"}
  BY <1>1, <1>2, TopIsOnce DEF Goes
<1> HIDE DEF w, h
\* A walk that goes on with the rest of the page.
<1>7. ASSUME S \subseteq steady, v.stack = Append(Front(walk.stack), f), v.nodes = walk.nodes,
             v.shape = walk.shape, v.hidden = walk.hidden,
             walk.truncated # None => v.truncated # None,
             Told(v) \/ \A n \in S : ~Beneath(n, h)
      PROVE  Goes(v, S)
  <2>1. \E j \in DOMAIN v.stack : v.stack[j] = f
    <3>1. Front(walk.stack) \in Seq(Frame)
      BY <1>1, FrontAndLast DEF Walk
    <3>2. Len(v.stack) \in DOMAIN v.stack /\ v.stack[Len(v.stack)] = f
      BY <1>2, <1>7, <3>1
    <3> QED BY <3>2
  <2>2. Tells(walk, v)
    BY <1>1, <1>2, <1>7, <2>1 DEF Tells, Told
  <2> QED BY <1>1, <1>2, <1>5, <1>6, <1>7, <2>2, ReplacedGoes
<1>8. CASE why # None
  <2>1. v = Note(rest, why) /\ S = steady
    BY <1>8, SilenceSays DEF Visit, Taken, rest, f
  <2>2. why \in {"time", "nodes", "depth"}
    BY <1>8 DEF Stopped
  <2> HIDE DEF why
  <2> QED BY <1>3, <1>7, <2>1, <2>2, NotesTell
<1>9. CASE why = None
  <2>1. PICK how \in {"ok", "mute", "gone", "late", "refused"} :
          /\ how = "mute" => Designated(h) \in walk.shape.lists \cap Placed
          /\ Reads(h, how, {Designated(h)})
          /\ v = IF how \in {"ok", "mute"} THEN Met(w, h, Top.depth, how)
                 ELSE Unanswered(w, h, Top.depth, how)
    BY <1>9 DEF Visit, Taken, w, rest, f, h
  <2> HIDE DEF why
  <2>2. /\ S \subseteq steady
        /\ how # "gone" => Designated(h) \in Nodes
        /\ how = "gone" => Designated(h) \notin Attached
        /\ how = "refused" => Designated(h) \notin S
    BY <1>1, <1>2, <2>1, ReadsSay
  <2>3. CASE how = "gone"
    <3>1. v = w
      BY <2>1, <2>3 DEF Unanswered
    <3>2. \A n \in S : ~Beneath(n, h)
      BY <1>1, <2>2, <2>3, GoneIsEmpty
    <3> QED BY <1>4, <1>7, <2>2, <3>1, <3>2
  \* The node is listed, or not, and a frame is pushed for what is below it.
  <2> DEFINE Fits(c) ==
        /\ WalkOK(c) /\ c.stack = w.stack /\ c.shape = w.shape /\ c.hidden = w.hidden
        /\ w.truncated # None => c.truncated # None
        /\ c.nodes = walk.nodes \/ Lists(walk, c, e)
        /\ \/ Told(c) \/ Designated(h) \notin S \cap walk.shape.lists \cap Inside
           \/ Lists(walk, c, e)
  <2>4. ASSUME NEW c, Fits(c), NEW d \in Nat, v = Push(c, h, d, "count"), how # "gone"
        PROVE  Goes(v, S)
    <3>1. PICK g \in Frame :
            /\ v.stack = Append(c.stack, g) /\ v.nodes = c.nodes /\ v.shape = c.shape
            /\ v.hidden = c.hidden /\ v.truncated = c.truncated
            /\ g.at = "count" /\ g.handle = h /\ g.page = <<>> /\ g.read = 0
      <4>1. Pushes(c, v, h, "count")
        BY <1>2, <2>4, PushedIs
      <4> QED BY <4>1 DEF Pushes
    <3>2. PICK p \in Nodes : Designated(h) = p
      BY <2>2, <2>4
    <3>3. p # None
      BY TreeAssumption
    <3>4. \A n : /\ Waits(n, g) <=> n \in Below(p)
                 /\ Comes(n, g) <=> n \in Below(p)
                 /\ OnceIn(n, g)
      BY <1>1, <3>1, <3>2, CountsAll
    <3>5. \A n : Beneath(n, h) <=> n = p \/ n \in Below(p)
      BY <3>2, <3>3 DEF Beneath, Under
    <3>6. Lists(walk, v, e) <=> Lists(walk, c, e)
      BY <3>1 DEF Lists
    <3>7. e.shown = p /\ e.hidden = 0
      BY <3>2
    <3>8. \A n \in S : n \notin Below(n)
      BY <1>1, <2>2, NoCycles
    <3>9. Told(c) => Told(v)
      <4>1. Append(c.stack, g) \in Seq(Frame) /\ \A j \in DOMAIN c.stack :
               j \in DOMAIN Append(c.stack, g) /\ Append(c.stack, g)[j] = c.stack[j]
        BY <2>4 DEF WalkOK, Walk
      <4> QED BY <3>1, <4>1 DEF Told
    <3>10. v.stack = Append(Append(Front(walk.stack), Taken(Top)), g)
      BY <1>4, <2>4, <3>1 DEF f
    <3>11. \/ Told(v)
           \/ \A n \in S \cap walk.shape.lists \cap Inside :
                Beneath(n, Head(Top.page)) => Comes(n, g) \/ (Lists(walk, v, e) /\ e.shown = n)
      BY <2>4, <3>2, <3>4, <3>5, <3>6, <3>7, <3>9 DEF h
    <3>12. \A n \in S : /\ OnceIn(n, g) /\ (Waits(n, g) => Beneath(n, Head(Top.page)))
                        /\ Lists(walk, v, e) /\ e.shown = n => ~Waits(n, g)
      BY <3>4, <3>5, <3>7, <3>8 DEF h
    <3>13. Beneath(e.shown, Head(Top.page)) /\ e.hidden = 0
      BY <3>5, <3>7 DEF h
    <3>14. /\ v.shape = walk.shape /\ v.hidden = walk.hidden
           /\ walk.truncated # None => v.truncated # None
           /\ v.nodes = walk.nodes \/ Lists(walk, v, e)
      BY <1>4, <2>4, <3>1, <3>6
    <3> HIDE DEF e
    <3> QED BY <1>1, <1>5, <2>2, <3>1, <3>10, <3>11, <3>12, <3>13, <3>14, PushedGoes
  <2>5. Top.depth + 1 \in Nat
    BY <1>1
  <2>6. CASE how = "late"
    <3> DEFINE c == Note(w, "time")
    <3>1. v = Push(c, h, Top.depth + 1, "count")
      BY <2>1, <2>6 DEF Unanswered
    <3>2. /\ Told(c) /\ WalkOK(c) /\ c.stack = w.stack /\ c.nodes = w.nodes
          /\ c.shape = w.shape /\ c.hidden = w.hidden /\ c.truncated # None
      BY <1>4, NotesTell
    <3> HIDE DEF c, e
    <3>3. Fits(c)
      BY <1>4, <3>2
    <3> HIDE DEF Fits
    <3> QED BY <2>2, <2>4, <2>5, <2>6, <3>1, <3>3
  <2>7. CASE how = "refused"
    <3>1. v = Push(w, h, Top.depth + 1, "count")
      BY <2>1, <2>7 DEF Unanswered
    <3>2. Fits(w)
      BY <1>4, <2>2, <2>7
    <3> HIDE DEF e, Fits
    <3> QED BY <2>2, <2>4, <2>5, <2>7, <3>1, <3>2
  <2>8. CASE how \in {"ok", "mute"} /\ w.shape.skeleton /\ Top.depth = SkeletonDepth
    <3>1. v = Push(w, h, Top.depth, "cut")
      BY <2>1, <2>8 DEF Met
    <3>2. PICK g \in Frame :
            /\ v.stack = Append(w.stack, g) /\ v.nodes = w.nodes /\ v.shape = w.shape
            /\ v.hidden = w.hidden /\ v.truncated = w.truncated
            /\ g.at = "cut" /\ g.handle = h /\ g.page = <<>>
      <4>1. Pushes(w, v, h, "cut")
        BY <1>1, <1>2, <1>4, <3>1, PushedIs
      <4> QED BY <4>1 DEF Pushes
    <3>3. \A n : Whole(n, g) <=> Beneath(n, h)
      BY <3>2 DEF Whole
    <3>4. \A n : (\A k : ~InSlot(n, g, k)) /\ (\A i : ~Holds(n, g, i))
      BY <3>2, EmptyPages DEF Holds
    <3>5. \A n : (Waits(n, g) <=> Beneath(n, h)) /\ (Comes(n, g) <=> Beneath(n, h)) /\ OnceIn(n, g)
      BY <3>3, <3>4 DEF Waits, Comes, OnceIn
    <3>6. v.stack = Append(Append(Front(walk.stack), Taken(Top)), g)
      BY <1>4, <3>2 DEF f
    <3>7. v.nodes = walk.nodes /\ ~Lists(walk, v, e)
      <4>1. walk.nodes \in Seq(Entry)
        BY <1>1 DEF Walk
      <4> QED BY <1>4, <3>2, <4>1 DEF Lists
    <3> HIDE DEF e
    <3> QED BY <1>1, <1>4, <1>5, <2>2, <2>8, <3>2, <3>5, <3>6, <3>7, PushedGoes DEF h
  <2>9. CASE how \in {"ok", "mute"} /\ ~(w.shape.skeleton /\ Top.depth = SkeletonDepth)
    <3> DEFINE c == Considered(w, h, how)
    <3>1. v = Push(c, h, Top.depth + 1, "count")
      BY <2>1, <2>9 DEF Met
    <3>2. CASE Designated(h) \notin w.shape.lists
      <4>1. c = w
        BY <3>2 DEF Considered
      <4> HIDE DEF c
      <4>2. Fits(c)
        BY <1>4, <3>2, <4>1
      <4> HIDE DEF Fits, e
      <4> QED BY <2>2, <2>4, <2>5, <2>9, <3>1, <4>2
    <3>3. CASE Designated(h) \in w.shape.lists
      <4>1. c = Collected(w, h, 0, how)
        BY <3>3 DEF Considered
      <4>2. /\ WalkOK(c) /\ c.stack = w.stack /\ c.shape = w.shape
            /\ w.truncated # None => c.truncated # None
            /\ Designated(h) \in Placed => Lists(w, c, e) /\ c.hidden = w.hidden
            /\ Designated(h) \notin Placed => c.nodes = w.nodes /\ c.hidden = w.hidden + 0
        BY <1>1, <1>2, <1>4, <4>1, CollectedIs
      <4>3. w.hidden + 0 = w.hidden
        BY <1>4 DEF WalkOK, Walk
      <4>4. Lists(w, c, e) <=> Lists(walk, c, e)
        BY <1>4 DEF Lists
      <4>5. Designated(h) \in Inside => Designated(h) \in Placed
        BY DEF Inside
      <4> HIDE DEF c, e
      <4>6. Fits(c)
        BY <1>4, <4>2, <4>3, <4>4, <4>5
      <4> HIDE DEF Fits
      <4> QED BY <2>2, <2>4, <2>5, <2>9, <3>1, <4>6
    <3> QED BY <3>2, <3>3
  <2> QED BY <2>3, <2>6, <2>7, <2>8, <2>9
<1> QED BY <1>8, <1>9

\* A cut that lists its node, or counts what it hides.
LEMMA ListedGoes ==
  ASSUME NEW w \in Walk, NEW v \in Walk, w.stack # <<>>, w.shape.skeleton, v.shape = w.shape,
         v.stack = Front(w.stack), NEW e, v.nodes = w.nodes \/ Lists(w, v, e),
         w.hidden > 0 => v.hidden > 0, w.truncated # None => v.truncated # None,
         Last(w.stack).at # "copied", NEW R, NEW S, S \subseteq R, Goes(w, R),
         Lists(w, v, e) => Waits(e.shown, Last(w.stack)) \/ e.shown \notin S,
         Told(v) \/ \A n \in S \cap w.shape.lists \cap Inside :
                      Comes(n, Last(w.stack)) => Lists(w, v, e) /\ Shows(n, e)
  PROVE  Goes(v, S)
<1> DEFINE gs == <<>>
<1>1. gs \in Seq(Frame) /\ DOMAIN gs = {} /\ v.stack = Front(w.stack) \o gs
  BY FrontAndLast DEF Walk
<1> HIDE DEF gs
<1>2. Told(w) => Told(v)
  BY <1>1, ToldOn
<1>3. Step(w, v, gs, e)
  BY <1>1, <1>2 DEF Step
<1> QED BY <1>1, <1>3, GoesOn

LEMMA CutGoes ==
  ASSUME Going, Cut, NEW v, v = walk', NEW S, S = steady'
  PROVE  S \subseteq steady /\ Goes(v, S)
<1> DEFINE h         == Top.handle
           hid(how)  == IF how = "ok" THEN Min({Len(kids[Designated(h)]), MaxChildren}) ELSE 0
           w(how)    == IF how = "late" THEN Note(Pop(walk), "time") ELSE Pop(walk)
           copies(how) == how = "refused" /\ Top.at = "cut"
           next      == [Top EXCEPT !.at = "cut_copy"]
<1>1. /\ walk # None /\ walk.stack # <<>> /\ Top.at \in {"cut", "cut_copy"} /\ Top.page = <<>>
      /\ WalkOK(walk) /\ walk \in Walk /\ Top \in Frame /\ Top = Last(walk.stack) /\ TypeInv
      /\ TreeOK /\ Forest /\ Goes(walk, steady) /\ steady \subseteq Attached /\ h \in Handle
  BY TopIsAFrame DEF Cut, Walking, Going, Top, TypeInv, WalkOK, Frame
<1>2. v \in Walk
  BY <1>1, CutKeeps DEF WalkOK
<1>3. walk.shape.skeleton
  BY <1>1, TopIsOnce DEF Goes
<1>4. \A n : (\A k : ~InSlot(n, Top, k)) /\ (\A i : ~Holds(n, Top, i))
             /\ (Whole(n, Top) <=> Beneath(n, h))
  BY <1>1, EmptyPages DEF Holds, Whole
<1>5. \A n : (Waits(n, Top) <=> Beneath(n, h)) /\ (Comes(n, Top) <=> Beneath(n, h))
  BY <1>4 DEF Waits, Comes
<1>6. PICK how \in {"ok", "gone", "late", "refused"} :
        /\ Reads(h, how, IF copies(how) THEN {} ELSE Below(Designated(h)))
        /\ v = IF copies(how) THEN Replace(walk, next)
               ELSE IF hid(how) = 0 THEN Considered(w(how), h, "ok")
               ELSE Collected(w(how), h, hid(how), "ok")
  BY DEF Cut
<1>7. /\ S \subseteq steady
      /\ how # "gone" => Designated(h) \in Nodes /\ Designated(h) # None
      /\ how = "gone" => Designated(h) \notin Attached
      /\ how = "refused" /\ ~copies(how) => S \cap Below(Designated(h)) = {}
  <2> HIDE DEF copies
  <2> QED BY <1>1, <1>6, ReadsSay
<1>8. CASE copies(how)
  <2>1. next \in Frame /\ next.at = "cut_copy" /\ next.page = <<>> /\ next.handle = h
    BY <1>1 DEF Frame
  <2>2. v = Replace(walk, next)
    BY <1>6, <1>8
  <2> HIDE DEF next, h
  <2>3. \A n : (\A k : ~InSlot(n, next, k)) /\ (\A i : ~Holds(n, next, i))
               /\ (Whole(n, next) <=> Beneath(n, h))
    BY <2>1, EmptyPages DEF Holds, Whole
  <2>4. \A n : (Waits(n, next) <=> Beneath(n, h)) /\ (Comes(n, next) <=> Beneath(n, h))
               /\ OnceIn(n, next)
    BY <2>3 DEF Waits, Comes, OnceIn
  <2>5. v.stack = Append(Front(walk.stack), next) /\ v.nodes = walk.nodes /\ Tells(walk, v)
    BY <1>1, <2>1, <2>2, ReplacedIs DEF Tells
  <2> QED BY <1>1, <1>2, <1>3, <1>5, <1>7, <2>1, <2>4, <2>5, ReplacedGoes
<1>9. CASE ~copies(how)
  <2> DEFINE u == w(how)
             x == hid(how)
             e == [handle |-> h, shown |-> Designated(h), hidden |-> x]
  <2>1. v = IF x = 0 THEN Considered(u, h, "ok") ELSE Collected(u, h, x, "ok")
    BY <1>6, <1>9
  <2>2. /\ WalkOK(u) /\ u.stack = Front(walk.stack) /\ u.nodes = walk.nodes
        /\ u.shape = walk.shape /\ u.hidden = walk.hidden
        /\ walk.truncated # None => u.truncated # None
        /\ how = "late" => u.truncated # None
    <3>1. CASE how = "late"
      BY <1>1, <3>1, PoppedIs, NotesTell
    <3>2. CASE how # "late"
      BY <1>1, <3>2, PoppedIs
    <3> QED BY <3>1, <3>2
  <2>3. x \in Nat /\ (how = "ok" /\ x = 0 => Below(Designated(h)) = {})
    <3>1. CASE how # "ok"
      BY <3>1
    <3>2. CASE how = "ok"
      <4> DEFINE size == Len(kids[Designated(h)])
      <4>1. size \in Nat /\ size \in Int /\ DOMAIN kids[Designated(h)] = 1 .. size
        BY <1>1, <1>7, <3>2 DEF TreeOK
      <4> HIDE DEF size
      <4>2. Min({size, MaxChildren}) \in {size, MaxChildren}
        <5>1. MaxChildren \in Int
          BY Bounds
        <5> QED BY <4>1, <5>1, MinOfTwo
      <4>3. MaxChildren \in Nat /\ MaxChildren > 0
        BY Bounds
      <4>4. x = Min({size, MaxChildren})
        BY <3>2 DEF size
      <4>5. x \in Nat /\ (x = 0 => size = 0)
        BY <4>1, <4>2, <4>3, <4>4
      <4>6. size = 0 => \A n : n \notin Below(Designated(h))
        BY <1>1, <1>7, <3>2, <4>1, BelowSplits
      <4> QED BY <4>5, <4>6
    <3> QED BY <3>1, <3>2
  <2> HIDE DEF u, x, h, w, hid, copies
  \* What comes to the cut is its node, or below it where it says so.
  <2>4. ASSUME NEW n \in S, Beneath(n, h), u.truncated = None
        PROVE  /\ n = Designated(h) \/ (x > 0 /\ n \in Below(Designated(h)))
               /\ Designated(h) \in Nodes
    <3>1. how # "late"
      BY <2>2, <2>4
    <3>2. how # "gone"
      BY <1>1, <1>7, <2>4, GoneIsEmpty
    <3>3. n = Designated(h) \/ n \in Below(Designated(h))
      BY <2>4 DEF Beneath, Under
    <3> QED BY <1>6, <1>7, <1>9, <2>3, <3>1, <3>2, <3>3
  <2>5. Designated(h) \in Nodes => Beneath(Designated(h), h)
    BY TreeAssumption DEF Beneath, Under
  <2>6. walk.stack # <<>> /\ Last(walk.stack).at # "copied"
    BY <1>1
  <2>7. ASSUME v = Collected(u, h, x, "ok") PROVE Goes(v, S)
    <3>1. /\ v.stack = u.stack /\ v.shape = u.shape
          /\ u.truncated # None => v.truncated # None
          /\ Designated(h) \in Placed => Lists(u, v, e) /\ v.hidden = u.hidden
          /\ Designated(h) \notin Placed => v.nodes = u.nodes /\ v.hidden = u.hidden + x
      BY <1>1, <2>2, <2>3, <2>7, CollectedIs
    <3>2. u.hidden \in Nat
      BY <2>2 DEF WalkOK, Walk
    <3>3. walk.hidden > 0 => v.hidden > 0
      BY <2>2, <2>3, <3>1, <3>2
    <3>4. v.nodes = walk.nodes \/ Lists(walk, v, e)
      BY <2>2, <3>1 DEF Lists
    <3>5. e.shown = Designated(h) /\ e.hidden = x
      OBVIOUS
    <3>6. Lists(walk, v, e) => Waits(e.shown, Top) \/ e.shown \notin S
      <4>1. Designated(h) \in S => Beneath(Designated(h), h)
        BY <1>1, <1>7, <2>5, AttachedIsClosed
      <4> QED BY <1>5, <3>5, <4>1 DEF h
    <3>7. \/ Told(v)
          \/ \A n \in S \cap walk.shape.lists \cap Inside :
               Comes(n, Top) => Lists(walk, v, e) /\ Shows(n, e)
      <4> SUFFICES ASSUME ~Told(v), NEW n \in S \cap walk.shape.lists \cap Inside, Comes(n, Top)
                   PROVE  Lists(walk, v, e) /\ Shows(n, e)
        OBVIOUS
      <4>1. u.truncated = None /\ ~(v.hidden > 0)
        BY <3>1 DEF Told
      <4>2. n = Designated(h) \/ (x > 0 /\ n \in Below(Designated(h)))
        BY <1>5, <2>4, <4>1 DEF h
      <4>3. Designated(h) \in Placed
        <5>1. x > 0 => Designated(h) \in Placed
          BY <2>3, <3>1, <3>2, <4>1
        <5> QED BY <4>2, <5>1 DEF Inside
      <4>4. Lists(walk, v, e)
        BY <2>2, <3>1, <4>3 DEF Lists
      <4> QED BY <3>5, <4>2, <4>4 DEF Shows
    <3> HIDE DEF e
    <3> QED
      BY <1>1, <1>2, <1>3, <1>7, <2>2, <2>6, <3>1, <3>3, <3>4, <3>6, <3>7, ListedGoes
  <2>8. ASSUME x = 0, v = u, Designated(h) \notin walk.shape.lists PROVE Goes(v, S)
    <3>1. v.stack = Front(walk.stack) /\ v.nodes = walk.nodes /\ Tells(walk, v)
      BY <2>2, <2>6, <2>8 DEF Tells
    <3>2. \/ Told(v)
          \/ \A n \in S \cap walk.shape.lists \cap Inside : ~Comes(n, Top)
      <4> SUFFICES ASSUME ~Told(v), NEW n \in S \cap walk.shape.lists \cap Inside, Comes(n, Top)
                   PROVE  FALSE
        OBVIOUS
      <4>1. n = Designated(h) \/ x > 0
        BY <1>5, <2>4, <2>8 DEF h, Told
      <4> QED BY <2>3, <2>8, <4>1
    <3> QED BY <1>1, <1>2, <1>7, <3>1, <3>2, PoppedGoes
  <2>9. CASE x = 0 /\ Designated(h) \notin walk.shape.lists
    <3>1. v = u
      BY <2>1, <2>2, <2>9 DEF Considered
    <3> QED BY <1>7, <2>8, <2>9, <3>1
  <2>10. CASE x # 0 \/ Designated(h) \in walk.shape.lists
    <3>1. v = Collected(u, h, x, "ok")
      BY <2>1, <2>2, <2>10 DEF Considered
    <3> QED BY <1>7, <2>7, <3>1
  <2> QED BY <1>7, <2>9, <2>10
<1> QED BY <1>8, <1>9

-----------------------------------------------------------------------------
(* A walk keeps its shape.                                                 *)

Shaped(w, v) == "shape" \in DOMAIN v /\ v.shape = w.shape

LEMMA ShapesStay ==
  ASSUME NEW w, NEW u, Shaped(w, u)
  PROVE  /\ Shaped(w, Pop(u)) /\ Shaped(w, [u EXCEPT !.visited = @ + 1])
         /\ \A why : Shaped(w, Note(u, why))
         /\ \A f : Shaped(w, Replace(u, f))
         /\ \A h, d, at : Shaped(w, Push(u, h, d, at))
         /\ \A h, x, how : Shaped(w, Collected(u, h, x, how))
<1>1. \A why : Shaped(w, Note(u, why))
  BY DEF Shaped, Note
<1>2. Shaped(w, Pop(u)) /\ Shaped(w, [u EXCEPT !.visited = @ + 1])
  BY DEF Shaped, Pop
<1>3. \A f : Shaped(w, Replace(u, f))
  BY DEF Shaped, Replace
<1>4. \A h, d, at : Shaped(w, Push(u, h, d, at))
  BY DEF Shaped, Push
<1>5. \A h, x, how : Shaped(w, Collected(u, h, x, how))
  <2>1. \A e : Shaped(w, [u EXCEPT !.nodes = Append(@, e)])
    BY DEF Shaped
  <2>2. \A e, why : Shaped(w, Note([u EXCEPT !.nodes = Append(@, e)], why))
    BY <2>1 DEF Shaped, Note
  <2>3. \A x : Shaped(w, [u EXCEPT !.hidden = @ + x])
    BY DEF Shaped
  <2> QED BY <2>1, <2>2, <2>3 DEF Collected
<1> QED BY <1>1, <1>2, <1>3, <1>4, <1>5

LEMMA ShapesOfSteps ==
  ASSUME NEW w, NEW u, Shaped(w, u)
  PROVE  /\ \A h, how : Shaped(w, Considered(u, h, how))
         /\ \A h, d, how : Shaped(w, Unanswered(u, h, d, how))
         /\ \A h, d, how : Shaped(w, Met(u, h, d, how))
<1>1. ASSUME NEW h, NEW how PROVE Shaped(w, Considered(u, h, how))
  BY ShapesStay DEF Considered
<1>2. ASSUME NEW h, NEW d, NEW how PROVE Shaped(w, Unanswered(u, h, d, how))
  <2>1. Shaped(w, IF how = "late" THEN Note(u, "time") ELSE u)
    BY ShapesStay
  <2> QED BY <2>1, ShapesStay DEF Unanswered
<1>3. ASSUME NEW h, NEW d, NEW how PROVE Shaped(w, Met(u, h, d, how))
  BY <1>1, ShapesStay DEF Met
<1> QED BY <1>1, <1>2, <1>3

LEMMA ShapeKept == ASSUME TypeInv, WalkStep PROVE walk'.shape = walk.shape
<1>1. Shaped(walk, walk)
  BY WalkStepKeeps DEF TypeInv, WalkOK, Walk, Shaped
<1>2. Shaped(walk, Pop(walk)) /\ \A why : Shaped(walk, Note(Pop(walk), why))
  BY <1>1, ShapesStay
<1>3. \A f : Shaped(walk, Replace(walk, f))
  BY <1>1, ShapesStay
<1>4. \A how : Shaped(walk, Unread(how))
  BY <1>2 DEF Unread
<1>5. Shaped(walk, Copies)
  BY <1>3 DEF Copies
<1>6. CASE VisitRoot
  <2> DEFINE w == [Pop(walk) EXCEPT !.visited = @ + 1]
  <2>1. Shaped(walk, w)
    BY <1>2, ShapesStay
  <2>2. \/ \E why : walk' = Note(Pop(walk), why)
        \/ walk' = Push(w, RootHandle, 1, "count")
        \/ \E how : walk' = Unanswered(w, RootHandle, 0, how)
    BY <1>6 DEF VisitRoot
  <2> HIDE DEF w
  <2>3. Shaped(walk, Push(w, RootHandle, 1, "count"))
    BY <2>1, ShapesStay
  <2>4. \A how : Shaped(walk, Unanswered(w, RootHandle, 0, how))
    BY <2>1, ShapesOfSteps
  <2>5. Shaped(walk, walk')
    BY <1>2, <2>2, <2>3, <2>4
  <2> QED BY <2>5 DEF Shaped
<1>7. CASE Visit
  <2> DEFINE rest == Replace(walk, [Top EXCEPT !.page = Tail(@)])
             w    == [rest EXCEPT !.visited = @ + 1]
  <2>1. Shaped(walk, rest)
    BY <1>3
  <2>2. Shaped(walk, w)
    <3> HIDE DEF rest
    <3> QED BY <2>1, ShapesStay
  <2>3. \/ \E why : walk' = Note(rest, why)
        \/ \E how : walk' = Met(w, Head(Top.page), Top.depth, how)
        \/ \E how : walk' = Unanswered(w, Head(Top.page), Top.depth, how)
    BY <1>7 DEF Visit
  <2> HIDE DEF rest, w
  <2>4. \A why : Shaped(walk, Note(rest, why))
    BY <2>1, ShapesStay
  <2>5. \A how, d, h : Shaped(walk, Met(w, h, d, how)) /\ Shaped(walk, Unanswered(w, h, d, how))
    BY <2>2, ShapesOfSteps
  <2>6. Shaped(walk, walk')
    BY <2>3, <2>4, <2>5
  <2> QED BY <2>6 DEF Shaped
<1>8. CASE Cut
  <2> DEFINE u(how) == IF how = "late" THEN Note(Pop(walk), "time") ELSE Pop(walk)
  <2>1. \A how : Shaped(walk, u(how))
    BY <1>2
  <2>2. \/ \E f : walk' = Replace(walk, f)
        \/ \E how, h : walk' = Considered(u(how), h, "ok")
        \/ \E how, h, x : walk' = Collected(u(how), h, x, "ok")
    BY <1>8 DEF Cut
  <2> HIDE DEF u
  <2>3. \A how, h, x : Shaped(walk, Collected(u(how), h, x, "ok"))
    BY <2>1, ShapesStay
  <2>4. \A how, h : Shaped(walk, Considered(u(how), h, "ok"))
    BY <2>1, ShapesOfSteps
  <2>5. Shaped(walk, walk')
    BY <1>3, <2>2, <2>3, <2>4
  <2> QED BY <2>5 DEF Shaped
<1>9. CASE Counts
  <2>1. walk' = Copies \/ (\E how : walk' = Unread(how)) \/ \E f : walk' = Replace(walk, f)
    BY <1>9 DEF Counts
  <2> QED BY <1>3, <1>4, <1>5, <2>1 DEF Shaped
<1>10. CASE Pages
  <2>1. \/ walk' = Copies \/ walk' = Pop(walk) \/ (\E why : walk' = Note(Pop(walk), why))
        \/ (\E how : walk' = Unread(how)) \/ \E f : walk' = Replace(walk, f)
    BY <1>10 DEF Pages
  <2> QED BY <1>2, <1>3, <1>4, <1>5, <2>1 DEF Shaped
<1>11. CASE Copy
  <2>1. (\E how : walk' = Unread(how)) \/ \E f : walk' = Replace(walk, f)
    BY <1>11 DEF Copy
  <2> QED BY <1>3, <1>4, <2>1 DEF Shaped
<1>12. CASE Copied
  BY <1>2, <1>12 DEF Copied, Shaped
<1> QED BY <1>6, <1>7, <1>8, <1>9, <1>10, <1>11, <1>12 DEF WalkStep

-----------------------------------------------------------------------------
(* What holds of every walk.                                               *)

\* The walk and what is in place stand on the tree as it is.
Stands ==
  /\ Forest /\ steady \subseteq Attached
  /\ \A w, S : w = walk /\ S = steady /\ w # None => Goes(w, S)

WaitInv ==
  /\ job.kind = "wait" => walk.shape = [lists |-> job.cond.lists, skeleton |-> FALSE]
  /\ AbsencesAreProven

LEMMA LessGoes == ASSUME NEW w, NEW R, NEW S, S \subseteq R, Goes(w, R) PROVE Goes(w, S)
<1>1. Covers(w, S)
  BY DEF Goes, Covers
<1>2. Once(w, S)
  BY DEF Goes, Once
<1> QED BY <1>1, <1>2 DEF Goes

\* Where the tree is as it was, the walk that is there stands on it.
LEMMA StandsOn ==
  ASSUME Forest, kids' = kids, toolkit' = toolkit, steady' \subseteq Attached,
         \A w, S : w = walk' /\ S = steady' /\ w # None => Goes(w, S)
  PROVE  Stands'
<1>1. Attached' = Attached /\ Forest'
  BY SameTreeSame
<1>2. \A w, S : Goes(w, S)' <=> Goes(w, S)
  BY SameTreeSame DEF Goes, NoCuts
<1> QED BY <1>1, <1>2 DEF Stands

LEMMA StandsStill ==
  ASSUME Stands, UNCHANGED <<kids, toolkit, walk, steady>>
  PROVE  Stands'
BY StandsOn DEF Stands

LEMMA WalkStepStands == ASSUME TypeInv, Stands, WalkStep PROVE Stands'
<1>1. Going /\ kids' = kids /\ toolkit' = toolkit
  BY WalkStepKeeps DEF Going, Stands, SameTree
<1>2. ASSUME NEW v, NEW S, v = walk', S = steady'
      PROVE  S \subseteq steady /\ Goes(v, S)
  BY <1>1, <1>2, VisitRootGoes, VisitGoes, CutGoes, CountsGoes, PagesGoes, CopyGoes, CopiedGoes
  DEF WalkStep
<1>3. steady' \subseteq Attached
  BY <1>2 DEF Stands
<1> QED BY <1>1, <1>2, <1>3, StandsOn DEF Stands

\* A new walk has all before it.
LEMMA NewWalkGoes ==
  ASSUME TypeInv, Forest, NEW shape \in [lists : SUBSET Nodes, skeleton : BOOLEAN]
  PROVE  Goes(NewWalk(shape), Attached)
<1> DEFINE w == NewWalk(shape)
           f == [handle |-> RootHandle, depth |-> 0, at |-> "root", count |-> 0,
                 read |-> 0, page |-> <<>>, more |-> FALSE]
<1>1. /\ w.stack = <<f>> /\ w.nodes = <<>> /\ w.truncated = None /\ w.hidden = 0
      /\ w.shape = shape
  <2>1. /\ w.stack = Append(<<>>, f) /\ w.nodes = <<>> /\ w.truncated = None /\ w.hidden = 0
        /\ w.shape = shape
    BY DEF NewWalk, Push
  <2>2. Append(<<>>, f) = <<f>>
    OBVIOUS
  <2> QED BY <2>1, <2>2
<1>2. DOMAIN w.stack = {1} /\ w.stack[1] = f /\ DOMAIN w.nodes = {}
  BY <1>1
<1>3. f.at = "root" /\ f.page = <<>>
  OBVIOUS
<1> HIDE DEF w, f
<1>4. ASSUME NEW n \in Attached PROVE Whole(n, f)
  BY <1>3, TreeAssumption DEF Whole, Under, Attached
<1>5. \A n, k, i : ~InSlot(n, f, k) /\ ~Holds(n, f, i)
  BY <1>3, EmptyPages DEF Holds
<1>6. \A n \in Attached : Comes(n, f) /\ OnceIn(n, f)
  BY <1>4, <1>5 DEF Comes, OnceIn
<1>7. Covers(w, Attached)
  BY <1>2, <1>6 DEF Covers
<1>8. Once(w, Attached)
  BY <1>2, <1>6 DEF Once
<1>9. NoCuts(w)
  BY <1>1, <1>2, <1>3 DEF NoCuts
<1> QED BY <1>7, <1>8, <1>9 DEF Goes, w

LEMMA WalksStartStanding ==
  ASSUME TypeInv, Stands, NEW shape \in [lists : SUBSET Nodes, skeleton : BOOLEAN],
         StartsWalk(shape)
  PROVE  Stands' /\ walk'.shape = shape
<1>1. walk' = NewWalk(shape) /\ steady' = Attached /\ kids' = kids /\ toolkit' = toolkit
  BY DEF StartsWalk
<1>2. Goes(NewWalk(shape), Attached)
  BY NewWalkGoes DEF Stands
<1>3. NewWalk(shape).shape = shape
  BY DEF NewWalk, Push
<1> QED BY <1>1, <1>2, <1>3, StandsOn DEF Stands

\* A change of a list takes nodes out of the tree, or moves them in a list the walk has in
\* hand: of all others it has still to read what it had.
LEMMA RelistingStands ==
  ASSUME TypeInv, Stands, NEW p \in Attached, Removes(p) \/ Inserts(p) \/ Sorts(p),
         Displaces(p), walk' = walk
  PROVE  Stands' /\ steady' \subseteq steady
<1>1. p \in Nodes /\ TreeOK /\ Forest /\ steady \subseteq Attached /\ Attached \subseteq Nodes
  BY AttachedIsClosed DEF TypeInv, Stands
<1>2. PICK list, new : Relisted(p, list, new)
  BY <1>1, RemovingRelists, InsertingRelists, SortingRelists
<1>3. toolkit' = toolkit
  BY RearrangingKeeps
<1>4. kids'[p] = list /\ Kids(p)' = ToSet(list)
  <2>1. kids'[p] = list
    BY <1>1, <1>2 DEF Relisted, TreeOK
  <2> QED BY <2>1 DEF Kids
<1> DEFINE out == LeftOut(p, list)
           moved == {n \in Kids(p) : \E i \in DOMAIN kids[p] :
                       kids[p][i] = n /\ ~(i \in DOMAIN list /\ list[i] = n)}
<1>5. steady' = steady \ WithAllBelow(IF p \in InHand THEN moved ELSE out)
  BY <1>4 DEF Displaces, WithAllBelow, LeftOut
<1>6. out \subseteq moved
  BY <1>1 DEF LeftOut, Kids, ToSet
<1>7. ASSUME NEW n \in steady' PROVE Staying(n, p, list, new)
  <2>1. n \in Attached /\ n \notin WithAllBelow(out)
    BY <1>1, <1>5, <1>6 DEF WithAllBelow
  <2> QED BY <1>1, <1>2, <1>3, <2>1, SteadyStays
<1>8. ASSUME NEW n \in steady', p \in InHand PROVE Unmoved(n, p, list)
  <2> SUFFICES ASSUME NEW i \in DOMAIN kids[p], Under(n, kids[p][i])
               PROVE  i \in DOMAIN list /\ list[i] = kids[p][i]
    BY DEF Unmoved
  <2>1. kids[p][i] \in Kids(p) /\ n \notin WithAllBelow(moved)
    BY <1>1, <1>5, <1>8, ChildrenAreNodes
  <2>2. kids[p][i] \notin moved
    BY <2>1 DEF WithAllBelow, Under
  <2> QED BY <2>1, <2>2
<1>9. Forest' /\ steady' \subseteq Attached' /\ steady' \subseteq steady
  BY <1>1, <1>2, <1>5, <1>7, RelistedTree DEF Staying
<1>10. ASSUME NEW w, NEW S, w = walk, S = steady', w # None
       PROVE  Goes(w, S)'
  <2>1. Goes(w, steady)
    BY <1>10 DEF Stands
  <2>2. Goes(w, S)
    BY <1>9, <1>10, <2>1, LessGoes
  <2>3. w \in Walk /\ S \in SUBSET Nodes /\ \A n \in S : Staying(n, p, list, new)
    BY <1>7, <1>10 DEF TypeInv, WalkOK, Staying
  <2>4. ASSUME NEW n \in S, NEW j \in DOMAIN w.stack PROVE Settled(n, w.stack[j], p, list)
    <3> DEFINE f == w.stack[j]
    <3>1. f \in Frame
      BY <2>3 DEF Walk
    <3>2. f.at = "count" => f.read = 0
      BY <3>1 DEF Frame
    <3>3. f = walk.stack[j] /\ j \in DOMAIN walk.stack /\ walk # None
      BY <1>10
    <3>4. p \in InHand => Unmoved(n, p, list)
      BY <1>8, <1>10, <2>4
    <3> HIDE DEF f
    <3>5. Settled(n, f, p, list)
      BY <3>2, <3>3, <3>4, FramesAreInHand DEF Settled
    <3> QED BY <3>5 DEF f
  <2>5. Covers(w, S)' /\ Once(w, S)'
    BY <1>1, <1>2, <2>2, <2>3, <2>4, StaysWhole DEF Goes
  <2> QED BY <2>2, <2>5 DEF Goes, NoCuts
<1> QED BY <1>9, <1>10 DEF Stands

\* ---- a verb's steps read no walk ----------------------------------------------------

VerbLike(j) == "kind" \in DOMAIN j /\ j.kind = "verb"

Apart == UNCHANGED <<kids, toolkit, walk, steady>>

LEMMA AsksStayApart ==
  ASSUME NEW n, NEW how, NEW j, VerbLike(j), Asks(n, how) \/ App, VerbStep(j)
  PROVE  Apart /\ VerbLike(job')
BY DEF Asks, App, app_vars, VerbStep, NoWalk, walk_vars, Apart

LEMMA AnswersAreVerbs ==
  ASSUME VerbLike(job)
  PROVE  /\ \A code : VerbLike(Answered(code)) /\ VerbLike([Answered(code) EXCEPT !.sent = TRUE])
         /\ \A code, effect : VerbLike([Answered(code) EXCEPT !.effect = effect])
         /\ \A code, effect, was :
              VerbLike([Answered(code) EXCEPT !.effect = effect, !.was = was])
         /\ \A at : VerbLike([job EXCEPT !.at = at])
         /\ VerbLike(Unreadable)
<1>1. \A code : VerbLike(Answered(code))
  BY DEF VerbLike, Answered
<1>2. \A at : VerbLike([job EXCEPT !.at = at])
  BY DEF VerbLike
<1>3. VerbLike([job EXCEPT !.at = "look", !.tries = @ + 1])
  BY DEF VerbLike
<1>4. VerbLike(Unreadable)
  BY <1>1, <1>3 DEF Unreadable
<1>5. ASSUME NEW code
      PROVE  /\ VerbLike([Answered(code) EXCEPT !.sent = TRUE])
             /\ \A effect : VerbLike([Answered(code) EXCEPT !.effect = effect])
             /\ \A effect, was : VerbLike([Answered(code) EXCEPT !.effect = effect, !.was = was])
  <2> DEFINE a == Answered(code)
  <2>1. VerbLike(a)
    BY <1>1
  <2> HIDE DEF a
  <2>2. /\ VerbLike([a EXCEPT !.sent = TRUE])
        /\ \A effect : VerbLike([a EXCEPT !.effect = effect])
        /\ \A effect, was : VerbLike([a EXCEPT !.effect = effect, !.was = was])
    BY <2>1 DEF VerbLike
  <2> QED BY <2>2 DEF a
<1> QED BY <1>1, <1>2, <1>4, <1>5

LEMMA BarredStaysApart == VerbLike(job) /\ Barred => Apart /\ VerbLike(job')
BY AnswersAreVerbs DEF Barred, VerbStep, App, app_vars, NoWalk, walk_vars, Apart

LEMMA LooksStayApart ==
  ASSUME VerbLike(job), LookAtPlace \/ Candidates \/ Reread PROVE Apart /\ VerbLike(job')
<1>1. CASE LookAtPlace
  <2> DEFINE j == [job EXCEPT !.at = "candidates", !.placed = AtPath(job.ref.handle.path),
                         !.arranged = arranged, !.changes = changes]
  <2>1. VerbLike(j)
    BY DEF VerbLike
  <2>2. (VerbStep(j) /\ App) \/ (Asks(Root, "late") /\ VerbStep(Unreadable))
    BY <1>1 DEF LookAtPlace
  <2> HIDE DEF j
  <2> QED BY <2>1, <2>2, AnswersAreVerbs, AsksStayApart
<1>2. CASE Candidates
  <2> DEFINE j == IF Verdict \in {"one", "placed"} THEN [job EXCEPT !.at = Verdict]
                  ELSE Answered(Verdict)
  <2>1. VerbLike(j)
    BY AnswersAreVerbs
  <2>2. (VerbStep(j) /\ App) \/ \E n : Asks(n, "late") /\ VerbStep(Unreadable)
    BY <1>2 DEF Candidates
  <2> HIDE DEF j
  <2> QED BY <2>1, <2>2, AnswersAreVerbs, AsksStayApart
<1>3. CASE Reread
  <2>1. \E n, how, at :
          Asks(n, how) /\ (VerbStep([job EXCEPT !.at = at]) \/ VerbStep(Answered("stale_element")))
    BY <1>3 DEF Reread, Route
  <2> QED BY <2>1, AnswersAreVerbs, AsksStayApart
<1> QED BY <1>1, <1>2, <1>3

LEMMA TogglesStayApart ==
  ASSUME VerbLike(job), FindContainer \/ StateBefore \/ ReadIndex \/ Send \/ Judge
  PROVE  Apart /\ VerbLike(job')
<1>0. CASE FindContainer
  <2>1. \/ App /\ (\/ VerbStep([job EXCEPT !.at = "state"])
                  \/ VerbStep(Answered("ax_action_unsupported")))
        \/ \E n, how : Asks(n, how) /\ VerbStep(Answered("ax_action_unsupported"))
    BY <1>0 DEF FindContainer
  <2> QED BY <2>1, AnswersAreVerbs, AsksStayApart
<1>1. CASE StateBefore
  <2> DEFINE n == Designated(job.ref.handle)
             j(how) == IF how # "ok" THEN Answered("state_unreadable")
                       ELSE IF Already(n \in on)
                            THEN [Answered("ok") EXCEPT !.effect = "not_observed", !.was = n \in on]
                       ELSE [job EXCEPT !.at = IF Selects THEN "index" ELSE "send",
                                        !.was = n \in on]
  <2>1. PICK how : Asks(n, how) /\ VerbStep(j(how))
    BY <1>1 DEF StateBefore
  <2>2. \A at, was : VerbLike([job EXCEPT !.at = at, !.was = was])
    BY DEF VerbLike
  <2>3. VerbLike(j(how))
    BY <2>2, AnswersAreVerbs
  <2> HIDE DEF j
  <2> QED BY <2>1, <2>3, AsksStayApart
<1>2. CASE ReadIndex
  <2>1. \/ Barred
        \/ \E i : App /\ VerbStep([job EXCEPT !.at = "send", !.index = i])
        \/ App /\ VerbStep(Answered("ax_action_failed"))
        \/ \E n, how : Asks(n, how) /\ VerbStep(Answered("state_unreadable"))
    BY <1>2 DEF ReadIndex
  <2>2. \A i : VerbLike([job EXCEPT !.at = "send", !.index = i])
    BY DEF VerbLike
  <2> QED BY <2>1, <2>2, AnswersAreVerbs, AsksStayApart, BarredStaysApart
<1>3. CASE Send
  <2>1. \/ Barred
        \/ /\ UNCHANGED <<toolkit, kids, steady>>
           /\ \/ VerbStep([job EXCEPT !.at = "judge", !.sent = TRUE])
              \/ VerbStep([Answered("sent_unknown") EXCEPT !.sent = TRUE])
              \/ VerbStep(Answered("ax_action_failed"))
    BY <1>3 DEF Send
  <2>2. VerbLike([job EXCEPT !.at = "judge", !.sent = TRUE])
    BY DEF VerbLike
  <2> QED BY <2>1, <2>2, AnswersAreVerbs, BarredStaysApart
          DEF VerbStep, NoWalk, walk_vars, Apart
<1>4. CASE Judge
  <2>1. PICK n, how, j : Asks(n, how) /\ VerbStep(j)
          /\ \/ j = [job EXCEPT !.polls = @ + 1]
             \/ \E effect : j = [Answered("ok") EXCEPT !.effect = effect]
    BY <1>4 DEF Judge
  <2>2. VerbLike([job EXCEPT !.polls = @ + 1])
    BY DEF VerbLike
  <2> QED BY <2>1, <2>2, AnswersAreVerbs, AsksStayApart
<1> QED BY <1>0, <1>1, <1>2, <1>3, <1>4

LEMMA TypingStaysApart ==
  ASSUME VerbLike(job), ReadSelection \/ DeleteSelection \/ InsertText
  PROVE  Apart /\ VerbLike(job')
<1>1. CASE ReadSelection
  <2>1. \/ Barred
        \/ \E how, at : Asks(Field, how)
             /\ (VerbStep(Answered("state_unreadable")) \/ VerbStep([job EXCEPT !.at = at]))
    BY <1>1 DEF ReadSelection
  <2> QED BY <2>1, AnswersAreVerbs, AsksStayApart, BarredStaysApart
<1>2. ASSUME NEW done, NEW failed, VerbLike(done), VerbLike(failed), Write(done, failed)
      PROVE  Apart /\ VerbLike(job')
  <2>1. \E how : Asks(Field, how)
          /\ \/ VerbStep(done) \/ VerbStep(failed)
             \/ VerbStep([Answered("sent_unknown") EXCEPT !.sent = TRUE])
    BY <1>2 DEF Write
  <2> QED BY <1>2, <2>1, AnswersAreVerbs, AsksStayApart
<1>3. CASE DeleteSelection
  <2>1. VerbLike([job EXCEPT !.at = "insert", !.was = TRUE])
    BY DEF VerbLike
  <2> QED BY <1>2, <1>3, <2>1, AnswersAreVerbs DEF DeleteSelection
<1>4. CASE InsertText
  <2>1. VerbLike(InsertFailed)
    BY AnswersAreVerbs DEF InsertFailed
  <2> QED BY <1>2, <1>4, <2>1, AnswersAreVerbs DEF InsertText
<1> QED BY <1>1, <1>3, <1>4

LEMMA VerbsStayApart ==
  ASSUME IInv,
         \/ LookAtPlace \/ Candidates \/ Reread \/ FindContainer \/ StateBefore \/ ReadIndex
         \/ Send \/ Judge \/ ReadSelection \/ DeleteSelection \/ InsertText
  PROVE  Apart /\ job'.kind = "verb"
<1>1. job.kind = "verb"
  BY DEF LookAtPlace, Candidates, Reread, FindContainer, StateBefore, ReadIndex, Send, Judge,
         ReadSelection, DeleteSelection, InsertText, At
<1>2. VerbLike(job)
  BY <1>1, KindsOfJobs DEF IInv, VerbJob, VerbLike
<1> QED BY <1>2, LooksStayApart, TogglesStayApart, TypingStaysApart DEF VerbLike

-----------------------------------------------------------------------------
(* Every walk is whole.                                                    *)

WholeInv == IInv /\ Stands /\ WaitInv

\* What has been looked for in vain was not there.
LEMMA MetIsProven ==
  ASSUME IInv, Stands, WaitInv, LookEnds, Seen(job.cond, walk) = "holds", ~job.cond.appears
  PROVE  steady \cap job.cond.lists \cap Inside = {}
<1>1. /\ job.kind = "wait" /\ walk # None /\ walk.stack = <<>>
      /\ walk.shape = [lists |-> job.cond.lists, skeleton |-> FALSE]
  BY DEF LookEnds, At, Finished, WaitInv
<1>2. walk.nodes = <<>> /\ walk.truncated = None
  BY DEF Seen
<1>3. Goes(walk, steady)
  BY <1>1 DEF Stands
<1>4. walk \in Walk /\ walk.hidden = 0
  BY <1>1, <1>3 DEF IInv, TypeInv, WalkOK, Goes, NoCuts
<1>5. DOMAIN walk.nodes = {} /\ DOMAIN walk.stack = {}
  BY <1>1, <1>2
<1>6. ~Told(walk)
  BY <1>2, <1>4, <1>5 DEF Told
<1>7. walk.shape.lists = job.cond.lists
  BY <1>1
<1> QED BY <1>3, <1>5, <1>6, <1>7 DEF Goes, Covers

LEMMA ListingsStand ==
  ASSUME WholeInv, TakeElements \/ TakeWait \/ ListElements \/ Walks PROVE (Stands /\ WaitInv)'
<1>1. TypeInv /\ Stands /\ WaitInv
  BY DEF WholeInv, IInv
<1>2. CASE TakeElements
  <2>1. PICK shape \in Shapes : StartsWalk(shape) /\ job'.kind = "elements"
    BY <1>2 DEF TakeElements, Takes
  <2>2. Stands'
    BY <1>1, <2>1, SemanticAssumption, WalksStartStanding
  <2> QED BY <2>1, <2>2 DEF WaitInv, AbsencesAreProven, At
<1>3. CASE TakeWait
  <2>0. PICK c \in Conditions :
          /\ StartsWalk([lists |-> c.lists, skeleton |-> FALSE])
          /\ job' = [kind |-> "wait", at |-> "walk", code |-> None, cond |-> c, looks |-> 1,
                     truncated |-> None]
    BY <1>3 DEF TakeWait, Takes
  <2>1. /\ StartsWalk([lists |-> c.lists, skeleton |-> FALSE])
        /\ job'.kind = "wait" /\ job'.cond = c /\ job'.at = "walk"
    BY <2>0
  <2>2. [lists |-> c.lists, skeleton |-> FALSE] \in [lists : SUBSET Nodes, skeleton : BOOLEAN]
    BY SemanticAssumption
  <2>3. Stands' /\ walk'.shape = [lists |-> c.lists, skeleton |-> FALSE]
    BY <1>1, <2>1, <2>2, WalksStartStanding
  <2> QED BY <2>1, <2>3 DEF WaitInv, AbsencesAreProven, At
<1>4. CASE ListElements
  <2>1. job \in ElementsJob
    BY <1>4, KindsOfJobs DEF ListElements, At, WholeInv, IInv
  <2>2. job'.kind = "elements" /\ UNCHANGED <<kids, toolkit, walk, steady>>
    BY <1>4, <2>1 DEF ListElements, Answered, ElementsJob, App, app_vars, NoWalk, walk_vars
  <2> QED BY <1>1, <2>2, StandsStill DEF WaitInv, AbsencesAreProven, At
<1>5. CASE Walks
  <2>1. WalkStep /\ job' = job /\ job.at = "walk"
    BY <1>5 DEF Walks, semantic_vars
  <2> QED BY <1>1, <2>1, WalkStepStands, ShapeKept DEF WaitInv, AbsencesAreProven, At
<1> QED BY <1>2, <1>3, <1>4, <1>5

LEMMA LookEndsStands == ASSUME WholeInv, LookEnds PROVE (Stands /\ WaitInv)'
<1>1. UNCHANGED <<kids, toolkit, walk, steady>>
  BY DEF LookEnds, App, app_vars, NoWalk, walk_vars
<1>2. job \in WaitJob /\ WaitInv /\ job.kind = "wait"
  BY KindsOfJobs DEF LookEnds, At, WholeInv, IInv
<1>3. /\ job'.kind = "wait" /\ job'.cond = job.cond
      /\ job'.at = "answered" /\ job'.code = "met" => Seen(job.cond, walk) = "holds"
  <2> DEFINE j == [job EXCEPT !.truncated =
                     IF Seen(job.cond, walk) = "unproven" THEN walk.truncated ELSE None]
  <2>1. \/ Seen(job.cond, walk) = "holds" /\ job' = Answered("met")
        \/ job' = [j EXCEPT !.at = "answered", !.code = "not_met"]
        \/ job' = [j EXCEPT !.at = "sleep"]
    BY DEF LookEnds
  <2>2. j.kind = "wait" /\ j.cond = job.cond /\ {"kind", "cond", "code", "at"} \subseteq DOMAIN j
    BY <1>2 DEF WaitJob
  <2> HIDE DEF j
  <2>3. Answered("met").kind = "wait" /\ Answered("met").cond = job.cond
    BY <1>2 DEF Answered, WaitJob
  <2> QED BY <2>1, <2>2, <2>3
<1>4. WaitInv'
  <2>1. job'.kind = "wait" => walk'.shape = [lists |-> job'.cond.lists, skeleton |-> FALSE]
    BY <1>1, <1>2, <1>3 DEF WaitInv
  <2>2. AbsencesAreProven'
    <3> SUFFICES ASSUME At("wait", "answered")', job'.code = "met", ~job'.cond.appears
                 PROVE  steady \cap job.cond.lists \cap Inside = {}
      BY <1>1, <1>3 DEF AbsencesAreProven, Inside
    <3> QED BY <1>3, MetIsProven DEF At, WholeInv
  <2> QED BY <2>1, <2>2 DEF WaitInv
<1> QED BY <1>1, <1>4, StandsStill DEF WholeInv

LEMMA SleepEndsStands == ASSUME WholeInv, SleepEnds PROVE (Stands /\ WaitInv)'
<1>1. job \in WaitJob /\ WalkOK(walk) /\ WaitInv /\ Stands /\ TypeInv
      /\ walk.shape = [lists |-> job.cond.lists, skeleton |-> FALSE]
  BY KindsOfJobs DEF SleepEnds, At, WholeInv, IInv, WaitInv
<1>2. CASE paused
  <2>1. UNCHANGED <<kids, toolkit, walk, steady>> /\ job' = Answered("cancelled")
    BY <1>2 DEF SleepEnds, App, app_vars, NoWalk, walk_vars
  <2>2. job'.cond = job.cond /\ job'.code = "cancelled"
    BY <1>1, <2>1 DEF Answered, WaitJob
  <2> QED BY <1>1, <2>1, <2>2, StandsStill DEF WaitInv, AbsencesAreProven
<1>3. CASE ~paused
  <2> DEFINE n == job.looks + 1
  <2>1. StartsWalk(walk.shape) /\ job' = [job EXCEPT !.at = "walk", !.looks = n]
    BY <1>3 DEF SleepEnds
  <2> HIDE DEF n
  <2>2. job'.cond = job.cond /\ job'.at = "walk"
    BY <1>1, <2>1 DEF WaitJob
  <2>3. walk.shape \in [lists : SUBSET Nodes, skeleton : BOOLEAN]
    BY <1>1 DEF WalkOK, Walk
  <2>4. Stands' /\ walk'.shape = walk.shape
    BY <1>1, <2>1, <2>3, WalksStartStanding
  <2> QED BY <1>1, <2>2, <2>4 DEF WaitInv, AbsencesAreProven, At
<1> QED BY <1>2, <1>3

\* A step that leaves the request, and the walk it has, as they are.
LEMMA SameJobSameWait ==
  ASSUME WaitInv, UNCHANGED <<job, walk>>, steady' \subseteq steady PROVE WaitInv'
BY DEF WaitInv, AbsencesAreProven, At, Inside

LEMMA OthersStand ==
  ASSUME WholeInv, TakeVerb \/ Reply \/ PauseComes \/ Outside \/ Deadline \/ UNCHANGED vars
  PROVE  (Stands /\ WaitInv)'
<1>1. TypeInv /\ Stands /\ WaitInv
  BY DEF WholeInv, IInv
<1>2. CASE TakeVerb
  <2>1. job'.kind = "verb" /\ UNCHANGED <<kids, toolkit, walk, steady>>
    BY <1>2 DEF TakeVerb, Takes, App, app_vars, NoWalk, walk_vars
  <2> QED BY <1>1, <2>1, StandsStill DEF WaitInv, AbsencesAreProven, At
<1>3. CASE Reply
  <2>1. job'.kind = "none" /\ walk' = None /\ steady' = {} /\ UNCHANGED <<kids, toolkit>>
    BY <1>3 DEF Reply, NoJob
  <2>2. Stands'
    BY <1>1, <2>1, StandsOn DEF Stands
  <2> QED BY <2>1, <2>2 DEF WaitInv, AbsencesAreProven, At
<1>4. CASE PauseComes \/ Deadline \/ UNCHANGED vars
  <2>1. UNCHANGED <<kids, toolkit, walk, steady, job>>
    BY <1>4 DEF PauseComes, Deadline, DeadlinePasses, vars, app_vars, walk_vars, semantic_vars
  <2> QED BY <1>1, <2>1, StandsStill, SameJobSameWait
<1>5. CASE Outside
  <2>1. UNCHANGED <<walk, job>>
    BY <1>5 DEF Outside, walk_vars, semantic_vars
  <2>2. CASE ListChanges
    <3>1. Stands' /\ steady' \subseteq steady
      BY <1>1, <2>1, <2>2, RelistingStands DEF ListChanges
    <3> QED BY <1>1, <2>1, <3>1, SameJobSameWait
  <2>3. CASE Flips
    BY <1>1, <2>1, <2>3, StandsStill, SameJobSameWait DEF Flips
  <2> QED BY <1>5, <2>2, <2>3 DEF Outside
<1> QED BY <1>2, <1>3, <1>4, <1>5

LEMMA WholeStarts == SemanticInit => WholeInv
<1> SUFFICES ASSUME SemanticInit PROVE WholeInv
  OBVIOUS
<1>1. Forest /\ steady = {} /\ walk = None /\ job.kind = "none"
  BY TreeAssumption DEF SemanticInit, AppInit, WalkInit, Forest, NoJob
<1> QED BY <1>1, Starts DEF WholeInv, Stands, WaitInv, AbsencesAreProven, At

LEMMA WholeSteps == WholeInv /\ [SemanticNext]_vars => WholeInv'
<1> SUFFICES ASSUME WholeInv, [SemanticNext]_vars PROVE WholeInv'
  OBVIOUS
<1>1. IInv' /\ IInv /\ Stands
  BY Steps DEF WholeInv
<1>2. ASSUME Apart, job'.kind = "verb" PROVE (Stands /\ WaitInv)'
  BY <1>1, <1>2, StandsStill DEF Apart, WaitInv, AbsencesAreProven, At
<1>3. (Stands /\ WaitInv)'
  BY <1>1, <1>2, VerbsStayApart, ListingsStand, LookEndsStands, SleepEndsStands, OthersStand
  DEF SemanticNext, Idle
<1> QED BY <1>1, <1>3 DEF WholeInv

\* A finished walk has nothing to come to, and tells all else.
LEMMA WholeImplies == WholeInv => WalksMissNothingUntold
<1> SUFFICES ASSUME WholeInv, walk # None PROVE WalksMissNothingUntold
  BY DEF WalksMissNothingUntold, Finished
<1>1. Goes(walk, steady) /\ walk \in Walk
  BY DEF WholeInv, Stands, IInv, TypeInv, WalkOK
<1>2. ASSUME walk.stack = <<>>, walk.truncated = None, walk.hidden = 0,
             NEW n \in steady \cap walk.shape.lists \cap Inside
      PROVE  n \in Listed(walk) \cup Behind(walk)
  <2>1. DOMAIN walk.stack = {} /\ ~Told(walk)
    BY <1>2 DEF Told
  <2>2. PICK i \in DOMAIN walk.nodes : Shows(n, walk.nodes[i])
    BY <1>1, <1>2, <2>1 DEF Goes, Covers
  <2>3. walk.nodes[i] \in ToSet(walk.nodes)
    BY DEF ToSet
  <2> QED BY <2>2, <2>3 DEF Shows, Listed, Behind
<1>3. ASSUME NEW i \in DOMAIN walk.nodes, NEW j \in DOMAIN walk.nodes, i # j,
             walk.nodes[i].shown \in steady
      PROVE  walk.nodes[i].shown # walk.nodes[j].shown
  BY <1>1, <1>3 DEF Goes, Once
<1> QED BY <1>2, <1>3 DEF WalksMissNothingUntold, Finished

THEOREM WholeInvariance == SemanticSpec => []WholeInv
BY WholeStarts, WholeSteps, PTL DEF SemanticSpec

(***************************************************************************)
(* A walk that does not say it was cut short listed, once, every node it   *)
(* was asked for that was in the tree, and refused nothing, for as long as *)
(* it read: tree.rs pages, copies and skips among lists that change        *)
(* between two of its messages, and says so wherever it left something     *)
(* out.  But for a node that moved to another place of a list, or is below *)
(* one that did, while the walk was part way through that list: such a one *)
(* it may miss without a word.                                             *)
(***************************************************************************)
THEOREM WalksAreWhole == SemanticSpec => []WalksMissNothingUntold
BY WholeInvariance, WholeImplies, PTL

(***************************************************************************)
(* A wait for something to disappear is met only when nothing matching was *)
(* in the tree, refusing nothing, throughout its last look: semantic.rs    *)
(* takes an empty listing for an absence only from a look that was not cut *)
(* short.  But for a node that moved in a list the look was part way       *)
(* through, which may be shown throughout and missed.                      *)
(***************************************************************************)
THEOREM AbsencesAreReal == SemanticSpec => []AbsencesAreProven
<1>1. WholeInv => AbsencesAreProven
  BY DEF WholeInv, WaitInv
<1> QED BY <1>1, WholeInvariance, PTL
=============================================================================
