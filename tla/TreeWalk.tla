------------------------------ MODULE TreeWalk ------------------------------
(***************************************************************************)
(* One walk of an application's tree (tree.rs): depth first, each parent's *)
(* children counted and read in pages, or in one copy where it will not    *)
(* count or page them, under bounds of nodes, visits, depth, children and  *)
(* time.  Every message is a step, and the tree may change between two.  A *)
(* frame of the stack is one parent whose children are being read.         *)
(***************************************************************************)
EXTENDS AppTree

CONSTANTS
  Placed,  \* the nodes that say where they are
  MaxNodes, MaxVisited, MaxDepth, MaxChildren, ChildPage, SkeletonDepth

ASSUME WalkAssumption ==
  /\ Placed \subseteq Nodes
  /\ {MaxNodes, MaxVisited, MaxDepth, MaxChildren, ChildPage, SkeletonDepth} \subseteq Nat
  /\ MaxChildren > 0 /\ ChildPage > 0
  /\ None \notin {"time", "nodes", "depth"}

VARIABLES
  walk,    \* the Walker, or None
  overdue  \* its deadline has passed

walk_vars == <<walk, overdue>>

WalkInit == walk = None /\ overdue = FALSE

\* ---- the bounds -------------------------------------------------------------------

\* note: the first reason a walk met, except that time wins.
Note(w, why) ==
  IF why = "time" \/ w.truncated = None THEN [w EXCEPT !.truncated = why] ELSE w

\* stop: why a visit at this depth is not made; time is checked first.
Stopped(w, depth) ==
  IF overdue THEN "time"
  ELSE IF Len(w.nodes) >= MaxNodes \/ w.visited >= MaxVisited THEN "nodes"
  ELSE IF depth > MaxDepth THEN "depth" ELSE None

\* ---- the stack ---------------------------------------------------------------------

Top == Last(walk.stack)
Pop(w) == [w EXCEPT !.stack = Front(@)]
Replace(w, frame) == [w EXCEPT !.stack = Append(Front(@), frame)]
Push(w, h, depth, at) ==
  [w EXCEPT !.stack = Append(@, [handle |-> h, depth |-> depth, at |-> at, count |-> 0,
                                 read |-> 0, page |-> <<>>, more |-> FALSE])]

Walking(at) == walk # None /\ walk.stack # <<>> /\ Top.page = <<>> /\ Top.at = at

Finished == walk # None /\ walk.stack = <<>>

NewWalk(shape) ==
  Push([shape |-> shape, stack |-> <<>>, visited |-> 0, truncated |-> None,
        nodes |-> <<>>, hidden |-> 0], RootHandle, 0, "root")

StartsWalk(shape) ==
  /\ walk' = NewWalk(shape) /\ overdue' = FALSE
  /\ stayed' = Attached /\ steady' = Attached
  /\ UNCHANGED <<toolkit, kids, on, changes, troubles, arranged>>

\* A message of the walk, and the nodes a refusal of it hides.
Reads(h, how, hides) ==
  /\ Answers(Designated(h), how)
  /\ stayed' = IF how = "refused" THEN stayed \ hides ELSE stayed
  /\ steady' = IF how = "refused" THEN steady \ hides ELSE steady
  /\ UNCHANGED <<toolkit, kids, on, changes, arranged, overdue>>

Silent == UNCHANGED <<app_vars, overdue>>

\* ---- one node ------------------------------------------------------------------------

\* Slip: a slow node is passed over like one that is gone.
Unanswered_LateIsGone(w, h, depth, how) ==
  IF how = "refused" THEN Push(w, h, depth + 1, "count") ELSE w

\* unanswered: a node that is gone takes its subtree along, the others are read through.
Unanswered(w, h, depth, how) ==
  IF how = "gone" THEN w
  ELSE Push(IF how = "late" THEN Note(w, "time") ELSE w, h, depth + 1, "count")

\* collect: a node that says where it is gets listed, and its states read.
Collected(w, h, hidden, how) ==
  LET n == Designated(h)
      listed == [w EXCEPT !.nodes = Append(@, [handle |-> h, shown |-> n, hidden |-> hidden])]
  IN  IF n \notin Placed THEN [w EXCEPT !.hidden = @ + hidden]
      ELSE IF how = "mute" THEN Note(listed, "time") ELSE listed

\* consider: the walk's shape decides what is listed.
Considered(w, h, how) ==
  IF Designated(h) \in w.shape.lists THEN Collected(w, h, 0, how) ELSE w

\* visit: a node that answered its facts.
Met(w, h, depth, how) ==
  IF w.shape.skeleton /\ depth = SkeletonDepth THEN Push(w, h, depth, "cut")
  ELSE Push(Considered(w, h, how), h, depth + 1, "count")

VisitRoot ==
  /\ Walking("root")
  /\ LET why == Stopped(walk, 0)
         w   == [Pop(walk) EXCEPT !.visited = @ + 1]
     IN  IF why # None THEN walk' = Note(Pop(walk), why) /\ Silent
         ELSE \E how \in {"ok", "gone", "late", "refused"} :
                /\ Reads(RootHandle, how, {Root})
                /\ walk' = IF how = "ok" THEN Push(w, RootHandle, 1, "count")
                           ELSE Unanswered(w, RootHandle, 0, how)

Visit ==
  /\ walk # None /\ walk.stack # <<>> /\ Top.page # <<>>
  /\ LET h    == Head(Top.page)
         rest == Replace(walk, [Top EXCEPT !.page = Tail(@)])
         w    == [rest EXCEPT !.visited = @ + 1]
         why  == Stopped(walk, Top.depth)
     IN  IF why # None THEN walk' = Note(rest, why) /\ Silent
         ELSE \E how \in {"ok", "mute", "gone", "late", "refused"} :
                /\ how = "mute" => Designated(h) \in walk.shape.lists \cap Placed
                /\ Reads(h, how, {Designated(h)})
                /\ walk' = IF how \in {"ok", "mute"} THEN Met(w, h, Top.depth, how)
                           ELSE Unanswered(w, h, Top.depth, how)

\* cut, hidden_below: a skeleton counts what a cut hides, or copies the list to count it.
Cut ==
  /\ Walking("cut") \/ Walking("cut_copy")
  /\ \E how \in {"ok", "gone", "late", "refused"} :
       LET h       == Top.handle
           hidden  == IF how = "ok" THEN Min({Len(kids[Designated(h)]), MaxChildren}) ELSE 0
           w       == IF how = "late" THEN Note(Pop(walk), "time") ELSE Pop(walk)
           copies  == how = "refused" /\ Top.at = "cut"
       IN  /\ Reads(h, how, IF copies THEN {} ELSE Below(Designated(h)))
           /\ walk' = IF copies THEN Replace(walk, [Top EXCEPT !.at = "cut_copy"])
                      ELSE IF hidden = 0 THEN Considered(w, h, "ok")
                      ELSE Collected(w, h, hidden, "ok")

\* ---- one parent's children -------------------------------------------------------------

\* A page, a count or a copy that fails leaves the rest of the list unread.
Unread(how) == IF how = "late" THEN Note(Pop(walk), "time") ELSE Pop(walk)

Copies == Replace(walk, [Top EXCEPT !.at = "copy"])

\* children: by count, or in one copy when it will not count them.
Counts ==
  /\ Walking("count")
  /\ \E how \in {"ok", "gone", "late", "refused"} :
       /\ Reads(Top.handle, how, {})
       /\ walk' = CASE how = "ok" ->
                        Replace(walk, [Top EXCEPT !.at = "pages",
                                         !.count = Len(kids[Designated(Top.handle)])])
                    [] how = "refused" -> Copies
                    [] OTHER -> Unread(how)

\* pages: a page at a time, each visited before the next is read.
Pages ==
  /\ Walking("pages")
  /\ LET f      == Top
         wanted == Min({f.count, MaxChildren})
         asked  == Min({ChildPage, wanted - f.read, Len(kids[Designated(f.handle)]) - f.read})
         page   == HandlesOf(f.handle, f.read + 1, f.read + asked)
         why    == IF f.read >= wanted THEN None ELSE Stopped(walk, f.depth)
         short  == f.read >= wanted /\ f.count > wanted
     IN  IF f.read >= wanted \/ why # None
         THEN /\ walk' = IF why # None THEN Note(Pop(walk), why)
                         ELSE IF short THEN Note(Pop(walk), "nodes") ELSE Pop(walk)
              /\ Silent
         ELSE \E how \in {"ok", "gone", "late", "refused"} :
                /\ Reads(f.handle, how, {})
                /\ walk' = CASE how = "ok" /\ page = <<>> -> Pop(walk)
                             [] how = "ok" /\ page # <<>> ->
                                  Replace(walk, [f EXCEPT !.page = page, !.read = @ + asked])
                             [] how = "refused" -> Copies
                             [] OTHER -> Unread(how)

\* The children of a copy that no page has read.
Rest(read, size) == HandlesOf(Top.handle, read + 1, size)

\* uncounted: one copy of the list, of which at most MaxChildren are visited.
Copy ==
  /\ Walking("copy")
  /\ \E how \in {"ok", "gone", "late", "refused"} :
       LET p    == Designated(Top.handle)
           size == Len(kids[p])
       IN  /\ Reads(Top.handle, how, Below(p))
           /\ walk' = IF how # "ok" THEN Unread(how)
                      ELSE Replace(walk, [Top EXCEPT !.at = "copied", !.more = size > MaxChildren,
                                            !.page = Rest(Top.read, Min({size, MaxChildren}))])

Copied ==
  /\ Walking("copied")
  /\ walk' = IF Top.more THEN Note(Pop(walk), "nodes") ELSE Pop(walk)
  /\ Silent

DeadlinePasses ==
  /\ walk # None /\ ~Finished /\ ~overdue
  /\ overdue' = TRUE
  /\ UNCHANGED <<app_vars, walk>>

\* The lists a walk is part way through: counted, or with a handle of theirs still held.
InHand ==
  LET frames == IF walk = None THEN {} ELSE ToSet(walk.stack)
      held(f) == {f.handle} \cup ToSet(f.page)
  IN  {Designated(f.handle) : f \in {g \in frames : g.at \in {"pages", "copy", "copied"}}}
        \cup UNION {{h.parent : h \in held(f)} : f \in frames}

\* History: what a change of p's list takes out of it, and of a list in hand what it moves.
Displaces(p) ==
  LET out   == {n \in Kids(p) : n \notin Kids(p)'}
      moved == {n \in Kids(p) : \E i \in DOMAIN kids[p] :
                  kids[p][i] = n /\ ~(i \in DOMAIN kids'[p] /\ kids'[p][i] = n)}
      all(S) == S \cup UNION {Below(n) : n \in S}
  IN  /\ stayed' = stayed \ all(out)
      /\ steady' = steady \ all(IF p \in InHand THEN moved ELSE out)

ListChanges ==
  \E p \in Attached : (Removes(p) \/ Inserts(p) \/ Sorts(p)) /\ Displaces(p)

WalkStep == VisitRoot \/ Visit \/ Cut \/ Counts \/ Pages \/ Copy \/ Copied

\* ---- what a finished walk shows ----------------------------------------------------------

\* What a walk may list: its root is never listed.
Inside == Placed \ {Root}

Listed(w) == {e.shown : e \in ToSet(w.nodes)}

Behind(w) == UNION {Below(e.shown) : e \in {x \in ToSet(w.nodes) : x.hidden > 0}}

(***************************************************************************)
(* A walk that does not say it was cut short listed every node its shape   *)
(* asks for that was in the tree, and refused nothing, for as long as the  *)
(* walk read; or a cut it listed, or counted as hidden, stands for it.     *)
(* And none lists such a node twice, though a list it was paging may be    *)
(* copied from then on.  The exception is a node that moved to another     *)
(* place of a list, or is below one that did, while the walk was part way  *)
(* through that list: pages go by place, and miss it, or read it twice,    *)
(* without a word.                                                         *)
(***************************************************************************)
WalksMissNothingUntold ==
  /\ Finished /\ walk.truncated = None /\ walk.hidden = 0 =>
       steady \cap walk.shape.lists \cap Inside \subseteq Listed(walk) \cup Behind(walk)
  /\ walk # None =>
       \A i, j \in DOMAIN walk.nodes :
         i # j /\ walk.nodes[i].shown \in steady
           => walk.nodes[i].shown # walk.nodes[j].shown
=============================================================================
