----------------------------- MODULE WindowList -----------------------------
(***************************************************************************)
(* What is read out of one listing of the windows, front to back: which    *)
(* covers a point, which belong to the bound one, which accessibility      *)
(* window is it.  A window number is positive; an option is a sequence of  *)
(* at most one value.                                                      *)
(***************************************************************************)
EXTENDS Integers, FiniteSets, Sequences
LOCAL INSTANCE SequencesExt

CONSTANTS MaxTransientHops, AxMatchTolerance

ASSUME HopsAssumption == MaxTransientHops \in Nat /\ AxMatchTolerance \in Nat

NoWindow == 0
TargetMissing == -1

\* ---- rectangles ------------------------------------------------------------

InRect(r, x, y) == /\ x >= r.x /\ x < r.x + r.w
                   /\ y >= r.y /\ y < r.y + r.h

Within(a, b, tolerance) == a - b \in -tolerance..tolerance

RectsMatch(r, q) == \A side \in {"x", "y", "w", "h"} : Within(r[side], q[side], AxMatchTolerance)

Overlap(r, q) == /\ r.x < q.x + q.w /\ q.x < r.x + r.w
                 /\ r.y < q.y + q.h /\ q.y < r.y + r.h

\* ---- what is over the target -----------------------------------------------

FindWindow(listed, id) == SelectInSeq(listed, LAMBDA w : w.id = id)

OnScreen(listed) == SelectSeq(listed, LAMBDA w : w.on_screen)

\* The first shown window that covers, if it comes before the target.
CoverOf(listed, target, covering) ==
  LET shown == OnScreen(listed)
      there == FindWindow(shown, target)
      first == SelectInSeq(shown, LAMBDA w : w \in covering)
  IN  IF there = 0 THEN TargetMissing
      ELSE IF first \in 1..(there - 1) THEN shown[first].id ELSE NoWindow

ObstructionAt(listed, target, x, y) ==
  CoverOf(listed, target, {w \in ToSet(listed) : InRect(w.bounds, x, y)})

ObstructionIn(listed, target, area, ignoring) ==
  CoverOf(listed, target,
          {w \in ToSet(listed) : w.pid \notin ToSet(ignoring) /\ Overlap(w.bounds, area)})

FrontWindow(listed) ==
  LET first == SelectInSeq(listed, LAMBDA w : w.on_screen /\ w.layer = 0)
  IN  IF first = 0 THEN NoWindow ELSE listed[first].id

FrontIsTarget(listed, target) ==
  LET front == FrontWindow(listed)
  IN  IF front = NoWindow THEN <<>> ELSE <<front = target>>

\* ---- the application's other windows ---------------------------------------

IdsOf(listed, pid) ==
  {w.id : w \in {v \in ToSet(listed) : v.on_screen /\ v.pid = pid}}

ChildrenOf(listed, pid, target, at_selection) ==
  SelectSeq(OnScreen(listed),
            LAMBDA w : w.pid = pid /\ w.id # target /\ w.id \notin at_selection)

LinkOf(family, id) ==
  LET at == FindWindow(family, id) IN IF at = 0 THEN NoWindow ELSE family[at].transient_for

\* The windows its transient-for links name, one after another.
Links(family, window) ==
  LET link[hop \in 1..MaxTransientHops] ==
        IF hop = 1 THEN window.transient_for ELSE LinkOf(family, link[hop - 1])
  IN  link

Belongs(family, window, owner) ==
  \E hop \in 1..MaxTransientHops : Links(family, window)[hop] = owner

OwnedBy(family, owner) ==
  IF FindWindow(family, owner) = 0 THEN {}
  ELSE {w.id : w \in {v \in ToSet(family) : Belongs(family, v, owner)}}

\* ---- the accessibility window that is this one -----------------------------

PlacedAt(frame, window) ==
  \E r \in {window.bounds} \cup ToSet(window.content) : RectsMatch(frame, r)

MatchesWindow(facts, window) ==
  \E f \in ToSet(facts) : /\ f.label = window.title
                          /\ \E frame \in ToSet(f.frame) : PlacedAt(frame, window)

AxMatches(ax_windows, window) ==
  {i \in DOMAIN ax_windows : MatchesWindow(ax_windows[i], window)}

BindAccessibility(ax_windows, window) ==
  CASE Cardinality(AxMatches(ax_windows, window)) = 0 -> "unavailable"
    [] Cardinality(AxMatches(ax_windows, window)) = 1 -> "bound"
    [] OTHER -> "ambiguous"

BindingMethods(binding) == {"foreground_hid"} \cup IF binding = "bound" THEN {"ax"} ELSE {}

\* A surface at frame is the bound window's: one window of the family is there,
\* and it is owned.
Tied(frame, family, owned) ==
  LET there == {i \in DOMAIN family : PlacedAt(frame, family[i])}
  IN  Cardinality(there) = 1 /\ \A i \in there : family[i].id \in owned

NamesItsProcess(window) == window.pid > 0

\* ---- the macOS listing -----------------------------------------------------

\* A window with no number or no area is not listed.
MacWindow(d) ==
  IF \E r \in ToSet(d.bounds) : d.number # <<>> /\ r.w > 0 /\ r.h > 0
  THEN <<[id |-> d.number[1], pid |-> IF d.pid = <<>> THEN 0 ELSE d.pid[1],
          title |-> d.name, bounds |-> d.bounds[1], content |-> <<>>,
          layer |-> IF d.layer = <<>> THEN 0 ELSE d.layer[1],
          on_screen |-> d.onscreen = <<TRUE>>, transient_for |-> NoWindow]>>
  ELSE <<>>

MacList(dicts) == FlattenSeq([i \in DOMAIN dicts |-> MacWindow(dicts[i])])
=============================================================================
