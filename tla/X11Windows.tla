----------------------------- MODULE X11Windows -----------------------------
(***************************************************************************)
(* The windows as an X server and its window manager tell them: the EWMH   *)
(* listing, one process's windows, and what no listing names that would    *)
(* take a click over a bound window.  A server s is a record:              *)
(*   answers  the connection holds                                         *)
(*   shaped   the server has the SHAPE extension                           *)
(*   children the root's children, bottom to top                           *)
(*   parent   of each window, Root of a top-level one                      *)
(*   stacking, clients, active: the window manager's properties            *)
(*   win      what each window answers; its origin is inside its border,   *)
(*            lives is how many of its first three requests were answered  *)
(*            before it was destroyed                                      *)
(***************************************************************************)
EXTENDS WindowList
LOCAL INSTANCE SequencesExt

CONSTANTS
  MaxClients, MaxTopLevels, MaxAbove, MaxFrameDepth,
  MaxExtent,
  CoordinateLimit  \* i32::MAX, of which a side is at most twice and one

ASSUME X11Assumption ==
  /\ {MaxClients, MaxTopLevels, MaxAbove, MaxExtent, CoordinateLimit} \subseteq Nat
  /\ MaxFrameDepth \in Nat \ {0}

Root == -2
Unreadable == -3

\* ---- where a window is seen ------------------------------------------------

NoExtents == [left |-> 0, right |-> 0, top |-> 0, bottom |-> 0]

\* Four margins, or none at all.
Extents(values) ==
  IF Len(values) = 4 /\ \A i \in 1..4 : values[i] <= MaxExtent
  THEN [left |-> values[1], right |-> values[2], top |-> values[3], bottom |-> values[4]]
  ELSE NoExtents

Shrink(client, shadow) ==
  [x |-> client.x + shadow.left, y |-> client.y + shadow.top,
   w |-> client.w - shadow.left - shadow.right, h |-> client.h - shadow.top - shadow.bottom]

Grow(content, frame) ==
  [x |-> content.x - frame.left, y |-> content.y - frame.top,
   w |-> content.w + frame.left + frame.right, h |-> content.h + frame.top + frame.bottom]

Coordinates == (-CoordinateLimit - 1)..CoordinateLimit

FitsTheRoot(r) == /\ {r.x, r.y} \subseteq Coordinates
                  /\ {r.w, r.h} \subseteq 0..(2 * CoordinateLimit + 1)

\* What is seen of a client and its own area, where there is anything to see.
Placed(client, frame, shadow) ==
  LET content == Shrink(client, shadow)
      seen    == Grow(content, frame)
  IN  IF content.w > 0 /\ content.h > 0 /\ FitsTheRoot(content) /\ FitsTheRoot(seen)
      THEN <<[seen |-> seen, content |-> content]>> ELSE <<>>

\* ---- the listing -----------------------------------------------------------

Once(ids) == FoldLeft(LAMBDA kept, id : IF Contains(kept, id) THEN kept ELSE Append(kept, id),
                      <<>>, ids)

FrontToBack(bottom_to_top) == Once(Reverse(bottom_to_top))

EachOnce(clients, children) ==
  clients \o Once(SelectSeq(children, LAMBDA id : ~Contains(clients, id)))

FirstNumber(values) == IF values # <<>> /\ values[1] > 0 THEN values[1] ELSE 0

Reading(s, id) == IF id \in DOMAIN s.win THEN s.win[id].lives ELSE 0

\* The window a client's replies make, if it lived and can be placed.
ClientWindow(s, id) ==
  LET win    == s.win[id]
      client == [x |-> win.x, y |-> win.y, w |-> win.w, h |-> win.h]
      places == Placed(client, Extents(win.frame), Extents(win.shadow))
  IN  IF Reading(s, id) < 3 THEN <<>>
      ELSE [i \in DOMAIN places |->
              [id |-> id, pid |-> FirstNumber(win.pid), title |-> win.title,
               viewable |-> win.mapped, minimized |-> win.hidden,
               bounds |-> places[i].seen, content |-> places[i].content,
               transient_for |-> FirstNumber(win.transient)]]

ReadAll(s, ids) == FlattenSeq([i \in DOMAIN ids |-> ClientWindow(s, ids[i])])

RefusedListing == [refused |-> TRUE, windows |-> <<>>, stacked |-> FALSE]

ListClients(s) ==
  LET stacked == s.stacking # <<>>
      ids     == IF stacked THEN s.stacking ELSE s.clients
  IN  IF ~s.answers \/ Len(ids) > MaxClients \/ Len(s.active) > 1 THEN RefusedListing
      ELSE [refused |-> FALSE, windows |-> ReadAll(s, FrontToBack(ids)), stacked |-> stacked]

\* As a bound target reads it: docks and panels have no layer of their own.
AsFacts(window) ==
  [id |-> window.id, pid |-> window.pid, title |-> window.title, bounds |-> window.bounds,
   content |-> <<window.content>>, layer |-> 0, on_screen |-> window.viewable,
   transient_for |-> window.transient_for]

\* Refused without a stacking order, for what is in front could not be told.
ServerList(s) ==
  LET listed == ListClients(s)
  IN  IF listed.refused \/ (~listed.stacked /\ listed.windows # <<>>) THEN RefusedListing
      ELSE [listed EXCEPT !.windows = [i \in DOMAIN @ |-> AsFacts(@[i])]]

Family(s, pid) ==
  IF ~s.answers \/ Len(s.clients) > MaxClients \/ Len(s.children) > MaxTopLevels
  THEN RefusedListing
  ELSE LET read == SelectSeq(ReadAll(s, EachOnce(s.clients, s.children)),
                             LAMBDA w : w.pid = pid /\ w.viewable)
       IN  [refused |-> FALSE, stacked |-> FALSE,
            windows |-> [i \in DOMAIN read |-> AsFacts(read[i])]]

\* Another process has the number by now.
StillNamed(listed_pid, pid) == pid = listed_pid /\ listed_pid # 0

\* ---- what no listing names -------------------------------------------------

\* The root's child that holds the client.
TopLevel(s, client) ==
  LET up[depth \in 0..(MaxFrameDepth - 1)] ==
        IF depth = 0 \/ s.parent[up[depth - 1]] = Root
        THEN IF depth = 0 THEN client ELSE up[depth - 1]
        ELSE s.parent[up[depth - 1]]
      top == up[MaxFrameDepth - 1]
  IN  IF s.parent[top] = Root THEN top ELSE Unreadable

StackedAbove(bottom_to_top, top) ==
  LET at == SelectInSeq(bottom_to_top, LAMBDA id : id = top)
  IN  IF at = 0 THEN <<>> ELSE <<SubSeq(bottom_to_top, at + 1, Len(bottom_to_top))>>

GoneWindow == [viewable |-> FALSE, x |-> 0, y |-> 0, w |-> 0, h |-> 0, border |-> 0, input |-> <<>>]

\* One window above, from its three replies; an input region asked for too late
\* is taken for none.
ReadAbove(s, id) ==
  IF Reading(s, id) < 2 THEN GoneWindow
  ELSE LET win == s.win[id]
       IN  [viewable |-> win.mapped, x |-> win.x - win.border, y |-> win.y - win.border,
            w |-> win.w, h |-> win.h, border |-> win.border,
            input |-> IF s.shaped /\ win.lives = 3 THEN <<win.input>> ELSE <<>>]

\* Its input region counts from inside its border; without one it is all of it.
TakesInput(above, x, y) ==
  LET whole  == {[x |-> -above.border, y |-> -above.border,
                  w |-> above.w + 2 * above.border, h |-> above.h + 2 * above.border]}
      region == IF above.input = <<>> THEN whole ELSE above.input[1]
  IN  \E r \in region : InRect(r, x - above.x - above.border, y - above.y - above.border)

TakesClick(above, x, y) ==
  SelectLastInSeq(above, LAMBDA window : window.viewable /\ TakesInput(window, x, y))

UnlistedCover(s, client, x, y) ==
  IF ~s.answers \/ client \notin DOMAIN s.parent THEN Unreadable
  ELSE LET ids == StackedAbove(s.children, TopLevel(s, client))
       IN  IF ids = <<>> \/ \E over \in ToSet(ids) : Len(over) > MaxAbove THEN Unreadable
           ELSE LET hit == TakesClick([i \in DOMAIN ids[1] |-> ReadAbove(s, ids[1][i])], x, y)
                IN  IF hit = 0 THEN NoWindow ELSE ids[1][hit]

\* Before a click in a bound window: the listing, then what it does not name.
ClickMayGo(s, client, x, y) ==
  LET listed == ServerList(s)
  IN  /\ ~listed.refused
      /\ ObstructionAt(listed.windows, client, x, y) = NoWindow
      /\ UnlistedCover(s, client, x, y) = NoWindow
=============================================================================
