------------------------------ MODULE MCRules -------------------------------
(* The rules that have no state, over every input of small sets: what is   *)
(* over a window on an X server, what a listing tells, what an image shows *)
(* of a display, and what a request is on its two sides.                   *)
EXTENDS X11Windows, Geometry, Requests, TLC
LOCAL INSTANCE SequencesExt
LOCAL INSTANCE FiniteSetsExt

(* A root of one row: a client in its manager's frame, another client, and *)
(* a popup no manager lists, in every order, each somewhere on the row.    *)

LOCAL Point == 0..3
LOCAL Framed == 1
LOCAL Client == 2
LOCAL Popup == 3
LOCAL Frame4 == 4

LOCAL Plain(x, w) ==
  [lives |-> 3, mapped |-> TRUE, x |-> x, y |-> 0, w |-> w, h |-> 1, border |-> 0,
   input |-> {[x |-> 0, y |-> 0, w |-> w, h |-> 1]}, pid |-> <<7>>, title |-> "", hidden |-> FALSE,
   frame |-> <<>>, shadow |-> <<>>, transient |-> <<>>]

\* What may lie over the client: anywhere, shaped or not, mapped or not, or
\* destroyed under the reading.
LOCAL Overlays ==
  {[Plain(x, w) EXCEPT !.border = b, !.mapped = m, !.lives = l, !.input = i] :
     x \in 0..1, w \in 1..2, b \in 0..1, m \in BOOLEAN, l \in {1, 3},
     i \in {{}, {[x |-> 0, y |-> 0, w |-> 1, h |-> 1]}, {[x |-> -1, y |-> 0, w |-> 4, h |-> 1]}}}

LOCAL Orders == {o \in [1..3 -> {Frame4, Client, Popup}] : \A i, j \in 1..3 : i # j => o[i] # o[j]}

LOCAL Screen(order, client, popup, shaped) ==
  [answers |-> TRUE, shaped |-> shaped, children |-> order,
   parent |-> (Framed :> Frame4) @@ (Frame4 :> Root) @@ (Client :> Root) @@ (Popup :> Root),
   stacking |-> SelectSeq([i \in 1..3 |-> IF order[i] = Frame4 THEN Framed ELSE order[i]],
                          LAMBDA w : w # Popup),
   clients |-> <<Framed, Client>>, active |-> <<>>,
   win |-> (Framed :> Plain(0, 4)) @@ (Frame4 :> Plain(0, 4)) @@ (Client :> client)
           @@ (Popup :> popup)]

\* The top-level window the server gives a click to: the front-most shown one
\* that is still there and takes input at the point, counted on the row itself.
LOCAL ServerTakes(s, id, x) ==
  LET win   == s.win[id]
      spans == IF s.shaped THEN {[from |-> win.x + r.x, w |-> r.w] : r \in win.input}
               ELSE {[from |-> win.x - win.border, w |-> win.w + 2 * win.border]}
  IN  win.lives = 3 /\ win.mapped /\ \E span \in spans : x - span.from \in 0..(span.w - 1)

LOCAL GivenTo(s, x) ==
  LET takers == {i \in 1..3 : ServerTakes(s, s.children[i], x)}
  IN  IF takers = {} THEN NoWindow ELSE s.children[CHOOSE i \in takers : \A j \in takers : j <= i]

\* A click that may go reaches the client's own frame, whatever the order, and one
\* that may not is told which window would have had it.
ASSUME AClickReachesItsWindow ==
  \A order \in Orders, client, popup \in {o \in Overlays : o.border = 0 \/ o.mapped},
     shaped \in BOOLEAN, x \in {1, 3} :
    LET s == Screen(order, client, popup, shaped)
    IN  /\ ClickMayGo(s, Framed, x, 0) => GivenTo(s, x) = Frame4
        /\ UnlistedCover(s, Framed, x, 0)
             = IF GivenTo(s, x) = Frame4 THEN NoWindow ELSE GivenTo(s, x)

\* A destroyed window covers nothing, and a client off the root's tree is told.
ASSUME TheGoneCoverNothing ==
  \A order \in Orders, popup \in Overlays, shaped \in BOOLEAN, x \in Point :
    LET s == Screen(order, Plain(0, 4), popup, shaped)
    IN  /\ popup.lives = 1 => UnlistedCover(s, Framed, x, 0) # Popup
        /\ UnlistedCover([s EXCEPT !.children = SelectSeq(@, LAMBDA w : w # Frame4)], Framed, x, 0)
             = Unreadable

\* Front to back, each window once, at the front-most of its places.
ASSUME EachWindowOnce ==
  \A ids \in UNION {[1..n -> 1..3] : n \in 0..4} :
    LET front == FrontToBack(ids)
        last(id) == SelectLastInSeq(ids, LAMBDA v : v = id)
    IN  /\ ToSet(front) = ToSet(ids)
        /\ \A i, j \in DOMAIN front : i < j => last(front[i]) > last(front[j])
        /\ \A more \in {<<>>, <<1>>, <<2, 1>>, <<3, 3>>} :
             ToSet(EachOnce(front, more)) = ToSet(front \o more)
               /\ IsInjective(EachOnce(front, more))

\* The client's own area and its frame: a shadow taken off and a frame put on
\* are undone by each other, and nothing is placed outside the root.
ASSUME PlacedInsideItsFrame ==
  \A x \in {-6, 0, 5}, w \in 1..3, l, r \in 0..3, f \in 0..2, m \in {<<>>, <<1, 1>>, <<0, 0, 0, 9>>} :
    LET client == [x |-> x, y |-> 0, w |-> w, h |-> 2]
        shadow == Extents(<<l, r, 0, 0>>)
        placed == Placed(client, Extents(<<f, f, 0, 1>>), shadow)
    IN  /\ Extents(m) = NoExtents
        /\ placed = <<>> <=> \/ l + r >= w \/ x + l > CoordinateLimit
                             \/ x + l - f < -CoordinateLimit - 1
        /\ \A p \in ToSet(placed) :
             /\ p.content.x \in p.seen.x..(p.seen.x + p.seen.w - p.content.w)
             /\ Grow(p.content, shadow) = client
             /\ \A y \in 0..1, at \in -7..9 : InRect(p.content, at, y) => InRect(p.seen, at, y)

\* A family of four, each for any other or for a window outside it.
LOCAL Families ==
  {[i \in 1..4 |-> [id |-> i, transient_for |-> links[i]]] : links \in [1..4 -> {0, 1, 2, 3, 9}]}

RECURSIVE Reaches(_, _, _, _)
LOCAL Reaches(family, id, owner, hops) ==
  /\ hops > 0 /\ id \in 1..4
  /\ \/ family[id].transient_for = owner
     \/ Reaches(family, family[id].transient_for, owner, hops - 1)

\* A window belongs to the owner its links lead to, loops and strangers apart.
ASSUME LinksLeadHome ==
  \A family \in Families, owner \in {1, 3, 9} :
    OwnedBy(family, owner)
      = IF owner = 9 THEN {} ELSE {w \in 1..4 : Reaches(family, w, owner, MaxTransientHops)}

\* What covers the target is shown, in front of it and hit; missing is missing.
LOCAL Listings ==
  {[i \in 1..3 |-> [id |-> i, pid |-> pids[i], on_screen |-> shown[i], layer |-> layers[i],
                    bounds |-> [x |-> at[i], y |-> 0, w |-> 2, h |-> 1]]] :
     pids \in [1..3 -> {7, 8}], shown \in [1..3 -> BOOLEAN], layers \in {<<0, 0, 0>>, <<3, 0, 0>>},
     at \in [1..3 -> {0, 2}]}

ASSUME CoversAreInFront ==
  \A listed \in Listings, target \in {2, 3, 5}, x \in 0..2 :
    LET over(Hit(_)) == {i \in 1..(target - 1) : listed[i].on_screen /\ Hit(listed[i])}
        area == [x |-> x, y |-> 0, w |-> 1, h |-> 1]
        first(is) == IF target = 5 \/ ~listed[target].on_screen THEN TargetMissing
                     ELSE IF is = {} THEN NoWindow ELSE CHOOSE i \in is : \A j \in is : i <= j
    IN  /\ ObstructionAt(listed, target, x, 0)
             = first(IF target = 5 THEN {} ELSE over(LAMBDA w : InRect(w.bounds, x, 0)))
        /\ ObstructionIn(listed, target, area, <<7>>)
             = first(IF target = 5 THEN {} ELSE over(LAMBDA w : w.pid # 7 /\ InRect(w.bounds, x, 0)))
        /\ ToSet(ChildrenOf(listed, 7, target, {1}))
             = {w \in ToSet(listed) : w.id \in IdsOf(listed, 7) \ {1, target}}
        /\ FrontIsTarget(listed, target) = <<TRUE>> =>
             ObstructionAt(listed, target, x, 0) # TargetMissing

\* One window there, and one of the owned: two at one place are nobody's.
ASSUME TwinsAreNobodys ==
  \A listed \in Listings, owned \in SUBSET (1..3) :
    LET family == [i \in 1..3 |-> listed[i] @@ [content |-> <<>>, title |-> "t"]]
        frame  == family[1].bounds
        there  == {i \in 1..3 : Within(family[i].bounds.x, frame.x, AxMatchTolerance)}
        facts  == [i \in 1..3 |-> <<[label |-> "t", frame |-> <<family[i].bounds>>]>>]
    IN  /\ Tied(frame, family, owned) <=> there = {1} /\ 1 \in owned
        /\ BindAccessibility(facts, family[1]) = IF there = {1} THEN "bound" ELSE "ambiguous"
        /\ BindAccessibility(<<<<>>, <<[label |-> "u", frame |-> <<frame>>]>>>>, family[1])
             = "unavailable"
-----------------------------------------------------------------------------
(* Displays of a few points at whole and fractional scales, left and right *)
(* of the main one, some past the budgets and some within them.            *)

LOCAL Facts(w, h, x, scale) == [x |-> x, y |-> 0, width |-> w, height |-> h, scale |-> scale]

\* A display as each host tells it, with the frame its capture makes.
LOCAL Shots ==
  {[host |-> "macos", facts |-> Facts(w, 4, x, Whole(2)), w |-> w * r, h |-> 4 * r] :
     w \in {3, 9}, x \in {-9, 0, 7}, r \in 1..2}
  \cup {[host |-> "portal", facts |-> Facts(w, 4, x, One), w |-> (w * 3) \div 2, h |-> 6] :
     w \in {4, 10}, x \in {-9, 7}}
  \cup {[host |-> "linux", facts |-> Facts(w, 4, x, s), w |-> 1, h |-> 1] :
     w \in {3, 9}, x \in {0, 7}, s \in {One, Whole(2)}}

LOCAL GeometryOf(shot) ==
  FromFacts(shot.facts, Measure(shot.facts, shot.w, shot.h, shot.host)[1], shot.host)

LOCAL Geometries == {GeometryOf(s) : s \in Shots}

LOCAL Views(g) ==
  {FullRegion(g)} \cup {[x |-> Whole(x), y |-> Zero, w |-> Whole(w), h |-> Whole(h)] :
                          x \in {0, 2, 50}, w \in {1, 4}, h \in {2, 50}}

LOCAL Columns(g, view) == 0..(SentDims(CropRect(g, view)).w - 1)
\* The first row and the last: the two axes are mapped alike, each by itself.
LOCAL Rows(g, view) == {0, SentDims(CropRect(g, view)).h - 1}

LOCAL Observed(g, view) == [geometry |-> g, region |-> view, sent |-> SentDims(CropRect(g, view))]

\* The full view is the whole frame, within one of the budgets or not scaled.
ASSUME WholeDisplayIsSent ==
  \A g \in Geometries :
    LET crop == CropRect(g, FullRegion(g))
        dims == SentDims(crop)
    IN  /\ crop = FullCrop(g)
        /\ dims.w <= g.phys_w /\ dims.h <= g.phys_h
        /\ \/ Max({dims.w, dims.h}) <= MaxEdge
           \/ (dims.w - 1) * (dims.h - 1) <= MaxArea
        /\ \/ dims = [w |-> g.phys_w, h |-> g.phys_h]
           \/ g.phys_w * g.phys_h > MaxArea /\ Max({dims.w, dims.h}) >= MaxEdge

\* The middle of every sent pixel falls in that pixel, and what is clicked for it
\* is within half a point.  It is on the display, or on the first point past it
\* where a sent pixel is less than a point.
ASSUME PointsComeBack ==
  \A g \in Geometries : \A view \in Views(g) : \A x \in Columns(g, view), y \in Rows(g, view) :
    LET at    == LogicalPoint(g, view, Whole(x), Whole(y))
        click == ToLogical(g, view, Whole(x), Whole(y))
        last  == g.origin_x ++ g.logical_w
        edge(i) == LogicalEdge(g, view, Whole(x + i), Whole(y + i))
    IN  /\ at.x -- edge(0).x = edge(1).x -- at.x
        /\ at.y -- edge(0).y = edge(1).y -- at.y
        /\ ToSent(g, view, at.x, at.y) = <<[x |-> x, y |-> y]>>
        /\ Distance(Whole(click.x), at.x) \preceq Half
        /\ Distance(Whole(click.y), at.y) \preceq Half
        /\ g.origin_x \preceq Whole(click.x) \/ g.origin_x[2] # 1
        /\ Whole(click.x) \preceq last \/ g.origin_x[2] # 1 \/ last[2] # 1

\* An image that covers a view is that view again, however often it is mapped, and
\* the whole display is still known for the whole display.
ASSUME ViewsDoNotWalk ==
  \A g \in Geometries : \A view \in Views(g) :
    LET again[n \in 0..3] == IF n = 0 THEN view
                             ELSE CheckView(g, <<Observed(g, again[n - 1])>>)
        pixels(v) == CropBounds(g.phys_w, g.phys_h, CropRect(g, v))
    IN  /\ \A n \in 2..3 : pixels(again[n]) = pixels(again[1])
        /\ view = FullRegion(g) => \A n \in 1..3 : ~CheckIsLossy(again[n], g)

\* A capture whose axes disagree, or whose ratio is no scale the host can have, is
\* refused; one that is accepted carries a point of the display to a whole frame.
ASSUME OnlyExplainedFramesAreMeasured ==
  \A s \in Shots : \A w \in {1, s.w - 2, s.w, s.w + 2}, h \in {1, s.h, s.h + 5} :
    LET m == Measure(s.facts, w, h, s.host)
    IN  s.host # "linux" =>
          IF m = <<>> THEN w # s.w \/ h # s.h
          ELSE /\ Distance(Whole(s.facts.height) ** m[1].ppp, Whole(h)) \preceq One
               /\ One -- PixelsPerPointTolerance \preceq m[1].ppp

\* What is remembered of a display serves its facts alone: a mode change, a move or a
\* rescale under the same id is measured again.
ASSUME MemoriesAreOfTheirFacts ==
  \A s, t \in Shots :
    LET first  == MeasureGeometry({}, [id |-> "d", facts |-> s.facts], s.w, s.h, s.host)
        second == MeasuredGeometry(first.known, [id |-> "d", facts |-> t.facts], t.w, t.h, t.host)
    IN  s.host = t.host =>
          IF s.facts = t.facts THEN second = first
          ELSE /\ second.geometry = <<GeometryOf(t)>>
               /\ Recall(second.known, "d", s.facts) = {}

\* A window is listed for the part of it the image shows: that part maps back into
\* the window, and a window off the display is not listed.
ASSUME ListedWhereTheyShow ==
  \A g \in Geometries :
  \A x \in {-12, -2, 1, 8, 30}, w \in {0, 3, 20} :
    LET r    == [x |-> Whole(x), y |-> One, w |-> Whole(w), h |-> Whole(2)]
        seen == WindowRegion(g, r)
        near == LogicalEdge(g, FullRegion(g), seen[1].x, seen[1].y)
        far  == LogicalEdge(g, FullRegion(g), seen[1].x ++ seen[1].w, seen[1].y ++ seen[1].h)
        k    == SentScale(g)
        across == Least(r.x ++ r.w, g.origin_x ++ g.logical_w) -- Greatest(r.x, g.origin_x)
        down   == Least(r.y ++ r.h, g.origin_y ++ g.logical_h) -- Greatest(r.y, g.origin_y)
    IN  IF seen = <<>> THEN w = 0 \/ across ** k \prec One \/ down ** k \prec One
        ELSE /\ r.x \preceq near.x /\ far.x \preceq (r.x ++ r.w)
             /\ r.y \preceq near.y /\ far.y \preceq (r.y ++ r.h)
             /\ g.origin_x \preceq near.x /\ far.x \preceq (g.origin_x ++ g.logical_w)

\* The application a view is read from is in the view; nothing in front of it
\* covers a tenth of the view, unless nothing does and it covers the most.
ASSUME TheFrontmostThatMatters ==
  LET Boxes == {[x |-> Whole(x), y |-> Zero, w |-> Whole(w), h |-> Whole(h)] :
                  x \in {-3, 0, 9}, w \in {0, 4}, h \in {1, 3, 10}}
      view  == [x |-> Zero, y |-> Zero, w |-> Whole(10), h |-> Whole(10)]
  IN  \A a, b, c \in Boxes :
        LET rows   == <<[pid |-> 1, bounds |-> a], [pid |-> 2, bounds |-> b],
                        [pid |-> 3, bounds |-> c]>>
            area(i) == OverlapArea(rows[i].bounds, view)
            chosen == ChooseTargetApp(rows, view)
        IN  IF chosen = <<>> THEN \A i \in 1..3 : area(i) = Zero
            ELSE LET p == chosen[1]
                 IN  /\ Zero \prec area(p)
                     /\ \A i \in 1..(p - 1) : area(i) \prec Whole(10)
                     /\ area(p) \prec Whole(10) =>
                          \A i \in 1..3 : area(i) \preceq area(p)
-----------------------------------------------------------------------------
(* The two sides of the request grammar on the params nearest to each      *)
(* action's own: those of a plain call, with one field changed to any      *)
(* value, or two of those that say what a request is aimed at, or any      *)
(* until of a condition with two of its fields changed.                    *)

LOCAL PlainCall(a) ==
  LET own == ("observation_id" :> IF a \in Addressed THEN "known" ELSE "absent")
             @@ ("element_ref" :> IF a \in ElementActions THEN "known" ELSE "absent")
             @@ [f \in {"x", "y", "amount", "ms", "window_id"} |->
                   IF f \in {"x", "y"} /\ a \in ElementActions THEN "absent" ELSE "fit"]
             @@ [f \in {"from", "to", "until"} |->
                   IF (f = "until") = (a = "wait_for") /\ a \in {"wait_for", "left_click_drag"}
                   THEN "object" ELSE "absent"]
             @@ [f \in {"direction", "chord", "text", "value"} |-> "known"]
             @@ ("on" :> "true")
      none(m) == [f \in m |-> "absent"]
      menu == [none(UntilFields) EXCEPT !["kind"] = "known"]
  IN  [action |-> a, top |-> own @@ none(Fields), query |-> none(FindFields), until |-> menu,
       kind |-> "menu_open", check |-> [none({"kind", "until", "stray"}) EXCEPT !["kind"] = "semantic"],
       checked |-> menu, checked_kind |-> "menu_open"]

\* A request as both sides have it.
LOCAL Agrees(p) == WhatIsSentIsTaken(p) /\ AimIsKept(p)

LOCAL Untils ==
  {[f \in UntilFields |-> IF f = "kind" THEN "known" ELSE IF f = g THEN v ELSE IF f = h THEN w
                          ELSE "absent"] :
     g \in UntilFields \ {"kind"}, h \in {"name", "element_ref", "timeout_ms"},
     v \in {"null", "fit", "known", "text"}, w \in {"null", "fit", "known"}}

ASSUME OneFieldChanged ==
  \A a \in LibraryActions :
    LET call == PlainCall(a)
    IN  \A f \in Fields, v \in Values : Agrees([call EXCEPT !.top[f] = v])

ASSUME AimChanged ==
  \A a \in LibraryActions :
    LET call == PlainCall(a)
    IN  \A f, g \in {"observation_id", "element_ref", "target_id", "x", "check"},
           v, w \in {"absent", "null", "empty", "known", "semantic"} :
          Agrees([call EXCEPT !.top[f] = v, !.top[g] = w])

ASSUME FindChanged ==
  \A skeleton \in {"false", "true"}, q \in [FindFields -> {"absent", "null", "known", "text"}] :
    Agrees([PlainCall("elements") EXCEPT !.top["query"] = "object", !.top["skeleton"] = skeleton,
                                     !.query = q])

ASSUME UntilChanged ==
  \A u \in Untils, k \in Kinds, listing \in {"absent", "known"} :
    /\ Agrees([PlainCall("wait_for") EXCEPT !.until = u, !.kind = k, !.top["observation_id"] = listing])
    /\ Agrees([PlainCall("press") EXCEPT !.checked = u, !.checked_kind = k,
                 !.check["until"] = "object", !.top["check"] = "object"])
=============================================================================
