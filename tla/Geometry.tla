------------------------------ MODULE Geometry ------------------------------
(***************************************************************************)
(* Display geometry and the one coordinate transform: sent pixels, the     *)
(* captured frame's pixels and logical points.  Numbers are exact where    *)
(* the code has floating point; a root is taken to one part in Grid.       *)
(***************************************************************************)
EXTENDS Integers, FiniteSets, Sequences
LOCAL INSTANCE SequencesExt

CONSTANTS
  MaxEdge, MaxArea,   \* what one sent image may measure
  MaxPortalScale,
  Grid                \* bound: the parts of one a scale is taken to

ASSUME GeometryAssumption == {MaxEdge, MaxArea, MaxPortalScale, Grid} \subseteq Nat \ {0}

\* ---- exact fractions: lowest terms, positive denominator --------------------

LOCAL gcd[a \in Nat, b \in Nat] == IF b = 0 THEN a ELSE gcd[b, a % b]
LOCAL Size(n) == IF n < 0 THEN -n ELSE n

Frac(n, d) == LET g == gcd[Size(n), Size(d)]
              IN  IF d > 0 THEN <<n \div g, d \div g>> ELSE <<(-n) \div g, (-d) \div g>>
Whole(n) == <<n, 1>>
Half == <<1, 2>>
Zero == <<0, 1>>
One == <<1, 1>>

p ++ q == Frac(p[1] * q[2] + q[1] * p[2], p[2] * q[2])
p -- q == Frac(p[1] * q[2] - q[1] * p[2], p[2] * q[2])
p ** q == Frac(p[1] * q[1], p[2] * q[2])
p // q == Frac(p[1] * q[2], p[2] * q[1])

p \preceq q == p[1] * q[2] <= q[1] * p[2]
p \prec q == p[1] * q[2] < q[1] * p[2]

Least(p, q) == IF p \preceq q THEN p ELSE q
Greatest(p, q) == IF p \preceq q THEN q ELSE p
Distance(p, q) == Greatest(p -- q, q -- p)

Floor(p) == p[1] \div p[2]
Ceiling(p) == -Floor(Zero -- p)
\* Halves away from zero, as f32::round has it.
Rounded(p) == IF p[1] >= 0 THEN Floor(p ++ Half) ELSE -Floor(Half -- p)

\* ---- what the code fixes ----------------------------------------------------

PixelsPerPointTolerance == <<1, 100>>
MinOverlap == <<1, 10>>  \* AX_TARGET_MIN_OVERLAP

\* ---- what a capture measures -----------------------------------------------

\* The looser of the two budgets, never more than native.
BudgetScale(w, h) ==
  LET edge == Least(Whole(MaxEdge) // Greatest(Greatest(w, h), One), One)
      area == Greatest(w ** h, One)
      fits(k) == (Whole(k * k) ** area) \preceq Whole(MaxArea * Grid * Grid)
      root == Frac(Max({k \in 0..Grid : fits(k)}), Grid)
  IN  Greatest(edge, root)

MeasuredAs(w, h, ppp) == [frame_w |-> w, frame_h |-> h, ppp |-> ppp]

\* The frame's own ratio, when both axes have it and it can be explained.
Measure(facts, image_w, image_h, host) ==
  LET width     == Whole(IF facts.width > 0 THEN facts.width ELSE 1)
      height    == Whole(IF facts.height > 0 THEN facts.height ELSE 1)
      across    == Whole(image_w) // width
      agree     == Distance(height ** across, Whole(image_h)) \preceq One
      near(q)   == Distance(across, q) \prec PixelsPerPointTolerance
      explained == IF host = "portal"
                   THEN (One -- PixelsPerPointTolerance) \preceq across
                          /\ across \preceq Whole(MaxPortalScale)
                   ELSE near(facts.scale) \/ near(One)
  IN  CASE host = "linux" -> <<MeasuredAs(facts.width, facts.height, Greatest(facts.scale, One))>>
        [] host # "linux" /\ agree /\ explained -> <<MeasuredAs(image_w, image_h, across)>>
        [] OTHER -> <<>>

\* Points are used as they are; Linux's bounds are pixels and are divided.
FromFacts(facts, m, host) ==
  LET unit == IF host = "linux" THEN m.ppp ELSE One
  IN  [phys_w |-> IF host = "linux" THEN facts.width ELSE Max({m.frame_w, 1}),
       phys_h |-> IF host = "linux" THEN facts.height ELSE Max({m.frame_h, 1}),
       logical_w |-> Whole(facts.width) // unit, logical_h |-> Whole(facts.height) // unit,
       origin_x |-> Whole(facts.x) // unit, origin_y |-> Whole(facts.y) // unit,
       scale |-> m.ppp]

\* What each display's last capture measured, true of the facts it was made under.
Remember(known, id, facts, m) ==
  {k \in known : k.id # id} \cup {[id |-> id, facts |-> facts, measured |-> m]}

Recall(known, id, facts) == {k.measured : k \in {j \in known : j.id = id /\ j.facts = facts}}

\* The transform of a frame just captured, and what is remembered of it.
MeasureGeometry(known, display, image_w, image_h, host) ==
  LET m == Measure(display.facts, image_w, image_h, host)
  IN  [known |-> IF m = <<>> THEN known ELSE Remember(known, display.id, display.facts, m[1]),
       geometry |-> [i \in DOMAIN m |-> FromFacts(display.facts, m[i], host)]]

\* For a reply with no image: what is remembered, else one capture thrown away.
MeasuredGeometry(known, display, image_w, image_h, host) ==
  LET recalled == Recall(known, display.id, display.facts)
  IN  IF recalled = {} THEN MeasureGeometry(known, display, image_w, image_h, host)
      ELSE [known |-> known,
            geometry |-> <<FromFacts(display.facts, CHOOSE m \in recalled : TRUE, host)>>]

\* ---- the transform ---------------------------------------------------------

FullCrop(g) == [left |-> Zero, top |-> Zero, w |-> Whole(g.phys_w), h |-> Whole(g.phys_h)]

CropScale(crop) == BudgetScale(crop.w, crop.h)

AtLeastOne(n) == IF n < 1 THEN 1 ELSE n

SentDims(crop) ==
  [w |-> AtLeastOne(Rounded(crop.w ** CropScale(crop))),
   h |-> AtLeastOne(Rounded(crop.h ** CropScale(crop)))]

FullRegion(g) ==
  LET kz == CropScale(FullCrop(g))
  IN  [x |-> Zero, y |-> Zero, w |-> Whole(g.phys_w) ** kz, h |-> Whole(g.phys_h) ** kz]

SentScale(g) == CropScale(FullCrop(g)) ** g.scale

Clamped(p, high) == Least(Greatest(p, Zero), high)

\* The physical crop of a region read in the full image, kept on the frame.
CropRect(g, region) ==
  LET phys(p) == (p // SentScale(g)) ** g.scale
      left == Clamped(phys(region.x), Whole(g.phys_w - 1))
      top  == Clamped(phys(region.y), Whole(g.phys_h - 1))
  IN  [left |-> left, top |-> top,
       w |-> Greatest(Least(phys(region.w), Whole(g.phys_w) -- left), One),
       h |-> Greatest(Least(phys(region.h), Whole(g.phys_h) -- top), One)]

\* The corner of a sent pixel, for rectangles; its middle, for points.
LogicalEdge(g, region, x, y) ==
  LET crop == CropRect(g, region)
  IN  [x |-> g.origin_x ++ ((crop.left ++ (x // CropScale(crop))) // g.scale),
       y |-> g.origin_y ++ ((crop.top ++ (y // CropScale(crop))) // g.scale)]

LogicalPoint(g, region, x, y) == LogicalEdge(g, region, x ++ Half, y ++ Half)

ToLogical(g, region, x, y) ==
  LET at == LogicalPoint(g, region, x, y) IN [x |-> Rounded(at.x), y |-> Rounded(at.y)]

SentAt(g, crop, lx, ly) ==
  [x |-> (((lx -- g.origin_x) ** g.scale) -- crop.left) ** CropScale(crop),
   y |-> (((ly -- g.origin_y) ** g.scale) -- crop.top) ** CropScale(crop)]

\* The sent pixel a logical point falls in, where it falls in the image.
ToSent(g, region, lx, ly) ==
  LET crop == CropRect(g, region)
      at   == SentAt(g, crop, lx, ly)
      dims == SentDims(crop)
  IN  IF Zero \preceq at.x /\ Zero \preceq at.y /\ at.x \prec Whole(dims.w) /\ at.y \prec Whole(dims.h)
      THEN <<[x |-> Floor(at.x), y |-> Floor(at.y)]>> ELSE <<>>

\* A rectangle of logical points in an image's own pixels, not clipped.
SentRect(g, region, r) ==
  LET crop == CropRect(g, region)
      at   == SentAt(g, crop, r.x, r.y)
  IN  [x |-> at.x, y |-> at.y,
       w |-> (r.w ** g.scale) ** CropScale(crop), h |-> (r.h ** g.scale) ** CropScale(crop)]

\* A rectangle read in one image, in the full-display pixels of the geometry now.
RectThrough(observed, region, rect, g) ==
  LET near == LogicalEdge(observed, region, rect.x, rect.y)
      far  == LogicalEdge(observed, region, rect.x ++ rect.w, rect.y ++ rect.h)
      k    == SentScale(g)
  IN  [x |-> (near.x -- g.origin_x) ** k, y |-> (near.y -- g.origin_y) ** k,
       w |-> Greatest((far.x -- near.x) ** k, One), h |-> Greatest((far.y -- near.y) ** k, One)]

\* ---- what a request asks to see --------------------------------------------

MayView(rect) == Zero \prec rect.w /\ Zero \prec rect.h

\* The whole display; a rectangle of its image; or one of an image that is held.
ViewingRegion(rect, named, g) ==
  CASE rect = <<>> -> FullRegion(g)
    [] rect # <<>> /\ named = <<>> -> rect[1]
    [] OTHER -> RectThrough(named[1].geometry, named[1].region, rect[1], g)

WholeOf(observation) ==
  [x |-> Zero, y |-> Zero, w |-> Whole(observation.sent.w), h |-> Whole(observation.sent.h)]

CheckView(g, named) ==
  IF named = <<>> THEN FullRegion(g)
  ELSE RectThrough(named[1].geometry, named[1].region, WholeOf(named[1]), g)

SameRect(a, b) == \A side \in {"x", "y", "w", "h"} : Rounded(a[side]) = Rounded(b[side])

CheckIsLossy(region, g) == ~SameRect(region, FullRegion(g))

\* The whole pixels of a frame a crop is hashed over and cut out of.
CropBounds(image_w, image_h, crop) ==
  LET left == Min({Max({Rounded(crop.left), 0}), image_w - 1})
      top  == Min({Max({Rounded(crop.top), 0}), image_h - 1})
  IN  [left |-> left, top |-> top,
       w |-> Min({AtLeastOne(Rounded(crop.w)), image_w - left}),
       h |-> Min({AtLeastOne(Rounded(crop.h)), image_h - top})]

\* A point outside its image is refused, one in it goes through its transform.
PointIn(observation, x, y) ==
  IF /\ Zero \preceq x /\ x \prec Whole(observation.sent.w)
     /\ Zero \preceq y /\ y \prec Whole(observation.sent.h)
  THEN <<ToLogical(observation.geometry, observation.region, x, y)>> ELSE <<>>

MatchesDisplay(observation, display) ==
  observation.display = display.id /\ observation.facts = display.facts

Centre(frame) == [x |-> frame.x ++ (frame.w ** Half), y |-> frame.y ++ (frame.h ** Half)]

\* Where a pointer action goes: the point it names, or where its control is now.
Aim(observation, x, y, frame) ==
  IF frame = <<>> THEN PointIn(observation, x, y)
  ELSE <<[x |-> Rounded(Centre(frame[1]).x), y |-> Rounded(Centre(frame[1]).y)]>>

\* ---- windows on the display ------------------------------------------------

\* The part of a window this display's image shows, if at least a pixel.
WindowRegion(g, r) ==
  LET k    == SentScale(g)
      full == FullRegion(g)
      left == (r.x -- g.origin_x) ** k
      top  == (r.y -- g.origin_y) ** k
      x0   == Greatest(left, full.x)
      y0   == Greatest(top, full.y)
      x1   == Least(left ++ (r.w ** k), full.x ++ full.w)
      y1   == Least(top ++ (r.h ** k), full.y ++ full.h)
  IN  IF MayView(r) /\ One \preceq (x1 -- x0) /\ One \preceq (y1 -- y0)
      THEN <<[x |-> x0, y |-> y0, w |-> x1 -- x0, h |-> y1 -- y0]>> ELSE <<>>

\* The windows a listing offers: not minimized, on the normal layer where that is
\* told, and on this display.
WindowEntries(g, listed, normal) ==
  FlattenSeq([i \in DOMAIN listed |->
    IF listed[i].minimized \/ \E ids \in ToSet(normal) : listed[i].id \notin ids THEN <<>>
    ELSE LET there == WindowRegion(g, listed[i].bounds)
         IN  [j \in DOMAIN there |-> [id |-> listed[i].id, region |-> there[j]]]])

OverlapArea(a, b) ==
  LET w == Least(a.x ++ a.w, b.x ++ b.w) -- Greatest(a.x, b.x)
      h == Least(a.y ++ a.h, b.y ++ b.h) -- Greatest(a.y, b.y)
  IN  IF Zero \prec w /\ Zero \prec h THEN w ** h ELSE Zero

\* The frontmost application that covers a tenth of the view; failing that, the
\* frontmost of those that cover most of it.
ChooseTargetApp(candidates, region) ==
  LET area(i) == OverlapArea(candidates[i].bounds, region)
      floor   == MinOverlap ** Greatest(region.w ** region.h, One)
      seen    == {i \in DOMAIN candidates : Zero \prec area(i)}
      large   == {i \in seen : floor \preceq area(i)}
      largest == {i \in seen : \A j \in seen : area(j) \preceq area(i)}
      chosen  == IF large # {} THEN large ELSE largest
  IN  IF seen = {} THEN <<>> ELSE <<candidates[Min(chosen)].pid>>
=============================================================================
