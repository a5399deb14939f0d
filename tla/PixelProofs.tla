---------------------------- MODULE PixelProofs ----------------------------
(***************************************************************************)
(* What the pixel routes keep, proved by induction on their steps for any  *)
(* number of requests, sessions, drawings, changes and mishaps: MCPixels'  *)
(* properties, on Portal, on CompositeFrames, on Badge, and then on the    *)
(* route that puts the three together.                                     *)
(***************************************************************************)
EXTENDS PixelRoute, FiniteSetTheorems, SequenceTheorems, WellFoundedInduction, TLAPS

-----------------------------------------------------------------------------
(* The portal. *)


\* Sessions are numbered from 1, and so are the tokens that stand for them.
Numbered == created \in Nat /\ serves \subseteq Nat

\* A session that said Closed is not open.
ClosedIsClosed == closed # "no" => open = None

\* After a Stop that was read nothing holds a token, and a start has got no further
\* than the person.
NothingBringsItBack ==
  stopped = "read" =>
    /\ open = None /\ disk = None
    /\ at \in {"created", "selected", "asking"} => token = None
    /\ at # "answered"

StopInv == Numbered /\ ClosedIsClosed /\ NothingBringsItBack

\* A gated call under way holds the mutex, and no barrier was applied since its check.
InCall == at \in {"session", "start", "created", "selected", "asking", "answered", "use"}

CallsHoldTheMutex ==
  InCall /\ Head(todo) \in GatedCalls => mutex /\ ~Barred

BarrierInv == CallsHoldTheMutex /\ NoInputPastABarrier

-----------------------------------------------------------------------------
LEMMA StopInit == PortalInit => StopInv
BY DEF PortalInit, StopInv, Numbered, ClosedIsClosed, NothingBringsItBack

LEMMA StopStep == StopInv /\ [PortalNext]_portal_all => StopInv'
<1> SUFFICES ASSUME StopInv, [PortalNext]_portal_all PROVE StopInv'
  OBVIOUS
<1> USE NoneIsNoSession DEF StopInv, Numbered, ClosedIsClosed, NothingBringsItBack, Trouble
<1>1. ASSUME NEW verb \in {"key", "left_click", "screenshot"}, Begins(verb) PROVE StopInv'
  BY <1>1 DEF Begins, control_vars, portal_vars, history
<1>2. CASE CallsNext \/ GateRefuses \/ Lifts \/ Answers
  BY <1>2 DEF CallsNext, GateRefuses, Lifts, Answers, control_vars, portal_vars, counters, history
<1>3. CASE SessionLives
  BY <1>3 DEF SessionLives, control_vars, portal_vars, counters, history
<1>4. CASE SessionIsGone
  BY <1>4 DEF SessionIsGone, ForgetsStopped, Stores, control_vars
<1>5. CASE Creates
  BY <1>5 DEF Creates, control_vars, portal_vars, history
<1>6. CASE CreateFails \/ StartFails
  BY <1>6 DEF CreateFails, StartFails, Spends, CallFails, Stores, control_vars, portal_vars, history
<1>7. CASE Selects
  BY <1>7 DEF Selects, control_vars, counters
<1>8. CASE StartsUnasked \/ PersonAllows
  BY <1>8 DEF StartsUnasked, PersonAllows, Opens, control_vars, counters
<1>9. CASE Asks
  BY <1>9 DEF Asks, control_vars, counters, history
<1>10. CASE KeepsSession \/ StreamMissing
  BY <1>10 DEF KeepsSession, StreamMissing, Stores, CallFails, control_vars, portal_vars
<1>11. CASE InputLands \/ InputRefused \/ Looks \/ Shoots \/ ScreenshotEnds
  BY <1>11 DEF InputLands, InputRefused, Looks, Shoots, ScreenshotEnds, Done, CallFails,
               control_vars, portal_vars, counters, history
<1>12. CASE PauseAsked \/ PauseApplies \/ ReleaseApplies
  BY <1>12 DEF PauseAsked, PauseApplies, ReleaseApplies, helper_vars, portal_vars, counters, history
<1>13. CASE TakesRelease
  BY <1>13 DEF TakesRelease, counters, history
<1>14. CASE PersonStops \/ ClosedArrives
  BY <1>14 DEF PersonStops, ClosedArrives, helper_vars, control_vars, counters, history
<1>15. CASE PortalRestarts \/ HelperReplaced
  BY <1>15 DEF PortalRestarts, HelperReplaced, helper_vars, control_vars, history
<1>16. CASE UNCHANGED portal_all
  BY <1>16 DEF portal_all, helper_vars, control_vars, portal_vars, counters, history
<1>17. QED
  BY <1>1, <1>2, <1>3, <1>4, <1>5, <1>6, <1>7, <1>8, <1>9, <1>10, <1>11, <1>12, <1>13,
     <1>14, <1>15, <1>16 DEF PortalNext

(* Once the helper has read that the person stopped its session and has removed the *)
(* token, none is open until the person allows one again, for any number of         *)
(* requests, helpers and mishaps; a removal that failed is excepted                 *)
(* (Portal::session, store_token, start).                                           *)
THEOREM StopsAreKept == PortalSpec => []AStopThatWasReadAsksAgain
<1>1. StopInv => AStopThatWasReadAsksAgain
  BY DEF StopInv, NothingBringsItBack, AStopThatWasReadAsksAgain
<1>2. QED
  BY StopInit, StopStep, <1>1, PTL DEF PortalSpec

-----------------------------------------------------------------------------
LEMMA BarrierInit == PortalInit => BarrierInv
BY DEF PortalInit, BarrierInv, CallsHoldTheMutex, InCall, NoInputPastABarrier

LEMMA BarrierStep == BarrierInv /\ [PortalNext]_portal_all => BarrierInv'
<1> SUFFICES ASSUME BarrierInv, [PortalNext]_portal_all PROVE BarrierInv'
  OBVIOUS
<1> USE DEF BarrierInv, CallsHoldTheMutex, InCall, NoInputPastABarrier, Barred
<1>1. ASSUME NEW verb \in {"key", "left_click", "screenshot"}, Begins(verb) PROVE BarrierInv'
  BY <1>1 DEF Begins, control_vars, portal_vars, history
<1>2. CASE CallsNext
  BY <1>2 DEF CallsNext, control_vars, portal_vars, counters, history
<1>3. CASE GateRefuses \/ Lifts \/ Answers
  BY <1>3 DEF GateRefuses, Lifts, Answers, control_vars, portal_vars, counters, history
<1>4. CASE SessionLives \/ SessionIsGone
  BY <1>4 DEF SessionLives, SessionIsGone, control_vars, portal_vars, counters, history
<1>5. CASE Creates \/ Selects \/ Asks
  BY <1>5 DEF Creates, Selects, Asks, control_vars, portal_vars, counters, history
<1>6. CASE StartsUnasked \/ PersonAllows
  BY <1>6 DEF StartsUnasked, PersonAllows, Opens, control_vars, counters
<1>7. CASE CreateFails \/ StartFails \/ StreamMissing
  BY <1>7 DEF CreateFails, StartFails, StreamMissing, CallFails, control_vars, portal_vars, history
<1>8. CASE KeepsSession
  BY <1>8 DEF KeepsSession, control_vars, portal_vars
<1>9. CASE InputLands
  BY <1>9 DEF InputLands, Done, control_vars, portal_vars, counters
<1>10. CASE InputRefused \/ Looks \/ Shoots \/ ScreenshotEnds
  BY <1>10 DEF InputRefused, Looks, Shoots, ScreenshotEnds, Done, CallFails,
               control_vars, portal_vars, counters, history
<1>11. CASE PauseAsked
  BY <1>11 DEF PauseAsked, helper_vars, portal_vars, counters, history
<1>12. CASE PauseApplies \/ ReleaseApplies
  BY <1>12 DEF PauseApplies, PauseMayApply, ReleaseApplies, helper_vars, portal_vars, counters, history
<1>13. CASE TakesRelease \/ HelperReplaced
  BY <1>13 DEF TakesRelease, HelperReplaced, counters, history
<1>14. CASE PersonStops \/ ClosedArrives \/ PortalRestarts
  BY <1>14 DEF PersonStops, ClosedArrives, PortalRestarts, helper_vars, control_vars, counters, history
<1>15. CASE UNCHANGED portal_all
  BY <1>15 DEF portal_all, helper_vars, control_vars, portal_vars, counters, history
<1>16. QED
  BY <1>1, <1>2, <1>3, <1>4, <1>5, <1>6, <1>7, <1>8, <1>9, <1>10, <1>11, <1>12, <1>13,
     <1>14, <1>15 DEF PortalNext

(* No input of a request lands once a pause or a release was applied, whatever     *)
(* lies between the check of its dispatch and its post: a new session, a dialog,   *)
(* another helper (Gate::dispatch around PortalInput).                             *)
THEOREM DialogsPassNoBarrier == PortalSpec => []NoInputPastABarrier
<1>1. BarrierInv => NoInputPastABarrier
  BY DEF BarrierInv
<1>2. QED
  BY BarrierInit, BarrierStep, <1>1, PTL DEF PortalSpec

-----------------------------------------------------------------------------
(* The frames of a window. *)

EventType == [kind: {"damage", "configure", "map", "unmap", "destroy"}, size: Sizes,
              places: SUBSET Pieces]

\* A picture, and the instant a stamp stands for: what was last drawn where.
Drawn == [Pieces -> Nat]

IsHeld(h) ==
  /\ h = [shown |-> h.shown, stamp |-> h.stamp, gen |-> h.gen]
  /\ DOMAIN h.shown \subseteq Pieces /\ h.shown \in [DOMAIN h.shown -> Int]
  /\ h.stamp \in Drawn /\ h.gen \in Nat

WatchType == [named: Nat, size: Sizes, proven: (SUBSET Pieces) \cup {Nothing}, damaged: BOOLEAN,
              renewed: BOOLEAN, hidden: BOOLEAN, retries: Nat]

FramesType ==
  /\ window \in [size: Sizes, mapped: BOOLEAN, alive: BOOLEAN, heir: BOOLEAN, crop: SUBSET Pieces]
  /\ gen \in Nat \ {0} /\ pixmaps \in Seq(Drawn) /\ Len(pixmaps) = gen
  /\ region \in SUBSET Pieces /\ events \in Seq(EventType)
  /\ paints \in Nat /\ watch \in WatchType
  /\ pc \in {"redirect", "report", "size", "name", "repair", "cut", "void", "crop", "repaint",
             "places", "subtract", "grab", "run", "look", "ended"}
  /\ left \in SUBSET Pieces /\ crop \in SUBSET Pieces /\ stamp \in Drawn
  /\ slot = [held |-> slot.held, status |-> slot.status, condition |-> slot.condition]
  /\ slot.held # Nothing => IsHeld(slot.held)

\* No drawing is newer than the last.
NoneIsNewer ==
  /\ \A p \in Pieces : stamp[p] <= paints
  /\ \A g \in 1 .. gen : \A p \in Pieces : pixmaps[g][p] <= paints

\* The event says the window is drawn elsewhere, or is no more.
Voids(event) ==
  \/ event.kind \in {"map", "unmap", "destroy"}
  \/ event.kind = "configure" /\ event.size # watch.size

Spoiled == watch.renewed \/ \E i \in DOMAIN events : Voids(events[i])

Destroys(event) == event.kind = "destroy"
TheEndIsReported ==
  ~window.alive => pc = "ended" \/ \E i \in DOMAIN events : Destroys(events[i])

\* The pixmap named is the one drawn into, unless an event says otherwise.
Named == {"repair", "cut", "void", "crop", "repaint", "places", "subtract", "grab", "run", "look"}

TheNameIsTheWindows ==
  /\ watch.named \in 0 .. gen /\ (pc \in Named => watch.named # 0)
  /\ pc = "name" /\ ~Spoiled => watch.size = window.size
  /\ pc \in Named /\ ~Spoiled =>
       watch.named = gen /\ watch.size = window.size /\ window.alive

\* The window drew p where the watch reads it, since the instant of the stamp.
IsDrawn(p) == pixmaps[watch.named][p] # 0 /\ stamp[p] <= pixmaps[watch.named][p]

\* What a report after the cut-off says was drawn, was; so was what the proof need no
\* longer see.
ReportsAreOfDrawing ==
  /\ pc \in {"crop", "repaint"} /\ ~watch.renewed =>
       \A i \in DOMAIN events : (\A j \in 1 .. i - 1 : ~Voids(events[j])) =>
         \A p \in events[i].places : IsDrawn(p)
  /\ pc = "repaint" /\ ~watch.renewed => \A p \in crop \ left : IsDrawn(p)

\* A proof is of the pixmap named.
ProofsHold ==
  /\ pc \in {"places", "subtract", "grab", "run", "look"} /\ watch.proven # Nothing =>
       \A p \in watch.proven : pixmaps[watch.named][p] # 0
  /\ pc \in {"places", "subtract", "grab"} =>
       /\ watch.proven # Nothing
       /\ \A p \in watch.proven : IsDrawn(p) \/ (Spoiled /\ slot.held = Nothing)
  /\ pc = "look" /\ ~Spoiled => \A p \in Pieces : stamp[p] <= pixmaps[watch.named][p]

Undamaged == ~watch.damaged /\ \A i \in DOMAIN events : events[i].kind # "damage"

\* What is held is what the pixmap holds, until drawing is reported; and it is.
HeldIsCurrent ==
  pc \in {"grab", "run", "look"} /\ ~watch.renewed /\ watch.proven # Nothing /\ Undamaged =>
    /\ region = {}
    /\ pc # "grab" /\ slot.held # Nothing => \A p \in DOMAIN slot.held.shown :
         slot.held.shown[p] \in {Black, pixmaps[watch.named][p]}

\* The watch vouches for what it holds, which may be a first picture of another pixmap
\* than the one its stamp was read with, once no event says otherwise.
Vouched == pc \in {"run", "look"} /\ watch.proven # Nothing /\ ~Spoiled

HeldIsOfItsStamp ==
  /\ pc \in {"run", "look"} => slot.held # Nothing
  /\ slot.held # Nothing =>
       /\ \A p \in DOMAIN slot.held.shown : slot.held.shown[p] # 0
       /\ Vouched => slot.status = "minimized" \/ OfItsStamp(slot.held)

FramesInv ==
  /\ FramesType /\ NoneIsNewer /\ TheEndIsReported /\ TheNameIsTheWindows
  /\ ReportsAreOfDrawing /\ ProofsHold /\ HeldIsCurrent /\ HeldIsOfItsStamp

\* What a watch that is up holds was read from the pixmap named.
HeldIsOfTheName ==
  pc \in {"run", "look"} /\ watch.proven # Nothing /\ ~watch.renewed /\ slot.held # Nothing =>
    slot.held.gen = watch.named

\* A request knows the window as it was when it began, and one told that the watch is up
\* finds a frame of no earlier window, for as long as it takes to fetch it.
RequestInv ==
  /\ request = [state |-> request.state, since |-> request.since, caught |-> request.caught]
  /\ request.state # "none" =>
       request.since.gen \in 1 .. gen /\ (window.alive => request.since.alive)
  /\ request.state = "caught" /\ request.caught = "up" /\ slot.condition = Nothing =>
       /\ request.since.alive /\ request.since.gen <= watch.named
       /\ slot.held # Nothing /\ request.since.gen <= slot.held.gen
       /\ slot.status = "minimized" \/ OfItsStamp(slot.held)
  /\ HeldIsOfTheName /\ NothingServedFromBeforeAChange /\ FramesAreOfTheirStamp

\* ---- the events unread --------------------------------------------------------------

LEMMA EventsAre ==
  ASSUME FramesType
  PROVE  /\ Len(events) \in Nat /\ DOMAIN events = 1 .. Len(events)
         /\ \A i \in DOMAIN events : events[i] \in EventType
BY LenProperties DEF FramesType

\* Events come after those there are.
LEMMA EventsGrow ==
  ASSUME FramesType, NEW added \in Seq(EventType), events' = events \o added
  PROVE  /\ events' \in Seq(EventType)
         /\ DOMAIN events' = 1 .. Len(events) + Len(added)
         /\ \A i \in DOMAIN events : i \in DOMAIN events' /\ events'[i] = events[i]
         /\ \A k \in DOMAIN added :
              Len(events) + k \in DOMAIN events' /\ events'[Len(events) + k] = added[k]
<1>1. /\ Len(events) \in Nat /\ DOMAIN events = 1 .. Len(events)
      /\ Len(added) \in Nat /\ DOMAIN added = 1 .. Len(added)
  BY EventsAre, LenProperties
<1>2. /\ events' \in Seq(EventType) /\ Len(events') = Len(events) + Len(added)
      /\ \A i \in 1 .. Len(events) + Len(added) :
           events'[i] = IF i <= Len(events) THEN events[i] ELSE added[i - Len(events)]
  BY ConcatProperties DEF FramesType
<1>3. DOMAIN events' = 1 .. Len(events) + Len(added)
  BY <1>2, LenProperties
<1>4. ASSUME NEW i \in DOMAIN events PROVE i \in DOMAIN events' /\ events'[i] = events[i]
  BY <1>1, <1>2, <1>3, <1>4
<1>5. ASSUME NEW k \in DOMAIN added
      PROVE  Len(events) + k \in DOMAIN events' /\ events'[Len(events) + k] = added[k]
  <2>1. /\ Len(events) + k \in 1 .. Len(events) + Len(added) /\ ~(Len(events) + k <= Len(events))
        /\ Len(events) + k - Len(events) = k
    BY <1>1
  <2> QED BY <1>2, <1>3, <2>1
<1> QED BY <1>2, <1>3, <1>4, <1>5

\* The oldest is read.
LEMMA EventsShift ==
  ASSUME FramesType, events # <<>>, events' = Tail(events)
  PROVE  /\ Head(events) = events[1] /\ events[1] \in EventType /\ 1 \in DOMAIN events
         /\ events' \in Seq(EventType)
         /\ \A i \in DOMAIN events' : i + 1 \in DOMAIN events /\ events'[i] = events[i + 1]
         /\ \A i \in DOMAIN events : i # 1 => i - 1 \in DOMAIN events' /\ events'[i - 1] = events[i]
<1>1. Len(events) \in Nat /\ DOMAIN events = 1 .. Len(events) /\ Len(events) # 0
  BY EventsAre, EmptySeq DEF FramesType
<1>2. /\ Head(events) = events[1] /\ events' \in Seq(EventType) /\ Len(events') = Len(events) - 1
      /\ \A i \in 1 .. Len(events') : events'[i] = events[i + 1]
  BY <1>1, HeadTailProperties DEF FramesType
<1>3. DOMAIN events' = 1 .. Len(events) - 1
  BY <1>2, LenProperties
<1>4. ASSUME NEW i \in DOMAIN events, i # 1
      PROVE  i - 1 \in DOMAIN events' /\ events'[i - 1] = events[i]
  <2>1. i - 1 \in 1 .. Len(events) - 1 /\ i - 1 + 1 = i
    BY <1>1, <1>4
  <2> QED BY <1>2, <1>3, <2>1
<1> QED BY <1>1, <1>2, <1>3, <1>4, EventsAre

\* Everything unread is read at once: unless something voids, the watch is as it was.
LEMMA CaughtIs ==
  ASSUME FramesType
  PROVE  LET w == Caught(watch)
         IN  /\ w \in WatchType
             /\ w.named = watch.named /\ w.proven = watch.proven /\ w.hidden = watch.hidden
             /\ w.damaged = (watch.damaged \/ \E i \in DOMAIN events : events[i].kind = "damage")
             /\ ~w.renewed /\ ~Destroyed => ~Spoiled /\ w.size = watch.size
             /\ ~w.renewed => ~watch.renewed
<1> DEFINE of(kinds) == {i \in DOMAIN events : events[i].kind \in kinds}
           sizes == of({"configure"})
           newest == CHOOSE i \in sizes : \A j \in sizes : j <= i
           size == IF sizes = {} THEN watch.size ELSE events[newest].size
           renewed == \/ watch.renewed \/ of({"map", "unmap"}) # {}
                      \/ \E i \in sizes : events[i].size # watch.size
           damaged == watch.damaged \/ of({"damage"}) # {}
           w == Caught(watch)
<1>1. w = [watch EXCEPT !.damaged = damaged, !.renewed = renewed, !.size = size]
  BY DEF Caught
<1>2. sizes # {} => newest \in sizes
  <2> SUFFICES ASSUME sizes # {} PROVE \E i \in sizes : \A j \in sizes : j <= i
    OBVIOUS
  <2> DEFINE fromEnd == {Len(events) - i : i \in sizes}
  <2>1. Len(events) \in Nat /\ DOMAIN events = 1 .. Len(events)
    BY EventsAre
  <2>2. fromEnd \subseteq Nat /\ fromEnd # {}
    BY <2>1
  <2>3. PICK d \in fromEnd : \A e \in fromEnd : ~(<<e, d>> \in OpToRel(<, Nat))
    BY <2>2, WFMin, NatLessThanWellFounded
  <2>4. PICK i \in sizes : d = Len(events) - i
    BY <2>3
  <2>5. ASSUME NEW j \in sizes PROVE j <= i
    <3>1. Len(events) - j \in fromEnd /\ Len(events) - j \in Nat /\ d \in Nat
      BY <2>1, <2>2, <2>3, <2>5
    <3>2. ~(Len(events) - j < d)
      BY <2>3, <3>1 DEF OpToRel
    <3> QED BY <2>1, <2>4, <3>1, <3>2
  <2> QED BY <2>4, <2>5
<1>3. size \in Sizes
  BY <1>2, EventsAre DEF EventType, FramesType, WatchType
<1> HIDE DEF size, renewed, damaged, w
<1>4. /\ w \in WatchType /\ w.damaged = damaged /\ w.renewed = renewed /\ w.size = size
      /\ w.named = watch.named /\ w.proven = watch.proven /\ w.hidden = watch.hidden
  <2>1. damaged \in BOOLEAN /\ renewed \in BOOLEAN
    BY DEF damaged, renewed, FramesType, WatchType
  <2> QED BY <1>1, <1>3, <2>1 DEF FramesType, WatchType
<1>5. damaged = (watch.damaged \/ \E i \in DOMAIN events : events[i].kind = "damage")
  BY DEF damaged
<1>6. ASSUME ~renewed, ~Destroyed PROVE ~Spoiled /\ size = watch.size
  BY <1>2, <1>6 DEF renewed, size, Spoiled, Voids, Destroyed
<1>7. ~renewed => ~watch.renewed
  BY DEF renewed
<1> QED BY <1>4, <1>5, <1>6, <1>7 DEF w

\* A frame is something.
LEMMA FramesAreThere ==
  ASSUME NEW h, IsHeld(h)
  PROVE  h # Nothing
<1> DEFINE places == DOMAIN h.shown
<1>1. places \in SUBSET Pieces /\ h.shown \in [places -> Int] /\ h.stamp \in [Pieces -> Nat] /\ h.gen \in Nat
      /\ h = [shown |-> h.shown, stamp |-> h.stamp, gen |-> h.gen]
  BY DEF IsHeld, Drawn
<1> HIDE DEF places
<1>2. h \in [shown : [places -> Int], stamp : [Pieces -> Nat], gen : Nat]
  BY <1>1
<1> QED BY <1>1, <1>2, WatchAssumption

LEMMA FramesStart ==
  ASSUME FramesInit
  PROVE  FramesInv /\ RequestInv
<1>1. PICK size \in Sizes :
        window = [size |-> size, mapped |-> TRUE, alive |-> TRUE, heir |-> FALSE, crop |-> Pieces]
  BY DEF FramesInit
<1>2. Foreign \in Drawn /\ \A p \in Pieces : Foreign[p] = 0
  BY DEF Foreign, Drawn
<1>3. pixmaps = <<Foreign>> /\ pixmaps \in Seq(Drawn) /\ Len(pixmaps) = 1 /\ pixmaps[1] = Foreign
  BY <1>2 DEF FramesInit
<1>4. events = <<>> /\ events \in Seq(EventType) /\ DOMAIN events = {}
  BY EmptySeq DEF FramesInit
<1>5. watch \in WatchType
  <2>1. window.size \in Sizes
    BY <1>1
  <2>2. watch = [named |-> 0, size |-> window.size, proven |-> Nothing, damaged |-> TRUE,
                 renewed |-> FALSE, hidden |-> FALSE, retries |-> 0]
    BY DEF FramesInit
  <2> QED BY <2>1, <2>2 DEF WatchType
<1>6. FramesType
  BY <1>1, <1>2, <1>3, <1>4, <1>5 DEF FramesInit, FramesType
<1>7. NoneIsNewer
  BY <1>2, <1>3 DEF FramesInit, NoneIsNewer
<1>8. TheEndIsReported /\ TheNameIsTheWindows
  BY <1>1 DEF FramesInit, TheEndIsReported, TheNameIsTheWindows, Named
<1>9. ReportsAreOfDrawing /\ ProofsHold /\ HeldIsCurrent /\ HeldIsOfItsStamp
  BY DEF FramesInit, ReportsAreOfDrawing, ProofsHold, HeldIsCurrent, HeldIsOfItsStamp
<1>10. RequestInv
  BY DEF FramesInit, RequestInv, HeldIsOfTheName, NothingServedFromBeforeAChange,
    FramesAreOfTheirStamp, Quiet
<1> QED BY <1>6, <1>7, <1>8, <1>9, <1>10 DEF FramesInv

\* ---- the server and the window --------------------------------------------------------

\* Whatever the server does while the watch is between two exchanges: what renews the
\* window says so first, and what is drawn is reported unless it is already.
LEMMA ServerKeeps ==
  ASSUME FramesInv, UNCHANGED watch_vars, FramesType', NoneIsNewer', gen <= gen',
         NEW added \in Seq(EventType), events' = events \o added,
         \A g \in 1 .. gen : \A p \in Pieces :
           pixmaps[g][p] <= pixmaps'[g][p] /\ pixmaps'[g][p] \in Nat,
         window'.alive \/ ~window.alive \/ \E k \in DOMAIN added : Destroys(added[k]),
         \/ gen' = gen /\ window'.size = window.size /\ window'.alive = window.alive
         \/ watch.size = window.size => \E k \in DOMAIN added : Voids(added[k]),
         \A k \in DOMAIN added :
           (watch.named = gen /\ watch.size = window.size /\ \A j \in 1 .. k - 1 : ~Voids(added[j])) =>
             \A p \in added[k].places : IsDrawn(p)',
         \/ region = {} => region' = {} /\ \A g \in 1 .. gen : pixmaps'[g] = pixmaps[g]
         \/ \E k \in DOMAIN added : added[k].kind = "damage"
  PROVE  FramesInv'
<1> USE DEF FramesInv
<1>1. UNCHANGED <<watch, pc, left, crop, stamp, slot>>
  BY DEF watch_vars, locals
<1>2. /\ DOMAIN events' = 1 .. Len(events) + Len(added)
      /\ Len(events) \in Nat /\ DOMAIN events = 1 .. Len(events)
      /\ Len(added) \in Nat /\ DOMAIN added = 1 .. Len(added)
      /\ \A i \in DOMAIN events : i \in DOMAIN events' /\ events'[i] = events[i]
      /\ \A k \in DOMAIN added :
           Len(events) + k \in DOMAIN events' /\ events'[Len(events) + k] = added[k]
  BY EventsGrow, EventsAre, LenProperties
<1>3. \A e : Voids(e)' <=> Voids(e)
  BY <1>1 DEF Voids
<1>4. ~Spoiled' => ~Spoiled /\ \A k \in DOMAIN added : ~Voids(added[k])
  <2>1. ASSUME NEW i \in DOMAIN events, Voids(events[i]) PROVE Spoiled'
    <3>1. i \in DOMAIN events' /\ events'[i] = events[i]
      BY <1>2
    <3>2. Voids(events[i])'
      BY <1>1, <2>1, <3>1 DEF Voids
    <3> QED BY <3>1, <3>2 DEF Spoiled
  <2>2. ASSUME NEW k \in DOMAIN added, Voids(added[k]) PROVE Spoiled'
    <3> DEFINE n == Len(events) + k
    <3>1. n \in DOMAIN events' /\ events'[n] = added[k]
      BY <1>2
    <3> HIDE DEF n
    <3>2. \E i \in DOMAIN events' : Voids(events[i])'
      BY <1>1, <2>2, <3>1 DEF Voids
    <3> QED BY <3>2 DEF Spoiled
  <2>3. watch.renewed => Spoiled'
    BY <1>1 DEF Spoiled
  <2> QED BY <2>1, <2>2, <2>3 DEF Spoiled
<1>5. ASSUME watch.named # 0, NEW p \in Pieces
      PROVE  /\ pixmaps[watch.named][p] <= pixmaps'[watch.named][p]
             /\ pixmaps[watch.named][p] \in Nat /\ pixmaps'[watch.named][p] \in Nat
             /\ stamp[p] \in Nat
             /\ IsDrawn(p) => IsDrawn(p)'
  <2>1. watch.named \in 1 .. gen /\ gen \in Nat /\ stamp[p] \in Nat
    BY <1>5 DEF TheNameIsTheWindows, FramesType, Drawn
  <2>2. pixmaps[watch.named] \in Drawn
    BY <2>1, LenProperties DEF FramesType
  <2>3. pixmaps[watch.named][p] <= pixmaps'[watch.named][p] /\ pixmaps'[watch.named][p] \in Nat
    BY <2>1
  <2>4. pixmaps[watch.named][p] \in Nat
    BY <2>2 DEF Drawn
  <2> QED BY <1>1, <2>1, <2>3, <2>4 DEF IsDrawn
<1>6. TheEndIsReported'
  BY <1>1, <1>2 DEF TheEndIsReported, Destroys
<1>7. TheNameIsTheWindows'
  <2>1. gen \in Nat /\ gen' \in Nat /\ watch.named \in 0 .. gen
    BY DEF FramesType, TheNameIsTheWindows
  <2>2. watch'.named \in 0 .. gen'
    BY <1>1, <2>1
  <2>3. (pc = "name" \/ pc \in Named) /\ ~Spoiled' =>
          gen' = gen /\ window'.size = window.size /\ window'.alive = window.alive
    BY <1>4 DEF TheNameIsTheWindows
  <2> QED BY <1>1, <1>4, <2>2, <2>3 DEF TheNameIsTheWindows
<1>8. ReportsAreOfDrawing'
  <2>1. ASSUME pc \in {"crop", "repaint"}, ~watch.renewed, NEW i \in DOMAIN events',
               \A j \in 1 .. i - 1 : ~Voids(events'[j]), NEW p \in events'[i].places
        PROVE  IsDrawn(p)'
    <3>1. watch.named # 0
      BY <2>1 DEF TheNameIsTheWindows, Named
    <3>2. CASE i \in DOMAIN events
      <4>1. \A j \in 1 .. i - 1 : ~Voids(events[j])
        BY <1>2, <2>1, <3>2
      <4>2. p \in events[i].places /\ p \in Pieces
        BY <1>2, <2>1, <3>2, EventsAre DEF EventType
      <4> QED BY <1>5, <2>1, <3>1, <3>2, <4>1, <4>2 DEF ReportsAreOfDrawing
    <3>3. CASE i \notin DOMAIN events
      <4> DEFINE k == i - Len(events)
      <4>1. k \in DOMAIN added /\ i = Len(events) + k
        BY <1>2, <3>3
      <4>2. ASSUME NEW j \in DOMAIN events PROVE ~Voids(events[j])
        <5>1. j \in 1 .. i - 1
          BY <1>2, <4>1
        <5> QED BY <1>2, <2>1, <5>1
      <4>3. \A j \in 1 .. k - 1 : ~Voids(added[j])
        <5> SUFFICES ASSUME NEW j \in 1 .. k - 1 PROVE ~Voids(added[j])
          OBVIOUS
        <5>1. j \in DOMAIN added /\ Len(events) + j \in 1 .. i - 1
          BY <1>2, <4>1
        <5> QED BY <1>2, <2>1, <5>1
      <4>4. watch.named = gen /\ watch.size = window.size
        BY <2>1, <4>2 DEF Spoiled, TheNameIsTheWindows, Named
      <4>5. p \in added[k].places
        BY <1>2, <2>1, <4>1
      <4> QED BY <4>1, <4>3, <4>4, <4>5
    <3> QED BY <3>2, <3>3
  <2>2. ASSUME pc = "repaint", ~watch.renewed, NEW p \in crop \ left PROVE IsDrawn(p)'
    BY <1>5, <2>2 DEF ReportsAreOfDrawing, TheNameIsTheWindows, Named, FramesType
  <2>3. \A j : Voids(events[j])' <=> Voids(events'[j])
    BY <1>1 DEF Voids
  <2> QED BY <1>1, <2>1, <2>2, <2>3 DEF ReportsAreOfDrawing
<1>9. ProofsHold'
  <2>1. ASSUME pc \in {"places", "subtract", "grab", "run", "look"} PROVE watch.named # 0
    BY <2>1 DEF TheNameIsTheWindows, Named
  <2>2. watch.proven # Nothing => watch.proven \subseteq Pieces
    BY DEF FramesType, WatchType
  <2>3. ASSUME pc \in {"places", "subtract", "grab", "run", "look"}, watch.proven # Nothing,
               NEW p \in watch.proven
        PROVE  pixmaps'[watch.named][p] # 0
    <3>1. p \in Pieces /\ pixmaps[watch.named][p] # 0
      BY <2>2, <2>3 DEF ProofsHold
    <3> QED BY <1>5, <2>1, <2>3, <3>1
  <2>4. ASSUME pc \in {"places", "subtract", "grab"}
        PROVE  /\ watch.proven # Nothing
               /\ \A p \in watch.proven : IsDrawn(p)' \/ (Spoiled' /\ slot.held = Nothing)
    BY <1>4, <1>5, <2>1, <2>2, <2>4 DEF ProofsHold
  <2>5. ASSUME pc = "look", ~Spoiled', NEW p \in Pieces PROVE stamp[p] <= pixmaps'[watch.named][p]
    BY <1>4, <1>5, <2>1, <2>5 DEF ProofsHold
  <2> QED BY <1>1, <2>3, <2>4, <2>5 DEF ProofsHold
<1>10. HeldIsCurrent'
  <2>1. Undamaged' => Undamaged /\ \A k \in DOMAIN added : added[k].kind # "damage"
    BY <1>1, <1>2 DEF Undamaged
  <2>2. ASSUME pc \in {"grab", "run", "look"}, ~watch.renewed, watch.proven # Nothing, Undamaged'
        PROVE  region' = {} /\ pixmaps'[watch.named] = pixmaps[watch.named]
    <3>1. region = {}
      BY <2>1, <2>2 DEF HeldIsCurrent
    <3>2. watch.named \in 1 .. gen
      BY <2>2 DEF TheNameIsTheWindows, Named, FramesType
    <3> QED BY <2>1, <2>2, <3>1, <3>2
  <2> QED BY <1>1, <2>1, <2>2 DEF HeldIsCurrent
<1>11. HeldIsOfItsStamp'
  BY <1>1, <1>4 DEF HeldIsOfItsStamp, Vouched
<1> QED BY <1>6, <1>7, <1>8, <1>9, <1>10, <1>11

\* What a report names was outside the region, and is damage unless there is nothing of it.
LEMMA ReportIs ==
  ASSUME FramesType, NEW places \in SUBSET Pieces
  PROVE  /\ Report(places) \in Seq(EventType)
         /\ ~(places \subseteq region) => Len(Report(places)) = 1 /\ DOMAIN Report(places) = {1}
         /\ \A k \in DOMAIN Report(places) :
              k = 1 /\ Report(places)[k].kind = "damage" /\ Report(places)[k].places = places \ region
<1> DEFINE damage == [kind |-> "damage", size |-> window.size, places |-> places \ region]
<1>1. damage \in EventType
  BY DEF FramesType, EventType
<1>2. /\ <<damage>> \in Seq(EventType) /\ Len(<<damage>>) = 1 /\ DOMAIN <<damage>> = {1}
      /\ <<damage>>[1] = damage
  BY <1>1
<1>3. <<>> \in Seq(EventType) /\ DOMAIN <<>> = {}
  BY EmptySeq
<1>4. Report(places) = IF places \subseteq region THEN <<>> ELSE <<damage>>
  BY DEF Report
<1>5. damage.kind = "damage" /\ damage.places = places \ region
  OBVIOUS
<1> HIDE DEF damage
<1> QED BY <1>2, <1>3, <1>4, <1>5

LEMMA PixmapsAre ==
  ASSUME FramesType
  PROVE  /\ DOMAIN pixmaps = 1 .. gen /\ gen \in Nat /\ gen # 0
         /\ \A g \in 1 .. gen : pixmaps[g] \in Drawn
         /\ \A g \in 1 .. gen : \A p \in Pieces : pixmaps[g][p] \in Nat
BY LenProperties DEF FramesType, Drawn

LEMMA PaintsKeeps ==
  ASSUME FramesInv, NEW p \in Pieces, Paints(p)
  PROVE  FramesInv'
<1> DEFINE added == Report({p})
<1>1. /\ Drawable /\ paints' = paints + 1 /\ pixmaps' = [pixmaps EXCEPT ![gen][p] = paints + 1]
      /\ events' = events \o added /\ region' = region \cup {p}
      /\ UNCHANGED <<window, gen, watch_vars>> /\ FramesType
  BY DEF Paints, FramesInv
<1>2. UNCHANGED <<watch, pc, left, crop, stamp, slot>>
  BY <1>1 DEF watch_vars, locals
<1>3. /\ added \in Seq(EventType)
      /\ p \notin region => Len(added) = 1 /\ DOMAIN added = {1}
      /\ \A k \in DOMAIN added : k = 1 /\ added[k].kind = "damage" /\ added[k].places = {p} \ region
  BY <1>1, ReportIs
<1> HIDE DEF added
<1>4. paints \in Nat /\ paints' \in Nat /\ paints < paints'
  BY <1>1 DEF FramesType
<1>5. /\ DOMAIN pixmaps' = 1 .. gen /\ pixmaps' \in Seq(Drawn) /\ Len(pixmaps') = gen
      /\ \A g \in 1 .. gen : \A q \in Pieces :
           pixmaps'[g][q] = IF g = gen /\ q = p THEN paints + 1 ELSE pixmaps[g][q]
  <2>1. /\ DOMAIN pixmaps = 1 .. gen /\ gen \in 1 .. gen /\ pixmaps \in Seq(Drawn)
        /\ Len(pixmaps) = gen /\ \A g \in 1 .. gen : pixmaps[g] \in Drawn
    BY <1>1, PixmapsAre DEF FramesType
  <2> DEFINE new == [pixmaps[gen] EXCEPT ![p] = paints + 1]
  <2>2. new \in Drawn /\ \A q \in Pieces : new[q] = IF q = p THEN paints + 1 ELSE pixmaps[gen][q]
    BY <1>1, <1>4, <2>1 DEF Drawn
  <2>3. pixmaps' = [pixmaps EXCEPT ![gen] = new]
    BY <1>1
  <2> HIDE DEF new
  <2>4. /\ DOMAIN pixmaps' = 1 .. gen
        /\ \A g \in 1 .. gen : pixmaps'[g] = IF g = gen THEN new ELSE pixmaps[g]
    BY <2>1, <2>3
  <2>5. pixmaps' \in Seq(Drawn) /\ Len(pixmaps') = Len(pixmaps)
    BY <2>1, <2>2, <2>3, ExceptSeq
  <2> QED BY <2>1, <2>2, <2>4, <2>5
<1>6. \A g \in 1 .. gen : \A q \in Pieces :
        pixmaps[g][q] <= paints /\ pixmaps[g][q] \in Nat /\ stamp[q] <= paints /\ stamp[q] \in Nat
  BY <1>1, PixmapsAre DEF FramesInv, NoneIsNewer, FramesType, Drawn
<1>7. /\ \A g \in 1 .. gen : \A q \in Pieces :
           pixmaps[g][q] <= pixmaps'[g][q] /\ pixmaps'[g][q] \in Nat /\ pixmaps'[g][q] <= paints'
      /\ pixmaps'[gen][p] = paints'
  BY <1>1, <1>4, <1>5, <1>6, PixmapsAre
<1>8. NoneIsNewer'
  BY <1>1, <1>2, <1>4, <1>6, <1>7 DEF NoneIsNewer, FramesInv, FramesType
<1>9. FramesType'
  <2>1. events' \in Seq(EventType)
    BY <1>1, <1>3, EventsGrow
  <2> QED BY <1>1, <1>2, <1>4, <1>5, <2>1 DEF FramesType, IsHeld
<1>10. ASSUME watch.named = gen PROVE IsDrawn(p)'
  BY <1>1, <1>2, <1>4, <1>6, <1>7, <1>10, PixmapsAre DEF IsDrawn
<1>11. \A k \in DOMAIN added : ~Voids(added[k]) /\ added[k].places \subseteq {p}
  BY <1>3 DEF Voids
<1>12. region = {} => \E k \in DOMAIN added : added[k].kind = "damage"
  BY <1>3
<1> QED BY <1>1, <1>3, <1>4, <1>7, <1>8, <1>9, <1>10, <1>11, <1>12, ServerKeeps, PixmapsAre

\* A new pixmap, of which nothing was drawn by the window.
LEMMA FreshPixmap ==
  ASSUME FramesType, NoneIsNewer, pixmaps' = Append(pixmaps, Foreign), gen' = gen + 1,
         UNCHANGED <<paints, stamp>>
  PROVE  /\ pixmaps' \in Seq(Drawn) /\ Len(pixmaps') = gen' /\ gen' \in Nat \ {0} /\ gen <= gen'
         /\ \A g \in 1 .. gen : pixmaps'[g] = pixmaps[g]
         /\ \A g \in 1 .. gen : \A p \in Pieces :
              pixmaps[g][p] <= pixmaps'[g][p] /\ pixmaps'[g][p] \in Nat
         /\ NoneIsNewer'
<1>1. Foreign \in Drawn /\ \A p \in Pieces : Foreign[p] = 0
  BY DEF Foreign, Drawn
<1>2. /\ pixmaps' \in Seq(Drawn) /\ Len(pixmaps') = Len(pixmaps) + 1
      /\ pixmaps'[Len(pixmaps) + 1] = Foreign
      /\ \A g \in 1 .. Len(pixmaps) : pixmaps'[g] = pixmaps[g]
  BY <1>1, AppendProperties DEF FramesType
<1>3. Len(pixmaps) = gen /\ gen \in Nat /\ gen # 0 /\ paints \in Nat
  BY DEF FramesType
<1>4. \A g \in 1 .. gen' : \A p \in Pieces : pixmaps'[g][p] <= paints
  BY <1>1, <1>2, <1>3 DEF NoneIsNewer
<1>5. NoneIsNewer'
  BY <1>4 DEF NoneIsNewer
<1> QED BY <1>2, <1>3, <1>5, PixmapsAre

LEMMA RenewsKeeps ==
  ASSUME FramesInv, NEW kind \in {"configure", "map"},
         window' \in [size: Sizes, mapped: BOOLEAN, alive: BOOLEAN, heir: BOOLEAN, crop: SUBSET Pieces],
         window'.alive, kind = "configure" => window'.size # window.size,
         Renews(kind), UNCHANGED <<paints, watch_vars>>
  PROVE  FramesInv'
<1> DEFINE notice == [kind |-> kind, size |-> window'.size, places |-> {}]
           report == Report(Pieces)
           added == <<notice>> \o report
<1>1. /\ gen' = gen + 1 /\ pixmaps' = Append(pixmaps, Foreign)
      /\ events' = events \o <<notice>> \o report /\ region' = Pieces /\ FramesType /\ NoneIsNewer
  BY DEF Renews, Notice, FramesInv
<1>2. UNCHANGED <<watch, pc, left, crop, stamp, slot>>
  BY DEF watch_vars, locals
<1>3. notice \in EventType /\ notice.kind = kind /\ notice.size = window'.size /\ notice.places = {}
  BY DEF EventType
<1> HIDE DEF notice
<1>4. /\ report \in Seq(EventType)
      /\ ~(Pieces \subseteq region) => Len(report) = 1 /\ DOMAIN report = {1}
      /\ \A k \in DOMAIN report : k = 1 /\ report[k].kind = "damage"
  BY <1>1, ReportIs
<1> HIDE DEF report
<1>5. <<notice>> \in Seq(EventType) /\ Len(<<notice>>) = 1 /\ <<notice>>[1] = notice
  BY <1>3
<1>6. /\ added \in Seq(EventType) /\ DOMAIN added = 1 .. 1 + Len(report) /\ Len(report) \in Nat
      /\ added[1] = notice /\ DOMAIN report = 1 .. Len(report)
      /\ \A k \in 1 .. Len(report) : added[k + 1] = report[k]
  <2>1. /\ added \in Seq(EventType) /\ Len(added) = Len(<<notice>>) + Len(report)
        /\ \A k \in 1 .. Len(<<notice>>) + Len(report) :
             added[k] = IF k <= Len(<<notice>>) THEN <<notice>>[k] ELSE report[k - Len(<<notice>>)]
    BY <1>4, <1>5, ConcatProperties
  <2>2. Len(report) \in Nat /\ DOMAIN report = 1 .. Len(report) /\ DOMAIN added = 1 .. Len(added)
    BY <1>4, <2>1, LenProperties
  <2>3. ASSUME NEW k \in 1 .. Len(report) PROVE added[k + 1] = report[k]
    <3>1. k + 1 \in 1 .. 1 + Len(report) /\ ~(k + 1 <= 1) /\ k + 1 - 1 = k
      BY <2>2
    <3> QED BY <1>5, <2>1, <3>1
  <2> QED BY <1>5, <2>1, <2>2, <2>3
<1>7. events' = events \o added
  <2> DEFINE first == <<notice>>
  <2>1. events \in Seq(EventType) /\ events' = (events \o first) \o report
    BY <1>1 DEF FramesType
  <2>2. first \in Seq(EventType) /\ added = first \o report
    BY <1>5
  <2> HIDE DEF first, added
  <2>3. \A s, t, u \in Seq(EventType) : (s \o t) \o u = s \o (t \o u)
    BY ConcatAssociative
  <2>4. (events \o first) \o report = events \o (first \o report)
    BY <1>4, <2>1, <2>2, <2>3
  <2> QED BY <2>1, <2>2, <2>4
<1> HIDE DEF added
<1>8. 1 \in DOMAIN added /\ (watch.size = window.size => Voids(added[1]))
  BY <1>3, <1>6 DEF Voids
<1>9. ASSUME NEW k \in DOMAIN added,
             watch.size = window.size, \A j \in 1 .. k - 1 : ~Voids(added[j])
      PROVE  added[k].places = {}
  <2>1. k = 1
    BY <1>6, <1>8, <1>9
  <2> QED BY <1>3, <1>6, <2>1
<1>10. \/ region = {} => region' = {} /\ \A g \in 1 .. gen : pixmaps'[g] = pixmaps[g]
       \/ \E k \in DOMAIN added : added[k].kind = "damage"
  <2>1. CASE Pieces \subseteq region
    BY <1>1, <1>2, <2>1, FreshPixmap
  <2>2. CASE ~(Pieces \subseteq region)
    <3>1. 1 \in 1 .. Len(report) /\ 1 + 1 \in DOMAIN added /\ added[1 + 1] = report[1]
      BY <1>4, <1>6, <2>2
    <3> QED BY <1>4, <1>6, <3>1
  <2> QED BY <2>1, <2>2
<1>11. FramesType'
  <2>1. events' \in Seq(EventType)
    BY <1>1, <1>6, <1>7, EventsGrow
  <2> QED BY <1>1, <1>2, <2>1, FreshPixmap DEF FramesType, IsHeld
<1> QED BY <1>1, <1>2, <1>6, <1>7, <1>8, <1>9, <1>10, <1>11, FreshPixmap, ServerKeeps

LEMMA NoticeKeeps ==
  ASSUME FramesInv, NEW kind \in {"unmap", "destroy"}, events' = Append(events, Notice(kind)),
         window' \in [size: Sizes, mapped: BOOLEAN, alive: BOOLEAN, heir: BOOLEAN, crop: SUBSET Pieces],
         window'.alive = window.alive \/ kind = "destroy",
         \/ UNCHANGED <<gen, pixmaps>>
         \/ gen' = gen + 1 /\ pixmaps' = Append(pixmaps, Foreign),
         UNCHANGED <<region, paints, watch_vars>>
  PROVE  FramesInv'
<1> DEFINE notice == [kind |-> kind, size |-> window'.size, places |-> {}]
           added == <<notice>>
<1>1. UNCHANGED <<watch, pc, left, crop, stamp, slot>> /\ FramesType /\ NoneIsNewer
  BY DEF watch_vars, locals, FramesInv
<1>2. /\ notice \in EventType /\ notice.kind = kind /\ notice.places = {}
      /\ events' = Append(events, notice)
  BY DEF EventType, Notice
<1> HIDE DEF notice
<1>3. /\ added \in Seq(EventType) /\ DOMAIN added = {1} /\ added[1] = notice
      /\ events' = events \o added
  BY <1>1, <1>2, AppendIsConcat DEF FramesType
<1> HIDE DEF added
<1>4. Voids(added[1]) /\ (kind = "destroy" => Destroys(added[1])) /\ added[1].places = {}
  BY <1>2, <1>3 DEF Voids, Destroys
<1>5. /\ pixmaps' \in Seq(Drawn) /\ Len(pixmaps') = gen' /\ gen' \in Nat \ {0} /\ gen <= gen'
      /\ \A g \in 1 .. gen : pixmaps'[g] = pixmaps[g]
      /\ \A g \in 1 .. gen : \A p \in Pieces :
           pixmaps[g][p] <= pixmaps'[g][p] /\ pixmaps'[g][p] \in Nat
      /\ NoneIsNewer'
  <2>1. CASE UNCHANGED <<gen, pixmaps>>
    <3>1. NoneIsNewer'
      BY <1>1, <2>1 DEF NoneIsNewer
    <3> QED BY <1>1, <2>1, <3>1, PixmapsAre DEF FramesType
  <2>2. CASE gen' = gen + 1 /\ pixmaps' = Append(pixmaps, Foreign)
    BY <1>1, <2>2, FreshPixmap
  <2> QED BY <2>1, <2>2
<1>6. FramesType'
  <2>1. events' \in Seq(EventType)
    BY <1>1, <1>3, EventsGrow
  <2> QED BY <1>1, <1>5, <2>1 DEF FramesType, IsHeld
<1> QED BY <1>1, <1>3, <1>4, <1>5, <1>6, ServerKeeps

LEMMA RecropsKeeps ==
  ASSUME FramesInv, Recrops
  PROVE  FramesInv'
<1>1. /\ UNCHANGED <<gen, pixmaps, region, events, paints, watch, pc, left, crop, stamp, slot>>
      /\ FramesType
      /\ \E places \in SUBSET Pieces : window' = [window EXCEPT !.crop = places]
  BY DEF Recrops, watch_vars, locals, FramesInv
<1>2. /\ window' \in [size: Sizes, mapped: BOOLEAN, alive: BOOLEAN, heir: BOOLEAN, crop: SUBSET Pieces]
      /\ window'.size = window.size /\ window'.alive = window.alive
  BY <1>1 DEF FramesType
<1>3. FramesType'
  BY <1>1, <1>2 DEF FramesType, IsHeld
<1>4. /\ (NoneIsNewer <=> NoneIsNewer') /\ (TheEndIsReported <=> TheEndIsReported')
      /\ (TheNameIsTheWindows <=> TheNameIsTheWindows')
  BY <1>1, <1>2 DEF NoneIsNewer, TheEndIsReported, Destroys, TheNameIsTheWindows, Spoiled, Voids
<1>5. ReportsAreOfDrawing <=> ReportsAreOfDrawing'
  BY <1>1 DEF ReportsAreOfDrawing, IsDrawn, Voids
<1>6. ProofsHold <=> ProofsHold'
  BY <1>1 DEF ProofsHold, IsDrawn, Spoiled, Voids
<1>7. (HeldIsCurrent <=> HeldIsCurrent') /\ (HeldIsOfItsStamp <=> HeldIsOfItsStamp')
  BY <1>1 DEF HeldIsCurrent, HeldIsOfItsStamp, Undamaged, Vouched, Spoiled, Voids
<1> QED BY <1>3, <1>4, <1>5, <1>6, <1>7 DEF FramesInv

LEMMA ServerStep ==
  ASSUME FramesInv, ServerNext
  PROVE  FramesInv'
<1> DEFINE Shapes == [size: Sizes, mapped: BOOLEAN, alive: BOOLEAN, heir: BOOLEAN, crop: SUBSET Pieces]
<1>1. window \in Shapes
  BY DEF FramesInv, FramesType
<1>2. CASE \E p \in Pieces : Paints(p)
  BY <1>2, PaintsKeeps
<1>3. CASE Resizes
  <2>1. PICK size \in Sizes \ {window.size} : window' = [window EXCEPT !.size = size]
    BY <1>3 DEF Resizes
  <2>2. window' \in Shapes /\ window'.size # window.size /\ window'.alive
    BY <1>1, <1>3, <2>1 DEF Resizes, Drawable
  <2> QED BY <1>3, <2>2, RenewsKeeps DEF Resizes
<1>4. CASE Maps
  <2>1. window' \in Shapes /\ window'.alive
    BY <1>1, <1>4 DEF Maps
  <2> QED BY <1>4, <2>1, RenewsKeeps DEF Maps
<1>5. CASE Unmaps
  <2>1. window' \in Shapes /\ window'.alive = window.alive
    BY <1>1, <1>5 DEF Unmaps
  <2> QED BY <1>5, <2>1, NoticeKeeps DEF Unmaps
<1>6. CASE Recrops
  BY <1>6, RecropsKeeps
<1>7. CASE Ends
  <2>1. window' \in Shapes
    BY <1>1, <1>7 DEF Ends
  <2> QED BY <1>7, <2>1, NoticeKeeps DEF Ends
<1> QED BY <1>2, <1>3, <1>4, <1>5, <1>6, <1>7 DEF ServerNext

\* ---- the thread's steps ---------------------------------------------------------------

LEMMA FaultsAre ==
  ASSUME FramesType, NEW why, Faults(why)
  PROVE  /\ slot' = [held |-> slot.held, status |-> slot.status, condition |-> why]
         /\ slot'.held = slot.held /\ slot'.status = slot.status /\ slot'.condition = why
         /\ slot' = [held |-> slot'.held, status |-> slot'.status, condition |-> slot'.condition]
         /\ pc' = "ended"
<1>1. /\ slot = [held |-> slot.held, status |-> slot.status, condition |-> slot.condition]
      /\ slot' = [slot EXCEPT !.condition = why] /\ pc' = "ended"
  BY DEF FramesType, Faults
<1>2. slot' = [held |-> slot.held, status |-> slot.status, condition |-> why]
  BY <1>1
<1> QED BY <1>1, <1>2

\* A watch that ends keeps its last frame, which is still of its stamp.
LEMMA EndKeeps ==
  ASSUME FramesInv, pc' = "ended", FramesType', watch'.named = watch.named,
         UNCHANGED <<gen, pixmaps, paints, stamp>>,
         slot'.held = Nothing \/ (slot'.held = slot.held /\ slot'.status = slot.status)
  PROVE  FramesInv'
<1>1. NoneIsNewer' /\ TheEndIsReported'
  BY DEF FramesInv, NoneIsNewer, TheEndIsReported
<1>2. TheNameIsTheWindows'
  BY DEF FramesInv, TheNameIsTheWindows, Named
<1>3. ReportsAreOfDrawing' /\ ProofsHold' /\ HeldIsCurrent'
  BY DEF ReportsAreOfDrawing, ProofsHold, HeldIsCurrent
<1>4. HeldIsOfItsStamp'
  BY DEF FramesInv, HeldIsOfItsStamp, Vouched
<1> QED BY <1>1, <1>2, <1>3, <1>4 DEF FramesInv

\* Before there is a pixmap to read, the frame held is all there is to keep.
LEMMA UnnamedKeeps ==
  ASSUME FramesInv, pc # "ended", pc' \in {"report", "size"}, FramesType', watch'.named = watch.named,
         UNCHANGED <<window, gen, pixmaps, paints, stamp, slot>>,
         \A i \in DOMAIN events : Destroys(events[i]) => \E k \in DOMAIN events' : Destroys(events'[k])
  PROVE  FramesInv'
<1>1. NoneIsNewer'
  BY DEF FramesInv, NoneIsNewer
<1>2. TheEndIsReported'
  BY DEF FramesInv, TheEndIsReported, Destroys
<1>3. TheNameIsTheWindows'
  BY DEF FramesInv, TheNameIsTheWindows, Named
<1>4. ReportsAreOfDrawing' /\ ProofsHold' /\ HeldIsCurrent'
  BY DEF ReportsAreOfDrawing, ProofsHold, HeldIsCurrent
<1>5. HeldIsOfItsStamp'
  BY DEF FramesInv, HeldIsOfItsStamp, Vouched
<1> QED BY <1>1, <1>2, <1>3, <1>4, <1>5 DEF FramesInv

\* One event is read: the watch is as it was unless the event voids.
LEMMA TookIs ==
  ASSUME FramesType, NEW event \in EventType
  PROVE  LET w == Took(watch, event)
         IN  /\ w \in WatchType
             /\ w.named = watch.named /\ w.proven = watch.proven
             /\ ~w.renewed /\ ~Destroys(event) => ~Voids(event) /\ w.size = watch.size
             /\ ~w.renewed => ~watch.renewed
<1> DEFINE w == Took(watch, event)
<1>1. watch \in WatchType /\ event.size \in Sizes
      /\ event.kind \in {"damage", "configure", "map", "unmap", "destroy"}
  BY DEF FramesType, EventType
<1>2. CASE event.kind = "damage"
  <2>1. w = [watch EXCEPT !.damaged = TRUE]
    BY <1>2 DEF Took
  <2> QED BY <1>1, <1>2, <2>1 DEF WatchType, Voids
<1>3. CASE event.kind = "configure"
  <2> DEFINE renewed == watch.renewed \/ event.size # watch.size
  <2>1. w = [watch EXCEPT !.renewed = renewed, !.size = event.size]
    BY <1>3 DEF Took
  <2>2. renewed \in BOOLEAN
    BY <1>1 DEF WatchType
  <2>3. ~renewed => ~watch.renewed /\ event.size = watch.size
    OBVIOUS
  <2> HIDE DEF renewed
  <2>4. w \in WatchType /\ w.named = watch.named /\ w.proven = watch.proven
        /\ w.renewed = renewed /\ w.size = event.size
    BY <1>1, <2>1, <2>2 DEF WatchType
  <2> QED BY <1>3, <2>3, <2>4 DEF Voids
<1>4. CASE event.kind \in {"map", "unmap"}
  <2>1. w = [watch EXCEPT !.renewed = TRUE]
    BY <1>4 DEF Took
  <2> QED BY <1>1, <2>1 DEF WatchType
<1>5. CASE event.kind = "destroy"
  <2>1. w = watch
    BY <1>5 DEF Took
  <2> QED BY <1>1, <1>5, <2>1 DEF Destroys
<1> QED BY <1>1, <1>2, <1>3, <1>4, <1>5

LEMMA FindsItGoneKeeps ==
  ASSUME FramesInv, FindsItGone
  PROVE  FramesInv'
<1>1. /\ Faults("gone") /\ FramesType
      /\ UNCHANGED <<window, gen, pixmaps, region, events, paints, watch, left, crop, stamp>>
  BY DEF FindsItGone, StepIsSilent, FramesInv
<1>2. FramesType'
  BY <1>1, FaultsAre DEF FramesType, IsHeld
<1> QED BY <1>1, <1>2, FaultsAre, EndKeeps

LEMMA RedirectsKeeps ==
  ASSUME FramesInv, Redirects
  PROVE  FramesInv'
<1>1. /\ FramesType /\ pc = "redirect"
      /\ UNCHANGED <<window, gen, pixmaps, paints, watch, left, crop, stamp>>
  BY DEF Redirects, At, FramesInv
<1>2. CASE events' = events \o Report(Pieces) /\ region' = Pieces /\ Goes("report")
  <2> DEFINE report == Report(Pieces)
  <2>1. report \in Seq(EventType)
    BY <1>1, ReportIs
  <2> HIDE DEF report
  <2>2. /\ events' \in Seq(EventType)
        /\ \A i \in DOMAIN events : i \in DOMAIN events' /\ events'[i] = events[i]
    BY <1>1, <1>2, <2>1, EventsGrow DEF report
  <2>3. FramesType'
    BY <1>1, <1>2, <2>2 DEF FramesType, IsHeld, Goes
  <2> QED BY <1>1, <1>2, <2>2, <2>3, UnnamedKeeps DEF Goes
<1>3. CASE Goes("size") /\ UNCHANGED <<events, region>>
  <2>1. FramesType'
    BY <1>1, <1>3 DEF FramesType, IsHeld, Goes
  <2> QED BY <1>1, <1>3, <2>1, UnnamedKeeps DEF Goes
<1>4. CASE Faults("minimized") /\ UNCHANGED <<events, region>>
  <2>1. FramesType'
    BY <1>1, <1>4, FaultsAre DEF FramesType, IsHeld
  <2> QED BY <1>1, <1>4, <2>1, FaultsAre, EndKeeps
<1> QED BY <1>2, <1>3, <1>4 DEF Redirects

LEMMA AwaitsReportKeeps ==
  ASSUME FramesInv, AwaitsReport
  PROVE  FramesInv'
<1>1. /\ FramesType /\ pc = "report"
      /\ UNCHANGED <<window, gen, pixmaps, region, paints, left, crop, stamp>>
  BY DEF AwaitsReport, At, FramesInv
<1>2. CASE Faults("unproven") /\ UNCHANGED <<events, watch>>
  <2>1. FramesType'
    BY <1>1, <1>2, FaultsAre DEF FramesType, IsHeld
  <2> QED BY <1>1, <1>2, <2>1, FaultsAre, EndKeeps
<1>3. CASE ReadsOne(Goes(IF Head(events).kind = "damage" THEN "size" ELSE "report"))
  <2>1. /\ events # <<>> /\ events' = Tail(events) /\ watch' = Took(watch, Head(events))
        /\ IF Head(events).kind = "destroy" THEN Faults("gone")
           ELSE Goes(IF Head(events).kind = "damage" THEN "size" ELSE "report")
    BY <1>3 DEF ReadsOne
  <2>2. /\ Head(events) = events[1] /\ events[1] \in EventType
        /\ events' \in Seq(EventType)
        /\ \A i \in DOMAIN events : i # 1 => i - 1 \in DOMAIN events' /\ events'[i - 1] = events[i]
    BY <1>1, <2>1, EventsShift
  <2>3. watch' \in WatchType /\ watch'.named = watch.named
    BY <1>1, <2>1, <2>2, TookIs
  <2>4. CASE Head(events).kind = "destroy"
    <3>1. Faults("gone")
      BY <2>1, <2>4
    <3>2. FramesType'
      BY <1>1, <2>2, <2>3, <3>1, FaultsAre DEF FramesType, IsHeld
    <3> QED BY <1>1, <2>3, <3>1, <3>2, FaultsAre, EndKeeps
  <2>5. CASE Head(events).kind # "destroy"
    <3>1. pc' \in {"size", "report"} /\ UNCHANGED slot
      BY <2>1, <2>5 DEF Goes
    <3>2. FramesType'
      BY <1>1, <2>2, <2>3, <3>1 DEF FramesType, IsHeld
    <3>3. \A i \in DOMAIN events : Destroys(events[i]) => \E k \in DOMAIN events' : Destroys(events'[k])
      BY <2>2, <2>5 DEF Destroys
    <3> QED BY <1>1, <2>3, <3>1, <3>2, <3>3, UnnamedKeeps
  <2> QED BY <2>4, <2>5
<1> QED BY <1>2, <1>3 DEF AwaitsReport

LEMMA ReadsSizeKeeps ==
  ASSUME FramesInv, ReadsSize
  PROVE  FramesInv'
<1>1. /\ FramesType /\ pc = "size" /\ pc' = "name"
      /\ UNCHANGED <<window, gen, pixmaps, region, events, paints, left, crop, stamp, slot>>
      /\ watch' = [watch EXCEPT !.size = window.size, !.renewed = FALSE]
  BY DEF ReadsSize, At, Goes, StepIsSilent, FramesInv
<1>2. watch' \in WatchType /\ watch'.named = watch.named /\ watch'.size = window.size
  BY <1>1 DEF FramesType, WatchType
<1>3. FramesType'
  BY <1>1, <1>2 DEF FramesType, IsHeld
<1>4. NoneIsNewer' /\ TheEndIsReported' /\ TheNameIsTheWindows' /\ HeldIsOfItsStamp'
  BY <1>1, <1>2 DEF FramesInv, NoneIsNewer, TheEndIsReported, Destroys, TheNameIsTheWindows, Named,
    HeldIsOfItsStamp, Vouched
<1>5. ReportsAreOfDrawing' /\ ProofsHold' /\ HeldIsCurrent'
  BY <1>1 DEF ReportsAreOfDrawing, ProofsHold, HeldIsCurrent
<1> QED BY <1>3, <1>4, <1>5 DEF FramesInv

\* The size read before it still the window's, the pixmap named is the one drawn into.
LEMMA NamesPixmapKeeps ==
  ASSUME FramesInv, NamesPixmap
  PROVE  FramesInv'
<1>1. /\ FramesType /\ pc = "name"
      /\ UNCHANGED <<window, gen, pixmaps, region, events, paints, left, crop, stamp>>
  BY DEF NamesPixmap, At, StepIsSilent, FramesInv
<1>2. CASE Faults("unavailable") /\ UNCHANGED watch
  <2>1. FramesType'
    BY <1>1, <1>2, FaultsAre DEF FramesType, IsHeld
  <2> QED BY <1>1, <1>2, <2>1, FaultsAre, EndKeeps
<1>3. CASE watch' = [watch EXCEPT !.named = gen] /\ Goes("repair")
  <2>1. pc' = "repair" /\ UNCHANGED slot
    BY <1>3 DEF Goes
  <2>2. /\ watch' \in WatchType /\ watch'.named = gen
        /\ watch'.size = watch.size /\ watch'.renewed = watch.renewed
    BY <1>1, <1>3, PixmapsAre DEF FramesType, WatchType
  <2>3. FramesType'
    BY <1>1, <2>1, <2>2 DEF FramesType, IsHeld
  <2>4. NoneIsNewer' /\ TheEndIsReported' /\ HeldIsOfItsStamp'
    BY <1>1, <2>1 DEF FramesInv, NoneIsNewer, TheEndIsReported, Destroys, HeldIsOfItsStamp, Vouched
  <2>5. (Spoiled' <=> Spoiled) /\ (~Spoiled => window.alive)
    BY <1>1, <2>2 DEF FramesInv, TheEndIsReported, Destroys, Spoiled, Voids
  <2>6. TheNameIsTheWindows'
    BY <1>1, <2>1, <2>2, <2>5, PixmapsAre DEF FramesInv, TheNameIsTheWindows, Named
  <2>7. ReportsAreOfDrawing' /\ ProofsHold' /\ HeldIsCurrent'
    BY <2>1 DEF ReportsAreOfDrawing, ProofsHold, HeldIsCurrent
  <2> QED BY <2>3, <2>4, <2>6, <2>7 DEF FramesInv
<1> QED BY <1>2, <1>3 DEF NamesPixmap

LEMMA RepairsKeeps ==
  ASSUME FramesInv, Repairs
  PROVE  FramesInv'
<1>1. /\ FramesType /\ pc = "repair" /\ pc' = "cut" /\ region' = {}
      /\ UNCHANGED <<window, gen, pixmaps, events, paints, watch, left, crop, stamp, slot>>
  BY DEF Repairs, At, Goes, FramesInv
<1>2. FramesType'
  BY <1>1 DEF FramesType, IsHeld
<1>3. NoneIsNewer' /\ TheEndIsReported' /\ HeldIsOfItsStamp'
  BY <1>1 DEF FramesInv, NoneIsNewer, TheEndIsReported, Destroys, HeldIsOfItsStamp, Vouched
<1>4. TheNameIsTheWindows'
  BY <1>1 DEF FramesInv, TheNameIsTheWindows, Named, Spoiled, Voids
<1>5. ReportsAreOfDrawing' /\ ProofsHold' /\ HeldIsCurrent'
  BY <1>1 DEF ReportsAreOfDrawing, ProofsHold, HeldIsCurrent
<1> QED BY <1>2, <1>3, <1>4, <1>5 DEF FramesInv

\* What was reported before the cut-off is set aside; the name stands unless it renewed.
LEMMA CutsOffKeeps ==
  ASSUME FramesInv, CutsOff
  PROVE  FramesInv'
<1> DEFINE w == Caught(watch)
<1>1. /\ FramesType /\ pc = "cut" /\ events' = <<>> /\ watch' = [w EXCEPT !.damaged = FALSE]
      /\ UNCHANGED <<window, gen, pixmaps, region, paints, left, crop, stamp>>
      /\ IF Destroyed THEN Faults("gone") ELSE Goes(IF watch'.renewed THEN "void" ELSE "crop")
  BY DEF CutsOff, At, FramesInv
<1>2. /\ w \in WatchType /\ w.named = watch.named
      /\ ~w.renewed /\ ~Destroyed => ~Spoiled /\ w.size = watch.size
  BY <1>1, CaughtIs
<1> HIDE DEF w
<1>3. /\ watch' \in WatchType /\ watch'.named = watch.named
      /\ watch'.size = w.size /\ watch'.renewed = w.renewed
  BY <1>1, <1>2 DEF WatchType
<1>4. events' \in Seq(EventType) /\ DOMAIN events' = {}
  BY <1>1, EmptySeq
<1>5. CASE Destroyed
  <2>1. Faults("gone")
    BY <1>1, <1>5
  <2>2. FramesType'
    BY <1>1, <1>3, <1>4, <2>1, FaultsAre DEF FramesType, IsHeld
  <2> QED BY <1>1, <1>3, <2>1, <2>2, FaultsAre, EndKeeps
<1>6. CASE ~Destroyed
  <2>1. UNCHANGED slot /\ pc' \in {"void", "crop"}
    BY <1>1, <1>6 DEF Goes
  <2>2. FramesType'
    BY <1>1, <1>3, <1>4, <2>1 DEF FramesType, IsHeld
  <2>3. NoneIsNewer' /\ HeldIsOfItsStamp'
    BY <1>1, <2>1 DEF FramesInv, NoneIsNewer, HeldIsOfItsStamp, Vouched
  <2>4. TheEndIsReported'
    BY <1>1, <1>6 DEF FramesInv, TheEndIsReported, Destroys, Destroyed
  <2>5. Spoiled' <=> w.renewed
    BY <1>3, <1>4 DEF Spoiled
  <2>6. TheNameIsTheWindows'
    BY <1>1, <1>2, <1>3, <1>6, <2>1, <2>5 DEF FramesInv, TheNameIsTheWindows, Named
  <2>7. ReportsAreOfDrawing' /\ ProofsHold' /\ HeldIsCurrent'
    BY <1>4, <2>1 DEF ReportsAreOfDrawing, ProofsHold, HeldIsCurrent
  <2> QED BY <2>2, <2>3, <2>4, <2>6, <2>7 DEF FramesInv
<1> QED BY <1>5, <1>6

LEMMA ExposesKeeps ==
  ASSUME FramesInv, Exposes
  PROVE  FramesInv'
<1>1. /\ FramesType /\ pc = "crop" /\ pc' = "repaint" /\ crop' = window.crop /\ left' = window.crop
      /\ UNCHANGED <<window, gen, pixmaps, region, events, paints, watch, stamp, slot>>
  BY DEF Exposes, At, Goes, StepIsSilent, FramesInv
<1>2. FramesType'
  BY <1>1 DEF FramesType, IsHeld
<1>3. NoneIsNewer' /\ TheEndIsReported' /\ HeldIsOfItsStamp'
  BY <1>1 DEF FramesInv, NoneIsNewer, TheEndIsReported, Destroys, HeldIsOfItsStamp, Vouched
<1>4. TheNameIsTheWindows'
  BY <1>1 DEF FramesInv, TheNameIsTheWindows, Named, Spoiled, Voids
<1>5. ReportsAreOfDrawing'
  BY <1>1 DEF FramesInv, ReportsAreOfDrawing, IsDrawn, Voids
<1>6. ProofsHold' /\ HeldIsCurrent'
  BY <1>1 DEF ProofsHold, HeldIsCurrent
<1> QED BY <1>2, <1>3, <1>4, <1>5, <1>6 DEF FramesInv

\* A report of drawing, read while nothing says the window renewed, is of this pixmap.
LEMMA AwaitsDrawingKeeps ==
  ASSUME FramesInv, AwaitsDrawing
  PROVE  FramesInv'
<1>1. /\ FramesType /\ pc = "repaint" /\ ~watch.renewed
      /\ events # <<>> /\ events' = Tail(events) /\ watch' = Took(watch, Head(events))
      /\ IF Head(events).kind = "destroy" THEN Faults("gone") ELSE Goes("repaint")
      /\ left' = left \ Head(events).places
      /\ UNCHANGED <<window, gen, pixmaps, region, paints, crop, stamp>>
  BY DEF AwaitsDrawing, ReadsOne, At, FramesInv
<1>2. /\ Head(events) = events[1] /\ events[1] \in EventType /\ 1 \in DOMAIN events
      /\ events' \in Seq(EventType)
      /\ \A i \in DOMAIN events' : i + 1 \in DOMAIN events /\ events'[i] = events[i + 1]
      /\ \A i \in DOMAIN events : i # 1 => i - 1 \in DOMAIN events' /\ events'[i - 1] = events[i]
  BY <1>1, EventsShift
<1>3. /\ watch' \in WatchType /\ watch'.named = watch.named
      /\ ~watch'.renewed /\ ~Destroys(events[1]) => ~Voids(events[1]) /\ watch'.size = watch.size
  BY <1>1, <1>2, TookIs
<1>4. events[1].places \subseteq Pieces /\ left' \in SUBSET Pieces
  BY <1>1, <1>2 DEF EventType, FramesType
<1>5. CASE Destroys(events[1])
  <2>1. Faults("gone")
    BY <1>1, <1>2, <1>5 DEF Destroys
  <2>2. FramesType'
    BY <1>1, <1>2, <1>3, <1>4, <2>1, FaultsAre DEF FramesType, IsHeld
  <2> QED BY <1>1, <1>3, <2>1, <2>2, FaultsAre, EndKeeps
<1>6. CASE ~Destroys(events[1])
  <2>1. pc' = "repaint" /\ UNCHANGED slot
    BY <1>1, <1>2, <1>6 DEF Goes, Destroys
  <2>2. FramesType'
    BY <1>1, <1>2, <1>3, <1>4, <2>1 DEF FramesType, IsHeld
  <2>3. NoneIsNewer' /\ HeldIsOfItsStamp'
    BY <1>1, <2>1 DEF FramesInv, NoneIsNewer, HeldIsOfItsStamp, Vouched
  <2>4. TheEndIsReported'
    BY <1>1, <1>2, <1>6, <2>1 DEF FramesInv, TheEndIsReported, Destroys
  <2>5. ASSUME ~watch'.renewed
        PROVE  /\ watch'.size = watch.size /\ ~Voids(events[1])
               /\ \A e : Voids(e)' <=> Voids(e)
    BY <1>3, <1>6, <2>5 DEF Voids
  <2>6. ASSUME ~Spoiled' PROVE ~Spoiled
    <3>1. ~watch'.renewed
      BY <2>6 DEF Spoiled
    <3>2. ASSUME NEW i \in DOMAIN events, Voids(events[i]) PROVE FALSE
      <4>1. i # 1
        BY <2>5, <3>1, <3>2
      <4>2. PICK k \in DOMAIN events' : events'[k] = events[i]
        BY <1>2, <4>1
      <4>3. Voids(events[k])'
        BY <2>5, <3>1, <3>2, <4>2 DEF Voids
      <4> QED BY <2>6, <4>2, <4>3 DEF Spoiled
    <3> QED BY <1>1, <3>2 DEF Spoiled
  <2>7. TheNameIsTheWindows'
    BY <1>1, <1>3, <2>1, <2>5, <2>6 DEF FramesInv, TheNameIsTheWindows, Named, Spoiled
  <2>8. \A p : IsDrawn(p)' <=> IsDrawn(p)
    BY <1>1, <1>3 DEF IsDrawn
  <2>9. ASSUME ~watch'.renewed, NEW i \in DOMAIN events', \A j \in 1 .. i - 1 : ~Voids(events'[j]),
               NEW p \in events'[i].places
        PROVE  IsDrawn(p)
    <3>1. i + 1 \in DOMAIN events /\ p \in events[i + 1].places /\ i \in Nat
      BY <1>1, <1>2, <2>9, EventsAre
    <3>2. ASSUME NEW j \in 1 .. (i + 1) - 1 PROVE ~Voids(events[j])
      <4>1. CASE j = 1
        BY <2>5, <2>9, <4>1
      <4>2. CASE j # 1
        <5>1. j \in DOMAIN events /\ j - 1 \in 1 .. i - 1
          BY <1>1, <3>1, <4>2, EventsAre
        <5> QED BY <1>2, <2>9, <4>2, <5>1
      <4> QED BY <4>1, <4>2
    <3> QED BY <1>1, <3>1, <3>2 DEF FramesInv, ReportsAreOfDrawing
  <2>10. ASSUME ~watch'.renewed, NEW p \in crop \ left' PROVE IsDrawn(p)
    <3>1. CASE p \notin left
      BY <1>1, <2>10, <3>1 DEF FramesInv, ReportsAreOfDrawing
    <3>2. CASE p \in events[1].places
      <4>1. \A j \in 1 .. 1 - 1 : ~Voids(events[j])
        OBVIOUS
      <4> QED BY <1>1, <1>2, <3>2, <4>1 DEF FramesInv, ReportsAreOfDrawing
    <3> QED BY <1>1, <1>2, <2>10, <3>1, <3>2
  <2>11. ReportsAreOfDrawing'
    <3>1. ~watch'.renewed => \A j : Voids(events[j])' <=> Voids(events'[j])
      BY <2>5 DEF Voids
    <3> QED BY <1>1, <2>8, <2>9, <2>10, <3>1 DEF ReportsAreOfDrawing
  <2>12. ProofsHold' /\ HeldIsCurrent'
    BY <2>1 DEF ProofsHold, HeldIsCurrent
  <2> QED BY <2>2, <2>3, <2>4, <2>7, <2>11, <2>12 DEF FramesInv
<1> QED BY <1>5, <1>6

LEMMA ProvedKeeps ==
  ASSUME FramesInv, Proved
  PROVE  FramesInv'
<1>1. /\ FramesType /\ pc = "repaint" /\ pc' = "places" /\ left = {} /\ ~watch.renewed
      /\ watch' = [watch EXCEPT !.proven = crop, !.retries = 0, !.hidden = FALSE, !.damaged = TRUE]
      /\ stamp' = IF slot.held = Nothing THEN pixmaps[gen] ELSE stamp
      /\ UNCHANGED <<window, gen, pixmaps, region, events, paints, left, crop, slot>>
  BY DEF Proved, At, Goes, StepIsSilent, FramesInv
<1>2. /\ watch' \in WatchType /\ watch'.named = watch.named /\ watch'.size = watch.size
      /\ watch'.renewed = watch.renewed /\ watch'.proven = crop
  BY <1>1 DEF FramesType, WatchType
<1>3. stamp' \in Drawn /\ \A p \in Pieces : stamp'[p] <= paints
  BY <1>1, PixmapsAre DEF FramesInv, NoneIsNewer, FramesType
<1>4. FramesType'
  BY <1>1, <1>2, <1>3 DEF FramesType, IsHeld
<1>5. NoneIsNewer' /\ TheEndIsReported' /\ HeldIsOfItsStamp'
  BY <1>1, <1>3 DEF FramesInv, NoneIsNewer, TheEndIsReported, Destroys, HeldIsOfItsStamp, Vouched
<1>6. TheNameIsTheWindows' /\ (Spoiled' <=> Spoiled)
  BY <1>1, <1>2 DEF FramesInv, TheNameIsTheWindows, Named, Spoiled, Voids
<1>7. \A p \in crop : p \in Pieces /\ IsDrawn(p)
  BY <1>1 DEF FramesInv, ReportsAreOfDrawing, FramesType
<1>8. ~Spoiled => watch.named = gen
  BY <1>1 DEF FramesInv, TheNameIsTheWindows, Named
<1>9. ASSUME NEW p \in crop PROVE IsDrawn(p)' \/ (Spoiled /\ slot.held = Nothing)
  <2>1. CASE slot.held = Nothing /\ ~Spoiled
    <3>1. stamp'[p] = pixmaps[watch.named][p] /\ pixmaps[watch.named][p] \in Nat
      BY <1>1, <1>7, <1>8, <2>1, PixmapsAre
    <3> QED BY <1>1, <1>2, <1>7, <3>1 DEF IsDrawn
  <2>2. CASE slot.held # Nothing
    BY <1>1, <1>2, <1>7, <2>2 DEF IsDrawn
  <2> QED BY <2>1, <2>2
<1>10. crop # Nothing
  BY <1>1, WatchAssumption DEF FramesType
<1>11. ProofsHold'
  BY <1>1, <1>2, <1>6, <1>7, <1>9, <1>10 DEF ProofsHold, IsDrawn
<1>12. ReportsAreOfDrawing' /\ HeldIsCurrent'
  BY <1>1 DEF ReportsAreOfDrawing, HeldIsCurrent
<1> QED BY <1>4, <1>5, <1>6, <1>11, <1>12 DEF FramesInv

\* Without a proof the frame held is not read again.
LEMMA UnprovedKeeps ==
  ASSUME FramesInv, pc \in Named, NEW retries \in Nat, Unproved(retries),
         UNCHANGED <<window, gen, pixmaps, region, events, paints, left, crop, stamp>>
  PROVE  FramesInv'
<1>1. FramesType
  BY DEF FramesInv
<1>2. CASE Faults("unproven") /\ UNCHANGED watch
  <2>1. FramesType'
    BY <1>1, <1>2, FaultsAre DEF FramesType, IsHeld
  <2> QED BY <1>1, <1>2, <2>1, FaultsAre, EndKeeps
<1>3. CASE /\ slot.held # Nothing /\ Goes("run")
           /\ watch' = [watch EXCEPT !.proven = Nothing, !.retries = retries, !.hidden = FALSE]
  <2>1. pc' = "run" /\ UNCHANGED slot
    BY <1>3 DEF Goes
  <2>2. /\ watch' \in WatchType /\ watch'.named = watch.named /\ watch'.size = watch.size
        /\ watch'.renewed = watch.renewed /\ watch'.proven = Nothing
    BY <1>1, <1>3 DEF FramesType, WatchType
  <2>3. FramesType'
    BY <1>1, <2>1, <2>2 DEF FramesType, IsHeld
  <2>4. NoneIsNewer' /\ TheEndIsReported' /\ HeldIsOfItsStamp'
    BY <1>3, <2>1, <2>2 DEF FramesInv, NoneIsNewer, TheEndIsReported, Destroys, HeldIsOfItsStamp,
      Vouched, Named
  <2>5. TheNameIsTheWindows'
    BY <2>1, <2>2 DEF FramesInv, TheNameIsTheWindows, Named, Spoiled, Voids
  <2>6. ReportsAreOfDrawing' /\ ProofsHold' /\ HeldIsCurrent'
    BY <2>1, <2>2 DEF ReportsAreOfDrawing, ProofsHold, HeldIsCurrent
  <2> QED BY <2>3, <2>4, <2>5, <2>6 DEF FramesInv
<1> QED BY <1>2, <1>3 DEF Unproved

LEMMA PlacesKeeps ==
  ASSUME FramesInv, Places
  PROVE  FramesInv'
<1>1. /\ FramesType /\ pc = "places" /\ crop' = window.crop
      /\ UNCHANGED <<window, gen, pixmaps, region, events, paints, left, stamp>>
  BY DEF Places, At, StepIsSilent, FramesInv
<1>2. crop' \in SUBSET Pieces
  BY <1>1 DEF FramesType
<1>3. CASE Goes("subtract") /\ UNCHANGED watch
  <2>1. pc' = "subtract" /\ UNCHANGED <<slot, watch>>
    BY <1>3 DEF Goes
  <2>2. FramesType'
    BY <1>1, <1>2, <2>1 DEF FramesType, IsHeld
  <2>3. NoneIsNewer' /\ TheEndIsReported' /\ HeldIsOfItsStamp'
    BY <1>1, <2>1 DEF FramesInv, NoneIsNewer, TheEndIsReported, Destroys, HeldIsOfItsStamp, Vouched
  <2>4. TheNameIsTheWindows'
    BY <1>1, <2>1 DEF FramesInv, TheNameIsTheWindows, Named, Spoiled, Voids
  <2>5. ProofsHold'
    BY <1>1, <2>1 DEF FramesInv, ProofsHold, IsDrawn, Spoiled, Voids
  <2>6. ReportsAreOfDrawing' /\ HeldIsCurrent'
    BY <2>1 DEF ReportsAreOfDrawing, HeldIsCurrent
  <2> QED BY <2>2, <2>3, <2>4, <2>5, <2>6 DEF FramesInv
<1>4. CASE /\ watch' = [watch EXCEPT !.renewed = TRUE]
           /\ IF slot.held = Nothing THEN Faults("unproven") ELSE Goes("run")
  <2>1. /\ watch' \in WatchType /\ watch'.named = watch.named /\ watch'.proven = watch.proven
        /\ watch'.renewed = TRUE
    BY <1>1, <1>4 DEF FramesType, WatchType
  <2>2. CASE slot.held = Nothing
    <3>1. Faults("unproven")
      BY <1>4, <2>2
    <3>2. FramesType'
      BY <1>1, <1>2, <2>1, <3>1, FaultsAre DEF FramesType, IsHeld
    <3> QED BY <1>1, <2>1, <3>1, <3>2, FaultsAre, EndKeeps
  <2>3. CASE slot.held # Nothing
    <3>1. pc' = "run" /\ UNCHANGED slot
      BY <1>4, <2>3 DEF Goes
    <3>2. FramesType'
      BY <1>1, <1>2, <2>1, <3>1 DEF FramesType, IsHeld
    <3>3. NoneIsNewer' /\ TheEndIsReported' /\ HeldIsOfItsStamp'
      BY <1>1, <2>1, <2>3, <3>1 DEF FramesInv, NoneIsNewer, TheEndIsReported, Destroys,
        HeldIsOfItsStamp, Vouched, Spoiled
    <3>4. TheNameIsTheWindows'
      BY <1>1, <2>1, <3>1 DEF FramesInv, TheNameIsTheWindows, Named, Spoiled
    <3>5. ProofsHold'
      BY <1>1, <2>1, <3>1 DEF FramesInv, ProofsHold
    <3>6. ReportsAreOfDrawing' /\ HeldIsCurrent'
      BY <2>1, <3>1 DEF ReportsAreOfDrawing, HeldIsCurrent
    <3> QED BY <3>2, <3>3, <3>4, <3>5, <3>6 DEF FramesInv
  <2> QED BY <2>2, <2>3
<1> QED BY <1>3, <1>4 DEF Places

LEMMA SubtractsKeeps ==
  ASSUME FramesInv, Subtracts
  PROVE  FramesInv'
<1>1. /\ FramesType /\ pc = "subtract" /\ pc' = "grab" /\ region' = {}
      /\ watch' = [watch EXCEPT !.damaged = FALSE]
      /\ UNCHANGED <<window, gen, pixmaps, events, paints, left, crop, stamp, slot>>
  BY DEF Subtracts, At, Goes, FramesInv
<1>2. /\ watch' \in WatchType /\ watch'.named = watch.named /\ watch'.size = watch.size
      /\ watch'.renewed = watch.renewed /\ watch'.proven = watch.proven
  BY <1>1 DEF FramesType, WatchType
<1>3. FramesType'
  BY <1>1, <1>2 DEF FramesType, IsHeld
<1>4. NoneIsNewer' /\ TheEndIsReported' /\ HeldIsOfItsStamp'
  BY <1>1 DEF FramesInv, NoneIsNewer, TheEndIsReported, Destroys, HeldIsOfItsStamp, Vouched
<1>5. TheNameIsTheWindows'
  BY <1>1, <1>2 DEF FramesInv, TheNameIsTheWindows, Named, Spoiled, Voids
<1>6. ProofsHold'
  BY <1>1, <1>2 DEF FramesInv, ProofsHold, IsDrawn, Spoiled, Voids
<1>7. ReportsAreOfDrawing' /\ HeldIsCurrent'
  BY <1>1 DEF ReportsAreOfDrawing, HeldIsCurrent
<1> QED BY <1>3, <1>4, <1>5, <1>6, <1>7 DEF FramesInv

\* A frame grabbed after another is of its stamp.
LEMMA GrabbedIs ==
  ASSUME FramesInv, pc = "grab"
  PROVE  LET taken == [shown |-> Shown, stamp |-> stamp, gen |-> watch.named]
         IN  IsHeld(taken) /\ (slot.held # Nothing => OfItsStamp(taken))
<1> DEFINE taken == [shown |-> Shown, stamp |-> stamp, gen |-> watch.named]
<1>1. FramesType /\ crop \in SUBSET Pieces /\ stamp \in Drawn /\ watch.named \in 1 .. gen /\ gen \in Nat
      /\ watch.proven # Nothing /\ watch.proven \subseteq Pieces
  BY DEF FramesInv, FramesType, ProofsHold, TheNameIsTheWindows, Named, WatchType
<1>2. /\ DOMAIN Shown = crop
      /\ \A p \in crop : Shown[p] = IF p \in watch.proven THEN pixmaps[watch.named][p] ELSE Black
  BY DEF Shown
<1>3. \A p \in Pieces : pixmaps[watch.named][p] \in Nat /\ stamp[p] \in Nat
  BY <1>1, PixmapsAre DEF Drawn
<1>4. Shown \in [crop -> Int]
  <2>1. Black \in Int /\ \A p \in crop : p \in Pieces
    BY <1>1 DEF Black
  <2>2. \A p \in crop : (IF p \in watch.proven THEN pixmaps[watch.named][p] ELSE Black) \in Int
    BY <1>3, <2>1
  <2> QED BY <2>2 DEF Shown
<1>7. ASSUME slot.held # Nothing, NEW p \in DOMAIN Shown
      PROVE  Shown[p] = Black \/ (Shown[p] # 0 /\ Shown[p] >= stamp[p])
  <2>1. p \in watch.proven => IsDrawn(p)
    BY <1>7 DEF FramesInv, ProofsHold
  <2> QED BY <1>1, <1>2, <1>3, <2>1 DEF IsDrawn
<1>8. /\ taken.shown = Shown /\ taken.stamp = stamp /\ taken.gen = watch.named
      /\ taken = [shown |-> taken.shown, stamp |-> taken.stamp, gen |-> taken.gen]
  OBVIOUS
<1> HIDE DEF taken
<1>9. IsHeld(taken)
  BY <1>1, <1>2, <1>4, <1>8 DEF IsHeld
<1>10. slot.held # Nothing => OfItsStamp(taken)
  BY <1>7, <1>8 DEF OfItsStamp
<1> QED BY <1>9, <1>10 DEF taken

\* The frame grabbed is the pixmap named, where the proof reached, and black elsewhere.
LEMMA GrabsKeeps ==
  ASSUME FramesInv, Grabs
  PROVE  FramesInv'
<1> DEFINE taken == [shown |-> Shown, stamp |-> stamp, gen |-> watch.named]
<1>1. /\ FramesType /\ pc = "grab" /\ pc' = "run"
      /\ slot' = [slot EXCEPT !.status = "live", !.held = taken]
      /\ UNCHANGED <<window, gen, pixmaps, region, events, paints, watch, left, crop, stamp>>
  BY DEF Grabs, At, StepIsSilent, FramesInv
<1>2. /\ taken.shown = Shown /\ taken.stamp = stamp /\ taken.gen = watch.named
      /\ taken = [shown |-> taken.shown, stamp |-> taken.stamp, gen |-> taken.gen]
  OBVIOUS
<1> HIDE DEF taken
<1>3. /\ slot'.held = taken /\ slot'.status = "live"
      /\ slot' = [held |-> slot'.held, status |-> slot'.status, condition |-> slot'.condition]
  <2>1. slot' = [held |-> taken, status |-> "live", condition |-> slot.condition]
    BY <1>1 DEF FramesType
  <2> QED BY <2>1
<1>4. /\ DOMAIN Shown = crop
      /\ \A p \in crop : Shown[p] = IF p \in watch.proven THEN pixmaps[watch.named][p] ELSE Black
  BY DEF Shown
<1>5. FramesType'
  <2>1. IsHeld(taken)
    BY <1>1, GrabbedIs DEF taken
  <2>2. slot'.held # Nothing => IsHeld(slot.held)'
    BY <1>3, <2>1 DEF IsHeld
  <2> QED BY <1>1, <1>3, <2>2 DEF FramesType
<1>6. NoneIsNewer' /\ TheEndIsReported'
  BY <1>1 DEF FramesInv, NoneIsNewer, TheEndIsReported, Destroys
<1>7. TheNameIsTheWindows'
  BY <1>1 DEF FramesInv, TheNameIsTheWindows, Named, Spoiled, Voids
<1>8. \A p \in crop : /\ Shown[p] # 0
                      /\ Shown[p] = Black \/ Shown[p] >= stamp[p] \/ (Spoiled /\ slot.held = Nothing)
  <2> SUFFICES ASSUME NEW p \in crop, p \in watch.proven
               PROVE  Shown[p] # 0 /\ (Shown[p] >= stamp[p] \/ (Spoiled /\ slot.held = Nothing))
    BY <1>4 DEF Black
  <2>1. pixmaps[watch.named][p] # 0 /\ (IsDrawn(p) \/ (Spoiled /\ slot.held = Nothing))
    BY <1>1 DEF FramesInv, ProofsHold
  <2>2. watch.named \in 1 .. gen /\ p \in Pieces
    BY <1>1 DEF FramesInv, TheNameIsTheWindows, Named, FramesType
  <2>3. pixmaps[watch.named][p] \in Nat /\ stamp[p] \in Nat
    BY <1>1, <2>2, PixmapsAre DEF FramesType, Drawn
  <2> QED BY <1>4, <2>1, <2>3 DEF IsDrawn
<1>9. HeldIsOfItsStamp'
  <2>1. taken # Nothing
    BY <1>1, GrabbedIs, FramesAreThere DEF taken
  <2>2. Spoiled' <=> Spoiled
    BY <1>1 DEF Spoiled, Voids
  <2>3. \A p \in DOMAIN taken.shown : taken.shown[p] # 0
    BY <1>2, <1>4, <1>8 DEF Black
  <2>4. ~Spoiled => OfItsStamp(taken)
    BY <1>2, <1>4, <1>8 DEF OfItsStamp
  <2> QED BY <1>3, <2>1, <2>2, <2>3, <2>4 DEF HeldIsOfItsStamp, Vouched
<1>10. ProofsHold'
  BY <1>1 DEF FramesInv, ProofsHold
<1>11. HeldIsCurrent'
  <2>1. Undamaged' => Undamaged
    BY <1>1 DEF Undamaged
  <2>2. \A p \in DOMAIN slot'.held.shown : slot'.held.shown[p] \in {Black, pixmaps[watch.named][p]}
    BY <1>2, <1>3, <1>4
  <2> QED BY <1>1, <2>1, <2>2 DEF FramesInv, HeldIsCurrent, Black
<1>12. ReportsAreOfDrawing'
  BY <1>1 DEF ReportsAreOfDrawing
<1> QED BY <1>5, <1>6, <1>7, <1>9, <1>10, <1>11, <1>12 DEF FramesInv

\* The stamp of an interval is what its window shows, which is the pixmap named.
LEMMA TicksKeeps ==
  ASSUME FramesInv, Ticks
  PROVE  FramesInv'
<1>1. /\ FramesType /\ pc = "run" /\ pc' = "look" /\ stamp' = pixmaps[gen]
      /\ UNCHANGED <<window, gen, pixmaps, region, events, paints, watch, left, crop, slot>>
  BY DEF Ticks, At, Goes, server_vars, FramesInv
<1>2. stamp' \in Drawn /\ \A p \in Pieces : stamp'[p] <= paints /\ stamp'[p] \in Nat
  BY <1>1, PixmapsAre DEF FramesInv, NoneIsNewer, Drawn
<1>3. FramesType'
  BY <1>1, <1>2 DEF FramesType, IsHeld
<1>4. NoneIsNewer' /\ TheEndIsReported' /\ HeldIsOfItsStamp'
  BY <1>1, <1>2 DEF FramesInv, NoneIsNewer, TheEndIsReported, Destroys, HeldIsOfItsStamp, Vouched,
    Spoiled, Voids
<1>5. TheNameIsTheWindows' /\ (Spoiled <=> Spoiled')
  BY <1>1 DEF FramesInv, TheNameIsTheWindows, Named, Spoiled, Voids
<1>6. ~Spoiled => watch.named = gen
  BY <1>1 DEF FramesInv, TheNameIsTheWindows, Named
<1>7. ProofsHold'
  <2>1. ~Spoiled => \A p \in Pieces : stamp'[p] <= pixmaps[watch.named][p]
    BY <1>1, <1>2, <1>6
  <2> QED BY <1>1, <1>5, <2>1 DEF FramesInv, ProofsHold
<1>8. ReportsAreOfDrawing'
  BY <1>1 DEF ReportsAreOfDrawing
<1>9. HeldIsCurrent'
  BY <1>1 DEF FramesInv, HeldIsCurrent, Undamaged
<1> QED BY <1>3, <1>4, <1>5, <1>7, <1>8, <1>9 DEF FramesInv

\* What an interval or a request reads of the events leaves the frame as it vouches for it:
\* the name stands unless the watch renewed, and so does what is held.
LEMMA DrainedIs ==
  ASSUME FramesInv, pc \in {"run", "look"}, ~Destroyed, NEW w, w = Caught(watch),
         pc' \in {"size", "places", "run"}, events' = <<>>,
         UNCHANGED <<window, gen, pixmaps, region, paints, left, crop, stamp>>,
         watch' = w \/ (pc' = "run" /\ watch' = [w EXCEPT !.hidden = TRUE])
  PROVE  /\ watch' \in WatchType /\ events' \in Seq(EventType) /\ DOMAIN events' = {}
         /\ watch'.named = watch.named /\ watch'.proven = watch.proven
         /\ watch'.renewed = w.renewed
         /\ w.proven = watch.proven /\ (~w.renewed => ~Spoiled /\ ~watch.renewed)
         /\ (~w.damaged => Undamaged)
         /\ NoneIsNewer' /\ TheEndIsReported' /\ TheNameIsTheWindows' /\ ReportsAreOfDrawing'
<1>1. FramesType
  BY DEF FramesInv
<1>2. /\ w \in WatchType
      /\ w.named = watch.named /\ w.proven = watch.proven
      /\ w.damaged = (watch.damaged \/ \E i \in DOMAIN events : events[i].kind = "damage")
      /\ ~w.renewed => ~Spoiled /\ w.size = watch.size /\ ~watch.renewed
  BY <1>1, CaughtIs
<1>3. events' \in Seq(EventType) /\ DOMAIN events' = {}
  BY EmptySeq
<1>4. /\ watch' \in WatchType /\ watch'.named = w.named /\ watch'.proven = w.proven
      /\ watch'.size = w.size /\ watch'.renewed = w.renewed
  BY <1>2 DEF WatchType
<1>5. ~w.damaged => Undamaged
  BY <1>2 DEF Undamaged
<1>6. NoneIsNewer'
  BY DEF FramesInv, NoneIsNewer
<1>7. TheEndIsReported'
  BY DEF FramesInv, TheEndIsReported, Destroyed, Destroys
<1>8. Spoiled' <=> w.renewed
  BY <1>3, <1>4 DEF Spoiled
<1>9. TheNameIsTheWindows'
  BY <1>2, <1>4, <1>8 DEF FramesInv, TheNameIsTheWindows, Named
<1>10. ReportsAreOfDrawing'
  BY DEF ReportsAreOfDrawing
<1> QED BY <1>2, <1>3, <1>4, <1>5, <1>6, <1>7, <1>9, <1>10

\* To the next interval, with the frame held as it was but for its status and stamp.
LEMMA RunsOn ==
  ASSUME FramesInv, pc \in {"run", "look"}, ~Destroyed, NEW w, w = Caught(watch),
         pc' = "run", events' = <<>>,
         UNCHANGED <<window, gen, pixmaps, region, paints, left, crop, stamp>>,
         watch' \in {w, [w EXCEPT !.hidden = TRUE]},
         FramesType', HeldIsOfItsStamp',
         slot.held # Nothing => slot'.held.shown = slot.held.shown,
         slot.held = Nothing => slot' = slot
  PROVE  FramesInv'
<1>1. /\ watch'.named = watch.named /\ watch'.proven = watch.proven /\ watch'.renewed = w.renewed
      /\ ~w.renewed => ~Spoiled /\ ~watch.renewed
      /\ ~w.damaged => Undamaged
      /\ NoneIsNewer' /\ TheEndIsReported' /\ TheNameIsTheWindows' /\ ReportsAreOfDrawing'
  BY DrainedIs
<1>2. ProofsHold'
  BY <1>1 DEF FramesInv, ProofsHold
<1>3. watch'.damaged = w.damaged
  BY CaughtIs DEF FramesInv, WatchType
<1>4. ASSUME ~watch'.renewed, watch'.proven # Nothing, Undamaged'
      PROVE  /\ region = {}
             /\ slot.held # Nothing => \A p \in DOMAIN slot.held.shown :
                  slot.held.shown[p] \in {Black, pixmaps[watch.named][p]}
  <2>1. Undamaged
    BY <1>1, <1>3, <1>4 DEF Undamaged
  <2> QED BY <1>1, <1>4, <2>1 DEF FramesInv, HeldIsCurrent
<1>5. HeldIsCurrent'
  BY <1>1, <1>4 DEF HeldIsCurrent, Black
<1> QED BY <1>1, <1>2, <1>5 DEF FramesInv

LEMMA NoteIs ==
  ASSUME FramesType, NEW status, Note(status)
  PROVE  /\ slot' = [held |-> slot'.held, status |-> slot'.status, condition |-> slot'.condition]
         /\ slot'.held # Nothing => IsHeld(slot'.held)
         /\ slot'.condition = slot.condition
         /\ slot.held = Nothing => slot' = slot
         /\ slot.held # Nothing =>
              /\ slot'.held # Nothing
              /\ slot'.status = status /\ slot'.held.shown = slot.held.shown
              /\ slot'.held.gen = slot.held.gen /\ slot'.held.stamp = stamp
<1>1. slot = [held |-> slot.held, status |-> slot.status, condition |-> slot.condition]
  BY DEF FramesType
<1>2. CASE slot.held = Nothing
  BY <1>1, <1>2 DEF Note
<1>3. CASE slot.held # Nothing
  <2>1. IsHeld(slot.held) /\ stamp \in Drawn
    BY <1>3 DEF FramesType
  <2> DEFINE h == [slot.held EXCEPT !.stamp = stamp]
  <2>2. slot' = [slot EXCEPT !.status = status, !.held = h]
    BY <1>3 DEF Note
  <2>3. /\ h = [shown |-> slot.held.shown, stamp |-> stamp, gen |-> slot.held.gen]
        /\ h.shown = slot.held.shown /\ h.stamp = stamp /\ h.gen = slot.held.gen
    BY <2>1 DEF IsHeld
  <2> HIDE DEF h
  <2>4. slot' = [held |-> h, status |-> status, condition |-> slot.condition]
    BY <1>1, <2>2
  <2>5. slot'.held = h /\ slot'.status = status /\ slot'.condition = slot.condition
    BY <2>4
  <2>6. IsHeld(h)
    BY <2>1, <2>3 DEF IsHeld
  <2> QED BY <1>3, <2>3, <2>4, <2>5, <2>6, FramesAreThere
<1> QED BY <1>2, <1>3

\* "Nothing changed" is said of the frame held only where the look that says it found
\* neither damage nor a renewal, and the stamp was read before that look.
LEMMA WatchLooksKeeps ==
  ASSUME FramesInv, WatchLooks
  PROVE  FramesInv'
<1> DEFINE w == Caught(watch)
<1>1. /\ FramesType /\ pc = "look" /\ events' = <<>>
      /\ UNCHANGED <<window, gen, pixmaps, region, paints, left, crop, stamp>>
      /\ IF Destroyed THEN watch' = w /\ Faults("gone") ELSE Steps(w)
  BY DEF WatchLooks, At, FramesInv
<1>2. w \in WatchType /\ w.named = watch.named /\ events' \in Seq(EventType)
  BY <1>1, CaughtIs, EmptySeq
<1>3. w = Caught(watch)
  OBVIOUS
<1> HIDE DEF w
<1>4. CASE Destroyed
  <2>1. Faults("gone") /\ watch' = w
    BY <1>1, <1>4
  <2>2. FramesType'
    BY <1>1, <1>2, <2>1, FaultsAre DEF FramesType, IsHeld
  <2> QED BY <1>1, <1>2, <2>1, <2>2, FaultsAre, EndKeeps
<1>5. CASE ~Destroyed /\ ~window.mapped
  <2>1. Note("minimized") /\ pc' = "run" /\ watch' = [w EXCEPT !.hidden = TRUE]
    BY <1>1, <1>5 DEF Steps
  <2>2. watch' \in WatchType
    BY <1>2, <2>1 DEF WatchType
  <2>3. FramesType'
    BY <1>1, <1>2, <2>1, <2>2, NoteIs DEF FramesType, IsHeld
  <2>4. HeldIsOfItsStamp'
    BY <1>1, <2>1, NoteIs DEF FramesInv, HeldIsOfItsStamp, Vouched
  <2> QED BY <1>1, <1>3, <1>5, <2>1, <2>3, <2>4, NoteIs, RunsOn
<1>6. CASE ~Destroyed /\ Goes("size") /\ watch' = w
  <2>1. pc' = "size" /\ UNCHANGED slot
    BY <1>6 DEF Goes
  <2>2. FramesType'
    BY <1>1, <1>2, <1>6, <2>1 DEF FramesType, IsHeld
  <2>3. \A i \in DOMAIN events : ~Destroys(events[i])
    BY <1>6 DEF Destroyed, Destroys
  <2> QED BY <1>1, <1>2, <1>6, <2>1, <2>2, <2>3, UnnamedKeeps
<1>7. CASE ~Destroyed /\ ~w.renewed /\ w.proven # Nothing /\ Goes("places") /\ watch' = w
  <2>1. pc' = "places" /\ UNCHANGED slot
    BY <1>7 DEF Goes
  <2>2. FramesType'
    BY <1>1, <1>2, <1>7, <2>1 DEF FramesType, IsHeld
  <2>3. /\ watch'.named = watch.named /\ watch'.proven = watch.proven /\ ~Spoiled
        /\ NoneIsNewer' /\ TheEndIsReported' /\ TheNameIsTheWindows' /\ ReportsAreOfDrawing'
    BY <1>1, <1>3, <1>7, <2>1, DrainedIs
  <2>4. watch.proven # Nothing /\ watch.proven \subseteq Pieces
    BY <1>1, <1>7, <2>3 DEF FramesType, WatchType
  <2>5. \A p \in watch.proven : IsDrawn(p)
    BY <1>1, <2>3, <2>4 DEF FramesInv, ProofsHold, IsDrawn
  <2>6. ProofsHold'
    BY <1>1, <2>1, <2>3, <2>4, <2>5 DEF ProofsHold, IsDrawn
  <2>7. HeldIsCurrent' /\ HeldIsOfItsStamp'
    BY <2>1 DEF FramesInv, HeldIsCurrent, HeldIsOfItsStamp, Vouched
  <2> QED BY <2>2, <2>3, <2>6, <2>7 DEF FramesInv
<1>8. CASE /\ ~Destroyed /\ ~w.renewed /\ w.proven # Nothing /\ ~w.damaged
           /\ Note("idle") /\ pc' = "run" /\ watch' = w
  <2>1. FramesType'
    BY <1>1, <1>2, <1>8, NoteIs DEF FramesType, IsHeld
  <2>2. ~Spoiled /\ ~watch.renewed /\ watch.proven # Nothing /\ Undamaged
    BY <1>1, <1>3, <1>8, DrainedIs
  <2>3. \A p \in Pieces : /\ stamp[p] <= pixmaps[watch.named][p] /\ stamp[p] \in Nat
                          /\ pixmaps[watch.named][p] \in Nat
    <3>1. watch.named \in 1 .. gen
      BY <1>1 DEF FramesInv, TheNameIsTheWindows, Named, FramesType
    <3> QED BY <1>1, <2>2, <3>1, PixmapsAre DEF FramesInv, ProofsHold, FramesType, Drawn
  <2>4. ASSUME slot.held # Nothing, NEW p \in DOMAIN slot.held.shown
        PROVE  slot.held.shown[p] # 0 /\ (slot.held.shown[p] = Black \/ slot.held.shown[p] >= stamp[p])
    <3>1. p \in Pieces
      BY <1>1, <2>4 DEF FramesType, IsHeld
    <3>2. slot.held.shown[p] \in {Black, pixmaps[watch.named][p]}
      BY <1>1, <2>2, <2>4 DEF FramesInv, HeldIsCurrent
    <3>3. slot.held.shown[p] # 0
      BY <2>4 DEF FramesInv, HeldIsOfItsStamp
    <3> QED BY <2>3, <3>1, <3>2, <3>3
  <2>5. HeldIsOfItsStamp'
    BY <1>1, <1>8, <2>4, NoteIs DEF FramesInv, HeldIsOfItsStamp, OfItsStamp
  <2> QED BY <1>1, <1>3, <1>8, <2>1, <2>5, NoteIs, RunsOn
<1> QED BY <1>1, <1>4, <1>5, <1>6, <1>7, <1>8 DEF Steps

LEMMA CatchesUpKeeps ==
  ASSUME FramesInv, CatchesUp
  PROVE  FramesInv'
<1> DEFINE w == Caught(watch)
<1>1. /\ FramesType /\ pc = "run" /\ events' = <<>> /\ watch' = w
      /\ UNCHANGED <<window, gen, pixmaps, region, paints, left, crop, stamp>>
      /\ IF Destroyed THEN Faults("gone") ELSE UNCHANGED <<slot, pc>>
  BY DEF CatchesUp, At, locals, FramesInv
<1>2. w \in WatchType /\ w.named = watch.named /\ events' \in Seq(EventType)
  BY <1>1, CaughtIs, EmptySeq
<1>3. w = Caught(watch)
  OBVIOUS
<1> HIDE DEF w
<1>4. CASE Destroyed
  <2>1. Faults("gone")
    BY <1>1, <1>4
  <2>2. FramesType'
    BY <1>1, <1>2, <2>1, FaultsAre DEF FramesType, IsHeld
  <2> QED BY <1>1, <1>2, <2>1, <2>2, FaultsAre, EndKeeps
<1>5. CASE ~Destroyed
  <2>1. FramesType'
    BY <1>1, <1>2, <1>5 DEF FramesType, IsHeld
  <2>2. ~w.renewed => ~Spoiled
    BY <1>1, <1>3, <1>5, CaughtIs
  <2>3. HeldIsOfItsStamp'
    <3>1. Vouched' => Vouched
      BY <1>1, <1>3, <1>5, <2>2, CaughtIs DEF Vouched, Spoiled
    <3> QED BY <1>1, <1>5, <3>1 DEF FramesInv, HeldIsOfItsStamp, Vouched
  <2> QED BY <1>1, <1>3, <1>5, <2>1, <2>3, RunsOn
<1> QED BY <1>4, <1>5

LEMMA FramesIdle ==
  ASSUME FramesInv, UNCHANGED <<server_vars, watch_vars>>
  PROVE  FramesInv'
<1>1. UNCHANGED <<window, gen, pixmaps, region, events, paints, watch, pc, left, crop, stamp, slot>>
  BY DEF server_vars, watch_vars, locals
<1>2. FramesType' /\ NoneIsNewer' /\ TheEndIsReported' /\ TheNameIsTheWindows'
  BY <1>1 DEF FramesInv, FramesType, IsHeld, NoneIsNewer, TheEndIsReported, Destroys,
    TheNameIsTheWindows, Named, Spoiled, Voids
<1>3. ReportsAreOfDrawing'
  BY <1>1 DEF FramesInv, ReportsAreOfDrawing, IsDrawn, Voids
<1>4. ProofsHold'
  BY <1>1 DEF FramesInv, ProofsHold, IsDrawn, Spoiled, Voids
<1>5. HeldIsCurrent' /\ HeldIsOfItsStamp'
  BY <1>1 DEF FramesInv, HeldIsCurrent, Undamaged, HeldIsOfItsStamp, Vouched, Spoiled, Voids
<1> QED BY <1>2, <1>3, <1>4, <1>5 DEF FramesInv

LEMMA WatchStep ==
  ASSUME FramesInv, WatchNext
  PROVE  FramesInv'
<1>1. CASE FindsItGone
  BY <1>1, FindsItGoneKeeps
<1>2. CASE Redirects
  BY <1>2, RedirectsKeeps
<1>3. CASE AwaitsReport
  BY <1>3, AwaitsReportKeeps
<1>4. CASE ReadsSize
  BY <1>4, ReadsSizeKeeps
<1>5. CASE NamesPixmap
  BY <1>5, NamesPixmapKeeps
<1>6. CASE Repairs
  BY <1>6, RepairsKeeps
<1>7. CASE CutsOff
  BY <1>7, CutsOffKeeps
<1>8. CASE Exposes
  BY <1>8, ExposesKeeps
<1>9. CASE AwaitsDrawing
  BY <1>9, AwaitsDrawingKeeps
<1>10. CASE Proved
  BY <1>10, ProvedKeeps
<1>11. CASE ProvedVoid
  <2>1. watch.retries \in Nat /\ pc \in Named
    BY <1>11 DEF ProvedVoid, At, Named, FramesInv, FramesType, WatchType
  <2> QED BY <1>11, <2>1, UnprovedKeeps DEF ProvedVoid, StepIsSilent
<1>12. CASE ProvedShort
  <2>1. watch.retries + 1 \in Nat /\ pc \in Named
    BY <1>12 DEF ProvedShort, At, Named, FramesInv, FramesType, WatchType
  <2> QED BY <1>12, <2>1, UnprovedKeeps DEF ProvedShort, StepIsSilent
<1>13. CASE Places
  BY <1>13, PlacesKeeps
<1>14. CASE Subtracts
  BY <1>14, SubtractsKeeps
<1>15. CASE Grabs
  BY <1>15, GrabsKeeps
<1>16. CASE Ticks
  BY <1>16, TicksKeeps
<1>17. CASE WatchLooks
  BY <1>17, WatchLooksKeeps
<1> QED BY <1>1, <1>2, <1>3, <1>4, <1>5, <1>6, <1>7, <1>8, <1>9, <1>10, <1>11, <1>12, <1>13, <1>14,
           <1>15, <1>16, <1>17 DEF WatchNext

LEMMA FramesStep ==
  ASSUME FramesInv, [FramesNext]_frames_vars
  PROVE  FramesInv'
<1>1. CASE ServerNext
  BY <1>1, ServerStep
<1>2. CASE WatchNext
  BY <1>2, WatchStep
<1>3. CASE RequestAsks \/ DoesNotCatchUp \/ Serves
  BY <1>3, FramesIdle DEF RequestAsks, DoesNotCatchUp, Serves
<1>4. CASE CatchesUp
  BY <1>4, CatchesUpKeeps
<1>5. CASE Stops
  <2>1. /\ FramesType /\ pc' = "ended"
        /\ slot' = [held |-> Nothing, status |-> "live", condition |-> Nothing]
        /\ UNCHANGED <<window, gen, pixmaps, region, events, paints, watch, left, crop, stamp>>
    BY <1>5 DEF Stops, StepIsSilent, FramesInv
  <2>2. slot'.held = Nothing /\ FramesType'
    BY <2>1 DEF FramesType
  <2> QED BY <2>1, <2>2, EndKeeps
<1>6. CASE UNCHANGED frames_vars
  BY <1>6, FramesIdle DEF frames_vars
<1> QED BY <1>1, <1>2, <1>3, <1>4, <1>5, <1>6 DEF FramesNext

-----------------------------------------------------------------------------
(* What a request is served. *)

\* A step that leaves the requests alone: windows and names only grow newer, and what is
\* held is what was held or of the name.
LEMMA RequestKeeps ==
  ASSUME FramesInv, RequestInv, FramesInv', UNCHANGED <<request, reply>>, gen <= gen',
         window'.alive => window.alive, watch.named <= watch'.named,
         request.state = "caught" /\ slot'.condition = Nothing => slot.condition = Nothing,
         \/ slot'.held = Nothing
         \/ slot'.held.gen = watch'.named
         \/ slot.held # Nothing /\ slot'.held.gen = slot.held.gen,
         slot.held # Nothing =>
           /\ slot'.held # Nothing
           /\ \/ slot'.status = "minimized" \/ OfItsStamp(slot'.held)
              \/ slot'.status = slot.status /\ slot'.held = slot.held,
         HeldIsOfTheName'
  PROVE  RequestInv'
<1>1. gen \in Nat /\ gen' \in Nat /\ watch.named \in Nat /\ watch'.named \in Nat
  BY DEF FramesInv, FramesType, WatchType
<1>2. slot.held # Nothing => slot.held.gen \in Nat
  BY DEF FramesInv, FramesType, IsHeld
<1>3. request'.state # "none" =>
        request'.since.gen \in 1 .. gen' /\ (window'.alive => request'.since.alive)
  BY <1>1 DEF RequestInv
<1>4. ASSUME request'.state = "caught", request'.caught = "up", slot'.condition = Nothing
      PROVE  /\ request'.since.alive /\ request'.since.gen <= watch'.named
             /\ slot'.held # Nothing /\ request'.since.gen <= slot'.held.gen
             /\ slot'.status = "minimized" \/ OfItsStamp(slot'.held)
  <2>1. /\ request.since.alive /\ request.since.gen <= watch.named
        /\ slot.held # Nothing /\ request.since.gen <= slot.held.gen
        /\ slot.status = "minimized" \/ OfItsStamp(slot.held)
        /\ request.since.gen \in Nat
    BY <1>1, <1>4 DEF RequestInv
  <2>2. request.since.gen <= watch'.named
    BY <1>1, <2>1
  <2> QED BY <2>1, <2>2
<1>5. NothingServedFromBeforeAChange' /\ FramesAreOfTheirStamp'
  BY DEF RequestInv, NothingServedFromBeforeAChange, FramesAreOfTheirStamp
<1> QED BY <1>3, <1>4, <1>5 DEF RequestInv

\* Until the next look the watch does not vouch for the frame it holds.
LEMMA RequestWaits ==
  ASSUME FramesInv, RequestInv, FramesInv', UNCHANGED <<window, gen, request, reply>>,
         watch.named <= watch'.named,
         slot'.held = slot.held, slot'.status = slot.status,
         slot'.condition = Nothing => slot.condition = Nothing,
         pc' \notin {"run", "look"} \/ watch'.proven = Nothing \/ watch'.renewed
  PROVE  RequestInv'
<1>1. HeldIsOfTheName'
  BY DEF HeldIsOfTheName
<1>2. gen <= gen'
  BY DEF FramesInv, FramesType
<1> QED BY <1>1, <1>2, RequestKeeps

LEMMA RequestServer ==
  ASSUME FramesInv, RequestInv, FramesInv', ServerNext
  PROVE  RequestInv'
<1>1. window \in [size: Sizes, mapped: BOOLEAN, alive: BOOLEAN, heir: BOOLEAN, crop: SUBSET Pieces]
      /\ gen \in Nat /\ watch.named \in Nat
  BY DEF FramesInv, FramesType, WatchType
<1>2. UNCHANGED <<watch, pc, slot, request, reply>>
  BY DEF ServerNext, Paints, Resizes, Maps, Unmaps, Recrops, Ends, watch_vars, locals, request_vars
<1>3. gen <= gen'
  <2>1. CASE gen' = gen
    BY <1>1, <2>1
  <2>2. CASE gen' = gen + 1
    BY <1>1, <2>2
  <2> QED BY <2>1, <2>2 DEF ServerNext, Paints, Resizes, Maps, Renews, Unmaps, Recrops, Ends
<1>4. window'.alive => window.alive
  <2>1. CASE Resizes \/ Maps \/ Unmaps \/ Recrops
    BY <1>1, <2>1 DEF Resizes, Maps, Unmaps, Recrops, Drawable
  <2>2. CASE Ends
    BY <1>1, <2>2 DEF Ends
  <2>3. CASE \E p \in Pieces : Paints(p)
    BY <2>3 DEF Paints
  <2> QED BY <2>1, <2>2, <2>3 DEF ServerNext
<1>5. HeldIsOfTheName'
  BY <1>2 DEF RequestInv, HeldIsOfTheName
<1> QED BY <1>1, <1>2, <1>3, <1>4, <1>5, RequestKeeps

LEMMA WhyIsSomething ==
  ASSUME FramesType, NEW why \in {"gone", "minimized", "unavailable", "unproven"}, Faults(why)
  PROVE  /\ slot'.condition # Nothing /\ slot'.held = slot.held /\ slot'.status = slot.status
         /\ pc' \notin {"run", "look"}
BY FaultsAre, WatchAssumption

LEMMA RequestWatch ==
  ASSUME FramesInv, RequestInv, FramesInv', WatchNext
  PROVE  RequestInv'
<1>1. FramesType /\ gen \in Nat /\ watch.named \in Nat /\ watch \in WatchType /\ watch.named <= gen
  BY DEF FramesInv, FramesType, WatchType, TheNameIsTheWindows
<1>2. UNCHANGED <<window, gen, reply, request>>
  BY DEF WatchNext, FindsItGone, Redirects, AwaitsReport, ReadsSize, NamesPixmap, Repairs, CutsOff,
    Exposes, AwaitsDrawing, Proved, ProvedVoid, ProvedShort, Places, Subtracts, Grabs, Ticks,
    WatchLooks, StepIsSilent, server_vars, request_vars
<1>3. CASE FindsItGone \/ Redirects
  <2>1. UNCHANGED watch
    BY <1>3 DEF FindsItGone, Redirects
  <2>2. /\ slot'.held = slot.held /\ slot'.status = slot.status
        /\ slot'.condition = Nothing => slot.condition = Nothing
        /\ pc' \notin {"run", "look"}
    BY <1>1, <1>3, WhyIsSomething DEF FindsItGone, Redirects, Goes
  <2> QED BY <1>1, <1>2, <2>1, <2>2, RequestWaits
<1>4. CASE ReadsSize
  BY <1>1, <1>2, <1>4, RequestWaits DEF ReadsSize, Goes, WatchType
<1>5. CASE NamesPixmap
  <2>1. watch.named <= watch'.named
    BY <1>1, <1>5 DEF NamesPixmap, WatchType
  <2>2. /\ slot'.held = slot.held /\ slot'.status = slot.status
        /\ slot'.condition = Nothing => slot.condition = Nothing
        /\ pc' \notin {"run", "look"}
    BY <1>1, <1>5, WhyIsSomething DEF NamesPixmap, Goes
  <2> QED BY <1>1, <1>2, <2>1, <2>2, RequestWaits
<1>6. CASE AwaitsReport \/ AwaitsDrawing
  <2>1. watch'.named = watch.named
    <3>1. CASE UNCHANGED watch
      BY <3>1
    <3>2. CASE events # <<>> /\ events' = Tail(events) /\ watch' = Took(watch, Head(events))
      <4>1. Head(events) \in EventType
        BY <1>1, <3>2, EventsShift
      <4> QED BY <1>1, <3>2, <4>1, TookIs
    <3> QED BY <1>6, <3>1, <3>2 DEF AwaitsReport, AwaitsDrawing, ReadsOne
  <2>2. /\ slot'.held = slot.held /\ slot'.status = slot.status
        /\ slot'.condition = Nothing => slot.condition = Nothing
        /\ pc' \notin {"run", "look"}
    BY <1>1, <1>6, WhyIsSomething DEF AwaitsReport, AwaitsDrawing, ReadsOne, Goes
  <2> QED BY <1>1, <1>2, <2>1, <2>2, RequestWaits
<1>7. CASE Repairs \/ Exposes \/ Proved \/ Subtracts
  <2>1. watch'.named = watch.named /\ UNCHANGED slot /\ pc' \notin {"run", "look"}
    BY <1>1, <1>7 DEF Repairs, Exposes, Proved, Subtracts, Goes, StepIsSilent, WatchType
  <2> QED BY <1>1, <1>2, <2>1, RequestWaits
<1>8. CASE CutsOff
  <2>1. watch'.named = watch.named
    BY <1>1, <1>8, CaughtIs DEF CutsOff, WatchType
  <2>2. /\ slot'.held = slot.held /\ slot'.status = slot.status
        /\ slot'.condition = Nothing => slot.condition = Nothing
        /\ pc' \notin {"run", "look"}
    BY <1>1, <1>8, WhyIsSomething DEF CutsOff, Goes
  <2> QED BY <1>1, <1>2, <2>1, <2>2, RequestWaits
<1>9. CASE ProvedVoid \/ ProvedShort
  <2>1. PICK retries : Unproved(retries)
    BY <1>9 DEF ProvedVoid, ProvedShort
  <2>2. CASE Faults("unproven") /\ UNCHANGED watch
    BY <1>1, <1>2, <2>2, WhyIsSomething, RequestWaits
  <2>3. CASE /\ Goes("run")
             /\ watch' = [watch EXCEPT !.proven = Nothing, !.retries = retries, !.hidden = FALSE]
    <3>1. watch'.proven = Nothing /\ watch'.named = watch.named /\ UNCHANGED slot
      BY <1>1, <2>3 DEF WatchType, Goes
    <3> QED BY <1>1, <1>2, <3>1, RequestWaits
  <2> QED BY <2>1, <2>2, <2>3 DEF Unproved
<1>10. CASE Places
  <2>1. watch'.named = watch.named
    BY <1>1, <1>10 DEF Places, WatchType
  <2>2. /\ slot'.held = slot.held /\ slot'.status = slot.status
        /\ slot'.condition = Nothing => slot.condition = Nothing
    BY <1>1, <1>10, WhyIsSomething DEF Places, Goes
  <2>3. pc' \notin {"run", "look"} \/ watch'.renewed
    BY <1>1, <1>10, WhyIsSomething DEF Places, Goes, WatchType
  <2> QED BY <1>1, <1>2, <2>1, <2>2, <2>3, RequestWaits
<1>11. CASE Grabs
  <2>1. UNCHANGED watch /\ slot'.held.gen = watch.named /\ slot'.condition = slot.condition
        /\ slot'.held = [shown |-> Shown, stamp |-> stamp, gen |-> watch.named]
    BY <1>1, <1>11 DEF Grabs, FramesType
  <2>2. HeldIsOfTheName'
    BY <2>1 DEF HeldIsOfTheName
  <2>3. slot'.held # Nothing /\ (slot.held # Nothing => OfItsStamp(slot'.held))
    BY <1>11, <2>1, GrabbedIs, FramesAreThere DEF Grabs, At
  <2> QED BY <1>1, <1>2, <2>1, <2>2, <2>3, RequestKeeps
<1>12. CASE Ticks
  <2>1. UNCHANGED <<watch, slot>> /\ pc = "run"
    BY <1>12 DEF Ticks, At, Goes
  <2>2. HeldIsOfTheName'
    BY <2>1 DEF RequestInv, HeldIsOfTheName
  <2> QED BY <1>1, <1>2, <2>1, <2>2, RequestKeeps
<1>13. CASE WatchLooks
  <2> DEFINE w == Caught(watch)
  <2>1. /\ w \in WatchType /\ w.named = watch.named /\ w.proven = watch.proven
        /\ ~w.renewed => ~watch.renewed
    BY <1>1, CaughtIs
  <2>2. pc = "look" /\ IF Destroyed THEN watch' = w /\ Faults("gone") ELSE Steps(w)
    BY <1>13 DEF WatchLooks, At
  <2> HIDE DEF w
  <2>3. watch'.named = watch.named /\ watch'.proven = watch.proven /\ watch'.renewed = w.renewed
    BY <2>1, <2>2 DEF Steps, WatchType
  <2>4. CASE Destroyed
    BY <1>1, <1>2, <2>2, <2>3, <2>4, WhyIsSomething, RequestWaits
  <2>5. CASE \E part \in {"size", "places"} : Goes(part)
    BY <1>1, <1>2, <2>3, <2>5, RequestWaits DEF Goes
  <2>6. CASE \/ Note("minimized") /\ pc' = "run"
             \/ Note("idle") /\ pc' = "run" /\ watch' = w /\ ~w.renewed /\ w.proven # Nothing
    <3>1. /\ slot'.condition = slot.condition
          /\ slot.held = Nothing => slot'.held = Nothing
          /\ slot.held # Nothing => slot'.held.gen = slot.held.gen
      BY <1>1, <2>6, NoteIs
    <3>3. slot.held # Nothing => slot'.held # Nothing /\ (slot'.status = "minimized" \/ OfItsStamp(slot'.held))
      <4>1. CASE slot.held = Nothing
        BY <4>1
      <4>2. CASE slot.held # Nothing /\ Note("minimized") /\ pc' = "run"
        BY <1>1, <4>2, NoteIs DEF FramesInv, HeldIsOfItsStamp
      <4>3. CASE /\ slot.held # Nothing /\ Note("idle") /\ pc' = "run" /\ watch' = w
                 /\ ~w.renewed /\ w.proven # Nothing
        <5>1. events' = <<>>
          BY <1>13 DEF WatchLooks
        <5>2. ~Spoiled' /\ Vouched'
          BY <4>3, <5>1, EmptySeq DEF Spoiled, Vouched
        <5> QED BY <4>3, <5>2 DEF FramesInv, HeldIsOfItsStamp
      <4> QED BY <2>6, <4>1, <4>2, <4>3
    <3>2. HeldIsOfTheName'
      BY <2>1, <2>2, <2>3, <3>1 DEF RequestInv, HeldIsOfTheName
    <3> QED BY <1>1, <1>2, <2>3, <3>1, <3>2, <3>3, RequestKeeps
  <2> QED BY <2>2, <2>4, <2>5, <2>6 DEF Steps
<1> QED BY <1>3, <1>4, <1>5, <1>6, <1>7, <1>8, <1>9, <1>10, <1>11, <1>12, <1>13 DEF WatchNext

\* A watch that is up when the request has caught up names the pixmap drawn into, and
\* what it holds is of that: no window is newer, and the request began before.
LEMMA RequestStep ==
  ASSUME FramesInv, RequestInv, [FramesNext]_frames_vars
  PROVE  RequestInv'
<1>1. FramesInv' /\ FramesType /\ gen \in Nat /\ gen # 0 /\ watch.named \in Nat
  BY FramesStep DEF FramesInv, FramesType, WatchType
<1>2. /\ request = [state |-> request.state, since |-> request.since, caught |-> request.caught]
      /\ HeldIsOfTheName
  BY DEF RequestInv
<1>3. CASE ServerNext
  BY <1>1, <1>3, RequestServer
<1>4. CASE WatchNext
  BY <1>1, <1>4, RequestWatch
<1>5. CASE RequestAsks
  <2>1. /\ request' = [state |-> "asked", since |-> [gen |-> gen, alive |-> window.alive], caught |-> Nothing]
        /\ reply' = Nothing /\ UNCHANGED <<window, gen, watch, pc, slot>>
    BY <1>5 DEF RequestAsks, server_vars, watch_vars, locals
  <2>2. HeldIsOfTheName'
    BY <1>2, <2>1 DEF HeldIsOfTheName
  <2> QED BY <1>1, <2>1, <2>2 DEF RequestInv, NothingServedFromBeforeAChange, FramesAreOfTheirStamp
<1>6. CASE CatchesUp
  <2> DEFINE w == Caught(watch)
  <2>1. /\ pc = "run" /\ request.state = "asked" /\ watch' = w
        /\ request' = [request EXCEPT !.state = "caught", !.caught = Standing(w)]
        /\ IF Destroyed THEN Faults("gone") ELSE UNCHANGED <<slot, pc>>
        /\ UNCHANGED <<window, gen, reply>>
    BY <1>6 DEF CatchesUp, At, locals
  <2>2. /\ w.named = watch.named /\ w.proven = watch.proven
        /\ ~w.renewed /\ ~Destroyed => ~Spoiled
        /\ ~w.renewed => ~watch.renewed
    BY <1>1, CaughtIs
  <2> HIDE DEF w
  <2>3. /\ request' = [state |-> "caught", since |-> request.since, caught |-> Standing(w)]
        /\ request.since.gen \in 1 .. gen /\ (window.alive => request.since.alive)
    BY <1>2, <2>1 DEF RequestInv
  <2>4. HeldIsOfTheName'
    BY <1>1, <1>2, <2>1, <2>2, WhyIsSomething DEF HeldIsOfTheName
  <2>5. ASSUME request'.caught = "up", slot'.condition = Nothing
        PROVE  /\ request.since.alive /\ request.since.gen <= watch'.named
               /\ slot'.held # Nothing /\ request.since.gen <= slot'.held.gen
               /\ slot'.status = "minimized" \/ OfItsStamp(slot'.held)
    <3>1. ~Destroyed
      BY <1>1, <2>1, <2>5, WhyIsSomething
    <3>2. ~w.renewed /\ w.proven # Nothing
      BY <2>3, <2>5 DEF Standing
    <3>3. watch.named = gen /\ window.alive
      BY <2>1, <2>2, <3>1, <3>2 DEF FramesInv, TheNameIsTheWindows, Named
    <3>4. Vouched
      BY <2>1, <2>2, <3>1, <3>2 DEF Vouched
    <3>5. slot.held # Nothing /\ (slot.status = "minimized" \/ OfItsStamp(slot.held))
      BY <2>1, <3>4 DEF FramesInv, HeldIsOfItsStamp
    <3>6. slot.held.gen = watch.named
      BY <1>2, <2>1, <2>2, <3>2, <3>5 DEF HeldIsOfTheName
    <3> QED BY <1>1, <2>1, <2>2, <2>3, <3>1, <3>3, <3>5, <3>6
  <2>6. NothingServedFromBeforeAChange' /\ FramesAreOfTheirStamp'
    BY <2>1 DEF RequestInv, NothingServedFromBeforeAChange, FramesAreOfTheirStamp
  <2> QED BY <2>1, <2>3, <2>4, <2>5, <2>6 DEF RequestInv
<1>7. CASE DoesNotCatchUp
  <2>1. /\ request' = [request EXCEPT !.state = "caught", !.caught = IF At("ended") THEN "ended" ELSE "late"]
        /\ UNCHANGED <<window, gen, watch, pc, slot, reply>> /\ request.state = "asked"
    BY <1>7 DEF DoesNotCatchUp, server_vars, watch_vars, locals
  <2>2. /\ request' = [state |-> "caught", since |-> request.since, caught |-> request'.caught]
        /\ request'.caught # "up"
    BY <1>2, <2>1
  <2>3. HeldIsOfTheName' /\ NothingServedFromBeforeAChange' /\ FramesAreOfTheirStamp'
    BY <2>1 DEF RequestInv, HeldIsOfTheName, NothingServedFromBeforeAChange, FramesAreOfTheirStamp
  <2> QED BY <2>1, <2>2, <2>3 DEF RequestInv
<1>8. CASE Serves
  <2>1. /\ request' = Quiet /\ UNCHANGED <<window, gen, watch, pc, slot>> /\ request.state = "caught"
        /\ reply' = [since |-> request.since,
                     frame |-> IF request.caught = "up" /\ Peeked THEN slot.held ELSE Nothing]
    BY <1>8 DEF Serves, server_vars, watch_vars, locals
  <2>2. HeldIsOfTheName'
    BY <1>2, <2>1 DEF HeldIsOfTheName
  <2>3. request.caught = "up" /\ Peeked =>
          request.since.alive /\ slot.held.gen >= request.since.gen /\ OfItsStamp(slot.held)
    <3>1. Peeked => /\ slot.held # Nothing /\ slot.held.gen \in Nat /\ slot.condition = Nothing
                    /\ slot.status # "minimized"
      BY <1>1 DEF Peeked, FramesType, IsHeld
    <3>2. request.since.gen \in Nat
      BY <1>1, <2>1 DEF RequestInv
    <3> QED BY <2>1, <3>1, <3>2 DEF RequestInv
  <2>4. NothingServedFromBeforeAChange' /\ FramesAreOfTheirStamp'
    BY <2>1, <2>3 DEF NothingServedFromBeforeAChange, FramesAreOfTheirStamp
  <2> QED BY <2>1, <2>2, <2>4 DEF RequestInv, Quiet
<1>9. CASE Stops
  <2>1. /\ pc' = "ended" /\ slot'.held = Nothing /\ request.state = "none"
        /\ UNCHANGED <<window, gen, watch, request, reply>>
    BY <1>9 DEF Stops, StepIsSilent, request_vars
  <2>2. HeldIsOfTheName'
    BY <2>1 DEF HeldIsOfTheName
  <2> QED BY <1>1, <2>1, <2>2 DEF RequestInv, NothingServedFromBeforeAChange, FramesAreOfTheirStamp
<1>10. CASE UNCHANGED frames_vars
  <2>1. UNCHANGED <<window, gen, watch, pc, slot, request, reply>>
    BY <1>10 DEF frames_vars, server_vars, watch_vars, locals, request_vars
  <2>2. HeldIsOfTheName'
    BY <1>2, <2>1 DEF HeldIsOfTheName
  <2> QED BY <1>1, <2>1, <2>2, RequestKeeps
<1> QED BY <1>3, <1>4, <1>5, <1>6, <1>7, <1>8, <1>9, <1>10 DEF FramesNext

\* A frame served holds no pixel the window did not draw, and shows it no earlier than the
\* instant of its stamp, whatever was resized, mapped, drawn or ended between two
\* exchanges of the watch, also where its first picture was stamped after the window got
\* another pixmap (prove, black_out, first, tick, picture, note, standing).
THEOREM FramesShowWhatWasDrawn == FramesSpec => []FramesAreOfTheirStamp
<1>1. RequestInv => FramesAreOfTheirStamp
  BY DEF RequestInv
<1> QED BY FramesStart, FramesStep, RequestStep, <1>1, PTL DEF FramesSpec

\* A request is never served a frame of a window that was resized, mapped again or
\* destroyed before the request began, whatever the watch was in the middle of (latest,
\* catch_up, standing).
THEOREM FramesAreNoOlderThanTheRequest == FramesSpec => []NothingServedFromBeforeAChange
<1>1. RequestInv => NothingServedFromBeforeAChange
  BY DEF RequestInv
<1> QED BY FramesStart, FramesStep, RequestStep, <1>1, PTL DEF FramesSpec
-----------------------------------------------------------------------------
(* The badge. *)

Line == [showing : {"working", "paused", "unavailable"}, bounds : Spots \cup {Away},
         occluded : BOOLEAN]

ServerWord == [kind : {"configure", "map", "unmap"}, window : Windows, at : Spots \cup {Away}]

BadgeTypes ==
  /\ stack \in Seq(Windows \cup {Itself})
  /\ viewable \subseteq Windows /\ lies \in [Windows -> Spots \cup {Away}]
  /\ gate_paused \in BOOLEAN /\ last \in Line /\ lines \in Seq(Line) /\ told \in Line
  /\ frame \in Spots \cup {Away} /\ held_by \in Popups \cup {NoWindow}
  /\ notices \in Seq(ServerWord) /\ step \in {"off", "idle", "look", "raise"}
  /\ aim \in Managed \cup {Itself}

\* A stack has each window once, the badge's own from the start on.
Distinct(q) == \A i, j \in DOMAIN q : q[i] = q[j] => i = j
StackIsOrder == Distinct(stack) /\ (step # "off" => Itself \in Stacked)

\* What was written last is what the badge has, or is to read last.
LastIsNewest == step # "off" => last = IF lines = <<>> THEN told ELSE lines[Len(lines)]

\* What the last look found is so until something changes.
LookIsTrue == looked => step # "off" /\ last = State

FrameIsTold == frame = BadgeFrame(told) /\ (step = "off" => frame = Away)

\* A window over the badge.
Covers(w) == w \in viewable /\ Over(w, Itself) /\ lies[w] = frame

\* The server has said so, and the badge is yet to read it.
Announced(w) ==
  \E i \in DOMAIN notices :
    /\ notices[i].window = w
    /\ notices[i].kind = "map" \/ (notices[i].kind = "configure" /\ notices[i].at = lies[w])

GoesOver(w) == step \in {"look", "raise"} /\ aim \in {w, Itself}

CoversAreAnnounced ==
  frame # Away /\ held_by = NoWindow /\ ~missed =>
    \A w \in Managed : Covers(w) => Announced(w) \/ GoesOver(w)

\* Between a look and the raise, only a popup that came up is over the badge.
PopupsCameUp == step = "raise" => PopupsOver \subseteq arrived

BadgeInv ==
  /\ BadgeTypes /\ StackIsOrder /\ LastIsNewest /\ LookIsTrue /\ FrameIsTold
  /\ CoversAreAnnounced /\ PopupsCameUp

\* What is left of a sequence an entry is taken out of, in order.
LEMMA LeftOut ==
  ASSUME NEW S, NEW q \in Seq(S), NEW i \in DOMAIN q
  PROVE  /\ SX!RemoveAt(q, i) \in Seq(S) /\ Len(q) \in Nat \ {0}
         /\ Len(SX!RemoveAt(q, i)) = Len(q) - 1
         /\ \A n \in 1 .. Len(q) - 1 :
              SX!RemoveAt(q, i)[n] = q[IF n < i THEN n ELSE n + 1]
<1>1. i \in Nat /\ Len(q) \in Nat /\ 1 <= i /\ i <= Len(q) /\ DOMAIN q = 1 .. Len(q)
  OBVIOUS
<1> DEFINE a == SubSeq(q, 1, i - 1)
           b == SubSeq(q, i + 1, Len(q))
<1>2. a \in Seq(S) /\ Len(a) = i - 1 /\ \A n \in 1 .. i - 1 : a[n] = q[n]
  BY <1>1, SubSeqProperties
<1>3. b \in Seq(S) /\ Len(b) = Len(q) - i /\ \A n \in 1 .. Len(q) - i : b[n] = q[n + i]
  BY <1>1, SubSeqProperties
<1> HIDE DEF a, b
<1>4. /\ a \o b \in Seq(S) /\ Len(a \o b) = Len(a) + Len(b)
      /\ \A n \in 1 .. Len(a) + Len(b) :
           (a \o b)[n] = IF n <= Len(a) THEN a[n] ELSE b[n - Len(a)]
  BY <1>2, <1>3, ConcatProperties, Zenon
<1>5. ASSUME NEW n \in 1 .. Len(q) - 1
      PROVE  (a \o b)[n] = q[IF n < i THEN n ELSE n + 1]
  <2>1. n \in 1 .. Len(a) + Len(b)
    BY <1>1, <1>2, <1>3
  <2>2. CASE n < i
    BY <1>1, <1>2, <1>4, <2>1, <2>2
  <2>3. CASE ~(n < i)
    <3>1. n - Len(a) \in 1 .. Len(q) - i /\ (n - Len(a)) + i = n + 1 /\ ~(n <= Len(a))
      BY <1>1, <1>2, <1>3, <2>3
    <3>2. b[n - Len(a)] = q[(n - Len(a)) + i]
      BY <1>3, <3>1
    <3> QED BY <1>4, <2>1, <2>3, <3>1, <3>2
  <2> QED BY <2>2, <2>3
<1>6. Len(a \o b) = Len(q) - 1 /\ Len(q) \in Nat \ {0}
  BY <1>1, <1>2, <1>3, <1>4
<1>7. SX!RemoveAt(q, i) = a \o b
  BY DEF SX!RemoveAt, a, b
<1> QED BY <1>4, <1>5, <1>6, <1>7


(* A stack. *)

Stack == Seq(Windows \cup {Itself})

\* One that no longer has w has every other window where it was among the others.
LEMMA TakenOut ==
  ASSUME NEW S, NEW q \in Seq(S), Distinct(q), NEW i \in DOMAIN q,
         NEW r, r = SX!RemoveAt(q, i)
  PROVE  /\ r \in Seq(S) /\ Distinct(r)
         /\ \A x : x \in SX!ToSet(r) <=> x \in SX!ToSet(q) /\ x # q[i]
         /\ \A u, v : Above(r, u, v) <=> Above(q, u, v) /\ u # q[i] /\ v # q[i]
<1>1. /\ r \in Seq(S) /\ Len(q) \in Nat \ {0} /\ Len(r) = Len(q) - 1
      /\ \A n \in 1 .. Len(q) - 1 : r[n] = q[IF n < i THEN n ELSE n + 1]
  BY LeftOut, Zenon
<1>2. DOMAIN q = 1 .. Len(q) /\ DOMAIN r = 1 .. Len(q) - 1 /\ i \in 1 .. Len(q)
  BY <1>1
<1> DEFINE Up(n) == IF n < i THEN n ELSE n + 1
           Down(n) == IF n < i THEN n ELSE n - 1
<1>3. \A n \in DOMAIN r : Up(n) \in DOMAIN q /\ Up(n) # i /\ r[n] = q[Up(n)]
  BY <1>1, <1>2
<1>4. \A n \in DOMAIN q \ {i} : Down(n) \in DOMAIN r /\ r[Down(n)] = q[n]
  <2> SUFFICES ASSUME NEW n \in DOMAIN q \ {i}
               PROVE  Down(n) \in DOMAIN r /\ r[Down(n)] = q[n]
    OBVIOUS
  <2>1. Down(n) \in 1 .. Len(q) - 1 /\ (IF Down(n) < i THEN Down(n) ELSE Down(n) + 1) = n
    BY <1>1, <1>2
  <2> HIDE DEF Down
  <2> QED BY <1>1, <1>2, <2>1
<1>5. \A m, n \in DOMAIN r : (m > n <=> Up(m) > Up(n)) /\ (Up(m) = Up(n) => m = n)
  BY <1>2
<1>6. \A m, n \in DOMAIN q \ {i} : m > n => Down(m) > Down(n)
  BY <1>1, <1>2
<1>7. \A n \in DOMAIN q : q[n] = q[i] => n = i
  BY <1>2 DEF Distinct
<1> HIDE DEF Up, Down
<1>8. Distinct(r)
  <2> SUFFICES ASSUME NEW m \in DOMAIN r, NEW n \in DOMAIN r, r[m] = r[n]
               PROVE  m = n
    BY DEF Distinct
  <2>1. q[Up(m)] = q[Up(n)] /\ Up(m) \in DOMAIN q /\ Up(n) \in DOMAIN q
    BY <1>3
  <2>2. Up(m) = Up(n)
    BY <2>1 DEF Distinct
  <2> QED BY <2>2, <1>5
<1>9. ASSUME NEW x PROVE x \in SX!ToSet(r) <=> x \in SX!ToSet(q) /\ x # q[i]
  BY <1>3, <1>4, <1>7 DEF SX!ToSet
<1>10. ASSUME NEW u, NEW v
       PROVE  Above(r, u, v) <=> Above(q, u, v) /\ u # q[i] /\ v # q[i]
  <2>1. ASSUME Above(r, u, v) PROVE Above(q, u, v) /\ u # q[i] /\ v # q[i]
    <3>1. PICK m, n \in DOMAIN r : m > n /\ r[m] = u /\ r[n] = v
      BY <2>1 DEF Above
    <3>2. Up(m) > Up(n) /\ q[Up(m)] = u /\ q[Up(n)] = v
      BY <3>1, <1>3, <1>5
    <3> QED BY <3>2, <1>3, <1>7 DEF Above
  <2>2. ASSUME Above(q, u, v), u # q[i], v # q[i] PROVE Above(r, u, v)
    <3>1. PICK m, n \in DOMAIN q : m > n /\ q[m] = u /\ q[n] = v
      BY <2>2 DEF Above
    <3>2. Down(m) > Down(n) /\ r[Down(m)] = u /\ r[Down(n)] = v
      BY <2>2, <3>1, <1>4, <1>6
    <3> QED BY <2>2, <3>1, <3>2, <1>4 DEF Above
  <2> QED BY <2>1, <2>2
<1> QED BY <1>1, <1>8, <1>9, <1>10

\* One that w is put into below its k-th has the others above one another as they were.
LEMMA PutIn ==
  ASSUME NEW S, NEW r \in Seq(S), Distinct(r), NEW w, w \notin SX!ToSet(r),
         NEW new \in Seq(S), Len(new) = Len(r) + 1, NEW k \in 1 .. Len(r) + 1,
         \A n \in 1 .. Len(r) + 1 :
           new[n] = IF n < k THEN r[n] ELSE IF n = k THEN w ELSE r[n - 1]
  PROVE  /\ Distinct(new)
         /\ \A x : x \in SX!ToSet(new) <=> x \in SX!ToSet(r) \/ x = w
         /\ \A u, v : u # w /\ v # w => (Above(new, u, v) <=> Above(r, u, v))
         /\ \A u : Above(new, u, w) => \E n \in DOMAIN r : r[n] = u /\ n >= k
         /\ \A n \in DOMAIN r : n >= k => Above(new, r[n], w)
         /\ \A v : Above(new, w, v) => \E n \in DOMAIN r : r[n] = v /\ n < k
         /\ \A n \in DOMAIN r : n < k => Above(new, w, r[n])
<1>1. DOMAIN r = 1 .. Len(r) /\ DOMAIN new = 1 .. Len(r) + 1 /\ Len(r) \in Nat
  OBVIOUS
<1> DEFINE Down(n) == IF n < k THEN n ELSE n - 1
           Up(n) == IF n < k THEN n ELSE n + 1
<1>2. \A n \in DOMAIN new \ {k} : Down(n) \in DOMAIN r /\ new[n] = r[Down(n)]
  BY <1>1
<1>3. \A n \in DOMAIN r : Up(n) \in DOMAIN new \ {k} /\ new[Up(n)] = r[n]
  <2> SUFFICES ASSUME NEW n \in DOMAIN r
               PROVE  Up(n) \in DOMAIN new \ {k} /\ new[Up(n)] = r[n]
    OBVIOUS
  <2>1. CASE n < k
    BY <1>1, <2>1
  <2>2. CASE ~(n < k)
    <3>1. n + 1 \in 1 .. Len(r) + 1 /\ ~(n + 1 < k) /\ n + 1 # k /\ (n + 1) - 1 = n
      BY <1>1, <2>2
    <3>2. new[n + 1] = r[(n + 1) - 1]
      BY <3>1
    <3> QED BY <1>1, <2>2, <3>1, <3>2
  <2> QED BY <2>1, <2>2
<1>4. k \in DOMAIN new /\ new[k] = w /\ \A n \in DOMAIN r : r[n] # w
  BY <1>1 DEF SX!ToSet
<1>5. /\ \A m, n \in DOMAIN new \ {k} : (m > n => Down(m) > Down(n)) /\ (Down(m) = Down(n) => m = n)
      /\ \A m, n \in DOMAIN r : m > n => Up(m) > Up(n)
      /\ \A n \in DOMAIN r : (n >= k => Up(n) > k) /\ (n < k => k > Up(n))
      /\ \A n \in DOMAIN new \ {k} : (n > k => Down(n) >= k) /\ (k > n => Down(n) < k)
  BY <1>1
<1> HIDE DEF Up, Down
<1>6. \A n \in DOMAIN new : new[n] = w <=> n = k
  BY <1>2, <1>4
<1>7. Distinct(new)
  <2> SUFFICES ASSUME NEW m \in DOMAIN new, NEW n \in DOMAIN new, new[m] = new[n]
               PROVE  m = n
    BY DEF Distinct
  <2>1. CASE m = k \/ n = k
    BY <1>6, <2>1
  <2>2. CASE m # k /\ n # k
    <3>1. Down(m) \in DOMAIN r /\ Down(n) \in DOMAIN r /\ r[Down(m)] = r[Down(n)]
      BY <1>2, <2>2
    <3>2. Down(m) = Down(n)
      BY <3>1 DEF Distinct
    <3> QED BY <3>2, <1>5, <2>2
  <2> QED BY <2>1, <2>2
<1>8. ASSUME NEW x PROVE x \in SX!ToSet(new) <=> x \in SX!ToSet(r) \/ x = w
  BY <1>2, <1>3, <1>4 DEF SX!ToSet
<1>9. ASSUME NEW u, NEW v, u # w, v # w PROVE Above(new, u, v) <=> Above(r, u, v)
  <2>1. ASSUME Above(new, u, v) PROVE Above(r, u, v)
    <3>1. PICK m, n \in DOMAIN new : m > n /\ new[m] = u /\ new[n] = v
      BY <2>1 DEF Above
    <3>2. m # k /\ n # k
      BY <1>6, <1>9, <3>1
    <3> QED BY <3>1, <3>2, <1>2, <1>5 DEF Above
  <2>2. ASSUME Above(r, u, v) PROVE Above(new, u, v)
    <3>1. PICK m, n \in DOMAIN r : m > n /\ r[m] = u /\ r[n] = v
      BY <2>2 DEF Above
    <3> QED BY <3>1, <1>3, <1>5 DEF Above
  <2> QED BY <2>1, <2>2
<1>10. ASSUME NEW u, Above(new, u, w) PROVE \E n \in DOMAIN r : r[n] = u /\ n >= k
  <2>1. PICK m, n \in DOMAIN new : m > n /\ new[m] = u /\ new[n] = w
    BY <1>10 DEF Above
  <2>2. n = k /\ m # k
    BY <1>1, <1>6, <2>1
  <2> QED BY <2>1, <2>2, <1>2, <1>5
<1>11. ASSUME NEW v, Above(new, w, v) PROVE \E n \in DOMAIN r : r[n] = v /\ n < k
  <2>1. PICK m, n \in DOMAIN new : m > n /\ new[m] = w /\ new[n] = v
    BY <1>11 DEF Above
  <2>2. m = k /\ n # k
    BY <1>1, <1>6, <2>1
  <2> QED BY <2>1, <2>2, <1>2, <1>5
<1>12. ASSUME NEW n \in DOMAIN r, n >= k PROVE Above(new, r[n], w)
  BY <1>12, <1>3, <1>4, <1>5 DEF Above
<1>13. ASSUME NEW n \in DOMAIN r, n < k PROVE Above(new, w, r[n])
  BY <1>13, <1>3, <1>4, <1>5 DEF Above
<1> QED BY <1>7, <1>8, <1>9, <1>10, <1>11, <1>12, <1>13

\* The ways to put it in: on top, at the bottom, and before an entry.
LEMMA PutLast ==
  ASSUME NEW S, NEW r \in Seq(S), NEW w \in S
  PROVE  /\ Append(r, w) \in Seq(S) /\ Len(Append(r, w)) = Len(r) + 1
         /\ Len(r) + 1 \in 1 .. Len(r) + 1
         /\ \A n \in 1 .. Len(r) + 1 :
              Append(r, w)[n] = IF n < Len(r) + 1 THEN r[n] ELSE IF n = Len(r) + 1 THEN w
                                ELSE r[n - 1]
OBVIOUS

LEMMA PutFirst ==
  ASSUME NEW S, NEW r \in Seq(S), NEW w \in S
  PROVE  /\ <<w>> \o r \in Seq(S) /\ Len(<<w>> \o r) = Len(r) + 1
         /\ 1 \in 1 .. Len(r) + 1
         /\ \A n \in 1 .. Len(r) + 1 :
              (<<w>> \o r)[n] = IF n < 1 THEN r[n] ELSE IF n = 1 THEN w ELSE r[n - 1]
<1>1. <<w>> \in Seq(S) /\ Len(<<w>>) = 1 /\ <<w>>[1] = w /\ Len(r) \in Nat
  OBVIOUS
<1>2. /\ <<w>> \o r \in Seq(S) /\ Len(<<w>> \o r) = 1 + Len(r)
      /\ \A n \in 1 .. 1 + Len(r) :
           (<<w>> \o r)[n] = IF n <= 1 THEN <<w>>[n] ELSE r[n - 1]
  BY <1>1, ConcatProperties
<1> QED BY <1>1, <1>2

LEMMA PutBefore ==
  ASSUME NEW S, NEW r \in Seq(S), NEW w \in S, NEW k \in 1 .. Len(r) + 1
  PROVE  /\ SX!InsertAt(r, k, w) \in Seq(S) /\ Len(SX!InsertAt(r, k, w)) = Len(r) + 1
         /\ \A n \in 1 .. Len(r) + 1 :
              SX!InsertAt(r, k, w)[n] = IF n < k THEN r[n] ELSE IF n = k THEN w ELSE r[n - 1]
<1> DEFINE a == SubSeq(r, 1, k - 1)
           b == SubSeq(r, k, Len(r))
           e == <<w>>
<1>1. k \in Nat /\ Len(r) \in Nat /\ 1 <= k /\ k <= Len(r) + 1 /\ DOMAIN r = 1 .. Len(r)
  OBVIOUS
<1>2. a \in Seq(S) /\ Len(a) = k - 1 /\ \A n \in 1 .. k - 1 : a[n] = r[n]
  BY <1>1, SubSeqProperties
<1>3. /\ b \in Seq(S) /\ Len(b) = (Len(r) - k) + 1
      /\ \A n \in 1 .. (Len(r) - k) + 1 : b[n] = r[(k + n) - 1]
  BY <1>1, SubSeqProperties
<1>4. e \in Seq(S) /\ Len(e) = 1 /\ e[1] = w
  OBVIOUS
<1>5. SX!InsertAt(r, k, w) = (a \o e) \o b
  BY DEF SX!InsertAt
<1> HIDE DEF a, b, e
<1> DEFINE c == a \o e
<1>6. /\ c \in Seq(S) /\ Len(c) = Len(a) + Len(e)
      /\ \A n \in 1 .. Len(a) + Len(e) : c[n] = IF n <= Len(a) THEN a[n] ELSE e[n - Len(a)]
  BY <1>2, <1>4, ConcatProperties, Zenon
<1> HIDE DEF c
<1>7. /\ c \o b \in Seq(S) /\ Len(c \o b) = Len(c) + Len(b)
      /\ \A n \in 1 .. Len(c) + Len(b) :
           (c \o b)[n] = IF n <= Len(c) THEN c[n] ELSE b[n - Len(c)]
  <2>1. c \in Seq(S)
    BY <1>6
  <2> QED BY <2>1, <1>3, ConcatProperties, Zenon
<1>8. Len(c) = k /\ Len(c) + Len(b) = Len(r) + 1 /\ Len(a) + Len(e) = k
  BY <1>1, <1>2, <1>3, <1>4, <1>6
<1>9. ASSUME NEW n \in 1 .. Len(r) + 1
      PROVE  (c \o b)[n] = IF n < k THEN r[n] ELSE IF n = k THEN w ELSE r[n - 1]
  <2>1. CASE n < k
    <3>1. n <= Len(a) /\ n <= Len(c) /\ n \in 1 .. k - 1 /\ n \in 1 .. Len(a) + Len(e)
      BY <1>1, <1>2, <1>8, <2>1
    <3>2. n \in 1 .. Len(c) + Len(b)
      BY <1>8
    <3>3. (c \o b)[n] = c[n]
      BY <1>7, <3>1, <3>2
    <3>4. c[n] = a[n]
      BY <1>6, <3>1
    <3> QED BY <1>2, <2>1, <3>1, <3>3, <3>4
  <2>2. CASE n = k
    <3>1. n - Len(a) = 1 /\ ~(n <= Len(a)) /\ n <= Len(c) /\ n \in 1 .. Len(a) + Len(e)
      BY <1>1, <1>2, <1>8, <2>2
    <3> QED BY <1>4, <1>6, <1>7, <1>8, <2>2, <3>1
  <2>3. CASE n > k
    <3>1. /\ n - Len(c) \in 1 .. (Len(r) - k) + 1 /\ (k + (n - Len(c))) - 1 = n - 1
          /\ ~(n <= Len(c)) /\ ~(n < k) /\ n # k
      BY <1>1, <1>8, <2>3
    <3>2. b[n - Len(c)] = r[(k + (n - Len(c))) - 1]
      BY <1>3, <3>1
    <3> QED BY <1>7, <1>8, <3>1, <3>2
  <2>4. n < k \/ n = k \/ n > k
    BY <1>1
  <2> QED BY <2>1, <2>2, <2>3, <2>4, Zenon
<1>10. c \o b \in Seq(S) /\ Len(c \o b) = Len(r) + 1
  BY <1>7, <1>8
<1>11. SX!InsertAt(r, k, w) = c \o b
  BY <1>5 DEF c
<1> QED BY <1>9, <1>10, <1>11, Zenon

LEMMA OverIsOrder ==
  ASSUME NEW S, NEW q \in Seq(S), Distinct(q)
  PROVE  /\ \A u : ~Above(q, u, u)
         /\ \A u, v : Above(q, u, v) => u \in SX!ToSet(q) /\ v \in SX!ToSet(q)
         /\ \A u, v \in SX!ToSet(q) : u # v => Above(q, u, v) \/ Above(q, v, u)
<1>1. DOMAIN q \subseteq Nat
  OBVIOUS
<1>2. ASSUME NEW u PROVE ~Above(q, u, u)
  BY <1>1 DEF Above, Distinct
<1>3. ASSUME NEW u, NEW v, Above(q, u, v) PROVE u \in SX!ToSet(q) /\ v \in SX!ToSet(q)
  BY <1>3 DEF Above, SX!ToSet
<1>4. ASSUME NEW u \in SX!ToSet(q), NEW v \in SX!ToSet(q), u # v
      PROVE  Above(q, u, v) \/ Above(q, v, u)
  <2>1. PICK i \in DOMAIN q : q[i] = u
    BY DEF SX!ToSet
  <2>2. PICK j \in DOMAIN q : q[j] = v
    BY DEF SX!ToSet
  <2>3. i > j \/ j > i
    BY <1>1, <1>4, <2>1, <2>2
  <2> QED BY <2>1, <2>2, <2>3 DEF Above
<1> QED BY <1>2, <1>3, <1>4

\* What a window that leaves the stack, or is put elsewhere in it, leaves as it was.
LEMMA WithoutIt ==
  ASSUME stack \in Stack, Distinct(stack), NEW w \in Stacked
  PROVE  /\ Without(w) \in Stack /\ Distinct(Without(w))
         /\ \A x : x \in SX!ToSet(Without(w)) <=> x \in Stacked /\ x # w
         /\ \A u, v : Above(Without(w), u, v) <=> Over(u, v) /\ u # w /\ v # w
<1>1. Index(w) \in DOMAIN stack /\ stack[Index(w)] = w
  BY DEF Index, Stacked, SX!ToSet
<1>2. PICK i \in DOMAIN stack : i = Index(w) /\ stack[i] = w
  BY <1>1
<1>3. Without(w) = SX!RemoveAt(stack, i)
  BY <1>2 DEF Without
<1>4. PICK r : r = SX!RemoveAt(stack, i)
  OBVIOUS
<1>5. PICK q \in Seq(Windows \cup {Itself}) : q = stack
  BY DEF Stack
<1>6. Distinct(q) /\ i \in DOMAIN q /\ r = SX!RemoveAt(q, i)
  BY <1>4, <1>5
<1>7. /\ r \in Seq(Windows \cup {Itself}) /\ Distinct(r)
      /\ \A x : x \in SX!ToSet(r) <=> x \in SX!ToSet(q) /\ x # q[i]
      /\ \A u, v : Above(r, u, v) <=> Above(q, u, v) /\ u # q[i] /\ v # q[i]
  BY <1>6, TakenOut
<1> QED BY <1>2, <1>3, <1>4, <1>5, <1>7 DEF Stack, Stacked, Over

Reordered(new, w) ==
  /\ new \in Stack /\ Distinct(new)
  /\ \A x : x \in SX!ToSet(new) <=> x \in Stacked
  /\ \A u, v : u # w /\ v # w => (Above(new, u, v) <=> Over(u, v))

\* Any place w is put in: what Restacks, Shows and a raise do to all the others.
LEMMA PutInAgain ==
  ASSUME stack \in Stack, Distinct(stack), NEW w \in Stacked,
         NEW new \in Stack, Len(new) = Len(Without(w)) + 1,
         NEW k \in 1 .. Len(Without(w)) + 1,
         \A n \in 1 .. Len(Without(w)) + 1 :
           new[n] = IF n < k THEN Without(w)[n] ELSE IF n = k THEN w ELSE Without(w)[n - 1]
  PROVE  /\ Reordered(new, w)
         /\ \A u : Above(new, u, w) => \E n \in DOMAIN Without(w) : Without(w)[n] = u /\ n >= k
         /\ \A n \in DOMAIN Without(w) : n >= k => Above(new, Without(w)[n], w)
<1>1. /\ Without(w) \in Stack /\ Distinct(Without(w))
      /\ \A x : x \in SX!ToSet(Without(w)) <=> x \in Stacked /\ x # w
      /\ \A u, v : Above(Without(w), u, v) <=> Over(u, v) /\ u # w /\ v # w
  BY WithoutIt, Zenon
<1>2. PICK r \in Stack : r = Without(w)
  BY <1>1
<1>3. Distinct(r) /\ w \notin SX!ToSet(r)
  BY <1>1, <1>2
<1>4. /\ Len(new) = Len(r) + 1 /\ k \in 1 .. Len(r) + 1
      /\ \A n \in 1 .. Len(r) + 1 :
           new[n] = IF n < k THEN r[n] ELSE IF n = k THEN w ELSE r[n - 1]
  BY <1>2, Zenon
<1>5. /\ Distinct(new)
      /\ \A x : x \in SX!ToSet(new) <=> x \in SX!ToSet(r) \/ x = w
      /\ \A u, v : u # w /\ v # w => (Above(new, u, v) <=> Above(r, u, v))
      /\ \A u : Above(new, u, w) => \E n \in DOMAIN r : r[n] = u /\ n >= k
      /\ \A n \in DOMAIN r : n >= k => Above(new, r[n], w)
  <2>1. /\ r \in Seq(Windows \cup {Itself}) /\ new \in Seq(Windows \cup {Itself})
        /\ k \in 1 .. Len(r) + 1
    BY <1>4 DEF Stack
  <2> QED BY <2>1, <1>3, <1>4, PutIn
<1>6. Reordered(new, w)
  BY <1>1, <1>2, <1>5 DEF Reordered
<1> QED BY <1>2, <1>5, <1>6

LEMMA HighestIs ==
  ASSUME stack \in Stack, Distinct(stack), NEW w \in Stacked
  PROVE  Reordered(Highest(w), w) /\ \A u : ~Above(Highest(w), u, w)
<1>1. Without(w) \in Stack /\ w \in Windows \cup {Itself}
  BY WithoutIt DEF Stacked, SX!ToSet, Stack
<1>2. PICK r \in Stack : r = Without(w)
  BY <1>1
<1>3. PICK new : new = Append(r, w)
  OBVIOUS
<1>4. PICK k : k = Len(r) + 1
  OBVIOUS
<1>5. /\ new \in Stack /\ Len(new) = Len(r) + 1 /\ k \in 1 .. Len(r) + 1
      /\ \A n \in 1 .. Len(r) + 1 :
           new[n] = IF n < k THEN r[n] ELSE IF n = k THEN w ELSE r[n - 1]
  BY <1>1, <1>3, <1>4, PutLast DEF Stack
<1>6. /\ Reordered(new, w)
      /\ \A u : Above(new, u, w) => \E n \in DOMAIN Without(w) : Without(w)[n] = u /\ n >= k
  BY <1>2, <1>5, PutInAgain, Zenon
<1>7. \A n \in DOMAIN r : ~(n >= k)
  BY <1>4 DEF Stack
<1> QED BY <1>2, <1>3, <1>6, <1>7 DEF Highest

LEMMA LowestIs ==
  ASSUME stack \in Stack, Distinct(stack), NEW w \in Stacked
  PROVE  Reordered(Lowest(w), w)
<1>1. Without(w) \in Stack /\ w \in Windows \cup {Itself}
  BY WithoutIt DEF Stacked, SX!ToSet, Stack
<1>2. PICK r \in Stack : r = Without(w)
  BY <1>1
<1>3. PICK new : new = <<w>> \o r
  OBVIOUS
<1>4. PICK k : k = 1
  OBVIOUS
<1>5. /\ new \in Stack /\ Len(new) = Len(r) + 1 /\ k \in 1 .. Len(r) + 1
      /\ \A n \in 1 .. Len(r) + 1 :
           new[n] = IF n < k THEN r[n] ELSE IF n = k THEN w ELSE r[n - 1]
  <2>1. r \in Seq(Windows \cup {Itself})
    BY DEF Stack
  <2> QED BY <2>1, <1>1, <1>3, <1>4, PutFirst DEF Stack
<1>6. Reordered(new, w)
  BY <1>2, <1>5, PutInAgain, Zenon
<1> QED BY <1>2, <1>3, <1>6 DEF Lowest

\* Just over a sibling is under all that is over that.
LEMMA JustOverIs ==
  ASSUME stack \in Stack, Distinct(stack), NEW w \in Stacked, NEW s \in Stacked \ {w}
  PROVE  /\ Reordered(JustOver(w, s), w)
         /\ \A u : u # w => (Above(JustOver(w, s), u, w) <=> Over(u, s))
<1>1. /\ Without(w) \in Stack /\ Distinct(Without(w))
      /\ s \in SX!ToSet(Without(w))
      /\ \A u, v : Above(Without(w), u, v) <=> Over(u, v) /\ u # w /\ v # w
  BY WithoutIt, Zenon
<1>2. w \in Windows \cup {Itself}
  BY DEF Stacked, SX!ToSet, Stack
<1>3. PICK r \in Stack : r = Without(w)
  BY <1>1
<1> DEFINE place == CHOOSE i \in DOMAIN r : r[i] = s
<1>4. place \in DOMAIN r /\ r[place] = s
  BY <1>1, <1>3 DEF SX!ToSet
<1> HIDE DEF place
<1>5. PICK k : k = place + 1
  OBVIOUS
<1>6. k \in 1 .. Len(r) + 1 /\ place \in Nat /\ DOMAIN r \subseteq Nat
  BY <1>4, <1>5 DEF Stack
<1>7. PICK new : new = SX!InsertAt(r, k, w)
  OBVIOUS
<1>8. /\ new \in Stack /\ Len(new) = Len(r) + 1
      /\ \A n \in 1 .. Len(r) + 1 :
           new[n] = IF n < k THEN r[n] ELSE IF n = k THEN w ELSE r[n - 1]
  <2>1. PICK S : S = Windows \cup {Itself}
    OBVIOUS
  <2>2. r \in Seq(S) /\ w \in S
    BY <1>2, <2>1 DEF Stack
  <2>3. /\ SX!InsertAt(r, k, w) \in Seq(S) /\ Len(SX!InsertAt(r, k, w)) = Len(r) + 1
        /\ \A n \in 1 .. Len(r) + 1 :
             SX!InsertAt(r, k, w)[n] = IF n < k THEN r[n] ELSE IF n = k THEN w ELSE r[n - 1]
    BY <1>6, <2>2, PutBefore
  <2> QED BY <2>1, <2>3, <1>7 DEF Stack
<1>9. /\ Reordered(new, w)
      /\ \A u : Above(new, u, w) => \E n \in DOMAIN r : r[n] = u /\ n >= k
      /\ \A n \in DOMAIN r : n >= k => Above(new, r[n], w)
  <2>1. /\ Len(new) = Len(Without(w)) + 1 /\ k \in 1 .. Len(Without(w)) + 1
        /\ \A n \in 1 .. Len(Without(w)) + 1 :
             new[n] = IF n < k THEN Without(w)[n] ELSE IF n = k THEN w ELSE Without(w)[n - 1]
    BY <1>3, <1>6, <1>8, Zenon
  <2>2. /\ Reordered(new, w)
        /\ \A u : Above(new, u, w) => \E n \in DOMAIN Without(w) : Without(w)[n] = u /\ n >= k
        /\ \A n \in DOMAIN Without(w) : n >= k => Above(new, Without(w)[n], w)
    BY <2>1, <1>8, PutInAgain
  <2> QED BY <2>2, <1>3, Zenon
<1>10. new = JustOver(w, s)
  BY <1>3, <1>5, <1>7 DEF JustOver, place
<1>11. ASSUME NEW u, u # w PROVE Above(new, u, w) <=> Over(u, s)
  <2>1. ASSUME Above(new, u, w) PROVE Over(u, s)
    <3>1. PICK n \in DOMAIN r : r[n] = u /\ n >= k
      BY <1>9, <2>1
    <3>2. n > place
      BY <1>5, <1>6, <3>1
    <3>3. Above(r, u, s)
      BY <1>4, <3>1, <3>2 DEF Above
    <3> QED BY <1>1, <1>3, <3>3
  <2>2. ASSUME Over(u, s) PROVE Above(new, u, w)
    <3>1. Above(r, u, s)
      BY <1>1, <1>3, <1>11, <2>2
    <3>2. PICK n, m \in DOMAIN r : n > m /\ r[n] = u /\ r[m] = s
      BY <3>1 DEF Above
    <3>3. m = place
      BY <1>1, <1>3, <1>4, <3>2 DEF Distinct
    <3>4. n >= k
      BY <1>5, <1>6, <3>2, <3>3
    <3> QED BY <1>9, <3>2, <3>4
  <2> QED BY <2>1, <2>2
<1> QED BY <1>9, <1>10, <1>11

\* The windows a look may wait for are a stack's, and one of them is over the others.
LEMMA OneIsHighest ==
  ASSUME stack \in Stack, Distinct(stack), NEW set, set # {}, set \subseteq Stacked
  PROVE  \E p \in set : \A q \in set : ~Over(q, p)
<1> DEFINE below == {Len(stack) - i : i \in {j \in DOMAIN stack : stack[j] \in set}}
<1>1. DOMAIN stack = 1 .. Len(stack) /\ Len(stack) \in Nat
  BY DEF Stack
<1>2. below \subseteq Nat
  BY <1>1
<1>3. below # {}
  BY DEF Stacked, SX!ToSet
<1>4. PICK least \in below : \A n \in below : ~(<<n, least>> \in OpToRel(<, Nat))
  BY <1>2, <1>3, WFMin, NatLessThanWellFounded
<1>5. \A n \in below : ~(n < least)
  BY <1>2, <1>4 DEF OpToRel
<1>6. PICK i \in DOMAIN stack : stack[i] \in set /\ least = Len(stack) - i
  OBVIOUS
<1>7. ASSUME NEW q \in set, Over(q, stack[i]) PROVE FALSE
  <2>1. PICK m, n \in DOMAIN stack : m > n /\ stack[m] = q /\ stack[n] = stack[i]
    BY <1>7 DEF Over, Above
  <2>2. n = i
    BY <2>1 DEF Distinct
  <2>3. Len(stack) - m \in below /\ Len(stack) - m < least
    BY <1>1, <1>6, <2>1, <2>2
  <2> QED BY <1>5, <2>3
<1> QED BY <1>6, <1>7

(* The steps of the desktop. *)

DesktopStep(w) == Restacks(w) \/ Moves(w) \/ Shows(w) \/ Hides(w) \/ TakesInput(w)

\* A window that is put elsewhere, or leaves, moves none of the others.
PlaceOf(w) ==
  /\ stack' \in Stack /\ Distinct(stack')
  /\ Itself \in SX!ToSet(stack')
  /\ \A u, v : u # w /\ v # w => (Above(stack', u, v) <=> Over(u, v))

LEMMA PlacesAreKept ==
  ASSUME BadgeTypes, StackIsOrder, step # "off", NEW w \in Windows, w \in Stacked,
         stack' \in {stack, Highest(w), Lowest(w), Without(w)}
  PROVE  PlaceOf(w)
<1>1. stack \in Stack /\ Distinct(stack) /\ Itself \in Stacked
  BY DEF BadgeTypes, StackIsOrder, Stack
<1>2. Itself # w
  BY BadgeAssumption
<1>3. CASE stack' = stack
  BY <1>1, <1>3 DEF PlaceOf, Over, Stacked
<1>4. CASE stack' = Highest(w)
  <2>1. Reordered(Highest(w), w)
    BY <1>1, HighestIs, Zenon
  <2> QED BY <1>1, <1>4, <2>1 DEF Reordered, PlaceOf
<1>5. CASE stack' = Lowest(w)
  <2>1. Reordered(Lowest(w), w)
    BY <1>1, LowestIs, Zenon
  <2> QED BY <1>1, <1>5, <2>1 DEF Reordered, PlaceOf
<1>6. CASE stack' = Without(w)
  <2>1. /\ Without(w) \in Stack /\ Distinct(Without(w))
        /\ \A x : x \in SX!ToSet(Without(w)) <=> x \in Stacked /\ x # w
        /\ \A u, v : Above(Without(w), u, v) <=> Over(u, v) /\ u # w /\ v # w
    BY <1>1, WithoutIt, Zenon
  <2> QED BY <1>1, <1>2, <1>6, <2>1 DEF PlaceOf
<1> QED BY <1>3, <1>4, <1>5, <1>6

\* Nothing but w is touched, and a managed one that is then in sight is announced.
Touches(w) ==
  /\ viewable' \subseteq Windows /\ lies' \in [Windows -> Spots \cup {Away}]
  /\ \A u \in Windows \ {w} :
       /\ lies'[u] = lies[u] /\ (u \in viewable' <=> u \in viewable)
       /\ u \in taking' <=> u \in taking

IsTold(w) ==
  \/ UNCHANGED <<notices, viewable, lies, stack>> /\ w \in Popups
  \/ \E kind \in {"configure", "map", "unmap"} :
       /\ notices' = Append(notices, [kind |-> kind, window |-> w, at |-> lies'[w]])
       /\ kind = "unmap" => w \notin viewable'

LEMMA DesktopTouches ==
  ASSUME BadgeTypes, StackIsOrder, NEW w \in Windows, DesktopStep(w)
  PROVE  PlaceOf(w) /\ Touches(w) /\ IsTold(w) /\ Befalls(w)
<1>1. viewable \subseteq Windows /\ lies \in [Windows -> Spots \cup {Away}]
  BY DEF BadgeTypes
<1>2. CASE Restacks(w)
  <2>1. stack' \in {stack, Highest(w), Lowest(w), Without(w)} /\ Befalls(w)
        /\ UNCHANGED <<viewable, lies, taking>> /\ Notify("configure", w)
    BY <1>2 DEF Restacks
  <2>2. PlaceOf(w)
    BY <2>1, PlacesAreKept DEF Befalls
  <2>3. Touches(w)
    BY <1>1, <2>1 DEF Touches
  <2>4. IsTold(w)
    BY <2>1 DEF IsTold, Notify
  <2> QED BY <2>1, <2>2, <2>3, <2>4
<1>3. CASE Moves(w)
  <2>1. Befalls(w) /\ UNCHANGED <<stack, viewable, taking>> /\ Notify("configure", w)
        /\ \E spot \in Spots \cup {Away} : lies' = [lies EXCEPT ![w] = spot]
    BY <1>3 DEF Moves
  <2>2. PlaceOf(w)
    BY <2>1, PlacesAreKept DEF Befalls
  <2>3. Touches(w)
    BY <1>1, <2>1 DEF Touches
  <2>4. IsTold(w)
    BY <2>1 DEF IsTold, Notify
  <2> QED BY <2>1, <2>2, <2>3, <2>4
<1>4. CASE Shows(w)
  <2>1. stack' \in {stack, Highest(w), Lowest(w), Without(w)} /\ Befalls(w)
        /\ UNCHANGED <<lies, taking>> /\ Notify("map", w) /\ viewable' = viewable \cup {w}
    BY <1>4 DEF Shows
  <2>2. PlaceOf(w)
    BY <2>1, PlacesAreKept DEF Befalls
  <2>3. Touches(w)
    BY <1>1, <2>1 DEF Touches
  <2>4. IsTold(w)
    BY <2>1 DEF IsTold, Notify
  <2> QED BY <2>1, <2>2, <2>3, <2>4
<1>5. CASE Hides(w)
  <2>1. stack' \in {stack, Highest(w), Lowest(w), Without(w)} /\ Befalls(w)
        /\ UNCHANGED <<lies, taking>> /\ Notify("unmap", w) /\ viewable' = viewable \ {w}
    BY <1>5 DEF Hides
  <2>2. PlaceOf(w)
    BY <2>1, PlacesAreKept DEF Befalls
  <2>3. Touches(w)
    BY <1>1, <2>1 DEF Touches
  <2>4. IsTold(w)
    BY <2>1 DEF IsTold, Notify
  <2> QED BY <2>1, <2>2, <2>3, <2>4
<1>6. CASE TakesInput(w)
  <2>1. Befalls(w) /\ UNCHANGED <<stack, viewable, lies, notices>> /\ w \in Popups
        /\ taking' \in {taking \cup {w}, taking \ {w}}
    BY <1>6 DEF TakesInput
  <2>2. PlaceOf(w)
    BY <2>1, PlacesAreKept DEF Befalls
  <2>3. Touches(w)
    BY <1>1, <2>1 DEF Touches
  <2>4. IsTold(w)
    BY <2>1 DEF IsTold
  <2> QED BY <2>1, <2>2, <2>3, <2>4
<1> QED BY <1>2, <1>3, <1>4, <1>5, <1>6 DEF DesktopStep

LEMMA DesktopKeeps ==
  ASSUME BadgeInv, NEW w \in Windows, DesktopStep(w)
  PROVE  BadgeInv'
<1>1. PlaceOf(w) /\ Touches(w) /\ IsTold(w) /\ Befalls(w)
  BY DesktopTouches, Zenon DEF BadgeInv
<1>2. /\ UNCHANGED <<gate_paused, last, lines, told, frame, held_by, raises, step, aim, missed>>
      /\ step # "off" /\ looked' = FALSE /\ arrived' = arrived \cup ({w} \cap Popups)
  BY <1>1 DEF Befalls
<1>3. Itself \notin Windows /\ Managed \subseteq Windows /\ Popups \subseteq Windows
      /\ Managed \cap Popups = {}
  BY BadgeAssumption DEF Windows, Managed
<1>4. BadgeTypes'
  <2>1. stack' \in Seq(Windows \cup {Itself})
    BY <1>1 DEF PlaceOf, Stack
  <2>2. notices' \in Seq(ServerWord)
    <3>1. CASE UNCHANGED notices
      BY <3>1 DEF BadgeInv, BadgeTypes
    <3>2. ASSUME NEW kind \in {"configure", "map", "unmap"},
                 notices' = Append(notices, [kind |-> kind, window |-> w, at |-> lies'[w]])
          PROVE  notices' \in Seq(ServerWord)
      <4>1. lies'[w] \in Spots \cup {Away}
        BY <1>1 DEF Touches
      <4>2. [kind |-> kind, window |-> w, at |-> lies'[w]] \in ServerWord
        BY <4>1 DEF ServerWord
      <4>3. notices \in Seq(ServerWord)
        BY DEF BadgeInv, BadgeTypes
      <4> QED BY <3>2, <4>2, <4>3
    <3> QED BY <1>1, <3>1, <3>2 DEF IsTold
  <2> QED BY <1>1, <1>2, <2>1, <2>2 DEF BadgeInv, BadgeTypes, Touches
<1>5. StackIsOrder'
  BY <1>1 DEF StackIsOrder, PlaceOf, Stacked
<1>6. LastIsNewest' /\ LookIsTrue' /\ FrameIsTold'
  BY <1>2 DEF BadgeInv, LastIsNewest, LookIsTrue, FrameIsTold, BadgeFrame
<1>7. CoversAreAnnounced'
  <2> SUFFICES ASSUME (frame # Away /\ held_by = NoWindow /\ ~missed)',
                      NEW v \in Managed, Covers(v)'
               PROVE  (Announced(v) \/ GoesOver(v))'
    BY DEF CoversAreAnnounced
  <2>1. CASE v = w
    <3>1. PICK kind \in {"configure", "map"} :
            notices' = Append(notices, [kind |-> kind, window |-> w, at |-> lies'[w]])
      BY <1>1, <1>3, <2>1 DEF IsTold, Covers
    <3>2. PICK i : i = Len(notices) + 1
      OBVIOUS
    <3>3. i \in DOMAIN notices'
          /\ notices'[i] = [kind |-> kind, window |-> w, at |-> lies'[w]]
      BY <3>1, <3>2 DEF BadgeInv, BadgeTypes
    <3> QED BY <2>1, <3>3 DEF Announced
  <2>2. CASE v # w
    <3>1. v \in Windows \ {w} /\ Itself # w
      BY <1>3, <2>2
    <3>2. Covers(v)
      BY <1>1, <1>2, <3>1 DEF Covers, PlaceOf, Touches, Over
    <3>3. Announced(v) \/ GoesOver(v)
      BY <1>2, <3>2 DEF BadgeInv, CoversAreAnnounced
    <3>4. ASSUME Announced(v) PROVE Announced(v)'
      <4>1. PICK i \in DOMAIN notices :
              /\ notices[i].window = v
              /\ notices[i].kind = "map"
                 \/ (notices[i].kind = "configure" /\ notices[i].at = lies[v])
        BY <3>4 DEF Announced
      <4>2. i \in DOMAIN notices' /\ notices'[i] = notices[i]
        <5>1. CASE notices' = notices
          BY <5>1
        <5>2. ASSUME NEW n, notices' = Append(notices, n)
              PROVE  i \in DOMAIN notices' /\ notices'[i] = notices[i]
          <6>1. notices \in Seq(ServerWord)
            BY DEF BadgeInv, BadgeTypes
          <6> QED BY <5>2, <6>1
        <5> QED BY <1>1, <5>1, <5>2 DEF IsTold
      <4>3. lies'[v] = lies[v]
        BY <1>1, <3>1 DEF Touches
      <4> QED BY <4>1, <4>2, <4>3 DEF Announced
    <3> QED BY <1>2, <3>3, <3>4 DEF GoesOver
  <2> QED BY <2>1, <2>2
<1>8. PopupsCameUp'
  <2> SUFFICES ASSUME step = "raise", NEW p \in PopupsOver' PROVE p \in arrived'
    BY <1>2 DEF PopupsCameUp
  <2>1. CASE p = w
    BY <1>2, <2>1 DEF PopupsOver
  <2>2. CASE p # w
    <3>1. p \in Windows \ {w} /\ Itself # w
      BY <1>3, <2>2 DEF PopupsOver
    <3>2. p \in PopupsOver
      BY <1>1, <1>2, <3>1 DEF PopupsOver, AboveIt, PlaceOf, Touches, Over
    <3> QED BY <1>2, <3>2 DEF BadgeInv, PopupsCameUp
  <2> QED BY <2>1, <2>2
<1> QED BY <1>4, <1>5, <1>6, <1>7, <1>8 DEF BadgeInv

(* The watch, and the start. *)

LEMMA StateIsLine == BadgeTypes => State \in Line
BY BadgeAssumption DEF BadgeTypes, State, Unsaid, Line, Occluded, Managed, Windows

LEMMA BadgeInvInit == BadgeInit => BadgeInv
<1> SUFFICES ASSUME BadgeInit PROVE BadgeInv
  OBVIOUS
<1>1. BadgeTypes
  <2>1. Unsaid \in Line
    BY DEF Unsaid, Line
  <2>2. /\ stack \in Seq(Windows \cup {Itself}) /\ lines \in Seq(Line)
        /\ notices \in Seq(ServerWord)
        /\ viewable \subseteq Windows
    BY DEF BadgeInit
  <2> QED BY <2>1, <2>2 DEF BadgeInit, BadgeTypes
<1>2. StackIsOrder /\ LastIsNewest /\ LookIsTrue /\ FrameIsTold
  BY DEF BadgeInit, StackIsOrder, Distinct, LastIsNewest, LookIsTrue, FrameIsTold, BadgeFrame,
         Unsaid, Stacked
<1>3. CoversAreAnnounced /\ PopupsCameUp
  BY DEF BadgeInit, CoversAreAnnounced, PopupsCameUp
<1> QED BY <1>1, <1>2, <1>3 DEF BadgeInv

LEMMA PausesKeeps == BadgeInv /\ Pauses => BadgeInv'
<1> SUFFICES ASSUME BadgeInv, Pauses PROVE BadgeInv'
  OBVIOUS
<1>1. /\ UNCHANGED <<stack, viewable, lies, taking, last, lines, loop_vars, arrived, missed>>
      /\ gate_paused' \in BOOLEAN /\ looked' = FALSE
  BY DEF Pauses, BadgeInv, BadgeTypes
<1>2. BadgeTypes' /\ StackIsOrder' /\ LastIsNewest' /\ LookIsTrue' /\ FrameIsTold'
  BY <1>1 DEF BadgeInv, BadgeTypes, StackIsOrder, Stacked, LastIsNewest, LookIsTrue, FrameIsTold,
              BadgeFrame, loop_vars
<1>3. CoversAreAnnounced' /\ PopupsCameUp'
  BY <1>1 DEF BadgeInv, CoversAreAnnounced, Covers, Announced, GoesOver, Over, PopupsCameUp,
              PopupsOver, AboveIt, loop_vars
<1> QED BY <1>2, <1>3 DEF BadgeInv

LEMMA TickKeeps == BadgeInv /\ Tick => BadgeInv'
<1> SUFFICES ASSUME BadgeInv, Tick PROVE BadgeInv'
  OBVIOUS
<1>1. UNCHANGED <<desktop_vars, gate_paused, loop_vars, arrived, missed>>
      /\ looked' = TRUE /\ step # "off"
  BY DEF Tick
<1>2. State \in Line /\ lines \in Seq(Line) /\ last \in Line
  BY StateIsLine DEF BadgeInv, BadgeTypes
<1>3. last' = State /\ (lines' = Append(lines, State) \/ (lines' = lines /\ last = State))
  BY DEF Tick, News
<1>4. lines' \in Seq(Line) /\ last' \in Line
  BY <1>2, <1>3
<1>5. BadgeTypes' /\ StackIsOrder' /\ FrameIsTold'
  BY <1>1, <1>4 DEF BadgeInv, BadgeTypes, StackIsOrder, Stacked, FrameIsTold, BadgeFrame,
              loop_vars, desktop_vars
<1>6. State' = State
  BY <1>1 DEF State, Occluded, Over, desktop_vars
<1>7. LookIsTrue'
  BY <1>1, <1>3, <1>6 DEF LookIsTrue, loop_vars
<1>8. LastIsNewest'
  <2>1. CASE lines' = Append(lines, State)
    <3>1. lines' # <<>> /\ lines'[Len(lines')] = State
      BY <1>2, <2>1
    <3> QED BY <1>3, <3>1 DEF LastIsNewest
  <2>2. CASE lines' = lines /\ last = State
    BY <1>1, <1>3, <2>2 DEF BadgeInv, LastIsNewest, loop_vars
  <2> QED BY <1>3, <2>1, <2>2
<1>9. CoversAreAnnounced' /\ PopupsCameUp'
  BY <1>1 DEF BadgeInv, CoversAreAnnounced, Covers, Announced, GoesOver, Over, PopupsCameUp,
              PopupsOver, AboveIt, loop_vars, desktop_vars
<1> QED BY <1>5, <1>7, <1>8, <1>9 DEF BadgeInv

\* The cardinality of the community modules is that of FiniteSets.
LEMMA SameCardinality ==
  ASSUME NEW set PROVE SX!Cardinality(set) = Cardinality(set)
BY DEF Cardinality, SX!Cardinality

\* An order of a finite set has each of it once.
LEMMA OrdersAreDistinct ==
  ASSUME NEW set, IsFiniteSet(set), NEW q \in SX!SetToSeqs(set)
  PROVE  q \in Seq(set) /\ Distinct(q)
<1>1. Cardinality(set) \in Nat
  BY FS_CardinalityType
<1>2. q \in [1 .. Cardinality(set) -> set]
      /\ \A i, j \in 1 .. Cardinality(set) : i # j => q[i] # q[j]
  BY SameCardinality DEF SX!SetToSeqs
<1> QED BY <1>1, <1>2 DEF Distinct

LEMMA OrdersJoin ==
  ASSUME NEW A, NEW B, A \cap B = {}, NEW a \in Seq(A), Distinct(a), NEW b \in Seq(B), Distinct(b)
  PROVE  a \o b \in Seq(A \cup B) /\ Distinct(a \o b)
<1>1. a \in Seq(A \cup B) /\ b \in Seq(A \cup B)
  OBVIOUS
<1>2. /\ a \o b \in Seq(A \cup B) /\ Len(a \o b) = Len(a) + Len(b)
      /\ \A n \in 1 .. Len(a) + Len(b) :
           (a \o b)[n] = IF n <= Len(a) THEN a[n] ELSE b[n - Len(a)]
  BY <1>1, ConcatProperties, Zenon
<1>3. PICK c \in Seq(A \cup B) : c = a \o b
  BY <1>2
<1>4. DOMAIN c = 1 .. Len(a) + Len(b) /\ Len(a) \in Nat /\ Len(b) \in Nat
  BY <1>2, <1>3
<1>5. \A n \in DOMAIN c : n <= Len(a) => n \in DOMAIN a /\ c[n] = a[n] /\ c[n] \in A
  BY <1>2, <1>3, <1>4
<1>6. \A n \in DOMAIN c : n > Len(a) =>
        n - Len(a) \in DOMAIN b /\ c[n] = b[n - Len(a)] /\ b[n - Len(a)] \in B
  <2> SUFFICES ASSUME NEW n \in DOMAIN c, n > Len(a)
               PROVE  n - Len(a) \in DOMAIN b /\ c[n] = b[n - Len(a)] /\ b[n - Len(a)] \in B
    OBVIOUS
  <2>1. n - Len(a) \in 1 .. Len(b) /\ ~(n <= Len(a))
    BY <1>4
  <2> QED BY <1>2, <1>3, <1>4, <2>1
<1>7. ASSUME NEW m \in DOMAIN c, NEW n \in DOMAIN c, c[m] = c[n]
      PROVE  m = n
  <2>1. CASE m <= Len(a) /\ n <= Len(a)
    BY <1>5, <1>7, <2>1 DEF Distinct
  <2>2. CASE m > Len(a) /\ n > Len(a)
    <3>1. m - Len(a) = n - Len(a)
      BY <1>6, <1>7, <2>2 DEF Distinct
    <3> QED BY <1>4, <3>1
  <2>3. CASE m <= Len(a) /\ n > Len(a)
    BY <1>5, <1>6, <1>7, <2>3
  <2>4. CASE m > Len(a) /\ n <= Len(a)
    BY <1>5, <1>6, <1>7, <2>4
  <2> QED BY <1>4, <2>1, <2>2, <2>3, <2>4
<1> QED BY <1>3, <1>7 DEF Distinct

LEMMA StartsKeeps == BadgeInv /\ Starts => BadgeInv'
<1> SUFFICES ASSUME BadgeInv, Starts PROVE BadgeInv'
  OBVIOUS
<1>1. /\ UNCHANGED <<gate_paused, told, frame, held_by, notices, aim, arrived, missed>>
      /\ step = "off" /\ step' = "idle" /\ looked' = TRUE
      /\ viewable' = Managed /\ lies' \in [Windows -> Spots \cup {Away}]
      /\ last' = State' /\ lines' = <<State'>>
  BY DEF Starts
<1>2. stack' \in Stack /\ Distinct(stack') /\ Itself \in SX!ToSet(stack')
  <2>1. PICK a \in SX!SetToSeqs(Managed), b \in SX!SetToSeqs(Popups) :
          stack' = Append(a \o b, Itself)
    BY DEF Starts
  <2>2. /\ IsFiniteSet(Managed) /\ IsFiniteSet(Popups) /\ Managed \cap Popups = {}
        /\ Itself \notin Windows /\ Windows = Managed \cup Popups
    BY BadgeAssumption, FS_Subset DEF Windows, Managed
  <2>3. a \in Seq(Managed) /\ Distinct(a)
    BY <2>2, OrdersAreDistinct
  <2>4. b \in Seq(Popups) /\ Distinct(b)
    BY <2>2, OrdersAreDistinct
  <2>5. a \o b \in Seq(Windows) /\ Distinct(a \o b)
    BY <2>2, <2>3, <2>4, OrdersJoin
  <2>6. PICK c \in Seq(Windows) : c = a \o b
    BY <2>5
  <2>7. Distinct(c)
    BY <2>5, <2>6
  <2>8. Append(c, Itself) \in Seq(Windows \cup {Itself})
    OBVIOUS
  <2>9. ASSUME NEW m \in DOMAIN Append(c, Itself), NEW n \in DOMAIN Append(c, Itself),
               Append(c, Itself)[m] = Append(c, Itself)[n]
        PROVE  m = n
    <3>1. \A i \in DOMAIN Append(c, Itself) :
            \/ i = Len(c) + 1 /\ Append(c, Itself)[i] = Itself
            \/ i \in DOMAIN c /\ Append(c, Itself)[i] = c[i] /\ c[i] \in Windows
      OBVIOUS
    <3> QED BY <2>2, <2>7, <2>9, <3>1 DEF Distinct
  <2>10. Len(c) + 1 \in DOMAIN Append(c, Itself) /\ Append(c, Itself)[Len(c) + 1] = Itself
    OBVIOUS
  <2>11. Distinct(Append(c, Itself)) /\ Itself \in SX!ToSet(Append(c, Itself))
    BY <2>9, <2>10 DEF Distinct, SX!ToSet
  <2> QED BY <2>1, <2>6, <2>8, <2>11 DEF Stack
<1>3. State' \in Line
  BY <1>1, BadgeAssumption DEF State, Unsaid, Line, Occluded, Managed, Windows, BadgeInv, BadgeTypes
<1>4. BadgeTypes'
  BY <1>1, <1>2, <1>3 DEF BadgeInv, BadgeTypes, Stack, Windows
<1>5. StackIsOrder' /\ FrameIsTold'
  BY <1>1, <1>2 DEF BadgeInv, StackIsOrder, Stacked, FrameIsTold, BadgeFrame
<1>6. LastIsNewest' /\ LookIsTrue'
  <2>1. lines' # <<>> /\ lines'[Len(lines')] = State'
    BY <1>1
  <2> QED BY <1>1, <2>1 DEF LastIsNewest, LookIsTrue
<1>7. CoversAreAnnounced' /\ PopupsCameUp'
  BY <1>1 DEF BadgeInv, FrameIsTold, CoversAreAnnounced, PopupsCameUp
<1> QED BY <1>4, <1>5, <1>6, <1>7 DEF BadgeInv

(* The loop. *)

\* A step that leaves the desktop, and the lines, to themselves.
LEMMA QuietStep ==
  ASSUME BadgeInv, UNCHANGED <<desktop_vars, telling_vars, told, frame>>,
         step = "off" <=> step' = "off"
  PROVE  StackIsOrder' /\ LastIsNewest' /\ LookIsTrue' /\ FrameIsTold'
<1>1. UNCHANGED <<stack, viewable, lies, gate_paused, last, lines, looked>>
  BY DEF desktop_vars, telling_vars
<1>2. State' = State
  BY <1>1 DEF State, Occluded, Over
<1> QED BY <1>1, <1>2 DEF BadgeInv, StackIsOrder, Stacked, LastIsNewest, LookIsTrue, FrameIsTold,
                          BadgeFrame

LEMMA CoversAreKept ==
  ASSUME UNCHANGED <<desktop_vars, frame>>
  PROVE  /\ \A w : Covers(w)' <=> Covers(w)
         /\ UNCHANGED <<notices, step, aim>> =>
              \A w : (Announced(w)' <=> Announced(w)) /\ (GoesOver(w)' <=> GoesOver(w))
         /\ PopupsOver' = PopupsOver
BY DEF desktop_vars, Covers, Announced, GoesOver, Over, PopupsOver, AboveIt

LEMMA TakesLineKeeps == BadgeInv /\ TakesLine => BadgeInv'
<1> SUFFICES ASSUME BadgeInv, TakesLine PROVE BadgeInv'
  OBVIOUS
<1>1. /\ step = "idle" /\ lines # <<>> /\ told' = Head(lines) /\ lines' = Tail(lines)
      /\ frame' = BadgeFrame(told')
      /\ UNCHANGED <<stack, viewable, lies, gate_paused, last, looked, notices>>
      /\ step' \in {"idle", "look"} /\ aim' = Itself
      /\ frame' # Away => step' = "look"
      /\ held_by' \in {held_by, NoWindow}
  BY DEF TakesLine, LooksOver, Waits, desktop_vars
<1>2. lines \in Seq(Line) /\ Len(lines) \in Nat \ {0}
  BY <1>1, EmptySeq DEF BadgeInv, BadgeTypes
<1>3. told' \in Line /\ lines' \in Seq(Line)
  BY <1>1, <1>2
<1>4. frame' \in Spots \cup {Away}
  BY <1>1, <1>3 DEF BadgeFrame, Line
<1>5. BadgeTypes'
  BY <1>1, <1>3, <1>4 DEF BadgeInv, BadgeTypes
<1>6. LastIsNewest'
  <2>1. last = lines[Len(lines)]
    BY <1>1 DEF BadgeInv, LastIsNewest
  <2>2. CASE Tail(lines) = <<>>
    <3>1. Len(lines) = 1 /\ Head(lines) = lines[1]
      <4>1. Len(Tail(lines)) = Len(lines) - 1 /\ Len(Tail(lines)) = 0
        <5>1. lines \in Seq(Line) /\ lines # <<>>
          BY <1>1, <1>2
        <5>2. Len(Tail(lines)) = Len(lines) - 1
          BY <5>1
        <5>3. Len(<<>>) = 0
          OBVIOUS
        <5> QED BY <5>2, <5>3, <2>2
      <4>2. Len(lines) = 1
        <5>1. PICK n \in Nat \ {0} : n = Len(lines)
          BY <1>2
        <5>2. n - 1 = 0
          BY <4>1, <5>1, Zenon
        <5>3. n = 1
          BY <5>2
        <5> QED BY <5>1, <5>3, Zenon
      <4> QED BY <4>2, <1>2
    <3> QED BY <1>1, <2>1, <2>2, <3>1 DEF LastIsNewest
  <2>3. CASE Tail(lines) # <<>>
    <3>1. Tail(lines)[Len(Tail(lines))] = lines[Len(lines)]
      BY <1>2, <2>3
    <3> QED BY <1>1, <2>1, <2>3, <3>1 DEF LastIsNewest
  <2> QED BY <2>2, <2>3
<1>7. State' = State
  BY <1>1 DEF State, Occluded, Over
<1>8. StackIsOrder' /\ LookIsTrue' /\ FrameIsTold'
  BY <1>1, <1>7 DEF BadgeInv, StackIsOrder, Stacked, LookIsTrue, FrameIsTold, BadgeFrame
<1>9. CoversAreAnnounced' /\ PopupsCameUp'
  BY <1>1 DEF CoversAreAnnounced, GoesOver, PopupsCameUp
<1> QED BY <1>5, <1>6, <1>8, <1>9 DEF BadgeInv

\* What was heard first is taken, and the rest still stands.
LEMMA NoticeIsTaken ==
  ASSUME BadgeInv, TakesNotice
  PROVE  /\ Heard \in ServerWord /\ notices' \in Seq(ServerWord) /\ step = "idle"
         /\ StackIsOrder' \/ step' = "off"
         /\ \A w : Covers(w)' <=> Covers(w)
         /\ \A w : Announced(w) =>
              \/ Announced(w)'
              \/ /\ Heard.window = w
                 /\ Heard.kind = "map" \/ (Heard.kind = "configure" /\ Heard.at = lies[w])
<1>1. /\ step = "idle" /\ notices # <<>> /\ notices' = Tail(notices)
      /\ UNCHANGED <<desktop_vars, frame, lies, stack>>
  BY DEF TakesNotice, desktop_vars
<1>2. notices \in Seq(ServerWord) /\ Len(notices) \in Nat \ {0}
  BY <1>1, EmptySeq DEF BadgeInv, BadgeTypes
<1>3. Heard = notices[1] /\ Heard \in ServerWord /\ notices' \in Seq(ServerWord)
  BY <1>1, <1>2 DEF Heard
<1>4. \A i \in DOMAIN notices : i # 1 =>
        i - 1 \in DOMAIN notices' /\ notices'[i - 1] = notices[i]
  BY <1>1, <1>2
<1>5. ASSUME NEW w, Announced(w)
      PROVE  \/ Announced(w)'
             \/ /\ Heard.window = w
                /\ Heard.kind = "map" \/ (Heard.kind = "configure" /\ Heard.at = lies[w])
  <2>1. PICK i \in DOMAIN notices :
          /\ notices[i].window = w
          /\ notices[i].kind = "map" \/ (notices[i].kind = "configure" /\ notices[i].at = lies[w])
    BY <1>5 DEF Announced
  <2>2. CASE i = 1
    BY <1>3, <2>1, <2>2
  <2>3. CASE i # 1
    <3>1. PICK j \in DOMAIN notices' : notices'[j] = notices[i]
      BY <1>4, <2>3
    <3>2. lies' = lies
      BY <1>1
    <3> QED BY <2>1, <3>1, <3>2 DEF Announced
  <2> QED BY <2>2, <2>3
<1>6. \A w : Covers(w)' <=> Covers(w)
  BY <1>1, CoversAreKept
<1>7. StackIsOrder' \/ step' = "off"
  BY <1>1 DEF BadgeInv, StackIsOrder, Stacked
<1> QED BY <1>1, <1>3, <1>5, <1>6, <1>7

LEMMA AnswersWindowKeeps == BadgeInv /\ AnswersWindow => BadgeInv'
<1> SUFFICES ASSUME BadgeInv, AnswersWindow PROVE BadgeInv'
  OBVIOUS
<1>1. /\ TakesNotice /\ ComesOver /\ held_by' = held_by
      /\ \/ step' = "look" /\ aim' = Heard.window /\ missed' = missed
         \/ step' = "idle" /\ aim' = Itself /\ missed' = TRUE
  BY DEF AnswersWindow, LooksOver, Waits
<1>2. /\ Heard \in ServerWord /\ notices' \in Seq(ServerWord) /\ step = "idle"
      /\ \A w : Covers(w)' <=> Covers(w)
      /\ \A w : Announced(w) => Announced(w)' \/ Heard.window = w
  BY <1>1, NoticeIsTaken
<1>3. UNCHANGED <<desktop_vars, telling_vars, told, frame>> /\ (step = "off" <=> step' = "off")
  BY <1>1, <1>2 DEF TakesNotice
<1>4. StackIsOrder' /\ LastIsNewest' /\ LookIsTrue' /\ FrameIsTold'
  BY <1>3, QuietStep
<1>5. Heard.window \in Managed
  BY <1>1, <1>2 DEF ComesOver, ServerWord, Windows
<1>6. BadgeTypes'
  BY <1>1, <1>2, <1>3, <1>5 DEF BadgeInv, BadgeTypes, desktop_vars, telling_vars
<1>7. CoversAreAnnounced'
  <2> SUFFICES ASSUME (frame # Away /\ held_by = NoWindow /\ ~missed)',
                      NEW w \in Managed, Covers(w)'
               PROVE  (Announced(w) \/ GoesOver(w))'
    BY DEF CoversAreAnnounced
  <2>1. frame # Away /\ held_by = NoWindow /\ ~missed /\ Covers(w)
        /\ step' = "look" /\ aim' = Heard.window
    BY <1>1, <1>2, <1>3
  <2>2. Announced(w)
    BY <1>2, <2>1 DEF BadgeInv, CoversAreAnnounced, GoesOver
  <2> QED BY <1>2, <2>1, <2>2 DEF GoesOver
<1>8. PopupsCameUp'
  BY <1>1 DEF PopupsCameUp
<1> QED BY <1>4, <1>6, <1>7, <1>8 DEF BadgeInv

LEMMA AnswersUnmapKeeps == BadgeInv /\ AnswersUnmap => BadgeInv'
<1> SUFFICES ASSUME BadgeInv, AnswersUnmap PROVE BadgeInv'
  OBVIOUS
<1>1. /\ TakesNotice /\ Unholds /\ aim' = Itself /\ missed' = missed
      /\ \/ step' = "look" /\ held_by' = NoWindow
         \/ step' = "idle" /\ held_by' = held_by
  BY DEF AnswersUnmap, UnmapHold, LooksOver, Waits
<1>2. Heard \in ServerWord /\ notices' \in Seq(ServerWord) /\ step = "idle"
  BY <1>1, NoticeIsTaken
<1>3. UNCHANGED <<desktop_vars, telling_vars, told, frame>> /\ (step = "off" <=> step' = "off")
  BY <1>1, <1>2 DEF TakesNotice
<1>4. StackIsOrder' /\ LastIsNewest' /\ LookIsTrue' /\ FrameIsTold'
  BY <1>3, QuietStep
<1>5. BadgeTypes'
  BY <1>1, <1>2, <1>3 DEF BadgeInv, BadgeTypes, desktop_vars, telling_vars
<1>6. held_by # NoWindow
  BY <1>1, <1>2, BadgeAssumption DEF Unholds, ServerWord
<1>7. CoversAreAnnounced' /\ PopupsCameUp'
  BY <1>1, <1>6 DEF CoversAreAnnounced, GoesOver, PopupsCameUp
<1> QED BY <1>4, <1>5, <1>7 DEF BadgeInv

LEMMA PassesOverKeeps == BadgeInv /\ PassesOver => BadgeInv'
<1> SUFFICES ASSUME BadgeInv, PassesOver PROVE BadgeInv'
  OBVIOUS
<1>1. TakesNotice /\ ~ComesOver /\ UNCHANGED <<held_by, step, aim, missed>>
  BY DEF PassesOver
<1>2. /\ Heard \in ServerWord /\ notices' \in Seq(ServerWord) /\ step = "idle"
      /\ \A w : Covers(w)' <=> Covers(w)
      /\ \A w : Announced(w) =>
           \/ Announced(w)'
           \/ /\ Heard.window = w
              /\ Heard.kind = "map" \/ (Heard.kind = "configure" /\ Heard.at = lies[w])
  BY <1>1, NoticeIsTaken
<1>3. UNCHANGED <<desktop_vars, telling_vars, told, frame>> /\ (step = "off" <=> step' = "off")
  BY <1>1, <1>2 DEF TakesNotice
<1>4. StackIsOrder' /\ LastIsNewest' /\ LookIsTrue' /\ FrameIsTold'
  BY <1>3, QuietStep
<1>5. BadgeTypes'
  BY <1>1, <1>2, <1>3 DEF BadgeInv, BadgeTypes, desktop_vars, telling_vars
<1>6. CoversAreAnnounced'
  <2> SUFFICES ASSUME (frame # Away /\ held_by = NoWindow /\ ~missed)',
                      NEW w \in Managed, Covers(w)'
               PROVE  (Announced(w) \/ GoesOver(w))'
    BY DEF CoversAreAnnounced
  <2>1. frame # Away /\ held_by = NoWindow /\ ~missed /\ Covers(w)
    BY <1>1, <1>2, <1>3
  <2>2. Announced(w)
    BY <1>2, <2>1 DEF BadgeInv, CoversAreAnnounced, GoesOver
  <2>3. w \in Stacked /\ lies[w] = frame /\ w \notin Popups
    BY <2>1, BadgeAssumption DEF Covers, Over, Above, Stacked, SX!ToSet, Managed
  <2>4. ~(/\ Heard.window = w
          /\ Heard.kind = "map" \/ (Heard.kind = "configure" /\ Heard.at = lies[w]))
    BY <1>1, <2>1, <2>3 DEF ComesOver
  <2> QED BY <1>2, <2>2, <2>4
<1>7. PopupsCameUp'
  BY <1>1, <1>2 DEF PopupsCameUp
<1> QED BY <1>4, <1>5, <1>6, <1>7 DEF BadgeInv

LEMMA LooksAgainKeeps == BadgeInv /\ LooksAgain => BadgeInv'
<1> SUFFICES ASSUME BadgeInv, LooksAgain PROVE BadgeInv'
  OBVIOUS
<1>1. /\ UNCHANGED <<desktop_vars, telling_vars, told, frame, held_by, notices>>
      /\ step = "idle" /\ step' = "look" /\ aim' = Itself
  BY DEF LooksAgain, LooksOver
<1>2. StackIsOrder' /\ LastIsNewest' /\ LookIsTrue' /\ FrameIsTold'
  BY <1>1, QuietStep
<1>3. BadgeTypes'
  BY <1>1 DEF BadgeInv, BadgeTypes, desktop_vars, telling_vars
<1>4. CoversAreAnnounced' /\ PopupsCameUp'
  BY <1>1 DEF CoversAreAnnounced, GoesOver, PopupsCameUp
<1> QED BY <1>2, <1>3, <1>4 DEF BadgeInv

LEMMA LookKeeps == BadgeInv /\ Look => BadgeInv'
<1> SUFFICES ASSUME BadgeInv, Look PROVE BadgeInv'
  OBVIOUS
<1> DEFINE top == CHOOSE p \in PopupsOver : \A q \in PopupsOver : ~Over(q, p)
<1>1. /\ UNCHANGED <<desktop_vars, telling_vars, told, frame, notices>>
      /\ step = "look"
  BY DEF Look
<1>2. \/ missed' = TRUE /\ step' = "idle" /\ aim' = Itself /\ held_by' = held_by
      \/ /\ held_by' = (IF PopupsOver = {} THEN NoWindow ELSE top)
         /\ \/ step' = "raise" /\ aim' = aim /\ held_by' = NoWindow
            \/ step' = "idle" /\ aim' = Itself
               /\ ~(held_by' = NoWindow /\ aim \in AboveIt \cup {Itself})
         /\ missed' = (missed \/ EndsHoldFor)
  BY DEF Look, Waits
<1>3. StackIsOrder' /\ LastIsNewest' /\ LookIsTrue' /\ FrameIsTold'
  BY <1>1, <1>2, QuietStep
<1>4. PopupsOver # {} => top \in PopupsOver
  <2>1. stack \in Stack /\ Distinct(stack)
    BY DEF BadgeInv, BadgeTypes, StackIsOrder, Stack
  <2>2. PopupsOver \subseteq Stacked
    BY <2>1, OverIsOrder DEF PopupsOver, AboveIt, Over, Stacked, Stack
  <2>3. PopupsOver # {} => \E p \in PopupsOver : \A q \in PopupsOver : ~Over(q, p)
    BY <2>1, <2>2, OneIsHighest, Zenon
  <2> QED BY <2>3
<1>5. PopupsOver \subseteq Popups /\ NoWindow \notin Popups
  BY BadgeAssumption DEF PopupsOver, Windows
<1> HIDE DEF top
<1>6. held_by' \in Popups \cup {NoWindow}
  BY <1>2, <1>4, <1>5 DEF BadgeInv, BadgeTypes
<1>7. BadgeTypes'
  BY <1>1, <1>2, <1>6 DEF BadgeInv, BadgeTypes, desktop_vars, telling_vars
<1>8. CoversAreAnnounced'
  <2> SUFFICES ASSUME (frame # Away /\ held_by = NoWindow /\ ~missed)',
                      NEW w \in Managed, Covers(w)'
               PROVE  (Announced(w) \/ GoesOver(w))'
    BY DEF CoversAreAnnounced
  <2>1. frame # Away /\ Covers(w) /\ (Announced(w)' <=> Announced(w))
    BY <1>1, CoversAreKept DEF Announced, desktop_vars
  <2>2. ~missed /\ (held_by = NoWindow \/ aim = Itself)
    BY <1>2 DEF EndsHoldFor
  <2>3. w \in AboveIt
    BY <2>1 DEF Covers, AboveIt, Windows
  <2>4. CASE step' = "raise" /\ aim' = aim
    <3>1. CASE aim = Itself
      BY <2>4, <3>1 DEF GoesOver
    <3>2. CASE held_by = NoWindow
      <4>1. Announced(w) \/ aim \in {w, Itself}
        BY <2>1, <2>2, <3>2 DEF BadgeInv, CoversAreAnnounced, GoesOver
      <4> QED BY <2>1, <2>4, <4>1 DEF GoesOver
    <3> QED BY <2>2, <3>1, <3>2
  <2>5. CASE aim \notin AboveIt \cup {Itself}
    <3>1. Announced(w) \/ aim \in {w, Itself}
      BY <2>1, <2>2, <2>5 DEF BadgeInv, CoversAreAnnounced, GoesOver
    <3> QED BY <2>1, <2>3, <2>5, <3>1
  <2> QED BY <1>2, <2>4, <2>5
<1>9. PopupsCameUp'
  <2> SUFFICES ASSUME step' = "raise" PROVE PopupsOver' \subseteq arrived'
    BY DEF PopupsCameUp
  <2>1. PopupsOver = {}
    BY <1>2, <1>4, <1>5
  <2> QED BY <1>1, <2>1, CoversAreKept
<1> QED BY <1>3, <1>7, <1>8, <1>9 DEF BadgeInv

\* What a raise does to the others, and to its own place.
LEMMA RaisedIs ==
  ASSUME BadgeInv, step = "raise"
  PROVE  /\ Reordered(Raised, Itself)
         /\ aim = Itself => \A u : ~Above(Raised, u, Itself)
         /\ aim # Itself /\ aim \in Stacked =>
              \A u : u # Itself => (Above(Raised, u, Itself) <=> Over(u, aim))
         /\ aim # Itself /\ aim \notin Stacked => Raised = stack
<1>1. stack \in Stack /\ Distinct(stack) /\ Itself \in Stacked
  BY DEF BadgeInv, BadgeTypes, StackIsOrder, Stack
<1>2. CASE aim = Itself
  <2>1. Reordered(Highest(Itself), Itself) /\ \A u : ~Above(Highest(Itself), u, Itself)
    BY <1>1, HighestIs, Zenon
  <2> QED BY <1>2, <2>1 DEF Raised
<1>3. CASE aim # Itself /\ aim \in Stacked
  <2>1. PICK s \in Stacked \ {Itself} : s = aim
    BY <1>3
  <2>2. /\ Reordered(JustOver(Itself, s), Itself)
        /\ \A u : u # Itself => (Above(JustOver(Itself, s), u, Itself) <=> Over(u, s))
    BY <1>1, JustOverIs, Zenon
  <2> QED BY <1>3, <2>1, <2>2 DEF Raised
<1>4. CASE aim # Itself /\ aim \notin Stacked
  BY <1>1, <1>4 DEF Raised, Reordered, Over, Stacked
<1> QED BY <1>2, <1>3, <1>4

LEMMA RaiseKeeps == BadgeInv /\ Raise => BadgeInv'
<1> SUFFICES ASSUME BadgeInv, Raise PROVE BadgeInv'
  OBVIOUS
<1>1. /\ UNCHANGED <<viewable, lies, taking, telling_vars, told, frame, held_by, notices>>
      /\ step = "raise" /\ stack' = Raised /\ step' = "idle" /\ aim' = Itself
      /\ missed' = IF aim = Itself THEN FALSE
                   ELSE missed \/ \E w \in Managed : Over(Itself, w) /\ Over(w, Itself)'
  BY DEF Raise, Waits
<1>2. /\ Reordered(stack', Itself)
      /\ aim = Itself => \A u : ~Above(stack', u, Itself)
      /\ aim # Itself /\ aim \in Stacked =>
           \A u : u # Itself => (Above(stack', u, Itself) <=> Over(u, aim))
  BY <1>1, RaisedIs
<1>3. Managed \subseteq Windows /\ Itself \notin Windows /\ Target \in Managed
      /\ Others \subseteq Managed
  BY BadgeAssumption DEF Windows, Managed
<1>4. stack \in Stack /\ Distinct(stack) /\ Itself \in Stacked
  BY <1>1 DEF BadgeInv, BadgeTypes, StackIsOrder, Stack
<1>5. stack' \in Stack /\ Distinct(stack') /\ Itself \in Stacked'
  BY <1>2, <1>4 DEF Reordered, Stacked
<1>6. BadgeTypes' /\ StackIsOrder'
  BY <1>1, <1>5 DEF BadgeInv, BadgeTypes, StackIsOrder, telling_vars, Stack
<1>7. State' = State
  <2>1. \A u, v \in Managed : Over(u, v)' <=> Over(u, v)
    BY <1>2, <1>3 DEF Reordered, Over
  <2>2. Occluded' = Occluded
    BY <1>1, <1>3, <2>1 DEF Occluded
  <2> QED BY <1>1, <2>2 DEF State, telling_vars
<1>8. LastIsNewest' /\ LookIsTrue' /\ FrameIsTold'
  BY <1>1, <1>7 DEF BadgeInv, LastIsNewest, LookIsTrue, FrameIsTold, BadgeFrame, telling_vars
<1>9. CoversAreAnnounced'
  <2> SUFFICES ASSUME (frame # Away /\ held_by = NoWindow /\ ~missed)',
                      NEW w \in Managed, Covers(w)'
               PROVE  (Announced(w) \/ GoesOver(w))'
    BY DEF CoversAreAnnounced
  <2>1. Over(w, Itself)' /\ Above(stack', w, Itself) /\ w # Itself
    BY <1>3 DEF Covers, Over
  <2>2. aim # Itself /\ ~missed /\ ~Over(Itself, w)
    BY <1>1, <1>2, <2>1
  <2>3. w \in Stacked
    BY <1>2, <1>5, <2>1, OverIsOrder DEF Reordered, Stack
  <2>4. Over(w, Itself)
    BY <1>4, <2>1, <2>2, <2>3, OverIsOrder DEF Over, Stacked, Stack
  <2>5. Covers(w) /\ frame # Away /\ held_by = NoWindow
    BY <1>1, <2>4 DEF Covers
  <2>6. Announced(w) \/ aim = w
    BY <2>2, <2>5 DEF BadgeInv, CoversAreAnnounced, GoesOver
  <2>7. aim # w
    <3> SUFFICES ASSUME aim = w PROVE FALSE
      OBVIOUS
    <3>1. Over(w, w)
      BY <1>2, <2>1, <2>2, <2>3
    <3> QED BY <1>4, <3>1, OverIsOrder DEF Over, Stack
  <2> QED BY <1>1, <2>6, <2>7 DEF Announced
<1>10. PopupsCameUp'
  BY <1>1 DEF PopupsCameUp
<1> QED BY <1>6, <1>8, <1>9, <1>10 DEF BadgeInv

LEMMA ASecondPassesKeeps == BadgeInv /\ ASecondPasses => BadgeInv'
<1> SUFFICES ASSUME BadgeInv, ASecondPasses PROVE BadgeInv'
  OBVIOUS
<1>1. UNCHANGED <<desktop_vars, telling_vars, told, frame, held_by, notices, step, aim,
                  arrived, missed>>
  BY DEF ASecondPasses
<1>2. StackIsOrder' /\ LastIsNewest' /\ LookIsTrue' /\ FrameIsTold'
  BY <1>1, QuietStep
<1>3. BadgeTypes'
  BY <1>1 DEF BadgeInv, BadgeTypes, desktop_vars, telling_vars
<1>4. CoversAreAnnounced' /\ PopupsCameUp'
  BY <1>1, CoversAreKept DEF BadgeInv, CoversAreAnnounced, PopupsCameUp
<1> QED BY <1>2, <1>3, <1>4 DEF BadgeInv

LEMMA BadgeStutters == BadgeInv /\ UNCHANGED badge_vars => BadgeInv'
<1> SUFFICES ASSUME BadgeInv, UNCHANGED badge_vars PROVE BadgeInv'
  OBVIOUS
<1>1. UNCHANGED <<desktop_vars, telling_vars, told, frame, held_by, notices, step, aim,
                  arrived, missed>>
  BY DEF badge_vars, loop_vars
<1>2. StackIsOrder' /\ LastIsNewest' /\ LookIsTrue' /\ FrameIsTold'
  BY <1>1, QuietStep
<1>3. BadgeTypes'
  BY <1>1 DEF BadgeInv, BadgeTypes, desktop_vars, telling_vars
<1>4. CoversAreAnnounced' /\ PopupsCameUp'
  BY <1>1, CoversAreKept DEF BadgeInv, CoversAreAnnounced, PopupsCameUp
<1> QED BY <1>2, <1>3, <1>4 DEF BadgeInv

(* Of every badge, for any windows, spots, raises a second and changes: the *)
(* line it has or is to read last is the watch's newest, its frame is that  *)
(* line's, what the watch last found is so until something changes, and a   *)
(* managed window over it is announced or about to be gone over, unless a   *)
(* raise was refused or went too low, or it waits for a popup (run.rs).     *)
THEOREM BadgeHolds == BadgeSpec => []BadgeInv
<1>1. BadgeInv /\ [BadgeNext]_badge_vars => BadgeInv'
  <2> SUFFICES ASSUME BadgeInv, [BadgeNext]_badge_vars PROVE BadgeInv'
    OBVIOUS
  <2>1. CASE Starts
    BY <2>1, StartsKeeps
  <2>2. CASE Desktop
    <3>1. PICK w \in Windows : DesktopStep(w)
      BY <2>2 DEF Desktop, DesktopStep
    <3> QED BY <3>1, DesktopKeeps
  <2>3. CASE Pauses
    BY <2>3, PausesKeeps
  <2>4. CASE Tick
    BY <2>4, TickKeeps
  <2>5. CASE TakesLine
    BY <2>5, TakesLineKeeps
  <2>6. CASE AnswersWindow
    BY <2>6, AnswersWindowKeeps
  <2>7. CASE AnswersUnmap
    BY <2>7, AnswersUnmapKeeps
  <2>8. CASE PassesOver
    BY <2>8, PassesOverKeeps
  <2>9. CASE LooksAgain
    BY <2>9, LooksAgainKeeps
  <2>10. CASE Look
    BY <2>10, LookKeeps
  <2>11. CASE Raise
    BY <2>11, RaiseKeeps
  <2>12. CASE ASecondPasses
    BY <2>12, ASecondPassesKeeps
  <2>13. CASE UNCHANGED badge_vars
    BY <2>13, BadgeStutters
  <2> QED BY <2>1, <2>2, <2>3, <2>4, <2>5, <2>6, <2>7, <2>8, <2>9, <2>10, <2>11, <2>12, <2>13
          DEF BadgeNext, BadgeLoop
<1> QED BY <1>1, BadgeInvInit, PTL DEF BadgeSpec

(* When all is told, what the badge says and where it stands is so, and no  *)
(* managed window is over it (run.rs: state, tick, on_top, back_on_top).    *)
THEOREM TheBadgeIsSeenAlways == BadgeSpec => []TheBadgeIsSeen
<1>1. BadgeInv => TheBadgeIsSeen
  <2> SUFFICES ASSUME BadgeInv, Settled, frame # Away
               PROVE  /\ Target \in viewable /\ lies[Target] = frame
                      /\ ~ \E w \in Others \cap viewable : Over(w, Target) /\ lies[w] = frame
                      /\ told.showing = IF gate_paused THEN "paused" ELSE "working"
                      /\ held_by = NoWindow /\ ~missed =>
                           ~ \E w \in Managed \cap viewable : Over(w, Itself) /\ lies[w] = frame
    BY DEF TheBadgeIsSeen
  <2>1. told = State
    BY DEF BadgeInv, LookIsTrue, LastIsNewest, Settled
  <2>2. told.showing # "unavailable" /\ ~told.occluded /\ frame = told.bounds
    BY DEF BadgeInv, FrameIsTold, BadgeFrame
  <2>3. Target \in viewable
    BY <2>1, <2>2 DEF State, Unsaid
  <2>4. told = [showing  |-> IF gate_paused THEN "paused" ELSE "working",
                bounds   |-> lies[Target], occluded |-> Occluded]
    BY <2>1, <2>3 DEF State
  <2>5. lies[Target] = frame /\ ~Occluded
        /\ told.showing = IF gate_paused THEN "paused" ELSE "working"
    BY <2>2, <2>4
  <2>6. ~ \E w \in Others \cap viewable : Over(w, Target) /\ lies[w] = frame
    BY <2>5 DEF Occluded
  <2>7. ASSUME held_by = NoWindow, ~missed, NEW w \in Managed \cap viewable,
               Over(w, Itself), lies[w] = frame
        PROVE  FALSE
    BY <2>7 DEF BadgeInv, CoversAreAnnounced, Covers, Announced, GoesOver, Settled
  <2> QED BY <2>3, <2>5, <2>6, <2>7
<1> QED BY <1>1, BadgeHolds, PTL

(* A raise goes over no menu it could have seen, and, when it goes just     *)
(* over a window, over no popup that came up above that since the look      *)
(* (stack.rs: free_above; run.rs: raise_above).                             *)
THEOREM MenusStayOverIt == BadgeSpec => MenusStayOver
<1>1. ASSUME BadgeInv, [BadgeNext]_badge_vars, step = "raise", step' # "raise", NEW p \in PopupsOver
      PROVE  Over(p, Itself)' \/ (p \in arrived /\ (aim = Itself \/ ~Over(p, aim)))
  <2>1. p \in arrived /\ p \in Windows /\ p # Itself /\ Over(p, Itself)
    BY <1>1, BadgeAssumption DEF BadgeInv, PopupsCameUp, PopupsOver, AboveIt
  <2>2. Raise
    <3>1. ~Starts /\ ~Tick /\ ~Pauses /\ ~TakesLine /\ ~LooksAgain /\ ~Look /\ ~ASecondPasses
          /\ ~UNCHANGED badge_vars
      BY <1>1 DEF Starts, Tick, Pauses, TakesLine, LooksAgain, Look, ASecondPasses, badge_vars,
                  loop_vars
    <3>2. ~AnswersWindow /\ ~AnswersUnmap /\ ~PassesOver
      BY <1>1 DEF AnswersWindow, AnswersUnmap, PassesOver, TakesNotice
    <3>3. ASSUME NEW w, DesktopStep(w) PROVE FALSE
      BY <1>1, <3>3 DEF DesktopStep, Restacks, Moves, Shows, Hides, TakesInput, Befalls
    <3> QED BY <1>1, <3>1, <3>2, <3>3 DEF BadgeNext, BadgeLoop, Desktop, DesktopStep
  <2>3. stack' = Raised
    BY <2>2 DEF Raise
  <2>4. CASE aim # Itself /\ aim \in Stacked
    <3>1. Above(Raised, p, Itself) <=> Over(p, aim)
      BY <1>1, <2>1, <2>4, RaisedIs
    <3> QED BY <2>1, <2>3, <3>1 DEF Over
  <2>5. CASE aim # Itself /\ aim \notin Stacked
    <3>1. Raised = stack
      BY <2>5 DEF Raised
    <3> QED BY <2>1, <2>3, <3>1 DEF Over
  <2>6. CASE aim = Itself
    BY <2>1, <2>6
  <2> QED BY <2>4, <2>5, <2>6
<1>2. BadgeInv /\ [BadgeNext]_badge_vars =>
        [step = "raise" /\ step' # "raise" =>
           \A p \in PopupsOver :
             Over(p, Itself)' \/ (p \in arrived /\ (aim = Itself \/ ~Over(p, aim)))]_badge_vars
  BY <1>1
<1> QED BY <1>2, BadgeHolds, PTL DEF BadgeSpec, MenusStayOver

-----------------------------------------------------------------------------
(* The route. *)

\* Whatever the route, what it does with each part is a step of that part, or none.
LEMMA PartsAreFollowed == PixelSpec => PortalSpec /\ FramesSpec /\ BadgeSpec
<1>1. PixelInit => PortalInit /\ FramesInit /\ BadgeInit
  BY DEF PixelInit
<1>2. [PixelNext]_<<route_vars, portal_all, frames_vars, badge_vars>> =>
        [PortalNext]_portal_all /\ [FramesNext]_frames_vars /\ [BadgeNext]_badge_vars
  BY DEF PixelNext
<1> QED BY <1>1, <1>2, PTL DEF PixelSpec, PortalSpec, FramesSpec, BadgeSpec

(* Of a session on any route: what was said of the portal, of the frames of *)
(* a bound window and of its badge holds of the route that decides between  *)
(* them (pixels.rs), for any facts it decides from.                         *)
THEOREM TheRouteKeepsThem ==
  PixelSpec =>
    /\ []AStopThatWasReadAsksAgain /\ []NoInputPastABarrier
    /\ []FramesAreOfTheirStamp /\ []NothingServedFromBeforeAChange
    /\ []TheBadgeIsSeen /\ MenusStayOver
BY PartsAreFollowed, StopsAreKept, DialogsPassNoBarrier, FramesShowWhatWasDrawn,
   FramesAreNoOlderThanTheRequest, TheBadgeIsSeenAlways, MenusStayOverIt
=============================================================================
