----------------------------- MODULE SeatProofs -----------------------------
(***************************************************************************)
(* Where a click lands, for any number of windows, requests and whims of   *)
(* the person: the invariant MCInput checks on one window, proved by       *)
(* induction on the steps of Seat.                                         *)
(***************************************************************************)
EXTENDS Seat, TLAPS

\* A window's number is only given away when its process ends, so the start time the
\* worker compares tells the tenants of a number apart.
NumbersEndWithTheirProcess == Endings \subseteq {"quits"}

BornWithTheTenant ==
  /\ born \in [Windows -> Int] /\ tenant \in [Windows -> Int]
  /\ \A w \in Windows : born[w] = tenant[w]

Bound ==
  /\ {"window", "born", "tenant", "badge", "restarts"} \subseteq DOMAIN target
  /\ target.window \in Windows
  /\ target.born = target.tenant

TargetIsOneWindow == target # None => Bound

SelectionIsOneWindow ==
  work.pc \in {"start", "first", "badge"} => work.window \in Windows /\ work.born = work.tenant

\* What a click knows of its window from its listing on, and from its checks on.
ClickKnowsItsWindow ==
  work.verb = "click" =>
    /\ {"bounds", "named", "tenant", "over", "seq", "posted", "previous"} \subseteq DOMAIN work
    /\ {"listed", "unlisted"} \subseteq DOMAIN work.over
    /\ Bound /\ target.tenant = work.tenant

ClickIsChecked ==
  work.pc \in {"reach", "cover", "post"} =>
    /\ work.verb = "click"
    /\ target.badge # "starting"
    /\ work.named.geometry = work.bounds

\* What each of the two looks for a cover may have had in front to let the click pass.
ClickIsUncoveredByLooks ==
  /\ work.pc \in {"cover", "post"} => work.over.listed \in Unlisted \cup {target.window}
  /\ work.pc = "post" => work.over.unlisted \notin Unlisted

\* A request that has not listed its window yet is a click or a screenshot.
ListsForAClickOrAShot == work.pc = "list" => {"verb", "pc", "bounds"} \subseteq DOMAIN work

AimInv ==
  /\ {"verb", "pc"} \subseteq DOMAIN work
  /\ BornWithTheTenant /\ TargetIsOneWindow /\ SelectionIsOneWindow
  /\ ClickKnowsItsWindow /\ ClickIsChecked /\ ClickIsUncoveredByLooks
  /\ ListsForAClickOrAShot
  /\ ClicksLandWhereTheyWereAimed

-----------------------------------------------------------------------------
LEMMA AimInit == SeatInit => AimInv
BY DEF SeatInit, DesktopInit, Idle, AimInv, BornWithTheTenant, TargetIsOneWindow,
       SelectionIsOneWindow, ClickKnowsItsWindow, ClickIsChecked, ClickIsUncoveredByLooks,
       ListsForAClickOrAShot, ClicksLandWhereTheyWereAimed

\* The desktop moves under the worker: only the end of a process matters.
LEMMA DesktopKeepsBirths ==
  ASSUME NumbersEndWithTheirProcess, BornWithTheTenant, DesktopNext
  PROVE  BornWithTheTenant'
<1> USE DEF BornWithTheTenant
<1>1. CASE Tick \/ Raised
  BY <1>1 DEF Tick, Raised
<1>2. ASSUME NEW w \in Windows, Repaints(w) \/ Moves(w) \/ Resizes(w) \/ Minimizes(w)
      PROVE  BornWithTheTenant'
  BY <1>2 DEF Repaints, Moves, Resizes, Shows, Minimizes
<1>3. ASSUME NEW w \in Windows, Ends(w) PROVE BornWithTheTenant'
  <2>1. PICK e \in Endings : born' = IF e = "quits" THEN [born EXCEPT ![w] = @ + 1] ELSE born
    BY <1>3 DEF Ends
  <2>2. e = "quits"
    BY DEF NumbersEndWithTheirProcess
  <2>3. born' = [born EXCEPT ![w] = @ + 1] /\ tenant' = [tenant EXCEPT ![w] = @ + 1]
    BY <1>3, <2>1, <2>2 DEF Ends
  <2>4. QED
    BY <2>3
<1>4. QED
  BY <1>1, <1>2, <1>3 DEF DesktopNext

LEMMA AimStep ==
  NumbersEndWithTheirProcess /\ AimInv /\ [SeatNext]_seat_vars => AimInv'
<1> SUFFICES ASSUME NumbersEndWithTheirProcess, AimInv, [SeatNext]_seat_vars PROVE AimInv'
  OBVIOUS
<1>0. BornWithTheTenant'
  <2>1. CASE DesktopNext
    BY <2>1, DesktopKeepsBirths DEF AimInv
  <2>2. CASE UNCHANGED <<born, tenant>>
    BY <2>2 DEF AimInv, BornWithTheTenant
  <2>3. WorkerNext \/ BadgeReady \/ BadgeExits \/ StreamNext \/ UNCHANGED seat_vars
          => UNCHANGED <<born, tenant>>
    BY DEF WorkerNext, SelectLists, SelectStarts, SelectFirstFrame, SelectBinds, ShotBegins, LiveLists,
           ShotLive, ShotTakes, ClickBegins, ClickLive, ClickReaches, ClickIsUncovered, ClickPosts, CheckLooks,
           CheckSettles, BadgeRestarts, RequestFails, ReleaseTarget, TakeRelease, BadgeReady,
           BadgeExits, StreamNext, ServerSends, Delivered, Stopped, desktop_vars, seat_vars
  <2>4. QED
    BY <2>1, <2>2, <2>3 DEF SeatNext
<1> USE <1>0 DEF AimInv, Bound, TargetIsOneWindow, SelectionIsOneWindow, ClickKnowsItsWindow,
                 ClickIsChecked, ClickIsUncoveredByLooks, ListsForAClickOrAShot,
                 ClicksLandWhereTheyWereAimed
<1>1. ASSUME NEW w \in Windows, SelectLists(w) PROVE AimInv'
  BY <1>1 DEF SelectLists, Begins, Idle, BornWithTheTenant
<1>2. CASE SelectStarts
  BY <1>2 DEF SelectStarts, At, GoesTo, told
<1>3. CASE SelectFirstFrame
  BY <1>3 DEF SelectFirstFrame, At, told
<1>4. CASE SelectBinds
  BY <1>4 DEF SelectBinds, At, Answered, Idle, told
<1>5. CASE ShotBegins
  BY <1>5 DEF ShotBegins, Begins
<1>5a. CASE LiveLists
  BY <1>5a DEF LiveLists, At, told
<1>6. CASE ShotLive \/ ShotTakes
  BY <1>6 DEF ShotLive, ShotTakes, At, GoesTo, Answered, Idle, told
<1>7. ASSUME NEW id \in 1 .. minted, ClickBegins(id) PROVE AimInv'
  BY <1>7 DEF ClickBegins, SameProcess, Begins, BornWithTheTenant
<1>8. CASE ClickLive
  BY <1>8 DEF ClickLive, At, ControlSurface, Unmoved, told
<1>9. CASE ClickReaches
  BY <1>9 DEF ClickReaches, NothingListedOver, At, told
<1>9a. CASE ClickIsUncovered
  BY <1>9a DEF ClickIsUncovered, NothingUnlistedOver, At, told
<1>10. CASE ClickPosts
  BY <1>10 DEF ClickPosts, At, Landing, LastOver
<1>11. CASE CheckLooks
  BY <1>11 DEF CheckLooks, At, told
<1>12. CASE CheckSettles
  BY <1>12 DEF CheckSettles, Answered, Idle
<1>13. CASE BadgeRestarts
  BY <1>13 DEF BadgeRestarts, At, Answered, Idle, told
<1>14. CASE RequestFails
  BY <1>14 DEF RequestFails, Answered, Idle, told
<1>15. CASE ReleaseTarget \/ TakeRelease
  BY <1>15 DEF ReleaseTarget, TakeRelease, Idle, told
<1>16. CASE BadgeReady \/ BadgeExits
  BY <1>16 DEF BadgeReady, BadgeExits, told
<1>17. CASE StreamNext /\ UNCHANGED <<worker_vars, told>>
  BY <1>17 DEF worker_vars, told
<1>18. CASE DesktopNext /\ UNCHANGED <<stream_vars, worker_vars, told>>
  BY <1>18 DEF worker_vars, told
<1>19. CASE UNCHANGED seat_vars
  BY <1>19 DEF seat_vars, worker_vars, told
<1>20. QED
  BY <1>1, <1>2, <1>3, <1>4, <1>5, <1>5a, <1>6, <1>7, <1>8, <1>9, <1>9a, <1>10, <1>11, <1>12,
     <1>13, <1>14, <1>15, <1>16, <1>17, <1>18, <1>19 DEF SeatNext, WorkerNext

(* A click by point comes down with the badge shown, in the window that was bound, *)
(* where and as big as the image it was read in says, with nothing over it, and    *)
(* each of these fails only if it changed after the request's own look at it: for  *)
(* any windows, covers and number of requests, as long as a window's number is not *)
(* given away by a process that lives on (target.rs: live, control_surface,        *)
(* unmoved, unobstructed).                                                         *)
THEOREM ClicksAreAimed ==
  ASSUME NumbersEndWithTheirProcess
  PROVE  SeatSpec => []ClicksLandWhereTheyWereAimed
<1>1. SeatInit => AimInv
  BY AimInit
<1>2. AimInv /\ [SeatNext]_seat_vars => AimInv'
  BY AimStep
<1>3. AimInv => ClicksLandWhereTheyWereAimed
  BY DEF AimInv
<1>4. QED
  BY <1>1, <1>2, <1>3, PTL DEF SeatSpec
-----------------------------------------------------------------------------
(* What a picture is a picture of, for any number of changes, a queue of   *)
(* any length and any mishaps.                                             *)

\* None stands for "nothing there", and is not one of the things that may be there.
NoneIsNothing ==
  /\ \A pixels, status, seq, at, shown :
       [pixels |-> pixels, status |-> status, seq |-> seq, at |-> at, shown |-> shown] # None
  /\ "minimized" # None
  /\ \A after, beyond : [after |-> after, beyond |-> beyond] # None

\* p is what w showed at the instant t.
PictureOf(w, t, p) ==
  \E v \in DOMAIN scenes :
    /\ p = PictureIn(scenes[v], w)
    /\ scenes[v].from <= t
    /\ v = Len(scenes) \/ t < scenes[v + 1].from

ScenesInOrder ==
  /\ now \in Nat
  /\ scenes \in Seq(Scenes)
  /\ Len(scenes) >= 1
  /\ \A v \in DOMAIN scenes : scenes[v].from <= now
  /\ \A u, v \in DOMAIN scenes : u <= v => scenes[u].from <= scenes[v].from

Pictures == [window: Windows, size: Sizes, paint: Nat] \cup {None}
Samples  == [status: {"live", "idle", "minimized"}, shown: Nat, picture: Pictures]

Telling == {"live", "idle"}

\* The samples on their way: each is true of its instant, and one that is no picture
\* goes on from the one before it.
SamplesAreTrue ==
  /\ inbox \in Seq(Samples)
  /\ sent.picture \in Pictures
  /\ \A i \in DOMAIN inbox :
       inbox[i].status \in Telling =>
         inbox[i].shown <= now /\ PictureOf(stream.window, inbox[i].shown, inbox[i].picture)
  /\ \A i \in DOMAIN inbox :
       i > 1 /\ inbox[i].status # "live" => inbox[i].picture = inbox[i - 1].picture
  /\ inbox # <<>> => inbox[Len(inbox)].picture = sent.picture

StreamShape ==
  /\ stream # None => {"window", "tenant", "serving"} \subseteq DOMAIN stream /\ stream.window \in Windows
  /\ {"held", "seq", "condition"} \subseteq DOMAIN slot

HeldPicture == IF slot.held = None THEN None ELSE slot.held.pixels

\* The frame held is the one the next sample goes on from, and true of its instant.
SlotIsTrue ==
  ~lost =>
    /\ inbox = <<>> => HeldPicture = sent.picture
    /\ inbox # <<>> /\ inbox[1].status # "live" => HeldPicture = inbox[1].picture
    /\ slot.held # None => slot.held.status \in {"live", "idle", "minimized"}
    /\ slot.held # None /\ slot.held.status \in Telling =>
         /\ slot.held.shown \in Nat /\ slot.held.shown <= now
         /\ PictureOf(stream.window, slot.held.shown, slot.held.pixels)

WorkShape ==
  /\ {"verb", "pc"} \subseteq DOMAIN work
  /\ work.pc = "start" => work.window \in Windows
  /\ work.verb = "click" => {"posted", "previous", "seq"} \subseteq DOMAIN work
  /\ work.pc \in {"reach", "cover", "post", "check"} => work.verb = "click"
  /\ work.pc = "check" => /\ work.posted \in Nat
                          /\ fence # None /\ fence.after = work.posted

EvidenceIsLater ==
  evidence # None /\ ~evidence.lost =>
    /\ evidence.posted \in Nat
    /\ \E t \in Nat : /\ evidence.posted < t /\ t <= now
                      /\ PictureOf(evidence.picture.window, t, evidence.picture)

StreamInv == ScenesInOrder /\ StreamShape /\ SamplesAreTrue /\ SlotIsTrue

FrameInv == StreamInv /\ WorkShape /\ EvidenceIsLater

-----------------------------------------------------------------------------
\* The desktop

LEMMA FromIsNatural ==
  ASSUME ScenesInOrder
  PROVE  \A v \in DOMAIN scenes : scenes[v].from \in Nat
<1>1. \A v \in DOMAIN scenes : scenes[v] \in Scenes
  BY DEF ScenesInOrder
<1>2. QED
  BY <1>1 DEF Scenes

LEMMA NextScene ==
  ASSUME now \in Nat, NEW s \in Scenes
  PROVE  [s EXCEPT !.from = now + 1] \in Scenes /\ [s EXCEPT !.from = now + 1].from = now + 1
BY DEF Scenes

\* What was shown at an instant stays what was shown then.
LEMMA PastIsKept ==
  ASSUME ScenesInOrder, NEW s \in Scenes, Shows(s),
         NEW w, NEW t \in Nat, t <= now, NEW p, PictureOf(w, t, p)
  PROVE  PictureOf(w, t, p)'
<1>1. PICK v \in DOMAIN scenes :
        /\ p = PictureIn(scenes[v], w)
        /\ scenes[v].from <= t
        /\ v = Len(scenes) \/ t < scenes[v + 1].from
  BY DEF PictureOf
<1>2. DEFINE new == [s EXCEPT !.from = now + 1]
<1>3. new \in Scenes /\ new.from = now + 1
  <2>1. now \in Nat
    BY DEF ScenesInOrder
  <2>2. QED
    BY <2>1, NextScene
<1>4. scenes' = Append(scenes, new)
  BY DEF Shows
<1>5. /\ Len(scenes') = Len(scenes) + 1
      /\ \A u \in DOMAIN scenes : scenes'[u] = scenes[u]
      /\ scenes'[Len(scenes) + 1] = new
      /\ DOMAIN scenes' = 1 .. Len(scenes) + 1 /\ DOMAIN scenes = 1 .. Len(scenes)
  <2> HIDE DEF new
  <2>1. QED
    BY <1>3, <1>4 DEF ScenesInOrder
<1> HIDE DEF new
<1>6. v \in DOMAIN scenes' /\ p = PictureIn(scenes'[v], w) /\ scenes'[v].from <= t
  BY <1>1, <1>5 DEF PictureIn
<1>7. t < scenes'[v + 1].from
  <2>1. CASE v = Len(scenes)
    BY <2>1, <1>3, <1>5 DEF ScenesInOrder
  <2>2. CASE v # Len(scenes)
    BY <2>2, <1>1, <1>5
  <2>3. QED
    BY <2>1, <2>2
<1>8. QED
  BY <1>6, <1>7 DEF PictureOf

\* What the window shows now.
LEMMA NowIsShown ==
  ASSUME ScenesInOrder, NEW w \in Windows
  PROVE  PictureOf(w, now, Picture(w)) /\ Picture(w) \in Pictures
<1>1. Len(scenes) \in DOMAIN scenes /\ Scene \in Scenes /\ Scene.from <= now
  BY DEF ScenesInOrder, Scene
<1>2. Picture(w) \in Pictures
  BY <1>1 DEF Picture, PictureIn, Scenes, Pictures
<1>3. PictureOf(w, now, Picture(w))
  BY <1>1 DEF PictureOf, Picture, Scene
<1>4. QED
  BY <1>2, <1>3

LEMMA Painted ==
  ASSUME NEW s \in Scenes, NEW w \in Windows
  PROVE  [s EXCEPT !.paint[w] = @ + 1] \in Scenes
<1>1. s.paint \in [Windows -> Nat]
  BY DEF Scenes
<1>2. [s.paint EXCEPT ![w] = @ + 1] \in [Windows -> Nat]
  BY <1>1
<1>3. [s EXCEPT !.paint = [s.paint EXCEPT ![w] = @ + 1]] \in Scenes
  BY <1>2 DEF Scenes
<1>4. [s EXCEPT !.paint[w] = @ + 1] = [s EXCEPT !.paint = [s.paint EXCEPT ![w] = @ + 1]]
  OBVIOUS
<1>5. QED
  BY <1>3, <1>4

LEMMA Resized ==
  ASSUME NEW s \in Scenes, NEW w \in Windows, NEW z \in Sizes
  PROVE  [s EXCEPT !.size[w] = z, !.paint[w] = @ + 1] \in Scenes
<1>1. [s EXCEPT !.size[w] = z] \in Scenes
  BY DEF Scenes
<1>2. QED
  BY <1>1, Painted

\* A step of the desktop shows something new a tick later, or shows what it did.
LEMMA DesktopSteps ==
  ASSUME ScenesInOrder, DesktopNext
  PROVE  \/ \E s \in Scenes : Shows(s)
         \/ scenes' = scenes /\ now' \in {now, now + 1}
<1>1. CASE Tick \/ Raised
  BY <1>1 DEF Tick, Raised
<1>2. ASSUME NEW w \in Windows, Repaints(w) \/ Moves(w) \/ Resizes(w)
      PROVE  \E s \in Scenes : Shows(s)
  <2>1. Scene \in Scenes
    BY DEF ScenesInOrder, Scene
  <2>2. [Scene EXCEPT !.paint[w] = @ + 1] \in Scenes
    BY <2>1, Painted
  <2>3. \A p \in Places : [Scene EXCEPT !.place[w] = p] \in Scenes
    BY <2>1 DEF Scenes
  <2>4. \A z \in Sizes : [Scene EXCEPT !.size[w] = z, !.paint[w] = @ + 1] \in Scenes
    BY <2>1, Resized
  <2>5. QED
    BY <1>2, <2>2, <2>3, <2>4 DEF Repaints, Moves, Resizes
<1>3. ASSUME NEW w \in Windows, Minimizes(w) \/ Ends(w)
      PROVE  scenes' = scenes /\ now' \in {now, now + 1}
  BY <1>3 DEF Minimizes, Ends
<1>4. QED
  BY <1>1, <1>2, <1>3 DEF DesktopNext

LEMMA DesktopKeepsOrder ==
  ASSUME ScenesInOrder, DesktopNext
  PROVE  /\ ScenesInOrder' /\ now' \in Nat /\ now <= now'
         /\ \A w, p : \A t \in Nat : t <= now /\ PictureOf(w, t, p) => PictureOf(w, t, p)'
<1>1. ASSUME NEW s \in Scenes, Shows(s)
      PROVE  /\ ScenesInOrder' /\ now <= now'
             /\ \A w, p : \A t \in Nat : t <= now /\ PictureOf(w, t, p) => PictureOf(w, t, p)'
  <2>1. DEFINE new == [s EXCEPT !.from = now + 1]
  <2>2. new \in Scenes /\ new.from = now + 1
    <3>1. now \in Nat
      BY DEF ScenesInOrder
    <3>2. QED
      BY <3>1, NextScene
  <2>3. scenes' = Append(scenes, new) /\ now' = now + 1
    BY <1>1 DEF Shows
  <2> HIDE DEF new
  <2>4. ScenesInOrder'
    <3>1. /\ scenes' \in Seq(Scenes) /\ Len(scenes') = Len(scenes) + 1
          /\ \A u \in DOMAIN scenes : scenes'[u] = scenes[u]
          /\ scenes'[Len(scenes) + 1] = new
          /\ DOMAIN scenes' = 1 .. Len(scenes) + 1 /\ DOMAIN scenes = 1 .. Len(scenes)
      BY <2>2, <2>3 DEF ScenesInOrder
    <3>2. \A v \in DOMAIN scenes : scenes[v].from \in Nat
      BY FromIsNatural
    <3>3. \A v \in DOMAIN scenes' : scenes'[v].from <= now'
      BY <2>2, <2>3, <3>1, <3>2 DEF ScenesInOrder
    <3>4. ASSUME NEW u \in DOMAIN scenes', NEW v \in DOMAIN scenes', u <= v
          PROVE  scenes'[u].from <= scenes'[v].from
      <4>1. CASE v = Len(scenes) + 1
        BY <4>1, <2>2, <2>3, <3>1, <3>3
      <4>2. CASE v \in DOMAIN scenes
        BY <4>2, <3>1, <3>4 DEF ScenesInOrder
      <4>3. QED
        BY <4>1, <4>2, <3>1
    <3>5. QED
      BY <2>3, <3>1, <3>3, <3>4 DEF ScenesInOrder
  <2>5. QED
    BY <1>1, <2>3, <2>4, PastIsKept DEF ScenesInOrder
<1>2. CASE scenes' = scenes /\ now' \in {now, now + 1}
  <2>1. ScenesInOrder' /\ now' \in Nat /\ now <= now'
    BY <1>2, FromIsNatural DEF ScenesInOrder
  <2>2. \A w, p : \A t \in Nat : PictureOf(w, t, p) => PictureOf(w, t, p)'
    BY <1>2 DEF PictureOf, PictureIn
  <2>3. QED
    BY <2>1, <2>2
<1>3. QED
  BY <1>1, <1>2, DesktopSteps DEF ScenesInOrder

-----------------------------------------------------------------------------
\* The window server's thread

LEMMA InboxShape ==
  ASSUME SamplesAreTrue
  PROVE  /\ DOMAIN inbox = 1 .. Len(inbox) /\ Len(inbox) \in Nat
         /\ \A i \in DOMAIN inbox : inbox[i] \in Samples
BY DEF SamplesAreTrue

LEMMA SendKeepsFrames ==
  ASSUME StreamInv, ServerSends
  PROVE  StreamInv'
<1>1. /\ stream # None /\ stream.window \in Windows
      /\ UNCHANGED <<now, scenes, slot, stream, lost>>
  BY DEF StreamInv, StreamShape, ServerSends, Serving, Enqueue, desktop_vars
<1>2. PICK status \in {"live", "idle", "minimized"}, picture \in Pictures :
        /\ inbox' = Append(inbox, [status |-> status, shown |-> now, picture |-> picture])
        /\ sent'.picture = picture
        /\ status # "live" => picture = sent.picture
        /\ status \in Telling => PictureOf(stream.window, now, picture)
  <2>1. PictureOf(stream.window, now, Picture(stream.window)) /\ Picture(stream.window) \in Pictures
    BY <1>1, NowIsShown DEF StreamInv
  <2>2. sent.picture \in Pictures
    BY DEF StreamInv, SamplesAreTrue
  <2>3. CASE stream.window \notin on_screen
    BY <2>2, <2>3 DEF ServerSends, Enqueue, Telling
  <2>4. CASE stream.window \in on_screen /\ sent.picture = Picture(stream.window)
    BY <2>1, <2>2, <2>4 DEF ServerSends, Enqueue, Telling
  <2>5. CASE stream.window \in on_screen /\ sent.picture # Picture(stream.window)
    BY <2>1, <2>5 DEF ServerSends, Enqueue, Telling
  <2>6. QED
    BY <2>3, <2>4, <2>5
<1>3. DEFINE sample == [status |-> status, shown |-> now, picture |-> picture]
<1>4. sample \in Samples /\ sample.status = status /\ sample.shown = now /\ sample.picture = picture
  BY DEF StreamInv, ScenesInOrder, Samples
<1>5. inbox' = Append(inbox, sample)
  BY <1>2
<1> HIDE DEF sample
<1>6. /\ inbox' \in Seq(Samples) /\ Len(inbox') = Len(inbox) + 1
      /\ DOMAIN inbox' = 1 .. Len(inbox) + 1 /\ DOMAIN inbox = 1 .. Len(inbox)
      /\ \A i \in DOMAIN inbox : inbox'[i] = inbox[i]
      /\ inbox'[Len(inbox) + 1] = sample /\ Len(inbox) \in Nat
  BY <1>4, <1>5 DEF StreamInv, SamplesAreTrue
<1>7. \A w, t, p : PictureOf(w, t, p) => PictureOf(w, t, p)'
  BY <1>1 DEF PictureOf, PictureIn
<1>8. SamplesAreTrue'
  <2>1. ASSUME NEW i \in DOMAIN inbox', inbox'[i].status \in Telling
        PROVE  inbox'[i].shown <= now' /\ PictureOf(stream.window, inbox[i].shown, inbox[i].picture)'
    <3>1. CASE i \in DOMAIN inbox
      BY <3>1, <2>1, <1>1, <1>6, <1>7 DEF StreamInv, SamplesAreTrue
    <3>2. CASE i = Len(inbox) + 1
      BY <3>2, <2>1, <1>1, <1>2, <1>4, <1>6, <1>7 DEF StreamInv, ScenesInOrder
    <3>3. QED
      BY <3>1, <3>2, <1>6
  <2>2. ASSUME NEW i \in DOMAIN inbox', i > 1, inbox'[i].status # "live"
        PROVE  inbox'[i].picture = inbox'[i - 1].picture
    <3>1. CASE i \in DOMAIN inbox
      BY <3>1, <2>2, <1>6 DEF StreamInv, SamplesAreTrue
    <3>2. CASE i = Len(inbox) + 1
      <4>1. Len(inbox) \in DOMAIN inbox /\ inbox # <<>>
        BY <3>2, <2>2, <1>6
      <4>2. QED
        BY <3>2, <2>2, <4>1, <1>2, <1>4, <1>6 DEF StreamInv, SamplesAreTrue
    <3>3. QED
      BY <3>1, <3>2, <1>6
  <2>3. QED
    BY <1>1, <1>2, <1>4, <1>6, <2>1, <2>2 DEF SamplesAreTrue
<1>9. SlotIsTrue'
  <2>1. HeldPicture' = HeldPicture
    BY <1>1 DEF HeldPicture
  <2>2. inbox' # <<>>
    BY <1>6
  <2>3. ~lost /\ inbox'[1].status # "live" => HeldPicture = inbox'[1].picture
    <3>1. CASE inbox = <<>>
      BY <3>1, <1>2, <1>4, <1>6 DEF StreamInv, SlotIsTrue
    <3>2. CASE inbox # <<>>
      <4>1. 1 \in DOMAIN inbox
        BY <3>2, <1>6
      <4>2. QED
        BY <3>2, <4>1, <1>6 DEF StreamInv, SlotIsTrue
    <3>3. QED
      BY <3>1, <3>2
  <2>4. QED
    BY <1>1, <1>7, <2>1, <2>2, <2>3 DEF StreamInv, SlotIsTrue
<1>10. QED
  <2>1. ScenesInOrder' /\ StreamShape'
    BY <1>1 DEF StreamInv, ScenesInOrder, StreamShape
  <2>2. QED
    BY <1>8, <1>9, <2>1 DEF StreamInv

LEMMA DeliveryKeepsFrames ==
  ASSUME NoneIsNothing, StreamInv, Delivered
  PROVE  StreamInv'
<1>1. /\ inbox # <<>> /\ inbox' = Tail(inbox)
      /\ UNCHANGED <<now, scenes, stream, sent>>
  BY DEF Delivered
<1>2. /\ inbox \in Seq(Samples) /\ inbox' \in Seq(Samples) /\ Len(inbox) \in Nat \ {0}
      /\ Len(inbox') = Len(inbox) - 1
      /\ DOMAIN inbox = 1 .. Len(inbox) /\ DOMAIN inbox' = 1 .. Len(inbox) - 1
      /\ \A i \in DOMAIN inbox' : inbox'[i] = inbox[i + 1]
      /\ Head(inbox) = inbox[1] /\ 1 \in DOMAIN inbox /\ inbox[1] \in Samples
  BY <1>1 DEF StreamInv, SamplesAreTrue
<1>3. \A w, t, p : PictureOf(w, t, p) => PictureOf(w, t, p)'
  BY <1>1 DEF PictureOf, PictureIn
<1>4. SamplesAreTrue'
  <2>1. ASSUME NEW i \in DOMAIN inbox', inbox'[i].status \in Telling
        PROVE  inbox'[i].shown <= now' /\ PictureOf(stream.window, inbox[i].shown, inbox[i].picture)'
    <3>1. i + 1 \in DOMAIN inbox /\ inbox'[i] = inbox[i + 1]
      BY <1>2
    <3>2. QED
      BY <2>1, <3>1, <1>1, <1>3 DEF StreamInv, SamplesAreTrue
  <2>2. ASSUME NEW i \in DOMAIN inbox', i > 1, inbox'[i].status # "live"
        PROVE  inbox'[i].picture = inbox'[i - 1].picture
    <3>1. /\ i + 1 \in DOMAIN inbox /\ inbox'[i] = inbox[i + 1]
          /\ i - 1 \in DOMAIN inbox' /\ inbox'[i - 1] = inbox[i] /\ (i + 1) - 1 = i
      BY <2>2, <1>2
    <3>2. QED
      BY <2>2, <3>1 DEF StreamInv, SamplesAreTrue
  <2>3. inbox' # <<>> => inbox'[Len(inbox')].picture = sent'.picture
    <3>1. inbox' # <<>> => Len(inbox') \in DOMAIN inbox' /\ Len(inbox') + 1 = Len(inbox)
      BY <1>2
    <3>2. QED
      BY <3>1, <1>1, <1>2 DEF StreamInv, SamplesAreTrue
  <2>4. QED
    BY <1>1, <1>2, <2>1, <2>2, <2>3 DEF StreamInv, SamplesAreTrue
<1>5. DEFINE sample == Head(inbox)
<1>6. /\ inbox' = <<>> => sent'.picture = sample.picture
      /\ inbox' # <<>> /\ inbox'[1].status # "live" => inbox'[1].picture = sample.picture
  <2>1. inbox' = <<>> => Len(inbox) = 1
    BY <1>2
  <2>2. inbox' # <<>> => 1 \in DOMAIN inbox' /\ inbox'[1] = inbox[2] /\ 2 \in DOMAIN inbox
    BY <1>2
  <2>3. QED
    BY <2>1, <2>2, <1>1, <1>2 DEF StreamInv, SamplesAreTrue
<1>7. /\ sample.status \in {"live", "idle", "minimized"} /\ sample.shown \in Nat
      /\ sample.status \in Telling =>
           sample.shown <= now /\ PictureOf(stream.window, sample.shown, sample.picture)
  BY <1>2 DEF StreamInv, SamplesAreTrue, Samples
<1>8. /\ {"held", "seq", "condition"} \subseteq DOMAIN NextSeq(slot)
      /\ NextSeq(slot).held = slot.held
  BY DEF StreamInv, StreamShape, NextSeq
<1> HIDE DEF sample
<1>9. CASE SampleKept
  <2>1. CASE sample.status = "live"
    <3>1. /\ slot' = [NextSeq(slot) EXCEPT !.held = Frame(sample.picture, sample, NextSeq(slot).seq)]
      BY <1>9, <2>1 DEF SampleKept, Offer, sample
    <3>2. /\ {"held", "seq", "condition"} \subseteq DOMAIN slot'
          /\ slot'.held = Frame(sample.picture, sample, NextSeq(slot).seq)
      BY <3>1, <1>8
    <3>3. /\ slot'.held # None /\ slot'.held.pixels = sample.picture
          /\ slot'.held.status = "live" /\ slot'.held.shown = sample.shown
      BY <3>2, <2>1 DEF Frame, NoneIsNothing
    <3>4. SlotIsTrue'
      BY <3>3, <2>1, <1>1, <1>3, <1>6, <1>7 DEF SlotIsTrue, HeldPicture, Telling
    <3>5. QED
      BY <3>2, <3>4, <1>1, <1>4 DEF StreamInv, ScenesInOrder, StreamShape
  <2>2. CASE sample.status # "live"
    <3>1. slot' = Note(NextSeq(slot), sample) /\ (lost' <=> lost)
      BY <1>9, <2>2 DEF SampleKept, sample
    <3>2. ~lost => HeldPicture = sample.picture
      BY <2>2, <1>1, <1>2 DEF StreamInv, SlotIsTrue, sample
    <3>3. CASE slot.held # None
      <4>1. slot' = [NextSeq(slot) EXCEPT !.held =
                       Frame(slot.held.pixels, sample, NextSeq(slot).seq)]
        BY <3>1, <3>3, <1>8 DEF Note, Offer
      <4>2. /\ {"held", "seq", "condition"} \subseteq DOMAIN slot'
            /\ slot'.held = Frame(slot.held.pixels, sample, NextSeq(slot).seq)
        BY <4>1, <1>8
      <4>3. /\ slot'.held # None /\ slot'.held.pixels = slot.held.pixels
            /\ slot'.held.status = sample.status /\ slot'.held.shown = sample.shown
        BY <4>2 DEF Frame, NoneIsNothing
      <4>4. ~lost => slot'.held.pixels = sample.picture
        BY <3>2, <3>3, <4>3 DEF HeldPicture
      <4>5. SlotIsTrue'
        BY <4>3, <4>4, <3>1, <1>1, <1>3, <1>6, <1>7 DEF SlotIsTrue, HeldPicture
      <4>6. QED
        BY <4>2, <4>5, <1>1, <1>4 DEF StreamInv, ScenesInOrder, StreamShape
    <3>4. CASE slot.held = None /\ sample.status = "idle"
      <4>1. slot' = NextSeq(slot)
        BY <3>1, <3>4, <1>8 DEF Note
      <4>2. slot'.held = None /\ {"held", "seq", "condition"} \subseteq DOMAIN slot'
        BY <4>1, <3>4, <1>8
      <4>3. SlotIsTrue'
        BY <4>2, <3>1, <3>2, <3>4, <1>6 DEF SlotIsTrue, HeldPicture
      <4>4. QED
        BY <4>2, <4>3, <1>1, <1>4 DEF StreamInv, ScenesInOrder, StreamShape
    <3>5. CASE slot.held = None /\ sample.status = "minimized"
      <4>1. slot' = [NextSeq(slot) EXCEPT !.held = Frame(None, sample, NextSeq(slot).seq)]
        BY <3>1, <3>5, <1>8 DEF Note, Offer
      <4>2. /\ {"held", "seq", "condition"} \subseteq DOMAIN slot'
            /\ slot'.held = Frame(None, sample, NextSeq(slot).seq)
        BY <4>1, <1>8
      <4>3. slot'.held # None /\ slot'.held.pixels = None /\ slot'.held.status = "minimized"
        BY <4>2, <3>5 DEF Frame, NoneIsNothing
      <4>4. SlotIsTrue'
        BY <4>3, <3>1, <3>2, <3>5, <1>6 DEF SlotIsTrue, HeldPicture, Telling
      <4>5. QED
        BY <4>2, <4>4, <1>1, <1>4 DEF StreamInv, ScenesInOrder, StreamShape
    <3>6. QED
      BY <2>2, <3>3, <3>4, <3>5, <1>7
  <2>3. QED
    BY <2>1, <2>2
<1>10. ASSUME NEW mishap \in Mishaps, SampleMishap(mishap) PROVE StreamInv'
  <2>1. lost'
    BY <1>10 DEF SampleMishap
  <2>2. {"held", "seq", "condition"} \subseteq DOMAIN slot'
    <3>1. CASE mishap = "no_buffer"
      BY <3>1, <1>10, <1>8 DEF SampleMishap
    <3>2. CASE mishap = "unreadable"
      BY <3>2, <1>10, <1>8 DEF SampleMishap, Note, Offer
    <3>3. CASE mishap = "fault"
      BY <3>3, <1>10, <1>8 DEF SampleMishap, Fault
    <3>4. QED
      BY <3>1, <3>2, <3>3, MishapsAssumption
  <2>3. QED
    BY <2>1, <2>2, <1>1, <1>4 DEF StreamInv, ScenesInOrder, StreamShape, SlotIsTrue
<1>11. QED
  BY <1>9, <1>10 DEF Delivered

LEMMA StopKeepsFrames ==
  ASSUME StreamInv, Stopped
  PROVE  StreamInv'
<1>1. /\ UNCHANGED <<now, scenes, inbox, sent, lost>>
      /\ stream # None /\ stream' = [stream EXCEPT !.serving = FALSE]
      /\ slot' = Fault(slot, "unavailable")
  BY DEF Stopped
<1>2. stream'.window = stream.window /\ DOMAIN stream' = DOMAIN stream
  BY <1>1 DEF StreamInv, StreamShape
<1>3. slot'.held = slot.held /\ DOMAIN slot' = DOMAIN slot
  BY <1>1 DEF StreamInv, StreamShape, Fault
<1>4. \A w, t, p : PictureOf(w, t, p) => PictureOf(w, t, p)'
  BY <1>1 DEF PictureOf, PictureIn
<1>5. SamplesAreTrue'
  BY <1>1, <1>2, <1>4 DEF StreamInv, SamplesAreTrue
<1>6. SlotIsTrue'
  BY <1>1, <1>2, <1>3, <1>4 DEF StreamInv, SlotIsTrue, HeldPicture
<1>7. QED
  BY <1>1, <1>2, <1>3, <1>5, <1>6 DEF StreamInv, ScenesInOrder, StreamShape

LEMMA DesktopKeepsFrames ==
  ASSUME StreamInv, DesktopNext, UNCHANGED stream_vars
  PROVE  StreamInv'
<1>1. UNCHANGED <<slot, stream, inbox, sent, lost>>
  BY DEF stream_vars
<1>2. /\ ScenesInOrder' /\ now \in Nat /\ now' \in Nat /\ now <= now'
      /\ \A w, p : \A t \in Nat : t <= now /\ PictureOf(w, t, p) => PictureOf(w, t, p)'
  BY DesktopKeepsOrder DEF StreamInv, ScenesInOrder
<1>3. SamplesAreTrue'
  <2>1. ASSUME NEW i \in DOMAIN inbox, inbox[i].status \in Telling
        PROVE  inbox[i].shown <= now' /\ PictureOf(stream.window, inbox[i].shown, inbox[i].picture)'
    <3>1. inbox[i].shown \in Nat /\ inbox[i].shown <= now
          /\ PictureOf(stream.window, inbox[i].shown, inbox[i].picture)
      BY <2>1, InboxShape DEF StreamInv, SamplesAreTrue, Samples
    <3>2. QED
      BY <3>1, <1>1, <1>2
  <2>2. QED
    BY <1>1, <2>1 DEF StreamInv, SamplesAreTrue
<1>4. SlotIsTrue'
  <2>1. HeldPicture' = HeldPicture
    BY <1>1 DEF HeldPicture
  <2>2. QED
    BY <1>1, <1>2, <2>1 DEF StreamInv, SlotIsTrue
<1>5. QED
  BY <1>1, <1>2, <1>3, <1>4 DEF StreamInv, StreamShape

LEMMA EmptyIsTrue ==
  ASSUME ScenesInOrder', slot' = EmptySlot, inbox' = <<>>, sent' = Unsent,
         stream' # None => {"window", "tenant", "serving"} \subseteq DOMAIN stream' /\ stream'.window \in Windows
  PROVE  StreamInv'
<1>1. slot'.held = None /\ {"held", "seq", "condition"} \subseteq DOMAIN slot'
  BY DEF EmptySlot
<1>2. sent'.picture = None
  BY DEF Unsent
<1>3. SamplesAreTrue'
  BY <1>2 DEF SamplesAreTrue, Pictures
<1>4. SlotIsTrue'
  BY <1>1, <1>2 DEF SlotIsTrue, HeldPicture
<1>5. QED
  BY <1>1, <1>3, <1>4 DEF StreamInv, StreamShape

LEMMA WorkerKeepsFrames ==
  ASSUME StreamInv, UNCHANGED <<now, scenes>>,
         \/ UNCHANGED stream_vars
         \/ StopStream
         \/ \E w \in Windows : StartStream(w)
  PROVE  StreamInv'
<1>1. ScenesInOrder'
  BY DEF StreamInv, ScenesInOrder
<1>2. CASE UNCHANGED stream_vars
  <2>1. UNCHANGED <<slot, stream, inbox, sent, lost>>
    BY <1>2 DEF stream_vars
  <2>2. \A w, t, p : PictureOf(w, t, p) => PictureOf(w, t, p)'
    BY DEF PictureOf, PictureIn
  <2>3. SamplesAreTrue'
    BY <2>1, <2>2 DEF StreamInv, SamplesAreTrue
  <2>4. SlotIsTrue'
    BY <2>1, <2>2 DEF StreamInv, SlotIsTrue, HeldPicture
  <2>5. QED
    BY <1>1, <2>1, <2>3, <2>4 DEF StreamInv, StreamShape
<1>3. CASE StopStream
  BY <1>1, <1>3, EmptyIsTrue DEF StopStream
<1>4. ASSUME NEW w \in Windows, StartStream(w) PROVE StreamInv'
  BY <1>1, <1>4, EmptyIsTrue DEF StartStream
<1>5. QED
  BY <1>2, <1>3, <1>4

-----------------------------------------------------------------------------
\* The worker

\* What a look may be answered with.
LEMMA LookIsTrue ==
  ASSUME StreamInv, NoneIsNothing, NEW f, Latest(f).frame # None
  PROVE  /\ Latest(f).frame = slot.held /\ slot.held # None
         /\ ~lost => /\ slot.held.shown \in Nat /\ slot.held.shown <= now
                     /\ PictureOf(stream.window, slot.held.shown, slot.held.pixels)
         /\ f # None => slot.held.shown > f.after
<1>1. Latest(f).frame = slot.held /\ slot.held # None /\ Refusal(slot.held.status) = None
      /\ Admits(f, slot.held)
  BY DEF Latest, Peek, Err
<1>2. f # None => slot.held.shown > f.after
  BY <1>1 DEF Admits
<1>3. ~lost => slot.held.status \in Telling
  BY <1>1, <1>1 DEF NoneIsNothing, StreamInv, SlotIsTrue, Refusal, Telling
<1>4. QED
  BY <1>1, <1>2, <1>3 DEF StreamInv, SlotIsTrue

LEMMA FrameInit == NoneIsNothing /\ SeatInit => FrameInv
<1> SUFFICES ASSUME NoneIsNothing, SeatInit PROVE FrameInv
  OBVIOUS
<1>1. ScenesInOrder
  <2>1. PICK s \in [from: {0}, place: [Windows -> Places], size: [Windows -> Sizes],
                    paint: {[w \in Windows |-> 0]}] : scenes = <<s>>
    BY DEF SeatInit, DesktopInit
  <2>2. s \in Scenes /\ s.from = 0
    BY DEF Scenes
  <2>3. scenes \in Seq(Scenes) /\ Len(scenes) = 1 /\ DOMAIN scenes = {1} /\ scenes[1] = s
    BY <2>1, <2>2
  <2>4. now = 0
    BY DEF SeatInit, DesktopInit
  <2>5. QED
    BY <2>2, <2>3, <2>4 DEF ScenesInOrder
<1>2. StreamShape /\ SamplesAreTrue /\ SlotIsTrue
  BY DEF SeatInit, StreamInit, StreamShape, SamplesAreTrue, SlotIsTrue, EmptySlot, Unsent,
         Pictures, HeldPicture
<1>3. WorkShape /\ EvidenceIsLater
  BY DEF SeatInit, Idle, WorkShape, EvidenceIsLater
<1>4. QED
  BY <1>1, <1>2, <1>3 DEF FrameInv, StreamInv

\* Only the desktop makes pictures past: any other step leaves them what they were.
LEMMA EvidenceIsKept ==
  ASSUME ScenesInOrder, EvidenceIsLater, UNCHANGED evidence,
         DesktopNext \/ UNCHANGED <<now, scenes>>
  PROVE  EvidenceIsLater'
<1>1. \A w, p : \A t \in Nat : t <= now /\ PictureOf(w, t, p) => t <= now' /\ PictureOf(w, t, p)'
  <2>1. CASE DesktopNext
    BY <2>1, DesktopKeepsOrder DEF ScenesInOrder
  <2>2. CASE UNCHANGED <<now, scenes>>
    BY <2>2 DEF PictureOf, PictureIn
  <2>3. QED
    BY <2>1, <2>2
<1>2. QED
  BY <1>1 DEF EvidenceIsLater

\* A worker's step but for the post and the end of its check.
LEMMA WorkKeepsFrames ==
  ASSUME StreamInv, EvidenceIsLater, WorkShape', UNCHANGED desktop_vars,
         evidence' = None \/ evidence' = evidence,
         \/ UNCHANGED stream_vars
         \/ StopStream
         \/ \E w \in Windows : StartStream(w)
  PROVE  FrameInv'
<1>1. UNCHANGED <<now, scenes>>
  BY DEF desktop_vars
<1>2. StreamInv'
  BY <1>1, WorkerKeepsFrames
<1>3. EvidenceIsLater'
  <2>1. CASE evidence' = None
    BY <2>1 DEF EvidenceIsLater
  <2>2. CASE evidence' = evidence
    BY <1>1, <2>2, EvidenceIsKept DEF StreamInv
  <2>3. QED
    BY <2>1, <2>2
<1>4. QED
  BY <1>2, <1>3 DEF FrameInv

LEMMA SettledIsLater ==
  ASSUME NoneIsNothing, FrameInv, CheckSettles
  PROVE  FrameInv'
<1>1. UNCHANGED <<desktop_vars, stream_vars>> /\ work' = Idle
  BY DEF CheckSettles, Answered
<1>2. UNCHANGED <<now, scenes>>
  BY <1>1 DEF desktop_vars
<1>3. StreamInv'
  BY <1>1, <1>2, WorkerKeepsFrames DEF FrameInv
<1>4. WorkShape'
  BY <1>1 DEF WorkShape, Idle
<1>5. /\ work.posted \in Nat /\ fence # None /\ fence.after = work.posted
      /\ Latest(fence).frame # None
  BY DEF FrameInv, WorkShape, CheckSettles, At, LiveFrame
<1>6. /\ evidence'.posted = work.posted
      /\ evidence'.picture = Latest(fence).frame.pixels
      /\ evidence'.lost = lost
  BY DEF CheckSettles, LiveFrame
<1>7. ASSUME ~lost
      PROVE  \E t \in Nat : /\ work.posted < t /\ t <= now
                            /\ PictureOf(evidence'.picture.window, t, evidence'.picture)
  <2>1. /\ evidence'.picture = slot.held.pixels
        /\ slot.held.shown \in Nat /\ slot.held.shown <= now /\ slot.held.shown > work.posted
        /\ PictureOf(stream.window, slot.held.shown, slot.held.pixels)
    BY <1>5, <1>6, <1>7, LookIsTrue DEF FrameInv
  <2>2. evidence'.picture.window = stream.window
    BY <2>1 DEF PictureOf, PictureIn
  <2>3. QED
    BY <2>1, <2>2
<1>8. EvidenceIsLater'
  <2>1. \A w, t, p : PictureOf(w, t, p) => PictureOf(w, t, p)'
    BY <1>2 DEF PictureOf, PictureIn
  <2>2. QED
    BY <1>2, <1>5, <1>6, <1>7, <2>1 DEF EvidenceIsLater
<1>9. QED
  BY <1>3, <1>4, <1>8 DEF FrameInv

LEMMA FrameStep == NoneIsNothing /\ FrameInv /\ [SeatNext]_seat_vars => FrameInv'
<1> SUFFICES ASSUME NoneIsNothing, FrameInv, [SeatNext]_seat_vars PROVE FrameInv'
  OBVIOUS
<1>0. StreamInv /\ WorkShape /\ EvidenceIsLater /\ ScenesInOrder
  BY DEF FrameInv, StreamInv
<1>1. ASSUME NEW w \in Windows, SelectLists(w) PROVE FrameInv'
  <2>1. WorkShape'
    BY <1>1 DEF SelectLists, Begins, Idle, WorkShape
  <2>2. QED
    BY <1>0, <1>1, <2>1, WorkKeepsFrames DEF SelectLists, Begins
<1>2. CASE SelectStarts
  <2>1. WorkShape'
    BY <1>0, <1>2 DEF SelectStarts, At, GoesTo, WorkShape
  <2>2. \E w \in Windows : StartStream(w)
    BY <1>0, <1>2 DEF SelectStarts, At, WorkShape
  <2>3. QED
    BY <1>0, <1>2, <2>1, <2>2, WorkKeepsFrames DEF SelectStarts, told
<1>3. CASE SelectFirstFrame
  <2>1. WorkShape'
    BY <1>3 DEF SelectFirstFrame, WorkShape
  <2>2. QED
    BY <1>0, <1>3, <2>1, WorkKeepsFrames DEF SelectFirstFrame, told
<1>4. CASE SelectBinds \/ ShotTakes \/ BadgeRestarts
  <2>1. WorkShape'
    BY <1>4 DEF SelectBinds, ShotTakes, BadgeRestarts, Answered, Idle, WorkShape
  <2>2. QED
    BY <1>0, <1>4, <2>1, WorkKeepsFrames DEF SelectBinds, ShotTakes, BadgeRestarts, told
<1>5. CASE ShotBegins \/ \E id \in 1 .. minted : ClickBegins(id)
  <2>1. WorkShape'
    BY <1>5 DEF ShotBegins, ClickBegins, Begins, WorkShape
  <2>2. QED
    BY <1>0, <1>5, <2>1, WorkKeepsFrames DEF ShotBegins, ClickBegins, Begins
<1>5a. CASE LiveLists
  <2>1. WorkShape'
    BY <1>0, <1>5a DEF LiveLists, At, WorkShape
  <2>2. QED
    BY <1>0, <1>5a, <2>1, WorkKeepsFrames DEF LiveLists, told
<1>6. CASE ShotLive
  <2>1. WorkShape'
    BY <1>0, <1>6 DEF ShotLive, At, GoesTo, WorkShape
  <2>2. QED
    BY <1>0, <1>6, <2>1, WorkKeepsFrames DEF ShotLive, told
<1>7. CASE ClickLive \/ ClickReaches \/ ClickIsUncovered
  <2>1. WorkShape'
    BY <1>0, <1>7 DEF ClickLive, ClickReaches, ClickIsUncovered, At, WorkShape
  <2>2. QED
    BY <1>0, <1>7, <2>1, WorkKeepsFrames DEF ClickLive, ClickReaches, ClickIsUncovered, told
<1>8. CASE ClickPosts
  <2>1. WorkShape'
    <3>1. now \in Nat /\ fence' # None /\ fence'.after = now
      BY <1>0, <1>8 DEF ClickPosts, Arm, NoneIsNothing, ScenesInOrder
    <3>2. QED
      BY <1>0, <1>8, <3>1 DEF ClickPosts, At, WorkShape
  <2>2. QED
    BY <1>0, <1>8, <2>1, WorkKeepsFrames DEF ClickPosts
<1>9. CASE CheckLooks
  <2>1. WorkShape'
    BY <1>0, <1>9 DEF CheckLooks, At, WorkShape
  <2>2. QED
    BY <1>0, <1>9, <2>1, WorkKeepsFrames DEF CheckLooks, told
<1>10. CASE CheckSettles
  BY <1>10, SettledIsLater
<1>11. CASE RequestFails
  <2>1. WorkShape'
    BY <1>11 DEF RequestFails, Answered, Idle, WorkShape
  <2>2. QED
    BY <1>0, <1>11, <2>1, WorkKeepsFrames DEF RequestFails, told
<1>12. CASE ReleaseTarget \/ TakeRelease
  <2>1. WorkShape'
    BY <1>0, <1>12 DEF ReleaseTarget, TakeRelease, WorkShape
  <2>2. QED
    BY <1>0, <1>12, <2>1, WorkKeepsFrames DEF ReleaseTarget, TakeRelease, told
<1>13. CASE BadgeReady \/ BadgeExits \/ UNCHANGED seat_vars
  <2>1. WorkShape'
    BY <1>0, <1>13 DEF BadgeReady, BadgeExits, seat_vars, worker_vars, WorkShape
  <2>2. UNCHANGED <<now, scenes, stream_vars, evidence>>
    BY <1>13 DEF BadgeReady, BadgeExits, seat_vars, desktop_vars, told
  <2>3. QED
    BY <1>0, <2>1, <2>2, WorkerKeepsFrames, EvidenceIsKept DEF FrameInv
<1>14. CASE StreamNext /\ UNCHANGED <<worker_vars, told>>
  <2>1. UNCHANGED <<now, scenes>>
    BY <1>14 DEF StreamNext, ServerSends, Delivered, Stopped, desktop_vars
  <2>2. StreamInv'
    BY <1>0, <1>14, SendKeepsFrames, DeliveryKeepsFrames, StopKeepsFrames DEF StreamNext
  <2>3. WorkShape' /\ EvidenceIsLater'
    BY <1>0, <1>14, <2>1, EvidenceIsKept DEF worker_vars, told, WorkShape
  <2>4. QED
    BY <2>2, <2>3 DEF FrameInv
<1>15. CASE DesktopNext /\ UNCHANGED <<stream_vars, worker_vars, told>>
  <2>1. StreamInv'
    BY <1>0, <1>15, DesktopKeepsFrames
  <2>2. WorkShape' /\ EvidenceIsLater'
    BY <1>0, <1>15, EvidenceIsKept DEF worker_vars, told, WorkShape
  <2>3. QED
    BY <2>1, <2>2 DEF FrameInv
<1>16. QED
  BY <1>1, <1>2, <1>3, <1>4, <1>5, <1>5a, <1>6, <1>7, <1>8, <1>9, <1>10, <1>11, <1>12,
     <1>13, <1>14, <1>15 DEF SeatNext, WorkerNext

-----------------------------------------------------------------------------
\* An instant has one picture.
LEMMA InstantIsOne ==
  ASSUME ScenesInOrder, NEW w, NEW t \in Nat, NEW p, PictureOf(w, t, p)
  PROVE  p = PictureIn(scenes[Instant(t)], w)
<1>1. DEFINE Current(v) == scenes[v].from <= t /\ (v = Len(scenes) \/ t < scenes[v + 1].from)
<1>2. PICK v \in DOMAIN scenes : Current(v) /\ p = PictureIn(scenes[v], w)
  BY DEF PictureOf
<1>3. Instant(t) \in DOMAIN scenes /\ Current(Instant(t))
  BY <1>2 DEF Instant
<1>4. /\ DOMAIN scenes = 1 .. Len(scenes) /\ Len(scenes) \in Nat
      /\ \A u \in DOMAIN scenes : scenes[u].from \in Nat
  BY FromIsNatural DEF ScenesInOrder
<1>5. ASSUME NEW u \in DOMAIN scenes, NEW x \in DOMAIN scenes, Current(u), Current(x), u < x
      PROVE  FALSE
  <2>1. u + 1 \in DOMAIN scenes /\ u # Len(scenes) /\ u + 1 <= x
    BY <1>4, <1>5
  <2>2. scenes[u + 1].from <= scenes[x].from
    BY <2>1 DEF ScenesInOrder
  <2>3. QED
    BY <1>4, <1>5, <2>1, <2>2
<1> HIDE DEF Current
<1>6. v = Instant(t)
  BY <1>2, <1>3, <1>4, <1>5
<1>7. QED
  BY <1>2, <1>6

(* The picture a look is answered with is what the window showed at the instant   *)
(* the frame carries, for any windows, changes, queue and clock, whatever mishaps *)
(* befall the samples and however late they come (take_sample, Slot::note,        *)
(* Slot::offer): until a live sample leaves no pixels.                            *)
THEOREM PicturesAreOfTheirTime ==
  ASSUME NoneIsNothing
  PROVE  SeatSpec => []PictureIsOfItsTime
<1>1. SeatInit => FrameInv
  BY FrameInit
<1>2. FrameInv /\ [SeatNext]_seat_vars => FrameInv'
  BY FrameStep
<1>3. FrameInv => PictureIsOfItsTime
  <2> SUFFICES ASSUME FrameInv, Latest(None).frame # None, ~lost
               PROVE  Latest(None).frame.pixels
                        = PictureIn(scenes[Instant(Latest(None).frame.shown)], stream.window)
    BY DEF PictureIsOfItsTime
  <2>1. /\ Latest(None).frame = slot.held /\ slot.held.shown \in Nat
        /\ PictureOf(stream.window, slot.held.shown, slot.held.pixels)
    BY LookIsTrue DEF FrameInv
  <2>2. QED
    BY <2>1, InstantIsOne DEF FrameInv, StreamInv
<1>4. QED
  BY <1>1, <1>2, <1>3, PTL DEF SeatSpec

(* The image a click's check answers with was shown after the click was posted,   *)
(* for any windows, changes, queue and clock: no sample of before it, however     *)
(* late, is taken for its effect (Fence::admits, Slot::note, post, settle_view).  *)
THEOREM EvidenceIsOfLater ==
  ASSUME NoneIsNothing
  PROVE  SeatSpec => []EvidenceFollowsTheInput
<1>1. SeatInit => FrameInv
  BY FrameInit
<1>2. FrameInv /\ [SeatNext]_seat_vars => FrameInv'
  BY FrameStep
<1>3. FrameInv => EvidenceFollowsTheInput
  <2> SUFFICES ASSUME FrameInv, evidence # None, ~evidence.lost
               PROVE  evidence.picture \in ShownSince(evidence.picture.window, evidence.posted)
    BY DEF EvidenceFollowsTheInput
  <2>1. PICK t \in Nat : /\ evidence.posted \in Nat /\ evidence.posted < t
                         /\ PictureOf(evidence.picture.window, t, evidence.picture)
    BY DEF FrameInv, EvidenceIsLater
  <2>2. PICK v \in DOMAIN scenes :
          /\ evidence.picture = PictureIn(scenes[v], evidence.picture.window)
          /\ v = Len(scenes) \/ t < scenes[v + 1].from
    BY <2>1 DEF PictureOf
  <2>3. v = Len(scenes) \/ scenes[v + 1].from > evidence.posted + 1
    <3>1. v # Len(scenes) => v + 1 \in DOMAIN scenes
      BY DEF FrameInv, StreamInv, ScenesInOrder
    <3>2. v # Len(scenes) => scenes[v + 1].from \in Nat
      BY <3>1, FromIsNatural DEF FrameInv, StreamInv
    <3>3. QED
      BY <2>1, <2>2, <3>2
  <2>4. QED
    BY <2>2, <2>3 DEF ShownSince
<1>4. QED
  BY <1>1, <1>2, <1>3, PTL DEF SeatSpec
=============================================================================
