-------------------------------- MODULE Seat --------------------------------
(***************************************************************************)
(* The worker in one bound window: select_target, release_target, the      *)
(* release control's half of it, a screenshot and a click by point with    *)
(* its check image, over the window's stream (WindowStream) and the table  *)
(* of observations.  A request is one record, work; between two of its     *)
(* steps the desktop, the server's thread and the badge move on their own. *)
(* A step that asks the window server sees one instant of it.              *)
(***************************************************************************)
EXTENDS WindowStream

CONSTANTS
  MaxObservations, TTL,
  MaxRequests  \* bound: the requests of one behaviour

ASSUME TableAssumption == MaxObservations \in Nat \ {0} /\ TTL \in Nat

VARIABLES
  target,     \* Worker.target, its Target
  generation, \* Worker.target_generation
  table,      \* Worker.observations
  minted,     \* its counter
  work,       \* the request being served
  served,     \* requests so far
  fence,      \* TargetFrames.fence
  landed,     \* history: where the last click went
  evidence    \* history: what the last check image showed

worker_vars == <<target, generation, table, minted, work, served, fence>>
told        == <<landed, evidence>>
seat_vars   == <<desktop_vars, stream_vars, worker_vars, told>>

Idle == [verb |-> "idle", pc |-> "idle"]

SeatInit ==
  /\ DesktopInit /\ StreamInit
  /\ target = None /\ generation = 0
  /\ table = <<>> /\ minted = 0
  /\ work = Idle /\ served = 0
  /\ fence = None
  /\ landed = None /\ evidence = None

\* ---- the table of what replies handed out coordinates in ---------------------

\* A sequence, oldest first: at most MaxObservations of them, each for TTL ticks.
Fresh(observation, at) == at - observation.at < TTL

Retained(observations, at) == SelectSeq(observations, LAMBDA o : Fresh(o, at))

Newest(observations) ==
  IF Len(observations) > MaxObservations
    THEN SubSeq(observations, Len(observations) - MaxObservations + 1, Len(observations))
    ELSE observations

Mint(observations, o, at) == Newest(Append(Retained(observations, at), o))

EntriesOf(id) == {i \in DOMAIN table : table[i].id = id}

Resolves(id) == \E i \in EntriesOf(id) : Fresh(table[i], now)
Resolve(id)  == table[CHOOSE i \in EntriesOf(id) : TRUE]

\* ---- what every request does -----------------------------------------------

Begins(request) ==
  /\ work = Idle /\ served < MaxRequests
  /\ served' = served + 1
  /\ work' = request
  /\ landed' = None /\ evidence' = None

At(pc) == work.pc = pc

GoesTo(pc) == work' = [work EXCEPT !.pc = pc]

Answered == work' = Idle /\ fence' = None

\* A frame maps through a window's bounds when it is a picture of that size.
Transforms(frame, bounds) == frame.pixels # None /\ frame.pixels.size = bounds.size

Minting(window, geometry, picture) ==
  /\ minted' = minted + 1
  /\ table' = Mint(table, [id |-> minted + 1, window |-> window, geometry |-> geometry,
                           picture |-> picture, at |-> now], now)

\* ---- select_target ---------------------------------------------------------

\* The old binding goes first and completely, whatever becomes of the new one.
SelectLists(w) ==
  /\ Begins(IF w \in on_screen
              THEN [verb |-> "select", pc |-> "start", window |-> w, bounds |-> Geometry(w),
                    born |-> born[w], tenant |-> tenant[w]]
              ELSE Idle)
  /\ target' = None /\ generation' = generation + 1
  /\ StopStream
  /\ UNCHANGED <<desktop_vars, table, minted, fence>>

SelectStarts ==
  /\ At("start")
  /\ StartStream(work.window)
  /\ GoesTo("first")
  /\ UNCHANGED <<desktop_vars, target, generation, table, minted, served, fence, told>>

SelectFirstFrame ==
  /\ At("first")
  /\ LET look == Latest(None)
     IN  /\ look.frame # None
         /\ Transforms(look.frame, work.bounds)
         /\ work' = [verb |-> "select", pc |-> "badge", window |-> work.window,
                     bounds |-> work.bounds, born |-> work.born, tenant |-> work.tenant,
                     picture |-> look.frame.pixels]
  /\ UNCHANGED <<desktop_vars, stream_vars, target, generation, table, minted, served, fence, told>>

SelectBinds ==
  /\ At("badge")
  /\ target' = [id |-> generation, window |-> work.window, born |-> work.born,
                tenant |-> work.tenant, badge |-> "starting", restarts |-> 0]
  /\ Minting(work.window, work.bounds, work.picture)
  /\ Answered
  /\ UNCHANGED <<desktop_vars, stream_vars, generation, served, told>>

\* ---- the bound window a request names: target::live -------------------------

\* process_started_at: the process of the window's number is the one that was bound.
SameProcess == target # None /\ born[target.window] = target.born

\* Its process is asked for first, then the window is looked for in a listing.
ShotBegins ==
  /\ SameProcess
  /\ Begins([verb |-> "screenshot", pc |-> "list", bounds |-> None])
  /\ UNCHANGED <<desktop_vars, stream_vars, target, generation, table, minted, fence>>

ClickBegins(id) ==
  /\ Resolves(id)
  /\ SameProcess
  /\ Begins([verb |-> "click", pc |-> "list", bounds |-> None, named |-> Resolve(id),
             tenant |-> tenant[target.window], over |-> [listed |-> None, unlisted |-> None],
             seq |-> 0, posted |-> 0, previous |-> None])
  /\ UNCHANGED <<desktop_vars, stream_vars, target, generation, table, minted, fence>>

LiveLists ==
  /\ At("list")
  /\ target.window \in on_screen
  /\ work' = [work EXCEPT !.pc = "live", !.bounds = Geometry(target.window)]
  /\ UNCHANGED <<desktop_vars, stream_vars, target, generation, table, minted, served, fence, told>>

LiveFrame == Latest(fence).frame

ShotLive ==
  /\ At("live") /\ work.verb = "screenshot"
  /\ LiveFrame # None /\ Transforms(LiveFrame, work.bounds)
  /\ GoesTo("take")
  /\ UNCHANGED <<desktop_vars, stream_vars, target, generation, table, minted, served, fence, told>>

\* The frame that becomes the image is asked for again.
ShotTakes ==
  /\ At("take")
  /\ LiveFrame # None /\ LiveFrame.pixels # None
  /\ Minting(target.window, work.bounds, LiveFrame.pixels)
  /\ Answered
  /\ UNCHANGED <<desktop_vars, stream_vars, target, generation, served, told>>

\* ---- a click by point --------------------------------------------------------

Unmoved(observation, geometry) == observation.geometry = geometry

ControlSurface == target.badge = "ready"

ClickLive ==
  /\ At("live") /\ work.verb = "click"
  /\ LiveFrame # None /\ Transforms(LiveFrame, work.bounds)
  /\ ControlSurface
  /\ Unmoved(work.named, work.bounds)
  /\ work' = [work EXCEPT !.pc = "reach", !.seq = LiveFrame.seq]
  /\ UNCHANGED <<desktop_vars, stream_vars, target, generation, table, minted, served, fence, told>>

\* A badge that exited is started once more, and this request refused all the same.
BadgeRestarts ==
  /\ At("live") /\ work.verb = "click"
  /\ LiveFrame # None /\ Transforms(LiveFrame, work.bounds)
  /\ target.badge = "gone" /\ target.restarts = 0
  /\ target' = [target EXCEPT !.badge = "starting", !.restarts = 1]
  /\ Answered
  /\ UNCHANGED <<desktop_vars, stream_vars, generation, table, minted, served, told>>

\* Slip: what the listing has in front is not looked at.
NothingListedOver_Unasked == target.window \in on_screen

\* unobstructed: a listing first, then what no listing names.
NothingListedOver == target.window \in on_screen /\ front \in Unlisted \cup {target.window}

NothingUnlistedOver == front \notin Unlisted

ClickReaches ==
  /\ At("reach")
  /\ NothingListedOver
  /\ work' = [work EXCEPT !.pc = "cover", !.over.listed = front]
  /\ UNCHANGED <<desktop_vars, stream_vars, target, generation, table, minted, served, fence, told>>

ClickIsUncovered ==
  /\ At("cover")
  /\ NothingUnlistedOver
  /\ work' = [work EXCEPT !.pc = "post", !.over.unlisted = front]
  /\ UNCHANGED <<desktop_vars, stream_vars, target, generation, table, minted, served, fence, told>>

Arm == fence' = [after |-> now, beyond |-> work.seq]

\* What the request's last look for a cover of this kind had in front.
LastOver(f) == IF f \in Unlisted THEN work.over.unlisted ELSE work.over.listed

\* Where a point read in the named image comes down: each thing is as it should be, or
\* is not what the look at it saw.
Landing ==
  LET w == target.window
  IN  [seen      |-> target.badge # "starting",
       bound     |-> tenant[w] = target.tenant \/ tenant[w] # work.tenant,
       in_place  |-> Geometry(w) = work.named.geometry \/ Geometry(w) # work.bounds,
       uncovered |-> front = w \/ front # LastOver(front)]

ClickPosts ==
  /\ At("post")
  /\ landed' = Landing
  /\ Arm
  /\ work' = [work EXCEPT !.pc = "check", !.posted = now]
  /\ UNCHANGED <<desktop_vars, stream_vars, target, generation, table, minted, served, evidence>>

\* ---- its check: settle_view --------------------------------------------------

CheckLooks ==
  /\ At("check")
  /\ LiveFrame # None /\ LiveFrame.pixels # None
  /\ work.previous # LiveFrame.pixels
  /\ work' = [work EXCEPT !.previous = LiveFrame.pixels]
  /\ UNCHANGED <<desktop_vars, stream_vars, target, generation, table, minted, served, fence, told>>

\* Two samples alike, or the cap: the sample that ended the settle is the image.
CheckSettles ==
  /\ At("check")
  /\ LiveFrame # None /\ LiveFrame.pixels # None
  /\ Minting(target.window, work.bounds, LiveFrame.pixels)
  /\ evidence' = [posted |-> work.posted, picture |-> LiveFrame.pixels, lost |-> lost,
                  stable |-> work.previous = LiveFrame.pixels]
  /\ Answered
  /\ UNCHANGED <<desktop_vars, stream_vars, target, generation, served, landed>>

\* ---- the ways out ------------------------------------------------------------

\* A refusal of any check, a capture that failed or gave up, a badge that would not
\* start, a pause: what the request owned goes with it.
RequestFails ==
  /\ work # Idle
  /\ Answered
  /\ IF work.verb = "select" THEN StopStream ELSE UNCHANGED stream_vars
  /\ UNCHANGED <<desktop_vars, target, generation, table, minted, served, told>>

ReleaseTarget ==
  /\ work = Idle /\ target # None
  /\ target' = None
  /\ StopStream
  /\ UNCHANGED <<desktop_vars, generation, table, minted, work, served, fence, told>>

TakeRelease ==
  /\ work = Idle
  /\ target' = None /\ table' = <<>>
  /\ StopStream
  /\ UNCHANGED <<desktop_vars, generation, minted, work, served, fence, told>>

\* ---- the badge, a process of its own -------------------------------------------

BadgeReady ==
  /\ target # None /\ target.badge = "starting"
  /\ target' = [target EXCEPT !.badge = "ready"]
  /\ UNCHANGED <<desktop_vars, stream_vars, generation, table, minted, work, served, fence, told>>

BadgeExits ==
  /\ target # None /\ target.badge # "gone"
  /\ Whim
  /\ target' = [target EXCEPT !.badge = "gone"]
  /\ UNCHANGED <<now, scenes, front, on_screen, born, tenant, stream_vars,
                 generation, table, minted, work, served, fence, told>>

WorkerNext ==
  \/ \E w \in Windows : SelectLists(w)
  \/ SelectStarts \/ SelectFirstFrame \/ SelectBinds
  \/ ShotBegins \/ LiveLists \/ ShotLive \/ ShotTakes
  \/ \E id \in 1 .. minted : ClickBegins(id)
  \/ ClickLive \/ ClickReaches \/ ClickIsUncovered \/ ClickPosts \/ CheckLooks \/ CheckSettles
  \/ BadgeRestarts \/ RequestFails \/ ReleaseTarget \/ TakeRelease

SeatNext ==
  \/ WorkerNext
  \/ BadgeReady \/ BadgeExits
  \/ StreamNext /\ UNCHANGED <<worker_vars, told>>
  \/ DesktopNext /\ UNCHANGED <<stream_vars, worker_vars, told>>

SeatSpec == SeatInit /\ [][SeatNext]_seat_vars

-----------------------------------------------------------------------------
(* A click by point comes down with the badge shown, in the very window    *)
(* that was bound, with that window where and as big as the transform of   *)
(* the image it was read in says, and with nothing over it: each of these  *)
(* unless it became otherwise after the request's look at it, and only     *)
(* that one.  The looks are five: the process, the listing, the badge,     *)
(* what a listing has over the window and what none names (target.rs:      *)
(* live, control_surface, unmoved, unobstructed).                          *)
ClicksLandWhereTheyWereAimed ==
  landed # None => landed.seen /\ landed.bound /\ landed.in_place /\ landed.uncovered

(* The picture a check answers with was shown after its click was posted,  *)
(* however late the samples of before it were delivered and whether or not *)
(* anything changed (Fence::admits, Slot::note, post).                     *)
EvidenceFollowsTheInput ==
  evidence # None /\ ~evidence.lost =>
    evidence.picture \in ShownSince(evidence.picture.window, evidence.posted)
=============================================================================
