--------------------------- MODULE CompositeFrames ---------------------------
(***************************************************************************)
(* The X11 watch of one bound window (frames.rs): it redirects the window, *)
(* names the pixmap it is drawn into, and reads a picture only where       *)
(* drawing reported after a cut-off reached, because a fresh pixmap holds  *)
(* what the screen showed there.  A step of the watch is one exchange with *)
(* the server, which the window and its manager keep changing in between.  *)
(* The server is external: a notice of a change precedes the damage of the *)
(* copy it makes, damage is reported once per place until it is            *)
(* subtracted, and events come in order.                                   *)
(***************************************************************************)
EXTENDS Integers, Sequences

CONSTANTS
  Nothing,
  Pieces,     \* the parts of the picture damage can tell apart
  Sizes,
  Retries,    \* MAX_REPROOF_RETRIES
  MaxPaints,  \* bound: drawings by the window
  MaxChanges, \* bound: resizes, maps, unmaps, moves of the crop, the end
  MaxLooks    \* bound: intervals and requests

ASSUME WatchAssumption ==
  /\ \A places \in SUBSET Pieces :
       places # Nothing /\ Nothing \notin [shown: [places -> Int], stamp: [Pieces -> Nat], gen: Nat]
  /\ Nothing \notin {"gone", "minimized", "unavailable", "unproven"}
  /\ Retries \in Nat

VARIABLES
  window,  \* the server's: size, mapped, alive, whether its id has an heir, the crop
  gen,     \* which pixmap the window is drawn into
  pixmaps, \* what each holds: 0 for what the window did not draw
  region,  \* the damage reported since the last subtract
  events,  \* the watch's, unread
  paints, changes

VARIABLES
  watch,   \* the Watch: named, size, proven, damaged, renewed, hidden, retries
  pc, left, crop, stamp, \* its thread, and the locals of one interval
  slot,    \* the Slot: held, status, condition
  looks

VARIABLES
  request, \* latest: none, asked, caught up with an answer
  reply    \* what it was answered, and the server when it began

server_vars  == <<window, gen, pixmaps, region, events, paints, changes>>
locals       == <<pc, left, crop, stamp>>
watch_vars   == <<watch, locals, slot>>
request_vars == <<request, reply, looks>>
frames_vars  == <<server_vars, watch_vars, request_vars>>

Foreign == [p \in Pieces |-> 0]
Black == -1
Quiet == [state |-> "none", since |-> Nothing, caught |-> Nothing]

FramesInit ==
  /\ \E size \in Sizes :
       window = [size |-> size, mapped |-> TRUE, alive |-> TRUE, heir |-> FALSE, crop |-> Pieces]
  /\ gen = 1 /\ pixmaps = <<Foreign>> /\ region = {} /\ events = <<>>
  /\ paints = 0 /\ changes = 0
  /\ watch = [named |-> 0, size |-> window.size, proven |-> Nothing, damaged |-> TRUE,
              renewed |-> FALSE, hidden |-> FALSE, retries |-> 0]
  /\ pc = "redirect" /\ left = {} /\ crop = {} /\ stamp = Foreign
  /\ slot = [held |-> Nothing, status |-> "live", condition |-> Nothing]
  /\ looks = 0 /\ request = Quiet /\ reply = Nothing

\* ---- the server and the window ------------------------------------------------

Notice(kind) == [kind |-> kind, size |-> window'.size, places |-> {}]

\* Drawing over these places is reported where it was not since the last subtract.
Report(places) ==
  IF places \subseteq region THEN <<>>
  ELSE <<[kind |-> "damage", size |-> window.size, places |-> places \ region]>>

Drawable == window.alive /\ window.mapped

Paints(p) ==
  /\ Drawable /\ paints < MaxPaints
  /\ paints' = paints + 1
  /\ pixmaps' = [pixmaps EXCEPT ![gen][p] = paints + 1]
  /\ events' = events \o Report({p})
  /\ region' = region \cup {p}
  /\ UNCHANGED <<window, gen, changes, watch_vars, request_vars>>

Change == changes < MaxChanges /\ changes' = changes + 1

\* A fresh pixmap, filled from the screen, which is reported as drawing.
Renews(kind) ==
  /\ gen' = gen + 1
  /\ pixmaps' = Append(pixmaps, Foreign)
  /\ events' = events \o <<Notice(kind)>> \o Report(Pieces)
  /\ region' = Pieces

Resizes ==
  /\ Change /\ Drawable
  /\ \E size \in Sizes \ {window.size} : window' = [window EXCEPT !.size = size]
  /\ Renews("configure")
  /\ UNCHANGED <<paints, watch_vars, request_vars>>

Maps ==
  /\ Change /\ window.alive /\ ~window.mapped
  /\ window' = [window EXCEPT !.mapped = TRUE]
  /\ Renews("map")
  /\ UNCHANGED <<paints, watch_vars, request_vars>>

Unmaps ==
  /\ Change /\ Drawable
  /\ window' = [window EXCEPT !.mapped = FALSE]
  /\ events' = Append(events, Notice("unmap"))
  /\ UNCHANGED <<gen, pixmaps, region, paints, watch_vars, request_vars>>

\* The frame extents: the picture's place in the window, with no new pixmap.
Recrops ==
  /\ Change /\ window.alive
  /\ \E places \in (SUBSET Pieces) \ {{}, window.crop} :
       window' = [window EXCEPT !.crop = places]
  /\ UNCHANGED <<gen, pixmaps, region, events, paints, watch_vars, request_vars>>

\* It is destroyed or given another frame: no report of it comes after that, and
\* its id may be another window's at once.
Ends ==
  /\ Change /\ window.alive
  /\ \E heir \in BOOLEAN : window' = [window EXCEPT !.alive = FALSE, !.mapped = heir, !.heir = heir]
  /\ gen' = gen + 1 /\ pixmaps' = Append(pixmaps, Foreign)
  /\ events' = Append(events, Notice("destroy"))
  /\ UNCHANGED <<region, paints, watch_vars, request_vars>>

ServerNext ==
  \/ \E p \in Pieces : Paints(p)
  \/ Resizes \/ Maps \/ Unmaps \/ Recrops \/ Ends

\* A request about the window is answered, by its heir if it has one.
Responds == window.alive \/ window.heir

\* ---- what an event says -----------------------------------------------------------

\* took: the watch past one event.
Took(w, event) ==
  CASE event.kind = "damage" -> [w EXCEPT !.damaged = TRUE]
    [] event.kind = "configure" ->
         [w EXCEPT !.renewed = @ \/ event.size # w.size, !.size = event.size]
    [] event.kind \in {"map", "unmap"} -> [w EXCEPT !.renewed = TRUE]
    [] event.kind = "destroy" -> w

\* drain: the watch past all of them.  The last size stands, and any that was not the
\* one known before it renews.
Caught(w) ==
  LET of(kinds) == {i \in DOMAIN events : events[i].kind \in kinds}
      sizes == of({"configure"})
      last == CHOOSE i \in sizes : \A j \in sizes : j <= i
  IN  [w EXCEPT !.damaged = @ \/ of({"damage"}) # {},
                !.renewed = @ \/ of({"map", "unmap"}) # {} \/ \E i \in sizes : events[i].size # w.size,
                !.size = IF sizes = {} THEN @ ELSE events[last].size]

Destroyed == \E i \in DOMAIN events : events[i].kind = "destroy"

Faults(why) ==
  /\ slot' = [slot EXCEPT !.condition = why]
  /\ pc' = "ended"

\* ---- the thread's steps -------------------------------------------------------------

At(step) == pc = step
Goes(step) == pc' = step /\ UNCHANGED slot

StepIsSilent == UNCHANGED <<window, gen, pixmaps, region, events, paints, changes, request_vars>>

\* Whatever exchange the thread is in, a window that is no more refuses it.
FindsItGone ==
  /\ pc \in {"redirect", "size", "name", "crop", "places", "look"}
  /\ ~Responds
  /\ Faults("gone")
  /\ StepIsSilent /\ UNCHANGED <<watch, left, crop, stamp>>

\* redirect: the damage object, then the redirect, unless a compositing manager
\* made one; the server copies the screen into the pixmap and reports it as drawing.
Redirects ==
  /\ At("redirect") /\ Responds
  /\ \/ /\ Drawable
        /\ events' = events \o Report(Pieces) /\ region' = Pieces
        /\ Goes("report")
     \/ /\ Drawable
        /\ Goes("size") /\ UNCHANGED <<events, region>>
     \/ /\ ~Drawable
        /\ Faults("minimized") /\ UNCHANGED <<events, region>>
  /\ UNCHANGED <<window, gen, pixmaps, paints, changes, watch, left, crop, stamp, request_vars>>

\* redirected: any report of drawing, within its budget.
ReadsOne(next) ==
  /\ events # <<>>
  /\ events' = Tail(events)
  /\ watch' = Took(watch, Head(events))
  /\ IF Head(events).kind = "destroy" THEN Faults("gone") ELSE next

AwaitsReport ==
  /\ At("report")
  /\ \/ ReadsOne(Goes(IF Head(events).kind = "damage" THEN "size" ELSE "report"))
     \/ Faults("unproven") /\ UNCHANGED <<events, watch>>
  /\ UNCHANGED <<window, gen, pixmaps, region, paints, changes, left, crop, stamp, request_vars>>

\* name: the size, and then the pixmap; a window not shown has none to name.
ReadsSize ==
  /\ At("size") /\ Responds
  /\ watch' = [watch EXCEPT !.size = window.size, !.renewed = FALSE]
  /\ Goes("name")
  /\ StepIsSilent /\ UNCHANGED <<left, crop, stamp>>

NamesPixmap ==
  /\ At("name") /\ Responds
  /\ IF window.mapped THEN watch' = [watch EXCEPT !.named = gen] /\ Goes("repair")
                      ELSE Faults("unavailable") /\ UNCHANGED watch
  /\ StepIsSilent /\ UNCHANGED <<left, crop, stamp>>

\* Slip: nothing is set aside, so a report of before the cut-off counts as drawing.
Repairs_KeepsReports ==
  /\ At("repair")
  /\ region' = {} /\ Goes("crop")
  /\ UNCHANGED <<window, gen, pixmaps, events, paints, changes, watch, left, crop, stamp, request_vars>>

\* repaired, first half: damage_subtract.
Repairs ==
  /\ At("repair")
  /\ region' = {} /\ Goes("cut")
  /\ UNCHANGED <<window, gen, pixmaps, events, paints, changes, watch, left, crop, stamp, request_vars>>

\* A proof in hand for the first time ends the start when it does not hold.
Unproved(retries) ==
  IF slot.held = Nothing \/ retries > Retries
    THEN Faults("unproven") /\ UNCHANGED watch
    ELSE /\ Goes("run")
         /\ watch' = [watch EXCEPT !.proven = Nothing, !.retries = retries, !.hidden = FALSE]

\* repaired, its sync and drain, and at_cut_off: a renewed window voids the proof.
CutsOff ==
  /\ At("cut")
  /\ events' = <<>>
  /\ LET w == [Caught(watch) EXCEPT !.damaged = FALSE]
     IN  IF Destroyed THEN watch' = w /\ Faults("gone")
         ELSE watch' = w /\ Goes(IF w.renewed THEN "void" ELSE "crop")
  /\ UNCHANGED <<window, gen, pixmaps, region, paints, changes, left, crop, stamp, request_vars>>

\* crop and expose: what the proof has to see drawn.
Exposes ==
  /\ At("crop") /\ Responds
  /\ crop' = window.crop /\ left' = window.crop
  /\ Goes("repaint")
  /\ StepIsSilent /\ UNCHANGED <<watch, stamp>>

\* undrawn: what the drawing reported has not reached.
AwaitsDrawing ==
  /\ At("repaint") /\ left # {} /\ ~watch.renewed
  /\ ReadsOne(Goes("repaint"))
  /\ left' = left \ Head(events).places
  /\ UNCHANGED <<window, gen, pixmaps, region, paints, changes, crop, stamp, request_vars>>

\* after_drawing and reproved, at the last drawing or at the deadline.  The first
\* picture is stamped once the proof is there (Watch::first).
Proved ==
  /\ At("repaint") /\ left = {} /\ ~watch.renewed
  /\ watch' = [watch EXCEPT !.proven = crop, !.retries = 0, !.hidden = FALSE, !.damaged = TRUE]
  /\ stamp' = IF slot.held = Nothing THEN pixmaps[gen] ELSE stamp
  /\ Goes("places")
  /\ StepIsSilent /\ UNCHANGED <<left, crop>>

ProvedVoid ==
  /\ At("void") \/ (At("repaint") /\ watch.renewed)
  /\ Unproved(watch.retries)
  /\ StepIsSilent /\ UNCHANGED <<left, crop, stamp>>

ProvedShort ==
  /\ At("repaint") /\ left # {} /\ ~watch.renewed
  /\ Unproved(watch.retries + 1)
  /\ StepIsSilent /\ UNCHANGED <<left, crop, stamp>>

\* picture: the crop and the size at once, then what is under the crop.
Places ==
  /\ At("places") /\ Responds
  /\ crop' = window.crop
  /\ IF window.size = watch.size THEN Goes("subtract") /\ UNCHANGED watch
     ELSE /\ watch' = [watch EXCEPT !.renewed = TRUE]
          /\ IF slot.held = Nothing THEN Faults("unproven") ELSE Goes("run")
  /\ StepIsSilent /\ UNCHANGED <<left, stamp>>

Subtracts ==
  /\ At("subtract")
  /\ region' = {}
  /\ watch' = [watch EXCEPT !.damaged = FALSE]
  /\ Goes("grab")
  /\ UNCHANGED <<window, gen, pixmaps, events, paints, changes, left, crop, stamp, request_vars>>

\* black_out: a piece no proof reached is sent black.
Shown == [p \in crop |-> IF p \in watch.proven THEN pixmaps[watch.named][p] ELSE Black]

Grabs ==
  /\ At("grab")
  /\ slot' = [slot EXCEPT !.status = "live",
                          !.held = [shown |-> Shown, stamp |-> stamp, gen |-> watch.named]]
  /\ pc' = "run"
  /\ StepIsSilent /\ UNCHANGED <<watch, left, crop, stamp>>

\* tick: the stamp, then the look that is also the sync.
Ticks ==
  /\ At("run") /\ looks < MaxLooks
  /\ looks' = looks + 1
  /\ stamp' = pixmaps[gen]
  /\ Goes("look")
  /\ UNCHANGED <<server_vars, watch, left, crop, request, reply>>

Note(status) ==
  slot' = IF slot.held = Nothing THEN slot
          ELSE [slot EXCEPT !.status = status, !.held.stamp = stamp]

Steps(w) ==
  IF ~window.mapped THEN Note("minimized") /\ pc' = "run" /\ watch' = [w EXCEPT !.hidden = TRUE]
  ELSE IF w.hidden \/ w.renewed \/ w.proven = Nothing THEN Goes("size") /\ watch' = w
  ELSE IF w.damaged THEN Goes("places") /\ watch' = w
  ELSE Note("idle") /\ pc' = "run" /\ watch' = w

WatchLooks ==
  /\ At("look") /\ Responds
  /\ events' = <<>>
  /\ IF Destroyed THEN watch' = Caught(watch) /\ Faults("gone") ELSE Steps(Caught(watch))
  /\ UNCHANGED <<window, gen, pixmaps, region, paints, changes, left, crop, stamp, request_vars>>

\* ---- a request: Composite::latest -----------------------------------------------------

RequestAsks ==
  /\ request.state = "none" /\ looks < MaxLooks
  /\ pc # "ended" => slot.held # Nothing
  /\ looks' = looks + 1
  /\ request' = [state |-> "asked", since |-> [gen |-> gen, alive |-> window.alive], caught |-> Nothing]
  /\ reply' = Nothing
  /\ UNCHANGED <<server_vars, watch_vars>>

\* Slip: a frame is served whatever the drained events said.
Standing_IsUp(w) == "up"

Standing(w) == IF w.renewed \/ w.proven = Nothing THEN "reproving" ELSE "up"

CatchesUp ==
  /\ At("run") /\ request.state = "asked"
  /\ events' = <<>>
  /\ watch' = Caught(watch)
  /\ IF Destroyed THEN Faults("gone") ELSE UNCHANGED <<slot, pc>>
  /\ request' = [request EXCEPT !.state = "caught", !.caught = Standing(Caught(watch))]
  /\ UNCHANGED <<window, gen, pixmaps, region, paints, changes, left, crop, stamp, reply, looks>>

\* The watch ended, or is still in a proof when the budget is spent.
DoesNotCatchUp ==
  /\ request.state = "asked"
  /\ request' = [request EXCEPT !.state = "caught", !.caught = IF At("ended") THEN "ended" ELSE "late"]
  /\ UNCHANGED <<server_vars, watch_vars, reply, looks>>

Peeked == slot.condition = Nothing /\ slot.held # Nothing /\ slot.status # "minimized"

\* served: the frame, only if the watch caught up and vouches for it.
Serves ==
  /\ request.state = "caught"
  /\ request' = Quiet
  /\ reply' = [since |-> request.since,
               frame |-> IF request.caught = "up" /\ Peeked THEN slot.held ELSE Nothing]
  /\ UNCHANGED <<server_vars, watch_vars, looks>>

\* stop: the slot is cleared, whatever the thread is in.
Stops ==
  /\ request.state = "none" /\ pc \notin {"ended", "redirect"}
  /\ slot' = [held |-> Nothing, status |-> "live", condition |-> Nothing]
  /\ pc' = "ended"
  /\ StepIsSilent /\ UNCHANGED <<watch, left, crop, stamp>>

WatchNext ==
  \/ FindsItGone \/ Redirects \/ AwaitsReport \/ ReadsSize \/ NamesPixmap \/ Repairs
  \/ CutsOff \/ Exposes \/ AwaitsDrawing \/ Proved \/ ProvedVoid \/ ProvedShort
  \/ Places \/ Subtracts \/ Grabs \/ Ticks \/ WatchLooks

FramesNext ==
  \/ ServerNext \/ WatchNext
  \/ RequestAsks \/ CatchesUp \/ DoesNotCatchUp \/ Serves \/ Stops

FramesSpec == FramesInit /\ [][FramesNext]_frames_vars

-----------------------------------------------------------------------------
(* A frame served holds no pixel the window did not draw, not even what a    *)
(* fresh pixmap was filled with from the screen, and shows the window no      *)
(* earlier than the instant it is stamped with, also where "nothing changed"  *)
(* moved that instant on (prove, black_out, tick, picture, note), and where   *)
(* the window got another pixmap before the first picture was stamped, which   *)
(* the watch then holds and must not serve (first, standing, served).          *)
OfItsStamp(frame) ==
  \A p \in DOMAIN frame.shown :
    LET drawn == frame.shown[p]
    IN  drawn = Black \/ (drawn # 0 /\ drawn >= frame.stamp[p])

FramesAreOfTheirStamp ==
  reply # Nothing /\ reply.frame # Nothing => OfItsStamp(reply.frame)

(* A request is never answered with a frame of a window that was resized,    *)
(* mapped again or destroyed before it began (latest, catch_up, standing).   *)
NothingServedFromBeforeAChange ==
  reply # Nothing /\ reply.frame # Nothing =>
    reply.since.alive /\ reply.frame.gen >= reply.since.gen
=============================================================================
