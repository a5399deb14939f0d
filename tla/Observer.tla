------------------------------ MODULE Observer ------------------------------
(***************************************************************************)
(* The observe rail: the worker that starts and stops it (observe_start,   *)
(* observe_stop and the end of main), the observer thread's life, and the  *)
(* callbacks of its run loop (module Capture).  The thread and the worker  *)
(* share the stop flag and the ledger of accessibility switches; all else  *)
(* is the thread's own.  A callback and the change of the app it answers   *)
(* are one step: AX delivers an app's notifications in order.              *)
(***************************************************************************)
EXTENDS Capture

CONSTANTS
  AppAnswers, \* bound: the sets of attributes an app may answer in one callback
  MaxNews     \* bound: starts, and changes of the desktop and the grant, in one behaviour

VARIABLES
  worker,    \* what the worker is at: "idle" when no session stands
  thread,    \* the observer thread's run loop
  stop,      \* the flag both share
  ctx,       \* the thread's Ctx
  ax,        \* the switches and the ledger
  trusted,   \* the accessibility grant
  front,     \* the process owning the frontmost window
  focused,   \* each process's focused window
  shown,     \* the page each window shows
  news,      \* changes so far
  emitted,   \* the frames the last step wrote
  over,      \* history: the gap that says coverage ended was written
  owed,      \* history: edits notified and not yet read
  overtaken  \* history: those another element's change took the place of

thread_vars == <<worker, thread, stop, ctx, ax>>
desktop     == <<trusted, front, focused, shown, news>>
told        == <<emitted, over, owed, overtaken>>
observer_vars == <<thread_vars, desktop, told>>

NewCtx ==
  [attached |-> None, front_pid |-> None, pending_value |-> None, watched_value |-> None,
   gap_ledger |-> {}, attempts |-> [b \in Bundles |-> [probe |-> 0, attach |-> 0]]]

MayBeFocused(p, w) ==
  LET mine == {v \in Windows : WindowOwner[v] = p}
  IN  IF mine = {} THEN w = None ELSE w \in mine

ObserverInit ==
  /\ worker = "idle" /\ thread = "none" /\ stop = FALSE
  /\ ctx = NewCtx
  /\ ax = [on |-> {}, activated |-> {}, unsaid |-> {}, refused |-> {}]
  /\ trusted = TRUE
  /\ front \in Pids
  /\ focused \in {f \in [Pids -> Windows \cup {None}] : \A p \in Pids : MayBeFocused(p, f[p])}
  /\ shown \in [Windows -> Pages]
  /\ news = 0
  /\ emitted = <<>> /\ over = FALSE /\ owed = {} /\ overtaken = {}

Now == [ctx |-> ctx, ax |-> ax, out |-> <<>>, settled |-> {}]

\* What a callback leaves behind.
Commit(s) ==
  /\ ctx' = s.ctx
  /\ ax' = s.ax
  /\ emitted' = s.out
  /\ owed' = owed \ s.settled
  /\ overtaken' = overtaken \ s.settled

Silent == emitted' = <<>> /\ UNCHANGED <<over, owed, overtaken>>

News == news < MaxNews /\ news' = news + 1

\* The focused window of the attached app.
FrontWindow == IF ctx.attached = None THEN None ELSE focused[ctx.attached.pid]
-----------------------------------------------------------------------------
(* The worker.                                                             *)

ObserveStart ==
  /\ worker = "idle" /\ trusted
  /\ worker' = "starting" /\ thread' = "setup" /\ stop' = FALSE
  /\ ctx' = NewCtx
  /\ emitted' = <<>> /\ over' = FALSE /\ owed' = {} /\ overtaken' = {}
  /\ News /\ UNCHANGED <<ax, trusted, front, focused, shown>>

\* The ready signal came in time: the session stands, and observe_start is acked.
StartIsAcked ==
  /\ worker = "starting" /\ thread # "setup"
  /\ worker' = "running"
  /\ Silent /\ UNCHANGED <<thread, stop, ctx, ax, desktop>>

\* It did not: the thread is told to stop and joined before the refusal is acked.
StartTimesOut ==
  /\ worker = "starting" /\ thread = "setup"
  /\ worker' = "refusing" /\ stop' = TRUE
  /\ Silent /\ UNCHANGED <<thread, ctx, ax, desktop>>

\* capture::stop, by observe_stop and at the end of main.
Stops(from, to) ==
  /\ worker = from
  /\ worker' = to /\ stop' = TRUE
  /\ Silent /\ UNCHANGED <<thread, ctx, ax, desktop>>

ObserveStop == Stops("running", "stopping")

StdinEnds == Stops("running", "leaving") \/ Stops("idle", "leaving")

\* The join returns: the ack goes out, and no session stands.
Joined ==
  /\ worker \in {"refusing", "stopping"} /\ thread = "none"
  /\ worker' = "idle"
  /\ Silent /\ UNCHANGED <<thread, stop, ctx, ax, desktop>>

\* clear_activations, once main's stop has joined; then the process is gone.
Leaves(r) ==
  /\ worker = "leaving" /\ thread = "none"
  /\ worker' = "gone"
  /\ ax' = [on |-> IF "clear" \in r THEN ax.on \ ax.activated ELSE ax.on,
            activated |-> {},
            unsaid |-> ax.unsaid,
            refused |-> IF "clear" \in r THEN ax.refused ELSE ax.refused \cup ax.activated]
  /\ Silent /\ UNCHANGED <<thread, stop, ctx, desktop>>

\* activate_accessibility, by an enumeration of some window's app: what reads as on is
\* left alone, and a switch is written down when the setter agreed or it reads back.
WorkerActivates(pid, attribute, read, recorded) ==
  LET it == <<pid, attribute>>
  IN  /\ worker \in {"idle", "running"} /\ trusted
      /\ read => {it, <<pid, Manual>>} \cap ax.on = {}
      /\ ax' = [ax EXCEPT !.on = @ \cup {it},
                          !.activated = IF recorded THEN @ \cup {it} ELSE @,
                          !.unsaid = CASE recorded -> @ \ {it}
                                       [] ~recorded /\ it \in ax.activated -> @
                                       [] OTHER -> @ \cup {it},
                          !.refused = IF recorded THEN @ \ {it} ELSE @]
      /\ News /\ Silent
      /\ UNCHANGED <<worker, thread, stop, ctx, trusted, front, focused, shown>>
-----------------------------------------------------------------------------
(* The observer thread.                                                    *)

\* How an attach to `pid` may go, when one is tried.
Ways(pid) ==
  IF BundleOf[pid] \in Allowed
     /\ ~Exhausted(Now, BundleOf[pid], "attach", AttachAttempts)
  THEN Attaches ELSE {None}

\* reconcile_frontmost on the way to the run loop, and on every tick.
ReconcileFrontmost ==
  /\ ctx.attached # None => ctx.attached.pid # front
  /\ \E s \in {Reconcile(Now, front, FrontWindow, shown, how, r) :
               how \in Ways(front), r \in AppAnswers} : Commit(s)

\* observe_loop, to its run loop; the frontmost window may be nobody's.
Setup ==
  /\ thread = "setup"
  /\ thread' = "running"
  /\ \/ ReconcileFrontmost
     \/ UNCHANGED <<ctx, ax, owed, overtaken>> /\ emitted' = <<>>
  /\ UNCHANGED <<worker, stop, desktop, over>>

\* frontmost_tick finds the flag up.
TickStops ==
  /\ thread = "running" /\ stop
  /\ thread' = "stopped"
  /\ Silent /\ UNCHANGED <<worker, stop, ctx, ax, desktop>>

TickFindsGrantGone_Unflushed ==
  /\ thread = "running" /\ ~stop /\ ~trusted
  /\ Commit(Emit(Now, Gap("grant_revoked", None)))
  /\ over' = TRUE
  /\ stop' = TRUE /\ thread' = "stopped"
  /\ UNCHANGED <<worker, desktop>>

\* ... or the grant gone, when it looks: every GRANT_CHECK_EVERY ticks.
TickFindsGrantGone ==
  /\ thread = "running" /\ ~stop /\ ~trusted
  /\ \E s \in {FlushPending(Now, FrontWindow, shown, r) : r \in AppAnswers} :
       Commit(Emit(s, Gap("grant_revoked", None)))
  /\ over' = TRUE
  /\ stop' = TRUE /\ thread' = "stopped"
  /\ UNCHANGED <<worker, desktop>>

TickReconciles ==
  /\ thread = "running" /\ ~stop
  /\ ReconcileFrontmost
  /\ UNCHANGED <<worker, thread, stop, desktop, over>>

\* The run loop returns: detach, and the thread ends.
ThreadEnds ==
  /\ thread = "stopped"
  /\ \E s \in {Detach(Now, FrontWindow, shown, r) : r \in AppAnswers} : Commit(s)
  /\ thread' = "none"
  /\ UNCHANGED <<worker, stop, desktop, over>>

\* A timer due in the pass that stopped the run loop fires all the same.
ValueSettle ==
  /\ thread \in {"running", "stopped"} /\ ctx.pending_value # None
  /\ \E s \in {FlushPendingValue(Now, shown, r) : r \in AppAnswers} : Commit(s)
  /\ UNCHANGED <<worker, thread, stop, desktop, over>>

TitleSettle ==
  /\ thread \in {"running", "stopped"} /\ ctx.attached # None
  /\ ctx.attached.title.pending # None
  /\ \E s \in {FlushPendingTitle(Now, FrontWindow, shown, r) : r \in AppAnswers} : Commit(s)
  /\ UNCHANGED <<worker, thread, stop, desktop, over>>

Attached(pid) == thread = "running" /\ ctx.attached # None /\ ctx.attached.pid = pid

FocusMoves(e) ==
  /\ Attached(AppOf(e)) /\ News
  /\ focused' = [focused EXCEPT ![AppOf(e)] = WindowOf[e]]
  /\ \E s \in {OnFocusChanged(Now, e, shown, r) : r \in AppAnswers} : Commit(s)
  /\ UNCHANGED <<worker, thread, stop, trusted, front, shown, over>>

ValueChanges(e, late) ==
  /\ Attached(AppOf(e)) /\ News
  /\ late => ctx.pending_value # None
  /\ \E s \in {OnValueChanged(Now, e, late, shown, r) : r \in AppAnswers} :
       LET edited == IF RoleOf[e] = "label" THEN owed ELSE owed \cup {e}
       IN  /\ ctx' = s.ctx /\ ax' = s.ax /\ emitted' = s.out
           /\ owed' = edited \ s.settled
           /\ overtaken' = (overtaken \cup (owed \cap {ctx.pending_value})) \ {e}
  /\ UNCHANGED <<worker, thread, stop, trusted, front, focused, shown, over>>

WindowFocused(w) ==
  /\ Attached(WindowOwner[w]) /\ News
  /\ focused' = [focused EXCEPT ![WindowOwner[w]] = w]
  /\ \E s \in {OnWindowFocused(Now, w, shown, p, r) :
               p \in IF ctx.attached.ax_tree = "unknown" THEN Looks ELSE {None},
               r \in AppAnswers} : Commit(s)
  /\ UNCHANGED <<worker, thread, stop, trusted, front, shown, over>>

TitleChanges(w, page, late) ==
  /\ Attached(WindowOwner[w]) /\ News
  /\ page # shown[w]
  /\ late => ctx.attached.title.pending # None
  /\ shown' = [shown EXCEPT ![w] = page]
  /\ \E s \in {OnTitleChanged(Now, late, focused[WindowOwner[w]], shown', r) :
               r \in AppAnswers} : Commit(s)
  /\ UNCHANGED <<worker, thread, stop, trusted, front, focused, over>>
-----------------------------------------------------------------------------
(* The desktop, and the whole.                                             *)

FrontChanges ==
  /\ News /\ front' \in Pids \ {front}
  /\ Silent /\ UNCHANGED <<thread_vars, trusted, focused, shown>>

GrantChanges ==
  /\ News /\ trusted' = ~trusted
  /\ Silent /\ UNCHANGED <<thread_vars, front, focused, shown>>

Worker ==
  \/ ObserveStart \/ StartIsAcked \/ StartTimesOut \/ ObserveStop \/ StdinEnds \/ Joined
  \/ \E r \in AppAnswers : Leaves(r)
  \/ \E pid \in {WindowOwner[w] : w \in Windows}, attribute \in {Manual, Enhanced},
       read, recorded \in BOOLEAN : WorkerActivates(pid, attribute, read, recorded)

Thread ==
  \/ Setup \/ TickStops \/ TickFindsGrantGone \/ TickReconciles \/ ThreadEnds
  \/ ValueSettle \/ TitleSettle
  \/ \E e \in Elements : FocusMoves(e) \/ \E late \in BOOLEAN : ValueChanges(e, late)
  \/ \E w \in Windows :
       \/ WindowFocused(w)
       \/ \E page \in Pages, late \in BOOLEAN : TitleChanges(w, page, late)

ObserverNext == Worker \/ Thread \/ FrontChanges \/ GrantChanges

ObserverSpec == ObserverInit /\ [][ObserverNext]_observer_vars
-----------------------------------------------------------------------------
(* Properties.                                                             *)

\* The edit is in the debounce, of the app attached, and the thread still goes on with
\* its coverage.
Waits(e) ==
  /\ ctx.pending_value = e
  /\ ctx.attached # None /\ ctx.attached.pid = AppOf(e)
  /\ thread # "none" /\ ~over

\* An edit the app told of waits in the debounce until the settle timer, the ceiling, a
\* blur, a detach or the end of coverage reads it: the thread never leaves an app, the
\* grant or itself with an edit nobody read (flush_pending_value and who calls it).  The
\* exception is what the code does: a change of another element takes the debounce's one
\* place (on_value_changed).
EditsAreRead == \A e \in owed \ overtaken : Waits(e)

\* Without that exception: the comment of flush_pending_value has it that it is the only
\* way a value leaves the debounce, so that no edit is dropped (on_value_changed).
NoEditIsDropped == \A e \in owed : Waits(e)

\* No frame follows the gap that says coverage ended, and none leaves the sidecar once
\* observe_stop or a refused observe_start is acked, however late a timer fires.
NothingFollowsTheEnd ==
  [][emitted' # <<>> => ~over /\ worker \notin {"idle", "gone"}]_observer_vars

\* A switch this process turned on is in the ledger from which it is undone, whoever of
\* the worker and the observer turned it on and whichever of them left the app first,
\* and a process that ended by its stdin leaves none on (record_activation,
\* clear_activation, clear_activations).  Two exceptions: a switch an app turned on and
\* did not say so, and one it was asked to turn off and would not, of which the code
\* keeps no record to ask again from.
SwitchesAreUndone ==
  /\ ax.on \subseteq ax.activated \cup ax.unsaid \cup ax.refused
  /\ worker = "gone" => ax.activated = {} /\ ax.on \subseteq ax.unsaid \cup ax.refused

\* A frame that may be written: no text of a secure field and none typed in a browser
\* window not known to be public, and of a page only the one its window shows, which is
\* no private window of a browser that marks them.
MayCross(f) ==
  CASE f.kind = "field.value" ->
         f.says = "text" =>
           /\ RoleOf[f.element] = "editable"
           /\ BundleOf[f.app] \in Browsers =>
                BundleOf[f.app] \in Pinned /\ WindowOf[f.element] \notin PrivateWindows
    [] f.kind = "browser.navigated" ->
         f.page = f.shown /\ (BundleOf[f.app] \in Pinned => f.window \notin PrivateWindows)
    [] OTHER -> TRUE

\* What must not cross the Port: the text of a secure field, the text typed in a
\* browser window not known to be public, a private window's page.  And what does is
\* what the owner sees: the page reported is the one the window shows.
WithheldStaysWithheld == \A i \in 1..Len(emitted) : MayCross(emitted[i])
=============================================================================
