------------------------------ MODULE Capture ------------------------------
(***************************************************************************)
(* What one callback of the macOS observer thread does (capture.rs, imp).  *)
(* Every callback runs to its end on the observer's one run loop, so each  *)
(* is an operator on the state it finds: s.ctx is the thread's Ctx, s.ax   *)
(* the accessibility switches with the ledger ax.rs keeps of them, s.out   *)
(* the frames emitted so far and s.settled the elements read.              *)
(*                                                                         *)
(* `r` is what the observed app answers during one callback: the           *)
(* attributes it can be asked for and did not refuse or time out on.       *)
(***************************************************************************)
EXTENDS Naturals, Sequences, FiniteSets, SequencesExt

CONSTANTS
  Pids, Bundles, Allowed,   \* processes, apps, and the apps observe_start allows
  BundleOf,                 \* the app a process is
  Browsers, Pinned,         \* the browsers, and those with a private-window marker
  Windows, WindowOwner,     \* the windows and the process each belongs to
  PrivateWindows,           \* the windows opened in private mode
  Elements, RoleOf, WindowOf, \* what may hold a value, and where
  Pages,                    \* what a window can show; the titles name them
  AttachAttempts, ProbeAttempts, BrowserWindowsMax,
  None

Empty == "empty"   \* a title that could not be read; no page is without one

ASSUME CaptureAssumption ==
  /\ Allowed \subseteq Bundles /\ Pinned \subseteq Browsers /\ Browsers \subseteq Bundles
  /\ BundleOf \in [Pids -> Bundles]
  /\ WindowOwner \in [Windows -> Pids] /\ PrivateWindows \subseteq Windows
  /\ RoleOf \in [Elements -> {"editable", "secure", "label"}]
  /\ WindowOf \in [Elements -> Windows]
  /\ AttachAttempts \in Nat \ {0} /\ ProbeAttempts \in Nat \ {0}
  /\ BrowserWindowsMax \in Nat \ {0}
  /\ Empty \notin Pages

\* What is kept of the app attached: its tree as far as it was seen, what was read in which
\* browser window, and the title that waits and the last one told of.
MaybePage == Pages \cup {None}
Entries   == [window: Windows, area: MaybePage, last: MaybePage]
Titles    == [pending: MaybePage \cup {Empty}, last_emitted: MaybePage \cup {Empty}]
Trees     == {"enabled", "title_only", "unknown"}

Attachments == [pid: Pids, ax_tree: Trees, browser_windows: Seq(Entries), title: Titles]

ASSUME NoneIsNoAttachment == None \notin Attachments /\ None \notin Elements

AppOf(e) == WindowOwner[WindowOf[e]]

Attributes == {"AXRole", "AXValue", "AXWindow", "AXTitle", "AXArea", "AXURL", "prior", "clear"}

Emit(s, frame) == [s EXCEPT !.out = Append(@, frame)]
Event(s, what) == [kind |-> what, app |-> s.ctx.attached.pid]
Gap(reason, app) == [kind |-> "observer.gap", reason |-> reason, app |-> app]

\* Ledger::announce, and the gap it lets out once.
Announce(s, bundle, reason, app) ==
  IF <<bundle, reason>> \in s.ctx.gap_ledger THEN s
  ELSE Emit([s EXCEPT !.ctx.gap_ledger = @ \cup {<<bundle, reason>>}], Gap(reason, app))

Exhausted(s, bundle, attempt, max) == s.ctx.attempts[bundle][attempt] >= max

TakeAttempt(s, bundle, attempt, max) ==
  IF Exhausted(s, bundle, attempt, max) THEN s
  ELSE [s EXCEPT !.ctx.attempts[bundle][attempt] = @ + 1]
-----------------------------------------------------------------------------
(* Browser windows: what is remembered of each, least recently touched     *)
(* first, and the posture its title shows.                                 *)

\* A private window's title has the marker in it.
HasMarker(w, title) == title # Empty /\ w \in PrivateWindows

PrivateState_NoMarkerIsPublic(bundle, w, title) ==
  CASE bundle \notin Pinned     -> "unknown"
    [] bundle \in Pinned /\ HasMarker(w, title) -> "private"
    [] OTHER                    -> "not_private"

PrivateState(bundle, w, title) ==
  CASE bundle \notin Pinned                         -> "unknown"
    [] bundle \in Pinned /\ title = Empty           -> "unreadable"
    [] bundle \in Pinned /\ HasMarker(w, title)     -> "private"
    [] OTHER                                        -> "not_private"

Fresh(w) == [window |-> w, area |-> None, last |-> None]

\* A window is in the list once, and the one last touched is at its end.
IsRecorded(s, w) ==
  \E i \in DOMAIN s.ctx.attached.browser_windows : s.ctx.attached.browser_windows[i].window = w

Position(s, w) ==
  CHOOSE i \in DOMAIN s.ctx.attached.browser_windows :
    s.ctx.attached.browser_windows[i].window = w

Entry(s, w) ==
  IF IsRecorded(s, w) THEN s.ctx.attached.browser_windows[Position(s, w)] ELSE Fresh(w)

\* browser_entry, and what is then stored in it: the touched window goes last.
Store(s, entry) ==
  LET windows == s.ctx.attached.browser_windows
      kept    == CASE IsRecorded(s, entry.window) ->
                        RemoveAt(windows, Position(s, entry.window))
                   [] ~IsRecorded(s, entry.window) /\ Len(windows) >= BrowserWindowsMax ->
                        Tail(windows)
                   [] OTHER -> windows
  IN  [s EXCEPT !.ctx.attached.browser_windows = Append(kept, entry)]

\* The page a window's URL is read from: the remembered one while its title is in
\* the window's, or the one a walk finds.
WebArea(s, w, shown, title, r) ==
  LET cached == Entry(s, w).area
  IN  IF cached # None /\ "AXArea" \in r /\ cached = title THEN cached ELSE shown

ReadTitle(shown, r) == IF {"AXWindow", "AXTitle"} \subseteq r THEN shown ELSE Empty

MaybeEmitNavigation(s, w, shown, r) ==
  LET bundle == BundleOf[s.ctx.attached.pid]
      title  == ReadTitle(shown, r)
      state  == PrivateState(bundle, w, title)
      area   == WebArea(s, w, shown, title, r)
      entry  == Entry(s, w)
  IN  IF \/ s.ctx.attached = None \/ s.ctx.attached.ax_tree # "enabled"
         \/ bundle \notin Browsers \/ "AXWindow" \notin r
         \/ state \in {"private", "unreadable"}
      THEN s
      ELSE IF "AXURL" \notin r THEN Store(s, [entry EXCEPT !.area = None])
      ELSE IF entry.last = area THEN Store(s, [entry EXCEPT !.area = area])
      ELSE Emit(Store(s, [entry EXCEPT !.area = area, !.last = area]),
                [kind |-> "browser.navigated", app |-> s.ctx.attached.pid, window |-> w,
                 page |-> area, shown |-> shown])
-----------------------------------------------------------------------------
(* The two debounces, emptied.                                             *)

FieldValue(s, e, says, site) ==
  [kind |-> "field.value", app |-> s.ctx.attached.pid, element |-> e, says |-> says,
   site |-> site]

EmitBrowserFieldValue(s, e, shown, r) ==
  LET bundle == BundleOf[s.ctx.attached.pid]
      w      == WindowOf[e]
      state  == PrivateState(bundle, w, ReadTitle(shown[w], r))
      looked == IF "AXWindow" \in r THEN Store(s, Entry(s, w)) ELSE s
      site   == IF "AXWindow" \in r THEN Entry(s, w).last ELSE None
  IN  CASE state = "not_private" -> Emit(looked, FieldValue(s, e, "text", site))
        [] state = "unknown" ->
             Announce(Emit(looked, FieldValue(s, e, "withheld", None)),
                      bundle, "private_unknown", s.ctx.attached.pid)
        [] OTHER -> Emit(looked, FieldValue(s, e, "withheld", None))

EmitFieldValue(s, e, shown, r) ==
  CASE "AXRole" \notin r \/ RoleOf[e] = "label" -> s
    [] "AXRole" \in r /\ RoleOf[e] = "secure" ->
         Emit(Emit(s, Gap("secure_input", None)), FieldValue(s, e, "withheld", None))
    [] "AXRole" \in r /\ RoleOf[e] = "editable" /\ "AXValue" \notin r ->
         Emit(s, FieldValue(s, e, "withheld", None))
    [] OTHER -> IF BundleOf[s.ctx.attached.pid] \in Browsers
                THEN EmitBrowserFieldValue(s, e, shown, r)
                ELSE Emit(s, FieldValue(s, e, "text", None))

\* With no app attached the edit is dropped, unread.
FlushPendingValue(s, shown, r) ==
  LET e     == s.ctx.pending_value
      taken == [s EXCEPT !.ctx.pending_value = None]
      read  == [taken EXCEPT !.settled = @ \cup {e}]
  IN  CASE e = None                            -> s
        [] e # None /\ s.ctx.attached = None -> taken
        [] OTHER                               -> EmitFieldValue(read, e, shown, r)

\* The window in front of the attached app is `w`.
FlushPendingTitle(s, w, shown, r) ==
  IF s.ctx.attached = None THEN s
  ELSE LET title == s.ctx.attached.title
           taken == [s EXCEPT !.ctx.attached.title.pending = None]
       IN  IF title.pending \in {None, title.last_emitted} THEN taken
           ELSE MaybeEmitNavigation(
                  Emit([taken EXCEPT !.ctx.attached.title.last_emitted = title.pending],
                       Event(s, "window.title_changed")), w, shown[w], r)

FlushPending(s, w, shown, r) ==
  FlushPendingTitle(FlushPendingValue(s, shown, r), w, shown, r)
-----------------------------------------------------------------------------
(* The accessibility switches: s.ax.on is what the apps have on because    *)
(* this process asked, `activated` the ledger it undoes them from.  Two    *)
(* histories: `unsaid`, the switches an app turned otherwise than it       *)
(* answered, and `refused`, those it would not turn off when asked.        *)

Manual   == "AXManualAccessibility"
Enhanced == "AXEnhancedUserInterface"

\* What a call is answered: "ok" is NoValue too, which says as much of the tree.
Answers == {"ok", "unsupported", "unanswered"}

SwitchOn_UnreadIsOn(s, pid, attribute, answer, turned, r) ==
  LET it     == <<pid, attribute>>
      record == answer = "ok" /\ "prior" \in r /\ it \notin s.ax.on
  IN  [s EXCEPT
        !.ax.on = IF turned THEN @ \cup {it} ELSE @,
        !.ax.activated = IF record THEN @ \cup {it} ELSE @,
        !.ax.unsaid = IF record THEN @ \ {it}
                      ELSE IF turned /\ answer # "ok" /\ it \notin s.ax.activated
                      THEN @ \cup {it} ELSE @,
        !.ax.refused = IF record THEN @ \ {it} ELSE @]

\* switch_on: `turned` says whether the app really turned it on.
SwitchOn(s, pid, attribute, answer, turned, r) ==
  LET it     == <<pid, attribute>>
      prior  == "prior" \in r /\ it \in s.ax.on
      record == answer = "ok" /\ ~prior
  IN  [s EXCEPT
        !.ax.on = IF turned THEN @ \cup {it} ELSE @,
        !.ax.activated = IF record THEN @ \cup {it} ELSE @,
        !.ax.unsaid = IF record THEN @ \ {it}
                      ELSE IF turned /\ answer # "ok" /\ it \notin s.ax.activated
                      THEN @ \cup {it} ELSE @,
        !.ax.refused = IF record THEN @ \ {it} ELSE @]

\* clear_activation: the app may refuse, and the record is gone all the same.
ClearActivation(s, pid, r) ==
  LET mine == {it \in s.ax.activated : it[1] = pid}
  IN  [s EXCEPT !.ax.activated = @ \ mine,
                !.ax.on = IF "clear" \in r THEN @ \ mine ELSE @,
                !.ax.refused = IF "clear" \in r THEN @ ELSE @ \cup mine]

\* What an app may answer to one look at its tree.
Probes ==
  [manual: Answers, turned_manual: BOOLEAN, focused: Answers,
   enhanced: Answers, turned_enhanced: BOOLEAN, after: Answers]

\* The answers that are asked for, one of those that come to the same.
Looks ==
  {p \in Probes :
     /\ p.manual = "ok" => p.turned_manual
     /\ p.manual = "unsupported" => ~p.turned_manual
     /\ p.manual # "unsupported" => p.focused = "ok"
     /\ p.focused # "unsupported" => p.enhanced = "unsupported" /\ ~p.turned_enhanced
                                     /\ p.after = "ok"
     /\ p.enhanced = "ok" => p.turned_enhanced
     /\ p.enhanced # "unanswered"}

ClassifyAxTree(manual, focused) ==
  CASE manual = "ok" -> "enabled"
    [] manual = "unsupported" /\ focused = "ok" -> "enabled"
    [] manual = "unsupported" /\ focused = "unsupported" -> "title_only"
    [] OTHER -> "unknown"

ObserveAxTree(s, pid, p, r) ==
  LET asked == SwitchOn(s, pid, Manual, p.manual, p.turned_manual, r)
      again == p.manual = "unsupported" /\ p.focused = "unsupported"
  IN  IF again THEN SwitchOn(asked, pid, Enhanced, p.enhanced, p.turned_enhanced, r)
      ELSE asked

TreeSeen(p) ==
  ClassifyAxTree(p.manual, IF p.focused = "unsupported" THEN p.after ELSE p.focused)

\* probe_ax_tree: <<what was seen, the state it leaves>>.
ProbeAxTree(s, pid, p, r) ==
  LET bundle == BundleOf[pid]
      looked == ObserveAxTree(s, pid, p, r)
  IN  IF Exhausted(s, bundle, "probe", ProbeAttempts) THEN <<"unknown", s>>
      ELSE IF TreeSeen(p) # "unknown" THEN <<TreeSeen(p), looked>>
      ELSE <<"unknown", TakeAttempt(looked, bundle, "probe", ProbeAttempts)>>

AnnounceTitleOnly(s) ==
  IF s.ctx.attached = None \/ s.ctx.attached.ax_tree # "title_only" THEN s
  ELSE Announce(s, BundleOf[s.ctx.attached.pid], "title_only", s.ctx.attached.pid)

ReprobeIfUnknown(s, p, r) ==
  IF s.ctx.attached.ax_tree # "unknown" THEN s
  ELSE LET seen == ProbeAxTree(s, s.ctx.attached.pid, p, r)
       IN  AnnounceTitleOnly([seen[2] EXCEPT !.ctx.attached.ax_tree = seen[1]])
-----------------------------------------------------------------------------
(* Attaching to the app in front, and leaving it.                          *)

\* Slip: the title is flushed and the value is not.
Detach_KeepsTheValue(s, w, shown, r) ==
  LET flushed == FlushPendingTitle(s, w, shown, r)
      pid     == flushed.ctx.attached.pid
  IN  IF s.ctx.attached = None THEN flushed
      ELSE ClearActivation([flushed EXCEPT !.ctx.attached = None, !.ctx.watched_value = None],
                           pid, r)

Detach(s, w, shown, r) ==
  LET flushed == FlushPending(s, w, shown, r)
      pid     == flushed.ctx.attached.pid
  IN  IF s.ctx.attached = None THEN flushed
      ELSE ClearActivation([flushed EXCEPT !.ctx.attached = None, !.ctx.watched_value = None],
                           pid, r)

\* How an attach goes: where it stops, the look at the tree, what was refused.
Attaches ==
  [stops: {"no connection", "no observer"}, probe: {None}, refused: {{}}]
    \cup [stops: {"registered"}, probe: Looks, refused: SUBSET {"value", "focus"}]

SpendAttachAttempt(s, bundle) == TakeAttempt(s, bundle, "attach", AttachAttempts)

RefusedReason(refused) ==
  CASE refused = {"value"} -> "ax_refused:AXValueChanged"
    [] refused = {"focus"} -> "ax_refused:AXFocusedUIElementChanged"
    [] OTHER               -> "ax_refused:AXValueChanged,AXFocusedUIElementChanged"

AnnounceRefusal(s, pid, refused) ==
  IF Exhausted(s, BundleOf[pid], "attach", AttachAttempts)
  THEN Announce(s, BundleOf[pid], RefusedReason(refused), pid)
  ELSE s

Attach(s, pid, how, r) ==
  LET bundle == BundleOf[pid]
      probed == ProbeAxTree(s, pid, how.probe, r)
      gained == [pid |-> pid, ax_tree |-> probed[1], browser_windows |-> <<>>,
                 title |-> [pending |-> None, last_emitted |-> None]]
  IN  IF Exhausted(s, bundle, "attach", AttachAttempts) THEN s
      ELSE CASE how.stops # "registered" -> SpendAttachAttempt(s, bundle)
             [] how.stops = "registered" /\ how.refused # {} ->
                  AnnounceRefusal(
                    ClearActivation(SpendAttachAttempt(probed[2], bundle), pid, r),
                    pid, how.refused)
             [] OTHER -> AnnounceTitleOnly([probed[2] EXCEPT !.ctx.attached = gained])

AppActivated(s, pid, previous) ==
  Emit(s, [kind |-> "app.activated", app |-> pid, previous |-> previous])

\* reconcile_frontmost, once `front` is known not to be the attached app.
Reconcile(s, front, w, shown, how, r) ==
  LET switched == s.ctx.front_pid # front
      previous == IF s.ctx.attached = None THEN None ELSE BundleOf[s.ctx.attached.pid]
      left     == [Detach(s, w, shown, r) EXCEPT !.ctx.front_pid = front]
      allowed  == BundleOf[front] \in Allowed
  IN  CASE ~allowed -> IF switched THEN left ELSE s
        [] allowed /\ switched -> Attach(AppActivated(left, front, previous), front, how, r)
        [] OTHER -> Attach(s, front, how, r)
-----------------------------------------------------------------------------
(* The notifications of the attached app.                                  *)

\* An element whose registration the app refuses comes to one whose role it does
\* not tell: it is not watched.
TrackValueSource(s, e, r) ==
  [s EXCEPT !.ctx.watched_value =
     IF @ = e THEN @
     ELSE IF "AXRole" \in r /\ RoleOf[e] # "label" THEN e ELSE None]

OnFocusChanged(s, e, shown, r) ==
  Emit(TrackValueSource(FlushPendingValue(s, shown, r), e, r), Event(s, "focus.changed"))

\* `late`: the burst this edit belongs to began VALUE_MAX_WAIT_MS ago.
OnValueChanged(s, e, late, shown, r) ==
  LET remembered == [s EXCEPT !.ctx.pending_value = e]
  IN  IF late THEN FlushPendingValue(remembered, shown, r) ELSE remembered

SeedEmitted(s, title) ==
  IF title = Empty THEN s ELSE [s EXCEPT !.ctx.attached.title.last_emitted = title]

OnWindowFocused(s, w, shown, p, r) ==
  LET title == ReadTitle(shown[w], r)
      told  == SeedEmitted(Emit(s, Event(s, "window.focused")), title)
  IN  MaybeEmitNavigation(ReprobeIfUnknown(told, p, r), w, shown[w], r)

OnTitleChanged(s, late, w, shown, r) ==
  LET observed == [s EXCEPT !.ctx.attached.title.pending = ReadTitle(shown[w], r)]
  IN  IF late THEN FlushPendingTitle(observed, w, shown, r) ELSE observed
=============================================================================
