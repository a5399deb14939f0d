--------------------------- MODULE ObserverProofs ---------------------------
(***************************************************************************)
(* The observe rail, for any apps, browsers, windows, fields and answers:  *)
(* edits are read, nothing follows the end, switches are undone and what   *)
(* is private is withheld.  A callback is a chain of operators on one      *)
(* state, so what each of them leaves as it was (Follows) is shown once,   *)
(* and the steps of the thread are chains of those.                        *)
(***************************************************************************)
EXTENDS Observer, SequenceTheorems, TLAPS

\* ---- the state a callback is handed along ----------------------------------------------

Switch  == Pids \X {Manual, Enhanced}
Reasons == {"title_only", "private_unknown", "secure_input", "grant_revoked",
                "ax_refused:AXValueChanged", "ax_refused:AXFocusedUIElementChanged",
                "ax_refused:AXValueChanged,AXFocusedUIElementChanged"}

Ctxs ==
  [attached: Attachments \cup {None}, front_pid: Pids \cup {None},
   pending_value: Elements \cup {None}, watched_value: Elements \cup {None},
   gap_ledger: SUBSET (Bundles \X Reasons), attempts: [Bundles -> [{"probe", "attach"} -> Nat]]]

Axs ==
  [on: SUBSET Switch, activated: SUBSET Switch, unsaid: SUBSET Switch, refused: SUBSET Switch]

GapFrames   == [kind: {"observer.gap"}, reason: Reasons, app: Pids \cup {None}]
PlainFrames ==
  [kind: {"focus.changed", "window.focused", "window.title_changed"}, app: Pids]
AppFrames   == [kind: {"app.activated"}, app: Pids, previous: Bundles \cup {None}]
FieldFrames ==
  [kind: {"field.value"}, app: Pids, element: Elements, says: {"text", "withheld"},
   site: MaybePage]
PageFrames  ==
  [kind: {"browser.navigated"}, app: Pids, window: Windows, page: Pages, shown: Pages]

Frames == GapFrames \cup PlainFrames \cup AppFrames \cup FieldFrames \cup PageFrames

Crossing == {f \in Frames : MayCross(f)}

States == [ctx: Ctxs, ax: Axs, out: Seq(Crossing), settled: SUBSET Elements]

\* Each switch that is on is in the ledger, or the app did not say it turned it on, or
\* would not turn it off.
Recorded(x) == x.on \subseteq x.activated \cup x.unsaid \cup x.refused

\* The app attached is the one last found in front.
InFront(c) == c.attached # None => c.attached.pid = c.front_pid

Fine(s) == s \in States /\ Recorded(s.ax) /\ InFront(s.ctx)

\* The debounce holds this edit, of the app attached.
Holds(c, e) == c.pending_value = e /\ c.attached # None /\ c.attached.pid = AppOf(e)

\* An edit in the debounce is there still and its app attached, or it was read.
EditFollows(s, t) ==
  /\ s.settled \subseteq t.settled
  /\ \A e \in Elements : Holds(s.ctx, e) => Holds(t.ctx, e) \/ e \in t.settled

\* A title that waits is one that waited in the same app.
TitleFollows(s, t) ==
  t.ctx.attached # None /\ t.ctx.attached.title.pending # None =>
    /\ s.ctx.attached # None /\ s.ctx.attached.title.pending # None
    /\ t.ctx.attached.pid = s.ctx.attached.pid

Follows(s, t) == Fine(t) /\ EditFollows(s, t) /\ TitleFollows(s, t)

\* The app is the same, if there is one.
SameApp(s, t) ==
  /\ t.ctx.attached # None <=> s.ctx.attached # None
  /\ s.ctx.attached # None => t.ctx.attached.pid = s.ctx.attached.pid

NothingPending(c) ==
  /\ c.pending_value = None
  /\ c.attached # None => c.attached.title.pending = None

\* ---- the invariant ---------------------------------------------------------------------

DesktopType ==
  /\ front \in Pids
  /\ focused \in [Pids -> Windows \cup {None}]
  /\ \A p \in Pids : MayBeFocused(p, focused[p])
  /\ shown \in [Windows -> Pages]

\* The thread lives while the worker has a session, or has not joined it.
ThreadIsJoined == worker \in {"idle", "gone"} => thread = "none"

\* After the gap that ends coverage no timer finds anything.
TheEndIsFlushed == over => thread \in {"stopped", "none"} /\ NothingPending(ctx)

\* A title settles in a window.
TitlesHaveWindows ==
  ctx.attached # None /\ ctx.attached.title.pending # None => FrontWindow \in Windows

ObserverInv ==
  /\ DesktopType /\ ctx \in Ctxs /\ ax \in Axs /\ owed \subseteq Elements
  /\ InFront(ctx)
  /\ ThreadIsJoined /\ TheEndIsFlushed /\ TitlesHaveWindows
  /\ EditsAreRead /\ SwitchesAreUndone /\ WithheldStaysWithheld

\* ---- what every operator leaves as it was ----------------------------------------------

LEMMA Itself == ASSUME NEW s, Fine(s) PROVE Follows(s, s) /\ SameApp(s, s)
BY DEF Follows, EditFollows, TitleFollows, SameApp

LEMMA FollowsOn ==
  ASSUME NEW s, NEW t, NEW u, Follows(s, t), Follows(t, u)
  PROVE  Follows(s, u)
BY DEF Follows, EditFollows, TitleFollows

LEMMA SameAppOn ==
  ASSUME NEW s, NEW t, NEW u, SameApp(s, t), SameApp(t, u)
  PROVE  SameApp(s, u)
BY DEF SameApp

\* A frame that is of no field and no page says nothing that is withheld.
LEMMA PlainCrosses ==
  ASSUME NEW f \in Frames, f.kind # "field.value", f.kind # "browser.navigated"
  PROVE  f \in Crossing
BY DEF MayCross, Crossing

LEMMA GapsCross ==
  ASSUME NEW reason \in Reasons, NEW app \in Pids \cup {None}
  PROVE  Gap(reason, app) \in Crossing
<1> DEFINE f == Gap(reason, app)
<1>1. f \in GapFrames /\ f.kind = "observer.gap"
  BY DEF Gap, GapFrames
<1> HIDE DEF f
<1>2. f \in Frames
  BY <1>1 DEF Frames
<1>3. f \in Crossing
  BY <1>1, <1>2, PlainCrosses
<1> QED BY <1>3 DEF f

LEMMA EventsCross ==
  ASSUME NEW s, Fine(s), s.ctx.attached # None,
         NEW k \in {"focus.changed", "window.focused", "window.title_changed"}
  PROVE  Event(s, k) \in Crossing
<1>1. s.ctx.attached.pid \in Pids
  BY DEF Fine, States, Ctxs, Attachments
<1> DEFINE f == Event(s, k)
<1>2. f \in PlainFrames /\ f.kind # "field.value" /\ f.kind # "browser.navigated"
  BY <1>1 DEF Event, PlainFrames
<1> HIDE DEF f
<1>3. f \in Frames
  BY <1>2 DEF Frames
<1>4. f \in Crossing
  BY <1>2, <1>3, PlainCrosses
<1> QED BY <1>4 DEF f

LEMMA Emits ==
  ASSUME NEW s, Fine(s), NEW f \in Crossing
  PROVE  LET t == Emit(s, f)
         IN  /\ Follows(s, t) /\ SameApp(s, t) /\ t.ctx = s.ctx /\ t.ax = s.ax
<1>1. Append(s.out, f) \in Seq(Crossing)
  BY AppendProperties DEF Fine, States
<1> DEFINE t == Emit(s, f)
<1> SUFFICES Follows(s, t) /\ SameApp(s, t) /\ t.ctx = s.ctx /\ t.ax = s.ax
  OBVIOUS
<1>2. t \in States /\ t.ctx = s.ctx /\ t.ax = s.ax /\ t.settled = s.settled
  BY <1>1 DEF Fine, Emit, States
<1> HIDE DEF t
<1> QED BY <1>2 DEF Follows, Fine, EditFollows, Holds, TitleFollows, SameApp

\* A change of the thread's own books: what is attempted, told of, in front or watched.
LEMMA Books ==
  ASSUME NEW s, Fine(s), NEW c \in Ctxs,
         c.attached = s.ctx.attached, c.pending_value = s.ctx.pending_value, InFront(c)
  PROVE  LET t == [s EXCEPT !.ctx = c]
         IN  Follows(s, t) /\ SameApp(s, t) /\ t.ctx = c /\ t.ax = s.ax
<1> DEFINE t == [s EXCEPT !.ctx = c]
<1> SUFFICES Follows(s, t) /\ SameApp(s, t) /\ t.ctx = c /\ t.ax = s.ax
  OBVIOUS
<1>1. t \in States /\ t.ctx = c /\ t.ax = s.ax /\ t.settled = s.settled
  BY DEF Fine, States
<1> HIDE DEF t
<1> QED BY <1>1 DEF Follows, Fine, EditFollows, Holds, TitleFollows, SameApp

LEMMA Announces ==
  ASSUME NEW s, Fine(s), NEW b \in Bundles, NEW reason \in Reasons,
         NEW app \in Pids \cup {None}
  PROVE  LET t == Announce(s, b, reason, app)
         IN  /\ Follows(s, t) /\ SameApp(s, t) /\ t.ctx.attached = s.ctx.attached
             /\ t.ctx.pending_value = s.ctx.pending_value /\ t.ax = s.ax
<1>1. CASE <<b, reason>> \in s.ctx.gap_ledger
  BY <1>1, Itself DEF Announce
<1>2. CASE <<b, reason>> \notin s.ctx.gap_ledger
  <2> DEFINE c == [s.ctx EXCEPT !.gap_ledger = @ \cup {<<b, reason>>}]
             t == [s EXCEPT !.ctx = c]
             f == Gap(reason, app)
  <2>1. [s EXCEPT !.ctx.gap_ledger = @ \cup {<<b, reason>>}] = t
    OBVIOUS
  <2>2. s.ctx \in Ctxs
    BY DEF Fine, States
  <2>3. /\ c \in Ctxs /\ c.attached = s.ctx.attached
        /\ c.pending_value = s.ctx.pending_value /\ InFront(c)
    BY <2>2 DEF Ctxs, Fine, InFront
  <2> HIDE DEF c
  <2>4. Follows(s, t) /\ SameApp(s, t) /\ t.ctx = c /\ t.ax = s.ax
    BY <2>3, Books
  <2>5. f \in Crossing
    BY GapsCross
  <2> HIDE DEF t, f
  <2>6. Follows(t, Emit(t, f)) /\ SameApp(t, Emit(t, f)) /\ Emit(t, f).ctx = t.ctx
        /\ Emit(t, f).ax = t.ax
    BY <2>4, <2>5, Emits DEF Follows
  <2>7. Announce(s, b, reason, app) = Emit(t, f)
    BY <1>2, <2>1 DEF Announce, f
  <2> QED BY <2>3, <2>4, <2>6, <2>7, FollowsOn, SameAppOn
<1> QED BY <1>1, <1>2

LEMMA TakesAttempt ==
  ASSUME NEW s, Fine(s), NEW b \in Bundles, NEW attempt \in {"probe", "attach"}, NEW max
  PROVE  LET t == TakeAttempt(s, b, attempt, max)
         IN  /\ Follows(s, t) /\ SameApp(s, t) /\ t.ctx.attached = s.ctx.attached
             /\ t.ctx.pending_value = s.ctx.pending_value /\ t.ax = s.ax
             /\ t.ctx.front_pid = s.ctx.front_pid
<1>1. CASE Exhausted(s, b, attempt, max)
  BY <1>1, Itself DEF TakeAttempt
<1>2. CASE ~Exhausted(s, b, attempt, max)
  <2> DEFINE c == [s.ctx EXCEPT !.attempts[b][attempt] = @ + 1]
  <2>1. TakeAttempt(s, b, attempt, max) = [s EXCEPT !.ctx = c]
    BY <1>2 DEF TakeAttempt
  <2>2. s.ctx \in Ctxs
    BY DEF Fine, States
  <2>3. /\ c \in Ctxs /\ c.attached = s.ctx.attached /\ c.front_pid = s.ctx.front_pid
        /\ c.pending_value = s.ctx.pending_value /\ InFront(c)
    BY <2>2 DEF Ctxs, Fine, InFront
  <2> HIDE DEF c
  <2> QED BY <2>1, <2>3, Books
<1> QED BY <1>1, <1>2

\* ---- the switches ----------------------------------------------------------------------

\* A step of the switches alone that keeps them in the books.
LEMMA Switches ==
  ASSUME NEW s, Fine(s), NEW x \in Axs, Recorded(x)
  PROVE  LET t == [s EXCEPT !.ax = x]
         IN  Follows(s, t) /\ SameApp(s, t) /\ t.ctx = s.ctx
<1> DEFINE t == [s EXCEPT !.ax = x]
<1> SUFFICES Follows(s, t) /\ SameApp(s, t) /\ t.ctx = s.ctx
  OBVIOUS
<1>1. t \in States /\ t.ctx = s.ctx /\ t.ax = x /\ t.settled = s.settled
  BY DEF Fine, States
<1> HIDE DEF t
<1> QED BY <1>1 DEF Follows, Fine, EditFollows, Holds, TitleFollows, SameApp

LEMMA SwitchesOn ==
  ASSUME NEW s, Fine(s), NEW pid \in Pids, NEW attribute \in {Manual, Enhanced},
         NEW answer, NEW turned, NEW r
  PROVE  LET t == SwitchOn(s, pid, attribute, answer, turned, r)
         IN  Follows(s, t) /\ SameApp(s, t) /\ t.ctx = s.ctx
<1> DEFINE it == <<pid, attribute>>
           record == answer = "ok" /\ ~("prior" \in r /\ it \in s.ax.on)
           on == IF turned THEN s.ax.on \cup {it} ELSE s.ax.on
           activated == IF record THEN s.ax.activated \cup {it} ELSE s.ax.activated
           unsaid == IF record THEN s.ax.unsaid \ {it}
                     ELSE IF turned /\ answer # "ok" /\ it \notin s.ax.activated
                     THEN s.ax.unsaid \cup {it}
                     ELSE s.ax.unsaid
           refused == IF record THEN s.ax.refused \ {it} ELSE s.ax.refused
           x == [s.ax EXCEPT !.on = on, !.activated = activated, !.unsaid = unsaid,
                             !.refused = refused]
<1>1. SwitchOn(s, pid, attribute, answer, turned, r) = [s EXCEPT !.ax = x]
  BY DEF SwitchOn
<1>2. s.ax \in Axs /\ Recorded(s.ax) /\ it \in Switch
  BY DEF Fine, States, Switch
<1>3. /\ on \in SUBSET Switch /\ activated \in SUBSET Switch /\ unsaid \in SUBSET Switch
      /\ refused \in SUBSET Switch
  BY <1>2 DEF Axs
<1>4. on \subseteq activated \cup unsaid \cup refused
  <2>1. CASE record
    BY <1>2, <2>1 DEF Recorded
  <2>2. CASE ~record /\ ~turned
    BY <1>2, <2>2 DEF Recorded
  <2>3. CASE ~record /\ turned /\ answer # "ok"
    BY <1>2, <2>3 DEF Recorded
  <2>4. CASE ~record /\ turned /\ answer = "ok"
    <3>1. it \in s.ax.on
      BY <2>4
    <3> QED BY <1>2, <2>4, <3>1 DEF Recorded
  <2> QED BY <2>1, <2>2, <2>3, <2>4
<1> HIDE DEF on, activated, unsaid, refused
<1>5. /\ x \in Axs /\ x.on = on /\ x.activated = activated /\ x.unsaid = unsaid
      /\ x.refused = refused
  BY <1>2, <1>3 DEF Axs
<1> HIDE DEF x
<1>6. Recorded(x)
  BY <1>4, <1>5 DEF Recorded
<1> QED BY <1>1, <1>5, <1>6, Switches

LEMMA ClearsActivation ==
  ASSUME NEW s, Fine(s), NEW pid, NEW r
  PROVE  LET t == ClearActivation(s, pid, r)
         IN  Follows(s, t) /\ SameApp(s, t) /\ t.ctx = s.ctx
<1> DEFINE mine == {it \in s.ax.activated : it[1] = pid}
           on == IF "clear" \in r THEN s.ax.on \ mine ELSE s.ax.on
           activated == s.ax.activated \ mine
           refused == IF "clear" \in r THEN s.ax.refused ELSE s.ax.refused \cup mine
           x == [s.ax EXCEPT !.activated = activated, !.on = on, !.refused = refused]
<1>1. ClearActivation(s, pid, r) = [s EXCEPT !.ax = x]
  BY DEF ClearActivation
<1>2. s.ax \in Axs /\ Recorded(s.ax)
  BY DEF Fine, States
<1>3. mine \subseteq s.ax.activated
  OBVIOUS
<1> HIDE DEF mine
<1>4. on \in SUBSET Switch /\ activated \in SUBSET Switch /\ refused \in SUBSET Switch
  BY <1>2, <1>3 DEF Axs
<1>5. on \subseteq activated \cup s.ax.unsaid \cup refused
  BY <1>2 DEF Recorded
<1> HIDE DEF on, activated, refused
<1>6. /\ x \in Axs /\ x.on = on /\ x.activated = activated /\ x.unsaid = s.ax.unsaid
      /\ x.refused = refused
  BY <1>2, <1>4 DEF Axs
<1> HIDE DEF x
<1>7. Recorded(x)
  BY <1>5, <1>6 DEF Recorded
<1> QED BY <1>1, <1>6, <1>7, Switches

LEMMA Observes ==
  ASSUME NEW s, Fine(s), NEW pid \in Pids, NEW p, NEW r
  PROVE  LET t == ObserveAxTree(s, pid, p, r)
         IN  Follows(s, t) /\ SameApp(s, t) /\ t.ctx = s.ctx
<1> DEFINE asked == SwitchOn(s, pid, Manual, p.manual, p.turned_manual, r)
           again == SwitchOn(asked, pid, Enhanced, p.enhanced, p.turned_enhanced, r)
<1>1. Follows(s, asked) /\ SameApp(s, asked) /\ asked.ctx = s.ctx
  BY SwitchesOn
<1>2. Fine(asked)
  BY <1>1 DEF Follows
<1> HIDE DEF asked
<1>3. Follows(asked, again) /\ SameApp(asked, again) /\ again.ctx = asked.ctx
  BY <1>2, SwitchesOn
<1> HIDE DEF again
<1>4. ObserveAxTree(s, pid, p, r) \in {asked, again}
  BY DEF ObserveAxTree, asked, again
<1> QED BY <1>1, <1>3, <1>4, FollowsOn, SameAppOn

\* A look at the tree spends attempts and turns switches, and tells nothing.
LEMMA Probing ==
  ASSUME NEW s, Fine(s), NEW pid \in Pids, NEW p, NEW r
  PROVE  LET seen == ProbeAxTree(s, pid, p, r)
             t == seen[2]
         IN  /\ seen[1] \in Trees
             /\ Follows(s, t) /\ SameApp(s, t) /\ t.ctx.attached = s.ctx.attached
             /\ t.ctx.pending_value = s.ctx.pending_value
             /\ t.ctx.front_pid = s.ctx.front_pid
<1> DEFINE b == BundleOf[pid]
           looked == ObserveAxTree(s, pid, p, r)
           spent == TakeAttempt(looked, b, "probe", ProbeAttempts)
<1>1. Follows(s, looked) /\ SameApp(s, looked) /\ looked.ctx = s.ctx
  BY Observes
<1>2. Fine(looked) /\ b \in Bundles
  BY <1>1, CaptureAssumption DEF Follows
<1> HIDE DEF looked
<1>3. /\ Follows(looked, spent) /\ SameApp(looked, spent)
      /\ spent.ctx.attached = looked.ctx.attached
      /\ spent.ctx.pending_value = looked.ctx.pending_value
      /\ spent.ctx.front_pid = looked.ctx.front_pid
  BY <1>2, TakesAttempt
<1> HIDE DEF spent
<1>4. ProbeAxTree(s, pid, p, r)[2] \in {s, looked, spent}
  BY DEF ProbeAxTree, looked, spent
<1>5. TreeSeen(p) \in Trees
  BY DEF TreeSeen, ClassifyAxTree, Trees
<1>6. ProbeAxTree(s, pid, p, r)[1] \in Trees
  BY <1>5 DEF ProbeAxTree, Trees
<1> QED BY <1>1, <1>3, <1>4, <1>6, Itself, FollowsOn, SameAppOn

\* ---- browser windows -------------------------------------------------------------------

\* A change of what is known of the app attached that leaves it the same app.
LEMMA Knows ==
  ASSUME NEW s, Fine(s), s.ctx.attached # None, NEW a \in Attachments,
         a.pid = s.ctx.attached.pid, a.title.pending # None => s.ctx.attached.title.pending # None
  PROVE  LET t == [s EXCEPT !.ctx.attached = a]
         IN  /\ Follows(s, t) /\ SameApp(s, t) /\ t.ctx.attached = a
             /\ t.ctx.pending_value = s.ctx.pending_value /\ t.ax = s.ax
<1> DEFINE c == [s.ctx EXCEPT !.attached = a]
           t == [s EXCEPT !.ctx = c]
<1>1. [s EXCEPT !.ctx.attached = a] = t
  OBVIOUS
<1>2. s.ctx \in Ctxs
  BY DEF Fine, States
<1>3. /\ c \in Ctxs /\ c.attached = a /\ c.pending_value = s.ctx.pending_value
      /\ InFront(c)
  BY <1>2 DEF Ctxs, Fine, InFront
<1> HIDE DEF c
<1>4. t \in States /\ t.ctx = c /\ t.ax = s.ax /\ t.settled = s.settled
  BY <1>3 DEF Fine, States
<1> SUFFICES /\ Follows(s, t) /\ SameApp(s, t) /\ t.ctx.attached = a
             /\ t.ctx.pending_value = s.ctx.pending_value /\ t.ax = s.ax
  BY <1>1
<1> HIDE DEF t
<1>5. a # None
  BY NoneIsNoAttachment
<1> QED BY <1>3, <1>4, <1>5 DEF Follows, Fine, EditFollows, Holds, TitleFollows, SameApp

LEMMA TheAttached ==
  ASSUME NEW s, Fine(s), s.ctx.attached # None
  PROVE  /\ s.ctx.attached \in Attachments
         /\ s.ctx.attached.pid \in Pids /\ BundleOf[s.ctx.attached.pid] \in Bundles
         /\ s.ctx.attached.browser_windows \in Seq(Entries)
         /\ s.ctx.attached.title \in Titles
<1>1. s.ctx.attached \in Attachments
  BY DEF Fine, States, Ctxs
<1> QED BY <1>1, CaptureAssumption DEF Attachments

LEMMA EntryOf ==
  ASSUME NEW s, Fine(s), s.ctx.attached # None, NEW w \in Windows
  PROVE  /\ Entry(s, w) \in Entries /\ Entry(s, w).window = w
         /\ IsRecorded(s, w) => Position(s, w) \in 1 .. Len(s.ctx.attached.browser_windows)
<1> DEFINE windows == s.ctx.attached.browser_windows
<1>1. windows \in Seq(Entries)
  BY TheAttached
<1>2. CASE IsRecorded(s, w)
  <2>1. Position(s, w) \in DOMAIN windows /\ windows[Position(s, w)].window = w
    BY <1>2 DEF IsRecorded, Position
  <2>2. Entry(s, w) = windows[Position(s, w)]
    BY <1>2 DEF Entry
  <2> HIDE DEF windows
  <2>3. Entry(s, w) \in Entries /\ Position(s, w) \in 1 .. Len(windows)
    BY <1>1, <2>1, <2>2, ElementOfSeq, LenProperties
  <2> QED BY <2>1, <2>2, <2>3 DEF windows
<1>3. CASE ~IsRecorded(s, w)
  BY <1>3 DEF Entry, Fresh, Entries, MaybePage
<1> QED BY <1>2, <1>3

LEMMA Removed ==
  ASSUME NEW S, NEW seq \in Seq(S), NEW i \in 1 .. Len(seq)
  PROVE  RemoveAt(seq, i) \in Seq(S)
<1>1. Len(seq) \in Nat
  BY LenProperties
<1>2. SubSeq(seq, 1, i - 1) \in Seq(S)
  BY <1>1, SubSeqProperties
<1>3. SubSeq(seq, i + 1, Len(seq)) \in Seq(S)
  BY <1>1, SubSeqProperties
<1> QED BY <1>2, <1>3, ConcatProperties DEF RemoveAt

LEMMA Stores ==
  ASSUME NEW s, Fine(s), s.ctx.attached # None, NEW entry \in Entries
  PROVE  LET t == Store(s, entry)
         IN  /\ Follows(s, t) /\ SameApp(s, t)
             /\ t.ctx.pending_value = s.ctx.pending_value /\ t.ax = s.ax
<1> DEFINE windows == s.ctx.attached.browser_windows
           known == IsRecorded(s, entry.window)
           at == Position(s, entry.window)
           kept == CASE known -> RemoveAt(windows, at)
                     [] ~known /\ Len(windows) >= BrowserWindowsMax -> Tail(windows)
                     [] OTHER -> windows
           a == [s.ctx.attached EXCEPT !.browser_windows = Append(kept, entry)]
<1>1. Store(s, entry) = [s EXCEPT !.ctx.attached = a]
  BY DEF Store
<1>2. windows \in Seq(Entries) /\ s.ctx.attached \in Attachments /\ entry.window \in Windows
  BY TheAttached DEF Entries
<1>3. kept \in Seq(Entries)
  <2>1. CASE known
    <3>1. at \in 1 .. Len(windows)
      BY <1>2, <2>1, EntryOf
    <3> HIDE DEF windows, at
    <3>2. RemoveAt(windows, at) \in Seq(Entries)
      BY <1>2, <3>1, Removed
    <3> QED BY <2>1, <3>2
  <2>2. CASE ~known /\ Len(windows) >= BrowserWindowsMax
    <3> HIDE DEF windows, known
    <3>1. windows # <<>>
      BY <1>2, <2>2, CaptureAssumption, LenProperties
    <3>2. Tail(windows) \in Seq(Entries)
      BY <1>2, <3>1, HeadTailProperties
    <3> QED BY <2>2, <3>2
  <2>3. CASE ~known /\ ~(Len(windows) >= BrowserWindowsMax)
    BY <1>2, <2>3
  <2> QED BY <2>1, <2>2, <2>3
<1> HIDE DEF kept
<1>4. Append(kept, entry) \in Seq(Entries)
  BY <1>3, AppendProperties
<1>5. a \in Attachments /\ a.pid = s.ctx.attached.pid /\ a.title = s.ctx.attached.title
  BY <1>2, <1>4 DEF Attachments
<1> HIDE DEF a
<1> QED BY <1>1, <1>5, Knows

\* The page a window is read to show: of one that has a title, the one it shows.
LEMMA AreaOf ==
  ASSUME NEW s, Fine(s), s.ctx.attached # None, NEW w \in Windows, NEW page \in Pages, NEW r
  PROVE  WebArea(s, w, page, ReadTitle(page, r), r) = page
<1> DEFINE cached == Entry(s, w).area
           title == ReadTitle(page, r)
<1>1. cached \in MaybePage
  BY EntryOf DEF Entries
<1>2. cached # None /\ cached = title => cached = page
  BY <1>1, CaptureAssumption DEF ReadTitle, MaybePage
<1> HIDE DEF cached, title
<1>3. WebArea(s, w, page, title, r) \in {cached, page}
      /\ \/ cached # None /\ "AXArea" \in r /\ cached = title
         \/ WebArea(s, w, page, title, r) = page
  BY DEF WebArea, cached
<1>4. WebArea(s, w, page, title, r) = page
  BY <1>2, <1>3 DEF WebArea, cached
<1> QED BY <1>4 DEF title

LEMMA Navigates ==
  ASSUME NEW s, Fine(s), NEW w \in Windows, NEW page \in Pages, NEW r
  PROVE  LET t == MaybeEmitNavigation(s, w, page, r)
         IN  /\ Follows(s, t) /\ SameApp(s, t)
             /\ t.ctx.pending_value = s.ctx.pending_value /\ t.ax = s.ax
<1> DEFINE bundle == BundleOf[s.ctx.attached.pid]
           title  == ReadTitle(page, r)
           state  == PrivateState(bundle, w, title)
           area   == WebArea(s, w, page, title, r)
           entry  == Entry(s, w)
           silent == \/ s.ctx.attached = None \/ s.ctx.attached.ax_tree # "enabled"
                     \/ bundle \notin Browsers \/ "AXWindow" \notin r
                     \/ state \in {"private", "unreadable"}
           forgot == Store(s, [entry EXCEPT !.area = None])
           same   == Store(s, [entry EXCEPT !.area = area])
           moved  == Store(s, [entry EXCEPT !.area = area, !.last = area])
           frame  == [kind |-> "browser.navigated", app |-> s.ctx.attached.pid, window |-> w,
                      page |-> area, shown |-> page]
           t == MaybeEmitNavigation(s, w, page, r)
           Goal(u) == /\ Follows(s, u) /\ SameApp(s, u)
                      /\ u.ctx.pending_value = s.ctx.pending_value /\ u.ax = s.ax
<1>1. CASE silent
  <2>1. t = s
    BY <1>1 DEF MaybeEmitNavigation
  <2> QED BY <2>1, Itself
<1>2. CASE ~silent
  <2>1. s.ctx.attached # None /\ s.ctx.attached.pid \in Pids
    BY <1>2, TheAttached
  <2>2. area = page
    BY <2>1, AreaOf
  <2>3. entry \in Entries
    BY <2>1, EntryOf
  <2> HIDE DEF area, entry
  <2>4. /\ [entry EXCEPT !.area = None] \in Entries
        /\ [entry EXCEPT !.area = area] \in Entries
        /\ [entry EXCEPT !.area = area, !.last = area] \in Entries
    BY <2>2, <2>3 DEF Entries, MaybePage
  <2>5. Goal(forgot)
    BY <2>1, <2>4, Stores
  <2>6. Goal(same)
    BY <2>1, <2>4, Stores
  <2>7. Goal(moved)
    BY <2>1, <2>4, Stores
  <2>8. frame \in Crossing
    <3>1. frame \in PageFrames
      BY <2>1, <2>2 DEF PageFrames
    <3>2. bundle \in Pinned => w \notin PrivateWindows
      <4>1. ASSUME bundle \in Pinned PROVE w \notin PrivateWindows
        <5>1. title # Empty /\ ~HasMarker(w, title)
          BY <1>2, <4>1 DEF PrivateState
        <5> QED BY <5>1 DEF HasMarker
      <4> QED BY <4>1
    <3>3. MayCross(frame)
      BY <2>2, <3>2 DEF MayCross
    <3> QED BY <3>1, <3>3 DEF Crossing, Frames
  <2> HIDE DEF moved, same, forgot, frame
  <2>9. Goal(Emit(moved, frame))
    <3>1. Fine(moved)
      BY <2>7 DEF Follows
    <3>2. Follows(moved, Emit(moved, frame)) /\ SameApp(moved, Emit(moved, frame))
          /\ Emit(moved, frame).ctx = moved.ctx /\ Emit(moved, frame).ax = moved.ax
      BY <2>8, <3>1, Emits
    <3> QED BY <2>7, <3>2, FollowsOn, SameAppOn
  <2>10. t \in {forgot, same, Emit(moved, frame)}
    BY <1>2 DEF MaybeEmitNavigation, forgot, same, moved, frame, area, entry
  <2> HIDE DEF t
  <2>11. Goal(t)
    BY <2>5, <2>6, <2>9, <2>10
  <2> QED BY <2>11 DEF t
<1> QED BY <1>1, <1>2

\* ---- the two debounces, emptied --------------------------------------------------------

Keeps(s, t) ==
  Follows(s, t) /\ SameApp(s, t) /\ t.ctx.pending_value = s.ctx.pending_value

LEMMA KeepsOn ==
  ASSUME NEW s, NEW t, NEW u, Keeps(s, t), Keeps(t, u)
  PROVE  Keeps(s, u)
BY FollowsOn, SameAppOn DEF Keeps

LEMMA EmitsKeep ==
  ASSUME NEW s, Fine(s), NEW f \in Crossing
  PROVE  Keeps(s, Emit(s, f)) /\ Emit(s, f).ctx = s.ctx /\ Fine(Emit(s, f))
BY Emits DEF Keeps, Follows

LEMMA FieldCrosses ==
  ASSUME NEW s, Fine(s), s.ctx.attached # None, NEW e \in Elements,
         NEW says \in {"text", "withheld"}, NEW site \in MaybePage,
         says = "text" =>
           /\ RoleOf[e] = "editable"
           /\ BundleOf[s.ctx.attached.pid] \in Browsers =>
                BundleOf[s.ctx.attached.pid] \in Pinned /\ WindowOf[e] \notin PrivateWindows
  PROVE  FieldValue(s, e, says, site) \in Crossing
<1> DEFINE f == FieldValue(s, e, says, site)
<1>1. s.ctx.attached.pid \in Pids
  BY TheAttached
<1>2. /\ f \in FieldFrames /\ f.kind = "field.value" /\ f.says = says
      /\ f.app = s.ctx.attached.pid /\ f.element = e
  BY <1>1 DEF FieldValue, FieldFrames
<1> HIDE DEF f
<1>3. f \in Frames /\ MayCross(f)
  BY <1>2 DEF Frames, MayCross
<1>4. f \in Crossing
  BY <1>3 DEF Crossing
<1> QED BY <1>4 DEF f

LEMMA BrowserFields ==
  ASSUME NEW s, Fine(s), s.ctx.attached # None, NEW e \in Elements, RoleOf[e] = "editable",
         NEW pages \in [Windows -> Pages], NEW r
  PROVE  Keeps(s, EmitBrowserFieldValue(s, e, pages, r))
<1> DEFINE pid    == s.ctx.attached.pid
           bundle == BundleOf[pid]
           w      == WindowOf[e]
           state  == PrivateState(bundle, w, ReadTitle(pages[w], r))
           looked == IF "AXWindow" \in r THEN Store(s, Entry(s, w)) ELSE s
           site   == IF "AXWindow" \in r THEN Entry(s, w).last ELSE None
           said     == FieldValue(s, e, "text", site)
           withheld == FieldValue(s, e, "withheld", None)
           t == EmitBrowserFieldValue(s, e, pages, r)
<1>1. pid \in Pids /\ bundle \in Bundles /\ w \in Windows
  BY TheAttached, CaptureAssumption
<1>2. Entry(s, w) \in Entries
  BY <1>1, EntryOf
<1>3. Keeps(s, looked)
  <2>1. Keeps(s, s)
    BY Itself DEF Keeps
  <2>2. Keeps(s, Store(s, Entry(s, w)))
    BY <1>2, Stores DEF Keeps
  <2> QED BY <2>1, <2>2
<1>4. Fine(looked)
  BY <1>3 DEF Keeps, Follows
<1>5. withheld \in Crossing
  BY FieldCrosses DEF MaybePage
<1>6. state = "not_private" => said \in Crossing
  <2>1. site \in MaybePage
    BY <1>2 DEF Entries, MaybePage
  <2>2. ASSUME state = "not_private" PROVE bundle \in Pinned /\ w \notin PrivateWindows
    <3>1. bundle \in Pinned /\ ReadTitle(pages[w], r) # Empty
          /\ ~HasMarker(w, ReadTitle(pages[w], r))
      BY <2>2 DEF PrivateState
    <3> QED BY <3>1 DEF HasMarker
  <2> HIDE DEF site, state
  <2> QED BY <2>1, <2>2, FieldCrosses
<1> HIDE DEF looked, said, withheld, site
<1>7. CASE state = "not_private"
  <2>1. t = Emit(looked, said)
    BY <1>7 DEF EmitBrowserFieldValue, looked, said, site
  <2> QED BY <1>3, <1>4, <1>6, <1>7, <2>1, EmitsKeep, KeepsOn
<1>8. CASE state = "unknown"
  <2> DEFINE sent == Emit(looked, withheld)
  <2>1. t = Announce(sent, bundle, "private_unknown", pid)
    BY <1>8 DEF EmitBrowserFieldValue, looked, withheld
  <2>2. Keeps(looked, sent) /\ Fine(sent)
    BY <1>4, <1>5, EmitsKeep
  <2> HIDE DEF sent, bundle, pid
  <2>3. Keeps(sent, Announce(sent, bundle, "private_unknown", pid))
    <3>1. "private_unknown" \in Reasons /\ pid \in Pids \cup {None}
      BY <1>1 DEF Reasons
    <3> QED BY <1>1, <2>2, <3>1, Announces DEF Keeps
  <2> QED BY <1>3, <2>1, <2>2, <2>3, KeepsOn
<1>9. CASE state \notin {"not_private", "unknown"}
  <2>1. t = Emit(looked, withheld)
    BY <1>9 DEF EmitBrowserFieldValue, looked, withheld
  <2> QED BY <1>3, <1>4, <1>5, <2>1, EmitsKeep, KeepsOn
<1> QED BY <1>7, <1>8, <1>9

LEMMA Fields ==
  ASSUME NEW s, Fine(s), s.ctx.attached # None, NEW e \in Elements,
         NEW pages \in [Windows -> Pages], NEW r
  PROVE  Keeps(s, EmitFieldValue(s, e, pages, r))
<1> DEFINE t == EmitFieldValue(s, e, pages, r)
           withheld == FieldValue(s, e, "withheld", None)
           said == FieldValue(s, e, "text", None)
           gap == Gap("secure_input", None)
           browser == BundleOf[s.ctx.attached.pid] \in Browsers
<1>1. withheld \in Crossing
  BY FieldCrosses DEF MaybePage
<1>2. RoleOf[e] = "editable" /\ ~browser => said \in Crossing
  BY FieldCrosses DEF MaybePage
<1>3. gap \in Crossing
  BY GapsCross DEF Reasons
<1>4. RoleOf[e] \in {"editable", "secure", "label"}
  BY CaptureAssumption
<1> HIDE DEF gap, said, withheld
<1>5. CASE "AXRole" \notin r \/ RoleOf[e] = "label"
  <2>1. t = s
    BY <1>5 DEF EmitFieldValue
  <2> QED BY <2>1, Itself DEF Keeps
<1>6. CASE "AXRole" \in r /\ RoleOf[e] = "secure"
  <2> DEFINE sent == Emit(s, gap)
  <2>1. t = Emit(sent, withheld)
    BY <1>6 DEF EmitFieldValue, gap, withheld
  <2>2. Keeps(s, sent) /\ Fine(sent)
    BY <1>3, EmitsKeep
  <2> HIDE DEF sent
  <2>3. Keeps(sent, Emit(sent, withheld))
    BY <1>1, <2>2, EmitsKeep
  <2> QED BY <2>1, <2>2, <2>3, KeepsOn
<1>7. CASE "AXRole" \in r /\ RoleOf[e] = "editable" /\ "AXValue" \notin r
  <2>1. t = Emit(s, withheld)
    BY <1>7 DEF EmitFieldValue, withheld
  <2> QED BY <1>1, <2>1, EmitsKeep
<1>8. CASE "AXRole" \in r /\ RoleOf[e] = "editable" /\ "AXValue" \in r /\ browser
  <2>1. t = EmitBrowserFieldValue(s, e, pages, r)
    BY <1>8 DEF EmitFieldValue
  <2> QED BY <1>8, <2>1, BrowserFields
<1>9. CASE "AXRole" \in r /\ RoleOf[e] = "editable" /\ "AXValue" \in r /\ ~browser
  <2>1. t = Emit(s, said)
    BY <1>9 DEF EmitFieldValue, said
  <2> QED BY <1>2, <1>9, <2>1, EmitsKeep
<1> QED BY <1>4, <1>5, <1>6, <1>7, <1>8, <1>9

\* The edit that waited is read.
LEMMA FlushesValue ==
  ASSUME NEW s, Fine(s), NEW pages \in [Windows -> Pages], NEW r
  PROVE  LET t == FlushPendingValue(s, pages, r)
         IN  Follows(s, t) /\ SameApp(s, t) /\ t.ctx.pending_value = None
<1> DEFINE e == s.ctx.pending_value
           c == [s.ctx EXCEPT !.pending_value = None]
           taken == [s EXCEPT !.ctx = c]
           read == [taken EXCEPT !.settled = @ \cup {e}]
           t == FlushPendingValue(s, pages, r)
<1>1. s.ctx \in Ctxs /\ e \in Elements \cup {None}
  BY DEF Fine, States, Ctxs
<1>2. CASE e = None
  <2>1. t = s
    BY <1>2 DEF FlushPendingValue
  <2> QED BY <1>2, <2>1, Itself
<1>3. CASE e # None
  <2>1. /\ c \in Ctxs /\ c.pending_value = None /\ c.attached = s.ctx.attached
        /\ InFront(c)
    BY <1>1 DEF Ctxs, Fine, InFront
  <2>2. [s EXCEPT !.ctx.pending_value = None] = taken
    BY DEF Fine, States
  <2>3. t = IF s.ctx.attached = None THEN taken ELSE EmitFieldValue(read, e, pages, r)
    BY <1>3, <2>2 DEF FlushPendingValue
  <2> HIDE DEF c
  <2>4. /\ taken \in States /\ taken.ctx = c /\ taken.ax = s.ax /\ taken.settled = s.settled
        /\ e \in Elements => /\ read \in States /\ read.ctx = c /\ read.ax = s.ax
                             /\ read.settled = s.settled \cup {e}
    BY <2>1 DEF Fine, States
  <2> HIDE DEF taken, read, t
  <2>5. CASE s.ctx.attached = None
    <3>1. Follows(s, taken) /\ SameApp(s, taken) /\ taken.ctx.pending_value = None
      BY <2>1, <2>4, <2>5 DEF Follows, SameApp, Fine, EditFollows, Holds, TitleFollows
    <3> QED BY <2>3, <2>5, <3>1 DEF t
  <2>6. CASE s.ctx.attached # None
    <3>1. Follows(s, read) /\ SameApp(s, read) /\ read.ctx.pending_value = None
      BY <1>1, <1>3, <2>1, <2>4 DEF Follows, SameApp, Fine, EditFollows, Holds, TitleFollows
    <3>2. Keeps(read, EmitFieldValue(read, e, pages, r))
      BY <1>1, <1>3, <2>1, <2>4, <2>6, <3>1, Fields DEF Follows
    <3>3. t = EmitFieldValue(read, e, pages, r)
      BY <2>3, <2>6
    <3>4. Follows(s, t) /\ SameApp(s, t) /\ t.ctx.pending_value = None
      BY <3>1, <3>2, <3>3, FollowsOn, SameAppOn DEF Keeps
    <3> QED BY <3>4 DEF t
  <2> QED BY <2>5, <2>6
<1> QED BY <1>2, <1>3

\* Nothing waits afterwards; what waited is of `w`.
LEMMA FlushesTitle ==
  ASSUME NEW s, Fine(s), NEW w, NEW pages \in [Windows -> Pages], NEW r,
         s.ctx.attached # None /\ s.ctx.attached.title.pending # None => w \in Windows
  PROVE  LET t == FlushPendingTitle(s, w, pages, r)
         IN  /\ Keeps(s, t)
             /\ t.ctx.attached # None => t.ctx.attached.title.pending = None
<1> DEFINE t == FlushPendingTitle(s, w, pages, r)
<1> SUFFICES Keeps(s, t) /\ (t.ctx.attached # None => t.ctx.attached.title.pending = None)
  OBVIOUS
<1>1. CASE s.ctx.attached = None
  <2>1. t = s
    BY <1>1 DEF FlushPendingTitle
  <2> QED BY <1>1, <2>1, Itself DEF Keeps
<1>2. CASE s.ctx.attached # None
  <2> DEFINE a == s.ctx.attached
             none == [a.title EXCEPT !.pending = None]
             quiet == [a EXCEPT !.title = none]
             last == [none EXCEPT !.last_emitted = a.title.pending]
             sent == [quiet EXCEPT !.title = last]
             taken == [s EXCEPT !.ctx.attached = quiet]
             said == [s EXCEPT !.ctx.attached = sent]
             event == Event(s, "window.title_changed")
             emitted_ == Emit(said, event)
  <2>1. a \in Attachments /\ a.title \in Titles
    BY <1>2, TheAttached
  <2>2. none \in Titles /\ none.pending = None /\ last \in Titles /\ last.pending = None
    BY <2>1 DEF Titles, MaybePage
  <2>3. /\ [s EXCEPT !.ctx.attached.title.pending = None] = taken
        /\ [taken EXCEPT !.ctx.attached.title.last_emitted = a.title.pending] = said
    <3>1. s \in States /\ s.ctx \in Ctxs
      BY DEF Fine, States
    <3>2. /\ taken.ctx.attached = quiet /\ quiet.title = none
          /\ [s EXCEPT !.ctx.attached.title.pending = None] = taken
      BY <2>1, <3>1 DEF States, Ctxs, Attachments
    <3>3. [taken EXCEPT !.ctx.attached.title.last_emitted = a.title.pending] =
            [taken EXCEPT !.ctx.attached = sent]
      BY <3>2
    <3>4. [taken EXCEPT !.ctx.attached = sent] = said
      BY <3>1 DEF States, Ctxs
    <3> QED BY <3>2, <3>3, <3>4
  <2> HIDE DEF none, last
  <2>4. /\ quiet \in Attachments /\ quiet.pid = a.pid /\ quiet.title.pending = None
        /\ sent \in Attachments /\ sent.pid = a.pid /\ sent.title.pending = None
    BY <2>1, <2>2 DEF Attachments
  <2> HIDE DEF quiet, sent
  <2>5. Keeps(s, taken) /\ taken.ctx.attached = quiet
    BY <1>2, <2>4, Knows DEF Keeps
  <2>6. Keeps(s, said) /\ said.ctx.attached = sent
    BY <1>2, <2>4, Knows DEF Keeps
  <2> HIDE DEF taken, said
  <2>7. CASE a.title.pending \in {None, a.title.last_emitted}
    <3>1. t = taken
      BY <1>2, <2>3, <2>7 DEF FlushPendingTitle
    <3> QED BY <2>4, <2>5, <3>1
  <2>8. CASE a.title.pending \notin {None, a.title.last_emitted}
    <3>1. w \in Windows /\ pages[w] \in Pages
      BY <1>2, <2>8
    <3>2. event \in Crossing
      BY <1>2, EventsCross
    <3> HIDE DEF event
    <3>3. Keeps(said, emitted_) /\ Fine(emitted_) /\ emitted_.ctx = said.ctx
      BY <2>6, <3>2, EmitsKeep DEF Keeps, Follows
    <3> HIDE DEF emitted_
    <3>4. t = MaybeEmitNavigation(emitted_, w, pages[w], r)
      BY <1>2, <2>3, <2>8 DEF FlushPendingTitle, emitted_, event
    <3>5. Keeps(emitted_, MaybeEmitNavigation(emitted_, w, pages[w], r))
      BY <3>1, <3>3, Navigates DEF Keeps
    <3> HIDE DEF t
    <3>6. Keeps(emitted_, t)
      BY <3>4, <3>5
    <3>7. Keeps(s, t)
      BY <2>6, <3>3, <3>6, KeepsOn
    <3>8. t.ctx.attached # None => t.ctx.attached.title.pending = None
      BY <2>4, <2>6, <3>3, <3>6 DEF Keeps, Follows, TitleFollows
    <3> QED BY <3>7, <3>8
  <2> QED BY <2>7, <2>8
<1> QED BY <1>1, <1>2

LEMMA Flushes ==
  ASSUME NEW s, Fine(s), NEW w, NEW pages \in [Windows -> Pages], NEW r,
         s.ctx.attached # None /\ s.ctx.attached.title.pending # None => w \in Windows
  PROVE  LET t == FlushPending(s, w, pages, r)
         IN  Follows(s, t) /\ SameApp(s, t) /\ NothingPending(t.ctx)
<1> DEFINE u == FlushPendingValue(s, pages, r)
           t == FlushPendingTitle(u, w, pages, r)
<1>1. Follows(s, u) /\ SameApp(s, u) /\ u.ctx.pending_value = None
  BY FlushesValue
<1> HIDE DEF u
<1>2. u.ctx.attached # None /\ u.ctx.attached.title.pending # None => w \in Windows
  BY <1>1 DEF Follows, TitleFollows
<1>3. Fine(u)
  BY <1>1 DEF Follows
<1>4. Keeps(u, t) /\ (t.ctx.attached # None => t.ctx.attached.title.pending = None)
  BY <1>2, <1>3, FlushesTitle
<1>5. FlushPending(s, w, pages, r) = t
  BY DEF FlushPending, u
<1> HIDE DEF t
<1>6. Follows(s, t) /\ SameApp(s, t) /\ NothingPending(t.ctx)
  BY <1>1, <1>4, FollowsOn, SameAppOn DEF Keeps, NothingPending
<1> QED BY <1>5, <1>6

\* With nothing waiting, nothing is told.
LEMMA NothingFlushed ==
  ASSUME NEW s, Fine(s), NEW w, NEW pages, NEW r, NothingPending(s.ctx)
  PROVE  FlushPending(s, w, pages, r).out = s.out
<1>1. FlushPendingValue(s, pages, r) = s
  BY DEF FlushPendingValue, NothingPending
<1>2. FlushPendingTitle(s, w, pages, r).out = s.out
  BY DEF FlushPendingTitle, NothingPending, Fine, States
<1> QED BY <1>1, <1>2 DEF FlushPending

\* ---- attaching and leaving -------------------------------------------------------------

LEMMA Detaches ==
  ASSUME NEW s, Fine(s), NEW w, NEW pages \in [Windows -> Pages], NEW r,
         s.ctx.attached # None /\ s.ctx.attached.title.pending # None => w \in Windows
  PROVE  LET t == Detach(s, w, pages, r)
         IN  /\ Follows(s, t) /\ t.ctx.attached = None /\ NothingPending(t.ctx)
             /\ NothingPending(s.ctx) => t.out = s.out
<1> DEFINE flushed == FlushPending(s, w, pages, r)
           pid == flushed.ctx.attached.pid
           c == [flushed.ctx EXCEPT !.attached = None, !.watched_value = None]
           gone == [flushed EXCEPT !.ctx = c]
           t == Detach(s, w, pages, r)
<1> SUFFICES /\ Follows(s, t) /\ t.ctx.attached = None /\ NothingPending(t.ctx)
             /\ NothingPending(s.ctx) => t.out = s.out
  OBVIOUS
<1>1. Follows(s, flushed) /\ SameApp(s, flushed) /\ NothingPending(flushed.ctx)
  BY Flushes
<1>2. NothingPending(s.ctx) => flushed.out = s.out
  BY NothingFlushed
<1>3. t = IF s.ctx.attached = None THEN flushed
          ELSE ClearActivation([flushed EXCEPT !.ctx.attached = None, !.ctx.watched_value = None],
                               pid, r)
  BY DEF Detach
<1> HIDE DEF flushed, t
<1>4. CASE s.ctx.attached = None
  BY <1>1, <1>2, <1>3, <1>4 DEF SameApp
<1>5. CASE s.ctx.attached # None
  <2>1. Fine(flushed) /\ flushed \in States /\ flushed.ctx \in Ctxs
    BY <1>1 DEF Follows, Fine, States
  <2>2. c \in Ctxs /\ c.attached = None /\ c.pending_value = flushed.ctx.pending_value
    BY <2>1 DEF Ctxs
  <2>3. [flushed EXCEPT !.ctx.attached = None, !.ctx.watched_value = None] = gone
    BY <2>1 DEF States
  <2> HIDE DEF c
  <2>4. /\ gone \in States /\ gone.ctx = c /\ gone.ax = flushed.ax
        /\ gone.settled = flushed.settled /\ gone.out = flushed.out
    BY <2>1, <2>2 DEF States
  <2> HIDE DEF gone
  <2>5. Follows(flushed, gone)
    <3>1. InFront(gone.ctx) /\ TitleFollows(flushed, gone)
      BY <2>2, <2>4 DEF InFront, TitleFollows
    <3>2. \A e \in Elements : ~Holds(flushed.ctx, e)
      BY <1>1, NoneIsNoAttachment DEF NothingPending, Holds
    <3> QED BY <2>1, <2>4, <3>1, <3>2 DEF Follows, Fine, EditFollows
  <2>6. t = ClearActivation(gone, pid, r)
    BY <1>3, <1>5, <2>3
  <2>7. Follows(gone, t) /\ t.ctx = gone.ctx
    BY <2>5, <2>6, ClearsActivation DEF Follows
  <2>8. t.out = gone.out
    BY <2>4, <2>6 DEF ClearActivation, States
  <2> QED BY <1>1, <1>2, <2>2, <2>4, <2>5, <2>7, <2>8, FollowsOn DEF NothingPending
<1> QED BY <1>4, <1>5

LEMMA TitleOnlyTold ==
  ASSUME NEW s, Fine(s) PROVE Keeps(s, AnnounceTitleOnly(s))
<1>1. CASE s.ctx.attached = None \/ s.ctx.attached.ax_tree # "title_only"
  BY <1>1, Itself DEF AnnounceTitleOnly, Keeps
<1>2. CASE s.ctx.attached # None /\ s.ctx.attached.ax_tree = "title_only"
  <2>1. "title_only" \in Reasons /\ s.ctx.attached.pid \in Pids
        /\ BundleOf[s.ctx.attached.pid] \in Bundles
    BY <1>2, TheAttached DEF Reasons
  <2> QED BY <1>2, <2>1, Announces DEF AnnounceTitleOnly, Keeps
<1> QED BY <1>1, <1>2

LEMMA RefusalTold ==
  ASSUME NEW s, Fine(s), NEW pid \in Pids, NEW refused
  PROVE  Keeps(s, AnnounceRefusal(s, pid, refused))
<1>1. RefusedReason(refused) \in Reasons
  BY DEF RefusedReason, Reasons
<1>2. BundleOf[pid] \in Bundles
  BY CaptureAssumption
<1> QED BY <1>1, <1>2, Announces, Itself DEF AnnounceRefusal, Keeps

LEMMA Attaching ==
  ASSUME NEW s, Fine(s), NEW pid \in Pids, NEW how, NEW r,
         s.ctx.attached = None, s.ctx.front_pid = pid
  PROVE  Follows(s, Attach(s, pid, how, r))
<1> DEFINE bundle == BundleOf[pid]
           seen == ProbeAxTree(s, pid, how.probe, r)
           probed == seen[2]
           gained == [pid |-> pid, ax_tree |-> seen[1], browser_windows |-> <<>>,
                      title |-> [pending |-> None, last_emitted |-> None]]
           entered == [probed EXCEPT !.ctx.attached = gained]
           spent == SpendAttachAttempt(probed, bundle)
           cleared == ClearActivation(spent, pid, r)
           t == Attach(s, pid, how, r)
<1>1. bundle \in Bundles
  BY CaptureAssumption
<1>2. /\ Follows(s, probed) /\ seen[1] \in Trees
      /\ probed.ctx.attached = None /\ probed.ctx.front_pid = pid
  BY Probing
<1> HIDE DEF bundle, seen
<1>3. Fine(probed)
  BY <1>2 DEF Follows
<1>4. Follows(s, SpendAttachAttempt(s, bundle))
  BY <1>1, TakesAttempt DEF SpendAttachAttempt
<1>5. Follows(s, AnnounceRefusal(cleared, pid, how.refused))
  <2>1. Follows(probed, spent)
    BY <1>1, <1>3, TakesAttempt DEF SpendAttachAttempt
  <2>2. Follows(spent, cleared)
    BY <2>1, ClearsActivation DEF Follows
  <2> HIDE DEF cleared, spent
  <2>3. Follows(cleared, AnnounceRefusal(cleared, pid, how.refused))
    BY <2>2, RefusalTold DEF Follows, Keeps
  <2> QED BY <1>2, <2>1, <2>2, <2>3, FollowsOn
<1>6. Follows(s, AnnounceTitleOnly(entered))
  <2> DEFINE c == [probed.ctx EXCEPT !.attached = gained]
             in == [probed EXCEPT !.ctx = c]
  <2>1. probed \in States /\ probed.ctx \in Ctxs
    BY <1>3 DEF Fine, States
  <2>2. <<>> \in Seq(Entries) /\ gained.title \in Titles /\ gained.title.pending = None
    BY DEF Titles, MaybePage
  <2>3. gained \in Attachments
    BY <1>2, <2>2 DEF Attachments
  <2>4. entered = in
    OBVIOUS
  <2>5. gained.title.pending = None /\ gained.pid = pid
    OBVIOUS
  <2> HIDE DEF gained
  <2>6. c \in Ctxs /\ c.attached = gained /\ InFront(c)
    BY <1>2, <2>1, <2>3, <2>5 DEF Ctxs, InFront
  <2> HIDE DEF c
  <2>7. in \in States /\ in.ctx = c /\ in.ax = probed.ax /\ in.settled = probed.settled
    BY <2>1, <2>6 DEF States
  <2> HIDE DEF in
  <2>8. Follows(probed, in)
    BY <1>2, <1>3, <2>5, <2>6, <2>7 DEF Follows, Fine, EditFollows, Holds, TitleFollows
  <2>9. Follows(in, AnnounceTitleOnly(in))
    BY <2>8, TitleOnlyTold DEF Follows, Keeps
  <2>10. Follows(s, AnnounceTitleOnly(in))
    BY <1>2, <2>8, <2>9, FollowsOn
  <2> QED BY <2>4, <2>10
<1>7. t \in {s, SpendAttachAttempt(s, bundle), AnnounceRefusal(cleared, pid, how.refused),
             AnnounceTitleOnly(entered)}
  BY DEF Attach, bundle, seen
<1> HIDE DEF t, entered, cleared
<1>8. Follows(s, t)
  BY <1>4, <1>5, <1>6, <1>7, Itself
<1> QED BY <1>8 DEF t

LEMMA Reconciles ==
  ASSUME NEW s, Fine(s), NEW pid \in Pids, NEW w, NEW pages \in [Windows -> Pages],
         NEW how, NEW r, s.ctx.attached # None => s.ctx.attached.pid # pid,
         s.ctx.attached # None /\ s.ctx.attached.title.pending # None => w \in Windows
  PROVE  Follows(s, Reconcile(s, pid, w, pages, how, r))
<1> DEFINE off == Detach(s, w, pages, r)
           c == [off.ctx EXCEPT !.front_pid = pid]
           left == [off EXCEPT !.ctx = c]
           previous == IF s.ctx.attached = None THEN None ELSE BundleOf[s.ctx.attached.pid]
           frame == [kind |-> "app.activated", app |-> pid, previous |-> previous]
           sent == Emit(left, frame)
           t == Reconcile(s, pid, w, pages, how, r)
<1>1. Follows(s, off) /\ off.ctx.attached = None
  BY Detaches
<1>2. off.ctx \in Ctxs /\ Fine(off)
  BY <1>1 DEF Follows, Fine, States
<1>3. [off EXCEPT !.ctx.front_pid = pid] = left
  OBVIOUS
<1> HIDE DEF off
<1>4. /\ c \in Ctxs /\ c.attached = off.ctx.attached
      /\ c.pending_value = off.ctx.pending_value /\ c.front_pid = pid /\ InFront(c)
  BY <1>1, <1>2 DEF Ctxs, InFront
<1> HIDE DEF c
<1>5. Follows(off, left) /\ left.ctx.attached = None /\ left.ctx.front_pid = pid
  BY <1>1, <1>2, <1>4, Books
<1>6. frame \in Crossing
  <2>1. previous \in Bundles \cup {None}
    BY TheAttached
  <2> HIDE DEF previous
  <2>2. frame \in AppFrames /\ frame.kind # "field.value" /\ frame.kind # "browser.navigated"
    BY <2>1 DEF AppFrames
  <2> HIDE DEF frame
  <2> QED BY <2>2, PlainCrosses DEF Frames
<1> HIDE DEF left, frame
<1>7. Fine(left) /\ Follows(left, sent) /\ sent.ctx = left.ctx
  BY <1>5, <1>6, Emits DEF Follows
<1> HIDE DEF sent
<1>8. Follows(sent, Attach(sent, pid, how, r))
  BY <1>5, <1>7, Attaching DEF Follows
<1>9. Follows(s, left) /\ Follows(s, Attach(sent, pid, how, r))
  BY <1>1, <1>5, <1>7, <1>8, FollowsOn
<1>10. \/ t \in {s, left, Attach(sent, pid, how, r)}
       \/ s.ctx.front_pid = pid /\ t = Attach(s, pid, how, r)
  BY <1>3 DEF Reconcile, AppActivated, sent, frame, off
<1> HIDE DEF t
<1>11. s.ctx.front_pid = pid => s.ctx.attached = None
  BY DEF Fine, InFront
<1>12. Follows(s, t)
  BY <1>9, <1>10, <1>11, Itself, Attaching
<1> QED BY <1>12 DEF t

\* ---- the notifications -----------------------------------------------------------------

LEMMA Tracks ==
  ASSUME NEW s, Fine(s), NEW e \in Elements, NEW r
  PROVE  Keeps(s, TrackValueSource(s, e, r))
<1> DEFINE v == IF s.ctx.watched_value = e THEN s.ctx.watched_value
                ELSE IF "AXRole" \in r /\ RoleOf[e] # "label" THEN e ELSE None
           c == [s.ctx EXCEPT !.watched_value = v]
<1>1. TrackValueSource(s, e, r) = [s EXCEPT !.ctx = c]
  BY DEF TrackValueSource
<1>2. s.ctx \in Ctxs /\ v \in Elements \cup {None}
  BY DEF Fine, States, Ctxs
<1> HIDE DEF v
<1>3. /\ c \in Ctxs /\ c.attached = s.ctx.attached
      /\ c.pending_value = s.ctx.pending_value /\ InFront(c)
  BY <1>2 DEF Ctxs, Fine, InFront
<1> HIDE DEF c
<1> QED BY <1>1, <1>3, Books DEF Keeps

LEMMA FocusTold ==
  ASSUME NEW s, Fine(s), s.ctx.attached # None, NEW e \in Elements,
         NEW pages \in [Windows -> Pages], NEW r
  PROVE  Follows(s, OnFocusChanged(s, e, pages, r))
<1> DEFINE read == FlushPendingValue(s, pages, r)
           tracked == TrackValueSource(read, e, r)
           event == Event(s, "focus.changed")
<1>1. Follows(s, read)
  BY FlushesValue
<1>2. event \in Crossing
  BY EventsCross
<1> HIDE DEF read, event
<1>3. Follows(read, tracked)
  BY <1>1, Tracks DEF Follows, Keeps
<1> HIDE DEF tracked
<1>4. Follows(tracked, Emit(tracked, event))
  BY <1>2, <1>3, Emits DEF Follows
<1>5. OnFocusChanged(s, e, pages, r) = Emit(tracked, event)
  BY DEF OnFocusChanged, tracked, read, event
<1> QED BY <1>1, <1>3, <1>4, <1>5, FollowsOn

LEMMA ValueTold ==
  ASSUME NEW s, Fine(s), NEW e \in Elements, NEW late, NEW pages \in [Windows -> Pages], NEW r,
         s.ctx.attached # None, s.ctx.attached.pid = AppOf(e)
  PROVE  LET t == OnValueChanged(s, e, late, pages, r)
         IN  /\ Fine(t) /\ TitleFollows(s, t)
             /\ Holds(t.ctx, e) \/ e \in t.settled
<1> DEFINE c == [s.ctx EXCEPT !.pending_value = e]
           remembered == [s EXCEPT !.ctx = c]
           read == FlushPendingValue(remembered, pages, r)
           t == OnValueChanged(s, e, late, pages, r)
<1>1. [s EXCEPT !.ctx.pending_value = e] = remembered
  OBVIOUS
<1>2. s \in States /\ s.ctx \in Ctxs
  BY DEF Fine, States
<1>3. /\ c \in Ctxs /\ c.attached = s.ctx.attached /\ c.pending_value = e
      /\ InFront(c)
  BY <1>2 DEF Ctxs, Fine, InFront
<1> HIDE DEF c
<1>4. remembered \in States /\ remembered.ctx = c /\ remembered.ax = s.ax
  BY <1>2, <1>3 DEF States
<1> HIDE DEF remembered
<1>5. Fine(remembered) /\ TitleFollows(s, remembered) /\ Holds(remembered.ctx, e)
  BY <1>3, <1>4 DEF Fine, TitleFollows, Holds
<1>6. Follows(remembered, read)
  BY <1>5, FlushesValue
<1>7. t \in {remembered, read}
  BY <1>1 DEF OnValueChanged
<1> HIDE DEF t, read
<1>8. Fine(t) /\ TitleFollows(s, t) /\ (Holds(t.ctx, e) \/ e \in t.settled)
  BY <1>5, <1>6, <1>7 DEF Follows, EditFollows, TitleFollows
<1> QED BY <1>8 DEF t

LEMMA Reprobes ==
  ASSUME NEW s, Fine(s), s.ctx.attached # None, NEW p, NEW r
  PROVE  Keeps(s, ReprobeIfUnknown(s, p, r))
<1> DEFINE seen == ProbeAxTree(s, s.ctx.attached.pid, p, r)
           looked == seen[2]
           a == [s.ctx.attached EXCEPT !.ax_tree = seen[1]]
           known == [looked EXCEPT !.ctx.attached = a]
<1>1. CASE s.ctx.attached.ax_tree # "unknown"
  BY <1>1, Itself DEF ReprobeIfUnknown, Keeps
<1>2. CASE s.ctx.attached.ax_tree = "unknown"
  <2>1. s.ctx.attached \in Attachments /\ s.ctx.attached.pid \in Pids
    BY TheAttached
  <2>2. /\ seen[1] \in Trees /\ Follows(s, looked) /\ SameApp(s, looked)
        /\ looked.ctx.attached = s.ctx.attached
        /\ looked.ctx.pending_value = s.ctx.pending_value
    BY <2>1, Probing
  <2> HIDE DEF seen
  <2>3. a \in Attachments /\ a.pid = s.ctx.attached.pid /\ a.title = s.ctx.attached.title
    BY <2>1, <2>2 DEF Attachments
  <2>4. [looked EXCEPT !.ctx.attached.ax_tree = seen[1]] = known
    BY <2>2
  <2> HIDE DEF a
  <2>5. Keeps(s, looked) /\ Fine(looked)
    BY <2>2 DEF Keeps, Follows
  <2>6. Keeps(looked, known) /\ Fine(known)
    BY <2>2, <2>3, <2>5, Knows DEF Keeps, Follows
  <2> HIDE DEF known
  <2>7. Keeps(known, AnnounceTitleOnly(known))
    BY <2>6, TitleOnlyTold
  <2>8. ReprobeIfUnknown(s, p, r) = AnnounceTitleOnly(known)
    BY <1>2, <2>4 DEF ReprobeIfUnknown, seen
  <2> QED BY <2>5, <2>6, <2>7, <2>8, KeepsOn
<1> QED BY <1>1, <1>2

LEMMA WindowTold ==
  ASSUME NEW s, Fine(s), s.ctx.attached # None, NEW w \in Windows,
         NEW pages \in [Windows -> Pages], NEW p, NEW r
  PROVE  Follows(s, OnWindowFocused(s, w, pages, p, r))
<1> DEFINE event == Event(s, "window.focused")
           title == ReadTitle(pages[w], r)
           said == Emit(s, event)
           last == [said.ctx.attached.title EXCEPT !.last_emitted = title]
           a == [said.ctx.attached EXCEPT !.title = last]
           seeded == [said EXCEPT !.ctx.attached = a]
           sent == SeedEmitted(said, title)
           probed == ReprobeIfUnknown(sent, p, r)
           t == OnWindowFocused(s, w, pages, p, r)
<1>1. event \in Crossing
  BY EventsCross
<1> HIDE DEF event
<1>2. Keeps(s, said) /\ said.ctx = s.ctx /\ Fine(said)
  BY <1>1, EmitsKeep
<1> HIDE DEF said
<1>3. said.ctx.attached \in Attachments /\ said.ctx.attached.title \in Titles
  BY <1>2, TheAttached
<1>4. title \in Pages \cup {Empty}
  BY DEF ReadTitle
<1> HIDE DEF title
<1>5. last \in Titles /\ last.pending = said.ctx.attached.title.pending
  BY <1>3, <1>4 DEF Titles, MaybePage
<1>6. [said EXCEPT !.ctx.attached.title.last_emitted = title] = seeded
  OBVIOUS
<1> HIDE DEF last
<1>7. a \in Attachments /\ a.pid = said.ctx.attached.pid /\ a.title = last
  BY <1>3, <1>5 DEF Attachments
<1> HIDE DEF a
<1>8. Keeps(said, seeded)
  BY <1>2, <1>5, <1>7, Knows DEF Keeps
<1>9. Keeps(said, said)
  BY <1>2, Itself DEF Keeps
<1>10. sent \in {said, seeded}
  BY <1>6 DEF SeedEmitted
<1> HIDE DEF sent, seeded
<1>11. Keeps(said, sent)
  BY <1>8, <1>9, <1>10
<1>12. Fine(sent) /\ sent.ctx.attached # None
  BY <1>2, <1>11 DEF Keeps, Follows, SameApp
<1>13. Keeps(sent, probed)
  BY <1>12, Reprobes
<1> HIDE DEF probed
<1>14. Keeps(probed, MaybeEmitNavigation(probed, w, pages[w], r))
  BY <1>13, Navigates DEF Keeps, Follows
<1>15. t = MaybeEmitNavigation(probed, w, pages[w], r)
  BY DEF OnWindowFocused, probed, sent, said, event, title
<1> HIDE DEF t
<1>16. Keeps(s, t)
  BY <1>2, <1>11, <1>13, <1>14, <1>15, KeepsOn
<1> QED BY <1>16 DEF t, Keeps

LEMMA TitleTold ==
  ASSUME NEW s, Fine(s), s.ctx.attached # None, NEW late, NEW w \in Windows,
         NEW pages \in [Windows -> Pages], NEW r
  PROVE  LET t == OnTitleChanged(s, late, w, pages, r)
         IN  Fine(t) /\ EditFollows(s, t) /\ SameApp(s, t)
<1> DEFINE title == ReadTitle(pages[w], r)
           waiting == [s.ctx.attached.title EXCEPT !.pending = title]
           a == [s.ctx.attached EXCEPT !.title = waiting]
           c == [s.ctx EXCEPT !.attached = a]
           observed == [s EXCEPT !.ctx = c]
           flushed == FlushPendingTitle(observed, w, pages, r)
           t == OnTitleChanged(s, late, w, pages, r)
<1>1. s \in States /\ s.ctx \in Ctxs /\ s.ctx.attached \in Attachments
      /\ s.ctx.attached.title \in Titles
  BY TheAttached DEF Fine, States
<1>2. title \in Pages \cup {Empty}
  BY DEF ReadTitle
<1>3. [s EXCEPT !.ctx.attached.title.pending = title] = observed
  OBVIOUS
<1>4. t \in {observed, flushed}
  BY <1>3 DEF OnTitleChanged
<1> HIDE DEF title, t
<1>5. waiting \in Titles
  BY <1>1, <1>2 DEF Titles, MaybePage
<1> HIDE DEF waiting
<1>6. a \in Attachments /\ a.pid = s.ctx.attached.pid /\ a # None
  BY <1>1, <1>5, NoneIsNoAttachment DEF Attachments
<1> HIDE DEF a
<1>7. /\ c \in Ctxs /\ c.attached = a /\ c.pending_value = s.ctx.pending_value
      /\ InFront(c)
  BY <1>1, <1>6 DEF Ctxs, Fine, InFront
<1> HIDE DEF c
<1>8. /\ observed \in States /\ observed.ctx = c /\ observed.ax = s.ax
      /\ observed.settled = s.settled
  BY <1>1, <1>7 DEF States
<1> HIDE DEF observed
<1>9. Fine(observed) /\ EditFollows(s, observed) /\ SameApp(s, observed)
  BY <1>6, <1>7, <1>8 DEF Fine, EditFollows, Holds, SameApp
<1>10. Keeps(observed, flushed)
  BY <1>9, FlushesTitle
<1> HIDE DEF flushed
<1>11. Fine(t) /\ EditFollows(s, t) /\ SameApp(s, t)
  BY <1>4, <1>9, <1>10, SameAppOn DEF Keeps, Follows, EditFollows
<1> QED BY <1>11 DEF t

-----------------------------------------------------------------------------
(* The steps.                                                              *)

LEMMA NowIsFine ==
  ASSUME ObserverInv
  PROVE  /\ Fine(Now) /\ Now.ctx = ctx /\ Now.ax = ax /\ Now.out = <<>> /\ Now.settled = {}
         /\ Now.ctx.attached # None /\ Now.ctx.attached.title.pending # None =>
              FrontWindow \in Windows
<1>1. <<>> \in Seq(Crossing)
  BY EmptySeq
<1>2. /\ Now \in States /\ Now.ctx = ctx /\ Now.ax = ax /\ Now.out = <<>> /\ Now.settled = {}
  BY <1>1 DEF ObserverInv, Now, States
<1> QED BY <1>2 DEF ObserverInv, Fine, Recorded, SwitchesAreUndone, TitlesHaveWindows

\* What a callback leaves is well formed, and nothing it wrote must stay.
LEMMA CallbackKeeps ==
  ASSUME NEW s, Fine(s), ctx' = s.ctx, ax' = s.ax, emitted' = s.out
  PROVE  /\ ctx' \in Ctxs /\ ax' \in Axs /\ Recorded(ax') /\ InFront(ctx')
         /\ WithheldStaysWithheld'
<1>1. /\ s.ctx \in Ctxs /\ s.ax \in Axs /\ s.out \in Seq(Crossing)
      /\ Recorded(s.ax) /\ InFront(s.ctx)
  BY DEF Fine, States
<1>2. emitted' \in Seq(Crossing)
  BY <1>1
<1>3. ASSUME NEW i \in 1 .. Len(emitted') PROVE MayCross(emitted[i])'
  <2>1. emitted'[i] \in Crossing
    BY <1>2, ElementOfSeq
  <2> QED BY <2>1 DEF Crossing, MayCross
<1> QED BY <1>1, <1>3 DEF WithheldStaysWithheld

\* A step of the thread: one callback, which moves focus to windows if at all.
LEMMA Commits ==
  ASSUME ObserverInv, NEW s, Follows(Now, s), Commit(s),
         worker' = worker, thread # "none", DesktopType', TheEndIsFlushed',
         (thread' # "none" /\ over' = over) \/ ctx'.pending_value = None,
         \A p \in Pids : focused'[p] = focused[p] \/ focused'[p] \in Windows
  PROVE  ObserverInv'
<1>1. /\ Now.ctx = ctx /\ Now.ax = ax /\ Now.settled = {}
      /\ Fine(s) /\ ctx' = s.ctx /\ ax' = s.ax /\ emitted' = s.out
  BY NowIsFine DEF Commit, Follows
<1>2. /\ ctx' \in Ctxs /\ ax' \in Axs /\ Recorded(ax') /\ InFront(ctx')
      /\ WithheldStaysWithheld'
  BY <1>1, CallbackKeeps
<1>3. worker \notin {"idle", "gone"}
  BY DEF ObserverInv, ThreadIsJoined
<1>4. SwitchesAreUndone'
  BY <1>2, <1>3 DEF Recorded, SwitchesAreUndone
<1>5. EditsAreRead' /\ owed' \subseteq Elements
  <2>1. /\ owed' = owed \ s.settled /\ overtaken' = overtaken \ s.settled
        /\ owed \subseteq Elements /\ EditsAreRead
    BY DEF Commit, ObserverInv
  <2>2. ASSUME NEW e \in owed' \ overtaken' PROVE Waits(e)'
    <3>1. e \in Elements /\ e \notin s.settled /\ Waits(e)
      BY <2>1, <2>2 DEF EditsAreRead
    <3>2. Holds(ctx', e)
      BY <1>1, <3>1 DEF Follows, EditFollows, Waits, Holds
    <3>3. thread' # "none" /\ over' = over
      BY <3>1, <3>2, NoneIsNoAttachment DEF Holds
    <3> QED BY <3>1, <3>2, <3>3 DEF Waits, Holds
  <2> QED BY <2>1, <2>2 DEF EditsAreRead
<1>6. TitlesHaveWindows'
  <2>1. ASSUME ctx'.attached # None, ctx'.attached.title.pending # None
        PROVE  focused'[ctx'.attached.pid] \in Windows
    <3>1. /\ ctx.attached # None /\ ctx.attached.title.pending # None
          /\ ctx'.attached.pid = ctx.attached.pid
      BY <1>1, <2>1 DEF Follows, TitleFollows
    <3>2. focused[ctx.attached.pid] \in Windows
      BY <3>1 DEF ObserverInv, TitlesHaveWindows, FrontWindow
    <3>3. ctx.attached.pid \in Pids
      BY <3>1 DEF ObserverInv, Ctxs, Attachments
    <3> QED BY <3>1, <3>2, <3>3
  <2> QED BY <2>1 DEF TitlesHaveWindows, FrontWindow
<1>7. ThreadIsJoined'
  BY <1>3 DEF ThreadIsJoined
<1> QED BY <1>2, <1>4, <1>5, <1>6, <1>7 DEF ObserverInv

\* A step of which the thread knows nothing.
LEMMA SilentKeeps ==
  ASSUME ObserverInv, Silent, ctx' = ctx, focused' = focused, DesktopType',
         ax' \in Axs, SwitchesAreUndone', ThreadIsJoined',
         over => thread' \in {"stopped", "none"}, thread' # "none" \/ thread' = thread
  PROVE  ObserverInv'
<1>1. EditsAreRead' /\ TheEndIsFlushed' /\ owed' \subseteq Elements
  BY DEF ObserverInv, EditsAreRead, Waits, Silent, TheEndIsFlushed, NothingPending
<1>2. WithheldStaysWithheld'
  BY EmptySeq DEF Silent, WithheldStaysWithheld
<1>3. TitlesHaveWindows'
  BY DEF ObserverInv, TitlesHaveWindows, FrontWindow
<1> QED BY <1>1, <1>2, <1>3 DEF ObserverInv, InFront

LEMMA ObserverStart == ObserverInit => ObserverInv
<1> SUFFICES ASSUME ObserverInit PROVE ObserverInv
  OBVIOUS
<1>1. ctx = NewCtx /\ NewCtx \in Ctxs /\ NewCtx.attached = None
  BY DEF ObserverInit, NewCtx, Ctxs
<1>2. ax \in Axs /\ SwitchesAreUndone
  BY DEF ObserverInit, Axs, SwitchesAreUndone
<1>3. WithheldStaysWithheld
  BY EmptySeq DEF ObserverInit, WithheldStaysWithheld
<1>4. DesktopType
  BY DEF ObserverInit, DesktopType
<1> QED
  BY <1>1, <1>2, <1>3, <1>4
  DEF ObserverInit, ObserverInv, ThreadIsJoined, TheEndIsFlushed, TitlesHaveWindows,
      EditsAreRead, InFront

LEMMA WorkerKeeps == ASSUME ObserverInv, Worker PROVE ObserverInv'
<1> USE DEF ObserverInv
<1>1. CASE ObserveStart
  <2>1. ctx' = NewCtx /\ NewCtx \in Ctxs /\ NewCtx.attached = None
    BY <1>1 DEF ObserveStart, NewCtx, Ctxs
  <2>2. ax' = ax /\ worker' = "starting" /\ over' = FALSE /\ owed' = {} /\ emitted' = <<>>
        /\ UNCHANGED <<front, focused, shown>>
    BY <1>1 DEF ObserveStart
  <2>3. SwitchesAreUndone' /\ ThreadIsJoined' /\ TheEndIsFlushed' /\ EditsAreRead' /\ DesktopType'
    BY <2>2 DEF SwitchesAreUndone, ThreadIsJoined, TheEndIsFlushed, EditsAreRead, DesktopType,
                MayBeFocused
  <2>4. WithheldStaysWithheld'
    BY <2>2, EmptySeq DEF WithheldStaysWithheld
  <2>5. TitlesHaveWindows'
    BY <2>1 DEF TitlesHaveWindows
  <2>6. owed' \subseteq Elements /\ InFront(ctx')
    BY <2>1, <2>2 DEF InFront
  <2> QED BY <2>1, <2>2, <2>3, <2>4, <2>5, <2>6
<1>2. ASSUME UNCHANGED <<ctx, ax, desktop>>, Silent, thread' = thread,
             worker' \in {"idle", "gone"} => thread = "none", worker # "gone", worker' # "gone"
      PROVE  ObserverInv'
  <2>1. DesktopType'
    BY <1>2 DEF desktop, DesktopType, MayBeFocused
  <2>2. SwitchesAreUndone' /\ ThreadIsJoined'
    BY <1>2 DEF SwitchesAreUndone, ThreadIsJoined
  <2>3. over => thread' \in {"stopped", "none"}
    BY <1>2 DEF TheEndIsFlushed
  <2> QED BY <1>2, <2>1, <2>2, <2>3, SilentKeeps DEF desktop
<1>3. CASE StartIsAcked
  BY <1>2, <1>3 DEF StartIsAcked
<1>4. CASE StartTimesOut
  BY <1>2, <1>4 DEF StartTimesOut
<1>5. CASE ObserveStop
  BY <1>2, <1>5 DEF ObserveStop, Stops
<1>6. CASE StdinEnds
  BY <1>2, <1>6 DEF StdinEnds, Stops
<1>7. CASE Joined
  BY <1>2, <1>7 DEF Joined
<1>8. ASSUME NEW r \in AppAnswers, Leaves(r) PROVE ObserverInv'
  <2> DEFINE on == IF "clear" \in r THEN ax.on \ ax.activated ELSE ax.on
             refused == IF "clear" \in r THEN ax.refused ELSE ax.refused \cup ax.activated
  <2>1. /\ ax' = [on |-> on, activated |-> {}, unsaid |-> ax.unsaid, refused |-> refused]
        /\ worker' = "gone"
        /\ thread = "none" /\ thread' = "none" /\ Silent /\ UNCHANGED <<ctx, desktop>>
    BY <1>8 DEF Leaves
  <2>2. /\ on \in SUBSET Switch /\ refused \in SUBSET Switch /\ ax.unsaid \in SUBSET Switch
        /\ on \subseteq ax.unsaid \cup refused
    BY DEF Axs, SwitchesAreUndone
  <2> HIDE DEF on, refused
  <2>3. ax' \in Axs /\ SwitchesAreUndone'
    BY <2>1, <2>2 DEF Axs, SwitchesAreUndone
  <2>4. DesktopType' /\ ThreadIsJoined'
    BY <2>1 DEF desktop, DesktopType, MayBeFocused, ThreadIsJoined
  <2> QED BY <2>1, <2>3, <2>4, SilentKeeps DEF desktop
<1>9. ASSUME NEW w \in Windows, NEW attribute \in {Manual, Enhanced},
             NEW read \in BOOLEAN, NEW recorded \in BOOLEAN,
             WorkerActivates(WindowOwner[w], attribute, read, recorded)
      PROVE  ObserverInv'
  <2> DEFINE it == <<WindowOwner[w], attribute>>
             on == ax.on \cup {it}
             activated == IF recorded THEN ax.activated \cup {it} ELSE ax.activated
             unsaid == CASE recorded -> ax.unsaid \ {it}
                         [] ~recorded /\ it \in ax.activated -> ax.unsaid
                         [] OTHER -> ax.unsaid \cup {it}
             refused == IF recorded THEN ax.refused \ {it} ELSE ax.refused
  <2>1. /\ ax' = [ax EXCEPT !.on = on, !.activated = activated, !.unsaid = unsaid,
                            !.refused = refused]
        /\ worker \in {"idle", "running"} /\ worker' = worker /\ thread' = thread
        /\ Silent /\ UNCHANGED <<ctx, front, focused, shown>>
    BY <1>9 DEF WorkerActivates
  <2>2. it \in Switch
    BY CaptureAssumption DEF Switch
  <2> HIDE DEF it
  <2>3. /\ on \in SUBSET Switch /\ activated \in SUBSET Switch /\ unsaid \in SUBSET Switch
        /\ refused \in SUBSET Switch /\ on \subseteq activated \cup unsaid \cup refused
    BY <2>2 DEF Axs, SwitchesAreUndone
  <2> HIDE DEF on, activated, unsaid, refused
  <2>4. /\ ax' \in Axs /\ ax'.on = on /\ ax'.activated = activated /\ ax'.unsaid = unsaid
        /\ ax'.refused = refused
    BY <2>1, <2>3 DEF Axs
  <2>5. SwitchesAreUndone' /\ ThreadIsJoined'
    BY <2>1, <2>3, <2>4 DEF SwitchesAreUndone, ThreadIsJoined
  <2>6. DesktopType' /\ (over => thread' \in {"stopped", "none"})
    BY <2>1 DEF DesktopType, MayBeFocused, TheEndIsFlushed
  <2> QED BY <2>1, <2>4, <2>5, <2>6, SilentKeeps
<1> QED BY <1>1, <1>3, <1>4, <1>5, <1>6, <1>7, <1>8, <1>9 DEF Worker

\* The thread reconciles: it leaves an app and finds another.
LEMMA ReconcileKeeps ==
  ASSUME ObserverInv, ReconcileFrontmost, worker' = worker, thread # "none",
         UNCHANGED <<desktop, over>>, ~over, thread' # "none"
  PROVE  ObserverInv'
<1>1. PICK how \in Ways(front), r \in AppAnswers :
        Commit(Reconcile(Now, front, FrontWindow, shown, how, r))
  BY DEF ReconcileFrontmost
<1>2. Follows(Now, Reconcile(Now, front, FrontWindow, shown, how, r))
  <2>1. front \in Pids /\ shown \in [Windows -> Pages]
    BY DEF ObserverInv, DesktopType
  <2>2. ctx.attached # None => ctx.attached.pid # front
    BY DEF ReconcileFrontmost
  <2>3. /\ Fine(Now) /\ Now.ctx = ctx
        /\ Now.ctx.attached # None /\ Now.ctx.attached.title.pending # None =>
             FrontWindow \in Windows
    BY NowIsFine
  <2> QED BY <2>1, <2>2, <2>3, Reconciles
<1>3. DesktopType' /\ TheEndIsFlushed'
  BY DEF ObserverInv, desktop, DesktopType, MayBeFocused, TheEndIsFlushed
<1> QED BY <1>1, <1>2, <1>3, Commits DEF desktop

\* After the end there is nothing for a timer, and the thread only leaves.
LEMMA OnlyBeforeTheEnd ==
  ASSUME ObserverInv, thread \notin {"stopped", "none"}
  PROVE  ~over
BY DEF ObserverInv, TheEndIsFlushed

LEMMA ThreadKeeps == ASSUME ObserverInv, Thread PROVE ObserverInv'
<1>0. shown \in [Windows -> Pages] /\ DesktopType
  BY DEF ObserverInv, DesktopType
<1>1. CASE Setup
  <2>1. CASE ReconcileFrontmost
    BY <1>1, <2>1, OnlyBeforeTheEnd, ReconcileKeeps DEF Setup
  <2>2. CASE UNCHANGED <<ctx, ax, owed, overtaken>> /\ emitted' = <<>>
    <3>1. Silent /\ ctx' = ctx /\ focused' = focused /\ ax' = ax /\ ~over
          /\ worker' = worker /\ thread # "none" /\ thread' # "none"
      BY <1>1, <2>2, OnlyBeforeTheEnd DEF Setup, Silent, desktop
    <3>2. DesktopType' /\ SwitchesAreUndone' /\ ThreadIsJoined'
      BY <1>1, <3>1 DEF ObserverInv, Setup, desktop, DesktopType, MayBeFocused,
                        SwitchesAreUndone, ThreadIsJoined
    <3> QED BY <3>1, <3>2, SilentKeeps DEF ObserverInv
  <2> QED BY <1>1, <2>1, <2>2 DEF Setup
<1>2. CASE TickStops
  <2>1. Silent /\ ctx' = ctx /\ focused' = focused /\ ax' = ax /\ thread' = "stopped"
        /\ worker' = worker /\ thread # "none"
    BY <1>2 DEF TickStops, desktop
  <2>2. DesktopType' /\ SwitchesAreUndone' /\ ThreadIsJoined'
    BY <1>2, <2>1 DEF ObserverInv, TickStops, desktop, DesktopType, MayBeFocused,
                      SwitchesAreUndone, ThreadIsJoined
  <2> QED BY <2>1, <2>2, SilentKeeps DEF ObserverInv
<1>3. CASE TickFindsGrantGone
  <2>1. PICK r \in AppAnswers :
          Commit(Emit(FlushPending(Now, FrontWindow, shown, r), Gap("grant_revoked", None)))
    BY <1>3 DEF TickFindsGrantGone
  <2> DEFINE flushed == FlushPending(Now, FrontWindow, shown, r)
             gap == Gap("grant_revoked", None)
  <2>2. Follows(Now, flushed) /\ NothingPending(flushed.ctx)
    BY <1>0, NowIsFine, Flushes
  <2>3. gap \in Crossing
    BY GapsCross DEF Reasons
  <2> HIDE DEF flushed, gap
  <2>4. Follows(flushed, Emit(flushed, gap)) /\ Emit(flushed, gap).ctx = flushed.ctx
    BY <2>2, <2>3, Emits DEF Follows
  <2>5. Follows(Now, Emit(flushed, gap))
    BY <2>2, <2>4, FollowsOn
  <2>6. Commit(Emit(flushed, gap)) /\ ctx' = flushed.ctx
    BY <2>1, <2>4 DEF Commit, flushed, gap
  <2>7. TheEndIsFlushed' /\ DesktopType' /\ worker' = worker
      /\ thread # "none" /\ focused' = focused /\ ctx'.pending_value = None
    BY <1>0, <1>3, <2>2, <2>6 DEF TickFindsGrantGone, TheEndIsFlushed, NothingPending, desktop,
                              DesktopType, MayBeFocused
  <2> QED BY <2>5, <2>6, <2>7, Commits
<1>4. CASE TickReconciles
  BY <1>4, OnlyBeforeTheEnd, ReconcileKeeps DEF TickReconciles
<1>5. CASE ThreadEnds
  <2>1. PICK r \in AppAnswers : Commit(Detach(Now, FrontWindow, shown, r))
    BY <1>5 DEF ThreadEnds
  <2> DEFINE left == Detach(Now, FrontWindow, shown, r)
  <2>2. Follows(Now, left) /\ NothingPending(left.ctx)
    BY <1>0, NowIsFine, Detaches
  <2> HIDE DEF left
  <2>3. Commit(left) /\ ctx' = left.ctx
    BY <2>1 DEF Commit, left
  <2>4. TheEndIsFlushed' /\ DesktopType' /\ worker' = worker
      /\ thread # "none" /\ focused' = focused /\ ctx'.pending_value = None
    BY <1>0, <1>5, <2>2, <2>3 DEF ThreadEnds, TheEndIsFlushed, NothingPending, desktop, DesktopType,
                              MayBeFocused
  <2> QED BY <2>2, <2>3, <2>4, Commits
<1>6. CASE ValueSettle
  <2>1. PICK r \in AppAnswers : Commit(FlushPendingValue(Now, shown, r))
    BY <1>6 DEF ValueSettle
  <2>2. Follows(Now, FlushPendingValue(Now, shown, r))
    BY <1>0, NowIsFine, FlushesValue
  <2>3. ~over
    BY <1>6 DEF ObserverInv, TheEndIsFlushed, NothingPending, ValueSettle
  <2>4. TheEndIsFlushed' /\ DesktopType' /\ worker' = worker
      /\ thread # "none" /\ focused' = focused /\ thread' # "none" /\ over' = over
    BY <1>0, <1>6, <2>3 DEF ValueSettle, TheEndIsFlushed, desktop, DesktopType, MayBeFocused
  <2> QED BY <2>1, <2>2, <2>4, Commits
<1>7. CASE TitleSettle
  <2>1. PICK r \in AppAnswers : Commit(FlushPendingTitle(Now, FrontWindow, shown, r))
    BY <1>7 DEF TitleSettle
  <2>2. Follows(Now, FlushPendingTitle(Now, FrontWindow, shown, r))
    BY <1>0, NowIsFine, FlushesTitle DEF Keeps
  <2>3. ~over
    BY <1>7 DEF ObserverInv, TheEndIsFlushed, NothingPending, TitleSettle
  <2>4. TheEndIsFlushed' /\ DesktopType' /\ worker' = worker
      /\ thread # "none" /\ focused' = focused /\ thread' # "none" /\ over' = over
    BY <1>0, <1>7, <2>3 DEF TitleSettle, TheEndIsFlushed, desktop, DesktopType, MayBeFocused
  <2> QED BY <2>1, <2>2, <2>4, Commits
<1>8. ASSUME NEW e \in Elements, FocusMoves(e) PROVE ObserverInv'
  <2>1. PICK r \in AppAnswers : Commit(OnFocusChanged(Now, e, shown, r))
    BY <1>8 DEF FocusMoves
  <2>2. ctx.attached # None /\ thread = "running" /\ worker' = worker /\ over' = over /\ ~over
        /\ thread' = thread
    BY <1>8, OnlyBeforeTheEnd DEF FocusMoves, Attached
  <2>3. Follows(Now, OnFocusChanged(Now, e, shown, r))
    BY <1>0, <2>2, NowIsFine, FocusTold
  <2>4. WindowOf[e] \in Windows /\ AppOf(e) \in Pids
    BY CaptureAssumption DEF AppOf
  <2>5. DesktopType' /\ \A p \in Pids : focused'[p] = focused[p] \/ focused'[p] \in Windows
    BY <1>0, <1>8, <2>4 DEF FocusMoves, DesktopType, MayBeFocused, AppOf
  <2>6. TheEndIsFlushed'
    BY <2>2 DEF TheEndIsFlushed
  <2> QED BY <2>1, <2>2, <2>3, <2>5, <2>6, Commits
<1>9. ASSUME NEW e \in Elements, NEW late \in BOOLEAN, ValueChanges(e, late) PROVE ObserverInv'
  <2> DEFINE edited == IF RoleOf[e] = "label" THEN owed ELSE owed \cup {e}
  <2>1. PICK r \in AppAnswers :
          LET s == OnValueChanged(Now, e, late, shown, r)
          IN  /\ ctx' = s.ctx /\ ax' = s.ax /\ emitted' = s.out
              /\ owed' = edited \ s.settled
              /\ overtaken' = (overtaken \cup (owed \cap {ctx.pending_value})) \ {e}
    BY <1>9 DEF ValueChanges
  <2> DEFINE s == OnValueChanged(Now, e, late, shown, r)
  <2>2. Fine(s) /\ TitleFollows(Now, s) /\ (Holds(s.ctx, e) \/ e \in s.settled)
    BY <1>0, <1>9, NowIsFine, ValueTold DEF ValueChanges, Attached
  <2>3. /\ ctx' = s.ctx /\ ax' = s.ax /\ emitted' = s.out
        /\ owed' = edited \ s.settled
        /\ overtaken' = (overtaken \cup (owed \cap {ctx.pending_value})) \ {e}
    BY <2>1
  <2> HIDE DEF s
  <2>4. /\ thread = "running" /\ ctx.attached # None /\ worker' = worker /\ thread' = thread
        /\ ~over /\ over' = over /\ UNCHANGED <<front, focused, shown>>
    BY <1>9, OnlyBeforeTheEnd DEF ValueChanges, Attached
  <2>5. /\ ctx' \in Ctxs /\ ax' \in Axs /\ Recorded(ax') /\ InFront(ctx')
        /\ WithheldStaysWithheld'
    BY <2>2, <2>3, CallbackKeeps
  <2>6. SwitchesAreUndone' /\ ThreadIsJoined' /\ TheEndIsFlushed' /\ DesktopType'
    BY <1>0, <2>4, <2>5 DEF ObserverInv, Recorded, SwitchesAreUndone, ThreadIsJoined, TheEndIsFlushed,
                            DesktopType, MayBeFocused
  <2>7. EditsAreRead' /\ owed' \subseteq Elements
    <3>1. owed \subseteq Elements /\ EditsAreRead
      BY DEF ObserverInv
    <3>2. ASSUME NEW d \in owed' \ overtaken' PROVE Waits(d)'
      <4>1. d \in {e} \cup (owed \ overtaken) /\ d \notin s.settled
            /\ (d \in owed => d # ctx.pending_value \/ d = e)
        BY <2>3, <3>2
      <4>2. d = e
        BY <3>1, <4>1 DEF EditsAreRead, Waits
      <4> QED BY <2>2, <2>3, <2>4, <4>1, <4>2 DEF Waits, Holds
    <3> QED BY <2>3, <3>1, <3>2 DEF EditsAreRead
  <2>8. TitlesHaveWindows'
    <3>1. Now.ctx = ctx
      BY NowIsFine
    <3> QED BY <2>2, <2>3, <2>4, <3>1 DEF ObserverInv, TitlesHaveWindows, FrontWindow, TitleFollows
  <2> QED BY <2>5, <2>6, <2>7, <2>8 DEF ObserverInv
<1>10. ASSUME NEW w \in Windows, WindowFocused(w) PROVE ObserverInv'
  <2>1. PICK p \in Looks \cup {None}, r \in AppAnswers :
          Commit(OnWindowFocused(Now, w, shown, p, r))
    BY <1>10 DEF WindowFocused
  <2>2. ctx.attached # None /\ thread = "running" /\ worker' = worker /\ over' = over /\ ~over
        /\ thread' = thread
    BY <1>10, OnlyBeforeTheEnd DEF WindowFocused, Attached
  <2>3. Follows(Now, OnWindowFocused(Now, w, shown, p, r))
    BY <1>0, <2>2, NowIsFine, WindowTold
  <2>4. WindowOwner[w] \in Pids
    BY CaptureAssumption
  <2>5. DesktopType' /\ \A q \in Pids : focused'[q] = focused[q] \/ focused'[q] \in Windows
    BY <1>0, <1>10, <2>4 DEF WindowFocused, DesktopType, MayBeFocused
  <2>6. TheEndIsFlushed'
    BY <2>2 DEF TheEndIsFlushed
  <2> QED BY <2>1, <2>2, <2>3, <2>5, <2>6, Commits
<1>11. ASSUME NEW w \in Windows, NEW page \in Pages, NEW late \in BOOLEAN,
              TitleChanges(w, page, late)
       PROVE  ObserverInv'
  <2> DEFINE front_ == focused[WindowOwner[w]]
  <2>1. PICK r \in AppAnswers : Commit(OnTitleChanged(Now, late, front_, shown', r))
    BY <1>11 DEF TitleChanges
  <2>2. /\ ctx.attached # None /\ ctx.attached.pid = WindowOwner[w] /\ thread = "running"
        /\ thread' = thread /\ worker' = worker /\ over' = over /\ ~over
        /\ UNCHANGED <<front, focused>>
    BY <1>11, OnlyBeforeTheEnd DEF TitleChanges, Attached
  <2>3. shown' \in [Windows -> Pages] /\ DesktopType'
    BY <1>0, <1>11, <2>2 DEF TitleChanges, DesktopType, MayBeFocused
  <2>4. front_ \in Windows
    BY <1>0, CaptureAssumption DEF DesktopType, MayBeFocused
  <2> DEFINE s == OnTitleChanged(Now, late, front_, shown', r)
  <2>5. Now.ctx = ctx /\ Fine(Now) /\ Now.settled = {}
    BY NowIsFine
  <2> HIDE DEF front_
  <2>6. Fine(s) /\ EditFollows(Now, s) /\ SameApp(Now, s)
    BY <2>2, <2>3, <2>4, <2>5, TitleTold
  <2> HIDE DEF s
  <2>7. Commit(s) /\ ctx' = s.ctx /\ ax' = s.ax /\ emitted' = s.out
    BY <2>1 DEF Commit, s
  <2>8. /\ ctx' \in Ctxs /\ ax' \in Axs /\ Recorded(ax') /\ InFront(ctx')
        /\ WithheldStaysWithheld'
    BY <2>6, <2>7, CallbackKeeps
  <2>9. SwitchesAreUndone' /\ ThreadIsJoined' /\ TheEndIsFlushed'
    BY <2>2, <2>8 DEF ObserverInv, Recorded, SwitchesAreUndone, ThreadIsJoined, TheEndIsFlushed
  <2>10. EditsAreRead' /\ owed' \subseteq Elements
    <3>1. /\ owed \subseteq Elements /\ EditsAreRead
          /\ owed' = owed \ s.settled /\ overtaken' = overtaken \ s.settled
      BY <2>7 DEF ObserverInv, Commit
    <3>2. ASSUME NEW e \in owed' \ overtaken' PROVE Waits(e)'
      <4>1. e \in Elements /\ e \notin s.settled /\ Waits(e)
        BY <3>1, <3>2 DEF EditsAreRead
      <4>2. Holds(ctx', e)
        BY <2>5, <2>6, <2>7, <4>1 DEF EditFollows, Waits, Holds
      <4> QED BY <2>2, <4>2 DEF Waits, Holds
    <3> QED BY <3>1, <3>2 DEF EditsAreRead
  <2>11. TitlesHaveWindows'
    BY <2>2, <2>4, <2>5, <2>6, <2>7 DEF TitlesHaveWindows, FrontWindow, SameApp, front_
  <2> QED BY <2>3, <2>8, <2>9, <2>10, <2>11 DEF ObserverInv
<1> QED BY <1>1, <1>2, <1>3, <1>4, <1>5, <1>6, <1>7, <1>8, <1>9, <1>10, <1>11 DEF Thread

LEMMA ObserverStep == ObserverInv /\ [ObserverNext]_observer_vars => ObserverInv'
<1> SUFFICES ASSUME ObserverInv, [ObserverNext]_observer_vars PROVE ObserverInv'
  OBVIOUS
<1>1. CASE Worker
  BY <1>1, WorkerKeeps
<1>2. CASE Thread
  BY <1>2, ThreadKeeps
<1>3. CASE FrontChanges \/ GrantChanges
  <2>1. /\ Silent /\ ctx' = ctx /\ ax' = ax /\ worker' = worker /\ thread' = thread
        /\ focused' = focused /\ shown' = shown /\ front' \in Pids
    BY <1>3 DEF FrontChanges, GrantChanges, thread_vars, ObserverInv, DesktopType
  <2>2. /\ DesktopType' /\ SwitchesAreUndone' /\ ThreadIsJoined'
        /\ (over => thread' \in {"stopped", "none"})
    BY <2>1 DEF ObserverInv, DesktopType, MayBeFocused, SwitchesAreUndone, ThreadIsJoined,
                TheEndIsFlushed
  <2> QED BY <2>1, <2>2, SilentKeeps DEF ObserverInv
<1>4. CASE UNCHANGED observer_vars
  <2>1. UNCHANGED <<worker, thread, ctx, ax, front, focused, shown, emitted, over, owed, overtaken>>
    BY <1>4 DEF observer_vars, thread_vars, desktop, told
  <2>2. DesktopType' /\ ctx' \in Ctxs /\ ax' \in Axs /\ ThreadIsJoined' /\ TheEndIsFlushed'
        /\ owed' \subseteq Elements /\ InFront(ctx')
    BY <2>1 DEF ObserverInv, InFront, DesktopType, MayBeFocused, ThreadIsJoined, TheEndIsFlushed,
                NothingPending
  <2>3. TitlesHaveWindows' /\ EditsAreRead' /\ SwitchesAreUndone'
    BY <2>1 DEF ObserverInv, TitlesHaveWindows, FrontWindow, EditsAreRead, Waits,
                SwitchesAreUndone
  <2>4. WithheldStaysWithheld'
    BY <2>1 DEF ObserverInv, WithheldStaysWithheld, MayCross
  <2> QED BY <2>2, <2>3, <2>4 DEF ObserverInv
<1> QED BY <1>1, <1>2, <1>3, <1>4 DEF ObserverNext

\* What is written is written by the thread, which is there and has not told of the end.
LEMMA OnlyTheThreadTells ==
  ASSUME ObserverInv, ObserverNext, emitted' # <<>>
  PROVE  ~over /\ worker \notin {"idle", "gone"}
<1>1. CASE Worker
  BY <1>1 DEF Worker, ObserveStart, StartIsAcked, StartTimesOut, ObserveStop, StdinEnds, Stops,
              Joined, Leaves, WorkerActivates, Silent
<1>2. CASE Thread
  <2>1. thread # "none"
    BY <1>2 DEF Thread, Setup, TickStops, TickFindsGrantGone, TickReconciles, ThreadEnds,
                ValueSettle, TitleSettle, FocusMoves, ValueChanges, WindowFocused, TitleChanges,
                Attached
  <2>2. worker \notin {"idle", "gone"}
    BY <2>1 DEF ObserverInv, ThreadIsJoined
  <2>3. SUFFICES ASSUME over PROVE FALSE
    BY <2>2
  <2>4. thread = "stopped" /\ NothingPending(ctx)
    BY <2>1, <2>3 DEF ObserverInv, TheEndIsFlushed
  <2>5. ThreadEnds
    BY <1>2, <2>4 DEF Thread, Setup, TickStops, TickFindsGrantGone, TickReconciles, ValueSettle,
                      TitleSettle, FocusMoves, ValueChanges, WindowFocused, TitleChanges, Attached,
                      NothingPending
  <2>6. PICK r \in AppAnswers : Commit(Detach(Now, FrontWindow, shown, r))
    BY <2>5 DEF ThreadEnds
  <2>7. Detach(Now, FrontWindow, shown, r).out = <<>>
    <3>1. shown \in [Windows -> Pages]
      BY DEF ObserverInv, DesktopType
    <3>2. Fine(Now) /\ Now.ctx = ctx /\ Now.out = <<>>
          /\ (Now.ctx.attached # None /\ Now.ctx.attached.title.pending # None =>
                FrontWindow \in Windows)
      BY NowIsFine
    <3>3. NothingPending(Now.ctx) => Detach(Now, FrontWindow, shown, r).out = Now.out
      BY <3>1, <3>2, Detaches
    <3>4. NothingPending(Now.ctx)
      BY <2>4, <3>2
    <3> QED BY <3>2, <3>3, <3>4
  <2> QED BY <2>6, <2>7 DEF Commit
<1>3. CASE FrontChanges \/ GrantChanges
  BY <1>3 DEF FrontChanges, GrantChanges, Silent
<1> QED BY <1>1, <1>2, <1>3 DEF ObserverNext

-----------------------------------------------------------------------------
(* The theorems.                                                           *)

LEMMA Observing == ObserverSpec => []ObserverInv
BY ObserverStart, ObserverStep, PTL DEF ObserverSpec

\* Of the edits an app told of (on_value_changed) each was read or waits in the debounce,
\* its app attached, the thread there and coverage not ended; but those the next change of
\* another element took the place of.
THEOREM EditsReachTheRail == ObserverSpec => []EditsAreRead
BY Observing, PTL DEF ObserverInv

\* What the worker or the observer turned on in an app is in the one ledger it is undone
\* from (clear_activation), and at the end nothing is on but what an app turned on without
\* saying so or would not turn off when it was asked.
THEOREM SwitchesComeOff == ObserverSpec => []SwitchesAreUndone
BY Observing, PTL DEF ObserverInv

\* No secure text, no text of a browser window not known to be public and no private page
\* is written, whatever the app answers and whichever reads it refuses.
THEOREM PrivateStaysPrivate == ObserverSpec => []WithheldStaysWithheld
BY Observing, PTL DEF ObserverInv

\* After the gap that ends coverage, and outside a session, no frame is written: what waits
\* is flushed before the gap (frontmost_tick), and the thread is joined before the answer.
THEOREM TheGapIsLast == ObserverSpec => NothingFollowsTheEnd
<1>1. ObserverInv /\ [ObserverNext]_observer_vars =>
        [emitted' # <<>> => ~over /\ worker \notin {"idle", "gone"}]_observer_vars
  BY OnlyTheThreadTells
<1> QED BY Observing, <1>1, PTL DEF ObserverSpec, NothingFollowsTheEnd
=============================================================================
