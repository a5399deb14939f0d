# compux in TLA+

compux drives a desktop for an Elixir program: an Elixir library
(`src/lib/compux/`) owns one Port to a Rust helper, the *sidecar*
(`src/native/compux/src/`), which posts pointer and keyboard input, captures
pictures and reads accessibility trees. The two speak one JSON line per message.
A person may stop it at any moment, from the library (`pause`, `release`) or from
a badge on screen, and what the program promises is mostly about that: when the
stop is acknowledged nothing more goes out, what may still go out is named,
nothing is sent twice, nothing stays pressed, and every call is answered.

This directory holds TLA+ models of that promise's machinery, TLC configurations
that check them, and TLAPS proofs about the core. Paths below are relative to the
repository, which is `src/` here.

    cd tla
    tlc -config MCGate.cfg MCGate          # any other pair of the table below
    tlapm GateProofs.tla                   # or another of the eight *Proofs modules

## 1. Inventory

State, operations and interaction of each part, what is hard about it, and what
makes it correct. "Modelled by" names the modules here; a dash means not modelled
(section 8).

| part | state | operations, and who calls them | hard | correct means | modelled by |
|---|---|---|---|---|---|
| Admission gate, `gate.rs` | authorization generation, pause flag, `mutation_seq` high-water mark, the request in flight, two atomics | `admit`, `dispatch`, `dispatch_long`, `dispatch_message`, `checkpoint`, `input_complete`, `finish` by the worker; `pause`, `resume`, `release` by the reader and the badge | one mutex, but two platform calls and two flags outside it | a barrier stops what comes after it and names what it could not stop; receipts and cancellations are true; a mutation is admitted once | Gate, GateHistory, GateProofs |
| Control reader, `control.rs` | the frame it handles; a channel of one job | reads stdin, acknowledges controls, offers requests, `busy` | asks the gate and then the channel, while the worker moves | every line is answered once; controls never wait for the worker | Sidecar |
| Action worker, `main.rs` `run_worker`, `serve`, `reply` | the job, the observation table, the bound target, the portal session | takes jobs, lets the table go after a release, admits, acts, finishes, replies, exits on a wedged capture | the release flag is raised on another thread | nothing is inherited past a release; EOF drains before it ends | Sidecar; what it does in a target, Seat; with a tree, Semantic; through the portal, Portal |
| Emitter, `capture.rs` | stdout under a mutex | one whole line per call, from three threads | order between threads is whoever comes first | lines are whole | Sidecar (`Emit`) |
| Library transport, `transport.ex`, `port.ex` | phase, request and controls in flight, ids, envelope, partial line, timers | a GenServer: calls, Port data, exit status, deadlines | late replies, late timers, exits and poison in any order | each call is answered once, by its own frame; the owner learns of the end once and last | Transport, TransportAlone |
| Both ends | the pipes | what one writes the other reads | authority is learned late and in either order | no stale sequence number, no resume over a newer pause, only silence ends a session | Session |
| Held input, `held.rs` | stack of pressed items, the clipboard to restore | `press`, `take_clipboard`, `release_all`, `guarded` | failure of one of several releases | all that was pressed is up or named | HeldInput |
| X11 input and journal, `linux/x11/input.rs`, `journal.rs` | codes down in the server; a file per helper | `press`, `release`, `record`, `forget`, `ready`, `left_behind` | SIGKILL between any two steps; several helpers; layouts change | what is down is on disk; the next start releases it | HeldInput |
| Observe rail, `capture.rs` (macOS), with the switches of `ax.rs` | one session, one attached app, one pending value and title, ledgers of gaps and attempts, the switches turned on | `observe_start`, `observe_stop`; run-loop callbacks and timers; enumerations on the worker | debounces against switches, revocation, stop; apps that answer late, wrongly or not at all | an edit is read, nothing follows the gap that ends coverage, private text is withheld, switches are undone | Capture, Observer |
| Observations, `observation.rs` | what replies handed out coordinates in: a few images with a 30 s life and their transforms | `mint`, `resolve`, `clear` | ids reused, expired, evicted | a click is computed from the image it was pointed at | Seat |
| Bound target, `target.rs` | window, pid, start time, stream, badge, the fence | `select`, `live`, `unmoved`, `unobstructed`, `control_surface` | the window moves, dies, is covered between check and use | a point is only clicked where, and on what, it was seen | Seat over Desktop |
| Window frames, `window_frames.rs` | one kept picture, a sequence, a fault | `offer`, `note`, `fault`, `peek`, `latest` | a callback thread whose samples come late; idle samples that vouch for an older picture | a picture past the fence shows the window after it | WindowStream |
| X11 window frames, `linux/x11/frames.rs` | a watch: a named pixmap, a proof that its contents are the window's, the damage reported | `open`, `prove`, `redirect`, `tick`, `catch_up`, `picture` | events of the server that arrive after the replies they precede | only what the window drew is served, as of its stamp | CompositeFrames |
| Pixel route, `linux/pixels.rs` | one decision per session | `route`, `serves` | facts that no one answered | no route on a guess | PixelRoute |
| GNOME portal, `linux/portal.rs` | a session, a restore token on disk | session, start, consent, input, screenshot, close | a session may be opened inside a dispatch; Stop, restart, kill | after a Stop it asks again; a barrier is not passed behind a dialog | Portal |
| Tree walk, `tree.rs` | a stack, a list, budgets | `walk_app`, `visit`, `pages`, `uncounted`, `cut`, `stop` | budgets, paging, silence, a tree that changes as it is read | a partial tree says it is one | AppTree, TreeWalk |
| Semantic verbs and waits, `semantic.rs`, with `main.rs` `verb_on`, `linux/acting.rs` | the references of the last listing | `plan`, `send`, `judge`, `wait`, `look` | an answer lost after the message was sent; a state that flips in between | at most one message a verb, to the control named; an answer tells what was sent; an absence is seen | Semantic; its message, in Gate |
| Reference identity, `linux/identity.rs` | none | `found_again`, `look`, `verdict` | Qt items answer for a place, dropped GTK objects answer on | a reference finds its control or none | Semantic |
| Indicator, `indicator.rs` | one badge process and its restart; the last line written | press, report, ready; the watch's `state`, `tick` | its reports race the reader's acknowledgements | a press acts before it is reported; no click without a badge; the badge is told what is so | press and report in Sidecar; ready, exit and restart in Seat; the watch in Badge |
| X11 badge process, `bin/compux-indicator-x11` | the last line taken, where it is drawn, the popup it waits for, the raises of this second | `line`, `render`, `event`, `on_top`, `back_on_top`, in one loop | it looks and raises in two exchanges; windows come over it in between | it is in sight beside its window when all is told, and over no menu | Badge |
| X11 clipboard, `clipboard.rs`, `selection.rs` | the text served, INCR transfers in flight, the read in progress, under one lock | `own`, `text`, `drop` by the worker; `serve` on a thread of its own | one connection, two threads, and applications that answer when they like | an asker gets one text whole; a read brings back the text of the owner asked | Clipboard; as the text it holds, HeldInput |
| Accessibility readers, badge drawing, download, fixtures | platform services, drawing, build time | | | | the readers' answers, in AppTree; the rest - |

The hazards, each at its line with the properties that watch it, are in
`PROJECT.json`.

## 2. Modules

    Wire ── Requests ── LibraryProofs
      ├── Gate ── GateHistory ── MCGate, GateProofs
      │       │          └── (implements) Stop
      │       └──── Sidecar ────── SidecarPipe ── MCSidecarPipe, GateProofs
      │               └─────────── Session ────── MCSession, SessionProofs (INSTANCE LibraryProofs)
      └── Transport ── (INSTANCE) ─────┘
              └─────── TransportAlone ── MCTransport, LibraryProofs
    WindowList ── X11Windows ──┐
                    Geometry ──┼─ MCRules (in MCTransport)
                    Requests ──┘
    Clipboard ── MCClipboard
    HeldInput, Clipboard ── X11Proofs
    Capture ── Observer ── MCObserver, ObserverProofs
    Desktop ── WindowStream ── Seat ── SeatProofs
    HeldInput, Seat ── MCInput
    Portal ──────────┐
    CompositeFrames ─┼─ PixelRoute ── MCPixels, PixelProofs
    Badge ───────────┘
    AppTree ── TreeWalk ── Semantic ── MCSemantic, SemanticProofs

**Wire** is the vocabulary of `wire.rs`: the action lists and the four questions
asked of an action (input? message? long? carries a sequence number?).

**Requests** is the grammar of a request, which is written twice and by hand:
`validate` of `protocol.ex` refuses a caller's params or builds the request it sends
(`LibraryAccepts`, `Sent`); `checked_request` of `wire.rs` and `parse_until` of
`semantic.rs` refuse the line or take it (`HelperParses`), and each action then reads
its arguments (`HelperReads`). It has no state: a params is a value per field, and a
value is what the two sides tell apart of it (absent, null, a flag, a number in bounds,
out of them or no integer, a string that is empty, known, other or too long, an object
of the right shape or not). Its two statements, `WhatIsSentIsTaken` and `AimIsKept`,
are theorems (section 5).

**Gate** is `gate.rs`. The variables are the fields of `State` and the two
atomics; `call` is where the worker stands between two gate operations. Each
action is one critical section. The two platform calls made outside the mutex are
split: `dispatch_long` into `BeginLong` and `EndLong`, `dispatch_message` into
`CheckMessage`, `MessageGoesOut` or `MessageRefused`, and `EndMessage`, so that a
control may fall between any two. `Refused` is a check or a checkpoint that says
no. **GateHistory** closes it with the worker's program order and any controls,
and records what was admitted, acknowledged, landed on the machine and receipted;
the record never steers.

**Stop** is the promise in the abstract, with no gate, thread or flag: requests act one
at a time, a stop answers with the one that was acting, after it that request starts
nothing more, only a call already under way may land, and the one report of a request
owns up to what landed. GateHistory implements it (`Promise`): `acting` is the request in
flight, `under_way` a `call` that was let through and has not returned, `stopped` the
cancelled flag, `held` the pause, `named` what the barriers answered, `touched` the
requests of what landed. Where `gate.rs` has the check and the platform call apart, the
check is the abstract step and `MessageGoesOut` is none.

**Sidecar** puts the three threads around the gate. Program counters `reader` and
`worker` name the steps of `control.rs` (`reading`, `offering`, `sending`,
`emitting`) and of `run_worker` (`receiving`, `received`, `admitting`, `handling`,
`reporting`). The gate's mutex is not held across a write, so a control's effect
and its acknowledgement are two steps; so are a badge press and its report. `seat`
is what the worker holds for a caller (a target, observations) with the
generation each was made under. **SidecarPipe** adds a parent that writes without
waiting.

**Transport** is `transport.ex`, one action per message the GenServer handles.
`mail` is what it sent to callers and to its owner; `timers` are the deadlines
armed, a cancelled one of which may already be in the mailbox (`EndTimers`).
**TransportAlone** puts anything at the far end: every frame, fragment and exit.

**Session** instantiates Transport against Sidecar: `outbox <- stdin`, and the
transport reads `stdout`. A Port closed under a running sidecar kills it, and a
sidecar that ended closes the Port once its output was read.

**HeldInput** is `held.rs` over `linux/x11/input.rs` and `journal.rs`. A helper is
a record (what it does, its pid, the press stack `down`, its journal in memory,
what it found of the dead at its start); `files` is the directory, `server` the
codes down in the X server. Every file operation and every round trip is a step, a
helper may be killed between any two, and any of them may fail.

**Clipboard** is `clipboard.rs` with `selection.rs`. `worker.at` is where `text` and
`own` stand, `thread.at` where a handler of `serve` stands between its lock and its
requests; `owned`, `transfers` and `reading` are the fields of `Shared`. The X server
is `owner`, the property of each window (`landing`, `place`) and `events`, what it has
to tell compux, in order. A text is the sequence of its parts, one per property. The
other applications copy, ask, answer whole or in parts, refuse, give up, at any moment.

**Capture** is what one callback of the observer thread does, an operator per
handler of `capture.rs` on a record of what it finds: `ctx` (the fields of `Ctx`
and `Attached`), `ax` (the switches and their ledger in `ax.rs`), `out` (the frames
emitted). `r` is what the app answers during that callback; any attribute may be
refused or time out. **Observer** puts those operators where the code has them: the
worker starting, stopping and leaving, the thread from set-up to its end, its
timers and notifications, the grant, the front window, and the enumerations that
turn switches on from the worker. A callback is one step because everything in it
runs on one run loop, and the change an app notifies is in the same step.

**Seat** is the worker in one bound window. **Desktop** is what it has no say in: the
clock, the windows with their places and sizes, what each shows (`scenes` keeps what
was shown from which instant), what is in front, processes that end and give their
number away. **WindowStream** is `window_frames.rs`: `slot` is the `Slot`, `inbox` the
samples ScreenCaptureKit has queued, and the delegate's callback is a step of its own,
so a sample may be delivered long after it was drawn. `Admits` is the fence: what a
check after a click may use. The table of observations is Seat's own. In Seat a request is one
record `work`; a click asks five things in five steps (whose process it is, what a listing
says of the window, whether the badge is up, what a listing has over the window, what no
listing names), and between any two, and before the post, the person may raise, move or
close the window, or open something over it.

**Portal** is `linux/portal.rs`: `session` is `Portal.session`, `at` is where
`session` and `start` stand, `disk` the restore token, `mutex` whether the call in
hand is a gated one, which holds the gate's mutex from its check through any dialog
to its post. **CompositeFrames** is the X11 watch of `frames.rs`: `watch` is the thread,
each step one exchange with the server; `events` those it has not read.
**Badge** is the badge of a bound X11 window, from the watch of `indicator.rs` that
writes it a line when something a person can see has changed to the process that draws
it. `stack`, `viewable`, `lies` and `taking` are the server's windows; `lines` is the
badge's input and `notices` the events the server has sent it; `step` is where its loop
stands, `look` and `raise` the two exchanges of `on_top`, `render` and `back_on_top`. A
window lies at one of a few spots, and meets the badge where it lies at the same.
**PixelRoute** is `pixels.rs`: it decides the route and lets the portal, or X11, or
nothing, go on. Under X11 the frames' watch and the badge are two clients of the server
that share nothing: a behaviour follows one of them.

**AppTree** is an application: lists that change, and the ways a message is answered
(`Answers`: `ok`, `gone`, `late`, `refused`, and `mute`, a node whose facts come and
states do not). A Qt item of the table is its place, a GTK object itself
(`Designated`). **TreeWalk** is `tree.rs`; `walk` is the `Walker`, with its recursion as
a stack of frames, one per parent being read. **Semantic** is what the worker does with
it: `job.at` is the message it is about to send.

**WindowList**, **X11Windows** and **Geometry** have no state. WindowList is what
`window_server.rs` and `target.rs` read out of one listing, front to back: what covers a
point, which windows are of the bound one's family, which accessibility window it is.
X11Windows makes that listing out of a server's answers (`windows.rs`), and finds what no
listing names above a click (`above.rs`); a server is a record, and a window destroyed
under the reading answers the first few of its requests. Geometry is `geometry.rs` and
what `main.rs` makes of it: budgets, measurements, crops, the map between a sent pixel and
a point, the view of a check, the regions of listed windows, over exact fractions where
the code has floating point.

Definitions named `X_Something` next to an `X` are slips: the same step with a
plausible bug. No specification uses them; each shows that a property is able to
fail (`PROJECT.json`, `mutants`).

## 3. What each run checks

| run | module, cfg | checks |
|---|---|---|
| gate | MCGate, MCGate.cfg | `NothingPassesABarrier`, `LateInputIsNamed`, `ReceiptsAdmitWhatLanded`, `CancelledIsTruthful`, `MutationsAtMostOnce`; and that it implements Stop: `KeepsThePromise` |
| sidecar | MCSidecarPipe, MCSidecarPipe.cfg | `NothingInheritedPastARelease`; live: `ControlsAreAnswered`, `EveryLineIsAnswered` |
| transport | MCTransport, MCTransport.cfg | `EachCallIsAnsweredOnce`, `TheNewsComesLast`; live: `EveryCallIsAnswered`; and the statements of MCRules, below |
| session | MCSession, MCSession.cfg | `OnlySilencePoisons`, `SequencesAreNeverStale`, `ResumeLiftsNoNewerPause`; live: `CallsAreAnswered`, with no deadline firing |
| input | MCInput, MCInput.cfg | of the keys `HeldIsWrittenDown`, `AStartReleasesTheDead`, `SilenceMeansUpOnOneLayout`, `PasteIsUndone`; of the window `PictureIsOfItsTime`, `ClicksLandWhereTheyWereAimed`, `EvidenceFollowsTheInput` |
| clipboard | MCClipboard, MCClipboard.cfg | `AnswersAreWhole`, `ReadsAreWhole` |
| observer | MCObserver, MCObserver.cfg | `EditsAreRead`, `NothingFollowsTheEnd`, `SwitchesAreUndone`, `WithheldStaysWithheld` |
| pixels | MCPixels, MCPixels.cfg | `AStopThatWasReadAsksAgain`, `NoInputPastABarrier`, `FramesAreOfTheirStamp`, `NothingServedFromBeforeAChange`, `TheBadgeIsSeen`; a step: `MenusStayOver` |
| semantic | MCSemantic, MCSemantic.cfg | `WalksMissNothingUntold`, `AbsencesAreProven`, `MessagesLandOnTheListed`, `WritesEndAsAsked`, `NotSentMeansUntouched` |
| transport_news | MCTransport, MCTransportNews.cfg | `TheOwnerIsTold`, which the code does not meet: section 6 |
| session_authority | MCSession, MCSessionAuthority.cfg | `TheLibraryCatchesUp`, which the code does not meet: section 6 |
| semantic_absent | MCSemantic, MCSemanticAbsent.cfg | `LooksSeeTheWhole`, which the code does not meet: section 6 |

Those whose row says so do not hold; all others do.

MCInput holds two components that share no state, the bound window and the keys held down;
a behaviour follows one of them, from every state it may begin in.

TLC evaluates, before the run named transport, statements about operators without state, each
over every input of a small set (MCRules). Of windows: a click that may go reaches its window and
one that may not names what would have had it, told against the server's own rule
(`AClickReachesItsWindow`); a destroyed window covers nothing; each window is listed once
at its front-most place; a client lies inside its frame and off the root is not placed;
transient-for links lead to their owner, loops apart; what covers is in front; of two
windows at one place neither is bound or tied. Of images: the whole display is sent,
within a budget; a point of an image comes back to its own pixel, from its middle, within
half a point (`PointsComeBack`, on the first row and the last); a view mapped again and again stays (`ViewsDoNotWalk`);
a capture is measured only when both axes and the host can explain it, and a measurement
serves the facts it was made under alone; a window is listed for the part of it an image
shows; the application a view is read from is the frontmost that covers a tenth of it. Of
requests: the two statements of Requests near every action's plain call, with one field
of any value, with two of those that say what it is aimed at, and with every until of two
fields.

### Bounds, and why they are enough

* **gate**: two admissions (a predecessor and a successor: what leaks between
  requests needs two), five actions (an event, a long call, a message, a read and
  an ungated one, the five ways through the gate), generation up to 4, so three
  controls, enough for pause, resume, pause around one call; sequence numbers 1
  and 2 in any order and repeated. The proofs remove these bounds.
* **sidecar**: three lines, one more than the worker and the channel hold, so the
  third meets every kind of busy; a badge press; stdin closed at any moment.
* **transport**: two calls and one pending control as the cap, so a second is one
  too many; three chunks; a frame per id never minted, foreign, outstanding and
  finished, another boot's envelope, a malformed line; a cap of two bytes in
  chunks of one and two.
* **session**: three calls, one of them a target to bind so that its badge is up, a
  press of the badge and a wedged capture. Two calls are the least in which a late reply
  meets a later request; the third is a control between. The pause a press installs while
  a resume of a client is under way is the resume the action property is about. What a
  call waits for is its own request, the one before it, a control or the exit: three calls
  hold each of them.
* **input**, the keys: two helpers alike, two pids, two keys, one of which a layout change
  takes away, one failing operation, one person copying. Two helpers are what a
  start needs to meet a living and a dead journal.
  The window: one, two places and two sizes, alike, another window a listing names
  and a popup none does, so that each of the two looks for a cover has its own; two ticks
  of the clock, two scenes and a whim of the person; three requests: a
  binding, an image and a click are the least that can go wrong, and the table holds
  two. A queue of one sample and a silence of one tick let a sample be overtaken.
* **MCRules**: a server of three top-level windows in every order (one a frame with its
  client, one a popup no manager lists), on a row of four points; families of four with
  every set of links; listings of three. Displays of 3 to 10 points, left and right of the
  main one, at scales 1, 3/2 and 2, within the budgets (an edge of 8, an area of 32) and
  past them; crops inside, at the edge and off the display. What rounds, clamps or is
  swapped shows at these sizes; `Grid` is the precision of a root, 1/16.
* **observer**: a pinned browser with a public and a private window, and a stranger
  that is not recorded; a field in each window, one of them private, and a password;
  two pages, alike but for their titles; two attach attempts, one probe, one window
  remembered of a browser, so each limit is met and passed; three changes of the
  desktop, starts of a session included: start, edit, leave; the proofs remove the bound. An app answers
  everything, nothing, or all but two things nothing relates (`AppAnswers`).
* **clipboard**: two applications alike; what a person copies has two parts or is too
  large, what is pasted one or two; two askings, or a second paste in their place; one
  copy; one transfer at a time, so a second asker drops the first. Two pastes are what
  it takes for an answer to meet a later read, two askings for transfers to meet.
* **pixels**: three requests over four sessions with three troubles (a Stop, a kill,
  a failed write, a restart, a failed step): a Stop, the helper that reads it and the
  one after it. A window of two pieces and two sizes, three drawings, two changes,
  three looks, one retry: a change between any two exchanges of one proof, and one
  more under its retry. Pieces and sizes are alike. A badge with its window, one other
  window and one popup, at two spots or away; three changes of the desktop or the pause:
  a popup opens over the badge, its window comes over it too, the popup closes. One raise
  a second and two windows read above it, so that either is too few.
* **semantic**: six nodes: a table of two items, so that one page is not the list and
  two may change places; a field; a parent that says no place (`x`), so that a subtree
  hangs below a node nothing lists; an item with a child too deep. Every budget is met
  (three nodes, five visits, depth two, two children a list, pages of one). One change
  and two troubles, two looks, two tries, one poll; a listing or a wait and then a
  verb. One change is what it takes to shift a page, take a control away, sort a Qt
  table or flip a state. With two changes and one trouble the run passes as well (6.8 million
  states); its cfg keeps to the bounds that end in a minute.

Bounds in guards: `MaxAdmissions`, `MaxGeneration`, `PressLimit`, `MaxLines`, `MaxCalls`,
`MaxChunks`, `MaxStarts`, `MaxTrouble`, `MaxChanges`, `MaxNews`, `MaxNow`, `MaxScenes`,
`MaxWhims`, `MaxMoves`, `MaxUses`, `MaxCopies`, `MaxRequests`, `MaxTroubles`, `MaxPaints`, `MaxLooks`, `MaxJobs`. Constants
of the code with small values: `MaxPendingControls`, `MaxResponseBytes`, `MaxHeld`,
`MaxJournals`, `MaxParts`, `MaxTransfers`, `AttachAttempts`, `ProbeAttempts`, `BrowserWindowsMax`, `MaxObservations`,
`TTL`, `MaxRaises`, `MaxAbove`, `SilenceLimit`, `QueueDepth`, `Retries`, `MaxNodes`, `MaxVisited`, `MaxDepth`,
`MaxChildren`, `MaxTransientHops`, `AxMatchTolerance`, `MaxClients`, `MaxTopLevels`,
`MaxFrameDepth`, `MaxExtent`, `CoordinateLimit`, `MaxEdge`, `MaxArea`, `MaxPortalScale`, `ChildPage`, `SkeletonDepth`, `Looks`, `Tries`, `Polls`.
`CHECK_DEADLOCK FALSE` where a bounded behaviour ends when its calls are spent, or the
process itself ends on EOF; semantic is checked for deadlock, its worker waiting for a
request at the end.

## 4. Fairness

* **Control reader** (`ListeningSpec`): weak fairness of its steps. It is a thread
  of its own, blocks on stdin and, for a moment, on one mutex that no platform call
  of the modelled backends holds for long. Nothing is assumed of the worker for
  `ControlsAreAnswered`: a platform call may never return.
* **Action worker** (`WorkerFairness`): the same, plus that platform calls return.
  It appears as the premise of `EveryLineIsAnswered` and not in the specification,
  because nothing bounds a call into the platform. `Act`, starting more input, is
  not made fair: a sequence may go on or end.
* **Transport** (`Delivers`): the BEAM delivers armed timers and exit statuses, and
  the GenServer handles them. Nothing is assumed of the sidecar, which is what makes
  `EveryCallIsAnswered` a statement about deadlines.
* **Session** (`SessionFairness`): threads run, platform calls return, the VM
  delivers. Deadlines are *not* fair there: `CallsAreAnswered` says they are not
  needed. No client calls and no person presses because of fairness.

The other specifications state no fairness. HeldInput's steps are those of one
sequential thread that a kill may end anywhere. In Seat, the portal, the watch and the
semantic verbs, every wait of the code ends by a clock of its own (the deadline of a
fence, of a dialog, the number of looks and tries), which the models write as a step
that is always possible; beyond that, what would have to be fair is the person, the
window server, the portal or the application, and nothing in the code makes them so.
Observer has none yet: that `observe_stop` joins needs the run loop's timers to fire and
every accessibility call to end in its two seconds.

## 5. Proofs

**The gate.** `GateProofs.tla` proves, for every set of requests, any number of
admissions and any number of controls:

| theorem | statement |
|---|---|
| `TypeCorrect` | `Spec => []TypeOK` |
| `BarriersHold` | `Spec => []NothingPassesABarrier` |
| `LateInputNamed` | `Spec => []LateInputIsNamed` |
| `ReceiptsTruthful` | `Spec => []ReceiptsAdmitWhatLanded` |
| `CancellationTruthful` | `Spec => []CancelledIsTruthful` |
| `PauseCancels` | `Spec => []PauseCancelsWhatActs` |
| `MutationsOnce` | `Spec => []MutationsAtMostOnce`, if no read-only line carries a sequence number |
| `PromiseIsKept` | `Spec => KeepsThePromise`: GateHistory implements Stop |

The safety properties speak of the record: what landed, what was receipted. They
are not inductive, because nothing in them ties the record to the gate's state now.
`IndInv` does, part by part: `FlightIsNewest` (the request in flight is the newest
admission), `CancelledCountsBarriers` (the cancelled flag is up exactly when a
barrier came since, and each such barrier named this request), `CallsAreChecked` (a
call under way outside the mutex was checked before any barrier, and one that posts
as it runs was marked when it began), `LandedWell` (what landed, landed so),
`LandedIsMarked` (and is marked, or about to be), `ReceiptsAreOver` (a receipt is of
an earlier request). With them each step is a short argument: a barrier raises the
flag, so `Open` fails until the next admission lowers it, and that admission starts
a new flight. `HighWater` is apart, because it needs `LibraryRequests`: gate.rs
compares only the numbers of actions that must carry one, but stores any number it
is given, so a read-only line with a number moves the mark back (`gate.rs:372`).
The library never writes such a line.

The refinement has a lemma per kind of step, each from `IndInv`: `AdmitIsBegin`,
`EventIsPost`, `CheckIsStart`, `LandingIsCallLands`, `EndingIsCallReturns`,
`FinishIsReport`, `ControlIsStop`, and `QuietIsStutter` for what Stop has no word for.
The invariant is what makes them true: that what lands is of the newest admission
(`FlightIsNewest`), was checked while nothing was stopped (`CallsAreChecked`), and is
marked before the receipt is written (`LandedIsMarked`).

**The two threads.** `GateProofs.tla`, for any parent, lines, releases and presses:

| theorem | statement |
|---|---|
| `NothingOutlivesARelease` | `PipeSpec => []NothingInheritedPastARelease` |
| `LinesAreAnsweredOnce` | `PipeSpec => []EveryLineHasOneAnswer` (stated in GateProofs) |

A release is applied by the reader and acted on by the worker, so what it leaves behind
depends on the order of the two threads. `ReleaseInv` follows the authority along every
queue: each report carries a generation the gate has had (`FramesTell`), so each line a
parent writes does (`LinesQuote`; that its newest is the greatest of those it has read
takes the well-foundedness of the numbers). Hence a release, which raises the generation,
is newer than every line there is: a job it meets after the worker took the last release
is of before it (`JobMeetsRelease`), and unless a release waits to be taken, all that is
held was minted after the last (`HeldIsOfNow`).

That a line is answered is a matter of fairness, and TLC's (`EveryLineIsAnswered`). That it
is answered once, that nothing is answered that was not written, and that a process which
returned from `main` had answered everything it was given, is proved. `AnswersInv` says
where the lines are: those not yet read lie in stdin in the order of their numbers, the
reader has one in hand (`LinesInOrder`), and each it let go of is in the channel, in the
worker's hands or on stdout, in exactly one of them and there once (`PlacesAreOne`); the
reader ends at the end of stdin and the worker after it, with the channel empty
(`TheEndIsOfAll`). The case that matters is the busy reply: the reader asks the gate, then
the channel, and between the two the worker may take a job; whichever it finds, one of
reader and worker answers the line and never both.

**The transport.** `LibraryProofs.tla`, for any clients and calls, any frames, fragments
and order of what the far end sends, any cap, and the handshake, deadlines, drops and exits
in any order:

| theorem | statement |
|---|---|
| `EachAnsweredOnce` | `AloneSpec => []EachCallIsAnsweredOnce` |
| `OwnerHearsLast` | `AloneSpec => []TheNewsComesLast` |

That a call has one reply in `mail`, or waits and has none, is preserved only if whoever is
answered was waiting. `TransportInv` ties the two together: `PendingAreCalls` (what is in
flight is a call, under the id it was written with, and no two of them share an id),
`TheHandshake` (the hello in flight, the phase and start_link's wait are one fact) and
`NewsIsOfTheEnd` (the owner was told only if the transport is closed). A step is then shown
to be one of a few kinds: it answers nobody (`QuietSteps`, `WaitingSteps`), it answers on
the spot a call it makes (`AnswerSteps`), it answers one of those waiting
(`CompletingSteps`), or it ends everything (`EndSteps`), in which case `fail_outstanding`
has told each of those waiting once (`OutstandingAnswers`) and the news comes behind them.

**The session.** `SessionProofs.tla`, for any clients, controls and presses, deadlines,
drops and exits in any order, any room for controls:

| theorem | statement |
|---|---|
| `OnlySilenceEndsIt` | `SessionSpec => []OnlySilencePoisons` |
| `NumbersAreFresh` | `SessionSpec => []SequencesAreNeverStale` |
| `ResumesAreAimed` | `SessionSpec => ResumeLiftsNoNewerPause`, a statement about steps |
| `SessionsAnswerOnce` | `RecordedSpec => [](Alone!EachCallIsAnsweredOnce /\ Alone!TheNewsComesLast)` |

Each is about two ends that never see each other's state, so `SessionInv` says what is in
the pipes between them. `FramesAreGenuine`: each frame the helper has written, or holds to
write, names this boot and an id the transport minted, so no branch of `absorb` that
poisons is reachable (`LineHolds`), and what is left to end the session is silence or an
exit. `NumbersRise` and `AllAreNew`: the numbers rise along the whole way of a request,
stdin, the reader's hand, the queue of one and the worker's, and each is above the gate's
high-water mark, because nothing overtakes and a number minted is above all of them; a
request that was dropped, answered busy or cancelled only leaves a gap. `Authorities` and
the last clause of `LinesAreOurs`: the transport is never ahead of the gate, so a resume
quotes at most the generation the gate had when the line was written, and the gate takes
it only if that is its generation still; a pause installed since would have raised it.

The last composes the two proofs of the transport. `RecordedSpec` is the session with the
two histories TransportAlone keeps (`asked`, `open_at`); `Alone` is LibraryProofs with the
session's variables for its own. The session does not begin where TransportAlone does, but
in a state it allows, after the handshake (`RecordedStarts`: `Alone!TransportInv` holds of
it); the operators both take from Transport are the same step under either name
(`RequestsAgree` to `LinesAgree`); a line of this sidecar is genuine, so the owner is told
nothing but a badge's event (`SessionLines`); and what the sidecar does by itself the
transport does not see (`TheTransportRests`). The lemmas of LibraryProofs are cited as they
stand, under their own assumption (`AloneAssumption`), and nothing is proved twice. It is
the invariant that is carried over and not the whole of AloneSpec: that begins with the
handshake and bounds the chunks it reads, a session does neither.

**The portal.** `PixelProofs.tla`, for any requests, sessions, troubles and restarts:

| theorem | statement |
|---|---|
| `StopsAreKept` | `PortalSpec => []AStopThatWasReadAsksAgain` |
| `DialogsPassNoBarrier` | `PortalSpec => []NoInputPastABarrier` |

The first says what a session started from. That alone is not inductive: a start may be
half way. `StopInv` adds that after a Stop that was read nothing holds a token: no open
session, nothing on disk, and a start that began before has not got past the person
(`NothingBringsItBack`). `BarrierInv` adds that a gated call under way holds the mutex,
and that no barrier was applied since it was checked (`CallsHoldTheMutex`), which is why
a dialog, however long, cannot be followed by input a pause should have stopped.

**The frames of an X11 window.** `PixelProofs.tla`, for any pieces and sizes, and any drawing,
resizing, mapping and destruction between any two exchanges of the watch:

| theorem | statement |
|---|---|
| `FramesShowWhatWasDrawn` | `FramesSpec => []FramesAreOfTheirStamp` |
| `FramesAreNoOlderThanTheRequest` | `FramesSpec => []NothingServedFromBeforeAChange` |

What the watch knows may already be wrong, but then an event it has not read says so, and
that is what `FramesInv` states, clause by clause: the pixmap named is the one the
window is drawn into, unless an unread event voids it (`TheNameIsTheWindows`); what a report
says was drawn was, unless a voiding event stands before it (`ReportsAreOfDrawing`), so what a
proof covers was drawn by the window (`ProofsHold`); what is held is what the pixmap
holds, until drawing is reported (`HeldIsCurrent`); a destroyed window leaves an event or a
watch that ended (`TheEndIsReported`). That is why "nothing changed" may move the stamp
on (`HeldIsOfItsStamp`). The property is of the frames a request is served: the first
picture a watch takes is stamped too (`first`, `frames.rs` 694), and where the window got
another pixmap before that, the watch holds a frame it must not serve. `ServerKeeps` shows once that the server's steps preserve all of
it: they draw, and append the event. The second theorem adds what a request knows
(`RequestInv`): one told the watch is up, after it caught up, began no later than the pixmap
named.

**The badge.** `PixelProofs.tla`, for any windows, menus, spots, raises a second, and changes of
the desktop between any two exchanges of the badge with the server:

| theorem | statement |
|---|---|
| `TheBadgeIsSeenAlways` | `BadgeSpec => []TheBadgeIsSeen` |
| `MenusStayOverIt` | `BadgeSpec => MenusStayOver`, an action property |

What the badge last read of the server may be stale; `BadgeInv` says what then is still on
its way. Of the watch: what its last look found is so until something changes
(`LookIsTrue`), the line it wrote last is the last the badge took or is yet to take
(`LastIsNewest`), and the badge stands where the line it took says (`FrameIsTold`). Of the stack:
a managed window over the badge, unless a popup is waited for or a raise was `missed`, has
an event in the badge's queue that will make it go over that window, or the look and raise
under way are over it or to the top (`CoversAreAnnounced`). Each step is why one clause of
the code is there: an event about another window does not matter to this one; a look that
finds a popup is followed by another (`held_by`), so forgets nothing; a raise just over one window
leaves the others where their own events stand. Between a look and its raise only a popup
that came up since is over the badge (`PopupsCameUp`), which with what a raise does to
the stack (`RaisedIs`) is the second theorem. Under both lie two lemmas about a sequence
something is taken out of and put into (`TakenOut`, `PutIn`): the others stand over one
another as they did. The proof found what `EndsHoldFor` excepts, of section 6: with more
moves of the desktop than the run has, the property without it is false.

**The pixel route.** `PixelProofs.tla`, for any facts the route is decided from:

| theorem | statement |
|---|---|
| `TheRouteKeepsThem` | `PixelSpec` has all six properties of the run pixels |

`PixelSpec` implements `PortalSpec`, `FramesSpec` and `BadgeSpec` (`PartsAreFollowed`): a step
of the route is a step of one of its parts, and the others stutter. So what the run checks
of the three together is what was proved of each.

**The target.** `SeatProofs.tla`, for any windows, sizes, requests,
changes of the desktop, mishaps of the stream and length of its queue:

| theorem | statement |
|---|---|
| `ClicksAreAimed` | `SeatSpec => []ClicksLandWhereTheyWereAimed`, if windows' numbers change hands only as processes end |
| `PicturesAreOfTheirTime` | `SeatSpec => []PictureIsOfItsTime`, if `None` is none of the things that may be there |
| `EvidenceIsOfLater` | `SeatSpec => []EvidenceFollowsTheInput`, under the same condition |

`AimInv` carries what the worker learned down the path of a click: the target is one
window since it was bound, the request belongs to that target from its first question on,
its window was where its image said when it was listed, and what each look for a cover had
in front was nothing of the kind that look could see. `landed` compares the post with each
of these looks by itself, so a cover that came before the look for it is not excused by
having come after another. Its hypothesis
(`NumbersEndWithTheirProcess`) is a real limit: `live` compares the start time of the
process it knew, not the pid the listing names (`target.rs`), so a number that passed to
another window of a living process would go unnoticed.

`FrameInv` follows a picture from the window to the answer. `ScenesInOrder`: what was
shown is a history by instants. `SamplesAreTrue`: a live sample on its way is true of
the instant it carries, and an idle one goes on from the sample before it, or from what
the delegate holds if none is before it. `SlotIsTrue`: so the frame held is true of its
instant too, as long as no live sample was dropped (`lost`). The last clause is the hard
one: an idle sample moves the instant of an older picture, and the picture is still what
was shown then only because nothing live can be between the two. `WorkShape` and
`EvidenceIsLater` carry it past the fence: the instant is after the post.

**Held input.** `X11Proofs.tla`, for any helpers, keys, layouts, sequences and failures,
and a kill between any two steps, the first three if no process number is handed out
twice (`~PidsComeBack`):

| theorem | statement |
|---|---|
| `NothingHeldIsForgotten` | `HeldSpec => []HeldIsWrittenDown` |
| `StartsReleaseTheDead` | `HeldSpec => []AStartReleasesTheDead` |
| `AnsweredMeansUp` | `HeldSpec => []SilenceMeansUpOnOneLayout` |
| `ThePersonsTextComesBack` | `HeldSpec => []PasteIsUndone` |

A journal may list a code and be about to lose it, so being on disk is not inductive.
`Attested` says that each code that is down has a journal that lists it *and that nobody
means to drop*: `Vouches` looks at every helper, at what the owner of the journal will
still keep once it has forgotten the entry in hand (`Kept`), and at what a start that
read it has yet to lift. `SafeStep` is what the thirteen steps of a sequence have in
common; that it keeps `HeldInv` is shown once (`SafeStepsKeep`), and each step is shown to
be one. The two that need `forget` itself rest on what it does to a list: it drops one
entry, the newest (`ForgetsOne`), so what was written for a press that was refused
leaves the journal as it was (`ForgetsTheLast`). `FoundAreDead` is where the hypothesis
enters: the journals a start reads stay those of dead processes while it lifts them.
`FoundAreCleared` and `PressesEnd` are the strengthenings for the other two: without
failure what was found is still to be lifted or gone, and what a sequence pressed is on
its stack, is named, or is not this helper's to lift. The hypothesis is the limit of
section 6 about a dead one's pid.

**The clipboard.** The same module, for any applications, any texts of any number of
parts, any bounds and any order of the two threads and the applications:

| theorem | statement |
|---|---|
| `AnswersAreWholeAlways` | `ClipboardSpec => []AnswersAreWhole` |
| `ReadsAreWholeAlways` | `ClipboardSpec => []ReadsAreWhole` |

An asker learns of an answer, of a part and of the end through a property, and compux
learns that it took them through events that wait in one queue; whoever asks again may
leave events of its last request in it. `AnswerInv` says why these never mix. The
requests of an application wait in the order of their numbers, each once
(`AskedInOrder`); a deletion that waits was of an earlier answer, and is met before the
request the application now waits for (`AskedIsClean`), so it is told of a text, or of
the start of a transfer nothing was sent of (`ToldIsStart`); from there it has one
deletion on its way or a part in its place, and never both (`TakingIsPart`), so what it
has is what the transfer sent, whichever text compux serves by then. A transfer dropped
for room leaves its asker with no part to come, and so with no answer.

A read is the other way round, and nothing in it names the read it answers: the whole
argument is that there is one at a time. `ReadInv` says that while no read has brought
nothing back, whatever was asked of an owner is over by the time the worker goes on
(`Quiet`); and of a read that waits it says where it is (`ComesTo`), in ten stages from
asked to read to its end. Each stage fixes what landed, what was said of it, which of the
two is still in the queue, where the thread is and how much it has: `Coming` is the part
that is to come next, sent or landed. That a step moves a read to the next stage is one
lemma per action, over four lemmas on what a queue keeps of the two kinds of event a read
looks at (`TidingsKept` and those after it). The exception `unread = {}` is where `Quiet`
fails: an owner that was given up goes on sending (section 6).

**The observe rail.** `ObserverProofs.tla`, for any apps, browsers, windows, fields and
pages, any answers of an app and any attributes it refuses:

| theorem | statement |
|---|---|
| `EditsReachTheRail` | `ObserverSpec => []EditsAreRead` |
| `SwitchesComeOff` | `ObserverSpec => []SwitchesAreUndone` |
| `PrivateStaysPrivate` | `ObserverSpec => []WithheldStaysWithheld` |
| `TheGapIsLast` | `ObserverSpec => NothingFollowsTheEnd`, a statement about steps |

A callback hands one state along a chain of operators, and the chain differs with what the
app answers, so the argument is made an operator at a time. `Follows(s, t)` says what any
chain must leave: the edit in the debounce is there still, its app attached, or was read; a title that waits
is one that waited in the same app, the switches that are on are in the ledger, and each
frame added may be written (`MayCross`). It is transitive (`FollowsOn`), each operator of
Capture has a lemma that it keeps it, and a step of the thread is a `Commit` of a chain. The
lemmas of `EmitFieldValue`, `EmitBrowserFieldValue` and `MaybeEmitNavigation` are where
privacy is decided: whichever of the reads is refused, text is emitted only where
`PrivateState` has answered "not_private". `ObserverInv` adds `ThreadIsJoined` (no session,
no thread), `TheEndIsFlushed` (after the gap that ends coverage nothing waits, so a late
timer finds nothing) and `TitlesHaveWindows`. That an edit waits only where its app is
attached (`Waits`) is what makes the theorem one about leaving: a detach, a lost grant or an
end of the thread that did not read it first would leave it neither waiting nor read.

**The verbs.** `SemanticProofs.tla`, for every application (any finite set of nodes, any
trees of them, any changes and any answers), every role, every listing and any number of
requests:

| theorem | statement |
|---|---|
| `MessagesReachTheListed` | `SemanticSpec => []MessagesLandOnTheListed` |
| `WritesAreAsAsked` | `SemanticSpec => []WritesEndAsAsked` |
| `UnsentChangesNothing` | `SemanticSpec => []NotSentMeansUntouched` |

A verb asks in one message and acts in another, and between two the application may do
anything. So the invariant is a conditional: `FoundInv` says what the look found (at each of
its steps, what is known of the object by then), and holds as long as no list has changed
since the look began; a list that changes makes it vacuous and the property too. Where an
object is listed is asked of its own parent alone (`ListedElsewhere`, `identity.rs` 187-206),
so the theorem says that some parent lists it (`Kept`) and not that it is shown. `AskedInv`
holds whatever happens: a handle that is not for a place is for the node it was read of
(`Honest`, which every entry of a listing has, so the walk's operators each have a lemma),
and what may be at which step. That a child found in place is shown, and that a path leads
only to what is, needs that `Below` is closed (`BelowIsClosed`: levels that number as many
as the nodes leave none out, an argument about cardinalities). `LandsInv` ties what landed
to what the verb knows: a deletion that went out is remembered (`was`) by the insertion.

**The walk.** The same module, for every application and every bound of nodes, visits,
depth, children and pages:

| theorem | statement |
|---|---|
| `WalksAreWhole` | `SemanticSpec => []WalksMissNothingUntold` |
| `AbsencesAreReal` | `SemanticSpec => []AbsencesAreProven` |

The property speaks of a walk that has ended; the invariant (`Stands`) must say where each
node of `steady` is while it reads: those in the tree since it began, of which no list moved
any while it was part way through that list (`InHand`, `Displaces`). `Covers`: it is shown by an entry, or some frame of the
stack has it before it (`Comes`): the node of the frame itself, one in the page it holds or
below it, or a child from the place it has read to on; or the walk says it was cut short, or
will (`Told`). What counts is what the application has now, so a list that changes under a
frame changes what the frame has before it. `Once`: no frame has a node before it twice, no
two frames have it, and none has what is listed: it is what makes a copy of a list that was
being paged begin where the paging stopped. `NoCuts`: only a skeleton hides anything, so that
a wait's empty look tells all it left out. Then each step of a walk exchanges the top of the
stack for the frames in `gs` (`Step`, `GoesOn`): what came to the top must come to one of
them or be listed, and what comes to them came to the top. A list that changes may keep a
node and everything over it, in its place or in another: it is under the nodes it was under
(`StaysBelow`, an induction along `Below` done with its closure law, `BelowLaw`). In a list
the walk has in hand it keeps its place, so each frame has it before it where it had it
(`StaysInPlace`, `StaysHeld`); in one it has not yet counted any place will do, for nothing of
it is read (`Frame`). That the tree stays one (`Forest`) is `RelistedTree`; that a page and what is
left of its list part it, `PageTakes`. The proof needs that a page and a list are of at least
one child (`WalkAssumption`; `tree.rs` 52 and 55 have 250 and 128), without which a parent
would be dropped in silence, and says of the root what the code does: it is never listed
(`Inside`, `tree.rs` 370-372).

**The grammar.** `LibraryProofs.tla`, for every action and every params:

| theorem | statement |
|---|---|
| `GrammarsAgree` | `\A p \in Params : WhatIsSentIsTaken(p)`: what the library lets through and sends, the helper parses, and its action reads its arguments |
| `AimsAreKept` | `\A p \in Params : AimIsKept(p)`: the image, the control and the window it is aimed at are the caller's |

The argument goes a field at a time. `SentIs` says what a request holds of its params;
`AimsAgree`, that the three fields a request is aimed by are written when they were
named and only then, although the helper asks "there and not null" and the library "a
string that is not empty"; from it `AddressingAgrees`. `UntilsAgree` compares the two
readings of a condition kind by kind, and serves the `wait_for` and the check that
waits (`EvidenceAgrees`); `ArgumentsAgree` has a step per action. The two exceptions,
`NullTimeout` and `UnknownKey`, are in section 6. The converse is no theorem and need
not be one: the helper takes more than the library sends.

Of the assumptions on constants the proofs use `GateAssumption`, `BadgeAssumption`, `TransportAssumption`,
`SessionAssumption`, `NoneIsNoSession`, `WatchAssumption`, `MishapsAssumption`, `HeldAssumption`,
`AbsentIsNothing`, `ClipboardAssumption`, `CaptureAssumption`, `NoneIsNoAttachment`, `TreeAssumption`,
`WalkAssumption` and `SemanticAssumption`. TLC evaluates each, and those no proof uses, in
the run of its module (X11Windows, WindowList and Geometry in the run transport). What MCRules
assumes are statements it has TLC evaluate: no proof uses them.

Only checked by TLC: the statements of MCRules; and, out of the proof system's reach,
all liveness, ENABLED, and what a recursion over data computes.

## 6. Disagreements found

Each has a run whose counterexample shows it, and an entry in `PROJECT.json`
quoting the line it contradicts.

* **The owner is not told** (`transport_news`). A call that writes to a Port whose
  sidecar just ended closes the transport without announcing (`transport.ex:378`,
  `407`); the exit status is then dropped (`476`).
* **Authority goes backwards** (`session_authority`). An acknowledgement sets the
  authority whatever it holds (`transport.ex:607`); a badge event only raises it.
  An acknowledgement written after a newer event takes the transport back, and its
  next request is refused as stale.
* **An absence that was not one** (`semantic_absent`). Pages of a list go by place, and an
  empty page ends the list without a note (`tree.rs` 574-576). Where a sibling goes, or two
  change places, between two pages, a node may shift to a place already read: the walk
  misses it (or, shifted the other way, reads one twice) and says it saw the whole tree,
  and a wait for it to disappear is met while it is shown. `tree.rs` 238 and `PROTOCOL.md`
  542-543 say otherwise. `WalksMissNothingUntold` and `AbsencesAreProven` except what moved
  in a list the walk was part way through.

Known limits. Some the code does not claim to meet; of others a comment or the protocol
says more than the code does, and the property concerned excepts them by name.

Of the gate and the worker: the effect of a release on the table waits for the next job
(`main.rs` 598-609), so pictures and the portal session live until then; between `recv`
and `admit` the worker has taken a job the gate does not show, and one more line is
accepted and waits rather than being answered busy (`control.rs` 80-95); a read-only
line with a sequence number moves the high-water mark (`gate.rs:372`).

Of the grammar: a condition whose `timeout_ms` is null is taken by the library as one
without (`protocol.ex` 1077) and sent as it came, and the helper refuses it
(`semantic.rs` 907-915). The library takes any chord that is not empty; one whose last
part names no key is refused by the action, and a modifier of no known name is dropped
without a word, so that the rest of the chord is pressed (`main.rs:3597`). `window_id`
is read as 64 bits and cut to 32 (`main.rs` 2174-2187), so an id past 2^32 may bind
another window than the one named; no system compux runs on gives out such ids.

Of held input: a release looks its key up in the layout of the moment (`input.rs:482`),
and after a change lifts another code and reports success, though `held.rs` 538-539 says
that what is not up is named (`SilenceMeansUpOnOneLayout` is about one layout). A helper
that gets a dead one's pid overwrites the journal that still lists a key it could not
release (`journal.rs:61`; give MCInput `PidsComeBack = TRUE` and
`HeldIsWrittenDown` fails). A press the connection failed under is forgotten though
the server may have taken it (`input.rs:360`; `HeldIsWrittenDown` excepts it as `doubtful`).
A start releases a dead helper's key by code, though a living one may hold it
(`input.rs:182`).

Of the clipboard: nothing tells one owner's answer from another's. An owner whose read
was given up after 500 ms, or was too large, goes on sending, and what it sends then ends
the next read, and is put back as the person's text, though `clipboard.rs` 470-473 says
of such a chunk that no read takes it (`ReadsAreWhole` excepts reads after one that
brought nothing back; without that clause it fails). A person who copies just before
compux takes the selection back leaves it a SelectionClear to read, and the thread then
empties what compux serves as the owner (`clipboard.rs:252`): every asker is refused, the
pasted-into application first, though `own` has proved the ownership. At its end the
thread asks who owns the selection and gives it up in two requests (`clipboard.rs:276`);
a copy made between is wiped. What the person copies under a paste is overwritten by what
is put back, and an application that asks late gets the person's text pasted.

Of the geometry: where an image has several sent pixels to a point, the middle of the last
rounds to the first point past the display (`to_logical` does not clamp; `geometry.rs` 420-426
speaks of rounding only), so a click on the outermost pixel column may go to the neighbour
(`PointsComeBack` allows that point).

Of the target: `select_target` that fails after the binding answers with an error and
leaves the target bound (`main.rs` 2228-2247); an observation says nothing of its window,
only of its generation, which a new binding changes (`target.rs` 310); a live sample
that brings no pixels, followed by an idle one, vouches for an older picture, and a
first frame of a minimized window has none (`window_frames.rs` 454-470; excepted as
`lost`); a click on the seat's image, without a target, is posted without a look
(`main.rs:2417`, whose comments speak of both).

Of the portal: the token of a session the person stopped is removed by a write that may
fail (`portal.rs:249`, `399`), which is logged and nothing more; the start that follows
reads the token that survived and opens without asking, where `portal.rs:247` and
`PROTOCOL.md` 84-85 say that it asks. `AStopThatWasReadAsksAgain` excepts that case, as
"kept"; `AStopAlwaysAsksAgain`, added to MCPixels.cfg, fails. A token is replaced on disk
only once the start is over (`portal.rs:286`, `291`), so a helper killed after it offered it
leaves it to the next one, where `PROTOCOL.md:83` has each offered once:
`TokensAreOfferedOnce`, added there, fails. `close` takes the session without reading its Closed
(`portal.rs:368`), so a Stop no one read before a release leaves the token, and the next
session starts without asking, where `PROTOCOL.md` 84-85 says a Stop asks again; a
dispatch that opens a session runs its dialog, up to 25 s, under the gate's mutex, so
`pause` waits for it, where `gate.rs` 28-31 speaks of one event; a Stop in the middle of
a sequence makes the same request open a new session; a dead session of a portal that
restarted stays until a release.

Of the watch: a window minimized between the look and the naming ends the binding, as an
error of the server.

Of the badge, where `TheBadgeIsSeen` excepts what it calls `missed`: a window that was
raised and is lowered again between the look and the raise takes the badge down with it,
just over the window and under its own (`run.rs` 467, `x11.rs` 336), and nothing more is
sent; a raise past the budget is not made up for when the second ends (`run.rs` 461);
past 1024 windows above it the badge stays where it is; and a look made for one window's
event (`on_top`) finds that the popup the badge waited for is gone, forgets it (`run.rs`
510) and goes over that window alone, so that the popup's unmap, read next, is of none
it waits for (`run.rs` 371), and another window that came over it meanwhile stays, where the
comment of `run.rs` 472-474 says the badge is back on top once that popup is unmapped
(`EndsHoldFor`; it takes five changes of the desktop, two more than the run has). `MenusStayOver` excepts a
menu that opens between the look and a raise to the very top. A press on the badge sends what the
last line taken makes of it (`run.rs` 423), so a press on Pause that crosses a pause from
the library resumes.

Of the tree: a control in a GTK container that was itself dropped from its list is found
and sent to, since `listed_elsewhere` asks only its own parent (`identity.rs` 187-206), which
still lists it (`MessagesLandOnTheListed` asks no more); a wait for something to disappear reads facts a node refused and a count an
application did not give as nothing there (`tree.rs` 517 and 601), so it may end with the
control on screen, where `PROTOCOL.md` 541-543 says an absence is only answered of a
complete look (`AbsencesAreProven` excepts nodes that refuse, by `steady`, beside those that
moved, above); an empty
child slot in the middle of a page ends a listing (`atspi.rs`); a scroll bar that is not
there sends nothing and its receipt says sent; the index of a child is read and then
sent, and another item may have it by then; a Qt table sorted before the read-back
answers for another row (`acting.rs`).

Of the observe rail: a value change takes the element in the debounce out unread, also
when it is another element's (`capture.rs:1898`): a field the person types in loses its
edit to a label the app updates, where `capture.rs` 2262-2264 says no path drops one.
`EditsAreRead` excepts edits so `overtaken`; `NoEditIsDropped`, added to MCObserver.cfg,
fails. The thread ends itself when the grant goes, but its session stays recorded, and
`observe_start` is refused until an `observe_stop` (`capture.rs:973`). A window's focus
seeds the title last emitted but leaves an older title pending, which settles after it
(`capture.rs` 1919-1931). Capture decides that a switch is on by the setter's answer
(`capture.rs:1709`), where the enumeration reads it back because, it says, Chrome applies
one and answers that it did not (`ax.rs` 786-797); such a switch is never undone. Nor is
one whose clearing the app refused or could not be reached for: at a detach and at the
exit the record is taken from the ledger before the app is asked (`ax.rs` 1949-1965,
1981-2000), so nothing asks again, and the next attach reads it as the person's own.
`SwitchesAreUndone` excepts the two, as `unsaid` and `refused`. Attempts spent on an app
that never lets itself be connected to end without a gap (`capture.rs:1347`, `1374`).

## 7. Plan

What was planned of the grammar, the target, the portal, the frames, the tree, the clipboard
and the X11 badge is done, but for what section 8 says. What is left,
by what goes wrong worst; each is a module, the run that checks it, and the theorems after
TLC agrees.

1. **Sequences** of `main.rs` (click, drag, chord, paste) over HeldInput and Gate, and
   Seat over Geometry and WindowList in place of its own places.
2. The badge's buttons against the lines on their way to it, and the macOS badge; the
   remaining verbs and conditions of `semantic.rs`.

## 8. Not modelled, and why

Planned, section 7: sequences, the macOS badge process. Of the code that is modelled:

* windows and geometry: the rounding of 32-bit floats, names and wording, the transform of
  a bound window's own frame and its letterboxing (`target.rs` 203-259), the strips of
  `strips.rs`.

* observe rail: truncation, URL normalisation, the walk for a page's web area, log lines,
  apps without a bundle id. A switch set and its record in the ledger are one step, and no
  page's title is contained in another's.
* tree and semantic: labels tell a table's items apart; a message of a walk is one step,
  and so are a node's facts and states; the look before a verb is three (place,
  candidates, reread); a pause is noticed at the end of a walk; a state flips only during
  a verb; listing and wait come first, verbs after; no requests are read ahead
  (`IN_FLIGHT`) and no child slot is empty. Not there: scopes (`walk_roots`,
  `listed_root`), surfaces, `drill`, `read_text`; the verbs focus, expand, scroll_to,
  set_value and press as verbs of their own; conditions on value, enabled, title and menu;
  routes and path labels.
* grammar: control frames, untagged lines, the envelope's own fields, what a refusal
  says, the shape of a region or a point inside its object, and bounds of numbers beyond
  inside or outside. The wording apart, both sides are there for all 26 actions.
* badge: presses on its buttons, changes of the monitors, the place above the window's
  frame, a window that is no longer the badge's sibling, drawing, ignored lines, the end
  of its pipe. The line's app and title change nothing and are left out.
* clipboard: requests for other targets, a list of targets, a lost connection; texts that
  are not UTF-8, which are read as none. An application has one place for its answers.
* everywhere: coordinates beyond places and sizes, timing, and the wording of answers,
  where no property reads them.

Left out altogether: the accessibility services' own behaviour, whose possible answers are
the outcomes of a message; drawing; the binary download; fixtures, probes and scripts.

The map covers about a sixth of the implementation's lines. More than a third of those
lines are the Rust files' own test modules (of `main.rs` 5905 lines of 12007, of
`capture.rs` 1554 of 4440, of `ax.rs` 1465 of 3505), and much of the rest reads a platform
(`ax.rs`, `atspi.rs`), draws, or is a fixture.
