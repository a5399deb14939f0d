------------------------------- MODULE Portal -------------------------------
(***************************************************************************)
(* Pixels and input through the GNOME portal (portal.rs and the portal     *)
(* half of pixels.rs): one RemoteDesktop session, kept until somebody      *)
(* closes it, started again by whatever call finds none, and a restore     *)
(* token on disk that spares the person the dialog once.  A gated call     *)
(* holds the gate's mutex from its check to its post, whatever it has to   *)
(* start in between.  The portal, the bus and the person are external and  *)
(* known from how portal.rs speaks to them.                                *)
(***************************************************************************)
EXTENDS Integers, Sequences

CONSTANTS
  None,
  MaxRequests, \* bound: requests served by one helper after another
  MaxStarts,   \* bound: sessions created
  MaxTroubles  \* bound: stops, kills, portal restarts, failed writes and failed steps

ASSUME NoneIsNoSession == None \notin Nat

VARIABLES
  session,    \* Portal.session
  at,         \* how far the worker is
  todo,       \* the calls its request has still to make
  held,       \* Guard.down: whether the chord's modifier is to be released
  token,      \* start: the restore token read, the one handed back
  mutex,      \* the gate's mutex is held by a dispatch
  pause,      \* a pause: not asked, waiting for the mutex, applied
  released,   \* Gate.released
  disk        \* portal.json

VARIABLES
  open,       \* the portal's session, if input on it is taken
  closed,     \* its Closed signal: no, sent, arrived
  serves,     \* the restore tokens the portal would honour
  dialog,     \* the dialog on the screen
  created, requests, troubles

VARIABLES
  stopped,    \* history: the person stopped a session: no, unread, read and its token
              \*   removed, or read and its token kept on disk by a failed removal
  late        \* history: input landed past a pause or a release

helper_vars  == <<session, at, todo, held, token, mutex, disk>>
control_vars == <<pause, released>>
portal_vars  == <<open, closed, serves, dialog>>
counters     == <<created, requests, troubles>>
history      == <<stopped, late>>
portal_all   == <<helper_vars, control_vars, portal_vars, counters, history>>

PortalInit ==
  /\ session = None /\ at = "idle" /\ todo = <<>> /\ held = FALSE /\ token = None
  /\ mutex = FALSE /\ pause = "none" /\ released = FALSE /\ disk = None
  /\ open = None /\ closed = "no" /\ serves = {} /\ dialog = None
  /\ created = 0 /\ requests = 0 /\ troubles = 0
  /\ stopped = "no" /\ late = FALSE

Trouble == troubles < MaxTroubles /\ troubles' = troubles + 1

\* ---- a request's calls --------------------------------------------------------

Calls(verb) == CASE verb = "key"        -> <<"press", "click">>
                 [] verb = "left_click" -> <<"look", "move", "button">>
                 [] verb = "screenshot" -> <<"look", "shoot">>

GatedCalls == {"press", "click", "move", "button"}
InputCalls == GatedCalls \cup {"lift"}

\* Gate::check: paused, or cancelled by a pause or a release.
Barred == pause = "applied" \/ released

Begins(verb) ==
  /\ at = "idle" /\ ~released /\ requests < MaxRequests
  /\ requests' = requests + 1
  /\ todo' = Calls(verb) /\ at' = "next"
  /\ UNCHANGED <<session, held, token, mutex, disk, control_vars, portal_vars,
                 created, troubles, history>>

\* Gate::dispatch takes its mutex and checks; Guard::press records before it posts.
CallsNext ==
  /\ at = "next" /\ todo # <<>>
  /\ Head(todo) \in GatedCalls => ~Barred
  /\ mutex' = (Head(todo) \in GatedCalls)
  /\ held' = (held \/ Head(todo) = "press")
  /\ at' = "session"
  /\ UNCHANGED <<session, todo, token, disk, control_vars, portal_vars, counters, history>>

GateRefuses ==
  /\ at = "next" /\ todo # <<>>
  /\ Head(todo) \in GatedCalls /\ Barred
  /\ todo' = <<>>
  /\ UNCHANGED <<session, at, held, token, mutex, disk, control_vars, portal_vars, counters, history>>

\* release_all lifts what is held, past the gate, and then the request is answered.
Lifts ==
  /\ at = "next" /\ todo = <<>> /\ held
  /\ held' = FALSE /\ todo' = <<"lift">>
  /\ UNCHANGED <<session, at, token, mutex, disk, control_vars, portal_vars, counters, history>>

Answers ==
  /\ at = "next" /\ todo = <<>> /\ ~held
  /\ at' = "idle"
  /\ UNCHANGED <<session, todo, held, token, mutex, disk, control_vars, portal_vars, counters, history>>

\* The call in hand failed, and with it the sequence.
CallFails == at' = "next" /\ todo' = <<>> /\ mutex' = FALSE

\* ---- the token on disk --------------------------------------------------------

Stores(kept) ==
  \/ disk' = kept /\ UNCHANGED troubles
  \/ Trouble /\ disk' = disk

\* ---- Portal::session and Portal::start ------------------------------------------

\* Slip: the session is forgotten and its token kept.
ForgetsStopped_KeepsToken ==
  /\ session' = None /\ closed' = "no"
  /\ stopped' = "read"
  /\ UNCHANGED <<disk, troubles>>

\* A removal that fails is said in the log, and the start goes on all the same.
ForgetsStopped ==
  /\ session' = None /\ closed' = "no"
  /\ Stores(None)
  /\ stopped' = IF disk' = None THEN "read" ELSE "kept"

SessionLives ==
  /\ at = "session" /\ session # None /\ closed # "arrived"
  /\ at' = "use"
  /\ UNCHANGED <<session, todo, held, token, mutex, disk, control_vars, portal_vars,
                 counters, history>>

SessionIsGone ==
  /\ at = "session"
  /\ \/ session # None /\ closed = "arrived" /\ ForgetsStopped
     \/ session = None /\ UNCHANGED <<session, disk, closed, troubles, stopped>>
  /\ at' = "start"
  /\ UNCHANGED <<todo, held, token, mutex, control_vars, open, serves, dialog,
                 created, requests, late>>

Creates ==
  /\ at = "start" /\ created < MaxStarts
  /\ created' = created + 1
  /\ token' = disk
  /\ at' = "created"
  /\ UNCHANGED <<session, todo, held, mutex, disk, control_vars, portal_vars, requests,
                 troubles, history>>

\* No connection, no Registry, or a portal that does not answer: nothing was offered.
CreateFails ==
  /\ at = "start"
  /\ \/ Trouble
     \/ created = MaxStarts /\ UNCHANGED troubles
  /\ CallFails
  /\ UNCHANGED <<session, held, token, disk, control_vars, portal_vars, created, requests, history>>

\* SelectDevices offers the token; a token is honoured once.
Selects ==
  /\ at = "created"
  /\ serves' = serves \ {token}
  /\ token' = IF token \in serves THEN token ELSE None
  /\ at' = "selected"
  /\ UNCHANGED <<session, todo, held, mutex, disk, control_vars, open, closed, dialog,
                 counters, stopped, late>>

\* Start's Response 0: the portal opens the session and mints the next token.
Opens ==
  /\ open' = created /\ closed' = "no"
  /\ serves' = serves \cup {created}
  /\ token' = created
  /\ dialog' = None
  /\ at' = "answered"
  /\ UNCHANGED <<session, todo, held, mutex, disk, control_vars, counters, late>>

StartsUnasked == at = "selected" /\ token # None /\ Opens /\ UNCHANGED stopped

Asks ==
  /\ at = "selected" /\ token = None
  /\ dialog' = "start" /\ at' = "asking"
  /\ UNCHANGED <<session, todo, held, token, mutex, disk, control_vars, open, closed, serves,
                 counters, history>>

PersonAllows == at = "asking" /\ dialog = "start" /\ Opens /\ stopped' = "no"

\* Whatever the start said, the token offered is spent.
Spends == Stores(None)

\* A step failed, the person refused, or nobody answered within the budget: the
\* session that did not start is closed, and its dialog with it.
StartFails ==
  /\ at \in {"created", "selected", "asking"}
  /\ Spends
  /\ CallFails
  /\ dialog' = None /\ token' = None
  /\ UNCHANGED <<session, held, control_vars, open, closed, serves, created, requests,
                 stopped, late>>

KeepsSession ==
  /\ at = "answered"
  /\ Stores(token)
  /\ session' = token /\ token' = None
  /\ at' = "use"
  /\ UNCHANGED <<todo, held, mutex, control_vars, portal_vars, created, requests,
                 stopped, late>>

\* It started with no monitor stream: the token is kept, the session closed.
StreamMissing ==
  /\ at = "answered"
  /\ Stores(token)
  /\ token' = None
  /\ open' = None /\ closed' = "no"
  /\ CallFails
  /\ UNCHANGED <<session, held, control_vars, serves, dialog, created, requests,
                 stopped, late>>

\* ---- the call itself --------------------------------------------------------------

Done == at' = "next" /\ todo' = Tail(todo) /\ mutex' = FALSE

\* The portal takes input on a session of its own that is open.
InputLands ==
  /\ at = "use" /\ Head(todo) \in InputCalls
  /\ session = open
  /\ late' = (late \/ (Barred /\ Head(todo) \in GatedCalls))
  /\ Done
  /\ UNCHANGED <<session, held, token, disk, control_vars, portal_vars, counters,
                 stopped>>

InputRefused ==
  /\ at = "use" /\ Head(todo) \in InputCalls
  /\ session # open
  /\ CallFails
  /\ UNCHANGED <<session, held, token, disk, control_vars, portal_vars, counters, history>>

Looks ==
  /\ at = "use" /\ Head(todo) = "look"
  /\ Done
  /\ UNCHANGED <<session, held, token, disk, control_vars, portal_vars, counters, history>>

\* Screenshot is a request of its own, with a dialog of its own.
Shoots ==
  /\ at = "use" /\ Head(todo) = "shoot" /\ dialog = None
  /\ \/ Done /\ UNCHANGED dialog
     \/ dialog' = "screenshot" /\ UNCHANGED <<at, todo, mutex>>
  /\ UNCHANGED <<session, held, token, disk, control_vars, open, closed, serves, counters, history>>

ScreenshotEnds ==
  /\ at = "use" /\ dialog = "screenshot"
  /\ dialog' = None
  /\ Done \/ CallFails
  /\ UNCHANGED <<session, held, token, disk, control_vars, open, closed, serves, counters, history>>

\* ---- controls ---------------------------------------------------------------------

PauseAsked ==
  /\ pause = "none" /\ pause' = "asked"
  /\ UNCHANGED <<helper_vars, released, portal_vars, counters, history>>

\* Slip: the pause is applied without the mutex.
PauseMayApply_Anytime == pause = "asked"

PauseMayApply == pause = "asked" /\ ~mutex

PauseApplies ==
  /\ PauseMayApply
  /\ pause' = "applied"
  /\ UNCHANGED <<helper_vars, released, portal_vars, counters, history>>

ReleaseApplies ==
  /\ ~released /\ ~mutex /\ session # None
  /\ released' = TRUE
  /\ UNCHANGED <<helper_vars, pause, portal_vars, counters, history>>

\* Portal::close, at the next request: the session is taken, unread.
TakesRelease ==
  /\ at = "idle" /\ released
  /\ released' = FALSE
  /\ session' = None /\ closed' = "no"
  /\ open' = IF session = open THEN None ELSE open
  /\ UNCHANGED <<at, todo, held, token, mutex, disk, pause, serves, dialog, counters, history>>

\* ---- the person, the portal, and the end of a helper ---------------------------------

\* The shell's Stop.
PersonStops ==
  /\ open # None
  /\ Trouble
  /\ open' = None /\ closed' = "sent" /\ stopped' = "unread"
  /\ UNCHANGED <<helper_vars, control_vars, serves, dialog, created, requests,
                 late>>

ClosedArrives ==
  /\ closed = "sent" /\ closed' = "arrived"
  /\ UNCHANGED <<helper_vars, control_vars, open, serves, dialog, counters, history>>

\* Its sessions end and nobody says so: a Closed is taken from the old owner alone.
\* In the middle of a start or under a dialog it is a step that fails.
PortalRestarts ==
  /\ dialog = None /\ at \notin {"created", "selected"}
  /\ Trouble
  /\ open' = None
  /\ UNCHANGED <<helper_vars, control_vars, closed, serves, dialog, created, requests, history>>

\* A helper is killed, and another takes its place: the bus ends its session and dialog.
HelperReplaced ==
  /\ Trouble
  /\ session' = None /\ at' = "idle" /\ todo' = <<>> /\ held' = FALSE /\ token' = None
  /\ mutex' = FALSE /\ pause' = "none" /\ released' = FALSE
  /\ open' = None /\ closed' = "no" /\ dialog' = None
  /\ UNCHANGED <<disk, serves, created, requests, stopped, late>>

PortalNext ==
  \/ \E verb \in {"key", "left_click", "screenshot"} : Begins(verb)
  \/ CallsNext \/ GateRefuses \/ Lifts \/ Answers
  \/ SessionLives \/ SessionIsGone \/ Creates \/ CreateFails \/ Selects
  \/ StartsUnasked \/ Asks \/ PersonAllows \/ StartFails \/ KeepsSession \/ StreamMissing
  \/ InputLands \/ InputRefused \/ Looks \/ Shoots \/ ScreenshotEnds
  \/ PauseAsked \/ PauseApplies \/ ReleaseApplies \/ TakesRelease
  \/ PersonStops \/ ClosedArrives \/ PortalRestarts \/ HelperReplaced

PortalSpec == PortalInit /\ [][PortalNext]_portal_all

-----------------------------------------------------------------------------
(* Once the helper has read that the person stopped its session and has    *)
(* removed the token, none is open until the person has allowed one again:  *)
(* no token of a start under way, no call of the same request and no later  *)
(* helper brings it back.  A removal that failed is excepted ("kept"): the  *)
(* code goes on after it (Portal::session, store_token, start).             *)
AStopThatWasReadAsksAgain == stopped = "read" => open = None

(* Without that exception: the comment of Portal::session has it that a     *)
(* session the person stopped is forgotten, and its token, so the next one  *)
(* asks (Portal::session, store_token).                                     *)
AStopAlwaysAsksAgain == stopped \in {"read", "kept"} => open = None

(* A token about to be offered was offered to no start before it, whatever  *)
(* helper read it: PROTOCOL.md has each offered once (stored_token, start). *)
TokensAreOfferedOnce == at = "created" /\ token # None => token \in serves

(* However many calls, dialogs and restarts lie between its check and its    *)
(* post, no input of a request lands once a pause or a release was applied         *)
(* (Gate::dispatch around PortalInput).                                      *)
NoInputPastABarrier == ~late
=============================================================================
