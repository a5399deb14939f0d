------------------------------- MODULE Badge -------------------------------
(***************************************************************************)
(* The badge of one bound window on X11: the helper's watch, which looks   *)
(* four times a second and writes a line when what a person can see has    *)
(* changed (indicator.rs), and the badge's own process, one loop over      *)
(* those lines and the events of the server (compux-indicator-x11).  A     *)
(* step of the loop is one exchange with the server: what it looked at may *)
(* have changed before it raises itself.                                   *)
(* The server and its windows are external.  A window lies at a spot, and  *)
(* meets a badge drawn there; the bound window leaves room for one inside. *)
(***************************************************************************)
EXTENDS Naturals, Sequences, FiniteSets

SX == INSTANCE SequencesExt

CONSTANTS
  Target, Others, \* the bound window, and others a window manager manages
  Popups,         \* override-redirect: the person's menus, a shell's stage
  Itself,         \* the badge's own window
  Spots,
  NoWindow,
  MaxRaises,      \* MAX_RAISES_PER_SECOND
  MaxAbove,       \* MAX_ABOVE
  MaxMoves        \* bound: changes of the desktop and of the pause

Managed == {Target} \cup Others
Windows == Managed \cup Popups

ASSUME BadgeAssumption ==
  /\ Target \notin Others \cup Popups /\ Others \cap Popups = {}
  /\ {Itself, NoWindow} \cap Windows = {} /\ Itself # NoWindow
  /\ IsFiniteSet(Windows)
  /\ MaxRaises \in Nat \ {0} /\ MaxAbove \in Nat
  /\ Spots # {}

VARIABLES
  stack,    \* the root's children, bottom to top
  viewable, \* the mapped windows
  lies,     \* the spot of each window, or Away from all
  taking,   \* the popups that take input there
  moves

VARIABLES
  gate_paused, \* the gate's flag
  last,     \* the line the watch wrote last
  lines     \* the badge's input pipe

VARIABLES
  told,     \* the last line the badge took
  frame,    \* the spot its window is at, Away while it is hidden
  held_by,  \* the popup it waits for
  raises,   \* used of this second's budget
  notices,  \* the server's events, unread
  step,     \* what its loop is doing: off, idle, look, raise
  aim,      \* the window to go just over, or Itself for the very top
  arrived,  \* history: popups that came up since the last look
  missed,   \* history: since the last raise to the top, one was refused, or went too low
  looked    \* history: the watch has looked since the last change

desktop_vars == <<stack, viewable, lies, taking, moves>>
telling_vars == <<gate_paused, last, lines, looked>>
loop_vars    == <<told, frame, held_by, raises, notices, step, aim>>
badge_vars   == <<desktop_vars, telling_vars, loop_vars, arrived, missed>>

Away == "away"

Unsaid == [showing |-> "working", bounds |-> Away, occluded |-> FALSE]

BadgeInit ==
  /\ stack = <<>> /\ viewable = {} /\ lies = [w \in Windows |-> Away] /\ taking = {}
  /\ moves = 0
  /\ gate_paused = FALSE /\ last = Unsaid /\ lines = <<>>
  /\ told = Unsaid /\ frame = Away /\ held_by = NoWindow
  /\ raises = 0 /\ notices = <<>> /\ step = "off" /\ aim = Itself
  /\ arrived = {} /\ missed = FALSE /\ looked = FALSE

\* ---- the desktop -------------------------------------------------------------

Index(w) == CHOOSE i \in DOMAIN stack : stack[i] = w

Stacked == SX!ToSet(stack)

Above(windows, w, v) ==
  \E i, j \in DOMAIN windows : i > j /\ windows[i] = w /\ windows[j] = v

Over(w, v) == Above(stack, w, v)

Without(w) == SX!RemoveAt(stack, Index(w))
Highest(w) == Append(Without(w), w)
Lowest(w)  == <<w>> \o Without(w)

JustOver(w, sibling) ==
  LET at == CHOOSE i \in DOMAIN Without(w) : Without(w)[i] = sibling
  IN  SX!InsertAt(Without(w), at + 1, w)

\* The server's word of a change; a configure says where the window now is.
Notify(kind, w) ==
  notices' = Append(notices, [kind |-> kind, window |-> w,
                              at |-> lies'[w]])

Befalls(w) ==
  /\ step # "off" /\ moves < MaxMoves /\ moves' = moves + 1
  /\ w \in Stacked
  /\ arrived' = arrived \cup ({w} \cap Popups) /\ looked' = FALSE
  /\ UNCHANGED <<gate_paused, last, lines, told, frame, held_by, raises, step, aim, missed>>

Restacks(w) ==
  /\ Befalls(w)
  /\ stack' \in {Highest(w), Lowest(w)}
  /\ stack' # stack
  /\ UNCHANGED <<viewable, lies, taking>>
  /\ Notify("configure", w)

Moves(w) ==
  /\ Befalls(w)
  /\ \E spot \in (Spots \cup {Away}) \ {lies[w]} : lies' = [lies EXCEPT ![w] = spot]
  /\ UNCHANGED <<stack, viewable, taking>>
  /\ Notify("configure", w)

\* A window is mapped at its place in the stack, or on top.
Shows(w) ==
  /\ Befalls(w) /\ w \notin viewable
  /\ viewable' = viewable \cup {w}
  /\ stack' \in {stack, Highest(w)}
  /\ UNCHANGED <<lies, taking>>
  /\ Notify("map", w)

\* A window that is destroyed is unmapped first.
Hides(w) ==
  /\ Befalls(w) /\ w \in viewable
  /\ viewable' = viewable \ {w}
  /\ stack' \in {stack, Without(w)}
  /\ UNCHANGED <<lies, taking>>
  /\ Notify("unmap", w)

\* A shell's stage takes input over the badge, or stops: nothing is sent.
TakesInput(w) ==
  /\ Befalls(w) /\ w \in Popups
  /\ taking' \in {taking \cup {w}, taking \ {w}} /\ taking' # taking
  /\ UNCHANGED <<stack, viewable, lies, notices>>

Desktop ==
  \E w \in Windows : Restacks(w) \/ Moves(w) \/ Shows(w) \/ Hides(w) \/ TakesInput(w)

\* ---- the helper's watch ------------------------------------------------------

\* A control, or a button of the badge: Gate and Sidecar say how.
Pauses ==
  /\ step # "off" /\ moves < MaxMoves /\ moves' = moves + 1
  /\ gate_paused' = ~gate_paused /\ looked' = FALSE
  /\ UNCHANGED <<stack, viewable, lies, taking, last, lines, loop_vars, arrived, missed>>

\* Every point a badge may be drawn on: a managed window in front that meets it.
Occluded ==
  \E w \in Others \cap viewable : Over(w, Target) /\ lies[w] = lies[Target]

\* What one look of the watch finds.
State ==
  IF Target \notin viewable THEN [Unsaid EXCEPT !.showing = "unavailable"]
  ELSE [showing  |-> IF gate_paused THEN "paused" ELSE "working",
        bounds   |-> lies[Target],
        occluded |-> Occluded]

\* Spots are told apart by nothing but their names: any will do to begin at.
Home == CHOOSE spot \in Spots : TRUE

\* A window is bound among others anywhere, its menus not open yet: the badge's
\* process starts and the first line goes to it.
Starts ==
  /\ step = "off" /\ step' = "idle"
  /\ \E windows \in SX!SetToSeqs(Managed), popups \in SX!SetToSeqs(Popups) :
       stack' = Append(windows \o popups, Itself)
  /\ viewable' = Managed /\ taking' = Popups
  /\ lies' \in [Windows -> Spots \cup {Away}]
  /\ \A w \in {Target} \cup Popups : lies'[w] = Home
  /\ UNCHANGED <<moves, gate_paused, told, frame, held_by, raises, notices, aim, arrived, missed>>
  /\ last' = State' /\ lines' = <<State'>> /\ looked' = TRUE

\* Slip: a window that comes to cover the badge is no news.
News_OfTheTarget(line) ==
  <<line.showing, line.bounds>> # <<last.showing, last.bounds>>

News(line) == line # last

Tick ==
  /\ step # "off" /\ ~looked /\ looked' = TRUE
  /\ IF News(State)
       THEN lines' = Append(lines, State) /\ last' = State
       ELSE UNCHANGED <<lines, last>>
  /\ UNCHANGED <<desktop_vars, gate_paused, loop_vars, arrived, missed>>

\* ---- the badge's loop --------------------------------------------------------

\* badge_frame: nowhere where nothing true can be said.
BadgeFrame(line) ==
  IF line.showing = "unavailable" \/ line.occluded THEN Away ELSE line.bounds

LooksOver(what) == step' = "look" /\ aim' = what

Waits == step' = "idle" /\ aim' = Itself

\* A state line: drawn and placed at once, on top after a look; or hidden.
TakesLine ==
  /\ step = "idle" /\ lines # <<>>
  /\ told' = Head(lines) /\ lines' = Tail(lines)
  /\ frame' = BadgeFrame(told')
  /\ IF frame' = Away
       THEN held_by' = NoWindow /\ missed' = FALSE /\ Waits
       ELSE LooksOver(Itself) /\ UNCHANGED <<held_by, missed>>
  /\ UNCHANGED <<desktop_vars, gate_paused, last, looked, raises, notices, arrived>>

Heard == Head(notices)

TakesNotice ==
  /\ step = "idle" /\ notices # <<>>
  /\ notices' = Tail(notices)
  /\ UNCHANGED <<desktop_vars, telling_vars, told, frame, arrived>>

\* A configure says where the window is; after a map one look says it.
ComesOver ==
  /\ frame # Away /\ Heard.window \notin Popups
  /\ \/ Heard.kind = "configure" /\ Heard.at = frame
     \/ Heard.kind = "map" /\ Heard.window \in Stacked /\ lies[Heard.window] = frame

Unholds == Heard.kind = "unmap" /\ Heard.window = held_by

AnswersWindow ==
  /\ TakesNotice /\ ComesOver
  /\ IF raises < MaxRaises
       THEN raises' = raises + 1 /\ LooksOver(Heard.window) /\ UNCHANGED missed
       ELSE missed' = TRUE /\ Waits /\ UNCHANGED raises
  /\ UNCHANGED held_by

\* Slip: an unmap past the budget lets go of the hold all the same.
UnmapHold_LetsGo == raises < MaxRaises \/ held_by' = NoWindow

\* unmap_hold: past the budget the popup is still waited for, and the timer looks.
UnmapHold == raises < MaxRaises \/ UNCHANGED held_by

AnswersUnmap ==
  /\ TakesNotice /\ Unholds
  /\ UnmapHold
  /\ IF raises < MaxRaises
       THEN raises' = raises + 1 /\ held_by' = NoWindow /\ LooksOver(Itself)
       ELSE Waits /\ UNCHANGED raises
  /\ UNCHANGED missed

PassesOver ==
  /\ TakesNotice /\ ~ComesOver /\ ~Unholds
  /\ UNCHANGED <<held_by, raises, step, aim, missed>>

LooksAgain ==
  /\ step = "idle" /\ held_by # NoWindow
  /\ LooksOver(Itself)
  /\ UNCHANGED <<desktop_vars, telling_vars, told, frame, held_by, raises, notices, arrived, missed>>

AboveIt == {w \in Windows : Over(w, Itself)}

PopupsOver == {p \in AboveIt \cap Popups \cap viewable \cap taking : lies[p] = frame}

\* The popup it waited for is gone as it looks for one window: it goes just over that one,
\* and the unmap, read later, is of no popup it waits for.
EndsHoldFor == held_by # NoWindow /\ held_by' = NoWindow /\ aim # Itself

\* free_above, and restack: what the root's children say now.
Look ==
  /\ step = "look"
  /\ arrived' = {}
  /\ IF Cardinality(AboveIt) > MaxAbove
       THEN missed' = TRUE /\ Waits /\ UNCHANGED held_by
       ELSE /\ held_by' = IF PopupsOver = {} THEN NoWindow
                          ELSE CHOOSE p \in PopupsOver : \A q \in PopupsOver : ~Over(q, p)
            /\ IF held_by' = NoWindow /\ aim \in AboveIt \cup {Itself}
                 THEN step' = "raise" /\ UNCHANGED aim
                 ELSE Waits
            /\ missed' = (missed \/ EndsHoldFor)
  /\ UNCHANGED <<desktop_vars, telling_vars, told, frame, raises, notices>>

\* Slip: the badge goes to the very top whatever came over it.
Raised_Highest == Highest(Itself)

\* raise and raise_above; a sibling that is gone has nothing over the badge.
Raised ==
  IF aim = Itself THEN Highest(Itself)
  ELSE IF aim \in Stacked THEN JustOver(Itself, aim)
  ELSE stack

Raise ==
  /\ step = "raise"
  /\ stack' = Raised
  /\ missed' = IF aim = Itself THEN FALSE
               ELSE missed \/ \E w \in Managed : Over(Itself, w) /\ Over(w, Itself)'
  /\ Waits
  /\ UNCHANGED <<viewable, lies, taking, moves, telling_vars, told, frame, held_by,
                 raises, notices, arrived>>

ASecondPasses ==
  /\ raises > 0 /\ raises' = 0
  /\ UNCHANGED <<desktop_vars, telling_vars, told, frame, held_by, notices, step, aim,
                 arrived, missed>>

BadgeLoop ==
  \/ TakesLine \/ AnswersWindow \/ AnswersUnmap \/ PassesOver
  \/ LooksAgain \/ Look \/ Raise \/ ASecondPasses

BadgeNext == Starts \/ Desktop \/ Pauses \/ Tick \/ BadgeLoop

BadgeSpec == BadgeInit /\ [][BadgeNext]_badge_vars

-----------------------------------------------------------------------------
\* The watch has looked, its lines are taken, and the badge has nothing to do.
Settled == looked /\ lines = <<>> /\ notices = <<>> /\ step = "idle"

(* When all is told, the badge shows what is so where the person sees it: it  *)
(* says paused while the gate is, stands at its own window, which is in sight  *)
(* and under no other there (state, tick), and no managed window is over it,   *)
(* the bound one least of all, whatever was raised, moved or mapped between a  *)
(* look and a raise (on_top, render, back_on_top); unless it waits for a popup *)
(* or a raise was refused, went too low, or was all that a popup's end led to, *)
(* since the last to the top.                                                  *)
TheBadgeIsSeen ==
  Settled /\ frame # Away =>
    /\ Target \in viewable /\ lies[Target] = frame
    /\ ~ \E w \in Others \cap viewable : Over(w, Target) /\ lies[w] = frame
    /\ told.showing = IF gate_paused THEN "paused" ELSE "working"
    /\ held_by = NoWindow /\ ~missed =>
         ~ \E w \in Managed \cap viewable : Over(w, Itself) /\ lies[w] = frame

(* A menu open over the badge stays over it: the badge goes over none that it *)
(* could have seen, and when it goes just over a window not over one that     *)
(* came up above that window since its look either (free_above, raise_above). *)
MenusStayOver ==
  [][step = "raise" /\ step' # "raise" =>
       \A p \in PopupsOver :
         Over(p, Itself)' \/ (p \in arrived /\ (aim = Itself \/ ~Over(p, aim)))]_badge_vars
=============================================================================
