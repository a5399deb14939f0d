------------------------------ MODULE Desktop ------------------------------
(***************************************************************************)
(* What the worker has no say in: the window server's windows, their place *)
(* and size, what each one shows, which is in front, and the clock.  It is *)
(* external to the code and known from how window_server.rs lists it and   *)
(* window_frames.rs reads its samples.  A change of what is shown takes a  *)
(* tick of its own, so an instant has one picture.                         *)
(***************************************************************************)
EXTENDS Integers, Sequences

CONSTANTS
  None,
  Windows, Places, Sizes,
  Fronts,    \* what may be in front
  Unlisted,  \* those of them no listing names: menus, popups, a shell's own windows
  Endings,   \* how a window may end: its process "quits", its number is "recycled"
  MaxNow,    \* bound: the clock
  MaxScenes, \* bound: what the desktop shows, over time
  MaxWhims   \* bound: windows raised, minimized or ended

ASSUME NoneIsNoWindow == None \notin Windows
ASSUME FrontsAssumption == Windows \subseteq Fronts \ Unlisted
ASSUME ClockBound == MaxNow \in Nat

VARIABLES
  now,        \* the clock: mach time and monotonic time
  scenes,     \* history: what was shown, from which instant
  front,      \* what takes a click
  on_screen,  \* the windows neither minimized nor on another desktop
  born,       \* the start time of the process of each window's number
  tenant,     \* the window that has the number
  whims       \* what was raised, minimized or ended so far

desktop_vars == <<now, scenes, front, on_screen, born, tenant, whims>>

Scenes == [from: Nat, place: [Windows -> Places], size: [Windows -> Sizes], paint: [Windows -> Nat]]

DesktopInit ==
  /\ now = 0
  /\ scenes \in {<<s>> : s \in [from: {0}, place: [Windows -> Places], size: [Windows -> Sizes],
                                 paint: {[w \in Windows |-> 0]}]}
  /\ front \in Fronts
  /\ on_screen = Windows
  /\ born = [w \in Windows |-> 0]
  /\ tenant = [w \in Windows |-> 0]
  /\ whims = 0

Scene == scenes[Len(scenes)]
Geometry(w) == [place |-> Scene.place[w], size |-> Scene.size[w]]
PictureIn(s, w) == [window |-> w, size |-> s.size[w], paint |-> s.paint[w]]
Picture(w) == PictureIn(Scene, w)

\* What w showed at some instant past after and no later than now.
ShownSince(w, after) ==
  {PictureIn(scenes[v], w) :
     v \in {u \in DOMAIN scenes : u = Len(scenes) \/ scenes[u + 1].from > after + 1}}

Tick ==
  /\ now < MaxNow
  /\ now' = now + 1
  /\ UNCHANGED <<scenes, front, on_screen, born, tenant, whims>>

Shows(s) ==
  /\ now < MaxNow /\ Len(scenes) < MaxScenes
  /\ now' = now + 1
  /\ scenes' = Append(scenes, [s EXCEPT !.from = now + 1])
  /\ UNCHANGED <<front, on_screen, born, tenant, whims>>

Repaints(w) == Shows([Scene EXCEPT !.paint[w] = @ + 1])
Moves(w) == \E p \in Places \ {Scene.place[w]} : Shows([Scene EXCEPT !.place[w] = p])
Resizes(w) ==
  \E z \in Sizes \ {Scene.size[w]} : Shows([Scene EXCEPT !.size[w] = z, !.paint[w] = @ + 1])

Whim == whims < MaxWhims /\ whims' = whims + 1

Raised ==
  /\ Whim
  /\ \E f \in Fronts \ {front} : front' = f
  /\ UNCHANGED <<now, scenes, on_screen, born, tenant>>

Minimizes(w) ==
  /\ Whim
  /\ on_screen' = IF w \in on_screen THEN on_screen \ {w} ELSE on_screen \cup {w}
  /\ UNCHANGED <<now, scenes, front, born, tenant>>

\* Another window comes to have the number: one of a later process, or of another.
Ends(w) ==
  /\ Whim
  /\ tenant[w] = 0
  /\ \E e \in Endings :
       born' = IF e = "quits" THEN [born EXCEPT ![w] = @ + 1] ELSE born
  /\ tenant' = [tenant EXCEPT ![w] = @ + 1]
  /\ UNCHANGED <<now, scenes, front, on_screen>>

DesktopNext ==
  \/ Tick \/ Raised
  \/ \E w \in Windows : Repaints(w) \/ Moves(w) \/ Resizes(w) \/ Minimizes(w) \/ Ends(w)
=============================================================================
