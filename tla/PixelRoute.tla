----------------------------- MODULE PixelRoute -----------------------------
(***************************************************************************)
(* The pixel route of one Linux session (pixels.rs): decided once, from    *)
(* what the session's server and its portal say of themselves, and then    *)
(* either GNOME's portal serves the pixels and the input, or X11 serves    *)
(* them and a window can be bound, or nothing does.  A window bound on X11 *)
(* has two clients of the server, its watch and its badge: each on its own *)
(* connection, they share nothing, and a behaviour follows one of them.    *)
(***************************************************************************)
EXTENDS Portal, CompositeFrames, Badge

VARIABLES route, follows

Interfaces == {"Screenshot", "RemoteDesktop", "ScreenCast"}

\* What a Wayland session says of its portal; a session without a bus says nothing.
WaylandFacts == [gnome: BOOLEAN, running: {"yes", "no", "unanswered"},
                 registry: BOOLEAN, interfaces: SUBSET Interfaces]

Decide(server, facts) ==
  IF server = "x11" THEN "x11"
  ELSE IF /\ server = "wayland" /\ facts # None
          /\ facts.gnome /\ facts.running = "yes" /\ facts.registry
          /\ facts.interfaces = Interfaces
       THEN "portal" ELSE "none"

PixelInit ==
  /\ \E server \in {"x11", "wayland", "none"}, facts \in WaylandFacts \cup {None} :
       route = Decide(server, facts)
  /\ follows \in IF route = "x11" THEN {"watch", "badge"} ELSE {"watch"}
  /\ PortalInit /\ FramesInit /\ BadgeInit

route_vars == <<route, follows>>

PixelNext ==
  \/ route = "portal" /\ PortalNext
     /\ UNCHANGED <<route_vars, frames_vars, badge_vars>>
  \/ route = "x11" /\ follows = "watch" /\ FramesNext
     /\ UNCHANGED <<route_vars, portal_all, badge_vars>>
  \/ route = "x11" /\ follows = "badge" /\ BadgeNext
     /\ UNCHANGED <<route_vars, portal_all, frames_vars>>

PixelSpec == PixelInit /\ [][PixelNext]_<<route_vars, portal_all, frames_vars, badge_vars>>
=============================================================================
