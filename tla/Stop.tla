-------------------------------- MODULE Stop --------------------------------
(***************************************************************************)
(* What the sidecar promises the person who may stop it, without a gate,   *)
(* threads or flags.  Requests act on a machine one at a time.  A stop may *)
(* come at any moment: it answers with the request that was acting, after  *)
(* it that request starts nothing more, and only a call that was already   *)
(* under way may still land.  A request is reported on once, after its     *)
(* last call returned, and the report owns up to what landed.  While the   *)
(* machine is held no request that touches it begins.                      *)
(*                                                                         *)
(* GateHistory is shown to implement this module: by TLC in MCGate, for    *)
(* all its constants in GateProofs.                                        *)
(***************************************************************************)
EXTENDS Naturals, Sequences

CONSTANTS
  Ids,        \* what a request is called
  Nobody      \* no request

VARIABLES
  requests,   \* how many requests have begun
  acting,     \* the name of the one that acts, or Nobody
  touches,    \* it is one that touches the machine
  under_way,  \* a call of it was let through and has not returned
  stopped,    \* it was stopped
  held,       \* the machine is held
  named,      \* what each stop answered
  touched,    \* the requests, by number, whose input reached the machine
  reports     \* what was reported of each request

the_acting == <<requests, acting, touches>>
the_told   == <<named, reports>>
vars       == <<the_acting, under_way, stopped, held, touched, the_told>>

Init ==
  /\ requests = 0 /\ acting = Nobody /\ touches = FALSE
  /\ under_way = FALSE /\ stopped = FALSE /\ held = FALSE
  /\ named = <<>> /\ touched = {} /\ reports = {}

Begin(id, of_input) ==
  /\ acting = Nobody
  /\ held => ~of_input
  /\ requests' = requests + 1 /\ acting' = id /\ touches' = of_input
  /\ stopped' = FALSE
  /\ UNCHANGED <<under_way, held, touched, the_told>>

MayStart == touches /\ ~stopped /\ ~held

\* Input that is posted in one step with the check.
Post ==
  /\ MayStart
  /\ touched' = touched \cup {requests}
  /\ UNCHANGED <<the_acting, under_way, stopped, held, the_told>>

StartCall ==
  /\ MayStart
  /\ under_way' = TRUE
  /\ UNCHANGED <<the_acting, stopped, held, touched, the_told>>

CallLands ==
  /\ under_way
  /\ touched' = touched \cup {requests}
  /\ UNCHANGED <<the_acting, under_way, stopped, held, the_told>>

CallReturns ==
  /\ under_way' = FALSE
  /\ UNCHANGED <<the_acting, stopped, held, touched, the_told>>

Report(posted) ==
  /\ acting # Nobody /\ ~under_way
  /\ requests \in touched => posted
  /\ reports' = reports \cup
       {[n |-> requests, posted |-> posted, cancelled |-> stopped]}
  /\ acting' = Nobody /\ touches' = FALSE /\ stopped' = FALSE
  /\ UNCHANGED <<requests, under_way, held, named, touched>>

\* A stop that holds the machine, or one that only ends what acts.
StopNow(holds) ==
  /\ named' = Append(named, acting)
  /\ stopped' = (acting # Nobody)
  /\ held' = (held \/ holds)
  /\ UNCHANGED <<the_acting, under_way, touched, reports>>

Lift ==
  /\ held' = FALSE
  /\ UNCHANGED <<the_acting, under_way, stopped, touched, the_told>>

Next ==
  \/ \E id \in Ids, of_input \in BOOLEAN : Begin(id, of_input)
  \/ Post \/ StartCall \/ CallLands \/ CallReturns
  \/ \E posted \in BOOLEAN : Report(posted)
  \/ \E holds \in BOOLEAN : StopNow(holds)
  \/ Lift

Spec == Init /\ [][Next]_vars
=============================================================================
