------------------------------ MODULE Semantic ------------------------------
(***************************************************************************)
(* What the worker does with a tree: elements lists it and keeps a         *)
(* reference to each node listed; wait_for looks until a condition holds;  *)
(* a verb finds its reference again, reads the state it is to change,      *)
(* sends, and reads the state back.  (semantic.rs, main.rs, and on Linux   *)
(* identity.rs and acting.rs.)  Between two messages the application and   *)
(* the person act, and a pause may end the request.                        *)
(***************************************************************************)
EXTENDS TreeWalk

CONSTANTS
  RoleOf,    \* each node's role
  Field,     \* the one text field
  Shapes,    \* what elements is asked to list
  Conditions,  \* what a wait waits for: [appears, lists]
  Verbs,     \* what is asked of a reference: [verb, wanted]
  Looks,     \* looks of one wait, at most
  Tries,     \* READS: times a candidate that does not answer is read
  Polls,     \* reads of a read-back after the first
  MaxJobs    \* bound: requests

\* A select has one way to go.
ASSUME SemanticAssumption ==
  /\ Field \in Nodes
  /\ Shapes \subseteq [lists : SUBSET Nodes, skeleton : BOOLEAN]
  /\ Conditions \subseteq [appears : BOOLEAN, lists : SUBSET Nodes]
  /\ Verbs \subseteq [verb : {"select", "toggle", "type"}, wanted : BOOLEAN]
  /\ \A v \in Verbs : v.verb = "select" => v.wanted
  /\ {Looks, Tries, Polls, MaxJobs} \subseteq Nat

VARIABLES
  refs,   \* the references of the last listing
  job,    \* the request on the worker, or NoJob
  jobs,   \* requests so far
  paused, \* a control barred input under the request
  lands   \* history: the messages of the request that took effect

semantic_vars == <<refs, job, jobs, paused, lands>>
vars == <<app_vars, walk_vars, semantic_vars>>

NoJob == [kind |-> "none", at |-> "idle"]

SemanticInit ==
  /\ AppInit /\ WalkInit
  /\ refs = <<>> /\ job = NoJob /\ jobs = 0 /\ paused = FALSE /\ lands = {}

App    == UNCHANGED app_vars
Worker == UNCHANGED <<refs, jobs, paused>>
NoWalk == UNCHANGED walk_vars

At(kind, step) == job.kind = kind /\ job.at = step

Answered(code) == [job EXCEPT !.at = "answered", !.code = code]

\* ---- requests ---------------------------------------------------------------------

Takes(new) ==
  /\ job = NoJob /\ jobs < MaxJobs
  /\ job' = new /\ jobs' = jobs + 1
  /\ UNCHANGED <<refs, paused, lands>>

TakeElements ==
  \E shape \in Shapes :
    /\ jobs = 0  \* bound: a listing or a wait comes first
    /\ Takes([kind |-> "elements", at |-> "walk", code |-> None])
    /\ StartsWalk(shape)

TakeWait ==
  \E c \in Conditions :
    /\ jobs = 0
    /\ Takes([kind |-> "wait", at |-> "walk", code |-> None, cond |-> c, looks |-> 1,
              truncated |-> None])
    /\ StartsWalk([lists |-> c.lists, skeleton |-> FALSE])

TakeVerb ==
  \E v \in Verbs, i \in DOMAIN refs :
    /\ IF v.verb = "type" THEN refs[i].shown = Field ELSE refs[i].handle.parent = Table
    /\ Takes([kind |-> "verb", at |-> "look", code |-> None, verb |-> v.verb,
              wanted |-> v.wanted, ref |-> refs[i], tries |-> 0, placed |-> None, was |-> None,
              index |-> 0, polls |-> 0, sent |-> FALSE, arranged |-> arranged,
              changes |-> changes, effect |-> None])
    /\ App /\ NoWalk

\* A control: no more input until it is lifted, which is after this request.  A walk
\* does not look for one: what comes during it is met at its end.
PauseComes ==
  /\ job # NoJob /\ job.at \notin {"walk", "answered"} /\ ~paused
  /\ paused' = TRUE
  /\ UNCHANGED <<app_vars, walk_vars, refs, job, jobs, lands>>

Reply ==
  /\ job # NoJob /\ job.at = "answered"
  /\ job' = NoJob /\ walk' = None /\ overdue' = FALSE
  /\ stayed' = {} /\ steady' = {} /\ lands' = {} /\ paused' = FALSE
  /\ UNCHANGED <<toolkit, kids, on, changes, troubles, arranged, refs, jobs>>

Walks ==
  /\ job # NoJob /\ job.at = "walk" /\ WalkStep
  /\ UNCHANGED semantic_vars

\* ---- elements ----------------------------------------------------------------------

ListElements ==
  /\ At("elements", "walk") /\ Finished
  /\ refs' = walk.nodes
  /\ job' = Answered("ok")
  /\ App /\ NoWalk /\ UNCHANGED <<jobs, paused, lands>>

\* ---- wait_for ----------------------------------------------------------------------

\* Slip: what a look did not list is not there.
Seen_NotListedIsAbsent(c, w) ==
  IF c.appears = (w.nodes # <<>>) THEN "holds" ELSE "not"

\* look, absent: an absence holds only when the look saw everything.
Seen(c, w) ==
  IF c.appears THEN IF w.nodes # <<>> THEN "holds" ELSE "not"
  ELSE IF w.nodes # <<>> THEN "not"
  ELSE IF w.truncated = None THEN "holds" ELSE "unproven"

\* wait: the looks and the time of a wait are both bounded.
LookEnds ==
  /\ At("wait", "walk") /\ Finished
  /\ LET seen == Seen(job.cond, walk)
         j    == [job EXCEPT !.truncated = IF seen = "unproven" THEN walk.truncated ELSE None]
     IN  \/ seen = "holds" /\ job' = Answered("met")
         \/ /\ seen # "holds"
            /\ \/ job' = [j EXCEPT !.at = "answered", !.code = "not_met"]
               \/ job.looks < Looks /\ job' = [j EXCEPT !.at = "sleep"]
  /\ App /\ NoWalk /\ Worker /\ UNCHANGED lands

SleepEnds ==
  /\ At("wait", "sleep")
  /\ IF paused THEN job' = Answered("cancelled") /\ App /\ NoWalk
     ELSE /\ job' = [job EXCEPT !.at = "walk", !.looks = @ + 1]
          /\ StartsWalk(walk.shape)
  /\ Worker /\ UNCHANGED lands

\* ---- finding a reference again -----------------------------------------------------

\* A message of a verb; a reply leaves the tree as it is.
Asks(n, how) ==
  /\ Answers(n, how)
  /\ UNCHANGED <<toolkit, kids, on, changes, arranged, stayed, steady>>

VerbStep(j) == job' = j /\ NoWalk /\ Worker

\* at_path: the node at a path of child indices below the root.
AtPath(path) ==
  LET node[i \in 0 .. Len(path)] ==
        IF i = 0 THEN Root ELSE ChildAt(node[i - 1], path[i])
  IN  node[Len(path)]

\* A look that one candidate did not answer in time is made again, Tries at most.
Unreadable ==
  IF job.tries + 1 < Tries THEN [job EXCEPT !.at = "look", !.tries = @ + 1]
  ELSE Answered("identity_unknown")

\* look: the object at the reference's place.
LookAtPlace ==
  /\ At("verb", "look")
  /\ \/ /\ VerbStep([job EXCEPT !.at = "candidates", !.placed = AtPath(job.ref.handle.path),
                       !.arranged = arranged, !.changes = changes])
        /\ App
     \/ Asks(Root, "late") /\ VerbStep(Unreadable)
  /\ UNCHANGED lands

\* listed_elsewhere: the object answers its role and its own parent lists it; whether
\* the tree still has that parent is not asked.
ListedElsewhere(h) == ~Positional(h) /\ Present(h.node) /\ h.node \in Kept

\* by_its_account: Qt's object says it is the child its place names.
SaysItIsThere(h) == Positional(h) /\ AtPath(Front(h.path)) = Table /\ Designated(h) # None

SameRole(n) == n # None /\ RoleOf[n] = RoleOf[job.ref.shown]

\* verdict: what the candidates come to.
Verdict ==
  LET h     == job.ref.handle
      there == SameRole(job.placed)
      moved == ListedElsewhere(h) /\ SameRole(h.node)
  IN  CASE ~Positional(h) /\ job.placed = h.node -> "one"
        [] SaysItIsThere(h) -> IF SameRole(Designated(h)) THEN "placed" ELSE "stale_element"
        [] there /\ moved   -> "ambiguous_element"
        [] moved            -> "one"
        [] OTHER            -> "stale_element"

Candidates ==
  /\ At("verb", "candidates")
  /\ \/ /\ VerbStep(IF Verdict \in {"one", "placed"} THEN [job EXCEPT !.at = Verdict]
                    ELSE Answered(Verdict))
        /\ App
     \/ \E n \in Attached : Asks(n, "late") /\ VerbStep(Unreadable)
  /\ UNCHANGED lands

\* Slip: an object at its place is taken for the control.
StillAsListed_AnyLabel(n) == SameRole(n)

\* still_as_listed: an object found by its own account still says what was listed.
StillAsListed(n) == SameRole(n) /\ n = job.ref.shown

\* The container selects an item on GTK; Qt's item toggles itself.
Selects == job.verb = "select" /\ toolkit = "gtk"

\* routed: what is read first, before anything is sent.
Route == IF job.verb = "type" THEN "selection" ELSE IF Selects THEN "container" ELSE "state"

\* answering: the control's facts, by which it is the one listed.
Reread ==
  /\ At("verb", "one") \/ At("verb", "placed")
  /\ LET n == Designated(job.ref.handle)
         same == IF job.at = "placed" THEN StillAsListed(n) ELSE SameRole(n)
     IN  \E how \in {"ok", "gone", "late", "refused"} :
           /\ Asks(n, how)
           /\ VerbStep(IF how = "ok" /\ same THEN [job EXCEPT !.at = Route]
                       ELSE Answered("stale_element"))
  /\ UNCHANGED lands

\* ---- a verb that ends in a state: select and toggle ----------------------------------

\* Slip: a control already in the state is sent the message all the same.
Already_Never(was) == FALSE

Already(was) == was = job.wanted

\* selecting_container: the parent the item has now, if it selects its children.
FindContainer ==
  /\ At("verb", "container")
  /\ LET n == job.ref.handle.node
     IN  \/ /\ App
            /\ VerbStep(IF n \in Kids(Table) THEN [job EXCEPT !.at = "state"]
                        ELSE Answered("ax_action_unsupported"))
         \/ /\ \E how \in {"gone", "late", "refused"} : Asks(n, how)
            /\ VerbStep(Answered("ax_action_unsupported"))
  /\ UNCHANGED lands

\* state_before, already: a state that will not be read decides nothing.
StateBefore ==
  /\ At("verb", "state")
  /\ LET n == Designated(job.ref.handle)
     IN  \E how \in {"ok", "gone", "late", "refused"} :
           /\ Asks(n, how)
           /\ VerbStep(
                IF how # "ok" THEN Answered("state_unreadable")
                ELSE IF Already(n \in on)
                     THEN [Answered("ok") EXCEPT !.effect = "not_observed", !.was = n \in on]
                ELSE [job EXCEPT !.at = IF Selects THEN "index" ELSE "send", !.was = n \in on])
  /\ UNCHANGED lands

\* The gate refuses a message under a barrier.
Barred == paused /\ VerbStep(Answered("paused")) /\ App /\ UNCHANGED lands

\* select_child: the index the item says it has, whoever lists it now, read before the
\* message.
ReadIndex ==
  /\ At("verb", "index")
  /\ \/ Barred
     \/ /\ ~paused
        /\ LET n == job.ref.handle.node
           IN  \/ /\ \E p \in Nodes : \E i \in DOMAIN kids[p] :
                       kids[p][i] = n /\ VerbStep([job EXCEPT !.at = "send", !.index = i])
                  /\ App
               \/ n \notin Kept /\ App /\ VerbStep(Answered("ax_action_failed"))
               \/ /\ \E how \in {"gone", "late", "refused"} : Asks(n, how)
                  /\ VerbStep(Answered("state_unreadable"))
        /\ UNCHANGED lands

\* Where the message goes: an item's own object, or the container's child at an index.
Addressee == IF Selects THEN ChildAt(Table, job.index) ELSE Designated(job.ref.handle)

\* Listed: some node lists it now, be it itself in the tree or not.
Lands(n) ==
  /\ on' = IF ~Selects /\ n \in on THEN on \ {n} ELSE on \cup {n}
  /\ lands' = {[to |-> n, listed |-> n \in Kept, on |-> n \in on']}

\* send: one message.  Late: it may have landed, and the receipt says sent.
Send ==
  /\ At("verb", "send")
  /\ \/ Barred /\ ~Selects
     \/ /\ ~paused \/ Selects
        /\ LET n == Addressee
           IN  \/ /\ Answers(n, "ok") /\ Lands(n)
                  /\ VerbStep([job EXCEPT !.at = "judge", !.sent = TRUE])
               \/ /\ Answers(n, "late") /\ (Lands(n) \/ UNCHANGED <<on, lands>>)
                  /\ VerbStep([Answered("sent_unknown") EXCEPT !.sent = TRUE])
               \/ /\ \E how \in {"gone", "refused"} : Answers(n, how)
                  /\ UNCHANGED <<on, lands>>
                  /\ VerbStep(Answered("ax_action_failed"))
        /\ UNCHANGED <<toolkit, kids, changes, arranged, stayed, steady>>

\* judge: the state read back, a few times while the application catches up.
Judge ==
  /\ At("verb", "judge")
  /\ LET n == Designated(job.ref.handle)
     IN  \E how \in {"ok", "gone", "late", "refused"} :
           LET shows  == how = "ok" /\ (n \in on) = job.wanted
               effect == IF how # "ok" THEN "unknown"
                         ELSE IF shows THEN "changed" ELSE "not_observed"
           IN  /\ Asks(n, how)
               /\ VerbStep(IF ~shows /\ ~paused /\ job.polls < Polls
                           THEN [job EXCEPT !.polls = @ + 1]
                           ELSE [Answered("ok") EXCEPT !.effect = effect])
  /\ UNCHANGED lands

\* ---- type --------------------------------------------------------------------------

\* type_text: the selections are counted, under the gate's word.
ReadSelection ==
  /\ At("verb", "selection")
  /\ \/ Barred
     \/ /\ ~paused
        /\ \E how \in {"ok", "gone", "late", "refused"}, next \in {"delete", "insert"} :
             /\ Asks(Field, how)
             /\ VerbStep(IF how # "ok" THEN Answered("state_unreadable")
                         ELSE [job EXCEPT !.at = next])
        /\ UNCHANGED lands

Writes ==
  lands' = {[to |-> Field, listed |-> Field \in Kept, on |-> job.wanted]}

\* A write of the field and the three ways it ends.
Write(done, failed) ==
  /\ \/ Asks(Field, "ok") /\ Writes /\ VerbStep(done)
     \/ /\ Asks(Field, "late") /\ (Writes \/ UNCHANGED lands)
        /\ VerbStep([Answered("sent_unknown") EXCEPT !.sent = TRUE])
     \/ /\ \E how \in {"gone", "refused"} : Asks(Field, how)
        /\ UNCHANGED lands
        /\ VerbStep(failed)

\* delete_selection: refused, nothing has changed yet.
DeleteSelection ==
  /\ At("verb", "delete")
  /\ Write([job EXCEPT !.at = "insert", !.was = TRUE], Answered("ax_action_failed"))

\* Slip: a refused insertion says nothing went out.
InsertFailed_Unsent == Answered("ax_action_failed")

\* Once a deletion went out, a failure after it says so.
InsertFailed ==
  IF job.was = TRUE THEN [Answered("sent_unknown") EXCEPT !.sent = TRUE]
  ELSE Answered("ax_action_failed")

InsertText ==
  /\ At("verb", "insert")
  /\ Write([Answered("ok") EXCEPT !.sent = TRUE], InsertFailed)

\* ---- the specification ----------------------------------------------------------------

Outside ==
  /\ \/ ListChanges
     \/ job.kind = "verb" /\ Flips  \* a walk compares no state
  /\ UNCHANGED <<walk_vars, semantic_vars>>

Deadline == DeadlinePasses /\ UNCHANGED semantic_vars

\* Between requests the worker waits for one.
Idle == job = NoJob /\ UNCHANGED vars

SemanticNext ==
  \/ TakeElements \/ TakeWait \/ TakeVerb \/ Walks \/ ListElements \/ LookEnds \/ SleepEnds
  \/ LookAtPlace \/ Candidates \/ Reread \/ FindContainer \/ StateBefore \/ ReadIndex
  \/ Send \/ Judge
  \/ ReadSelection \/ DeleteSelection \/ InsertText \/ Reply
  \/ PauseComes \/ Outside \/ Deadline \/ Idle

SemanticSpec == SemanticInit /\ [][SemanticNext]_vars

\* ---- what a verb and a wait promise ------------------------------------------------------

(***************************************************************************)
(* A wait for something to disappear is met only when no matching node was *)
(* in the tree, refusing nothing, throughout its last look; but for one    *)
(* that moved in a list the look was part way through.                     *)
(***************************************************************************)
AbsencesAreProven ==
  At("wait", "answered") /\ job.code = "met" /\ ~job.cond.appears =>
    steady \cap job.cond.lists \cap Inside = {}

(***************************************************************************)
(* PROTOCOL.md: disappears holds only when a look saw the whole scope and  *)
(* listed no match; and tree.rs: a look that does not say it was cut short *)
(* saw the whole tree.  So no matching node was in the tree, refusing      *)
(* nothing, throughout the look, moved or not.                             *)
(***************************************************************************)
LooksSeeTheWhole ==
  At("wait", "answered") /\ job.code = "met" /\ ~job.cond.appears =>
    stayed \cap job.cond.lists \cap Inside = {}

(***************************************************************************)
(* A message of a verb takes effect on the control that was listed, while  *)
(* its own parent still lists it, unless a list changed since the look     *)
(* that found the reference again began.  That parent may by then be in no *)
(* tree: the look asks no further up.                                      *)
(***************************************************************************)
MessagesLandOnTheListed ==
  \A m \in lands :
    \/ m.to = job.ref.shown /\ m.listed
    \/ arranged > job.arranged

(***************************************************************************)
(* A toggle or a select never leaves a control in the other state than the *)
(* one asked for, unless the application or the person changed something   *)
(* while the verb was at work.                                             *)
(***************************************************************************)
WritesEndAsAsked ==
  \A m \in lands : m.on = job.wanted \/ changes > job.changes

(***************************************************************************)
(* A verb whose answer says nothing was sent has changed nothing: no       *)
(* message of it took effect.                                              *)
(***************************************************************************)
NotSentMeansUntouched ==
  At("verb", "answered") /\ ~job.sent => lands = {}
=============================================================================
