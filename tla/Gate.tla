-------------------------------- MODULE Gate --------------------------------
(***************************************************************************)
(* The sidecar's admission gate, native/compux/src/gate.rs: one mutex over *)
(* the authorization generation, the pause flag, the mutation_seq          *)
(* high-water mark and the request in flight, and two atomics, cancelled   *)
(* and released, read without it.                                          *)
(*                                                                         *)
(* Two kinds of thread meet here.  One action worker admits a request,     *)
(* dispatches its input and finishes it; the control reader and the badge  *)
(* apply controls at any moment.  Every action below is one critical       *)
(* section of the mutex, or one step the worker takes outside it: the two  *)
(* platform calls that run unlocked (dispatch_long, dispatch_message) are  *)
(* split into their check, the moment input reaches the machine, and the   *)
(* moment the gate is told.                                                *)
(*                                                                         *)
(* GateHistory closes this module with the two threads and records what    *)
(* they did; Sidecar puts the reader, the worker and the badge around it.  *)
(***************************************************************************)
EXTENDS Wire, Naturals, Sequences

CONSTANTS
  Requests,           \* the request lines a client may send
  SidecarGeneration,  \* this boot's id, half of the envelope
  Absent              \* an Option that is None

RequestType ==
  [request_id: Nat, action: WireActions, sidecar_generation: {SidecarGeneration, Absent},
   authorization_generation: Nat \cup {Absent}, mutation_seq: Nat \cup {Absent}]

ASSUME GateAssumption ==
  /\ Requests \subseteq RequestType
  /\ Absent \notin Nat /\ SidecarGeneration # Absent

VARIABLES
  authorization_generation, paused, mutation_high_water, in_flight,  \* State
  cancelled, released,                                               \* atomics
  call           \* where the worker stands between two gate operations

state_vars == <<authorization_generation, paused, mutation_high_water, in_flight>>
atomics    == <<cancelled, released>>
gate_vars  == <<state_vars, atomics, call>>

Controls == {"pause", "resume", "release"}

\* in_flight when it is None.
Idle == [request_id |-> 0, action |-> "none", posted |-> FALSE,
         input_complete |-> FALSE]

Busy == in_flight # Idle

Init ==
  /\ authorization_generation = 1
  /\ paused = FALSE
  /\ mutation_high_water = 0
  /\ in_flight = Idle
  /\ cancelled = FALSE
  /\ released = FALSE
  /\ call = "none"
-----------------------------------------------------------------------------
(* Admission. *)

CurrentGenerations(r) ==
  /\ r.sidecar_generation = SidecarGeneration
  /\ r.authorization_generation = authorization_generation

\* Slip: a repeated sequence number passes.
NewSequence_OrEqual(r) ==
  CarriesMutationSeq(r.action) =>
    r.mutation_seq # Absent /\ r.mutation_seq >= mutation_high_water

NewSequence(r) ==
  CarriesMutationSeq(r.action) =>
    r.mutation_seq # Absent /\ r.mutation_seq > mutation_high_water

\* The reason admit refuses r, or "none".  Generations first, then the
\* sequence number, then the pause.
Refusal(r) ==
  CASE r.action \in UngatedActions -> "none"
    [] r.action \notin UngatedActions /\ ~CurrentGenerations(r) -> "stale_generation"
    [] r.action \notin UngatedActions /\ CurrentGenerations(r) /\ ~NewSequence(r)
         -> "stale_mutation"
    [] OTHER -> IF paused /\ BarredByAPause(r.action) THEN "paused" ELSE "none"

\* Slip: the predecessor's cancellation is kept.
Admit_KeepsCancelled(r) ==
  /\ ~Busy /\ Refusal(r) = "none"
  /\ mutation_high_water' =
       IF r.action \notin UngatedActions /\ r.mutation_seq # Absent
       THEN r.mutation_seq ELSE mutation_high_water
  /\ in_flight' = [request_id |-> r.request_id, action |-> r.action,
                   posted |-> FALSE, input_complete |-> FALSE]
  /\ UNCHANGED <<authorization_generation, paused, atomics, call>>

\* admit: become the request in flight.  Only the worker calls it, one request
\* at a time, so nothing is in flight.
Admit(r) ==
  /\ ~Busy
  /\ Refusal(r) = "none"
  /\ mutation_high_water' =
       IF r.action \notin UngatedActions /\ r.mutation_seq # Absent
       THEN r.mutation_seq ELSE mutation_high_water
  /\ in_flight' = [request_id |-> r.request_id, action |-> r.action,
                   posted |-> FALSE, input_complete |-> FALSE]
  /\ cancelled' = FALSE
  /\ UNCHANGED <<authorization_generation, paused, released, call>>

\* take_release: the worker asks once before it serves each job.
TakeRelease ==
  /\ ~Busy
  /\ released' = FALSE
  /\ UNCHANGED <<state_vars, cancelled, call>>
-----------------------------------------------------------------------------
(* Dispatch: what the request in flight may put on the machine. *)

\* Slip: only the pause is asked, so a resume reopens the gate.
Open_UnlessPaused == ~paused

Open == ~cancelled /\ ~paused

\* The worker is between gate operations of an action that still has input to
\* send through this route.
MayAsk(actions) ==
  /\ Busy /\ call = "none"
  /\ ~in_flight.input_complete
  /\ in_flight.action \in actions

\* mark: the request has put input on the machine.
Mark ==
  /\ in_flight' = [in_flight EXCEPT !.posted = TRUE]
  /\ UNCHANGED <<authorization_generation, paused, mutation_high_water, atomics>>

\* dispatch: the check, the post and the mark under one mutex.  A platform error
\* ends the sequence, but the event may have gone out, so it is marked either way.
Dispatch ==
  /\ MayAsk(EventActions) /\ Open
  /\ Mark
  /\ call' \in {"none", "failed"}

\* dispatch_long: checked and marked under the mutex, called outside it.
BeginLong ==
  /\ MayAsk(LongActions) /\ Open
  /\ Mark
  /\ call' = "long"

CallMoves(from, to) ==
  /\ call \in from /\ call' \in to
  /\ UNCHANGED <<state_vars, atomics>>

EndLong == CallMoves({"long"}, {"answered", "failed"})

\* dispatch_message: checked under the mutex, sent outside it, and marked only
\* when the platform says it went out.
CheckMessage ==
  /\ MayAsk(MessageActions \cup {"type"}) /\ Open
  /\ CallMoves({"none"}, {"message"})

\* The platform answers: the message went out (or it gave up waiting after it
\* had), or it never left this process.
MessageGoesOut == CallMoves({"message"}, {"went_out"})

MessageRefused == CallMoves({"message"}, {"not_sent"})

\* Slip: a message that went out is not marked.
EndMessage_Unmarked == CallMoves({"went_out", "not_sent"}, {"answered"})

\* The end of dispatch_message: mark it if it went out, record its cost if not.
EndMessage ==
  \/ call = "went_out" /\ Mark /\ call' = "answered"
  \/ CallMoves({"not_sent"}, {"answered"})

\* check refuses, or a checkpoint inside gate.sleep does: the sequence's `?`
\* carries the refusal out and nothing more is dispatched.
Refused ==
  /\ Busy /\ ~in_flight.input_complete
  /\ \/ cancelled
     \/ TouchesInput(in_flight.action) /\ paused
  /\ CallMoves({"none"}, {"failed"})

\* input_complete: the sequence ran to its end.  The accessibility verbs latch
\* it after their one message whatever it answered, type and scroll after their
\* one call.
InputComplete ==
  /\ \/ call = "answered"
     \/ MayAsk(EventActions \ LongActions) /\ in_flight.posted
  /\ call' = "none"
  /\ in_flight' = [in_flight EXCEPT !.input_complete = TRUE]
  /\ UNCHANGED <<authorization_generation, paused, mutation_high_water, atomics>>

\* Slip: the request is finished while its call has yet to return.
Finish_InTheCall ==
  /\ Busy
  /\ in_flight' = Idle
  /\ call' = call
  /\ UNCHANGED <<authorization_generation, paused, mutation_high_water, atomics>>

\* finish: take the request out of flight and hand back what it did.
Finish ==
  /\ Busy /\ call \in {"none", "failed"}
  /\ in_flight' = Idle
  /\ call' = "none"
  /\ UNCHANGED <<authorization_generation, paused, mutation_high_water, atomics>>
-----------------------------------------------------------------------------
(* Controls, from the reader and from the badge. *)

\* Slip: only the barrier that cancels a request names it.
RequestInFlight_Once == IF Busy /\ ~cancelled THEN in_flight.request_id ELSE Absent

\* in_flight_request_id: what an acknowledgement says was running.
RequestInFlight == IF Busy THEN in_flight.request_id ELSE Absent

\* Slip: the mutex is held across the platform call, so a barrier waits for it.
Barrier_WaitsForTheCall ==
  /\ call \notin {"long", "message"}
  /\ authorization_generation' = authorization_generation + 1
  /\ cancelled' = TRUE
  /\ UNCHANGED <<mutation_high_water, in_flight, call>>

\* What every pause and every release does: revoke, and cancel what is running.
Barrier ==
  /\ authorization_generation' = authorization_generation + 1
  /\ cancelled' = TRUE
  /\ UNCHANGED <<mutation_high_water, in_flight, call>>

Pause   == paused' = TRUE /\ Barrier /\ UNCHANGED released

Release == released' = TRUE /\ Barrier /\ UNCHANGED paused

\* Slip: a resume applies whatever it believed.
ResumeApplies_Always(expected) == TRUE

\* A resume names the generation it believes it lifts; the badge names none.
ResumeApplies(expected) == expected \in {Absent, authorization_generation}

Resume(expected) ==
  /\ ResumeApplies(expected)
  /\ paused' = FALSE
  /\ authorization_generation' = authorization_generation + 1
  /\ UNCHANGED <<mutation_high_water, in_flight, atomics, call>>

Control(action, expected) ==
  \/ action = "pause" /\ Pause
  \/ action = "release" /\ Release
  \/ action = "resume" /\ Resume(expected)
=============================================================================
