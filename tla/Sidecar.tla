------------------------------ MODULE Sidecar ------------------------------
(***************************************************************************)
(* The sidecar process around its gate: the control reader that owns stdin *)
(* (control.rs), the serial action worker on the main thread (main.rs),    *)
(* the badge's button thread (indicator.rs), and the Emitter they share.   *)
(*                                                                         *)
(* A thread's step is one gate operation, one channel operation or one     *)
(* line written: the gate's mutex is never held across a write, so a       *)
(* control's effect and its acknowledgement are two steps, and anything    *)
(* may happen between them.                                                *)
(***************************************************************************)
EXTENDS Gate

CONSTANTS
  Buttons,        \* the badge buttons a person presses
  PressLimit      \* bound: none is pressed once the generation reaches it

ASSUME SidecarAssumption ==
  /\ PressLimit \in Nat
  /\ Buttons \subseteq {"operator_pause", "operator_resume", "operator_stop"}

VARIABLES
  stdin,        \* lines written by the parent and not yet read
  stdin_open,   \* FALSE once the parent closed its end
  stdout,       \* lines written by the Emitter
  reader,       \* the control reader: where it stands
  heard,        \* the frame it is handling, or the frame it owes
  jobs,         \* the channel of capacity one
  worker,       \* the action worker: where it stands
  job,          \* the request it was handed
  answer,       \* the code its reply will carry
  badge,        \* frames a pressed button still owes
  seat,         \* what the worker holds for a caller, each with its generation
  released_at,  \* history: the generation the last release installed
  process       \* "running", or how it ended

pipes        == <<stdin, stdin_open, stdout>>
reader_vars  == <<reader, heard>>
worker_vars  == <<worker, job, answer, seat>>
sidecar_vars == <<gate_vars, pipes, reader_vars, jobs, worker_vars, badge, released_at,
                  process>>

SidecarInit ==
  /\ Init
  /\ stdin = <<>> /\ stdin_open = TRUE /\ stdout = <<>>
  /\ reader = "reading" /\ heard = Absent
  /\ jobs = <<>>
  /\ worker = "receiving" /\ job = Absent /\ answer = Absent
  /\ badge = <<>>
  /\ seat = {}
  /\ released_at = 0
  /\ process = "running"

Running == process = "running"

\* One line, whole: the Emitter writes it under its own mutex.
Emit(frame) == stdout' = Append(stdout, frame)

Response(r, code) ==
  [type |-> IF AnswersWithAck(r.action) THEN "ack" ELSE "response",
   request_id |-> r.request_id, code |-> code,
   sidecar_generation |-> SidecarGeneration]

Ack(c, ok) ==
  [type |-> "control_ack", request_id |-> c.request_id, action |-> c.action,
   ok |-> ok, authorization_generation |-> authorization_generation',
   sidecar_generation |-> SidecarGeneration,
   in_flight_request_id |-> RequestInFlight]

Event(name) ==
  [type |-> "session_event", event |-> name,
   authorization_generation |-> authorization_generation',
   sidecar_generation |-> SidecarGeneration]
-----------------------------------------------------------------------------
(* The control reader. *)

ReaderHandles(next) ==
  /\ Running
  /\ reader = "reading" /\ stdin # <<>>
  /\ stdin' = Tail(stdin)
  /\ reader' = next
  /\ UNCHANGED <<stdin_open, stdout, jobs, worker_vars, badge, process>>

\* acknowledge, up to the gate: a refused resume changes nothing there.
ReadControl ==
  /\ stdin # <<>> /\ Head(stdin).type = "control"
  /\ ReaderHandles("emitting")
  /\ LET c == Head(stdin).body
         refused == c.action = "resume" /\ ~ResumeApplies(c.authorization_generation)
     IN  /\ IF refused THEN UNCHANGED gate_vars
            ELSE Control(c.action, c.authorization_generation)
         /\ heard' = Ack(c, ~refused)
         /\ released_at' = IF c.action = "release" THEN authorization_generation'
                           ELSE released_at

\* offer begins: the frame is a request.
ReadRequest ==
  /\ stdin # <<>> /\ Head(stdin).type = "request"
  /\ ReaderHandles("offering")
  /\ heard' = Head(stdin).body
  /\ UNCHANGED <<gate_vars, released_at>>

ReaderSteps(from) ==
  /\ Running /\ reader = from
  /\ UNCHANGED <<gate_vars, stdin, stdin_open, worker_vars, badge, released_at, process>>

\* offer asks the gate whether a request is in flight.
OfferAsksTheGate ==
  /\ ReaderSteps("offering")
  /\ IF Busy THEN reader' = "emitting" /\ heard' = Response(heard, "busy")
     ELSE reader' = "sending" /\ UNCHANGED heard
  /\ UNCHANGED <<stdout, jobs>>

\* try_send: a full channel is the other way to be busy.
OfferSends ==
  /\ ReaderSteps("sending")
  /\ IF jobs # <<>>
     THEN reader' = "emitting" /\ heard' = Response(heard, "busy") /\ UNCHANGED jobs
     ELSE reader' = "reading" /\ heard' = Absent /\ jobs' = <<heard>>
  /\ UNCHANGED stdout

ReaderEmits ==
  /\ ReaderSteps("emitting")
  /\ Emit(heard)
  /\ reader' = "reading" /\ heard' = Absent
  /\ UNCHANGED jobs

\* stdin reached EOF: the sender is dropped with the thread.
ReaderEnds ==
  /\ ReaderSteps("reading")
  /\ stdin = <<>> /\ ~stdin_open
  /\ reader' = "done"
  /\ UNCHANGED <<heard, jobs, stdout>>
-----------------------------------------------------------------------------
(* The action worker. *)

WorkerMoves(from, next) ==
  /\ Running
  /\ worker = from /\ worker' = next
  /\ UNCHANGED <<stdin, stdin_open, reader_vars, badge, released_at>>

Receive ==
  /\ WorkerMoves("receiving", "received")
  /\ jobs # <<>> /\ job' = Head(jobs) /\ jobs' = <<>>
  /\ UNCHANGED <<gate_vars, stdout, answer, seat, process>>

\* Slip: a release drops the target and keeps the observations.
LetGo_OfTheTarget ==
  /\ WorkerMoves("received", "admitting")
  /\ TakeRelease
  /\ released => badge = <<>>
  /\ seat' = IF released THEN {held \in seat : held.what = "observation"} ELSE seat
  /\ UNCHANGED <<stdout, jobs, job, answer, process>>

\* The seat is let go of here, before anything is served: observations, target
\* and the portal session are the worker's alone to drop.  Dropping a target joins
\* its badge's reader, so a press it has read is reported first.
LetGo ==
  /\ WorkerMoves("received", "admitting")
  /\ TakeRelease
  /\ released => badge = <<>>
  /\ seat' = IF released THEN {} ELSE seat
  /\ UNCHANGED <<stdout, jobs, job, answer, process>>

AdmitJob ==
  /\ WorkerMoves("admitting", "handling")
  /\ Admit(job)
  /\ UNCHANGED <<stdout, jobs, job, answer, seat, process>>

\* Slip: a refused request is dropped without a word.
RefuseJob_Silently ==
  /\ WorkerMoves("admitting", "receiving")
  /\ Refusal(job) # "none"
  /\ job' = Absent
  /\ UNCHANGED <<gate_vars, stdout, jobs, answer, seat, process>>

RefuseJob ==
  /\ WorkerMoves("admitting", "reporting")
  /\ Refusal(job) # "none"
  /\ answer' = Refusal(job)
  /\ UNCHANGED <<gate_vars, stdout, jobs, job, seat, process>>

\* The action's own steps through the gate: those that start something, and those
\* that bring a call under way to its end.
ActThrough(step) ==
  /\ WorkerMoves("handling", "handling")
  /\ step
  /\ UNCHANGED <<stdout, jobs, job, answer, seat, process>>

Act == ActThrough(Dispatch \/ BeginLong \/ CheckMessage)

CallEnds ==
  ActThrough(\/ EndLong \/ MessageGoesOut \/ MessageRefused \/ EndMessage
             \/ Refused \/ InputComplete)

Holding(r) ==
  [what |-> IF r.action = "select_target" THEN "target" ELSE "observation",
   minted |-> r.authorization_generation]

\* handle returned and gate.finish ran.  What a caller may address later (a bound
\* window, an image or a listing) was minted while it ran, and the reply's code is
\* decided by the cancellation finish saw.
FinishJob ==
  /\ WorkerMoves("handling", "reporting")
  /\ Finish
  /\ \/ call # "failed" /\ answer' = "ok"
     \/ answer' = IF cancelled THEN "cancelled" ELSE "failed"
  /\ \/ UNCHANGED seat
     \/ /\ job.action \notin UngatedActions
        /\ seat' = seat \cup {Holding(job)}
  /\ UNCHANGED <<stdout, jobs, job, process>>

\* surfaces_after reads the tree once more after the request left the gate, then
\* the reply is written, then the exit a wedged capture backend forces
\* (EX_TEMPFAIL): any action that ran may have read the screen, whatever it
\* answered, and a refused one never ran.
ReplyJob ==
  /\ WorkerMoves("reporting", "receiving")
  /\ Emit(Response(job, answer))
  /\ job' = Absent /\ answer' = Absent
  /\ process' \in IF answer \in {"ok", "failed", "cancelled"}
                  THEN {"running", "capture_stalled"} ELSE {"running"}
  /\ UNCHANGED <<gate_vars, jobs, seat>>

\* Every sender is gone and the channel is drained: main returns.
WorkerEnds ==
  /\ WorkerMoves("receiving", "ended")
  /\ reader = "done" /\ jobs = <<>>
  /\ process' = "exited"
  /\ UNCHANGED <<gate_vars, stdout, jobs, job, answer, seat>>
-----------------------------------------------------------------------------
(* The badge: its buttons reach the gate directly and are reported after.  *)

\* A badge is on screen while a target is held or being bound.
BadgeUp ==
  \/ \E held \in seat : held.what = "target"
  \/ worker = "handling" /\ job.action = "select_target"

PressButton(event) ==
  /\ Running /\ BadgeUp
  /\ badge = <<>>
  /\ authorization_generation < PressLimit
  /\ IF event = "operator_resume" THEN Control("resume", Absent)
     ELSE Control("pause", Absent)
  /\ badge' = <<Event(event)>>
  /\ UNCHANGED <<pipes, reader_vars, jobs, worker_vars, released_at, process>>

BadgeEmits ==
  /\ Running
  /\ badge # <<>>
  /\ Emit(Head(badge))
  /\ badge' = <<>>
  /\ UNCHANGED <<gate_vars, stdin, stdin_open, reader_vars, jobs, worker_vars,
                 released_at, process>>
-----------------------------------------------------------------------------
ReaderThread ==
  ReadControl \/ ReadRequest \/ OfferAsksTheGate \/ OfferSends \/ ReaderEmits
    \/ ReaderEnds

\* The steps that bring a job to its reply, if the platform's calls return.
WorkerProgress ==
  Receive \/ LetGo \/ AdmitJob \/ RefuseJob \/ CallEnds \/ FinishJob
    \/ ReplyJob \/ WorkerEnds

WorkerThread == WorkerProgress \/ Act

BadgeThread == BadgeEmits \/ \E event \in Buttons : PressButton(event)

SidecarNext == ReaderThread \/ WorkerThread \/ BadgeThread
=============================================================================
