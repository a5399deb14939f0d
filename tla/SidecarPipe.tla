----------------------------- MODULE SidecarPipe -----------------------------
(***************************************************************************)
(* The sidecar behind a raw pipe: a parent that writes request and control *)
(* lines whenever it likes, without waiting for an answer, quoting the     *)
(* newest generation it has read.  Every line carries an id of its own.    *)
(***************************************************************************)
EXTENDS Sidecar, FiniteSets, SequencesExt

CONSTANTS
  Actions,        \* the actions the parent asks for
  ParentControls, \* the controls it sends
  MaxLines        \* bound: lines written in one behaviour

VARIABLE written  \* how many lines were written; each carries its number as its id

pipe_vars == <<sidecar_vars, written>>

PipeInit == SidecarInit /\ written = 0

\* The generations the parent has read in an acknowledgement or an event, and the
\* one both sides start with.
Published ==
  {1} \cup {f.authorization_generation :
              f \in {g \in ToSet(stdout) : g.type \in {"control_ack", "session_event"}}}

Newest == CHOOSE g \in Published : \A h \in Published : h <= g

Write(line) ==
  /\ Running /\ stdin_open
  /\ written < MaxLines /\ written' = written + 1
  /\ stdin' = Append(stdin, line)
  /\ UNCHANGED <<gate_vars, stdin_open, stdout, reader_vars, jobs, worker_vars, badge,
                 released_at, process>>

WriteRequest ==
  \E action \in Actions :
    Write([type |-> "request",
           body |-> [request_id |-> written + 1, action |-> action,
                     sidecar_generation |-> SidecarGeneration,
                     authorization_generation |-> Newest,
                     mutation_seq |-> IF CarriesMutationSeq(action) THEN written + 1
                                      ELSE Absent]])

WriteControl ==
  \E action \in ParentControls :
    Write([type |-> "control",
           body |-> [request_id |-> written + 1, action |-> action,
                     authorization_generation |-> Newest]])

CloseStdin ==
  /\ Running /\ stdin_open
  /\ stdin_open' = FALSE
  /\ UNCHANGED <<gate_vars, stdin, stdout, reader_vars, jobs, worker_vars, badge,
                 released_at, process, written>>

Parent == WriteRequest \/ WriteControl \/ CloseStdin

PipeNext == Parent \/ (SidecarNext /\ UNCHANGED written)

PipeSpec == PipeInit /\ [][PipeNext]_pipe_vars

\* The reader thread runs: it blocks on nothing but stdin and one short mutex.
ListeningSpec == PipeSpec /\ WF_pipe_vars(ReaderThread /\ UNCHANGED written)

\* The worker runs, and every platform call it makes returns.
WorkerFairness ==
  /\ WF_pipe_vars(WorkerProgress /\ UNCHANGED written)
  /\ WF_pipe_vars(BadgeEmits /\ UNCHANGED written)
-----------------------------------------------------------------------------
(* Properties. *)

Replies  == SelectSeq(stdout, LAMBDA f : f.type # "session_event")
Answered == {Replies[i].request_id : i \in DOMAIN Replies}

\* A request admitted after a release finds nothing minted before it: the table is
\* cleared before anything is served under the authority the release installed,
\* although the flag is raised by one thread and acted on by another (take_release).
NothingInheritedPastARelease ==
  worker = "handling" /\ job.action \notin UngatedActions
    /\ job.authorization_generation >= released_at
      => \A held \in seat : held.minted >= released_at

\* Pause, resume and release are answered while the worker runs, and even if the
\* call it is in never returns: the reader waits for neither.
ControlsAreAnswered ==
  \A id \in 1 .. MaxLines :
    (\E i \in DOMAIN stdin : stdin[i].type = "control" /\ stdin[i].body.request_id = id)
      ~> (id \in Answered \/ ~Running)

\* Every line written gets its answer, if the worker's platform calls return: closing
\* stdin is not a kill, and only a capture that stalls ends the process before it has
\* answered what it was given.
EveryLineIsAnswered ==
  WorkerFairness =>
    \A id \in 1 .. MaxLines :
      (id <= written) ~> (id \in Answered \/ process = "capture_stalled")
=============================================================================
