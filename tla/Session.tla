------------------------------ MODULE Session ------------------------------
(***************************************************************************)
(* One session, both ends: the library's transport (Transport) and the     *)
(* sidecar (Sidecar) with the two pipes between them.  What the transport  *)
(* writes is the sidecar's stdin, what the Emitter writes is what the      *)
(* transport reads, a poisoned or stopped transport kills the process and  *)
(* an ended process closes the Port.  The handshake is over when the       *)
(* session begins; TransportAlone has it.                                  *)
(***************************************************************************)
EXTENDS Sidecar

CONSTANTS
  Actions,            \* the actions clients ask for
  ClientControls,     \* the controls they send
  MaxPendingControls, \* @max_pending_controls
  MaxCalls            \* bound: calls in one behaviour

Codes == {"ok", "failed", "cancelled", "busy", "paused", "stale_generation", "stale_mutation"}

\* The library validates what it is asked for, and the observe verbs are not among it:
\* they are for a raw Port.  Its controls are three.  No code is an Option's None.
ASSUME SessionAssumption ==
  /\ Actions \subseteq WireActions \ {"observe_start", "observe_stop"}
  /\ ClientControls \subseteq Controls
  /\ Absent \notin Codes
  /\ MaxPendingControls \in Nat \ {0} /\ MaxCalls \in Nat

VARIABLES
  phase, handshake, handshake_waiter, pending_request, pending_controls, next_id,
  mutation_seq, sidecar_generation, acc_size, timers, port, mail,
  authority,     \* the transport's authorization_generation
  calls,         \* how many calls were made
  newest_pause,  \* history: the generation the last pause installed
  gate_when      \* history: the gate's generation as each id was written

T == INSTANCE Transport WITH
       outbox <- stdin, authorization_generation <- authority, MaxResponseBytes <- 1

library_vars == <<phase, handshake, handshake_waiter, pending_request, pending_controls,
                  next_id, mutation_seq, sidecar_generation, acc_size, timers, mail,
                  authority>>

history_vars == <<newest_pause, gate_when>>

session_vars == <<sidecar_vars, library_vars, port, calls, history_vars>>

\* A ready session: hello was id 1, and the sidecar's hello response was read.
SessionInit ==
  /\ SidecarInit
  /\ phase = "ready" /\ handshake = "ok" /\ handshake_waiter = Absent
  /\ pending_request = T!None /\ pending_controls = <<>>
  /\ next_id = 2
  /\ mutation_seq = 0 /\ authority = 1 /\ sidecar_generation = SidecarGeneration
  /\ acc_size = 0
  /\ timers = {}
  /\ port = "open"
  /\ mail = <<>>
  /\ calls = 0
  /\ newest_pause = 0
  /\ gate_when = <<0>>
-----------------------------------------------------------------------------
(* The library's steps.  The sidecar keeps everything but its pipes; it is *)
(* killed by the step that closes the Port under it.                       *)

Library(reads) ==
  /\ UNCHANGED <<gate_vars, stdin_open, reader_vars, jobs, worker_vars, badge, released_at,
                 newest_pause>>
  /\ IF reads THEN stdout' = Tail(stdout) ELSE UNCHANGED stdout
  /\ process' = IF port' = "closed" /\ Running THEN "killed" ELSE process
  /\ gate_when' = IF next_id' > next_id THEN Append(gate_when, authorization_generation)
                  ELSE gate_when

Client(step(_)) ==
  /\ calls < MaxCalls /\ calls' = calls + 1
  /\ step(calls + 1)
  /\ Library(FALSE)

CallRequest ==
  \E action \in Actions : Client(LAMBDA from : T!AdmitRequest(from, action, TRUE))

CallControl ==
  \E action \in ClientControls : Client(LAMBDA from : T!AdmitControl(from, action))

CallStop == Client(T!Stop)

\* A response in the transport's words: hello's fields are not read after it.
ReadLine ==
  /\ stdout # <<>>
  /\ T!Absorb("eol", 1, Head(stdout))
  /\ Library(TRUE) /\ UNCHANGED calls

HandleDeadline ==
  /\ \E id \in timers : T!Deadline(id)
  /\ Library(FALSE) /\ UNCHANGED calls

\* The process ended: the VM has read all it wrote and closes the Port.
PortEnds ==
  /\ ~Running /\ port = "open" /\ port' = "exited"
  /\ UNCHANGED <<sidecar_vars, library_vars, calls, history_vars>>

HandleExitStatus ==
  /\ stdout = <<>>
  /\ T!SidecarExited
  /\ Library(FALSE) /\ UNCHANGED calls

LibraryNext ==
  \/ CallRequest \/ CallControl \/ CallStop
  \/ ReadLine \/ HandleDeadline \/ PortEnds \/ HandleExitStatus

\* A pause is installed by this step: by the badge, or by the control just read.
InstallsAPause ==
  /\ paused' /\ authorization_generation' # authorization_generation
  /\ badge' = badge => heard'.action = "pause"

SidecarStep ==
  /\ SidecarNext
  /\ newest_pause' = IF InstallsAPause THEN authorization_generation' ELSE newest_pause
  /\ UNCHANGED <<library_vars, port, calls, gate_when>>

SessionNext == LibraryNext \/ SidecarStep

SessionSpec == SessionInit /\ [][SessionNext]_session_vars

\* Threads run, platform calls return, the VM delivers what it was sent.  No
\* client has to call, no person has to press anything, and no deadline has to
\* fire.
SessionFairness ==
  /\ WF_session_vars(ReaderThread /\ SidecarStep)
  /\ WF_session_vars(WorkerProgress /\ SidecarStep)
  /\ WF_session_vars(BadgeEmits /\ SidecarStep)
  /\ WF_session_vars(ReadLine \/ PortEnds \/ HandleExitStatus)

FairSessionSpec == SessionSpec /\ SessionFairness
-----------------------------------------------------------------------------
(* Properties. *)

What(kind) == {mail[i].what : i \in {j \in DOMAIN mail : mail[j].kind = kind}}

\* Against this sidecar nothing poisons the transport but a barrier whose
\* acknowledgement never came: every line it writes, late replies, busy refusals
\* and badge events among them, names an id the transport minted and carries this
\* boot's envelope.
OnlySilencePoisons == What("exit") \subseteq {"control_unconfirmed", "sidecar_exited"}

\* A sequence number the library mints is never behind the sidecar's high-water
\* mark, through refusals, busy answers and abandoned requests.
SequencesAreNeverStale == answer # "stale_mutation"

\* A resume a client sent lifts no pause installed after the line was written,
\* whoever installed it and however long the line waited.
ResumeLiftsNoNewerPause ==
  [][paused /\ ~paused' /\ badge' = badge
       => newest_pause <= gate_when[heard'.request_id]]_session_vars

\* A call is answered by the sidecar's own line or by the end of the session: the
\* deadline is for a sidecar that hangs, never what a lost line is found by.
CallsAreAnswered ==
  \A n \in 1 .. MaxCalls :
    (n <= calls) ~> (\E i \in DOMAIN mail : mail[i].kind = "reply" /\ mail[i].to = n)

\* Nothing the sidecar said is on its way.
Quiet == stdout = <<>> /\ badge = <<>> /\ reader # "emitting"

\* With nothing on its way the transport holds the newest authority: reports of two
\* barriers may arrive in either order, and the one that arrives last does not
\* leave it holding an authority the sidecar has revoked.
TheLibraryCatchesUp ==
  Quiet /\ phase = "ready" => authority = authorization_generation
=============================================================================
