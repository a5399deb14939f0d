----------------------------- MODULE Transport -----------------------------
(***************************************************************************)
(* The library's one Port-owning process, lib/compux/transport.ex: a       *)
(* GenServer whose every step handles one message, a client's call, a      *)
(* chunk from the sidecar, the sidecar's exit status or a timer it armed.  *)
(*                                                                         *)
(* Messages from one source arrive in order and those of different sources *)
(* in any order, so the module has an action per message and leaves to the *)
(* modules that use it which message comes next: TransportAlone puts any   *)
(* sidecar at the far end of the Port, Session the modelled one.           *)
(***************************************************************************)
EXTENDS Wire, Naturals, Sequences

CONSTANTS
  MaxPendingControls,  \* @max_pending_controls
  MaxResponseBytes,    \* max_response_bytes
  SidecarGeneration,   \* the boot id this transport's sidecar answers with
  Absent               \* nil

ASSUME TransportAssumption ==
  /\ MaxPendingControls \in Nat \ {0} /\ MaxResponseBytes \in Nat \ {0}
  /\ Absent \notin Nat /\ SidecarGeneration # Absent

VARIABLES
  phase,              \* "handshake", "ready" or "closed"; "stopped" once it is gone
  handshake,          \* "pending", "ok" or "failed"
  handshake_waiter,   \* the start_link call waiting for it
  pending_request,    \* the one request in flight
  pending_controls,   \* the controls in flight, oldest first
  next_id,            \* the next unused id
  mutation_seq, authorization_generation, sidecar_generation,
  acc_size,           \* bytes of the unterminated line received so far
  timers,             \* ids whose deadline is armed, or already in the mailbox
  port,               \* "open", "exited" (its status not yet handled) or "closed"
  outbox,             \* lines written to the Port
  mail                \* what was sent to callers and to the owner, in order

envelope      == <<mutation_seq, authorization_generation, sidecar_generation>>
pending       == <<pending_request, pending_controls>>
phases        == <<phase, handshake, handshake_waiter>>
transport_vars ==
  <<phases, pending, next_id, envelope, acc_size, timers, port, outbox, mail>>

\* Ids are the numbers of the one counter; r and c tell the reader of a log which
\* kind it was.  0 stands for every id of another shape.
ForeignId == 0

None == [id |-> ForeignId, from |-> Absent, kind |-> "none"]

Reply(from, what, id) == [kind |-> "reply", to |-> from, what |-> what, id |-> id]
Failed(from, what)    == Reply(from, what, ForeignId)
News(what)            == [kind |-> "exit", what |-> what]
Told(frame)           == [kind |-> "event", what |-> frame.event]

TransportInit ==
  /\ phase = "handshake" /\ handshake = "pending" /\ handshake_waiter = Absent
  /\ pending_request = [id |-> 1, from |-> Absent, kind |-> "hello"]
  /\ pending_controls = <<>>
  /\ next_id = 2
  /\ mutation_seq = 0
  /\ authorization_generation = 1
  /\ sidecar_generation = Absent
  /\ acc_size = 0
  /\ timers = {1}
  /\ port = "open"
  /\ outbox = <<[type |-> "request", body |-> [request_id |-> 1, action |-> "hello"]]>>
  /\ mail = <<>>

Hello == pending_request.kind = "hello"

ControlIds == {pending_controls[i].id : i \in DOMAIN pending_controls}
RequestId  == IF pending_request = None THEN {} ELSE {pending_request.id}

\* Slip: one acknowledgement clears the list.
OtherControls_None(id) == <<>>

\* The controls in flight other than id.
OtherControls(id) ==
  LET i == CHOOSE j \in DOMAIN pending_controls : pending_controls[j].id = id
  IN  SubSeq(pending_controls, 1, i - 1)
        \o SubSeq(pending_controls, i + 1, Len(pending_controls))
-----------------------------------------------------------------------------
(* Ending. *)

\* cancel_timer cannot take back a message that is already in the mailbox.
EndTimers(ids, fired) ==
  \E late \in SUBSET ((ids \cap timers) \ fired) :
    timers' = (timers \ (ids \cup fired)) \cup late

CancelTimers(ids) == EndTimers(ids, {})

\* Slip: the request is completed and the controls are forgotten.
Outstanding_NoControls(controls, what) ==
  LET to == IF Hello THEN handshake_waiter ELSE pending_request.from
  IN  IF to = Absent THEN <<>> ELSE <<Failed(to, what)>>

\* fail_outstanding: the request first (hello answers whoever awaits it), then
\* every control.
Outstanding(controls, what) ==
  LET to == IF Hello THEN handshake_waiter ELSE pending_request.from
  IN  (IF to = Absent THEN <<>> ELSE <<Failed(to, what)>>)
        \o [i \in DOMAIN controls |-> Failed(controls[i].from, what)]

\* closed: everything outstanding is completed, and nothing is accepted again.
Closed(controls, what, before, after) ==
  /\ phase' = "closed"
  /\ pending_request' = None /\ pending_controls' = <<>>
  /\ acc_size' = 0
  /\ handshake' = IF Hello THEN "failed" ELSE handshake
  /\ handshake_waiter' = IF Hello THEN Absent ELSE handshake_waiter
  /\ mail' = mail \o before \o Outstanding(controls, what) \o after
  /\ UNCHANGED <<next_id, envelope, outbox>>

\* Slip: the owner hears before the callers do.
Announce_First(controls, what, before) ==
  Closed(controls, what, before \o IF phase = "ready" THEN <<News(what)>> ELSE <<>>, <<>>)

\* announce: complete everything first, then tell the owner, if there is one.
Announce(controls, what, before) ==
  Closed(controls, what, before, IF phase = "ready" THEN <<News(what)>> ELSE <<>>)

\* poison and fail_handshake end the sidecar themselves.
Poison(what) ==
  /\ Announce(pending_controls, what, <<>>)
  /\ port' = "closed"
  /\ CancelTimers(RequestId \cup ControlIds)

\* {port, {:exit_status, n}}.
SidecarExited ==
  /\ phase # "stopped"
  /\ port = "exited" /\ port' = "closed"
  /\ IF phase = "closed"
     THEN UNCHANGED <<phases, pending, next_id, envelope, acc_size, timers, outbox, mail>>
     ELSE /\ Announce(pending_controls, "sidecar_exited", <<>>)
          /\ CancelTimers(RequestId \cup ControlIds)
-----------------------------------------------------------------------------
(* Calls. *)

\* Answered on the spot, and nothing else changes.
Answer(from, what) ==
  /\ mail' = Append(mail, Failed(from, what))
  /\ UNCHANGED <<phases, pending, next_id, envelope, acc_size, timers, port, outbox>>

Gone == phase \in {"closed", "stopped"}

\* write: refused for its size, or because the Port is closed; else on the pipe.
WriteError(fits) ==
  IF ~fits THEN "request_too_large"
  ELSE IF port # "open" THEN "sidecar_unavailable" ELSE "none"

\* Slip: no deadline is armed.
Written_Unarmed(line) ==
  /\ outbox' = Append(outbox, line)
  /\ next_id' = next_id + 1
  /\ UNCHANGED <<phases, authorization_generation, sidecar_generation, acc_size, timers,
                 port, mail>>

\* An id, a timer and a line.
Written(line) ==
  /\ outbox' = Append(outbox, line)
  /\ next_id' = next_id + 1
  /\ timers' = timers \cup {next_id}
  /\ UNCHANGED <<phases, authorization_generation, sidecar_generation, acc_size, port, mail>>

\* What could not be written closes the transport, and the caller is told last.
NotWritten(from, what) ==
  /\ Closed(pending_controls, what, <<>>, <<Failed(from, what)>>)
  /\ CancelTimers(RequestId \cup ControlIds)
  /\ UNCHANGED port

AwaitHandshake(from) ==
  IF handshake = "pending"
  THEN /\ handshake_waiter' = from
       /\ UNCHANGED <<phase, handshake, pending, next_id, envelope, acc_size, timers,
                      port, outbox, mail>>
  ELSE Answer(from, handshake)

\* Slip: the number last used is sent again.
NextMutationSeq_Same(action) == mutation_seq

\* next_mutation_seq: an action that mutates takes the next number.
NextMutationSeq(action) ==
  IF CarriesMutationSeq(action) THEN mutation_seq + 1 ELSE mutation_seq

\* One in flight; a second is refused, never queued.
AdmitRequest(from, action, fits) ==
  CASE Gone -> Answer(from, "sidecar_unavailable")
    [] phase = "ready" /\ action = "hello" -> Answer(from, "ok")
    [] ~Gone /\ pending_request # None /\ ~(phase = "ready" /\ action = "hello")
         -> Answer(from, "busy")
    [] OTHER ->
         LET seq == NextMutationSeq(action)
         IN  IF WriteError(fits) # "none" THEN NotWritten(from, WriteError(fits))
             ELSE /\ Written([type |-> "request",
                              body |-> [request_id |-> next_id, action |-> action,
                                        sidecar_generation |-> sidecar_generation,
                                        authorization_generation |-> authorization_generation,
                                        mutation_seq |-> IF CarriesMutationSeq(action)
                                                         THEN seq ELSE Absent]])
                  /\ mutation_seq' = seq
                  /\ pending_request' = [id |-> next_id, from |-> from, kind |-> "action"]
                  /\ UNCHANGED pending_controls

AdmitControl(from, action) ==
  CASE Gone -> Answer(from, "sidecar_unavailable")
    [] phase = "handshake" -> Answer(from, "busy")
    [] phase = "ready" /\ Len(pending_controls) >= MaxPendingControls
         -> Answer(from, "control_queue_full")
    [] OTHER ->
         IF WriteError(TRUE) # "none" THEN NotWritten(from, WriteError(TRUE))
         ELSE /\ Written([type |-> "control",
                          body |-> [request_id |-> next_id, action |-> action,
                                    authorization_generation |-> authorization_generation]])
              /\ pending_controls' =
                   Append(pending_controls, [id |-> next_id, from |-> from])
              /\ UNCHANGED <<pending_request, mutation_seq>>

\* stop: SIGKILL, wait for the exit, close, and complete everything outstanding;
\* the process ends with the answer.
Stop(from) ==
  IF Gone
  THEN /\ phase' = "stopped"
       /\ mail' = Append(mail, Failed(from, "ok"))
       /\ UNCHANGED <<handshake, handshake_waiter, pending, next_id, envelope, acc_size,
                      timers, port, outbox>>
  ELSE /\ phase' = "stopped"
       /\ pending_request' = None /\ pending_controls' = <<>>
       /\ handshake' = IF Hello THEN "failed" ELSE handshake
       /\ handshake_waiter' = IF Hello THEN Absent ELSE handshake_waiter
       /\ mail' = mail \o Outstanding(pending_controls, "sidecar_unavailable")
                       \o <<Failed(from, "ok")>>
       /\ port' = "closed"
       /\ CancelTimers(RequestId \cup ControlIds)
       /\ UNCHANGED <<next_id, envelope, acc_size, outbox>>
-----------------------------------------------------------------------------
(* Frames. *)

GenerationsMatch(frame) == frame.sidecar_generation = sidecar_generation

\* Slip: only what is outstanding is known, so a late reply was never minted.
Finished_Never(id) == FALSE

\* A frame naming nothing outstanding: ours and over, so dropped, or never minted.
Finished(id) == id # ForeignId /\ id < next_id

Drop == acc_size' = 0 /\ UNCHANGED <<phases, pending, next_id, envelope, timers, port,
                                     outbox, mail>>

Unmatched(frame) ==
  IF Finished(frame.request_id) THEN Drop ELSE Poison("unknown_request_id")

\* The hello response: adopted, or a refusal with a name.
HandshakeResponse(frame) ==
  IF frame.request_id # pending_request.id THEN Poison("unknown_request_id")
  ELSE IF ~frame.ok THEN Poison("handshake_refused")
  ELSE /\ phase' = "ready" /\ handshake' = "ok" /\ handshake_waiter' = Absent
       /\ sidecar_generation' = frame.sidecar_generation
       /\ pending_request' = None
       /\ acc_size' = 0
       /\ mail' = IF handshake_waiter = Absent THEN mail
                  ELSE Append(mail, Failed(handshake_waiter, "ok"))
       /\ CancelTimers(RequestId)
       /\ UNCHANGED <<pending_controls, next_id, mutation_seq, authorization_generation,
                      port, outbox>>

AnswerRequest(frame) ==
  IF ~GenerationsMatch(frame) THEN Poison("stale_generation")
  ELSE /\ mail' = Append(mail, Reply(pending_request.from, "answered", frame.request_id))
       /\ pending_request' = None
       /\ acc_size' = 0
       /\ CancelTimers(RequestId)
       /\ UNCHANGED <<phases, pending_controls, next_id, envelope, port, outbox>>

RouteResponse(frame) ==
  CASE phase = "handshake" -> HandshakeResponse(frame)
    [] phase = "ready" /\ frame.request_id \in RequestId -> AnswerRequest(frame)
    [] OTHER -> Unmatched(frame)

\* deliver_ack: the acknowledgement's generation becomes ours, whatever it is.
DeliverAck(frame) ==
  /\ \E i \in DOMAIN pending_controls :
       /\ pending_controls[i].id = frame.request_id
       /\ mail' = Append(mail, Reply(pending_controls[i].from, "answered", frame.request_id))
  /\ pending_controls' = OtherControls(frame.request_id)
  /\ authorization_generation' = frame.authorization_generation
  /\ acc_size' = 0
  /\ CancelTimers({frame.request_id})
  /\ UNCHANGED <<phases, pending_request, next_id, mutation_seq, sidecar_generation, port,
                 outbox>>

RouteAck(frame) ==
  CASE frame.request_id \notin ControlIds -> Unmatched(frame)
    [] frame.request_id \in ControlIds /\ ~GenerationsMatch(frame) -> Poison("stale_generation")
    [] OTHER -> DeliverAck(frame)

\* forward_event: the owner is told, then a newer generation becomes ours.
ForwardEvent(frame) ==
  IF ~GenerationsMatch(frame) THEN Poison("stale_generation")
  ELSE /\ mail' = Append(mail, Told(frame))
       /\ authorization_generation' =
            IF frame.authorization_generation > authorization_generation
            THEN frame.authorization_generation ELSE authorization_generation
       /\ acc_size' = 0
       /\ UNCHANGED <<phases, pending, next_id, mutation_seq, sidecar_generation, timers,
                      port, outbox>>

HandleLine(frame) ==
  CASE frame.type = "response" -> RouteResponse(frame)
    [] frame.type = "control_ack" -> RouteAck(frame)
    [] frame.type = "session_event" -> ForwardEvent(frame)
    [] OTHER -> Poison("malformed_frame")

\* absorb: every fragment counts toward the cap, the last one included.
Absorb(kind, bytes, frame) ==
  /\ port # "closed"
  /\ ~Gone
  /\ LET too_large == acc_size + bytes > MaxResponseBytes
     IN  CASE too_large -> Poison("sidecar_response_too_large")
           [] ~too_large /\ kind = "noeol" ->
                /\ acc_size' = acc_size + bytes
                /\ UNCHANGED <<phases, pending, next_id, envelope, timers, port, outbox, mail>>
           [] OTHER -> HandleLine(frame)
-----------------------------------------------------------------------------
(* Deadlines. *)

\* {:deadline, :request, id}, or {:deadline, :control, id}: only what is still
\* outstanding ends.  An unanswered barrier poisons.
Deadline(id) ==
  /\ phase # "stopped" /\ id \in timers
  /\ CASE Hello /\ id \in RequestId ->
            /\ Closed(pending_controls, "timeout", <<>>, <<>>)
            /\ port' = "closed" /\ timers' = timers \ {id}
       [] ~Hello /\ id \in RequestId ->
            /\ mail' = Append(mail, Failed(pending_request.from, "timeout"))
            /\ pending_request' = None
            /\ timers' = timers \ {id}
            /\ UNCHANGED <<phases, pending_controls, next_id, envelope, acc_size, port,
                           outbox>>
       [] id \in ControlIds \ RequestId ->
            \E i \in DOMAIN pending_controls :
              /\ pending_controls[i].id = id
              /\ Announce(OtherControls(id), "control_unconfirmed",
                          <<Failed(pending_controls[i].from, "control_unconfirmed")>>)
              /\ port' = "closed"
              /\ EndTimers(RequestId \cup ControlIds, {id})
       [] OTHER ->
            /\ timers' = timers \ {id}
            /\ UNCHANGED <<phases, pending, next_id, envelope, acc_size, port, outbox, mail>>
=============================================================================
