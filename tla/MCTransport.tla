---------------------------- MODULE MCTransport ----------------------------
(* The transport against every kind of frame, on a few calls and chunks. *)
(* The rules that have no state are checked over small inputs beside it.   *)
EXTENDS TransportAlone, MCRules, TLC

Response(id, ok, boot) ==
  [type |-> "response", request_id |-> id, ok |-> ok, sidecar_generation |-> boot]

Ack(id, boot) ==
  [type |-> "control_ack", request_id |-> id, sidecar_generation |-> boot,
   authorization_generation |-> 2]

Event(boot) ==
  [type |-> "session_event", event |-> "operator_stop", sidecar_generation |-> boot,
   authorization_generation |-> 3]

OtherBoot == Absent

\* An id never minted, one of no known shape, every id that can be outstanding,
\* another boot's envelope, and a line that is no frame of ours.
EveryFrame ==
  {Response(id, TRUE, SidecarGeneration) : id \in 0 .. MaxCalls + 2}
    \cup {Ack(id, SidecarGeneration) : id \in 0 .. MaxCalls + 2}
    \cup {Response(1, FALSE, SidecarGeneration), Response(2, TRUE, OtherBoot),
          Ack(3, OtherBoot), Event(SidecarGeneration), Event(OtherBoot),
          [type |-> "malformed"]}

\* Enough to finish the handshake and answer one request.
GoodFrames == {Response(id, TRUE, SidecarGeneration) : id \in 1 .. 2}
=============================================================================
