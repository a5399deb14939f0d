----------------------------- MODULE MCSession -----------------------------
(* A session of a few calls: Requests is what they can become. *)
EXTENDS Session

CallRequests ==
  [request_id: 2 .. MaxCalls + 1, action: Actions,
   sidecar_generation: {SidecarGeneration},
   authorization_generation: 1 .. PressLimit + MaxCalls,
   mutation_seq: (1 .. MaxCalls) \cup {Absent}]
=============================================================================
