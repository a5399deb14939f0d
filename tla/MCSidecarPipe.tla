---------------------------- MODULE MCSidecarPipe ----------------------------
(* The sidecar on a small pipe: Requests is the set its lines are drawn from. *)
EXTENDS SidecarPipe

LineRequests ==
  [request_id: 1 .. MaxLines, action: Actions,
   sidecar_generation: {SidecarGeneration},
   authorization_generation: 1 .. PressLimit + MaxLines,
   mutation_seq: (1 .. MaxLines) \cup {Absent}]
=============================================================================
