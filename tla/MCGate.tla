------------------------------- MODULE MCGate -------------------------------
(* The gate on a small instance: one action of each kind, every generation a  *)
(* client can quote, and repeated sequence numbers.                           *)
EXTENDS GateHistory

CONSTANT Actions, MaxSeq

\* The lines a conforming client may send, in any order and repeated.
ClientRequests ==
  {[request_id |-> g, action |-> a, sidecar_generation |-> SidecarGeneration,
    authorization_generation |-> g,
    mutation_seq |-> IF CarriesMutationSeq(a) THEN s ELSE Absent]
     : a \in Actions \ UngatedActions, g \in 1 .. MaxGeneration, s \in 1 .. MaxSeq}
  \cup
  {[request_id |-> 0, action |-> a, sidecar_generation |-> Absent,
    authorization_generation |-> Absent, mutation_seq |-> Absent]
     : a \in Actions \cap UngatedActions}
=============================================================================
