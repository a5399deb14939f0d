---------------------------- MODULE GateHistory ----------------------------
(***************************************************************************)
(* The gate between its two kinds of thread, with a record of what they    *)
(* did: every request let in, every barrier with the request it named,     *)
(* every input that reached the machine, every receipt.  The record reads  *)
(* the gate and never steers it, so what is shown here holds of the gate   *)
(* wherever Sidecar uses it.                                               *)
(***************************************************************************)
EXTENDS Gate

CONSTANTS
  MaxAdmissions,  \* bound: requests admitted in one behaviour
  MaxGeneration   \* bound: controls stop when the generation reaches it

ASSUME HistoryAssumption == MaxAdmissions \in Nat /\ MaxGeneration \in Nat

VARIABLES
  admitted,      \* the requests admitted, in order
  barrier_acks,  \* what each pause and release acknowledged as in flight
  flight,        \* the newest admission, and the barriers applied before it
  checked_at,    \* barriers applied when the call under way was checked
  landed,        \* input that reached the machine
  receipts       \* what finish handed back

record == <<admitted, barrier_acks, flight, checked_at, landed, receipts>>
vars   == <<gate_vars, record>>

Barriers == Len(barrier_acks)

Grounded == [n |-> 0, since |-> 0]

HistoryInit ==
  /\ Init
  /\ admitted = <<>> /\ barrier_acks = <<>>
  /\ flight = Grounded /\ checked_at = 0
  /\ landed = {} /\ receipts = {}

Lands(how, checked) ==
  landed' = landed \cup {[n |-> flight.n, since |-> flight.since, how |-> how,
                          checked |-> checked, at |-> Barriers]}

AdmitOne(r) ==
  /\ Len(admitted) < MaxAdmissions
  /\ Admit(r)
  /\ admitted' = Append(admitted, r)
  /\ flight' = [n |-> Len(admitted) + 1, since |-> Barriers]
  /\ UNCHANGED <<barrier_acks, checked_at, landed, receipts>>

TakeReleaseOnce == TakeRelease /\ UNCHANGED record

DispatchEvent ==
  /\ Dispatch
  /\ Lands("event", Barriers) \/ (call' = "failed" /\ UNCHANGED landed)
  /\ UNCHANGED <<admitted, barrier_acks, flight, checked_at, receipts>>

CheckCall ==
  /\ BeginLong \/ CheckMessage
  /\ checked_at' = Barriers
  /\ UNCHANGED <<admitted, barrier_acks, flight, landed, receipts>>

\* Part of a long call's input reaches the machine while the call runs.
LongLands ==
  /\ call = "long"
  /\ Lands("long", checked_at)
  /\ UNCHANGED <<gate_vars, admitted, barrier_acks, flight, checked_at, receipts>>

\* A message that went out arrives, unless the platform only gave up waiting.
SendMessage ==
  /\ MessageGoesOut
  /\ Lands("message", checked_at) \/ UNCHANGED landed
  /\ UNCHANGED <<admitted, barrier_acks, flight, checked_at, receipts>>

Unrecorded ==
  /\ EndLong \/ MessageRefused \/ EndMessage \/ Refused \/ InputComplete
  /\ UNCHANGED record

FinishOne ==
  /\ Finish
  /\ receipts' = receipts \cup
       {[n |-> flight.n, since |-> flight.since, until |-> Barriers,
         posted |-> in_flight.posted, input_complete |-> in_flight.input_complete,
         cancelled |-> cancelled]}
  /\ flight' = Grounded
  /\ UNCHANGED <<admitted, barrier_acks, checked_at, landed>>

ControlOne(action, expected) ==
  /\ authorization_generation < MaxGeneration
  /\ Control(action, expected)
  /\ barrier_acks' = IF action = "resume" THEN barrier_acks
                     ELSE Append(barrier_acks, RequestInFlight)
  /\ UNCHANGED <<admitted, flight, checked_at, landed, receipts>>

\* The one worker thread: the same program order serve imposes.
Worker ==
  \/ \E r \in Requests : AdmitOne(r)
  \/ TakeReleaseOnce \/ DispatchEvent \/ CheckCall \/ LongLands \/ SendMessage
  \/ Unrecorded \/ FinishOne

Next ==
  \/ Worker
  \/ \E action \in Controls, expected \in (1 .. MaxGeneration) \cup {Absent} :
       ControlOne(action, expected)

Spec == HistoryInit /\ [][Next]_vars
-----------------------------------------------------------------------------
(* Properties. *)

Calls == {"none", "long", "message", "went_out", "not_sent", "answered", "failed"}

InFlightType ==
  [request_id: Nat, action: WireActions, posted: BOOLEAN, input_complete: BOOLEAN]

LandedType ==
  [n: Nat, since: Nat, how: {"event", "long", "message"}, checked: Nat, at: Nat]

ReceiptType ==
  [n: Nat, since: Nat, until: Nat, posted: BOOLEAN, input_complete: BOOLEAN,
   cancelled: BOOLEAN]

\* The gate's state, its record and the worker's place in it are well formed.
TypeOK ==
  /\ authorization_generation \in Nat
  /\ paused \in BOOLEAN
  /\ mutation_high_water \in Nat
  /\ in_flight \in InFlightType \cup {Idle}
  /\ cancelled \in BOOLEAN /\ released \in BOOLEAN
  /\ call \in Calls
  /\ checked_at \in Nat
  /\ admitted \in Seq(Requests)
  /\ barrier_acks \in Seq(Nat \cup {Absent})
  /\ flight \in [n: Nat, since: Nat]
  /\ landed \subseteq LandedType
  /\ receipts \subseteq ReceiptType

\* A pause or a release is a barrier, not a request to stop soon: no check made
\* after it lets the request it interrupted through, and no event of that request
\* reaches the machine after it, although the cancelled flag is cleared by every
\* admission and the pause flag by every resume (Gate::dispatch, Gate::admit).
NothingPassesABarrier ==
  \A e \in landed : /\ e.checked = e.since
                    /\ e.how = "event" => e.at = e.since

\* Input that still lands after a barrier, from a call already under way outside
\* the mutex, belongs to the request every acknowledgement since its admission
\* named in in_flight_request_id (Gate::dispatch_long, Gate::dispatch_message).
LateInputIsNamed ==
  \A e \in landed : \A k \in (e.since + 1) .. e.at :
    barrier_acks[k] = admitted[e.n].request_id

\* A receipt never denies input: whatever reached the machine for a request is
\* marked by the time finish hands its receipt back (mark, Gate::finish).
ReceiptsAdmitWhatLanded ==
  \A r \in receipts : \A e \in landed : e.n = r.n => r.posted /\ e.at <= r.until

\* An action reports itself cancelled exactly when a pause or a release landed
\* while it was in flight, never because of one its predecessor met.
CancelledIsTruthful ==
  \A r \in receipts : r.cancelled <=> r.since < r.until

\* A refusal that reaches an acting request was always a cancellation too: reply
\* relies on it ("a pause sets both flags") to report the code as cancelled.
PauseCancelsWhatActs ==
  Busy /\ paused /\ TouchesInput(in_flight.action) => cancelled

Sequenced(r) == r.action \notin UngatedActions /\ CarriesMutationSeq(r.action)

\* A mutation's sequence number is admitted at most once and in rising order, so
\* a repeated or delayed line can never post input the screen already saw
\* (Gate::check_mutation_seq).
MutationsAtMostOnce ==
  \A i, j \in DOMAIN admitted :
    i < j /\ Sequenced(admitted[i]) /\ Sequenced(admitted[j])
      => admitted[i].mutation_seq < admitted[j].mutation_seq
-----------------------------------------------------------------------------
(* The promise.  The generation, the sequence numbers and the two flags are  *)
(* how it is kept and do not appear in it.                                   *)

Promise == INSTANCE Stop WITH
  Ids       <- {r.request_id : r \in Requests},
  Nobody    <- Absent,
  requests  <- Len(admitted),
  acting    <- RequestInFlight,
  touches   <- Busy /\ TouchesInput(in_flight.action),
  under_way <- call \in {"long", "message", "went_out"},
  stopped   <- Busy /\ cancelled,
  held      <- paused,
  named     <- barrier_acks,
  touched   <- {e.n : e \in landed},
  reports   <- {[n |-> r.n, posted |-> r.posted, cancelled |-> r.cancelled] : r \in receipts}

\* Every behaviour of the gate and its two threads is one the person was
\* promised: what acts stops where the stop found it, but for the call the
\* acknowledgement names, and is reported on once, truthfully (gate.rs).
KeepsThePromise == Promise!Spec
=============================================================================
