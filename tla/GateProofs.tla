----------------------------- MODULE GateProofs -----------------------------
(***************************************************************************)
(* What the gate guarantees for every set of requests, any number of them  *)
(* and any number of controls: the invariants MCGate checks on a small     *)
(* instance, proved by induction on the steps of GateHistory.  After them, *)
(* what MCSidecarPipe checks of the gate behind its pipe, and that each    *)
(* line of the pipe is answered once.                                      *)
(***************************************************************************)
EXTENDS GateHistory, SidecarPipe, TLAPS, SequenceTheorems, WellFoundedInduction

\* The worker is inside a platform call only while its request is in flight.
TypeInv == TypeOK /\ (call # "none" => Busy)

\* Where the record and the gate agree.  Busy means the newest admission is the
\* one in flight.
FlightIsNewest ==
  /\ flight.since <= Barriers
  /\ Busy => /\ flight.n = Len(admitted) /\ flight.n # 0
             /\ in_flight.request_id = admitted[flight.n].request_id

\* The cancelled flag counts barriers: it is up exactly when one was applied since
\* the admission, and each of those acknowledged the request in flight.
CancelledCountsBarriers ==
  Busy => /\ cancelled <=> flight.since < Barriers
          /\ \A k \in (flight.since + 1) .. Barriers :
               barrier_acks[k] = in_flight.request_id

\* A call that runs outside the mutex was checked before any barrier, and one that
\* posts as it runs was marked when it began.
CallsAreChecked ==
  /\ call \in {"long", "message", "went_out"} => checked_at = flight.since
  /\ call = "long" => in_flight.posted

\* Everything that landed, landed like that.
LandedWell ==
  \A e \in landed :
    /\ e.n \in DOMAIN admitted
    /\ e.at <= Barriers
    /\ e.checked = e.since
    /\ e.how = "event" => e.at = e.since
    /\ \A k \in (e.since + 1) .. e.at : barrier_acks[k] = admitted[e.n].request_id

\* What landed for the request in flight is marked, or about to be.
LandedIsMarked ==
  Busy => \A e \in landed : e.n = flight.n => in_flight.posted \/ call = "went_out"

\* A receipt is about an earlier admission, so nothing lands for it any more.
ReceiptsAreOver ==
  \A r \in receipts :
    /\ r.n \in DOMAIN admitted
    /\ Busy => r.n < flight.n
    /\ r.cancelled <=> r.since < r.until
    /\ \A e \in landed : e.n = r.n => r.posted /\ e.at <= r.until

\* The high-water mark bounds every sequence number admitted.
HighWater ==
  /\ \A i \in DOMAIN admitted :
       Sequenced(admitted[i]) => /\ admitted[i].mutation_seq \in Nat
                                 /\ admitted[i].mutation_seq <= mutation_high_water
  /\ MutationsAtMostOnce

IndInv ==
  /\ TypeInv
  /\ FlightIsNewest
  /\ CancelledCountsBarriers
  /\ CallsAreChecked
  /\ LandedWell
  /\ LandedIsMarked
  /\ ReceiptsAreOver
  /\ PauseCancelsWhatActs
-----------------------------------------------------------------------------
(* Typing. *)

\* An action is one of the wire's, so nothing in flight is mistaken for Idle.
LEMMA IdleIsNoRequest == Idle \notin InFlightType
BY DEF Idle, InFlightType, WireActions, InputActions, ReadOnlyActions, UngatedActions

LEMMA TypeInit == HistoryInit => TypeInv
<1> SUFFICES ASSUME HistoryInit PROVE TypeInv
  OBVIOUS
<1>1. admitted \in Seq(Requests) /\ barrier_acks \in Seq(Nat \cup {Absent})
  BY DEF HistoryInit
<1>2. flight \in [n: Nat, since: Nat]
  BY DEF HistoryInit, Grounded
<1> QED
  BY <1>1, <1>2 DEF HistoryInit, Init, TypeInv, TypeOK, Calls

\* Each step of the worker keeps the gate and its record well formed.
LEMMA WorkerKeepsTypes == TypeInv /\ Worker => TypeInv'
<1> SUFFICES ASSUME TypeInv, Worker PROVE TypeInv'
  OBVIOUS
<1> USE IdleIsNoRequest DEF TypeInv, TypeOK, Busy
<1>0. Barriers \in Nat
  BY DEF Barriers
<1>1. CASE \E r \in Requests : AdmitOne(r)
  <2> PICK r \in Requests : AdmitOne(r)
    BY <1>1
  <2>1. r \in RequestType
    BY GateAssumption
  <2>2. in_flight' \in InFlightType /\ mutation_high_water' \in Nat
    BY <2>1, GateAssumption DEF AdmitOne, Admit, RequestType, InFlightType
  <2>3. admitted' \in Seq(Requests)
    BY DEF AdmitOne
  <2>4. flight' \in [n: Nat, since: Nat]
    BY <1>0 DEF AdmitOne
  <2> QED
    BY <2>2, <2>3, <2>4 DEF AdmitOne, Admit
<1>2. CASE TakeReleaseOnce
  BY <1>2 DEF TakeReleaseOnce, TakeRelease, record, state_vars
<1>3. CASE DispatchEvent
  <2>1. in_flight' \in InFlightType
    BY <1>3 DEF DispatchEvent, Dispatch, MayAsk, Mark, InFlightType
  <2>2. landed' \subseteq LandedType
    BY <1>0, <1>3 DEF DispatchEvent, Lands, LandedType
  <2> QED
    BY <1>3, <2>1, <2>2 DEF DispatchEvent, Dispatch, Mark, atomics, Calls
<1>4. CASE CheckCall
  <2>1. in_flight' \in InFlightType
    BY <1>4 DEF CheckCall, BeginLong, CheckMessage, CallMoves, MayAsk, Mark, state_vars,
                InFlightType
  <2> QED
    BY <1>0, <1>4, <2>1 DEF CheckCall, BeginLong, CheckMessage, CallMoves, Mark,
                            state_vars, atomics, Calls
<1>5. CASE LongLands
  <2>1. landed' \subseteq LandedType
    BY <1>0, <1>5 DEF LongLands, Lands, LandedType
  <2> QED
    BY <1>5, <2>1 DEF LongLands, gate_vars, state_vars, atomics
<1>6. CASE SendMessage
  <2>1. landed' \subseteq LandedType
    BY <1>0, <1>6 DEF SendMessage, Lands, LandedType
  <2> QED
    BY <1>6, <2>1 DEF SendMessage, MessageGoesOut, CallMoves, state_vars, atomics, Calls
<1>7. CASE Unrecorded
  <2>1. CASE EndLong \/ MessageRefused \/ Refused
    BY <1>7, <2>1 DEF Unrecorded, EndLong, MessageRefused, Refused, CallMoves, record,
                      state_vars, atomics, Calls
  <2>2. CASE EndMessage
    <3>1. in_flight' \in InFlightType
      BY <2>2 DEF EndMessage, CallMoves, Mark, state_vars, InFlightType
    <3>2. UNCHANGED <<authorization_generation, paused, mutation_high_water, atomics>>
      BY <2>2 DEF EndMessage, CallMoves, Mark, state_vars, atomics
    <3>3. call' \in Calls
      BY <2>2 DEF EndMessage, CallMoves, Calls
    <3> QED
      BY <1>7, <3>1, <3>2, <3>3 DEF Unrecorded, record, atomics
  <2>3. CASE InputComplete
    <3>1. in_flight' \in InFlightType
      BY <2>3 DEF InputComplete, MayAsk, InFlightType
    <3>2. UNCHANGED <<authorization_generation, paused, mutation_high_water, atomics>>
      BY <2>3 DEF InputComplete
    <3>3. call' \in Calls
      BY <2>3 DEF InputComplete, Calls
    <3> QED
      BY <1>7, <3>1, <3>2, <3>3 DEF Unrecorded, record, atomics
  <2> QED
    BY <1>7, <2>1, <2>2, <2>3 DEF Unrecorded
<1>8. CASE FinishOne
  <2>1. in_flight \in InFlightType
    BY <1>8 DEF FinishOne, Finish
  <2>2. receipts' \subseteq ReceiptType
    BY <1>0, <1>8, <2>1 DEF FinishOne, ReceiptType, InFlightType
  <2> QED
    BY <1>8, <2>2 DEF FinishOne, Finish, Grounded, atomics, Calls
<1> QED
  BY <1>1, <1>2, <1>3, <1>4, <1>5, <1>6, <1>7, <1>8 DEF Worker

\* So does each control.
LEMMA ControlKeepsTypes ==
  ASSUME NEW action \in Controls, NEW expected, TypeInv, ControlOne(action, expected)
  PROVE  TypeInv'
<1> USE DEF TypeInv, TypeOK, Busy
<1>1. RequestInFlight \in Nat \cup {Absent}
  BY DEF RequestInFlight, InFlightType
<1>2. barrier_acks' \in Seq(Nat \cup {Absent})
  BY <1>1 DEF ControlOne
<1>3. CASE Pause
  BY <1>2, <1>3 DEF ControlOne, Pause, Barrier
<1>4. CASE Release
  BY <1>2, <1>4 DEF ControlOne, Release, Barrier
<1>5. CASE Resume(expected)
  <2>1. UNCHANGED <<cancelled, released, call, in_flight, mutation_high_water>>
    BY <1>5 DEF Resume, atomics
  <2>2. authorization_generation' \in Nat /\ paused' = FALSE
    BY <1>5 DEF Resume
  <2> QED
    BY <1>2, <2>1, <2>2 DEF ControlOne
<1> QED
  BY <1>3, <1>4, <1>5 DEF ControlOne, Control

LEMMA TypeStep == TypeInv /\ [Next]_vars => TypeInv'
<1> SUFFICES ASSUME TypeInv, [Next]_vars PROVE TypeInv'
  OBVIOUS
<1>1. CASE Worker
  BY <1>1, WorkerKeepsTypes
<1>2. CASE \E action \in Controls, expected \in (1 .. MaxGeneration) \cup {Absent} :
             ControlOne(action, expected)
  BY <1>2, ControlKeepsTypes
<1>3. CASE UNCHANGED vars
  BY <1>3 DEF vars, gate_vars, state_vars, atomics, record, TypeInv, TypeOK, Busy
<1> QED
  BY <1>1, <1>2, <1>3 DEF Next

\* The gate's state and the record of what its threads did stay well formed.
THEOREM TypeCorrect == Spec => []TypeOK
<1>1. TypeInv => TypeOK
  BY DEF TypeInv
<1> QED
  BY <1>1, TypeInit, TypeStep, PTL DEF Spec
-----------------------------------------------------------------------------
(* The inductive invariant, one step of the two threads at a time. *)

\* What admit has checked when it lets a request in.
LEMMA AdmittedMeans ==
  ASSUME NEW r, Refusal(r) = "none"
  PROVE  /\ r.action \notin UngatedActions => NewSequence(r)
         /\ paused => ~TouchesInput(r.action)
BY DEF Refusal, BarredByAPause, TouchesInput, UngatedActions, InputActions

LEMMA InvInit == HistoryInit => IndInv
<1> SUFFICES ASSUME HistoryInit PROVE IndInv
  OBVIOUS
<1>1. TypeInv
  BY TypeInit
<1>2. ~Busy /\ call = "none" /\ landed = {} /\ receipts = {}
  BY DEF HistoryInit, Init, Busy
<1>3. FlightIsNewest
  BY <1>2 DEF FlightIsNewest, HistoryInit, Grounded, Barriers
<1> QED
  BY <1>1, <1>2, <1>3
     DEF IndInv, CancelledCountsBarriers, CallsAreChecked, LandedWell, LandedIsMarked,
         ReceiptsAreOver, PauseCancelsWhatActs

LEMMA AdmitKeepsInv ==
  ASSUME NEW r \in Requests, IndInv, TypeInv', AdmitOne(r) PROVE IndInv'
<1> USE DEF IndInv, Barriers
<1>1. /\ ~Busy /\ Refusal(r) = "none" /\ call' = "none" /\ cancelled' = FALSE
      /\ in_flight'.request_id = r.request_id /\ in_flight'.action = r.action
      /\ UNCHANGED <<paused, barrier_acks, landed, receipts>>
      /\ admitted' = Append(admitted, r)
      /\ flight' = [n |-> Len(admitted) + 1, since |-> Len(barrier_acks)]
  BY DEF AdmitOne, Admit, TypeInv
<1>2. /\ Len(admitted') = Len(admitted) + 1 /\ Len(admitted) \in Nat
      /\ admitted'[Len(admitted) + 1] = r
      /\ \A i \in DOMAIN admitted : i \in DOMAIN admitted' /\ admitted'[i] = admitted[i]
      /\ \A i \in DOMAIN admitted : i < Len(admitted) + 1
  BY <1>1 DEF TypeInv, TypeOK
<1>3. Len(barrier_acks) \in Nat
  BY DEF TypeInv, TypeOK
<1>4. FlightIsNewest'
  BY <1>1, <1>2, <1>3 DEF FlightIsNewest
<1>5. CancelledCountsBarriers' /\ CallsAreChecked'
  BY <1>1, <1>3 DEF CancelledCountsBarriers, CallsAreChecked
<1>6. LandedWell'
  BY <1>1, <1>2 DEF LandedWell
<1>7. LandedIsMarked'
  BY <1>1, <1>2 DEF LandedIsMarked, LandedWell
<1>8. ReceiptsAreOver'
  BY <1>1, <1>2 DEF ReceiptsAreOver
<1>9. PauseCancelsWhatActs'
  BY <1>1, AdmittedMeans DEF PauseCancelsWhatActs
<1> QED
  BY <1>4, <1>5, <1>6, <1>7, <1>8, <1>9

\* A step of the request in flight that adds no input to the record and clears no
\* mark.
LEMMA QuietStepKeepsInv ==
  ASSUME IndInv, TypeInv', Busy => Busy', Busy' => Busy,
         UNCHANGED <<paused, cancelled, record>>,
         Busy => /\ in_flight'.request_id = in_flight.request_id
                 /\ in_flight'.action = in_flight.action
                 /\ in_flight.posted => in_flight'.posted,
         call' \in {"long", "message", "went_out"} => call' = call,
         call = "went_out" => call' = "went_out" \/ in_flight'.posted
  PROVE  IndInv'
<1> USE DEF IndInv, record, Barriers
<1>1. FlightIsNewest' /\ CancelledCountsBarriers'
  BY DEF FlightIsNewest, CancelledCountsBarriers
<1>2. CallsAreChecked'
  BY DEF CallsAreChecked, TypeInv
<1>3. LandedWell' /\ LandedIsMarked'
  BY DEF LandedWell, LandedIsMarked
<1>4. ReceiptsAreOver' /\ PauseCancelsWhatActs'
  BY DEF ReceiptsAreOver, PauseCancelsWhatActs
<1> QED
  BY <1>1, <1>2, <1>3, <1>4
\* A step of the request in flight that lands some of its input.
LEMMA LandingKeepsInv ==
  ASSUME IndInv, TypeInv', Busy, Busy', NEW how, Lands(how, flight.since),
         how = "event" => flight.since = Barriers,
         UNCHANGED <<paused, cancelled, admitted, barrier_acks, flight, receipts>>,
         in_flight'.request_id = in_flight.request_id,
         in_flight'.action = in_flight.action,
         in_flight'.posted \/ call' = "went_out",
         CallsAreChecked'
  PROVE  IndInv'
<1> USE DEF IndInv, Barriers
<1> DEFINE e == [n |-> flight.n, since |-> flight.since, how |-> how,
                 checked |-> flight.since, at |-> Len(barrier_acks)]
<1>1. landed' = landed \cup {e}
  BY DEF Lands
<1>2. FlightIsNewest' /\ CancelledCountsBarriers'
  BY DEF FlightIsNewest, CancelledCountsBarriers
<1>3. flight.n \in DOMAIN admitted /\ Len(barrier_acks) \in Nat
  BY DEF FlightIsNewest, TypeInv, TypeOK
<1>4. \A k \in (e.since + 1) .. e.at : barrier_acks[k] = admitted[e.n].request_id
  BY DEF FlightIsNewest, CancelledCountsBarriers
<1>5. LandedWell'
  BY <1>1, <1>3, <1>4 DEF LandedWell
<1>6. LandedIsMarked'
  BY DEF LandedIsMarked
<1>7. ReceiptsAreOver'
  BY <1>1, <1>3 DEF ReceiptsAreOver, TypeInv, TypeOK
<1>8. PauseCancelsWhatActs'
  BY DEF PauseCancelsWhatActs
<1> QED
  BY <1>2, <1>5, <1>6, <1>7, <1>8

\* An open gate means no barrier since the admission.
LEMMA OpenIsCurrent ==
  ASSUME IndInv, Busy, Open PROVE flight.since = Barriers
BY DEF IndInv, TypeInv, TypeOK, Open, CancelledCountsBarriers, FlightIsNewest, Barriers

LEMMA DispatchKeepsInv == IndInv /\ TypeInv' /\ DispatchEvent => IndInv'
<1> SUFFICES ASSUME IndInv, TypeInv', DispatchEvent PROVE IndInv'
  OBVIOUS
<1>1. /\ Busy /\ Open /\ call = "none" /\ call' \in {"none", "failed"}
      /\ in_flight' = [in_flight EXCEPT !.posted = TRUE]
      /\ UNCHANGED <<paused, cancelled, admitted, barrier_acks, flight, receipts, checked_at>>
  BY DEF DispatchEvent, Dispatch, MayAsk, Mark, atomics
<1>2. in_flight \in InFlightType
  BY <1>1 DEF IndInv, TypeInv, TypeOK, Busy
<1>3. /\ in_flight' \in InFlightType /\ in_flight'.posted
      /\ in_flight'.request_id = in_flight.request_id
      /\ in_flight'.action = in_flight.action
  BY <1>1, <1>2 DEF InFlightType
<1>4. Busy'
  BY <1>3, IdleIsNoRequest DEF Busy
<1>5. CASE Lands("event", Barriers)
  <2>1. CallsAreChecked'
    BY <1>1 DEF CallsAreChecked
  <2> QED
    BY <1>1, <1>3, <1>4, <1>5, <2>1, OpenIsCurrent, LandingKeepsInv
<1>6. CASE UNCHANGED landed
  BY <1>1, <1>3, <1>4, <1>6, QuietStepKeepsInv DEF record
<1> QED
  BY <1>5, <1>6 DEF DispatchEvent

LEMMA CheckCallKeepsInv == IndInv /\ TypeInv' /\ CheckCall => IndInv'
<1> SUFFICES ASSUME IndInv, TypeInv', CheckCall PROVE IndInv'
  OBVIOUS
<1> USE DEF IndInv, Barriers
<1>1. /\ Busy /\ Open /\ call = "none" /\ call' \in {"long", "message"}
      /\ UNCHANGED <<paused, cancelled, admitted, barrier_acks, flight, landed, receipts>>
      /\ checked_at' = Barriers
  BY DEF CheckCall, BeginLong, CheckMessage, CallMoves, MayAsk, Mark, state_vars, atomics
<1>2. in_flight \in InFlightType
  BY <1>1 DEF TypeInv, TypeOK, Busy
<1>3. /\ in_flight' \in InFlightType
      /\ in_flight'.request_id = in_flight.request_id
      /\ in_flight'.action = in_flight.action
      /\ in_flight.posted => in_flight'.posted
      /\ call' = "long" => in_flight'.posted
  BY <1>2 DEF CheckCall, BeginLong, CheckMessage, CallMoves, Mark, state_vars, InFlightType
<1>4. Busy'
  BY <1>3, IdleIsNoRequest DEF Busy
<1>5. FlightIsNewest' /\ CancelledCountsBarriers'
  BY <1>1, <1>3, <1>4 DEF FlightIsNewest, CancelledCountsBarriers
<1>6. CallsAreChecked'
  BY <1>1, <1>3, OpenIsCurrent DEF CallsAreChecked
<1>7. LandedWell' /\ LandedIsMarked' /\ ReceiptsAreOver' /\ PauseCancelsWhatActs'
  BY <1>1, <1>3, <1>4 DEF LandedWell, LandedIsMarked, ReceiptsAreOver, PauseCancelsWhatActs
<1> QED
  BY <1>5, <1>6, <1>7

LEMMA LongKeepsInv == IndInv /\ TypeInv' /\ LongLands => IndInv'
<1> SUFFICES ASSUME IndInv, TypeInv', LongLands PROVE IndInv'
  OBVIOUS
<1>1. /\ call = "long" /\ Lands("long", checked_at) /\ checked_at = flight.since
      /\ in_flight.posted /\ Busy
  BY DEF LongLands, IndInv, CallsAreChecked, TypeInv
<1>2. UNCHANGED <<gate_vars, admitted, barrier_acks, flight, checked_at, receipts>>
  BY DEF LongLands
<1>3. CallsAreChecked' /\ Busy'
  BY <1>1, <1>2 DEF IndInv, CallsAreChecked, Busy, gate_vars, state_vars
<1> QED
  BY <1>1, <1>2, <1>3, LandingKeepsInv DEF gate_vars, state_vars, atomics

LEMMA SendKeepsInv == IndInv /\ TypeInv' /\ SendMessage => IndInv'
<1> SUFFICES ASSUME IndInv, TypeInv', SendMessage PROVE IndInv'
  OBVIOUS
<1>1. /\ call = "message" /\ call' = "went_out" /\ checked_at = flight.since /\ Busy
      /\ UNCHANGED <<state_vars, atomics, admitted, barrier_acks, flight, checked_at, receipts>>
  BY DEF SendMessage, MessageGoesOut, CallMoves, IndInv, CallsAreChecked, TypeInv
<1>2. Busy' /\ CallsAreChecked'
  BY <1>1 DEF Busy, CallsAreChecked, state_vars
<1>3. CASE Lands("message", checked_at)
  BY <1>1, <1>2, <1>3, LandingKeepsInv DEF state_vars, atomics
<1>4. CASE UNCHANGED landed
  <2>1. FlightIsNewest' /\ CancelledCountsBarriers'
    BY <1>1, <1>2 DEF IndInv, FlightIsNewest, CancelledCountsBarriers, Barriers, state_vars,
                      atomics
  <2>2. LandedWell' /\ LandedIsMarked' /\ ReceiptsAreOver' /\ PauseCancelsWhatActs'
    BY <1>1, <1>2, <1>4 DEF IndInv, LandedWell, LandedIsMarked, ReceiptsAreOver, Barriers,
                            PauseCancelsWhatActs, state_vars, atomics
  <2> QED
    BY <1>2, <2>1, <2>2 DEF IndInv
<1> QED
  BY <1>3, <1>4 DEF SendMessage
LEMMA UnrecordedKeepsInv == IndInv /\ TypeInv' /\ Unrecorded => IndInv'
<1> SUFFICES ASSUME IndInv, TypeInv', Unrecorded PROVE IndInv'
  OBVIOUS
<1> USE DEF IndInv, TypeInv, TypeOK
<1>1. CASE EndLong \/ MessageRefused \/ Refused
  <2>1. /\ UNCHANGED <<in_flight, paused, cancelled, record>>
        /\ call' \in {"answered", "failed", "not_sent"} /\ call # "went_out"
    BY <1>1 DEF Unrecorded, EndLong, MessageRefused, Refused, CallMoves, state_vars, atomics
  <2> QED
    BY <2>1, QuietStepKeepsInv DEF Busy
<1>2. CASE EndMessage
  <2>1. Busy /\ in_flight \in InFlightType
    BY <1>2 DEF EndMessage, CallMoves, Busy
  <2>2. /\ in_flight' \in InFlightType
        /\ in_flight'.request_id = in_flight.request_id
        /\ in_flight'.action = in_flight.action
        /\ in_flight.posted => in_flight'.posted
        /\ call = "went_out" => in_flight'.posted
    BY <1>2, <2>1 DEF EndMessage, CallMoves, Mark, state_vars, InFlightType
  <2>3. UNCHANGED <<paused, cancelled, record>> /\ call' = "answered"
    BY <1>2 DEF Unrecorded, EndMessage, CallMoves, Mark, state_vars, atomics
  <2> QED
    BY <2>1, <2>2, <2>3, IdleIsNoRequest, QuietStepKeepsInv DEF Busy
<1>3. CASE InputComplete
  <2>1. Busy /\ in_flight \in InFlightType
    BY <1>3 DEF InputComplete, MayAsk, Busy
  <2>2. /\ in_flight' \in InFlightType
        /\ in_flight'.request_id = in_flight.request_id
        /\ in_flight'.action = in_flight.action
        /\ in_flight'.posted = in_flight.posted
    BY <1>3, <2>1 DEF InputComplete, InFlightType
  <2>3. UNCHANGED <<paused, cancelled, record>> /\ call' = "none" /\ call # "went_out"
    BY <1>3 DEF Unrecorded, InputComplete, MayAsk, atomics
  <2> QED
    BY <2>1, <2>2, <2>3, IdleIsNoRequest, QuietStepKeepsInv DEF Busy
<1> QED
  BY <1>1, <1>2, <1>3 DEF Unrecorded

LEMMA FinishKeepsInv == IndInv /\ TypeInv' /\ FinishOne => IndInv'
<1> SUFFICES ASSUME IndInv, TypeInv', FinishOne PROVE IndInv'
  OBVIOUS
<1> USE DEF IndInv, Barriers
<1> DEFINE r == [n |-> flight.n, since |-> flight.since, until |-> Len(barrier_acks),
                 posted |-> in_flight.posted, input_complete |-> in_flight.input_complete,
                 cancelled |-> cancelled]
<1>1. /\ Busy /\ ~Busy' /\ call # "went_out" /\ call' = "none"
      /\ receipts' = receipts \cup {r}
      /\ flight' = Grounded
      /\ UNCHANGED <<admitted, barrier_acks, landed>>
  BY DEF FinishOne, Finish, Busy
<1>2. flight.n \in DOMAIN admitted /\ Len(barrier_acks) \in Nat /\ in_flight \in InFlightType
  BY <1>1 DEF FlightIsNewest, TypeInv, TypeOK, Busy
<1>3. FlightIsNewest' /\ CancelledCountsBarriers' /\ CallsAreChecked'
  BY <1>1, <1>2 DEF FlightIsNewest, CancelledCountsBarriers, CallsAreChecked, Grounded
<1>4. LandedWell' /\ LandedIsMarked' /\ PauseCancelsWhatActs'
  BY <1>1 DEF LandedWell, LandedIsMarked, PauseCancelsWhatActs
<1>5. /\ r.cancelled <=> r.since < r.until
      /\ \A e \in landed : e.n = r.n => r.posted /\ e.at <= r.until
  BY <1>1 DEF CancelledCountsBarriers, LandedIsMarked, LandedWell
<1>6. ReceiptsAreOver'
  BY <1>1, <1>2, <1>5 DEF ReceiptsAreOver
<1> QED
  BY <1>3, <1>4, <1>6

LEMMA ControlKeepsInv ==
  ASSUME NEW action \in Controls, NEW expected, IndInv, TypeInv',
         ControlOne(action, expected)
  PROVE  IndInv'
<1> USE DEF IndInv
<1>1. /\ UNCHANGED <<in_flight, call, admitted, flight, checked_at, landed, receipts>>
      /\ Busy' <=> Busy
  BY DEF ControlOne, Control, Pause, Release, Resume, Barrier, Busy
<1>2. Len(barrier_acks) \in Nat /\ flight.since \in Nat
  BY DEF TypeInv, TypeOK
<1>3. CASE action = "resume"
  <2>1. paused' = FALSE /\ UNCHANGED <<cancelled, barrier_acks>>
    BY <1>3 DEF ControlOne, Control, Resume, atomics
  <2>2. FlightIsNewest' /\ CancelledCountsBarriers' /\ CallsAreChecked'
    BY <1>1, <2>1 DEF FlightIsNewest, CancelledCountsBarriers, CallsAreChecked, Barriers
  <2>3. LandedWell' /\ LandedIsMarked' /\ ReceiptsAreOver' /\ PauseCancelsWhatActs'
    BY <1>1, <2>1 DEF LandedWell, LandedIsMarked, ReceiptsAreOver, PauseCancelsWhatActs,
                      Barriers
  <2> QED
    BY <2>2, <2>3
<1>4. CASE action # "resume"
  <2>1. cancelled' = TRUE /\ barrier_acks' = Append(barrier_acks, RequestInFlight)
    BY <1>4 DEF ControlOne, Control, Pause, Release, Barrier
  <2>2. /\ Len(barrier_acks') = Len(barrier_acks) + 1
        /\ barrier_acks'[Len(barrier_acks) + 1] = RequestInFlight
        /\ \A k \in 1 .. Len(barrier_acks) : barrier_acks'[k] = barrier_acks[k]
    BY <1>2, <2>1 DEF TypeInv, TypeOK
  <2>3. FlightIsNewest' /\ CallsAreChecked'
    BY <1>1, <1>2, <2>2 DEF FlightIsNewest, CallsAreChecked, Barriers
  <2>4. CancelledCountsBarriers'
    BY <1>1, <1>2, <2>1, <2>2
       DEF CancelledCountsBarriers, FlightIsNewest, Barriers, RequestInFlight
  <2>5. LandedWell'
    <3>1. \A e \in landed : e.since \in Nat /\ e.at \in Nat
      BY DEF TypeInv, TypeOK, LandedType
    <3>2. \A e \in landed : \A k \in (e.since + 1) .. e.at : k \in 1 .. Len(barrier_acks)
      BY <1>2, <3>1 DEF LandedWell, Barriers
    <3> QED
      BY <1>1, <1>2, <2>2, <3>1, <3>2 DEF LandedWell, Barriers
  <2>6. LandedIsMarked' /\ ReceiptsAreOver' /\ PauseCancelsWhatActs'
    BY <1>1, <2>1 DEF LandedIsMarked, ReceiptsAreOver, PauseCancelsWhatActs
  <2> QED
    BY <2>3, <2>4, <2>5, <2>6
<1> QED
  BY <1>3, <1>4

LEMMA InvStep == IndInv /\ [Next]_vars => IndInv'
<1> SUFFICES ASSUME IndInv, [Next]_vars PROVE IndInv'
  OBVIOUS
<1>0. TypeInv'
  BY TypeStep DEF IndInv
<1>1. CASE \E r \in Requests : AdmitOne(r)
  BY <1>0, <1>1, AdmitKeepsInv
<1>2. CASE TakeReleaseOnce
  <2>1. UNCHANGED <<in_flight, paused, cancelled, call, record>>
    BY <1>2 DEF TakeReleaseOnce, TakeRelease, state_vars
  <2> QED
    BY <1>0, <2>1, QuietStepKeepsInv DEF Busy
<1>3. CASE DispatchEvent \/ CheckCall \/ LongLands \/ SendMessage \/ Unrecorded \/ FinishOne
  BY <1>0, <1>3, DispatchKeepsInv, CheckCallKeepsInv, LongKeepsInv, SendKeepsInv,
     UnrecordedKeepsInv, FinishKeepsInv
<1>4. CASE \E action \in Controls, expected \in (1 .. MaxGeneration) \cup {Absent} :
             ControlOne(action, expected)
  BY <1>0, <1>4, ControlKeepsInv
<1>5. CASE UNCHANGED vars
  <2>1. UNCHANGED <<in_flight, paused, cancelled, call, record>>
    BY <1>5 DEF vars, gate_vars, state_vars, atomics
  <2> QED
    BY <1>0, <2>1, QuietStepKeepsInv DEF Busy
<1> QED
  BY <1>1, <1>2, <1>3, <1>4, <1>5 DEF Next, Worker

THEOREM Inductive == Spec => []IndInv
BY InvInit, InvStep, PTL DEF Spec
-----------------------------------------------------------------------------
(* What follows from it. *)

\* No check made after a pause or a release lets the request it interrupted
\* through, and no event of that request reaches the machine after it.
THEOREM BarriersHold == Spec => []NothingPassesABarrier
<1>1. IndInv => NothingPassesABarrier
  BY DEF IndInv, LandedWell, NothingPassesABarrier
<1> QED
  BY <1>1, Inductive, PTL

\* Input that lands after a barrier belongs to the request its acknowledgement
\* named.
THEOREM LateInputNamed == Spec => []LateInputIsNamed
<1>1. IndInv => LateInputIsNamed
  BY DEF IndInv, LandedWell, LateInputIsNamed
<1> QED
  BY <1>1, Inductive, PTL

\* A receipt admits whatever reached the machine for its request.
THEOREM ReceiptsTruthful == Spec => []ReceiptsAdmitWhatLanded
<1>1. IndInv => ReceiptsAdmitWhatLanded
  BY DEF IndInv, ReceiptsAreOver, ReceiptsAdmitWhatLanded
<1> QED
  BY <1>1, Inductive, PTL

\* An action is reported cancelled exactly when a barrier fell while it ran.
THEOREM CancellationTruthful == Spec => []CancelledIsTruthful
<1>1. IndInv => CancelledIsTruthful
  BY DEF IndInv, ReceiptsAreOver, CancelledIsTruthful
<1> QED
  BY <1>1, Inductive, PTL

\* A paused gate has cancelled whatever touches input and is still in flight.
THEOREM PauseCancels == Spec => []PauseCancelsWhatActs
<1>1. IndInv => PauseCancelsWhatActs
  BY DEF IndInv
<1> QED
  BY <1>1, Inductive, PTL
-----------------------------------------------------------------------------
(* Sequence numbers. *)

\* What the library guarantees of its lines (next_mutation_seq): an action that
\* carries no sequence number has none.  The gate itself does not check it.
LibraryRequests ==
  \A r \in Requests : ~CarriesMutationSeq(r.action) => r.mutation_seq = Absent

\* An admission that carries a number has a new one, and moves the mark to it; any
\* other leaves the mark alone.
LEMMA AdmitMovesTheMark ==
  ASSUME LibraryRequests, NEW r \in Requests, TypeInv, AdmitOne(r)
  PROVE  /\ Sequenced(r) => /\ r.mutation_seq \in Nat
                            /\ r.mutation_seq > mutation_high_water
                            /\ mutation_high_water' = r.mutation_seq
         /\ ~Sequenced(r) => mutation_high_water' = mutation_high_water
<1>1. r.mutation_seq \in Nat \cup {Absent}
  BY GateAssumption DEF RequestType
<1>2. Refusal(r) = "none"
  BY DEF AdmitOne, Admit
<1>3. Sequenced(r) => r.mutation_seq # Absent /\ r.mutation_seq > mutation_high_water
  BY <1>2, AdmittedMeans DEF Sequenced, NewSequence
<1>4. mutation_high_water' = IF r.action \notin UngatedActions /\ r.mutation_seq # Absent
                             THEN r.mutation_seq ELSE mutation_high_water
  BY DEF AdmitOne, Admit
<1>5. ~Sequenced(r) => r.action \in UngatedActions \/ r.mutation_seq = Absent
  BY DEF LibraryRequests, Sequenced
<1> QED
  BY <1>1, <1>3, <1>4, <1>5 DEF Sequenced

LEMMA HighWaterStep ==
  ASSUME LibraryRequests, TypeInv, HighWater, [Next]_vars PROVE HighWater'
<1>1. CASE UNCHANGED <<admitted, mutation_high_water>>
  BY <1>1 DEF HighWater, MutationsAtMostOnce
<1>2. CASE \E r \in Requests : AdmitOne(r)
  <2> PICK r \in Requests : AdmitOne(r)
    BY <1>2
  <2>1. /\ admitted' = Append(admitted, r) /\ Len(admitted) \in Nat
        /\ DOMAIN admitted' = 1 .. Len(admitted) + 1
        /\ admitted'[Len(admitted) + 1] = r
        /\ \A i \in 1 .. Len(admitted) : i \in DOMAIN admitted /\ admitted'[i] = admitted[i]
    BY DEF AdmitOne, TypeInv, TypeOK
  <2>2. mutation_high_water \in Nat /\ mutation_high_water' \in Nat
    BY AdmitMovesTheMark DEF TypeInv, TypeOK
  <2>3. mutation_high_water <= mutation_high_water'
    BY <2>2, AdmitMovesTheMark
  <2>4. \A i \in DOMAIN admitted' :
          Sequenced(admitted'[i]) => /\ admitted'[i].mutation_seq \in Nat
                                     /\ admitted'[i].mutation_seq <= mutation_high_water'
    <3> SUFFICES ASSUME NEW i \in DOMAIN admitted', Sequenced(admitted'[i])
                 PROVE  /\ admitted'[i].mutation_seq \in Nat
                        /\ admitted'[i].mutation_seq <= mutation_high_water'
      OBVIOUS
    <3>1. CASE i = Len(admitted) + 1
      BY <2>1, <3>1, AdmitMovesTheMark
    <3>2. CASE i \in 1 .. Len(admitted)
      <4>1. admitted'[i] = admitted[i] /\ i \in DOMAIN admitted
        BY <2>1, <3>2
      <4>2. /\ admitted[i].mutation_seq \in Nat
            /\ admitted[i].mutation_seq <= mutation_high_water
        BY <4>1 DEF HighWater
      <4> QED
        BY <2>2, <2>3, <4>1, <4>2
    <3> QED
      BY <2>1, <3>1, <3>2
  <2>5. MutationsAtMostOnce'
    <3> SUFFICES ASSUME NEW i \in DOMAIN admitted', NEW j \in DOMAIN admitted', i < j,
                        Sequenced(admitted'[i]), Sequenced(admitted'[j])
                 PROVE  admitted'[i].mutation_seq < admitted'[j].mutation_seq
      BY DEF MutationsAtMostOnce
    <3>1. i \in 1 .. Len(admitted) /\ i \in DOMAIN admitted /\ admitted'[i] = admitted[i]
      BY <2>1
    <3>2. CASE j = Len(admitted) + 1
      <4>1. admitted[i].mutation_seq \in Nat /\ admitted[i].mutation_seq <= mutation_high_water
        BY <3>1 DEF HighWater
      <4> QED
        BY <2>1, <2>2, <3>1, <3>2, <4>1, AdmitMovesTheMark
    <3>3. CASE j \in 1 .. Len(admitted)
      BY <2>1, <3>1, <3>3 DEF HighWater, MutationsAtMostOnce
    <3> QED
      BY <2>1, <3>2, <3>3
  <2> QED
    BY <2>4, <2>5 DEF HighWater
<1>3. CASE ~(\E r \in Requests : AdmitOne(r))
  <2>1. UNCHANGED <<admitted, mutation_high_water>>
    BY <1>3
       DEF Next, Worker, TakeReleaseOnce, TakeRelease, DispatchEvent, Dispatch, CheckCall,
           BeginLong, CheckMessage, LongLands, SendMessage, MessageGoesOut, Unrecorded,
           EndLong, MessageRefused, EndMessage, Refused, InputComplete, FinishOne, Finish,
           ControlOne, Control, Pause, Release, Resume, Barrier, CallMoves, Mark, vars,
           gate_vars, state_vars, atomics, record
  <2> QED
    BY <1>1, <2>1
<1> QED
  BY <1>2, <1>3

\* With the library's lines, a mutation is admitted at most once and sequence
\* numbers only rise, whatever is repeated, delayed or reordered.
THEOREM MutationsOnce == ASSUME LibraryRequests PROVE Spec => []MutationsAtMostOnce
<1>1. HistoryInit => HighWater
  BY DEF HistoryInit, HighWater, MutationsAtMostOnce
<1>2. TypeInv /\ HighWater /\ [Next]_vars => HighWater'
  BY HighWaterStep
<1>3. HighWater => MutationsAtMostOnce
  BY DEF HighWater
<1> QED
  BY <1>1, <1>2, <1>3, TypeInit, TypeStep, PTL DEF Spec
-----------------------------------------------------------------------------
(* The gate implements the promise of module Stop. *)

\* The abstract picture of what landed and of what was receipted.
Touched == {e.n : e \in landed}

Reported == {[n |-> r.n, posted |-> r.posted, cancelled |-> r.cancelled] : r \in receipts}

\* A call that has yet to return belongs to a request that touches input.
OnlyActionsOfInputAsk ==
  EventActions \cup LongActions \cup MessageActions \cup {"type"} \subseteq
    {a \in WireActions : TouchesInput(a)}

LEMMA ActorsTouchInput == OnlyActionsOfInputAsk
BY DEF OnlyActionsOfInputAsk, EventActions, LongActions, MessageActions, WireActions,
       TouchesInput, InputActions

LEMMA OneMoreTouched ==
  ASSUME NEW S, NEW x
  PROVE  {e.n : e \in S \cup {x}} = {e.n : e \in S} \cup {x.n}
OBVIOUS

LEMMA OneMoreReported ==
  ASSUME NEW S, NEW x
  PROVE  {[n |-> r.n, posted |-> r.posted, cancelled |-> r.cancelled] : r \in S \cup {x}}
           = {[n |-> r.n, posted |-> r.posted, cancelled |-> r.cancelled] : r \in S}
               \cup {[n |-> x.n, posted |-> x.posted, cancelled |-> x.cancelled]}
OBVIOUS

LEMMA PromiseInit == HistoryInit => Promise!Init
<1> SUFFICES ASSUME HistoryInit PROVE Promise!Init
  OBVIOUS
<1>1. ~Busy /\ landed = {} /\ receipts = {} /\ admitted = <<>> /\ barrier_acks = <<>>
  BY DEF HistoryInit, Init, Busy
<1> QED
  BY <1>1 DEF HistoryInit, Init, RequestInFlight, Promise!Init

\* A step that changes none of what the promise speaks of.
LEMMA NothingOfTheStop ==
  ASSUME UNCHANGED <<paused, cancelled, admitted, barrier_acks, landed, receipts>>,
         Busy' <=> Busy,
         Busy => /\ in_flight'.request_id = in_flight.request_id
                 /\ in_flight'.action = in_flight.action,
         call' \in {"long", "message", "went_out"} <=> call \in {"long", "message", "went_out"}
  PROVE  UNCHANGED Promise!vars
BY DEF Promise!vars, Promise!the_acting, Promise!the_told, RequestInFlight, TouchesInput

LEMMA AdmitIsBegin ==
  ASSUME NEW r \in Requests, IndInv, TypeInv', AdmitOne(r)
  PROVE  Promise!Begin(r.request_id, TouchesInput(r.action))
<1>1. /\ ~Busy /\ Refusal(r) = "none" /\ cancelled' = FALSE
      /\ in_flight'.request_id = r.request_id /\ in_flight'.action = r.action
      /\ admitted' = Append(admitted, r)
      /\ UNCHANGED <<paused, barrier_acks, landed, receipts, call>>
  BY DEF AdmitOne, Admit
<1>2. Busy'
  <2>1. r.action # "none"
    BY GateAssumption DEF RequestType, WireActions, InputActions, ReadOnlyActions,
                          UngatedActions
  <2> QED
    BY <1>1, <2>1 DEF Busy, Idle
<1>3. Len(admitted') = Len(admitted) + 1
  BY <1>1 DEF IndInv, TypeInv, TypeOK
<1>4. paused => ~TouchesInput(r.action)
  BY <1>1, AdmittedMeans
<1> QED
  BY <1>1, <1>2, <1>3, <1>4
     DEF Promise!Begin, Promise!the_told, RequestInFlight, TouchesInput

LEMMA EventIsPost ==
  ASSUME IndInv, DispatchEvent, Lands("event", Barriers) PROVE Promise!Post
<1>1. /\ Busy /\ Open /\ in_flight.action \in EventActions
      /\ call = "none" /\ call' \in {"none", "failed"}
      /\ in_flight' = [in_flight EXCEPT !.posted = TRUE]
      /\ UNCHANGED <<paused, cancelled, admitted, barrier_acks, receipts>>
  BY DEF DispatchEvent, Dispatch, MayAsk, Mark, atomics
<1>2. /\ in_flight' # Idle /\ in_flight'.request_id = in_flight.request_id
      /\ in_flight'.action = in_flight.action
  BY <1>1 DEF IndInv, TypeInv, TypeOK, Busy, InFlightType, Idle
<1>3. TouchesInput(in_flight.action)
  BY <1>1, ActorsTouchInput DEF OnlyActionsOfInputAsk
<1>4. flight.n = Len(admitted)
  BY <1>1 DEF IndInv, FlightIsNewest
<1>5. Touched' = Touched \cup {Len(admitted)}
  BY <1>4, OneMoreTouched DEF Lands, Touched
<1> QED
  BY <1>1, <1>2, <1>3, <1>5
     DEF Promise!Post, Promise!MayStart, Promise!the_acting, Promise!the_told,
         RequestInFlight, Open, Busy, TouchesInput, Touched

LEMMA CheckIsStart ==
  ASSUME IndInv, CheckCall PROVE Promise!StartCall
<1>1. /\ Busy /\ Open /\ call' \in {"long", "message"}
      /\ in_flight.action \in LongActions \cup MessageActions \cup {"type"}
      /\ UNCHANGED <<paused, cancelled, admitted, barrier_acks, landed, receipts>>
  BY DEF CheckCall, BeginLong, CheckMessage, CallMoves, MayAsk, Mark, state_vars, atomics
<1>2. in_flight \in InFlightType
  BY <1>1 DEF IndInv, TypeInv, TypeOK, Busy
<1>3. /\ Busy' /\ in_flight'.request_id = in_flight.request_id
      /\ in_flight'.action = in_flight.action
  BY <1>1, <1>2 DEF CheckCall, BeginLong, CheckMessage, CallMoves, Mark, state_vars, Busy,
                    Idle, InFlightType
<1>4. TouchesInput(in_flight.action)
  BY <1>1, ActorsTouchInput DEF OnlyActionsOfInputAsk
<1> QED
  BY <1>1, <1>3, <1>4
     DEF Promise!StartCall, Promise!MayStart, Promise!the_acting, Promise!the_told,
         RequestInFlight, Open, TouchesInput

LEMMA LandingIsCallLands ==
  ASSUME IndInv, NEW how, Lands(how, checked_at),
         call \in {"long", "message"}, call' \in {"long", "went_out"},
         UNCHANGED <<state_vars, atomics, admitted, barrier_acks, receipts>>
  PROVE  Promise!CallLands
<1>1. Busy /\ flight.n = Len(admitted)
  BY DEF IndInv, TypeInv, FlightIsNewest
<1>2. Touched' = Touched \cup {Len(admitted)}
  BY <1>1, OneMoreTouched DEF Lands, Touched
<1> QED
  BY <1>2 DEF Promise!CallLands, Promise!the_acting, Promise!the_told, RequestInFlight,
              Busy, TouchesInput, Touched, state_vars, atomics

LEMMA EndingIsCallReturns ==
  ASSUME IndInv, Unrecorded, EndLong \/ MessageRefused \/ EndMessage
  PROVE  Promise!CallReturns
<1>1. Busy /\ in_flight \in InFlightType
  BY DEF IndInv, TypeInv, TypeOK, EndLong, MessageRefused, EndMessage, CallMoves, Busy
<1>2. /\ Busy' /\ in_flight'.request_id = in_flight.request_id
      /\ in_flight'.action = in_flight.action
  BY <1>1 DEF EndLong, MessageRefused, EndMessage, CallMoves, Mark, state_vars, Busy, Idle,
              InFlightType
<1>3. /\ call' \in {"answered", "failed", "not_sent"}
      /\ UNCHANGED <<paused, cancelled, record>>
  BY DEF Unrecorded, EndLong, MessageRefused, EndMessage, CallMoves, Mark, state_vars, atomics
<1> QED
  BY <1>1, <1>2, <1>3
     DEF Promise!CallReturns, Promise!the_acting, Promise!the_told, RequestInFlight,
         TouchesInput, record

\* The other steps of a request leave the promise where it was.
LEMMA QuietIsStutter ==
  ASSUME IndInv, Unrecorded, Refused \/ InputComplete PROVE UNCHANGED Promise!vars
<1>1. Busy /\ in_flight \in InFlightType
  BY DEF IndInv, TypeInv, TypeOK, Refused, InputComplete, MayAsk, Busy
<1>2. /\ Busy' /\ in_flight'.request_id = in_flight.request_id
      /\ in_flight'.action = in_flight.action
  BY <1>1 DEF Refused, InputComplete, CallMoves, state_vars, Busy, Idle, InFlightType
<1>3. /\ call \notin {"long", "message", "went_out"}
      /\ call' \notin {"long", "message", "went_out"}
      /\ UNCHANGED <<paused, cancelled, record>>
  BY DEF Unrecorded, Refused, InputComplete, MayAsk, CallMoves, state_vars, atomics
<1> QED
  BY <1>1, <1>2, <1>3, NothingOfTheStop DEF record

LEMMA FinishIsReport ==
  ASSUME IndInv, FinishOne PROVE Promise!Report(TRUE) \/ Promise!Report(FALSE)
<1>1. /\ Busy /\ ~Busy' /\ call \in {"none", "failed"} /\ call' = "none"
      /\ UNCHANGED <<paused, admitted, barrier_acks, landed>>
  BY DEF FinishOne, Finish, Busy
<1>2. /\ flight.n = Len(admitted) /\ in_flight \in InFlightType
      /\ RequestInFlight # Absent
  BY <1>1, GateAssumption
     DEF IndInv, FlightIsNewest, TypeInv, TypeOK, Busy, RequestInFlight, InFlightType
<1>3. Len(admitted) \in Touched => in_flight.posted
  BY <1>1, <1>2 DEF IndInv, LandedIsMarked, Touched
<1>4. Reported' = Reported \cup {[n |-> Len(admitted), posted |-> in_flight.posted,
                                  cancelled |-> cancelled]}
  <2> DEFINE x == [n |-> flight.n, since |-> flight.since, until |-> Barriers,
                   posted |-> in_flight.posted, input_complete |-> in_flight.input_complete,
                   cancelled |-> cancelled]
  <2>1. receipts' = receipts \cup {x}
    BY DEF FinishOne
  <2>2. x.n = Len(admitted) /\ x.posted = in_flight.posted /\ x.cancelled = cancelled
    BY <1>2
  <2> HIDE DEF x
  <2>3. Reported' = Reported \cup
          {[n |-> x.n, posted |-> x.posted, cancelled |-> x.cancelled]}
    BY <2>1, OneMoreReported DEF Reported
  <2> QED
    BY <2>2, <2>3, Zenon
<1>5. ASSUME NEW p \in BOOLEAN, in_flight.posted = p PROVE Promise!Report(p)
  BY <1>1, <1>2, <1>3, <1>4, <1>5
     DEF Promise!Report, RequestInFlight, Touched, Reported, IndInv, TypeInv, TypeOK
<1> QED
  BY <1>2, <1>5 DEF InFlightType

LEMMA ControlIsStop ==
  ASSUME NEW action \in Controls, NEW expected, IndInv, ControlOne(action, expected)
  PROVE  Promise!Lift \/ Promise!StopNow(TRUE) \/ Promise!StopNow(FALSE)
<1>1. UNCHANGED <<in_flight, call, admitted, landed, receipts>>
  BY DEF ControlOne, Control, Pause, Release, Resume, Barrier
<1>2. (Busy' <=> Busy) /\ RequestInFlight' = RequestInFlight
  BY <1>1 DEF Busy, RequestInFlight
<1>3. Busy <=> RequestInFlight # Absent
  BY GateAssumption DEF IndInv, TypeInv, TypeOK, Busy, RequestInFlight, InFlightType
<1>4. CASE action = "resume"
  <2>1. paused' = FALSE /\ UNCHANGED <<cancelled, barrier_acks>>
    BY <1>4 DEF ControlOne, Control, Resume, atomics
  <2> QED
    BY <1>1, <1>2, <2>1 DEF Promise!Lift, Promise!the_acting, Promise!the_told
<1>5. CASE action = "pause"
  <2>1. /\ paused' = TRUE /\ cancelled' = TRUE
        /\ barrier_acks' = Append(barrier_acks, RequestInFlight)
    BY <1>5 DEF ControlOne, Control, Pause, Barrier
  <2> QED
    BY <1>1, <1>2, <1>3, <2>1 DEF Promise!StopNow, Promise!the_acting, IndInv, TypeInv, TypeOK
<1>6. CASE action = "release"
  <2>1. /\ paused' = paused /\ cancelled' = TRUE
        /\ barrier_acks' = Append(barrier_acks, RequestInFlight)
    BY <1>6 DEF ControlOne, Control, Release, Barrier
  <2> QED
    BY <1>1, <1>2, <1>3, <2>1 DEF Promise!StopNow, Promise!the_acting, IndInv, TypeInv, TypeOK
<1> QED
  BY <1>4, <1>5, <1>6 DEF Controls

LEMMA EveryStepIsPromised == IndInv /\ [Next]_vars => [Promise!Next]_(Promise!vars)
<1> SUFFICES ASSUME IndInv, [Next]_vars PROVE Promise!Next \/ UNCHANGED Promise!vars
  OBVIOUS
<1>0. TypeInv'
  BY TypeStep DEF IndInv
<1>1. CASE \E r \in Requests : AdmitOne(r)
  <2> PICK r \in Requests : AdmitOne(r)
    BY <1>1
  <2>1. Promise!Begin(r.request_id, TouchesInput(r.action))
    BY <1>0, AdmitIsBegin
  <2>2. r.request_id \in {q.request_id : q \in Requests} /\ TouchesInput(r.action) \in BOOLEAN
    BY DEF TouchesInput
  <2> QED
    BY <2>1, <2>2 DEF Promise!Next
<1>2. CASE TakeReleaseOnce \/ UNCHANGED vars
  BY <1>2, NothingOfTheStop
     DEF TakeReleaseOnce, TakeRelease, record, state_vars, vars, gate_vars, atomics, Busy
<1>3. CASE DispatchEvent
  <2>1. CASE Lands("event", Barriers)
    BY <1>3, <2>1, EventIsPost DEF Promise!Next
  <2>2. CASE UNCHANGED landed
    <3>1. /\ Busy /\ in_flight \in InFlightType
          /\ call = "none" /\ call' \in {"none", "failed"}
          /\ in_flight' = [in_flight EXCEPT !.posted = TRUE]
          /\ UNCHANGED <<paused, cancelled, admitted, barrier_acks, receipts>>
      BY <1>3 DEF DispatchEvent, Dispatch, MayAsk, Mark, atomics, IndInv, TypeInv, TypeOK, Busy
    <3>2. /\ Busy' /\ in_flight'.request_id = in_flight.request_id
          /\ in_flight'.action = in_flight.action
      BY <3>1 DEF Busy, Idle, InFlightType
    <3> QED
      BY <2>2, <3>1, <3>2, NothingOfTheStop
  <2> QED
    BY <1>3, <2>1, <2>2 DEF DispatchEvent
<1>4. CASE CheckCall
  BY <1>4, CheckIsStart DEF Promise!Next
<1>5. CASE LongLands
  BY <1>5, LandingIsCallLands DEF LongLands, gate_vars, Promise!Next
<1>6. CASE SendMessage
  <2>1. /\ call = "message" /\ call' = "went_out"
        /\ UNCHANGED <<state_vars, atomics, admitted, barrier_acks, receipts>>
    BY <1>6 DEF SendMessage, MessageGoesOut, CallMoves
  <2>2. CASE Lands("message", checked_at)
    BY <2>1, <2>2, LandingIsCallLands DEF Promise!Next
  <2>3. CASE UNCHANGED landed
    BY <2>1, <2>3, NothingOfTheStop DEF state_vars, atomics, Busy
  <2> QED
    BY <1>6, <2>2, <2>3 DEF SendMessage
<1>7. CASE Unrecorded
  <2>1. CASE EndLong \/ MessageRefused \/ EndMessage
    BY <1>7, <2>1, EndingIsCallReturns DEF Promise!Next
  <2>2. CASE Refused \/ InputComplete
    BY <1>7, <2>2, QuietIsStutter
  <2> QED
    BY <1>7, <2>1, <2>2 DEF Unrecorded
<1>8. CASE FinishOne
  BY <1>8, FinishIsReport DEF Promise!Next
<1>9. CASE \E action \in Controls, expected \in (1 .. MaxGeneration) \cup {Absent} :
             ControlOne(action, expected)
  BY <1>9, ControlIsStop DEF Promise!Next
<1> QED
  BY <1>1, <1>2, <1>3, <1>4, <1>5, <1>6, <1>7, <1>8, <1>9 DEF Next, Worker

\* Whatever requests come and however the controls fall, the gate, its worker and
\* its reader do what the person was promised.
THEOREM PromiseIsKept == Spec => KeepsThePromise
BY PromiseInit, EveryStepIsPromised, Inductive, PTL DEF Spec, KeepsThePromise, Promise!Spec

(***************************************************************************)
(* The pipe around the gate.  What a release leaves nothing of, for any    *)
(* parent, any number of lines and of presses: the authority every line,   *)
(* job and frame carries is one the gate has had, and a job that meets a   *)
(* release on its way was written under an older one.                      *)
(***************************************************************************)

\* A generation the gate has had.
Had == 0 .. authorization_generation

Sequential(s) == s \in Seq(Range(s))

Authority ==
  /\ authorization_generation \in Nat \ {0}
  /\ released_at \in Had

\* Reports carry generations the gate has had.
Tells(f) == f.type \in {"control_ack", "session_event"} => f.authorization_generation \in Had

FramesTell ==
  /\ Sequential(stdout)
  /\ \A i \in DOMAIN stdout : Tells(stdout[i])
  /\ reader = "emitting" => Tells(heard)
  /\ badge # <<>> => Tells(Head(badge))

\* So do the lines a parent writes, on their whole way to the worker.
LinesQuote ==
  /\ Sequential(stdin)
  /\ \A i \in DOMAIN stdin : stdin[i].body.authorization_generation \in Had
  /\ reader \in {"offering", "sending"} => heard.authorization_generation \in Had
  /\ jobs # <<>> => Head(jobs).authorization_generation \in Had
  /\ worker \in {"received", "admitting", "handling"} => job.authorization_generation \in Had

\* Unless a release waits to be taken, all that is held was minted after the last.
HeldIsOfNow ==
  ~released => \A held \in seat : held.minted \in Nat /\ held.minted >= released_at

\* A release that comes after the worker took the last one finds a job of before it.
JobMeetsRelease ==
  /\ worker \in {"admitting", "handling"} /\ released
       => job.authorization_generation < released_at
  /\ worker = "handling" /\ ~released /\ job.action \notin UngatedActions
       => job.authorization_generation >= released_at

ReleaseInv == Authority /\ FramesTell /\ LinesQuote /\ HeldIsOfNow /\ JobMeetsRelease
-----------------------------------------------------------------------------
(* Sequences and numbers.                                                  *)

LEMMA AppendIsSequential ==
  ASSUME NEW s, Sequential(s), NEW e
  PROVE  /\ Sequential(Append(s, e))
         /\ \A i \in DOMAIN Append(s, e) :
              Append(s, e)[i] = e \/ (i \in DOMAIN s /\ Append(s, e)[i] = s[i])
<1> DEFINE S == Range(s) \cup {e}
<1>1. s \in Seq(S)
  BY SeqMonotonic DEF Sequential
<1>2. /\ Append(s, e) \in Seq(S)
      /\ Len(Append(s, e)) = Len(s) + 1
      /\ \A i \in 1 .. Len(s) : Append(s, e)[i] = s[i]
      /\ Append(s, e)[Len(s) + 1] = e
  <2>1. e \in S
    OBVIOUS
  <2> QED
    BY <1>1, <2>1, AppendProperties
<1>3. DOMAIN s = 1 .. Len(s) /\ Len(s) \in Nat
  BY <1>1, LenProperties
<1>4. DOMAIN Append(s, e) = 1 .. Len(s) + 1
  BY <1>2, LenProperties
<1>5. Sequential(Append(s, e))
  BY <1>2, SeqOfRange DEF Sequential
<1> QED
  BY <1>2, <1>3, <1>4, <1>5

LEMMA TailIsSequential ==
  ASSUME NEW s, Sequential(s), s # <<>>
  PROVE  /\ Sequential(Tail(s))
         /\ \A i \in DOMAIN Tail(s) : i + 1 \in DOMAIN s /\ Tail(s)[i] = s[i + 1]
         /\ 1 \in DOMAIN s /\ Head(s) = s[1]
<1> DEFINE S == Range(s)
<1>1. s \in Seq(S)
  BY DEF Sequential
<1>2. Tail(s) \in Seq(S) /\ Len(Tail(s)) = Len(s) - 1
      /\ \A i \in 1 .. Len(Tail(s)) : Tail(s)[i] = s[i + 1]
  BY <1>1, HeadTailProperties
<1>3. DOMAIN s = 1 .. Len(s) /\ Len(s) \in Nat \ {0}
  BY <1>1, LenProperties, EmptySeq
<1>4. DOMAIN Tail(s) = 1 .. Len(Tail(s))
  BY <1>2, LenProperties
<1>5. Sequential(Tail(s))
  BY <1>2, SeqOfRange DEF Sequential
<1>6. Head(s) = s[1]
  BY <1>1
<1> QED
  BY <1>2, <1>3, <1>4, <1>5, <1>6

LEMMA BoundedHasGreatest ==
  ASSUME NEW g \in Nat, NEW T \in SUBSET (0 .. g), T # {}
  PROVE  \E m \in T : \A h \in T : h <= m
<1> DEFINE Below == {g - t : t \in T}
<1>1. Below \in SUBSET Nat /\ Below # {}
  <2>1. \A t \in T : g - t \in Nat
    OBVIOUS
  <2> QED
    BY <2>1
<1>2. PICK x \in Below : \A y \in Below : ~(<<y, x>> \in OpToRel(<, Nat))
  BY <1>1, WFMin, NatLessThanWellFounded
<1>3. PICK m \in T : x = g - m
  BY <1>2
<1>4. ASSUME NEW h \in T PROVE h <= m
  <2>1. g - h \in Below /\ g - h \in Nat /\ x \in Nat
    BY <1>1, <1>2
  <2>2. ~(g - h < x)
    BY <1>2, <2>1 DEF OpToRel
  <2> QED
    BY <1>3, <2>2
<1> QED
  BY <1>4

\* A parent quotes what it has read, so a generation the gate has had.
LEMMA NewestWasHad ==
  ASSUME Authority, FramesTell
  PROVE  Newest \in Had
<1>1. Published \in SUBSET Had /\ 1 \in Published
  BY DEF Published, ToSet, FramesTell, Tells, Authority, Had
<1>2. \E m \in Published : \A h \in Published : h <= m
  BY <1>1, BoundedHasGreatest DEF Had, Authority
<1> QED
  BY <1>1, <1>2 DEF Newest
-----------------------------------------------------------------------------
(* What the steps share.                                                   *)

Files == <<stdin, stdout, reader, heard, jobs, worker, job, badge>>

\* The generation only rises, and what was had stays so.
Rises ==
  /\ authorization_generation' \in Nat \ {0}
  /\ authorization_generation <= authorization_generation'

LEMMA HadIsKept == Authority /\ Rises => Had \subseteq Had'
BY DEF Authority, Rises, Had

LEMMA ControlRises ==
  ASSUME Authority, NEW a, NEW e, Control(a, e)
  PROVE  /\ authorization_generation' = authorization_generation + 1
         /\ Rises
         /\ a = "release" => released'
         /\ a # "release" => released' = released
<1>1. authorization_generation' = authorization_generation + 1
  BY DEF Control, Pause, Release, Resume, Barrier
<1>2. (a = "release" => released') /\ (a # "release" => released' = released)
  BY Zenon DEF Control, Pause, Release, Resume, atomics
<1> QED
  BY <1>1, <1>2 DEF Authority, Rises

\* A step that leaves the gate's authority, the files and what is held alone.
LEMMA NothingMoves ==
  ASSUME ReleaseInv,
         UNCHANGED <<authorization_generation, released, released_at, seat, Files>>
  PROVE  ReleaseInv'
BY DEF ReleaseInv, Authority, FramesTell, LinesQuote, HeldIsOfNow, JobMeetsRelease,
       Files, Tells, Had

LEMMA ReleaseInit == PipeInit => ReleaseInv
<1> SUFFICES ASSUME PipeInit PROVE ReleaseInv
  OBVIOUS
<1>1. Sequential(<<>>) /\ DOMAIN <<>> = {}
  BY EmptySeq DEF Sequential
<1>2. Authority
  BY DEF PipeInit, SidecarInit, Init, Authority, Had
<1>3. FramesTell /\ LinesQuote
  BY <1>1 DEF PipeInit, SidecarInit, FramesTell, LinesQuote
<1>4. HeldIsOfNow /\ JobMeetsRelease
  BY DEF PipeInit, SidecarInit, HeldIsOfNow, JobMeetsRelease
<1> QED
  BY <1>2, <1>3, <1>4 DEF ReleaseInv

\* The gate's steps for the request in flight revoke nothing.
LEMMA RequestsRevokeNothing ==
  ASSUME \/ Dispatch \/ BeginLong \/ CheckMessage \/ EndLong \/ MessageGoesOut
         \/ MessageRefused \/ EndMessage \/ Refused \/ InputComplete \/ Finish
  PROVE  UNCHANGED <<authorization_generation, released>>
<1>1. CASE Dispatch \/ BeginLong \/ EndMessage
  BY <1>1 DEF Dispatch, BeginLong, EndMessage, Mark, CallMoves, state_vars, atomics
<1>2. CASE CheckMessage \/ EndLong \/ MessageGoesOut \/ MessageRefused
  BY <1>2 DEF CheckMessage, EndLong, MessageGoesOut, MessageRefused, CallMoves, state_vars, atomics
<1>3. CASE Refused \/ InputComplete \/ Finish
  BY <1>3 DEF Refused, InputComplete, Finish, CallMoves, state_vars, atomics
<1> QED
  BY <1>1, <1>2, <1>3
-----------------------------------------------------------------------------
LEMMA ReleaseStep == ReleaseInv /\ [PipeNext]_pipe_vars => ReleaseInv'
<1> SUFFICES ASSUME ReleaseInv, [PipeNext]_pipe_vars PROVE ReleaseInv'
  OBVIOUS
<1> USE DEF ReleaseInv
<1>0. CASE UNCHANGED pipe_vars
  BY <1>0, NothingMoves DEF pipe_vars, sidecar_vars, gate_vars, state_vars, atomics, pipes,
     reader_vars, worker_vars, Files
<1>1. CASE CloseStdin
  BY <1>1, NothingMoves DEF CloseStdin, gate_vars, state_vars, atomics, reader_vars,
     worker_vars, Files
<1>2. ASSUME NEW line, Write(line), line.body.authorization_generation = Newest
      PROVE  ReleaseInv'
  <2>1. UNCHANGED <<authorization_generation, released, released_at, seat, stdout, reader,
                    heard, jobs, worker, job, badge>>
        /\ stdin' = Append(stdin, line)
    BY <1>2 DEF Write, gate_vars, state_vars, atomics, reader_vars, worker_vars
  <2>2. line.body.authorization_generation \in Had
    BY <1>2, NewestWasHad
  <2>3. LinesQuote'
    BY <2>1, <2>2, AppendIsSequential DEF LinesQuote, Had
  <2> QED
    BY <2>1, <2>3 DEF Authority, FramesTell, HeldIsOfNow, JobMeetsRelease, Tells, Had
<1>3. CASE ReadControl
  <2> DEFINE c == Head(stdin).body
  <2>1. /\ stdin # <<>> /\ stdin' = Tail(stdin) /\ reader' = "emitting"
        /\ UNCHANGED <<stdout, jobs, worker, job, seat, badge>>
    BY <1>3 DEF ReadControl, ReaderHandles, worker_vars
  <2>2. \/ UNCHANGED <<authorization_generation, released, released_at>>
        \/ /\ authorization_generation' = authorization_generation + 1 /\ Rises
           /\ c.action = "release" => released'
           /\ c.action # "release" => released' = released
           /\ released_at' = IF c.action = "release" THEN authorization_generation'
                             ELSE released_at
    <3>1. CASE c.action = "resume" /\ ~ResumeApplies(c.authorization_generation)
      BY <1>3, <3>1 DEF ReadControl, gate_vars, state_vars, atomics
    <3>2. CASE ~(c.action = "resume" /\ ~ResumeApplies(c.authorization_generation))
      BY <1>3, <3>2, ControlRises DEF ReadControl
    <3> QED
      BY <3>1, <3>2
  <2>3. Authority' /\ Had \subseteq Had'
    BY <2>2, HadIsKept DEF Authority, Had, Rises
  <2>4. Tells(heard)'
    BY <1>3, <2>3 DEF ReadControl, Ack, Tells, Authority, Had
  <2>5. FramesTell'
    BY <2>1, <2>3, <2>4 DEF FramesTell, Tells
  <2>6. LinesQuote'
    BY <2>1, <2>3, TailIsSequential DEF LinesQuote
  <2>7. HeldIsOfNow' /\ JobMeetsRelease'
    BY <2>1, <2>2 DEF HeldIsOfNow, JobMeetsRelease, LinesQuote, Authority, Had
  <2> QED
    BY <2>3, <2>5, <2>6, <2>7
<1>4. CASE ReadRequest
  <2>1. /\ stdin # <<>> /\ stdin' = Tail(stdin) /\ reader' = "offering"
        /\ heard' = Head(stdin).body
        /\ UNCHANGED <<authorization_generation, released, released_at, stdout, jobs, worker,
                       job, seat, badge>>
    BY <1>4 DEF ReadRequest, ReaderHandles, worker_vars, gate_vars, state_vars, atomics
  <2>2. LinesQuote'
    BY <2>1, TailIsSequential DEF LinesQuote, Had
  <2> QED
    BY <2>1, <2>2 DEF Authority, FramesTell, HeldIsOfNow, JobMeetsRelease, Tells, Had
<1>5. CASE OfferAsksTheGate \/ OfferSends \/ ReaderEnds
  <2>1. UNCHANGED <<authorization_generation, released, released_at, stdin, stdout, worker,
                    job, seat, badge>>
    BY <1>5 DEF OfferAsksTheGate, OfferSends, ReaderEnds, ReaderSteps, worker_vars,
       gate_vars, state_vars, atomics
  <2>2. reader' = "emitting" => heard'.type \in {"ack", "response"}
    BY <1>5 DEF OfferAsksTheGate, OfferSends, ReaderEnds, ReaderSteps, Response
  <2>3. FramesTell'
    BY <2>1, <2>2 DEF FramesTell, Tells, Had
  <2>4. LinesQuote'
    BY <1>5, <2>1 DEF LinesQuote, Had, OfferAsksTheGate, OfferSends, ReaderEnds, ReaderSteps
  <2> QED
    BY <2>1, <2>3, <2>4 DEF Authority, HeldIsOfNow, JobMeetsRelease, Had
<1>6. CASE ReaderEmits
  <2>1. /\ reader = "emitting" /\ reader' = "reading" /\ stdout' = Append(stdout, heard)
        /\ UNCHANGED <<authorization_generation, released, released_at, stdin, jobs, worker,
                       job, seat, badge>>
    BY <1>6 DEF ReaderEmits, ReaderSteps, Emit, worker_vars, gate_vars, state_vars, atomics
  <2>2. FramesTell'
    BY <2>1, AppendIsSequential DEF FramesTell, Tells, Had
  <2> QED
    BY <2>1, <2>2 DEF Authority, LinesQuote, HeldIsOfNow, JobMeetsRelease, Had
<1>7. CASE Receive
  <2>1. /\ jobs # <<>> /\ job' = Head(jobs) /\ jobs' = <<>> /\ worker' = "received"
        /\ UNCHANGED <<authorization_generation, released, released_at, stdin, stdout, reader,
                       heard, seat, badge>>
    BY <1>7 DEF Receive, WorkerMoves, reader_vars, gate_vars, state_vars, atomics
  <2> QED
    BY <2>1 DEF Authority, FramesTell, LinesQuote, HeldIsOfNow, JobMeetsRelease, Tells, Had
<1>8. CASE LetGo
  <2>1. /\ worker = "received" /\ worker' = "admitting" /\ ~released'
        /\ seat' = IF released THEN {} ELSE seat
        /\ UNCHANGED <<authorization_generation, released_at, stdin, stdout, reader, heard,
                       jobs, job, badge>>
    BY <1>8 DEF LetGo, TakeRelease, WorkerMoves, reader_vars, state_vars
  <2> QED
    BY <2>1 DEF Authority, FramesTell, LinesQuote, HeldIsOfNow, JobMeetsRelease, Tells, Had
<1>9. CASE AdmitJob
  <2>1. /\ worker = "admitting" /\ worker' = "handling"
        /\ UNCHANGED <<authorization_generation, released, released_at, stdin, stdout, reader,
                       heard, jobs, job, badge, seat>>
    BY <1>9 DEF AdmitJob, Admit, WorkerMoves, reader_vars
  <2>2. job.action \notin UngatedActions =>
          job.authorization_generation = authorization_generation
    BY <1>9 DEF AdmitJob, Admit, Refusal, CurrentGenerations
  <2> QED
    BY <2>1, <2>2 DEF Authority, FramesTell, LinesQuote, HeldIsOfNow, JobMeetsRelease, Tells, Had
<1>10. CASE RefuseJob
  <2>1. /\ worker' = "reporting"
        /\ UNCHANGED <<authorization_generation, released, released_at, stdin, stdout, reader,
                       heard, jobs, job, badge, seat>>
    BY <1>10 DEF RefuseJob, WorkerMoves, reader_vars, gate_vars, state_vars, atomics
  <2> QED
    BY <2>1 DEF Authority, FramesTell, LinesQuote, HeldIsOfNow, JobMeetsRelease, Tells, Had
<1>11. CASE Act \/ CallEnds
  <2>1. UNCHANGED <<authorization_generation, released>>
    BY <1>11, RequestsRevokeNothing DEF Act, CallEnds, ActThrough
  <2>2. UNCHANGED <<released_at, seat, Files>>
    BY <1>11 DEF Act, CallEnds, ActThrough, WorkerMoves, reader_vars, Files
  <2> QED
    BY <2>1, <2>2, NothingMoves
<1>12. CASE FinishJob
  <2>1. /\ worker = "handling" /\ worker' = "reporting"
        /\ UNCHANGED <<authorization_generation, released, released_at, stdin, stdout, reader,
                       heard, jobs, job, badge>>
    BY <1>12, RequestsRevokeNothing DEF FinishJob, WorkerMoves, reader_vars
  <2>2. \/ seat' = seat
        \/ job.action \notin UngatedActions /\ seat' = seat \cup {Holding(job)}
    BY <1>12 DEF FinishJob
  <2>3. Holding(job).minted = job.authorization_generation
    BY DEF Holding
  <2>4. HeldIsOfNow'
    BY <2>1, <2>2, <2>3 DEF HeldIsOfNow, JobMeetsRelease, LinesQuote, Authority, Had
  <2> QED
    BY <2>1, <2>4 DEF Authority, FramesTell, LinesQuote, JobMeetsRelease, Tells, Had
<1>13. CASE ReplyJob
  <2>1. /\ worker' = "receiving" /\ stdout' = Append(stdout, Response(job, answer))
        /\ UNCHANGED <<authorization_generation, released, released_at, stdin, reader,
                       heard, jobs, seat, badge>>
    BY <1>13 DEF ReplyJob, WorkerMoves, Emit, reader_vars, gate_vars, state_vars, atomics
  <2>2. Tells(Response(job, answer))
    BY DEF Tells, Response
  <2>3. FramesTell'
    BY <2>1, <2>2, AppendIsSequential DEF FramesTell, Tells, Had
  <2> QED
    BY <2>1, <2>3 DEF Authority, LinesQuote, HeldIsOfNow, JobMeetsRelease, Had
<1>14. CASE WorkerEnds
  <2>1. /\ worker' = "ended"
        /\ UNCHANGED <<authorization_generation, released, released_at, stdin, stdout, reader,
                       heard, jobs, job, badge, seat>>
    BY <1>14 DEF WorkerEnds, WorkerMoves, reader_vars, gate_vars, state_vars, atomics
  <2> QED
    BY <2>1 DEF Authority, FramesTell, LinesQuote, HeldIsOfNow, JobMeetsRelease, Tells, Had
<1>15. CASE BadgeEmits
  <2>1. /\ badge # <<>> /\ badge' = <<>> /\ stdout' = Append(stdout, Head(badge))
        /\ UNCHANGED <<authorization_generation, released, released_at, stdin, reader,
                       heard, jobs, worker, job, seat>>
    BY <1>15 DEF BadgeEmits, Emit, reader_vars, worker_vars, gate_vars, state_vars, atomics
  <2>2. FramesTell'
    BY <2>1, AppendIsSequential DEF FramesTell, Tells, Had
  <2> QED
    BY <2>1, <2>2 DEF Authority, LinesQuote, HeldIsOfNow, JobMeetsRelease, Had
<1>16. ASSUME NEW event \in Buttons, PressButton(event) PROVE ReleaseInv'
  <2>1. badge' = <<Event(event)>>
        /\ UNCHANGED <<released_at, stdin, stdout, reader, heard, jobs, worker, job, seat>>
    BY <1>16 DEF PressButton, pipes, reader_vars, worker_vars
  <2>2. authorization_generation' = authorization_generation + 1 /\ Rises
        /\ released' = released
    <3>1. \E a \in {"resume", "pause"} : Control(a, Absent)
      BY <1>16 DEF PressButton
    <3> QED
      BY <3>1, ControlRises
  <2>3. Authority' /\ Had \subseteq Had'
    BY <2>1, <2>2, HadIsKept DEF Authority, Had, Rises
  <2>4. Tells(Head(badge))'
    BY <2>1, <2>3 DEF Event, Tells, Authority, Had
  <2>5. FramesTell'
    BY <2>1, <2>3, <2>4 DEF FramesTell, Tells
  <2>6. LinesQuote'
    BY <2>1, <2>3 DEF LinesQuote
  <2>7. HeldIsOfNow' /\ JobMeetsRelease'
    BY <2>1, <2>2 DEF HeldIsOfNow, JobMeetsRelease
  <2> QED
    BY <2>3, <2>5, <2>6, <2>7
<1>17. CASE WriteRequest \/ WriteControl
  BY <1>2, <1>17 DEF WriteRequest, WriteControl
<1> QED
  BY <1>0, <1>1, <1>3, <1>4, <1>5, <1>6, <1>7, <1>8, <1>9, <1>10, <1>11, <1>12, <1>13, <1>14,
     <1>15, <1>16, <1>17
  DEF PipeNext, Parent, SidecarNext, ReaderThread, WorkerThread, WorkerProgress, BadgeThread

\* A release leaves nothing behind it: what a gated request finds held, if it was
\* written under the authority the last release installed, was minted under it too.
THEOREM NothingOutlivesARelease == PipeSpec => []NothingInheritedPastARelease
<1>1. ReleaseInv => NothingInheritedPastARelease
  BY DEF ReleaseInv, JobMeetsRelease, HeldIsOfNow, LinesQuote, Authority, Had,
         NothingInheritedPastARelease
<1> QED
  BY <1>1, ReleaseInit, ReleaseStep, PTL DEF PipeSpec
-----------------------------------------------------------------------------
(* The lines of the pipe: where each one is, and that it is answered once.   *)

Numbered(f) == f.type # "session_event"

AnswersTo(id) == {i \in DOMAIN stdout : Numbered(stdout[i]) /\ stdout[i].request_id = id}

\* How many lines were read, and how many the reader has let go of.
LinesRead == written - Len(stdin)
InHand    == reader \in {"offering", "sending", "emitting"}
Passed    == IF InHand THEN LinesRead - 1 ELSE LinesRead

InTheChannel(id) == jobs # <<>> /\ Head(jobs).request_id = id

AtWork == worker \in {"received", "admitting", "handling", "reporting"}

WithTheWorker(id) == AtWork /\ job.request_id = id

\* Lines are read in the order they were numbered, one at a time.
LinesInOrder ==
  /\ written \in Nat /\ Sequential(stdin) /\ Len(stdin) <= written
  /\ \A i \in DOMAIN stdin : stdin[i].body.request_id = LinesRead + i
  /\ InHand => LinesRead > 0 /\ heard.request_id = LinesRead
  /\ reader = "emitting" => Numbered(heard)
  /\ badge # <<>> => ~Numbered(Head(badge))

\* A line the reader let go of is in one place: the channel, the worker's hands
\* or stdout, and there once.  Nothing else is in any of them.
InOnePlace(id) ==
  /\ InTheChannel(id) \/ WithTheWorker(id) \/ AnswersTo(id) # {}
  /\ ~(InTheChannel(id) /\ WithTheWorker(id))
  /\ InTheChannel(id) \/ WithTheWorker(id) => AnswersTo(id) = {}
  /\ \A i, j \in AnswersTo(id) : i = j

PlacesAreOne ==
  /\ Sequential(stdout)
  /\ \A i \in DOMAIN stdout : Numbered(stdout[i]) => stdout[i].request_id \in 1 .. Passed
  /\ jobs # <<>> => Head(jobs).request_id \in 1 .. Passed
  /\ AtWork => job.request_id \in 1 .. Passed
  /\ \A id \in 1 .. Passed : InOnePlace(id)

\* A process that returned had nothing left to read, and nothing in hand.
TheEndIsOfAll ==
  /\ reader = "done" => stdin = <<>> /\ ~stdin_open
  /\ worker = "ended" => reader = "done" /\ jobs = <<>>
  /\ process = "exited" => worker = "ended"

AnswersInv == LinesInOrder /\ PlacesAreOne /\ TheEndIsOfAll

\* No line is answered twice and none is answered that was not written; and when
\* the process returns, every line it was given has its answer.
EveryLineHasOneAnswer ==
  /\ \A i, j \in DOMAIN stdout :
       /\ Numbered(stdout[i]) => stdout[i].request_id \in 1 .. written
       /\ /\ Numbered(stdout[i]) /\ Numbered(stdout[j])
          /\ stdout[i].request_id = stdout[j].request_id
          => i = j
  /\ process = "exited" => \A id \in 1 .. written : AnswersTo(id) # {}

LEMMA AppendExactly ==
  ASSUME NEW s, Sequential(s), NEW e
  PROVE  /\ Len(s) \in Nat /\ DOMAIN s = 1 .. Len(s)
         /\ Sequential(Append(s, e)) /\ Len(Append(s, e)) = Len(s) + 1
         /\ DOMAIN Append(s, e) = 1 .. Len(s) + 1
         /\ \A i \in 1 .. Len(s) : Append(s, e)[i] = s[i]
         /\ Append(s, e)[Len(s) + 1] = e
<1> DEFINE S == Range(s) \cup {e}
<1>1. s \in Seq(S) /\ e \in S
  BY SeqMonotonic DEF Sequential
<1>2. /\ Append(s, e) \in Seq(S)
      /\ Len(Append(s, e)) = Len(s) + 1
      /\ \A i \in 1 .. Len(s) : Append(s, e)[i] = s[i]
      /\ Append(s, e)[Len(s) + 1] = e
  BY <1>1, AppendProperties
<1>3. DOMAIN s = 1 .. Len(s) /\ Len(s) \in Nat
  BY <1>1, LenProperties
<1>4. DOMAIN Append(s, e) = 1 .. Len(s) + 1
  BY <1>2, LenProperties
<1> QED
  BY <1>2, <1>3, <1>4, AppendIsSequential

LEMMA TailExactly ==
  ASSUME NEW s, Sequential(s), s # <<>>
  PROVE  /\ Len(s) \in Nat \ {0} /\ DOMAIN s = 1 .. Len(s)
         /\ Sequential(Tail(s)) /\ Len(Tail(s)) = Len(s) - 1
         /\ DOMAIN Tail(s) = 1 .. Len(s) - 1
         /\ \A i \in DOMAIN Tail(s) : Tail(s)[i] = s[i + 1]
         /\ Head(s) = s[1]
<1> DEFINE S == Range(s)
<1>1. s \in Seq(S)
  BY DEF Sequential
<1>2. Tail(s) \in Seq(S) /\ Len(Tail(s)) = Len(s) - 1
  BY <1>1, HeadTailProperties
<1>3. DOMAIN s = 1 .. Len(s) /\ Len(s) \in Nat \ {0}
  BY <1>1, LenProperties, EmptySeq
<1>4. DOMAIN Tail(s) = 1 .. Len(Tail(s))
  BY <1>2, LenProperties
<1> QED
  BY <1>2, <1>3, <1>4, TailIsSequential

\* A frame written is an answer to the line it names, if it names one, and to no other.
LEMMA WritingAnswersOne ==
  ASSUME Sequential(stdout), NEW f, stdout' = Append(stdout, f)
  PROVE  /\ Sequential(stdout)'
         /\ \A i \in DOMAIN stdout' :
              stdout'[i] = f \/ (i \in DOMAIN stdout /\ stdout'[i] = stdout[i])
         /\ \A id : AnswersTo(id)' =
              IF Numbered(f) /\ f.request_id = id
              THEN AnswersTo(id) \cup {Len(stdout) + 1} ELSE AnswersTo(id)
<1>1. /\ Len(stdout) \in Nat /\ DOMAIN stdout = 1 .. Len(stdout)
      /\ Sequential(stdout') /\ DOMAIN stdout' = 1 .. Len(stdout) + 1
      /\ \A i \in 1 .. Len(stdout) : stdout'[i] = stdout[i]
      /\ stdout'[Len(stdout) + 1] = f
  BY AppendExactly
<1>2. PICK n \in Nat : n = Len(stdout)
  BY <1>1
<1>3. \A id : AnswersTo(id)' =
        IF Numbered(f) /\ f.request_id = id
        THEN AnswersTo(id) \cup {Len(stdout) + 1} ELSE AnswersTo(id)
  <2> SUFFICES ASSUME NEW id
               PROVE  AnswersTo(id)' =
                        IF Numbered(f) /\ f.request_id = id
                        THEN AnswersTo(id) \cup {n + 1} ELSE AnswersTo(id)
    BY <1>2
  <2>1. AnswersTo(id) = {i \in 1 .. n : Numbered(stdout[i]) /\ stdout[i].request_id = id}
    BY <1>1, <1>2 DEF AnswersTo
  <2>2. AnswersTo(id)' =
          {i \in 1 .. n + 1 : Numbered(stdout'[i]) /\ stdout'[i].request_id = id}
    BY <1>1, <1>2 DEF AnswersTo, Numbered
  <2> QED
    BY <1>1, <1>2, <2>1, <2>2
<1> QED
  BY <1>1, <1>3 DEF Sequential

LEMMA AnswersInit == PipeInit => AnswersInv
<1> SUFFICES ASSUME PipeInit PROVE AnswersInv
  OBVIOUS
<1> USE DEF PipeInit, SidecarInit
<1>1. Sequential(<<>>) /\ Len(<<>>) = 0 /\ DOMAIN <<>> = {}
  BY EmptySeq DEF Sequential
<1>2. LinesRead = 0 /\ ~InHand /\ Passed = 0
  <2>1. written = 0 /\ Len(stdin) = 0 /\ reader = "reading"
    BY <1>1
  <2>2. LinesRead = 0
    <3>1. PICK n : n = Len(stdin)
      OBVIOUS
    <3>2. n = 0 /\ LinesRead = 0 - n
      BY <2>1, <3>1 DEF LinesRead
    <3> QED
      BY <3>2
  <2>3. ~InHand
    BY <2>1 DEF InHand
  <2> QED
    BY <2>2, <2>3 DEF Passed
<1>3. LinesInOrder
  BY <1>1, <1>2 DEF LinesInOrder
<1>4. PlacesAreOne
  BY <1>1, <1>2 DEF PlacesAreOne, AtWork
<1> QED
  BY <1>3, <1>4 DEF AnswersInv, TheEndIsOfAll

LEMMA CountsAreCounts ==
  ASSUME LinesInOrder
  PROVE  /\ Len(stdin) \in Nat /\ LinesRead \in Nat /\ Passed \in Nat
         /\ LinesRead <= written /\ Passed <= LinesRead
         /\ InHand => LinesRead = Passed + 1
<1>1. Len(stdin) \in Nat
  BY LenProperties DEF LinesInOrder, Sequential
<1> QED
  BY <1>1 DEF LinesInOrder, LinesRead, Passed

LEMMA PlacesStay ==
  ASSUME PlacesAreOne, UNCHANGED <<stdout, jobs, job>>, AtWork' = AtWork, Passed' = Passed
  PROVE  PlacesAreOne'
BY DEF PlacesAreOne, InOnePlace, InTheChannel, WithTheWorker, AnswersTo, Sequential, Numbered

LEMMA LinesStay ==
  ASSUME LinesInOrder, UNCHANGED <<written, stdin>>,
         InHand' => InHand /\ heard'.request_id = heard.request_id,
         reader' = "emitting" => Numbered(heard)',
         badge' # <<>> => ~Numbered(Head(badge))'
  PROVE  LinesInOrder' /\ LinesRead' = LinesRead
BY DEF LinesInOrder, LinesRead, Sequential

\* A step that touches none of it.
LEMMA NothingOfThePlacesMoves ==
  ASSUME AnswersInv,
         UNCHANGED <<written, stdin, stdin_open, stdout, reader, heard, jobs, worker, job, badge,
                     process>>
  PROVE  AnswersInv'
<1> USE DEF AnswersInv
<1>1. LinesInOrder' /\ LinesRead' = LinesRead
  BY LinesStay DEF InHand, LinesInOrder, Numbered
<1>2. AtWork' = AtWork /\ Passed' = Passed
  BY <1>1 DEF AtWork, Passed, InHand
<1>3. PlacesAreOne'
  BY <1>2, PlacesStay
<1> QED
  BY <1>1, <1>3 DEF TheEndIsOfAll

\* The reader takes the line at the head; it is in its hand until it is sent or answered.
LEMMA ReadingALine ==
  ASSUME AnswersInv, Running, reader = "reading", stdin # <<>>, stdin' = Tail(stdin),
         reader' \in {"offering", "emitting"},
         heard'.request_id = Head(stdin).body.request_id,
         reader' = "emitting" => Numbered(heard)',
         UNCHANGED <<written, stdin_open, stdout, jobs, worker, job, badge, process>>
  PROVE  AnswersInv'
<1> USE DEF AnswersInv
<1>1. /\ Len(stdin) \in Nat \ {0} /\ DOMAIN stdin = 1 .. Len(stdin)
      /\ Sequential(stdin') /\ Len(stdin') = Len(stdin) - 1
      /\ DOMAIN stdin' = 1 .. Len(stdin) - 1
      /\ \A i \in DOMAIN stdin' : stdin'[i] = stdin[i + 1]
      /\ Head(stdin) = stdin[1]
  BY TailExactly DEF LinesInOrder
<1>2. PICK n \in Nat \ {0} : n = Len(stdin)
  BY <1>1
<1>3. /\ written \in Nat /\ n <= written /\ LinesRead = written - n
      /\ Len(stdin') = n - 1 /\ LinesRead' = written - (n - 1)
  <2>1. written \in Nat /\ n <= written
    BY <1>2 DEF LinesInOrder
  <2>2. LinesRead = written - n
    BY <1>2 DEF LinesRead
  <2>3. Len(stdin') = n - 1
    BY <1>1, <1>2
  <2>4. LinesRead' = written - (n - 1)
    BY <2>3 DEF LinesRead
  <2> QED
    BY <2>1, <2>2, <2>3, <2>4
<1>4. LinesRead' = LinesRead + 1 /\ LinesRead' > 0
  BY <1>3
<1>5. heard'.request_id = LinesRead'
  BY <1>1, <1>2, <1>4 DEF LinesInOrder
<1>6. \A i \in DOMAIN stdin' : stdin'[i].body.request_id = LinesRead' + i
  <2> SUFFICES ASSUME NEW i \in 1 .. n - 1 PROVE stdin'[i].body.request_id = LinesRead' + i
    BY <1>1, <1>2
  <2>1. i + 1 \in DOMAIN stdin /\ stdin'[i] = stdin[i + 1]
    BY <1>1, <1>2
  <2>2. stdin[i + 1].body.request_id = LinesRead + (i + 1)
    BY <2>1 DEF LinesInOrder
  <2> QED
    BY <1>3, <2>1, <2>2
<1>7. LinesInOrder'
  <2>1. written' \in Nat /\ Len(stdin') <= written'
    BY <1>3
  <2>2. Sequential(stdin)'
    BY <1>1 DEF Sequential
  <2>3. (reader = "emitting" => Numbered(heard))'
    OBVIOUS
  <2>4. (badge # <<>> => ~Numbered(Head(badge)))'
    BY DEF LinesInOrder, Numbered
  <2> QED
    BY <1>4, <1>5, <1>6, <2>1, <2>2, <2>3, <2>4 DEF LinesInOrder
<1>8. AtWork' = AtWork /\ Passed' = Passed
  <2>1. Passed = LinesRead
    BY DEF Passed, InHand
  <2>2. Passed' = LinesRead' - 1
    BY DEF Passed, InHand
  <2> QED
    BY <1>3, <1>4, <2>1, <2>2 DEF AtWork
<1>9. PlacesAreOne'
  BY <1>8, PlacesStay
<1>10. TheEndIsOfAll'
  BY DEF TheEndIsOfAll, Running
<1> QED
  BY <1>7, <1>9, <1>10

\* The reader lets go of the line in its hand: to stdout, with its answer, or to the channel.
LEMMA LettingGoOfALine ==
  ASSUME AnswersInv, Running, reader \in {"sending", "emitting"}, reader' = "reading",
         \/ /\ reader = "emitting" /\ stdout' = Append(stdout, heard) /\ UNCHANGED jobs
         \/ /\ jobs = <<>> /\ jobs' = <<heard>> /\ UNCHANGED stdout,
         UNCHANGED <<written, stdin, stdin_open, worker, job, badge, process>>
  PROVE  AnswersInv'
<1> USE DEF AnswersInv
<1>1. LinesInOrder' /\ LinesRead' = LinesRead
  BY LinesStay DEF InHand, LinesInOrder, Numbered
<1>2. TheEndIsOfAll'
  BY DEF TheEndIsOfAll, Running
<1>3. PICK p \in Nat : p = Passed
  BY CountsAreCounts
<1>4. heard.request_id = p + 1 /\ Passed' = p + 1 /\ AtWork' = AtWork
  <2>1. InHand /\ ~InHand'
    BY DEF InHand
  <2>2. LinesRead = p + 1
    BY <1>3, <2>1, CountsAreCounts
  <2> QED
    BY <1>1, <2>1, <2>2 DEF LinesInOrder, Passed, AtWork
<1>5. /\ \A i \in DOMAIN stdout : Numbered(stdout[i]) => stdout[i].request_id \in 1 .. p
      /\ jobs # <<>> => Head(jobs).request_id \in 1 .. p
      /\ AtWork => job.request_id \in 1 .. p
      /\ \A id \in 1 .. p : InOnePlace(id)
      /\ Sequential(stdout)
  BY <1>3 DEF PlacesAreOne
<1>6. /\ ~InTheChannel(p + 1) /\ ~WithTheWorker(p + 1) /\ AnswersTo(p + 1) = {}
  BY <1>5 DEF InTheChannel, WithTheWorker, AnswersTo
<1>7. \A id : id # p + 1 => WithTheWorker(id)' = WithTheWorker(id)
  BY <1>4 DEF WithTheWorker
<1>8. ~WithTheWorker(p + 1)'
  BY <1>4, <1>6 DEF WithTheWorker
<1>9. \A id \in 1 .. p + 1 : id \in 1 .. p \/ id = p + 1
  OBVIOUS
<1>10. CASE reader = "emitting" /\ stdout' = Append(stdout, heard) /\ UNCHANGED jobs
  <2>1. Numbered(heard)
    BY <1>10 DEF LinesInOrder
  <2>2. /\ Sequential(stdout)'
        /\ \A i \in DOMAIN stdout' :
             stdout'[i] = heard \/ (i \in DOMAIN stdout /\ stdout'[i] = stdout[i])
        /\ \A id : AnswersTo(id)' =
             IF Numbered(heard) /\ heard.request_id = id
             THEN AnswersTo(id) \cup {Len(stdout) + 1} ELSE AnswersTo(id)
    BY <1>5, <1>10, WritingAnswersOne
  <2>3. AnswersTo(p + 1)' = {Len(stdout) + 1}
    BY <1>4, <1>6, <2>1, <2>2
  <2>4. \A id : id # p + 1 => AnswersTo(id)' = AnswersTo(id)
    BY <1>4, <2>2
  <2>5. \A id : InTheChannel(id)' = InTheChannel(id)
    BY <1>10 DEF InTheChannel
  <2>6. InOnePlace(p + 1)'
    BY <1>6, <1>8, <2>3, <2>5 DEF InOnePlace
  <2>7. ASSUME NEW id \in 1 .. p PROVE InOnePlace(id)'
    <3>1. id # p + 1
      BY <2>7
    <3>2. InOnePlace(id)
      BY <1>5
    <3> QED
      BY <1>7, <2>4, <2>5, <3>1, <3>2 DEF InOnePlace
  <2>8. \A i \in DOMAIN stdout' : Numbered(stdout'[i]) => stdout'[i].request_id \in 1 .. p + 1
    BY <1>4, <1>5, <2>2
  <2>9. PlacesAreOne'
    <3>1. (\A i \in DOMAIN stdout : Numbered(stdout[i]) => stdout[i].request_id \in 1 .. Passed)'
      BY <1>4, <2>8 DEF Numbered
    <3>2. (jobs # <<>> => Head(jobs).request_id \in 1 .. Passed)'
      BY <1>4, <1>5, <1>10
    <3>3. (AtWork => job.request_id \in 1 .. Passed)'
      BY <1>4, <1>5
    <3>4. (\A id \in 1 .. Passed : InOnePlace(id))'
      BY <1>4, <1>9, <2>6, <2>7
    <3> QED
      BY <2>2, <3>1, <3>2, <3>3, <3>4 DEF PlacesAreOne
  <2> QED
    BY <1>1, <1>2, <2>9
<1>11. CASE jobs = <<>> /\ jobs' = <<heard>> /\ UNCHANGED stdout
  <2>1. Head(jobs') = heard /\ jobs' # <<>>
    BY <1>11
  <2>2. \A id : AnswersTo(id)' = AnswersTo(id)
    BY <1>11 DEF AnswersTo, Numbered
  <2>3. \A id : ~InTheChannel(id) /\ (InTheChannel(id)' <=> id = p + 1)
    BY <1>4, <1>11, <2>1 DEF InTheChannel
  <2>4. InOnePlace(p + 1)'
    BY <1>6, <1>8, <2>2, <2>3 DEF InOnePlace
  <2>5. ASSUME NEW id \in 1 .. p PROVE InOnePlace(id)'
    <3>1. id # p + 1
      BY <2>5
    <3>2. InOnePlace(id)
      BY <1>5
    <3> QED
      BY <1>7, <2>2, <2>3, <3>1, <3>2 DEF InOnePlace
  <2>6. PlacesAreOne'
    <3>1. (\A i \in DOMAIN stdout : Numbered(stdout[i]) => stdout[i].request_id \in 1 .. Passed)'
      BY <1>4, <1>5, <1>11 DEF Numbered
    <3>2. (jobs # <<>> => Head(jobs).request_id \in 1 .. Passed)'
      BY <1>4, <2>1
    <3>3. (AtWork => job.request_id \in 1 .. Passed)'
      BY <1>4, <1>5
    <3>4. (\A id \in 1 .. Passed : InOnePlace(id))'
      BY <1>4, <1>9, <2>4, <2>5
    <3>5. Sequential(stdout)'
      BY <1>5, <1>11 DEF Sequential
    <3> QED
      BY <3>1, <3>2, <3>3, <3>4, <3>5 DEF PlacesAreOne
  <2> QED
    BY <1>1, <1>2, <2>6
<1> QED
  BY <1>10, <1>11

\* The worker takes the line in the channel.
LEMMA ReceivingALine ==
  ASSUME AnswersInv, Running, worker = "receiving", worker' = "received",
         jobs # <<>>, job' = Head(jobs), jobs' = <<>>,
         UNCHANGED <<written, stdin, stdin_open, stdout, reader, heard, badge, process>>
  PROVE  AnswersInv'
<1> USE DEF AnswersInv
<1>1. LinesInOrder' /\ LinesRead' = LinesRead
  BY LinesStay DEF InHand, LinesInOrder, Numbered
<1>2. Passed' = Passed /\ ~AtWork /\ AtWork'
  BY <1>1 DEF Passed, InHand, AtWork
<1>3. /\ \A id : AnswersTo(id)' = AnswersTo(id)
      /\ \A id : ~WithTheWorker(id) /\ ~InTheChannel(id)'
      /\ \A id : WithTheWorker(id)' = InTheChannel(id)
  BY <1>2 DEF AnswersTo, Numbered, WithTheWorker, InTheChannel
<1>4. \A id \in 1 .. Passed : InOnePlace(id)'
  BY <1>3 DEF PlacesAreOne, InOnePlace
<1>5. PlacesAreOne'
  BY <1>2, <1>4 DEF PlacesAreOne, Sequential, Numbered
<1>6. TheEndIsOfAll'
  BY DEF TheEndIsOfAll, Running
<1> QED
  BY <1>1, <1>5, <1>6

\* The worker answers the line in its hands.
LEMMA AnsweringALine ==
  ASSUME AnswersInv, worker = "reporting", worker' = "receiving",
         NEW f, Numbered(f), f.request_id = job.request_id, stdout' = Append(stdout, f),
         process' # "exited",
         UNCHANGED <<written, stdin, stdin_open, jobs, reader, heard, badge>>
  PROVE  AnswersInv'
<1> USE DEF AnswersInv
<1>1. LinesInOrder' /\ LinesRead' = LinesRead
  BY LinesStay DEF InHand, LinesInOrder, Numbered
<1>2. Passed' = Passed /\ AtWork /\ ~AtWork'
  BY <1>1 DEF Passed, InHand, AtWork
<1>3. PICK k : k = job.request_id
  OBVIOUS
<1>4. /\ Sequential(stdout)'
      /\ \A i \in DOMAIN stdout' :
           stdout'[i] = f \/ (i \in DOMAIN stdout /\ stdout'[i] = stdout[i])
      /\ \A id : AnswersTo(id)' =
           IF Numbered(f) /\ f.request_id = id
           THEN AnswersTo(id) \cup {Len(stdout) + 1} ELSE AnswersTo(id)
  <2>1. Sequential(stdout)
    BY DEF PlacesAreOne
  <2> QED
    BY <2>1, WritingAnswersOne
<1>5. /\ \A id : InTheChannel(id)' = InTheChannel(id)
      /\ \A id : ~WithTheWorker(id)' /\ (WithTheWorker(id) <=> id = k)
  BY <1>2, <1>3 DEF InTheChannel, WithTheWorker
<1>6. k \in 1 .. Passed
  BY <1>2, <1>3 DEF PlacesAreOne
<1>7. InOnePlace(k)'
  <2>1. ~InTheChannel(k) /\ AnswersTo(k) = {}
    BY <1>5, <1>6 DEF PlacesAreOne, InOnePlace
  <2>2. AnswersTo(k)' = {Len(stdout) + 1}
    BY <1>3, <1>4, <2>1
  <2> QED
    BY <1>5, <2>1, <2>2 DEF InOnePlace
<1>8. ASSUME NEW id \in 1 .. Passed, id # k PROVE InOnePlace(id)'
  <2>1. AnswersTo(id)' = AnswersTo(id)
    BY <1>3, <1>4, <1>8
  <2>2. InOnePlace(id)
    BY <1>8 DEF PlacesAreOne
  <2> QED
    BY <1>5, <1>8, <2>1, <2>2 DEF InOnePlace
<1>9. \A i \in DOMAIN stdout' : Numbered(stdout'[i]) => stdout'[i].request_id \in 1 .. Passed
  BY <1>3, <1>4, <1>6 DEF PlacesAreOne
<1>10. PlacesAreOne'
  <2>1. (\A i \in DOMAIN stdout : Numbered(stdout[i]) => stdout[i].request_id \in 1 .. Passed)'
    BY <1>2, <1>9 DEF Numbered
  <2>2. (jobs # <<>> => Head(jobs).request_id \in 1 .. Passed)'
    BY <1>2 DEF PlacesAreOne
  <2>3. (\A id \in 1 .. Passed : InOnePlace(id))'
    BY <1>2, <1>7, <1>8
  <2> QED
    BY <1>2, <1>4, <2>1, <2>2, <2>3 DEF PlacesAreOne
<1>11. TheEndIsOfAll'
  BY DEF TheEndIsOfAll
<1> QED
  BY <1>1, <1>10, <1>11

\* A badge's event is nobody's answer.
LEMMA TellingAnEvent ==
  ASSUME AnswersInv, badge # <<>>, badge' = <<>>, stdout' = Append(stdout, Head(badge)),
         UNCHANGED <<written, stdin, stdin_open, jobs, reader, heard, worker, job, process>>
  PROVE  AnswersInv'
<1> USE DEF AnswersInv
<1>1. LinesInOrder' /\ LinesRead' = LinesRead
  BY LinesStay DEF InHand, LinesInOrder, Numbered
<1>2. Passed' = Passed /\ AtWork' = AtWork
  BY <1>1 DEF Passed, InHand, AtWork
<1>3. PICK f : f = Head(badge)
  OBVIOUS
<1>4. /\ Sequential(stdout)'
      /\ \A i \in DOMAIN stdout' :
           stdout'[i] = f \/ (i \in DOMAIN stdout /\ stdout'[i] = stdout[i])
      /\ \A id : AnswersTo(id)' =
           IF Numbered(f) /\ f.request_id = id
           THEN AnswersTo(id) \cup {Len(stdout) + 1} ELSE AnswersTo(id)
  <2>1. Sequential(stdout) /\ stdout' = Append(stdout, f)
    BY <1>3 DEF PlacesAreOne
  <2> QED
    BY <2>1, WritingAnswersOne
<1>5. ~Numbered(f)
  BY <1>3 DEF LinesInOrder
<1>6. /\ \A id : AnswersTo(id)' = AnswersTo(id)
      /\ \A id : InTheChannel(id)' = InTheChannel(id)
      /\ \A id : WithTheWorker(id)' = WithTheWorker(id)
  BY <1>2, <1>4, <1>5 DEF InTheChannel, WithTheWorker
<1>7. \A id \in 1 .. Passed : InOnePlace(id)'
  BY <1>6 DEF PlacesAreOne, InOnePlace
<1>8. \A i \in DOMAIN stdout' : Numbered(stdout'[i]) => stdout'[i].request_id \in 1 .. Passed
  BY <1>4, <1>5 DEF PlacesAreOne
<1>9. PlacesAreOne'
  BY <1>2, <1>4, <1>7, <1>8 DEF PlacesAreOne, Numbered
<1>10. TheEndIsOfAll'
  BY DEF TheEndIsOfAll
<1> QED
  BY <1>1, <1>9, <1>10

\* The parent writes a line under the next number.
LEMMA WritingALine ==
  ASSUME AnswersInv, Running, stdin_open, NEW line, line.body.request_id = written + 1,
         written' = written + 1, stdin' = Append(stdin, line),
         UNCHANGED <<stdin_open, stdout, reader, heard, jobs, worker, job, badge, process>>
  PROVE  AnswersInv'
<1> USE DEF AnswersInv
<1>1. /\ Len(stdin) \in Nat /\ DOMAIN stdin = 1 .. Len(stdin)
      /\ Sequential(stdin') /\ Len(stdin') = Len(stdin) + 1
      /\ DOMAIN stdin' = 1 .. Len(stdin) + 1
      /\ \A i \in 1 .. Len(stdin) : stdin'[i] = stdin[i]
      /\ stdin'[Len(stdin) + 1] = line
  BY AppendExactly DEF LinesInOrder
<1>2. PICK n \in Nat : n = Len(stdin)
  BY <1>1
<1>3. /\ written \in Nat /\ n <= written
      /\ LinesRead = written - n /\ LinesRead' = (written + 1) - (n + 1)
  <2>1. written \in Nat /\ n <= written
    BY <1>2 DEF LinesInOrder
  <2>2. LinesRead = written - n
    BY <1>2 DEF LinesRead
  <2>3. Len(stdin') = n + 1
    BY <1>1, <1>2
  <2>4. LinesRead' = (written + 1) - (n + 1)
    BY <2>3 DEF LinesRead
  <2> QED
    BY <2>1, <2>2, <2>4
<1>4. LinesRead' = LinesRead
  BY <1>3
<1>5. \A i \in DOMAIN stdin' : stdin'[i].body.request_id = LinesRead' + i
  <2>1. ASSUME NEW i \in 1 .. n PROVE stdin'[i].body.request_id = LinesRead' + i
    BY <1>1, <1>2, <1>4 DEF LinesInOrder
  <2>2. stdin'[n + 1].body.request_id = LinesRead' + (n + 1)
    BY <1>1, <1>2, <1>3
  <2>3. \A i \in 1 .. n + 1 : i \in 1 .. n \/ i = n + 1
    OBVIOUS
  <2> QED
    BY <1>1, <1>2, <2>1, <2>2, <2>3
<1>6. LinesInOrder'
  <2>1. written' \in Nat /\ Len(stdin') <= written'
    BY <1>1, <1>2, <1>3
  <2>2. Sequential(stdin)'
    BY <1>1 DEF Sequential
  <2>3. (InHand => LinesRead > 0 /\ heard.request_id = LinesRead)'
    BY <1>4 DEF LinesInOrder, InHand
  <2>4. (reader = "emitting" => Numbered(heard))'
    BY DEF LinesInOrder, Numbered
  <2>5. (badge # <<>> => ~Numbered(Head(badge)))'
    BY DEF LinesInOrder, Numbered
  <2> QED
    BY <1>5, <2>1, <2>2, <2>3, <2>4, <2>5 DEF LinesInOrder
<1>7. AtWork' = AtWork /\ Passed' = Passed
  BY <1>4 DEF AtWork, Passed, InHand
<1>8. PlacesAreOne'
  BY <1>7, PlacesStay
<1>9. TheEndIsOfAll'
  BY DEF TheEndIsOfAll, Running
<1> QED
  BY <1>6, <1>8, <1>9

\* What the worker does with the line in its hands, before it answers.
LEMMA WorkingOnALine ==
  ASSUME AnswersInv, AtWork, AtWork',
         UNCHANGED <<written, stdin, stdin_open, stdout, reader, heard, jobs, job, badge, process>>
  PROVE  AnswersInv'
<1> USE DEF AnswersInv
<1>1. LinesInOrder' /\ LinesRead' = LinesRead
  BY LinesStay DEF InHand, LinesInOrder, Numbered
<1>2. AtWork' = AtWork /\ Passed' = Passed
  BY <1>1 DEF AtWork, Passed, InHand
<1>3. PlacesAreOne'
  BY <1>2, PlacesStay
<1>4. TheEndIsOfAll'
  BY DEF TheEndIsOfAll, AtWork
<1> QED
  BY <1>1, <1>3, <1>4

LEMMA AnswersStep == AnswersInv /\ [PipeNext]_pipe_vars => AnswersInv'
<1> SUFFICES ASSUME AnswersInv, [PipeNext]_pipe_vars PROVE AnswersInv'
  OBVIOUS
<1>0. CASE UNCHANGED pipe_vars
  BY <1>0, NothingOfThePlacesMoves DEF pipe_vars, sidecar_vars, pipes, reader_vars, worker_vars
<1>1. CASE CloseStdin
  <2>1. stdin_open /\ ~stdin_open' /\ Running
        /\ UNCHANGED <<written, stdin, stdout, reader, heard, jobs, worker, job, badge, process>>
    BY <1>1 DEF CloseStdin, reader_vars, worker_vars
  <2>2. LinesInOrder' /\ LinesRead' = LinesRead
    BY <2>1, LinesStay DEF AnswersInv, InHand, LinesInOrder, Numbered
  <2>3. AtWork' = AtWork /\ Passed' = Passed
    BY <2>1, <2>2 DEF AtWork, Passed, InHand
  <2>4. PlacesAreOne'
    BY <2>1, <2>3, PlacesStay DEF AnswersInv
  <2>5. TheEndIsOfAll'
    BY <2>1 DEF AnswersInv, TheEndIsOfAll
  <2> QED
    BY <2>2, <2>4, <2>5 DEF AnswersInv
<1>2. ASSUME NEW line, Write(line), line.body.request_id = written + 1 PROVE AnswersInv'
  <2>1. /\ Running /\ stdin_open /\ written' = written + 1 /\ stdin' = Append(stdin, line)
        /\ UNCHANGED <<stdin_open, stdout, reader, heard, jobs, worker, job, badge, process>>
    BY <1>2 DEF Write, reader_vars, worker_vars
  <2> QED
    BY <1>2, <2>1, WritingALine
<1>3. CASE WriteRequest \/ WriteControl
  BY <1>2, <1>3 DEF WriteRequest, WriteControl
<1>4. CASE ReadControl /\ UNCHANGED written
  <2>1. /\ Running /\ reader = "reading" /\ stdin # <<>> /\ stdin' = Tail(stdin)
        /\ reader' = "emitting"
        /\ UNCHANGED <<written, stdin_open, stdout, jobs, worker, job, badge, process>>
    BY <1>4 DEF ReadControl, ReaderHandles, worker_vars
  <2>2. \E ok : heard' = Ack(Head(stdin).body, ok)
    BY <1>4 DEF ReadControl
  <2>3. heard'.request_id = Head(stdin).body.request_id /\ heard'.type = "control_ack"
    BY <2>2 DEF Ack
  <2>4. Numbered(heard)'
    BY <2>3 DEF Numbered
  <2> QED
    BY <2>1, <2>3, <2>4, ReadingALine
<1>5. CASE ReadRequest /\ UNCHANGED written
  <2>1. /\ Running /\ reader = "reading" /\ stdin # <<>> /\ stdin' = Tail(stdin)
        /\ reader' = "offering" /\ heard' = Head(stdin).body
        /\ UNCHANGED <<written, stdin_open, stdout, jobs, worker, job, badge, process>>
    BY <1>5 DEF ReadRequest, ReaderHandles, worker_vars
  <2> QED
    BY <2>1, ReadingALine
<1>6. ASSUME UNCHANGED written, Running, reader \in {"offering", "sending"},
             reader' \in {"sending", "emitting"},
             \/ heard' = heard /\ reader' = "sending"
             \/ heard' = Response(heard, "busy"),
             UNCHANGED <<stdin, stdin_open, stdout, jobs, worker, job, badge, process>>
      PROVE  AnswersInv'
  <2>1. heard'.request_id = heard.request_id /\ (reader' = "emitting" => Numbered(heard'))
    BY <1>6 DEF Response, Numbered
  <2>2. LinesInOrder' /\ LinesRead' = LinesRead
    BY <1>6, <2>1, LinesStay DEF AnswersInv, InHand, LinesInOrder, Numbered
  <2>3. AtWork' = AtWork /\ Passed' = Passed
    BY <1>6, <2>2 DEF AtWork, Passed, InHand
  <2>4. PlacesAreOne'
    BY <1>6, <2>3, PlacesStay DEF AnswersInv
  <2>5. TheEndIsOfAll'
    BY <1>6 DEF AnswersInv, TheEndIsOfAll
  <2> QED
    BY <2>2, <2>4, <2>5 DEF AnswersInv
<1>7. CASE OfferAsksTheGate /\ UNCHANGED written
  BY <1>6, <1>7 DEF OfferAsksTheGate, ReaderSteps, worker_vars
<1>8. CASE OfferSends /\ UNCHANGED written
  <2>1. Running /\ reader = "sending"
        /\ UNCHANGED <<written, stdin, stdin_open, stdout, worker, job, badge, process>>
    BY <1>8 DEF OfferSends, ReaderSteps, worker_vars
  <2>2. CASE jobs # <<>>
    BY <1>6, <1>8, <2>1, <2>2 DEF OfferSends
  <2>3. CASE jobs = <<>>
    <3>1. reader' = "reading" /\ jobs' = <<heard>>
      BY <1>8, <2>3 DEF OfferSends
    <3> QED
      BY <2>1, <2>3, <3>1, LettingGoOfALine
  <2> QED
    BY <2>2, <2>3
<1>9. CASE ReaderEmits /\ UNCHANGED written
  <2>1. /\ Running /\ reader = "emitting" /\ reader' = "reading"
        /\ stdout' = Append(stdout, heard)
        /\ UNCHANGED <<written, stdin, stdin_open, jobs, worker, job, badge, process>>
    BY <1>9 DEF ReaderEmits, ReaderSteps, Emit, worker_vars
  <2> QED
    BY <2>1, LettingGoOfALine
<1>10. CASE ReaderEnds /\ UNCHANGED written
  <2>1. /\ Running /\ reader = "reading" /\ reader' = "done" /\ stdin = <<>> /\ ~stdin_open
        /\ UNCHANGED <<written, stdin, stdin_open, stdout, heard, jobs, worker, job, badge,
                       process>>
    BY <1>10 DEF ReaderEnds, ReaderSteps, worker_vars
  <2>2. LinesInOrder' /\ LinesRead' = LinesRead
    BY <2>1, LinesStay DEF AnswersInv, InHand, LinesInOrder, Numbered
  <2>3. AtWork' = AtWork /\ Passed' = Passed
    BY <2>1, <2>2 DEF AtWork, Passed, InHand
  <2>4. PlacesAreOne'
    BY <2>1, <2>3, PlacesStay DEF AnswersInv
  <2>5. TheEndIsOfAll'
    BY <2>1 DEF AnswersInv, TheEndIsOfAll
  <2> QED
    BY <2>2, <2>4, <2>5 DEF AnswersInv
<1>11. CASE Receive /\ UNCHANGED written
  <2>1. /\ Running /\ worker = "receiving" /\ worker' = "received"
        /\ jobs # <<>> /\ job' = Head(jobs) /\ jobs' = <<>>
        /\ UNCHANGED <<written, stdin, stdin_open, stdout, reader, heard, badge, process>>
    BY <1>11 DEF Receive, WorkerMoves, reader_vars
  <2> QED
    BY <2>1, ReceivingALine
<1>12. CASE (LetGo \/ AdmitJob \/ RefuseJob \/ Act \/ CallEnds \/ FinishJob) /\ UNCHANGED written
  <2>1. /\ worker \in {"received", "admitting", "handling"}
        /\ worker' \in {"admitting", "handling", "reporting"}
    BY <1>12 DEF LetGo, AdmitJob, RefuseJob, Act, CallEnds, ActThrough, FinishJob, WorkerMoves
  <2>2. UNCHANGED <<written, stdin, stdin_open, reader, heard, badge>>
    BY <1>12 DEF LetGo, AdmitJob, RefuseJob, Act, CallEnds, ActThrough, FinishJob, WorkerMoves,
       reader_vars
  <2>3. UNCHANGED <<stdout, jobs, job, process>>
    BY <1>12 DEF LetGo, AdmitJob, RefuseJob, Act, CallEnds, ActThrough, FinishJob
  <2>4. AtWork /\ AtWork'
    BY <2>1 DEF AtWork
  <2> QED
    BY <2>2, <2>3, <2>4, WorkingOnALine
<1>13. CASE ReplyJob /\ UNCHANGED written
  <2>1. /\ worker = "reporting" /\ worker' = "receiving"
        /\ stdout' = Append(stdout, Response(job, answer))
        /\ process' \in {"running", "capture_stalled"}
        /\ UNCHANGED <<written, stdin, stdin_open, jobs, reader, heard, badge>>
    BY <1>13 DEF ReplyJob, WorkerMoves, Emit, reader_vars
  <2>2. PICK f : f = Response(job, answer)
    OBVIOUS
  <2>3. Numbered(f) /\ f.request_id = job.request_id
    BY <2>2 DEF Response, Numbered
  <2> QED
    BY <2>1, <2>2, <2>3, AnsweringALine
<1>14. CASE WorkerEnds /\ UNCHANGED written
  <2>1. /\ Running /\ worker = "receiving" /\ worker' = "ended" /\ reader = "done" /\ jobs = <<>>
        /\ UNCHANGED <<written, stdin, stdin_open, stdout, reader, heard, jobs, job, badge>>
    BY <1>14 DEF WorkerEnds, WorkerMoves, reader_vars
  <2>2. LinesInOrder' /\ LinesRead' = LinesRead
    BY <2>1, LinesStay DEF AnswersInv, InHand, LinesInOrder, Numbered
  <2>3. AtWork' = AtWork /\ Passed' = Passed
    BY <2>1, <2>2 DEF AtWork, Passed, InHand
  <2>4. PlacesAreOne'
    BY <2>1, <2>3, PlacesStay DEF AnswersInv
  <2>5. TheEndIsOfAll'
    BY <2>1 DEF AnswersInv, TheEndIsOfAll
  <2> QED
    BY <2>2, <2>4, <2>5 DEF AnswersInv
<1>15. CASE BadgeEmits /\ UNCHANGED written
  <2>1. /\ badge # <<>> /\ badge' = <<>> /\ stdout' = Append(stdout, Head(badge))
        /\ UNCHANGED <<written, stdin, stdin_open, jobs, reader, heard, worker, job, process>>
    BY <1>15 DEF BadgeEmits, Emit, reader_vars, worker_vars
  <2> QED
    BY <2>1, TellingAnEvent
<1>16. ASSUME NEW event \in Buttons, PressButton(event), UNCHANGED written PROVE AnswersInv'
  <2>1. badge' = <<Event(event)>>
        /\ UNCHANGED <<written, stdin, stdin_open, stdout, reader, heard, jobs, worker, job,
                       process>>
    BY <1>16 DEF PressButton, pipes, reader_vars, worker_vars
  <2>2. ~Numbered(Head(badge))'
    BY <2>1 DEF Event, Numbered
  <2>3. LinesInOrder' /\ LinesRead' = LinesRead
    BY <2>1, <2>2, LinesStay DEF AnswersInv, InHand, LinesInOrder, Numbered
  <2>4. AtWork' = AtWork /\ Passed' = Passed
    BY <2>1, <2>3 DEF AtWork, Passed, InHand
  <2>5. PlacesAreOne'
    BY <2>1, <2>4, PlacesStay DEF AnswersInv
  <2>6. TheEndIsOfAll'
    BY <2>1 DEF AnswersInv, TheEndIsOfAll
  <2> QED
    BY <2>3, <2>5, <2>6 DEF AnswersInv
<1> QED
  BY <1>0, <1>1, <1>3, <1>4, <1>5, <1>7, <1>8, <1>9, <1>10, <1>11, <1>12, <1>13, <1>14, <1>15,
     <1>16
  DEF PipeNext, Parent, SidecarNext, ReaderThread, WorkerThread, WorkerProgress, BadgeThread

\* No line is answered twice, none is answered that was not written, and closing
\* stdin loses none: when main returns, every line it was given has its answer.
THEOREM LinesAreAnsweredOnce == PipeSpec => []EveryLineHasOneAnswer
<1>1. ASSUME AnswersInv PROVE EveryLineHasOneAnswer
  <2>1. /\ written \in Nat /\ Passed \in Nat /\ LinesRead \in Nat
        /\ Passed <= LinesRead /\ LinesRead <= written
    BY <1>1, CountsAreCounts DEF AnswersInv, LinesInOrder
  <2>2. \A i \in DOMAIN stdout : Numbered(stdout[i]) => stdout[i].request_id \in 1 .. Passed
    BY <1>1 DEF AnswersInv, PlacesAreOne
  <2>3. ASSUME NEW i \in DOMAIN stdout, NEW j \in DOMAIN stdout,
               Numbered(stdout[i]), Numbered(stdout[j]),
               stdout[i].request_id = stdout[j].request_id
        PROVE  i = j
    <3>1. PICK id : id = stdout[i].request_id
      OBVIOUS
    <3>2. i \in AnswersTo(id) /\ j \in AnswersTo(id)
      BY <2>3, <3>1 DEF AnswersTo
    <3>3. InOnePlace(id)
      BY <1>1, <2>2, <2>3, <3>1 DEF AnswersInv, PlacesAreOne
    <3> QED
      BY <3>2, <3>3 DEF InOnePlace
  <2>4. ASSUME NEW i \in DOMAIN stdout, Numbered(stdout[i])
        PROVE  stdout[i].request_id \in 1 .. written
    BY <2>1, <2>2, <2>4
  <2>5. ASSUME process = "exited", NEW id \in 1 .. written PROVE AnswersTo(id) # {}
    <3>1. worker = "ended" /\ reader = "done" /\ jobs = <<>> /\ stdin = <<>>
      BY <1>1, <2>5 DEF AnswersInv, TheEndIsOfAll
    <3>2. ~AtWork /\ ~InHand
      BY <3>1 DEF AtWork, InHand
    <3>3. Len(stdin) = 0
      BY <3>1
    <3>4. PICK n : n = Len(stdin)
      OBVIOUS
    <3>5. LinesRead = written - n /\ n = 0
      BY <3>3, <3>4 DEF LinesRead
    <3>6. Passed = written
      BY <2>1, <3>2, <3>5 DEF Passed
    <3>7. InOnePlace(id)
      BY <1>1, <2>5, <3>6 DEF AnswersInv, PlacesAreOne
    <3> QED
      BY <3>1, <3>2, <3>7 DEF InOnePlace, InTheChannel, WithTheWorker
  <2> QED
    BY <2>3, <2>4, <2>5 DEF EveryLineHasOneAnswer
<1> QED
  BY <1>1, AnswersInit, AnswersStep, PTL DEF PipeSpec
=============================================================================
