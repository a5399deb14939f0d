---------------------------- MODULE SessionProofs ----------------------------
(***************************************************************************)
(* What a session's two ends keep between them, for any clients, presses,  *)
(* deadlines and exits: every line on its way, in either direction, was    *)
(* minted by the one counter, is numbered after every line before it, and  *)
(* quotes no authority the gate had not reached when it was written.       *)
(* And every call is answered once: what LibraryProofs shows of the        *)
(* transport against anything holds of it against this sidecar.            *)
(***************************************************************************)
EXTENDS Session, SequenceTheorems, TLAPS

Sequential(s) == s \in Seq(Range(s))

\* What a call is told other than its own answer.
Words == {"ok", "failed", "busy", "timeout", "control_queue_full", "control_unconfirmed",
          "sidecar_unavailable", "sidecar_exited", "answered"}

Letters == [kind: {"reply"}, to: Nat, what: Words, id: Nat]
             \cup [kind: {"exit"}, what: {"control_unconfirmed", "sidecar_exited"}]
             \cup [kind: {"event"}, what: Buttons]

PendingControl == [id: Nat, from: Nat]

\* The transport after its handshake: it hands a Port no line but those it minted.
TransportHolds ==
  /\ phase \in {"ready", "closed", "stopped"} /\ handshake = "ok"
  /\ pending_request \in {T!None} \cup [id: Nat, from: Nat, kind: {"action"}]
  /\ pending_controls \in Seq(PendingControl)
  /\ acc_size = 0 /\ sidecar_generation = SidecarGeneration
  /\ next_id \in Nat \ {0} /\ mutation_seq \in Nat
  /\ mail \in Seq(Letters)

\* Neither end is ahead of the gate.
Authorities ==
  /\ authorization_generation \in Nat /\ mutation_high_water \in Nat /\ calls \in Nat
  /\ authority \in 0 .. authorization_generation
  /\ newest_pause \in 0 .. authorization_generation
  /\ gate_when \in Seq(Nat) /\ Len(gate_when) = next_id - 1

Minted(id) == id \in Nat \ {0} /\ id < next_id

\* A line the transport takes for its own sidecar's.
Genuine(f) ==
  /\ f.sidecar_generation = SidecarGeneration
  /\ f.type \in {"response", "control_ack", "session_event"}
  /\ f.type # "session_event" => Minted(f.request_id)
  /\ f.type # "response" => f.authorization_generation \in 0 .. authorization_generation
  /\ f.type = "session_event" => f.event \in Buttons

FramesAreGenuine ==
  /\ Sequential(stdout)
  /\ \A i \in DOMAIN stdout : Genuine(stdout[i])
  /\ reader = "emitting" => Genuine(heard)
  /\ badge # <<>> => Genuine(Head(badge))

\* A request the transport wrote, and a control.
Asked(r) ==
  /\ Minted(r.request_id) /\ ~AnswersWithAck(r.action)
  /\ r.mutation_seq # Absent <=> CarriesMutationSeq(r.action)
  /\ r.mutation_seq # Absent => r.mutation_seq \in 0 .. mutation_seq

Ordered(c) ==
  /\ Minted(c.request_id)
  /\ c.authorization_generation \in 0 .. gate_when[c.request_id]

Offered    == reader \in {"offering", "sending"}
Unadmitted == worker \in {"received", "admitting"}

LinesAreOurs ==
  /\ Sequential(stdin)
  /\ \A i \in DOMAIN stdin :
       /\ stdin[i].type \in {"request", "control"}
       /\ stdin[i].type = "request" => Asked(stdin[i].body)
       /\ stdin[i].type = "control" => Ordered(stdin[i].body)
  /\ Offered => Asked(heard)
  /\ jobs # <<>> => Asked(Head(jobs))
  /\ Unadmitted \/ worker \in {"handling", "reporting"} => Asked(job)

\* No line overtakes another: r is numbered before s, and all that waits after the last
\* the gate admitted.
Before(r, s) ==
  CarriesMutationSeq(r.action) /\ CarriesMutationSeq(s.action)
    => r.mutation_seq < s.mutation_seq

BeforeTheLines(r) ==
  \A i \in DOMAIN stdin : stdin[i].type = "request" => Before(r, stdin[i].body)

Unmarked(r) == CarriesMutationSeq(r.action) => r.mutation_seq > mutation_high_water

NumbersRise ==
  /\ \A i, j \in DOMAIN stdin :
       i < j /\ stdin[i].type = "request" /\ stdin[j].type = "request"
         => Before(stdin[i].body, stdin[j].body)
  /\ Offered => BeforeTheLines(heard)
  /\ jobs # <<>> => BeforeTheLines(Head(jobs)) /\ (Offered => Before(Head(jobs), heard))
  /\ Unadmitted => /\ BeforeTheLines(job)
                   /\ Offered => Before(job, heard)
                   /\ jobs # <<>> => Before(job, Head(jobs))

AllAreNew ==
  /\ mutation_high_water <= mutation_seq
  /\ \A i \in DOMAIN stdin : stdin[i].type = "request" => Unmarked(stdin[i].body)
  /\ Offered => Unmarked(heard)
  /\ jobs # <<>> => Unmarked(Head(jobs))
  /\ Unadmitted => Unmarked(job)

SessionInv ==
  /\ TransportHolds /\ Authorities /\ FramesAreGenuine
  /\ LinesAreOurs /\ NumbersRise /\ AllAreNew
  /\ SequencesAreNeverStale
-----------------------------------------------------------------------------
(* Sequences.                                                              *)

LEMMA AppendIsSequential ==
  ASSUME NEW s, Sequential(s), NEW e
  PROVE  /\ Sequential(Append(s, e))
         /\ \A i \in DOMAIN Append(s, e) :
              Append(s, e)[i] = e \/ (i \in DOMAIN s /\ Append(s, e)[i] = s[i])
<1> DEFINE S == Range(s) \cup {e}
<1>1. s \in Seq(S)
  BY SeqMonotonic DEF Sequential
<1>2. /\ Append(s, e) \in Seq(S)
      /\ Len(Append(s, e)) = Len(s) + 1
      /\ \A i \in 1 .. Len(s) : Append(s, e)[i] = s[i]
      /\ Append(s, e)[Len(s) + 1] = e
  <2>1. e \in S
    OBVIOUS
  <2> QED
    BY <1>1, <2>1, AppendProperties
<1>3. DOMAIN s = 1 .. Len(s) /\ Len(s) \in Nat
  BY <1>1, LenProperties
<1>4. DOMAIN Append(s, e) = 1 .. Len(s) + 1
  BY <1>2, LenProperties
<1>5. Sequential(Append(s, e))
  BY <1>2, SeqOfRange DEF Sequential
<1> QED
  BY <1>2, <1>3, <1>4, <1>5

LEMMA TailIsSequential ==
  ASSUME NEW s, Sequential(s), s # <<>>
  PROVE  /\ Sequential(Tail(s))
         /\ \A i \in DOMAIN Tail(s) : i + 1 \in DOMAIN s /\ Tail(s)[i] = s[i + 1]
         /\ 1 \in DOMAIN s /\ Head(s) = s[1]
<1> DEFINE S == Range(s)
<1>1. s \in Seq(S)
  BY DEF Sequential
<1>2. Tail(s) \in Seq(S) /\ Len(Tail(s)) = Len(s) - 1
      /\ \A i \in 1 .. Len(Tail(s)) : Tail(s)[i] = s[i + 1]
  BY <1>1, HeadTailProperties
<1>3. DOMAIN s = 1 .. Len(s) /\ Len(s) \in Nat \ {0}
  BY <1>1, LenProperties, EmptySeq
<1>4. DOMAIN Tail(s) = 1 .. Len(Tail(s))
  BY <1>2, LenProperties
<1>5. Sequential(Tail(s))
  BY <1>2, SeqOfRange DEF Sequential
<1>6. Head(s) = s[1]
  BY <1>1
<1> QED
  BY <1>2, <1>3, <1>4, <1>5, <1>6

-----------------------------------------------------------------------------
(* The transport's steps.                                                  *)

\* Nothing is written, and the counter stands.
WritesNothing == UNCHANGED <<stdin, next_id, mutation_seq>>

\* One line is written, under the next id.
Writes(line) ==
  /\ next_id' = next_id + 1 /\ stdin' = Append(stdin, line)
  /\ authority' = authority

\* A line with what the transport knows: a request is numbered if its action mutates.
WritesAsked(line) ==
  /\ Writes(line) /\ line.type = "request"
  /\ line.body.request_id = next_id /\ line.body.action \in Actions
  /\ mutation_seq' = T!NextMutationSeq(line.body.action)
  /\ line.body.mutation_seq = IF CarriesMutationSeq(line.body.action) THEN mutation_seq'
                              ELSE Absent

WritesOrdered(line) ==
  /\ Writes(line) /\ line.type = "control"
  /\ line.body.request_id = next_id /\ line.body.authorization_generation = authority
  /\ mutation_seq' = mutation_seq

LEMMA AbsentIsNoNumber == Absent \notin Nat /\ SidecarGeneration # Absent
BY GateAssumption

LEMMA OutstandingIsMail ==
  ASSUME TransportHolds, NEW controls \in Seq(PendingControl), NEW what \in Words
  PROVE  T!Outstanding(controls, what) \in Seq(Letters)
<1> DEFINE first == IF (IF T!Hello THEN handshake_waiter ELSE pending_request.from) = Absent
                    THEN <<>>
                    ELSE <<T!Failed(IF T!Hello THEN handshake_waiter ELSE pending_request.from,
                                    what)>>
           rest == [i \in DOMAIN controls |-> T!Failed(controls[i].from, what)]
<1>1. ~T!Hello /\ pending_request.from \in Nat \cup {Absent}
  BY DEF T!Hello, TransportHolds, T!None
<1>2. \A to \in Nat : T!Failed(to, what) \in Letters
  BY DEF T!Failed, T!Reply, T!ForeignId, Letters
<1>3. first \in Seq(Letters)
  BY <1>1, <1>2
<1>4. DOMAIN controls = 1 .. Len(controls) /\ Len(controls) \in Nat
      /\ \A i \in DOMAIN controls : controls[i].from \in Nat
  <2>1. DOMAIN controls = 1 .. Len(controls) /\ Len(controls) \in Nat
    BY LenProperties
  <2>2. \A i \in 1 .. Len(controls) : controls[i] \in PendingControl
    BY ElementOfSeq
  <2> QED BY <2>1, <2>2 DEF PendingControl
<1>5. rest \in Seq(Letters)
  <2>1. rest \in [1 .. Len(controls) -> Letters]
    BY <1>2, <1>4
  <2> HIDE DEF rest
  <2> QED BY <1>4, <2>1, SeqDef
<1> HIDE DEF first, rest
<1>6. first \o rest \in Seq(Letters)
  BY <1>3, <1>5, ConcatProperties
<1> QED BY <1>6 DEF first, rest, T!Outstanding

LEMMA ClosedHolds ==
  ASSUME TransportHolds, NEW controls \in Seq(PendingControl), NEW what \in Words,
         NEW before \in Seq(Letters), NEW after \in Seq(Letters),
         T!Closed(controls, what, before, after)
  PROVE  TransportHolds' /\ WritesNothing /\ authority' = authority
<1>1. mail' \in Seq(Letters)
  <2>1. T!Outstanding(controls, what) \in Seq(Letters)
    BY OutstandingIsMail
  <2>2. mail' = mail \o before \o T!Outstanding(controls, what) \o after /\ mail \in Seq(Letters)
    BY DEF T!Closed, TransportHolds
  <2> QED BY <2>1, <2>2, ConcatProperties
<1>2. ~T!Hello
  BY DEF T!Hello, TransportHolds, T!None
<1>3. pending_request' \in {T!None}
  BY DEF T!Closed
<1>4. pending_controls' \in Seq(PendingControl)
  BY DEF T!Closed
<1> QED
  BY <1>1, <1>2, <1>3, <1>4 DEF T!Closed, T!envelope, TransportHolds, WritesNothing

\* Deleting one control in flight leaves controls in flight.
LEMMA OthersAreControls ==
  ASSUME TransportHolds, NEW id \in T!ControlIds
  PROVE  T!OtherControls(id) \in Seq(PendingControl)
<1> DEFINE i == CHOOSE j \in DOMAIN pending_controls : pending_controls[j].id = id
           n == Len(pending_controls)
<1>1. i \in DOMAIN pending_controls
  BY DEF T!ControlIds
<1>2. pending_controls \in Seq(PendingControl) /\ n \in Nat /\ DOMAIN pending_controls = 1 .. n
      /\ \A k \in 1 .. n : pending_controls[k] \in PendingControl
  BY LenProperties, ElementOfSeq DEF TransportHolds
<1> HIDE DEF i, n
<1>3. i \in 1 .. n /\ i - 1 \in Int /\ i + 1 \in Int /\ n \in Int
  BY <1>1, <1>2
<1>4. SubSeq(pending_controls, 1, i - 1) \in Seq(PendingControl)
  <2>1. \A k \in 1 .. i - 1 : pending_controls[k] \in PendingControl
    BY <1>2, <1>3
  <2> QED BY <1>3, <2>1, SubSeqProperties, Z3
<1>5. SubSeq(pending_controls, i + 1, n) \in Seq(PendingControl)
  <2>1. \A k \in i + 1 .. n : pending_controls[k] \in PendingControl
    BY <1>2, <1>3
  <2> QED BY <1>3, <2>1, SubSeqProperties, Z3
<1>6. SubSeq(pending_controls, 1, i - 1) \o SubSeq(pending_controls, i + 1, n)
        \in Seq(PendingControl)
  BY <1>4, <1>5, ConcatProperties
<1> QED BY <1>6 DEF T!OtherControls, i, n

LEMMA AnnounceHolds ==
  ASSUME TransportHolds, NEW controls \in Seq(PendingControl),
         NEW what \in {"control_unconfirmed", "sidecar_exited"},
         NEW before \in Seq(Letters), T!Announce(controls, what, before)
  PROVE  TransportHolds' /\ WritesNothing /\ authority' = authority
<1>1. T!News(what) \in Letters /\ what \in Words
  BY DEF T!News, Letters, Words
<1>2. (IF phase = "ready" THEN <<T!News(what)>> ELSE <<>>) \in Seq(Letters)
  BY <1>1
<1> QED BY <1>1, <1>2, ClosedHolds DEF T!Announce

LEMMA AnswerHolds ==
  ASSUME TransportHolds, NEW from \in Nat, NEW what \in Words, T!Answer(from, what)
  PROVE  TransportHolds' /\ WritesNothing /\ authority' = authority
<1>1. T!Failed(from, what) \in Letters
  BY DEF T!Failed, T!Reply, T!ForeignId, Letters
<1>2. mail' \in Seq(Letters)
  BY <1>1, AppendProperties DEF T!Answer, TransportHolds
<1> QED
  BY <1>2 DEF T!Answer, T!phases, T!pending, T!envelope, TransportHolds, WritesNothing

LEMMA NotWrittenHolds ==
  ASSUME TransportHolds, NEW from \in Nat, NEW what \in Words, T!NotWritten(from, what)
  PROVE  TransportHolds' /\ WritesNothing /\ authority' = authority
<1>1. T!Failed(from, what) \in Letters
  BY DEF T!Failed, T!Reply, T!ForeignId, Letters
<1>2. <<T!Failed(from, what)>> \in Seq(Letters) /\ <<>> \in Seq(Letters)
  BY <1>1
<1>3. pending_controls \in Seq(PendingControl)
  BY DEF TransportHolds
<1> QED BY <1>2, <1>3, ClosedHolds DEF T!NotWritten

\* Both ends number the same actions (@read_only is pinned to the list of wire.rs).
LEMMA BothCarry == \A action : T!CarriesMutationSeq(action) <=> CarriesMutationSeq(action)
BY DEF T!CarriesMutationSeq, CarriesMutationSeq, T!ReadOnlyActions, ReadOnlyActions

LEMMA RequestHolds ==
  ASSUME TransportHolds, NEW from \in Nat, NEW action \in Actions,
         T!AdmitRequest(from, action, TRUE)
  PROVE  /\ TransportHolds'
         /\ \/ WritesNothing /\ authority' = authority
            \/ \E line : WritesAsked(line)
<1> DEFINE line == [type |-> "request",
                    body |-> [request_id |-> next_id, action |-> action,
                              sidecar_generation |-> sidecar_generation,
                              authorization_generation |-> authority,
                              mutation_seq |-> IF T!CarriesMutationSeq(action)
                                               THEN T!NextMutationSeq(action) ELSE Absent]]
<1>1. CASE \E what \in Words : T!Answer(from, what)
  BY <1>1, AnswerHolds
<1>2. CASE \E what \in Words : T!NotWritten(from, what)
  BY <1>2, NotWrittenHolds
<1>3. CASE /\ T!Written(line) /\ mutation_seq' = T!NextMutationSeq(action)
           /\ pending_request' = [id |-> next_id, from |-> from, kind |-> "action"]
           /\ UNCHANGED pending_controls
  <2>1. TransportHolds'
    BY <1>3 DEF T!Written, T!phases, T!NextMutationSeq, TransportHolds
  <2>2. line.type = "request" /\ line.body.request_id = next_id /\ line.body.action = action
        /\ line.body.mutation_seq = IF CarriesMutationSeq(action)
                                    THEN T!NextMutationSeq(action) ELSE Absent
    BY BothCarry
  <2> HIDE DEF line
  <2>3. WritesAsked(line)
    BY <1>3, <2>2 DEF WritesAsked, Writes, T!Written
  <2> QED BY <2>1, <2>3
<1>4. T!Gone \/ phase = "ready"
  BY DEF TransportHolds, T!Gone
<1>5. CASE T!Gone
  <2>1. T!Answer(from, "sidecar_unavailable")
    BY <1>5 DEF T!AdmitRequest, T!Gone
  <2> QED BY <1>1, <2>1 DEF Words
<1>6. CASE ~T!Gone /\ phase = "ready" /\ action = "hello"
  <2>1. T!Answer(from, "ok")
    BY <1>6 DEF T!AdmitRequest
  <2> QED BY <1>1, <2>1 DEF Words
<1>7. CASE ~T!Gone /\ phase = "ready" /\ action # "hello" /\ pending_request # T!None
  <2>1. T!Answer(from, "busy")
    BY <1>7 DEF T!AdmitRequest
  <2> QED BY <1>1, <2>1 DEF Words
<1>8. CASE ~T!Gone /\ phase = "ready" /\ action # "hello" /\ pending_request = T!None
  <2>1. \/ T!NotWritten(from, T!WriteError(TRUE)) /\ T!WriteError(TRUE) # "none"
        \/ /\ T!Written(line) /\ mutation_seq' = T!NextMutationSeq(action)
           /\ pending_request' = [id |-> next_id, from |-> from, kind |-> "action"]
           /\ UNCHANGED pending_controls
    BY <1>8 DEF T!AdmitRequest
  <2>2. T!WriteError(TRUE) # "none" => T!WriteError(TRUE) \in Words
    BY DEF T!WriteError, Words
  <2> QED BY <1>2, <1>3, <2>1, <2>2
<1> QED BY <1>4, <1>5, <1>6, <1>7, <1>8

LEMMA ControlHolds ==
  ASSUME TransportHolds, NEW from \in Nat, NEW action \in ClientControls,
         T!AdmitControl(from, action)
  PROVE  /\ TransportHolds'
         /\ \/ WritesNothing /\ authority' = authority
            \/ \E line : WritesOrdered(line)
<1> DEFINE line == [type |-> "control",
                    body |-> [request_id |-> next_id, action |-> action,
                              authorization_generation |-> authority]]
           Goes == /\ T!Written(line)
                   /\ pending_controls' =
                        Append(pending_controls, [id |-> next_id, from |-> from])
                   /\ UNCHANGED <<pending_request, mutation_seq>>
<1>1. CASE \E what \in Words : T!Answer(from, what)
  BY <1>1, AnswerHolds
<1>2. CASE \E what \in Words : T!NotWritten(from, what)
  BY <1>2, NotWrittenHolds
<1>3. CASE Goes
  <2>1. pending_controls' \in Seq(PendingControl)
    <3>1. [id |-> next_id, from |-> from] \in PendingControl
      BY DEF PendingControl, TransportHolds
    <3> QED BY <1>3, <3>1, AppendProperties DEF TransportHolds
  <2>2. TransportHolds'
    BY <1>3, <2>1 DEF T!Written, T!phases, TransportHolds
  <2>3. line.type = "control" /\ line.body.request_id = next_id
        /\ line.body.authorization_generation = authority
    OBVIOUS
  <2> HIDE DEF line
  <2>4. WritesOrdered(line)
    BY <1>3, <2>3 DEF WritesOrdered, Writes, T!Written
  <2> QED BY <2>2, <2>4
<1>4. T!Gone \/ (phase = "ready" /\ ~T!Gone)
  BY DEF TransportHolds, T!Gone
<1>5. CASE T!Gone
  <2>1. T!Answer(from, "sidecar_unavailable")
    BY <1>5 DEF T!AdmitControl, T!Gone
  <2> QED BY <1>1, <2>1 DEF Words
<1>6. CASE phase = "ready" /\ ~T!Gone /\ Len(pending_controls) >= MaxPendingControls
  <2>1. T!Answer(from, "control_queue_full")
    BY <1>6 DEF T!AdmitControl
  <2> QED BY <1>1, <2>1 DEF Words
<1>7. CASE phase = "ready" /\ ~T!Gone /\ ~(Len(pending_controls) >= MaxPendingControls)
  <2>1. \/ T!NotWritten(from, T!WriteError(TRUE)) /\ T!WriteError(TRUE) # "none"
        \/ Goes
    BY <1>7 DEF T!AdmitControl
  <2>2. T!WriteError(TRUE) # "none" => T!WriteError(TRUE) \in Words
    BY DEF T!WriteError, Words
  <2> QED BY <1>2, <1>3, <2>1, <2>2
<1> QED BY <1>4, <1>5, <1>6, <1>7

LEMMA StopHolds ==
  ASSUME TransportHolds, NEW from \in Nat, T!Stop(from)
  PROVE  TransportHolds' /\ WritesNothing /\ authority' = authority
<1>1. T!Failed(from, "ok") \in Letters
  BY DEF T!Failed, T!Reply, T!ForeignId, Letters, Words
<1>2. <<T!Failed(from, "ok")>> \in Seq(Letters) /\ mail \in Seq(Letters) /\ ~T!Hello
  BY <1>1 DEF TransportHolds, T!Hello, T!None
<1>3. CASE T!Gone
  <2>1. mail' \in Seq(Letters)
    BY <1>1, <1>2, <1>3, AppendProperties DEF T!Stop
  <2> QED BY <1>3, <2>1 DEF T!Stop, T!pending, T!envelope, TransportHolds, WritesNothing
<1>4. CASE ~T!Gone
  <2>1. T!Outstanding(pending_controls, "sidecar_unavailable") \in Seq(Letters)
    BY OutstandingIsMail DEF TransportHolds, Words
  <2>2. mail' = mail \o T!Outstanding(pending_controls, "sidecar_unavailable")
                     \o <<T!Failed(from, "ok")>>
    BY <1>4 DEF T!Stop
  <2>3. mail' \in Seq(Letters)
    BY <1>2, <2>1, <2>2, ConcatProperties
  <2>4. pending_request' \in {T!None} /\ pending_controls' \in Seq(PendingControl)
    BY <1>4 DEF T!Stop
  <2> QED
    BY <1>2, <1>4, <2>3, <2>4 DEF T!Stop, T!envelope, TransportHolds, WritesNothing
<1> QED BY <1>3, <1>4

\* A genuine line never poisons: it names what is in flight, or what is over.
LEMMA LineHolds ==
  ASSUME TransportHolds, NEW f, Genuine(f), authority \in Nat, T!Absorb("eol", 1, f)
  PROVE  /\ TransportHolds' /\ WritesNothing
         /\ \/ authority' = authority
            \/ f.type # "response" /\ authority' = f.authorization_generation
<1>1. phase = "ready" /\ ~T!Gone
  BY DEF T!Absorb, T!Gone, TransportHolds
<1>2. T!HandleLine(f)
  BY DEF T!Absorb, TransportHolds
<1>3. T!GenerationsMatch(f)
  BY DEF T!GenerationsMatch, Genuine, TransportHolds
<1>4. CASE T!Drop
  BY <1>4 DEF T!Drop, T!phases, T!pending, T!envelope, TransportHolds, WritesNothing
<1>5. ASSUME f.type # "session_event", T!Unmatched(f) PROVE T!Drop
  BY <1>5 DEF T!Unmatched, T!Finished, T!ForeignId, Genuine, Minted
<1>6. CASE f.type = "response"
  <2>1. (T!AnswerRequest(f) /\ f.request_id \in T!RequestId) \/ T!Unmatched(f)
    BY <1>1, <1>2, <1>6 DEF T!HandleLine, T!RouteResponse
  <2>2. CASE T!AnswerRequest(f) /\ f.request_id \in T!RequestId
    <3>1. T!Reply(pending_request.from, "answered", f.request_id) \in Letters
      BY <1>6, <2>2 DEF T!RequestId, TransportHolds, T!Reply, Letters, Words, Genuine, Minted
    <3>2. mail' \in Seq(Letters)
      BY <1>3, <2>2, <3>1, AppendProperties DEF T!AnswerRequest, TransportHolds
    <3> QED
      BY <1>3, <2>2, <3>2 DEF T!AnswerRequest, T!phases, T!envelope, TransportHolds,
         WritesNothing
  <2> QED BY <1>4, <1>5, <1>6, <2>1, <2>2 DEF T!Drop, T!envelope
<1>7. CASE f.type = "control_ack"
  <2>1. (T!DeliverAck(f) /\ f.request_id \in T!ControlIds) \/ T!Unmatched(f)
    BY <1>2, <1>3, <1>7 DEF T!HandleLine, T!RouteAck
  <2>2. CASE T!DeliverAck(f) /\ f.request_id \in T!ControlIds
    <3>1. PICK i \in DOMAIN pending_controls :
            mail' = Append(mail, T!Reply(pending_controls[i].from, "answered", f.request_id))
      BY <2>2 DEF T!DeliverAck
    <3>2. pending_controls[i] \in PendingControl
      BY LenProperties, ElementOfSeq DEF TransportHolds
    <3>3. T!Reply(pending_controls[i].from, "answered", f.request_id) \in Letters
      BY <1>7, <3>2 DEF PendingControl, T!Reply, Letters, Words, Genuine, Minted
    <3>4. mail' \in Seq(Letters)
      BY <3>1, <3>3, AppendProperties DEF TransportHolds
    <3>5. pending_controls' \in Seq(PendingControl)
      BY <2>2, OthersAreControls DEF T!DeliverAck
    <3> QED
      BY <1>7, <2>2, <3>4, <3>5 DEF T!DeliverAck, T!phases, TransportHolds, WritesNothing
  <2> QED BY <1>4, <1>5, <1>7, <2>1, <2>2 DEF T!Drop, T!envelope
<1>8. CASE f.type = "session_event"
  <2>1. T!ForwardEvent(f) /\ T!Told(f) \in Letters
    BY <1>2, <1>8 DEF T!HandleLine, T!Told, Letters, Genuine
  <2>2. mail' \in Seq(Letters)
    BY <1>3, <2>1, AppendProperties DEF T!ForwardEvent, TransportHolds
  <2> QED
    BY <1>3, <1>8, <2>1, <2>2 DEF T!ForwardEvent, T!phases, T!pending, TransportHolds,
       WritesNothing
<1> QED BY <1>6, <1>7, <1>8 DEF Genuine

\* A deadline ends the session if it is a control's.
LEMMA DeadlineHolds ==
  ASSUME TransportHolds, NEW id, T!Deadline(id)
  PROVE  TransportHolds' /\ WritesNothing /\ authority' = authority
<1>1. ~T!Hello
  BY DEF T!Hello, TransportHolds, T!None
<1>2. CASE id \in T!RequestId
  <2>1. /\ mail' = Append(mail, T!Failed(pending_request.from, "timeout"))
        /\ pending_request' = T!None
        /\ UNCHANGED <<T!phases, pending_controls, next_id, T!envelope, acc_size, stdin>>
    BY <1>1, <1>2 DEF T!Deadline
  <2>2. T!Failed(pending_request.from, "timeout") \in Letters
    BY <1>2 DEF T!RequestId, TransportHolds, T!Failed, T!Reply, T!ForeignId, Letters, Words
  <2>3. mail' \in Seq(Letters)
    BY <2>1, <2>2, AppendProperties DEF TransportHolds
  <2> QED BY <2>1, <2>3 DEF T!phases, T!envelope, TransportHolds, WritesNothing
<1>3. CASE id \in T!ControlIds \ T!RequestId
  <2>1. PICK i \in DOMAIN pending_controls :
          T!Announce(T!OtherControls(id), "control_unconfirmed",
                     <<T!Failed(pending_controls[i].from, "control_unconfirmed")>>)
    BY <1>1, <1>3 DEF T!Deadline
  <2>2. pending_controls[i] \in PendingControl
    BY LenProperties, ElementOfSeq DEF TransportHolds
  <2>3. T!Failed(pending_controls[i].from, "control_unconfirmed") \in Letters
    BY <2>2 DEF PendingControl, T!Failed, T!Reply, T!ForeignId, Letters, Words
  <2>4. <<T!Failed(pending_controls[i].from, "control_unconfirmed")>> \in Seq(Letters)
    BY <2>3
  <2> QED BY <1>3, <2>1, <2>4, OthersAreControls, AnnounceHolds
<1>4. CASE id \notin T!RequestId /\ id \notin T!ControlIds
  <2>1. UNCHANGED <<T!phases, T!pending, next_id, T!envelope, acc_size, stdin, mail>>
    BY <1>1, <1>4 DEF T!Deadline
  <2> QED BY <2>1 DEF T!phases, T!pending, T!envelope, TransportHolds, WritesNothing
<1> QED BY <1>2, <1>3, <1>4

LEMMA ExitHolds ==
  ASSUME TransportHolds, T!SidecarExited
  PROVE  TransportHolds' /\ WritesNothing /\ authority' = authority
<1>1. CASE phase = "closed"
  BY <1>1 DEF T!SidecarExited, T!phases, T!pending, T!envelope, TransportHolds, WritesNothing
<1>2. CASE phase # "closed"
  <2>1. T!Announce(pending_controls, "sidecar_exited", <<>>)
    BY <1>2 DEF T!SidecarExited
  <2>2. <<>> \in Seq(Letters) /\ pending_controls \in Seq(PendingControl)
    BY DEF TransportHolds
  <2> QED BY <2>1, <2>2, AnnounceHolds
<1> QED BY <1>1, <1>2
-----------------------------------------------------------------------------
(* The library's steps, with the pipes.                                    *)

LEMMA NothingChanges ==
  ASSUME SessionInv, UNCHANGED <<sidecar_vars, library_vars, calls, history_vars>>
  PROVE  SessionInv'
<1>1. /\ UNCHANGED <<phase, handshake, pending_request, pending_controls, acc_size, next_id,
                     sidecar_generation, mutation_seq, mail, authority, calls, newest_pause,
                     gate_when>>
      /\ UNCHANGED <<authorization_generation, mutation_high_water, stdin, stdout, reader,
                     heard, jobs, worker, job, answer, badge>>
  BY DEF sidecar_vars, library_vars, history_vars, gate_vars, state_vars, pipes, reader_vars,
     worker_vars
<1>2. TransportHolds' /\ Authorities'
  BY <1>1 DEF SessionInv, TransportHolds, Authorities
<1>3. FramesAreGenuine'
  BY <1>1 DEF SessionInv, FramesAreGenuine, Genuine, Minted
<1>4. LinesAreOurs' /\ NumbersRise' /\ AllAreNew' /\ SequencesAreNeverStale'
  BY <1>1 DEF SessionInv, LinesAreOurs, NumbersRise, AllAreNew, SequencesAreNeverStale,
     Asked, Ordered, Minted, Offered, Unadmitted, BeforeTheLines, Before, Unmarked
<1> QED BY <1>2, <1>3, <1>4 DEF SessionInv

LEMMA GenuineStays ==
  ASSUME Authorities, TransportHolds, NEW f, Genuine(f),
         next_id' \in Nat, next_id <= next_id',
         authorization_generation' \in Nat, authorization_generation <= authorization_generation'
  PROVE  Genuine(f)'
BY DEF Authorities, TransportHolds, Genuine, Minted

LEMMA AskedStays ==
  ASSUME TransportHolds, NEW r, Asked(r),
         next_id' \in Nat, next_id <= next_id', mutation_seq' \in Nat, mutation_seq <= mutation_seq'
  PROVE  Asked(r)'
BY DEF TransportHolds, Asked, Minted

\* Nothing is written: one line may have been read.
LEMMA QuietStepKeeps ==
  ASSUME SessionInv, NEW reads \in BOOLEAN, Library(reads), reads => stdout # <<>>,
         TransportHolds', calls' \in Nat, WritesNothing,
         authority' \in 0 .. authorization_generation
  PROVE  SessionInv'
<1>1. UNCHANGED <<gate_vars, reader_vars, jobs, worker_vars, badge, newest_pause, gate_when,
                  stdin, next_id, mutation_seq>>
  BY DEF Library, WritesNothing, SessionInv, TransportHolds
<1>2. UNCHANGED <<authorization_generation, mutation_high_water, reader, heard, worker, job,
                  answer, jobs, badge>>
  BY <1>1 DEF gate_vars, state_vars, reader_vars, worker_vars
<1>3. Authorities'
  BY <1>1, <1>2 DEF SessionInv, Authorities
<1>4. FramesAreGenuine'
  <2>1. stdout' = stdout \/ (stdout # <<>> /\ stdout' = Tail(stdout))
    BY DEF Library
  <2>2. Sequential(stdout') /\ \A i \in DOMAIN stdout' : Genuine(stdout'[i])
    <3>1. Sequential(stdout) /\ \A i \in DOMAIN stdout : Genuine(stdout[i])
      BY DEF SessionInv, FramesAreGenuine
    <3>2. CASE stdout' = stdout
      BY <3>1, <3>2
    <3>3. CASE stdout # <<>> /\ stdout' = Tail(stdout)
      BY <3>1, <3>3, TailIsSequential
    <3> QED BY <2>1, <3>2, <3>3
  <2> QED BY <1>1, <1>2, <2>2 DEF SessionInv, FramesAreGenuine, Genuine, Minted
<1>5. LinesAreOurs' /\ NumbersRise' /\ AllAreNew' /\ SequencesAreNeverStale'
  BY <1>1, <1>2 DEF SessionInv, LinesAreOurs, NumbersRise, AllAreNew, SequencesAreNeverStale,
     Asked, Ordered, Minted, Offered, Unadmitted, BeforeTheLines, Before, Unmarked
<1> QED BY <1>3, <1>4, <1>5 DEF SessionInv

\* One line is written: it is numbered after all that wait.
LEMMA WritingStepKeeps ==
  ASSUME SessionInv, Library(FALSE), TransportHolds', calls' \in Nat,
         NEW line, WritesAsked(line) \/ WritesOrdered(line)
  PROVE  SessionInv'
<1>1. /\ UNCHANGED <<gate_vars, reader_vars, jobs, worker_vars, badge, newest_pause, stdout>>
      /\ Writes(line)
      /\ gate_when' = Append(gate_when, authorization_generation)
  BY DEF Library, WritesAsked, WritesOrdered, Writes, SessionInv, TransportHolds
<1>2. UNCHANGED <<authorization_generation, mutation_high_water, reader, heard, worker, job,
                  answer, jobs, badge, stdout>>
  BY <1>1 DEF gate_vars, state_vars, reader_vars, worker_vars
<1>3. /\ next_id \in Nat \ {0} /\ next_id' = next_id + 1 /\ mutation_seq \in Nat
      /\ mutation_seq' \in Nat /\ mutation_seq <= mutation_seq'
      /\ stdin' = Append(stdin, line) /\ authority' = authority
  BY <1>1, BothCarry DEF Writes, SessionInv, TransportHolds, WritesAsked, WritesOrdered,
     T!NextMutationSeq
<1>4. /\ gate_when' \in Seq(Nat) /\ Len(gate_when') = next_id' - 1
      /\ \A id : Minted(id) => gate_when'[id] = gate_when[id]
      /\ gate_when'[next_id] = authorization_generation
  <2>1. /\ gate_when' \in Seq(Nat) /\ Len(gate_when') = Len(gate_when) + 1
        /\ \A i \in 1 .. Len(gate_when) : gate_when'[i] = gate_when[i]
        /\ gate_when'[Len(gate_when) + 1] = authorization_generation
    BY <1>1, AppendProperties DEF SessionInv, Authorities
  <2>2. Len(gate_when) = next_id - 1
    BY DEF SessionInv, Authorities
  <2> QED BY <1>3, <2>1, <2>2 DEF Minted
<1>5. Authorities'
  BY <1>2, <1>1, <1>3, <1>4 DEF SessionInv, Authorities
<1>6. FramesAreGenuine'
  <2>1. \A f : Genuine(f) => Genuine(f)'
    BY <1>2, <1>3, GenuineStays DEF SessionInv, Authorities
  <2> QED BY <1>2, <2>1 DEF SessionInv, FramesAreGenuine
<1>7. \A r : Asked(r) => Asked(r)'
  BY <1>3, AskedStays DEF SessionInv
<1>8. \A c : Ordered(c) => Ordered(c)'
  BY <1>3, <1>4 DEF Ordered, Minted
<1>9. line.type = "request" => Asked(line.body)'
  <2> SUFFICES ASSUME WritesAsked(line) PROVE Asked(line.body)'
    BY DEF WritesOrdered
  <2>1. ~AnswersWithAck(line.body.action)
    BY SessionAssumption DEF WritesAsked, AnswersWithAck
  <2>2. Minted(line.body.request_id)'
    BY <1>3 DEF WritesAsked, Minted
  <2> QED BY <1>3, <2>1, <2>2, AbsentIsNoNumber DEF WritesAsked, Asked
<1>10. line.type = "control" => Ordered(line.body)'
  <2> SUFFICES ASSUME WritesOrdered(line) PROVE Ordered(line.body)'
    BY DEF WritesAsked
  <2> QED BY <1>3, <1>4 DEF WritesOrdered, Ordered, Minted, SessionInv, Authorities
<1>11. line.type \in {"request", "control"}
  BY DEF WritesAsked, WritesOrdered
<1>12. /\ Sequential(stdin')
       /\ \A i \in DOMAIN stdin' : stdin'[i] = line \/ (i \in DOMAIN stdin /\ stdin'[i] = stdin[i])
  BY <1>3, AppendIsSequential DEF SessionInv, LinesAreOurs
<1>13. LinesAreOurs'
  BY <1>2, <1>7, <1>8, <1>9, <1>10, <1>11, <1>12 DEF SessionInv, LinesAreOurs, Offered, Unadmitted
<1>14. \A r : Asked(r) /\ line.type = "request" => Before(r, line.body)
  <2> SUFFICES ASSUME NEW r, Asked(r), WritesAsked(line),
                      CarriesMutationSeq(r.action), CarriesMutationSeq(line.body.action)
               PROVE  r.mutation_seq < line.body.mutation_seq
    BY DEF Before, WritesOrdered
  <2>1. line.body.mutation_seq = mutation_seq + 1
    BY BothCarry DEF WritesAsked, T!NextMutationSeq
  <2> QED BY <1>3, <2>1 DEF Asked
<1>15. \A r : Asked(r) /\ BeforeTheLines(r) => BeforeTheLines(r)'
  BY <1>12, <1>14 DEF BeforeTheLines, Before
<1>16. NumbersRise'
  <2>1. ASSUME NEW i \in DOMAIN stdin', NEW j \in DOMAIN stdin', i < j,
               stdin'[i].type = "request", stdin'[j].type = "request"
        PROVE  Before(stdin'[i].body, stdin'[j].body)
    <3>1. i \in DOMAIN stdin /\ stdin'[i] = stdin[i]
      <4>1. /\ DOMAIN stdin' = 1 .. Len(stdin) + 1 /\ DOMAIN stdin = 1 .. Len(stdin)
            /\ Len(stdin) \in Nat
            /\ \A k \in 1 .. Len(stdin) : stdin'[k] = stdin[k]
        <5>1. stdin \in Seq(Range(stdin) \cup {line})
          BY SeqMonotonic DEF SessionInv, LinesAreOurs, Sequential
        <5> QED BY <1>3, <5>1, AppendProperties, LenProperties
      <4> QED BY <2>1, <4>1
    <3>2. Asked(stdin[i].body)
      BY <2>1, <3>1 DEF SessionInv, LinesAreOurs
    <3>3. CASE stdin'[j] = line
      BY <2>1, <3>1, <3>2, <3>3, <1>14
    <3>4. CASE j \in DOMAIN stdin /\ stdin'[j] = stdin[j]
      BY <2>1, <3>1, <3>4 DEF SessionInv, NumbersRise
    <3> QED BY <1>12, <3>3, <3>4
  <2>2. /\ Offered => Asked(heard) /\ BeforeTheLines(heard)
        /\ jobs # <<>> => Asked(Head(jobs)) /\ BeforeTheLines(Head(jobs))
        /\ Unadmitted => Asked(job) /\ BeforeTheLines(job)
    BY DEF SessionInv, LinesAreOurs, NumbersRise
  <2>3. /\ Offered' => BeforeTheLines(heard)'
        /\ jobs' # <<>> => BeforeTheLines(Head(jobs))'
        /\ Unadmitted' => BeforeTheLines(job)'
    BY <1>2, <1>15, <2>2 DEF Offered, Unadmitted
  <2> QED BY <1>2, <2>1, <2>3 DEF SessionInv, NumbersRise, Offered, Unadmitted, Before
<1>17. AllAreNew'
  <2>1. line.type = "request" => Unmarked(line.body)
    <3> SUFFICES ASSUME WritesAsked(line), CarriesMutationSeq(line.body.action)
                 PROVE  line.body.mutation_seq > mutation_high_water
      BY DEF Unmarked, WritesOrdered
    <3>1. line.body.mutation_seq = mutation_seq + 1
      BY BothCarry DEF WritesAsked, T!NextMutationSeq
    <3> QED BY <1>3, <3>1 DEF SessionInv, AllAreNew, Authorities
  <2> QED BY <1>2, <1>3, <1>12, <2>1 DEF SessionInv, AllAreNew, Authorities, Unmarked, Offered,
       Unadmitted
<1>18. SequencesAreNeverStale'
  BY <1>2 DEF SessionInv, SequencesAreNeverStale
<1> QED BY <1>5, <1>6, <1>13, <1>16, <1>17, <1>18 DEF SessionInv

LEMMA LibraryKeeps == SessionInv /\ LibraryNext => SessionInv'
<1> SUFFICES ASSUME SessionInv, LibraryNext PROVE SessionInv'
  OBVIOUS
<1>1. TransportHolds /\ calls \in Nat /\ calls + 1 \in Nat /\ authority \in Nat
      /\ authority \in 0 .. authorization_generation
  BY DEF SessionInv, Authorities
<1>2. CASE CallRequest
  <2>1. PICK action \in Actions : T!AdmitRequest(calls + 1, action, TRUE)
                                  /\ calls' = calls + 1 /\ Library(FALSE)
    BY <1>2 DEF CallRequest, Client
  <2>2. /\ TransportHolds'
        /\ \/ WritesNothing /\ authority' = authority
           \/ \E line : WritesAsked(line)
    BY <1>1, <2>1, RequestHolds
  <2> QED BY <1>1, <2>1, <2>2, QuietStepKeeps, WritingStepKeeps
<1>3. CASE CallControl
  <2>1. PICK action \in ClientControls : T!AdmitControl(calls + 1, action)
                                         /\ calls' = calls + 1 /\ Library(FALSE)
    BY <1>3 DEF CallControl, Client
  <2>2. /\ TransportHolds'
        /\ \/ WritesNothing /\ authority' = authority
           \/ \E line : WritesOrdered(line)
    BY <1>1, <2>1, ControlHolds
  <2> QED BY <1>1, <2>1, <2>2, QuietStepKeeps, WritingStepKeeps
<1>4. CASE CallStop
  <2>1. T!Stop(calls + 1) /\ calls' = calls + 1 /\ Library(FALSE)
    BY <1>4 DEF CallStop, Client
  <2>2. TransportHolds' /\ WritesNothing /\ authority' = authority
    BY <1>1, <2>1, StopHolds
  <2> QED BY <1>1, <2>1, <2>2, QuietStepKeeps
<1>5. CASE ReadLine
  <2>1. stdout # <<>> /\ T!Absorb("eol", 1, Head(stdout)) /\ Library(TRUE) /\ calls' = calls
    BY <1>5 DEF ReadLine
  <2>2. Genuine(Head(stdout))
    BY <2>1, TailIsSequential DEF SessionInv, FramesAreGenuine
  <2>3. /\ TransportHolds' /\ WritesNothing
        /\ \/ authority' = authority
           \/ /\ Head(stdout).type # "response"
              /\ authority' = Head(stdout).authorization_generation
    BY <1>1, <2>1, <2>2, LineHolds
  <2>4. authority' \in 0 .. authorization_generation
    BY <1>1, <2>2, <2>3 DEF Genuine
  <2> QED BY <1>1, <2>1, <2>3, <2>4, QuietStepKeeps
<1>6. CASE HandleDeadline
  <2>1. PICK id : T!Deadline(id) /\ Library(FALSE) /\ calls' = calls
    BY <1>6 DEF HandleDeadline
  <2>2. TransportHolds' /\ WritesNothing /\ authority' = authority
    BY <1>1, <2>1, DeadlineHolds
  <2> QED BY <1>1, <2>1, <2>2, QuietStepKeeps
<1>7. CASE HandleExitStatus
  <2>1. T!SidecarExited /\ Library(FALSE) /\ calls' = calls
    BY <1>7 DEF HandleExitStatus
  <2>2. TransportHolds' /\ WritesNothing /\ authority' = authority
    BY <1>1, <2>1, ExitHolds
  <2> QED BY <1>1, <2>1, <2>2, QuietStepKeeps
<1>8. CASE PortEnds
  <2>1. UNCHANGED <<sidecar_vars, library_vars, calls, history_vars>>
    BY <1>8 DEF PortEnds
  <2> QED
    BY <2>1, NothingChanges
<1> QED BY <1>2, <1>3, <1>4, <1>5, <1>6, <1>7, <1>8 DEF LibraryNext
-----------------------------------------------------------------------------
(* The sidecar's steps.                                                    *)

\* What every one of them leaves alone, and what may only rise.
SidecarAround ==
  /\ UNCHANGED <<library_vars, port, calls, gate_when>>
  /\ authorization_generation' \in Nat /\ authorization_generation <= authorization_generation'
  /\ mutation_high_water' \in Nat
  /\ newest_pause' \in {newest_pause, authorization_generation'}

LEMMA AroundKeeps ==
  ASSUME SessionInv, SidecarAround
  PROVE  /\ TransportHolds' /\ Authorities'
         /\ next_id' = next_id /\ mutation_seq' = mutation_seq /\ gate_when' = gate_when
<1>1. UNCHANGED <<phase, handshake, pending_request, pending_controls, acc_size, next_id,
                  sidecar_generation, mutation_seq, mail, authority, calls, gate_when>>
  BY DEF SidecarAround, library_vars
<1>2. TransportHolds'
  BY <1>1 DEF SessionInv, TransportHolds
<1>3. Authorities'
  BY <1>1 DEF SessionInv, Authorities, SidecarAround
<1> QED BY <1>1, <1>2, <1>3

LEMMA ControlRises ==
  ASSUME Authorities, NEW a, NEW e, Control(a, e)
  PROVE  /\ authorization_generation' = authorization_generation + 1
         /\ mutation_high_water' = mutation_high_water
BY DEF Control, Pause, Release, Resume, Barrier

\* The gate's steps for the request in flight revoke nothing and admit nothing.
LEMMA RequestsRevokeNothing ==
  ASSUME \/ Dispatch \/ BeginLong \/ CheckMessage \/ EndLong \/ MessageGoesOut
         \/ MessageRefused \/ EndMessage \/ Refused \/ InputComplete \/ Finish \/ TakeRelease
  PROVE  UNCHANGED <<authorization_generation, mutation_high_water, paused>>
<1>1. CASE Dispatch \/ BeginLong \/ EndMessage \/ TakeRelease
  BY <1>1 DEF Dispatch, BeginLong, EndMessage, TakeRelease, Mark, CallMoves, state_vars
<1>2. CASE CheckMessage \/ EndLong \/ MessageGoesOut \/ MessageRefused
  BY <1>2 DEF CheckMessage, EndLong, MessageGoesOut, MessageRefused, CallMoves, state_vars
<1>3. CASE Refused \/ InputComplete \/ Finish
  BY <1>3 DEF Refused, InputComplete, Finish, CallMoves, state_vars
<1> QED BY <1>1, <1>2, <1>3

\* The steps of the gate's actor that the library does not see.
LEMMA SidecarStays ==
  ASSUME SessionInv, SidecarStep,
         UNCHANGED <<authorization_generation, mutation_high_water>>
  PROVE  SidecarAround
BY DEF SidecarStep, SidecarAround, SessionInv, Authorities

LEMMA ReadControlKeeps == SessionInv /\ SidecarStep /\ ReadControl => SessionInv'
<1> SUFFICES ASSUME SessionInv, SidecarStep, ReadControl PROVE SessionInv'
  OBVIOUS
<1> DEFINE c == Head(stdin).body
<1>1. /\ stdin # <<>> /\ Head(stdin).type = "control" /\ stdin' = Tail(stdin)
      /\ reader' = "emitting" /\ reader = "reading"
      /\ UNCHANGED <<stdout, jobs, worker, job, answer, badge>>
  BY DEF ReadControl, ReaderHandles, worker_vars
<1>2. /\ authorization_generation' \in Nat
      /\ authorization_generation <= authorization_generation'
      /\ mutation_high_water' = mutation_high_water
  <2>1. CASE c.action = "resume" /\ ~ResumeApplies(c.authorization_generation)
    BY <2>1 DEF ReadControl, gate_vars, state_vars, SessionInv, Authorities
  <2>2. CASE ~(c.action = "resume" /\ ~ResumeApplies(c.authorization_generation))
    <3>1. Control(c.action, c.authorization_generation)
      BY <2>2 DEF ReadControl
    <3> QED BY <3>1, ControlRises DEF SessionInv, Authorities
  <2> QED BY <2>1, <2>2
<1>3. SidecarAround
  BY <1>2 DEF SidecarStep, SidecarAround, SessionInv, Authorities
<1>4. TransportHolds' /\ Authorities' /\ next_id' = next_id /\ mutation_seq' = mutation_seq
      /\ gate_when' = gate_when
  BY <1>3, AroundKeeps
<1>5. /\ Sequential(stdin')
      /\ \A i \in DOMAIN stdin' : i + 1 \in DOMAIN stdin /\ stdin'[i] = stdin[i + 1]
      /\ 1 \in DOMAIN stdin /\ Head(stdin) = stdin[1]
      /\ \A i \in DOMAIN stdin' : i \in Nat
  BY <1>1, TailIsSequential, LenProperties DEF SessionInv, LinesAreOurs, Sequential
<1>6. Genuine(heard)'
  <2>1. Minted(c.request_id)
    BY <1>1, <1>5 DEF SessionInv, LinesAreOurs, Ordered
  <2>2. \E ok : heard' = Ack(c, ok)
    BY DEF ReadControl
  <2> QED BY <1>2, <1>4, <2>1, <2>2 DEF Ack, Genuine, Minted
<1>7. FramesAreGenuine'
  <2>1. \A f : Genuine(f) => Genuine(f)'
    BY <1>2, <1>4, GenuineStays DEF SessionInv, TransportHolds
  <2> QED BY <1>1, <1>6, <2>1 DEF SessionInv, FramesAreGenuine
<1>8. LinesAreOurs'
  BY <1>1, <1>4, <1>5 DEF SessionInv, LinesAreOurs, Asked, Ordered, Minted, Offered, Unadmitted
<1>9. NumbersRise'
  BY <1>1, <1>5 DEF SessionInv, NumbersRise, Offered, Unadmitted, BeforeTheLines, Before
<1>10. AllAreNew' /\ SequencesAreNeverStale'
  BY <1>1, <1>2, <1>4, <1>5 DEF SessionInv, AllAreNew, Offered, Unadmitted, Unmarked,
     SequencesAreNeverStale
<1> QED BY <1>4, <1>7, <1>8, <1>9, <1>10 DEF SessionInv

LEMMA ReadRequestKeeps == SessionInv /\ SidecarStep /\ ReadRequest => SessionInv'
<1> SUFFICES ASSUME SessionInv, SidecarStep, ReadRequest PROVE SessionInv'
  OBVIOUS
<1>1. /\ stdin # <<>> /\ Head(stdin).type = "request" /\ stdin' = Tail(stdin)
      /\ reader' = "offering" /\ reader = "reading" /\ heard' = Head(stdin).body
      /\ UNCHANGED <<stdout, jobs, worker, job, answer, badge>>
      /\ UNCHANGED <<authorization_generation, mutation_high_water>>
  BY DEF ReadRequest, ReaderHandles, worker_vars, gate_vars, state_vars
<1>4. TransportHolds' /\ Authorities' /\ next_id' = next_id /\ mutation_seq' = mutation_seq
      /\ gate_when' = gate_when
  BY <1>1, SidecarStays, AroundKeeps
<1>5. /\ Sequential(stdin')
      /\ \A i \in DOMAIN stdin' : i + 1 \in DOMAIN stdin /\ stdin'[i] = stdin[i + 1]
      /\ 1 \in DOMAIN stdin /\ Head(stdin) = stdin[1]
      /\ \A i \in DOMAIN stdin' : i \in Nat /\ i >= 1
  BY <1>1, TailIsSequential, LenProperties DEF SessionInv, LinesAreOurs, Sequential
<1>7. FramesAreGenuine'
  BY <1>1, <1>4 DEF SessionInv, FramesAreGenuine, Genuine, Minted
<1>8. LinesAreOurs'
  BY <1>1, <1>4, <1>5 DEF SessionInv, LinesAreOurs, Asked, Ordered, Minted, Offered, Unadmitted
<1>9. NumbersRise'
  BY <1>1, <1>5 DEF SessionInv, NumbersRise, Offered, Unadmitted, BeforeTheLines, Before
<1>10. AllAreNew' /\ SequencesAreNeverStale'
  BY <1>1, <1>4, <1>5 DEF SessionInv, AllAreNew, Offered, Unadmitted, Unmarked,
     SequencesAreNeverStale
<1> QED BY <1>4, <1>7, <1>8, <1>9, <1>10 DEF SessionInv

LEMMA OfferKeeps ==
  SessionInv /\ SidecarStep /\ (OfferAsksTheGate \/ OfferSends \/ ReaderEnds) => SessionInv'
<1> SUFFICES ASSUME SessionInv, SidecarStep, OfferAsksTheGate \/ OfferSends \/ ReaderEnds
             PROVE  SessionInv'
  OBVIOUS
<1>1. /\ UNCHANGED <<stdin, stdout, worker, job, answer, badge>>
      /\ UNCHANGED <<authorization_generation, mutation_high_water>>
  BY DEF OfferAsksTheGate, OfferSends, ReaderEnds, ReaderSteps, worker_vars, gate_vars, state_vars
<1>2. TransportHolds' /\ Authorities' /\ next_id' = next_id /\ mutation_seq' = mutation_seq
      /\ gate_when' = gate_when
  BY <1>1, SidecarStays, AroundKeeps
<1>3. \/ Offered /\ Offered' /\ heard' = heard /\ jobs' = jobs
      \/ /\ Offered /\ reader' = "emitting" /\ jobs' = jobs
         /\ heard' = Response(heard, "busy")
      \/ Offered /\ jobs = <<>> /\ reader' = "reading" /\ jobs' = <<heard>>
      \/ reader = "reading" /\ reader' = "done" /\ jobs' = jobs
  BY DEF OfferAsksTheGate, OfferSends, ReaderEnds, ReaderSteps, Offered
<1>4. FramesAreGenuine'
  <2>1. reader' = "emitting" => Genuine(heard)'
    <3> SUFFICES ASSUME reader' = "emitting" PROVE Genuine(heard)'
      OBVIOUS
    <3>1. Offered /\ heard' = Response(heard, "busy")
      BY <1>3 DEF Offered
    <3>2. Asked(heard)
      BY <3>1 DEF SessionInv, LinesAreOurs
    <3> QED BY <1>2, <3>1, <3>2 DEF Response, Asked, Genuine, Minted
  <2> QED BY <1>1, <1>2, <2>1 DEF SessionInv, FramesAreGenuine, Genuine, Minted
<1>5. LinesAreOurs' /\ NumbersRise' /\ AllAreNew' /\ SequencesAreNeverStale'
  <2>1. CASE Offered /\ Offered' /\ heard' = heard /\ jobs' = jobs
    BY <1>1, <1>2, <2>1 DEF SessionInv, LinesAreOurs, NumbersRise, AllAreNew,
       SequencesAreNeverStale, Asked, Ordered, Minted, Unadmitted, BeforeTheLines, Before, Unmarked
  <2>2. CASE ~Offered' /\ jobs' = jobs
    BY <1>1, <1>2, <2>2 DEF SessionInv, LinesAreOurs, NumbersRise, AllAreNew,
       SequencesAreNeverStale, Asked, Ordered, Minted, Unadmitted, BeforeTheLines, Before, Unmarked
  <2>3. CASE Offered /\ jobs = <<>> /\ ~Offered' /\ jobs' = <<heard>>
    <3>1. jobs' # <<>> /\ Head(jobs') = heard
      BY <2>3
    <3> QED
      BY <1>1, <1>2, <2>3, <3>1 DEF SessionInv, LinesAreOurs, NumbersRise, AllAreNew,
         SequencesAreNeverStale, Asked, Ordered, Minted, Unadmitted, BeforeTheLines, Before,
         Unmarked
  <2> QED BY <1>3, <2>1, <2>2, <2>3 DEF Offered
<1> QED BY <1>2, <1>4, <1>5 DEF SessionInv

\* One genuine frame is written, and what stays on its way stays as it is.
LEMMA EmitKeeps ==
  ASSUME SessionInv, SidecarStep, NEW f, Genuine(f), stdout' = Append(stdout, f),
         UNCHANGED <<stdin, jobs, authorization_generation, mutation_high_water>>,
         \/ reader = "emitting" /\ reader' = "reading" /\ UNCHANGED <<worker, job, answer, badge>>
         \/ /\ worker' = "receiving" /\ answer' = Absent
            /\ UNCHANGED <<reader, heard, badge>>
         \/ badge' = <<>> /\ UNCHANGED <<reader, heard, worker, job, answer>>
  PROVE  SessionInv'
<1>1. TransportHolds' /\ Authorities' /\ next_id' = next_id /\ mutation_seq' = mutation_seq
      /\ gate_when' = gate_when
  BY SidecarStays, AroundKeeps
<1>2. FramesAreGenuine'
  <2>1. Sequential(stdout') /\ \A i \in DOMAIN stdout' : Genuine(stdout'[i])
    <3>1. Sequential(stdout) /\ \A i \in DOMAIN stdout : Genuine(stdout[i])
      BY DEF SessionInv, FramesAreGenuine
    <3> QED BY <3>1, AppendIsSequential
  <2> QED BY <1>1, <2>1 DEF SessionInv, FramesAreGenuine, Genuine, Minted
<1>3. LinesAreOurs' /\ NumbersRise' /\ AllAreNew'
  BY <1>1 DEF SessionInv, LinesAreOurs, NumbersRise, AllAreNew, Asked, Ordered, Minted,
     Offered, Unadmitted, BeforeTheLines, Before, Unmarked
<1>4. SequencesAreNeverStale'
  BY SessionAssumption DEF SessionInv, SequencesAreNeverStale, Codes
<1> QED BY <1>1, <1>2, <1>3, <1>4 DEF SessionInv

LEMMA EmittersKeep ==
  SessionInv /\ SidecarStep /\ (ReaderEmits \/ ReplyJob \/ BadgeEmits) => SessionInv'
<1> SUFFICES ASSUME SessionInv, SidecarStep, ReaderEmits \/ ReplyJob \/ BadgeEmits
             PROVE  SessionInv'
  OBVIOUS
<1>1. CASE ReaderEmits
  <2>1. /\ reader = "emitting" /\ reader' = "reading" /\ stdout' = Append(stdout, heard)
        /\ UNCHANGED <<stdin, jobs, authorization_generation, mutation_high_water, worker, job,
                       answer, badge>>
    BY <1>1 DEF ReaderEmits, ReaderSteps, Emit, worker_vars, gate_vars, state_vars
  <2>2. Genuine(heard)
    BY <2>1 DEF SessionInv, FramesAreGenuine
  <2> QED BY <2>1, <2>2, EmitKeeps
<1>2. CASE ReplyJob
  <2>1. /\ worker = "reporting" /\ worker' = "receiving" /\ answer' = Absent
        /\ stdout' = Append(stdout, Response(job, answer))
        /\ UNCHANGED <<stdin, jobs, authorization_generation, mutation_high_water, reader, heard,
                       badge>>
    BY <1>2 DEF ReplyJob, WorkerMoves, Emit, reader_vars, gate_vars, state_vars
  <2>2. Asked(job)
    BY <2>1 DEF SessionInv, LinesAreOurs
  <2>3. Genuine(Response(job, answer))
    BY <2>2 DEF Response, Asked, Genuine
  <2> QED BY <2>1, <2>3, EmitKeeps
<1>3. CASE BadgeEmits
  <2>1. /\ badge # <<>> /\ badge' = <<>> /\ stdout' = Append(stdout, Head(badge))
        /\ UNCHANGED <<stdin, jobs, authorization_generation, mutation_high_water, reader, heard,
                       worker, job, answer>>
    BY <1>3 DEF BadgeEmits, Emit, reader_vars, worker_vars, gate_vars, state_vars
  <2>2. Genuine(Head(badge))
    BY <2>1 DEF SessionInv, FramesAreGenuine
  <2> QED BY <2>1, <2>2, EmitKeeps
<1> QED BY <1>1, <1>2, <1>3

\* Where the worker stands, with the same job, and nothing admitted.
LEMMA WorkerKeeps ==
  ASSUME SessionInv, SidecarStep,
         UNCHANGED <<stdin, stdout, reader, heard, badge, authorization_generation,
                     mutation_high_water>>,
         \/ /\ jobs # <<>> /\ job' = Head(jobs) /\ jobs' = <<>> /\ worker' = "received"
            /\ answer' = answer
         \/ /\ UNCHANGED <<jobs, job>>
            /\ Unadmitted' => Unadmitted
            /\ worker' \in {"handling", "reporting"}
                 => Unadmitted \/ worker \in {"handling", "reporting"}
            /\ answer' \in {answer} \cup (Codes \ {"stale_mutation"})
  PROVE  SessionInv'
<1>1. TransportHolds' /\ Authorities' /\ next_id' = next_id /\ mutation_seq' = mutation_seq
      /\ gate_when' = gate_when
  BY SidecarStays, AroundKeeps
<1>2. FramesAreGenuine'
  BY <1>1 DEF SessionInv, FramesAreGenuine, Genuine, Minted
<1>3. LinesAreOurs' /\ NumbersRise' /\ AllAreNew'
  BY <1>1 DEF SessionInv, LinesAreOurs, NumbersRise, AllAreNew, Asked, Ordered, Minted,
     Offered, Unadmitted, BeforeTheLines, Before, Unmarked
<1>4. SequencesAreNeverStale'
  BY DEF SessionInv, SequencesAreNeverStale, Codes
<1> QED BY <1>1, <1>2, <1>3, <1>4 DEF SessionInv

LEMMA WorkersKeep ==
  SessionInv /\ SidecarStep
    /\ (Receive \/ LetGo \/ RefuseJob \/ Act \/ CallEnds \/ FinishJob \/ WorkerEnds)
    => SessionInv'
<1> SUFFICES ASSUME SessionInv, SidecarStep,
                    \/ Receive \/ LetGo \/ RefuseJob \/ Act \/ CallEnds \/ FinishJob
                    \/ WorkerEnds
             PROVE  SessionInv'
  OBVIOUS
<1>1. UNCHANGED <<stdin, stdout, reader, heard, badge>>
  BY DEF Receive, LetGo, RefuseJob, Act, CallEnds, FinishJob, WorkerEnds, ActThrough, WorkerMoves,
     reader_vars
<1>2. UNCHANGED <<authorization_generation, mutation_high_water>>
  <2>1. CASE Receive \/ RefuseJob \/ WorkerEnds
    BY <2>1 DEF Receive, RefuseJob, WorkerEnds, gate_vars, state_vars
  <2>2. CASE LetGo \/ Act \/ CallEnds \/ FinishJob
    BY <2>2, RequestsRevokeNothing DEF LetGo, Act, CallEnds, FinishJob, ActThrough
  <2> QED BY <2>1, <2>2
<1>3. CASE Receive
  BY <1>1, <1>2, <1>3, WorkerKeeps DEF Receive, WorkerMoves
<1>4. CASE LetGo
  BY <1>1, <1>2, <1>4, WorkerKeeps DEF LetGo, WorkerMoves, Unadmitted
<1>5. CASE RefuseJob
  <2>1. worker = "admitting" /\ worker' = "reporting" /\ answer' = Refusal(job)
        /\ UNCHANGED <<jobs, job>>
    BY <1>5 DEF RefuseJob, WorkerMoves
  <2>2. Asked(job) /\ Unmarked(job)
    BY <2>1 DEF SessionInv, LinesAreOurs, AllAreNew, Unadmitted
  <2>3. NewSequence(job)
    BY <2>2 DEF NewSequence, Asked, Unmarked
  <2>4. Refusal(job) # "none" /\ Refusal(job) \in {"none", "stale_generation", "paused"}
    BY <1>5, <2>3 DEF RefuseJob, Refusal
  <2> QED BY <1>1, <1>2, <2>1, <2>4, WorkerKeeps DEF Unadmitted, Codes
<1>6. CASE Act \/ CallEnds
  BY <1>1, <1>2, <1>6, WorkerKeeps DEF Act, CallEnds, ActThrough, WorkerMoves, Unadmitted
<1>7. CASE FinishJob
  <2>1. worker = "handling" /\ worker' = "reporting" /\ UNCHANGED <<jobs, job>>
        /\ answer' \in {"ok", "cancelled", "failed"}
    BY <1>7 DEF FinishJob, WorkerMoves
  <2> QED BY <1>1, <1>2, <2>1, WorkerKeeps DEF Unadmitted, Codes
<1>8. CASE WorkerEnds
  BY <1>1, <1>2, <1>8, WorkerKeeps DEF WorkerEnds, WorkerMoves, Unadmitted
<1> QED BY <1>3, <1>4, <1>5, <1>6, <1>7, <1>8

\* The gate marks the number it admits: every line that waits has a greater one.
LEMMA AdmitKeeps == SessionInv /\ SidecarStep /\ AdmitJob => SessionInv'
<1> SUFFICES ASSUME SessionInv, SidecarStep, AdmitJob PROVE SessionInv'
  OBVIOUS
<1>1. /\ worker = "admitting" /\ worker' = "handling"
      /\ UNCHANGED <<stdin, stdout, reader, heard, badge, jobs, job, answer,
                     authorization_generation>>
      /\ mutation_high_water' =
           IF job.action \notin UngatedActions /\ job.mutation_seq # Absent
           THEN job.mutation_seq ELSE mutation_high_water
  BY DEF AdmitJob, WorkerMoves, Admit, reader_vars
<1>2. Asked(job)
  BY <1>1 DEF SessionInv, LinesAreOurs, Unadmitted
<1>3. \/ mutation_high_water' = mutation_high_water
      \/ /\ CarriesMutationSeq(job.action) /\ mutation_high_water' = job.mutation_seq
         /\ job.mutation_seq \in 0 .. mutation_seq
  BY <1>1, <1>2 DEF Asked
<1>4. SidecarAround
  BY <1>1, <1>3 DEF SidecarStep, SidecarAround, SessionInv, Authorities, TransportHolds
<1>5. TransportHolds' /\ Authorities' /\ next_id' = next_id /\ mutation_seq' = mutation_seq
      /\ gate_when' = gate_when
  BY <1>4, AroundKeeps
<1>6. FramesAreGenuine'
  BY <1>1, <1>5 DEF SessionInv, FramesAreGenuine, Genuine, Minted
<1>7. LinesAreOurs' /\ NumbersRise'
  BY <1>1, <1>5 DEF SessionInv, LinesAreOurs, NumbersRise, Asked, Ordered, Minted, Offered,
     Unadmitted, BeforeTheLines, Before
<1>8. AllAreNew'
  <2>1. \A r : Unmarked(r) /\ Before(job, r) => Unmarked(r)'
    BY <1>3 DEF Unmarked, Before
  <2>2. ASSUME NEW i \in DOMAIN stdin, stdin[i].type = "request" PROVE Unmarked(stdin[i].body)'
    BY <1>1, <1>3, <2>2 DEF SessionInv, AllAreNew, NumbersRise, Unadmitted, BeforeTheLines, Before,
       Unmarked
  <2>3. Offered' => Unmarked(heard)'
    BY <1>1, <1>3 DEF SessionInv, AllAreNew, NumbersRise, Unadmitted, Offered, Before, Unmarked
  <2>4. jobs' # <<>> => Unmarked(Head(jobs))'
    BY <1>1, <1>3 DEF SessionInv, AllAreNew, NumbersRise, Unadmitted, Before, Unmarked
  <2>5. mutation_high_water' <= mutation_seq'
    BY <1>3, <1>5 DEF SessionInv, AllAreNew, TransportHolds
  <2> QED BY <1>1, <2>2, <2>3, <2>4, <2>5 DEF AllAreNew, Unadmitted
<1>9. SequencesAreNeverStale'
  BY <1>1 DEF SessionInv, SequencesAreNeverStale
<1> QED BY <1>5, <1>6, <1>7, <1>8, <1>9 DEF SessionInv

LEMMA PressKeeps ==
  ASSUME SessionInv, SidecarStep, NEW event \in Buttons, PressButton(event)
  PROVE  SessionInv'
<1>1. /\ badge' = <<Event(event)>>
      /\ UNCHANGED <<stdin, stdout, reader, heard, jobs, worker, job, answer>>
  BY DEF PressButton, pipes, reader_vars, worker_vars
<1>2. /\ authorization_generation' = authorization_generation + 1
      /\ mutation_high_water' = mutation_high_water
  <2>1. \E a \in {"resume", "pause"} : Control(a, Absent)
    BY DEF PressButton
  <2> QED BY <2>1, ControlRises DEF SessionInv
<1>3. SidecarAround
  BY <1>2 DEF SidecarStep, SidecarAround, SessionInv, Authorities
<1>4. TransportHolds' /\ Authorities' /\ next_id' = next_id /\ mutation_seq' = mutation_seq
      /\ gate_when' = gate_when
  BY <1>3, AroundKeeps
<1>5. FramesAreGenuine'
  <2>1. \A f : Genuine(f) => Genuine(f)'
    BY <1>2, <1>4 DEF Genuine, Minted, SessionInv, Authorities
  <2>2. Genuine(Head(badge))'
    BY <1>1, <1>2, <1>4 DEF Event, Genuine, SessionInv, Authorities
  <2> QED
    BY <1>1, <1>2, <1>4, <2>2 DEF SessionInv, FramesAreGenuine, Genuine, Minted, Authorities
<1>6. LinesAreOurs' /\ NumbersRise' /\ AllAreNew' /\ SequencesAreNeverStale'
  BY <1>1, <1>2, <1>4 DEF SessionInv, LinesAreOurs, NumbersRise, AllAreNew, Asked, Ordered, Minted,
     Offered, Unadmitted, BeforeTheLines, Before, Unmarked, SequencesAreNeverStale
<1> QED BY <1>4, <1>5, <1>6 DEF SessionInv
-----------------------------------------------------------------------------
LEMMA SessionStarts == SessionInit => SessionInv
<1> SUFFICES ASSUME SessionInit PROVE SessionInv
  OBVIOUS
<1>1. Sequential(<<>>) /\ DOMAIN <<>> = {}
  BY EmptySeq DEF Sequential
<1>2. TransportHolds
  BY DEF SessionInit, TransportHolds
<1>3. Authorities
  BY DEF SessionInit, SidecarInit, Init, Authorities
<1>4. FramesAreGenuine /\ LinesAreOurs /\ NumbersRise /\ AllAreNew
  BY <1>1 DEF SessionInit, SidecarInit, Init, FramesAreGenuine, LinesAreOurs, NumbersRise,
     AllAreNew, Offered, Unadmitted
<1>5. SequencesAreNeverStale
  BY SessionAssumption DEF SessionInit, SidecarInit, SequencesAreNeverStale, Codes
<1> QED BY <1>2, <1>3, <1>4, <1>5 DEF SessionInv

LEMMA SessionKeeps == SessionInv /\ [SessionNext]_session_vars => SessionInv'
<1> SUFFICES ASSUME SessionInv, [SessionNext]_session_vars PROVE SessionInv'
  OBVIOUS
<1>1. CASE UNCHANGED session_vars
  BY <1>1, NothingChanges DEF session_vars
<1>2. CASE LibraryNext
  BY <1>2, LibraryKeeps
<1>3. CASE SidecarStep
  BY <1>3, ReadControlKeeps, ReadRequestKeeps, OfferKeeps, EmittersKeep, WorkersKeep,
     AdmitKeeps, PressKeeps
     DEF SidecarStep, SidecarNext, ReaderThread, WorkerThread, WorkerProgress, BadgeThread
<1> QED BY <1>1, <1>2, <1>3 DEF SessionNext

\* Between this library and this sidecar nothing ends a session by poison but a control
\* no acknowledgement came for: no line of the sidecar is ever taken for another boot's, for
\* an id never minted, or for no frame (absorb, route_response, route_ack, forward_event).
THEOREM OnlySilenceEndsIt == SessionSpec => []OnlySilencePoisons
<1>1. SessionInv => OnlySilencePoisons
  <2> SUFFICES ASSUME SessionInv, NEW i \in DOMAIN mail, mail[i].kind = "exit"
               PROVE  mail[i].what \in {"control_unconfirmed", "sidecar_exited"}
    BY DEF OnlySilencePoisons, What
  <2>1. mail[i] \in Letters
    BY LenProperties, ElementOfSeq DEF SessionInv, TransportHolds
  <2> QED BY <2>1 DEF Letters
<1> QED BY <1>1, SessionStarts, SessionKeeps, PTL DEF SessionSpec

\* No request the library numbers is refused for its number: what waits, anywhere between
\* the two, is numbered after the last the gate admitted (next_mutation_seq, admit).
THEOREM NumbersAreFresh == SessionSpec => []SequencesAreNeverStale
<1>1. SessionInv => SequencesAreNeverStale
  BY DEF SessionInv
<1> QED BY <1>1, SessionStarts, SessionKeeps, PTL DEF SessionSpec

\* A resume lifts a pause only if its line was written once the pause was in: the gate takes
\* it for the generation it quotes, and the transport is never ahead of the gate.
THEOREM ResumesAreAimed == SessionSpec => ResumeLiftsNoNewerPause
<1>1. ASSUME SessionInv, [SessionNext]_session_vars, paused, ~paused', badge' = badge
      PROVE  newest_pause <= gate_when[heard'.request_id]
  <2>1. SidecarStep
    <3>1. CASE UNCHANGED session_vars
      BY <1>1, <3>1 DEF session_vars, sidecar_vars, gate_vars, state_vars
    <3>2. CASE LibraryNext
      <4>1. (\E reads \in BOOLEAN : Library(reads)) => UNCHANGED paused
        BY DEF Library, gate_vars, state_vars
      <4>2. PortEnds => UNCHANGED paused
        BY DEF PortEnds, sidecar_vars, gate_vars, state_vars
      <4> QED
        BY <1>1, <3>2, <4>1, <4>2 DEF LibraryNext, CallRequest, CallControl, CallStop, Client,
           ReadLine, HandleDeadline, HandleExitStatus
    <3> QED BY <1>1, <3>1, <3>2 DEF SessionNext
  <2>2. ReadControl
    <3>1. ASSUME NEW event \in Buttons, PressButton(event) PROVE FALSE
      <4>1. badge = <<>> /\ badge' = <<Event(event)>>
        BY <3>1 DEF PressButton
      <4> QED BY <1>1, <4>1
    <3>2. CASE \/ ReadRequest \/ OfferAsksTheGate \/ OfferSends \/ ReaderEmits \/ ReaderEnds
               \/ Receive \/ RefuseJob \/ ReplyJob \/ WorkerEnds \/ BadgeEmits
      BY <1>1, <3>2 DEF ReadRequest, OfferAsksTheGate, OfferSends, ReaderEmits, ReaderEnds,
         ReaderSteps, Receive, RefuseJob, ReplyJob, WorkerEnds, BadgeEmits, gate_vars, state_vars
    <3>3. CASE LetGo \/ Act \/ CallEnds \/ FinishJob
      <4>1. UNCHANGED paused
        BY <3>3, RequestsRevokeNothing DEF LetGo, Act, CallEnds, FinishJob, ActThrough
      <4> QED BY <1>1, <4>1
    <3>4. CASE AdmitJob
      BY <1>1, <3>4 DEF AdmitJob, Admit
    <3> QED
      BY <2>1, <3>1, <3>2, <3>3, <3>4 DEF SidecarStep, SidecarNext, ReaderThread, WorkerThread,
         WorkerProgress, BadgeThread
  <2> DEFINE c == Head(stdin).body
  <2>3. stdin # <<>> /\ Head(stdin).type = "control" /\ Ordered(c)
    <3>1. stdin # <<>> /\ Head(stdin).type = "control"
      BY <2>2 DEF ReadControl
    <3> QED BY <1>1, <3>1, TailIsSequential DEF SessionInv, LinesAreOurs
  <2>4. c.authorization_generation = authorization_generation /\ heard'.request_id = c.request_id
    <3>1. \E ok : heard' = Ack(c, ok)
      BY <2>2 DEF ReadControl
    <3>2. heard'.request_id = c.request_id
      BY <3>1 DEF Ack
    <3>3. CASE c.action = "resume" /\ ~ResumeApplies(c.authorization_generation)
      BY <1>1, <2>2, <3>3 DEF ReadControl, gate_vars, state_vars
    <3>4. CASE ~(c.action = "resume" /\ ~ResumeApplies(c.authorization_generation))
      <4>1. Control(c.action, c.authorization_generation)
        BY <2>2, <3>4 DEF ReadControl
      <4>2. ResumeApplies(c.authorization_generation)
        BY <1>1, <4>1 DEF Control, Pause, Release, Resume
      <4>3. c.authorization_generation # Absent
        BY <2>3, AbsentIsNoNumber DEF Ordered
      <4> QED BY <3>2, <4>2, <4>3 DEF ResumeApplies
    <3> QED BY <3>3, <3>4
  <2>5. gate_when[c.request_id] \in Nat
    <3>1. c.request_id \in 1 .. Len(gate_when) /\ gate_when \in Seq(Nat)
      BY <1>1, <2>3 DEF Ordered, Minted, SessionInv, Authorities, TransportHolds
    <3> QED BY <3>1, ElementOfSeq
  <2> QED BY <1>1, <2>3, <2>4, <2>5 DEF Ordered, SessionInv, Authorities
<1>2. SessionInv /\ [SessionNext]_session_vars
        => [paused /\ ~paused' /\ badge' = badge
              => newest_pause <= gate_when[heard'.request_id]]_session_vars
  BY <1>1
<1> QED BY <1>2, SessionStarts, SessionKeeps, PTL DEF SessionSpec, ResumeLiftsNoNewerPause
-----------------------------------------------------------------------------
(* The calls of a session.  LibraryProofs shows that a transport answers   *)
(* each call once and tells its owner last, with nothing assumed of what   *)
(* is at the far end of its Port; this session's library is such a         *)
(* transport, and its sidecar's lines are among what may come.             *)

VARIABLES
  asked,    \* history: the id each call would be written under
  open_at   \* history: the calls that had been made when the owner was told

\* What a badge's line decodes to, of which the owner is told.
Events ==
  [type: {"session_event"}, event: Buttons, authorization_generation: Nat,
   sidecar_generation: {SidecarGeneration}]

\* The transport alone: its handshake is over and start_link was answered before the
\* session began, every line comes whole, and no bound of its own counts them.
Alone ==
  INSTANCE LibraryProofs WITH
    outbox <- stdin, authorization_generation <- authority, MaxResponseBytes <- 1,
    Controls <- ClientControls, Frames <- Events, ChunkBytes <- {1}, MaxChunks <- 0,
    started <- FALSE, chunks <- 0

recorded_vars == <<session_vars, asked, open_at>>

RecordedInit == SessionInit /\ asked = <<>> /\ open_at = 0

RecordedNext ==
  /\ SessionNext
  /\ asked' = IF calls' = calls THEN asked ELSE Append(asked, next_id)
  /\ Alone!NoteNews

RecordedSpec == RecordedInit /\ [][RecordedNext]_recorded_vars

\* The calls counted are those recorded, and the transport is where it would be alone.
RecordedInv ==
  /\ SessionInv /\ Alone!TransportInv
  /\ asked \in Seq(Nat) /\ Len(asked) = calls

\* The transport's own assumption, of this session's constants.
LEMMA AloneAssumption ==
  /\ MaxPendingControls \in Nat \ {0} /\ 1 \in Nat \ {0}
  /\ Absent \notin Nat /\ SidecarGeneration # Absent
BY GateAssumption, SessionAssumption

\* One and the same step, in the session and alone.
LEMMA RequestsAgree ==
  ASSUME NEW from, NEW action, NEW fits, T!AdmitRequest(from, action, fits)
  PROVE  Alone!AdmitRequest(from, action, fits)
BY DEF T!AdmitRequest, Alone!AdmitRequest, T!Gone, Alone!Gone, T!WriteError, Alone!WriteError,
   T!Answer, Alone!Answer, T!NotWritten, Alone!NotWritten, T!Closed, Alone!Closed,
   T!CancelTimers, Alone!CancelTimers, T!EndTimers, Alone!EndTimers, T!phases, Alone!phases,
   T!pending, Alone!pending, T!envelope, Alone!envelope, T!Failed, Alone!Failed, T!Reply,
   Alone!Reply, T!ForeignId, Alone!ForeignId, T!Hello, Alone!Hello, T!RequestId,
   Alone!RequestId, T!ControlIds, Alone!ControlIds, T!None, Alone!None, T!Outstanding,
   Alone!Outstanding, T!Written, Alone!Written, T!NextMutationSeq, Alone!NextMutationSeq,
   T!CarriesMutationSeq, Alone!CarriesMutationSeq, T!ReadOnlyActions, Alone!ReadOnlyActions

LEMMA ControlsAgree ==
  ASSUME NEW from, NEW action, T!AdmitControl(from, action)
  PROVE  Alone!AdmitControl(from, action)
BY DEF T!AdmitControl, Alone!AdmitControl, T!Gone, Alone!Gone, T!WriteError, Alone!WriteError,
   T!Answer, Alone!Answer, T!NotWritten, Alone!NotWritten, T!Closed, Alone!Closed,
   T!CancelTimers, Alone!CancelTimers, T!EndTimers, Alone!EndTimers, T!phases, Alone!phases,
   T!pending, Alone!pending, T!envelope, Alone!envelope, T!Failed, Alone!Failed, T!Reply,
   Alone!Reply, T!ForeignId, Alone!ForeignId, T!Hello, Alone!Hello, T!RequestId,
   Alone!RequestId, T!ControlIds, Alone!ControlIds, T!None, Alone!None, T!Outstanding,
   Alone!Outstanding, T!Written, Alone!Written

LEMMA StopsAgree ==
  ASSUME NEW from, T!Stop(from)
  PROVE  Alone!Stop(from)
BY DEF T!Stop, Alone!Stop, T!Gone, Alone!Gone,
   T!CancelTimers, Alone!CancelTimers, T!EndTimers, Alone!EndTimers, T!phases, Alone!phases,
   T!pending, Alone!pending, T!envelope, Alone!envelope, T!Failed, Alone!Failed, T!Reply,
   Alone!Reply, T!ForeignId, Alone!ForeignId, T!Hello, Alone!Hello, T!RequestId,
   Alone!RequestId, T!ControlIds, Alone!ControlIds, T!None, Alone!None, T!Outstanding,
   Alone!Outstanding

LEMMA DeadlinesAgree ==
  ASSUME NEW id, T!Deadline(id)
  PROVE  Alone!Deadline(id)
BY DEF T!Deadline, Alone!Deadline, T!Announce, Alone!Announce, T!Closed, Alone!Closed, T!News,
   Alone!News, T!OtherControls, Alone!OtherControls,
   T!CancelTimers, Alone!CancelTimers, T!EndTimers, Alone!EndTimers, T!phases, Alone!phases,
   T!pending, Alone!pending, T!envelope, Alone!envelope, T!Failed, Alone!Failed, T!Reply,
   Alone!Reply, T!ForeignId, Alone!ForeignId, T!Hello, Alone!Hello, T!RequestId,
   Alone!RequestId, T!ControlIds, Alone!ControlIds, T!None, Alone!None, T!Outstanding,
   Alone!Outstanding

LEMMA ExitsAgree ==
  ASSUME T!SidecarExited
  PROVE  Alone!SidecarExited
BY DEF T!SidecarExited, Alone!SidecarExited, T!Announce, Alone!Announce, T!Closed,
   Alone!Closed, T!News, Alone!News,
   T!CancelTimers, Alone!CancelTimers, T!EndTimers, Alone!EndTimers, T!phases, Alone!phases,
   T!pending, Alone!pending, T!envelope, Alone!envelope, T!Failed, Alone!Failed, T!Reply,
   Alone!Reply, T!ForeignId, Alone!ForeignId, T!Hello, Alone!Hello, T!RequestId,
   Alone!RequestId, T!ControlIds, Alone!ControlIds, T!None, Alone!None, T!Outstanding,
   Alone!Outstanding

LEMMA LinesAgree ==
  ASSUME NEW kind, NEW bytes, NEW frame, T!Absorb(kind, bytes, frame)
  PROVE  Alone!Absorb(kind, bytes, frame)
BY DEF T!Absorb, Alone!Absorb, T!Gone, Alone!Gone, T!Poison, Alone!Poison, T!HandleLine,
   Alone!HandleLine, T!RouteResponse, Alone!RouteResponse, T!RouteAck, Alone!RouteAck,
   T!ForwardEvent, Alone!ForwardEvent, T!HandshakeResponse, Alone!HandshakeResponse,
   T!AnswerRequest, Alone!AnswerRequest, T!Unmatched, Alone!Unmatched, T!Finished,
   Alone!Finished, T!Drop, Alone!Drop, T!DeliverAck, Alone!DeliverAck, T!GenerationsMatch,
   Alone!GenerationsMatch, T!Told, Alone!Told, T!Announce, Alone!Announce, T!Closed,
   Alone!Closed, T!News, Alone!News, T!OtherControls, Alone!OtherControls,
   T!CancelTimers, Alone!CancelTimers, T!EndTimers, Alone!EndTimers, T!phases, Alone!phases,
   T!pending, Alone!pending, T!envelope, Alone!envelope, T!Failed, Alone!Failed, T!Reply,
   Alone!Reply, T!ForeignId, Alone!ForeignId, T!Hello, Alone!Hello, T!RequestId,
   Alone!RequestId, T!ControlIds, Alone!ControlIds, T!None, Alone!None, T!Outstanding,
   Alone!Outstanding

LEMMA RecordedStarts == RecordedInit => RecordedInv
<1> SUFFICES ASSUME RecordedInit PROVE RecordedInv
  OBVIOUS
<1>1. SessionInv
  BY SessionStarts DEF RecordedInit
<1>2. /\ phase = "ready" /\ handshake = "ok" /\ handshake_waiter = Absent
      /\ pending_request = T!None /\ pending_controls = <<>> /\ next_id = 2 /\ mail = <<>>
      /\ asked = <<>> /\ open_at = 0 /\ calls = 0
  BY DEF RecordedInit, SessionInit
<1>3. pending_request = Alone!None /\ pending_request.kind = "none"
  BY <1>2 DEF T!None, Alone!None, T!ForeignId, Alone!ForeignId
<1>4. Alone!WellFormed
  <2>1. Alone!None \in Alone!PendingType
    BY DEF Alone!None, Alone!PendingType, Alone!ForeignId
  <2>2. /\ pending_controls \in Seq(Alone!ControlType) /\ asked \in Seq(Nat)
        /\ mail \in Seq(Alone!Post)
    BY <1>2
  <2> QED BY <1>2, <1>3, <2>1, <2>2 DEF Alone!WellFormed
<1>5. Alone!Calls = {} /\ DOMAIN mail = {} /\ DOMAIN pending_controls = {} /\ ~Alone!Hello
  BY <1>2, <1>3 DEF Alone!Calls, Alone!Hello
<1>6. Alone!TheHandshake /\ Alone!PendingAreCalls
  BY <1>2, <1>3, <1>5, AloneAssumption DEF Alone!TheHandshake, Alone!PendingAreCalls
<1>7. /\ Alone!RepliesAreToCallers /\ Alone!EachCallIsAnsweredOnce
      /\ Alone!NewsIsOfTheEnd /\ Alone!TheNewsComesLast
  BY <1>5 DEF Alone!RepliesAreToCallers, Alone!EachCallIsAnsweredOnce, Alone!NewsIsOfTheEnd,
     Alone!TheNewsComesLast, Alone!Exits
<1>8. asked \in Seq(Nat) /\ Len(asked) = calls
  BY <1>2
<1> QED BY <1>1, <1>4, <1>6, <1>7, <1>8 DEF RecordedInv, Alone!TransportInv

\* A step that leaves the transport and its clients alone.
LEMMA TheTransportRests ==
  ASSUME RecordedInv, UNCHANGED <<library_vars, asked>>, Alone!NoteNews \/ UNCHANGED open_at
  PROVE  Alone!TransportInv'
<1>1. /\ UNCHANGED <<handshake, handshake_waiter, Alone!pending, next_id, mail, asked, FALSE>>
      /\ phase' = phase
  BY DEF library_vars, Alone!pending
<1>2. Alone!TransportInv
  BY DEF RecordedInv
<1> QED BY <1>1, <1>2, AloneAssumption, Alone!QuietSteps

\* A line the sidecar wrote is one that may come.
LEMMA SessionLines ==
  ASSUME RecordedInv, ReadLine, UNCHANGED asked, Alone!NoteNews
  PROVE  Alone!TransportInv'
<1>1. PICK frame : frame = Head(stdout)
  OBVIOUS
<1>2. Genuine(frame)
  BY <1>1, TailIsSequential DEF ReadLine, RecordedInv, SessionInv, FramesAreGenuine
<1>3. Alone!Absorb("eol", 1, frame)
  BY <1>1, LinesAgree DEF ReadLine
<1>4. frame.type = "session_event" => Alone!Told(frame) \in Alone!Post
  <2> SUFFICES ASSUME frame.type = "session_event" PROVE Alone!Told(frame) \in Alone!Post
    OBVIOUS
  <2> DEFINE event == [type |-> "session_event", event |-> frame.event,
                       authorization_generation |-> 0, sidecar_generation |-> SidecarGeneration]
  <2>1. event \in Events /\ event.type = "session_event"
    BY <1>2 DEF Genuine, Events
  <2>2. Alone!Told(frame) = Alone!Told(event)
    BY DEF Alone!Told
  <2> QED BY <2>1, <2>2 DEF Alone!Post
<1>5. UNCHANGED <<asked, FALSE>> /\ Alone!TransportInv
  BY DEF RecordedInv
<1> QED BY <1>3, <1>4, <1>5, AloneAssumption, Alone!Fragments

LEMMA RecordedKeeps == RecordedInv /\ [RecordedNext]_recorded_vars => RecordedInv'
<1> SUFFICES ASSUME RecordedInv, [RecordedNext]_recorded_vars PROVE RecordedInv'
  OBVIOUS
<1>1. SessionInv /\ Alone!TransportInv /\ asked \in Seq(Nat) /\ Len(asked) = calls /\ calls \in Nat
  BY DEF RecordedInv, SessionInv, Authorities
<1>2. SessionInv'
  BY <1>1, SessionKeeps DEF RecordedNext, recorded_vars
<1>3. CASE UNCHANGED recorded_vars
  <2>1. UNCHANGED <<library_vars, asked, open_at, calls>>
    BY <1>3 DEF recorded_vars, session_vars
  <2>2. Alone!TransportInv'
    BY <2>1, TheTransportRests
  <2> QED BY <1>1, <1>2, <2>1, <2>2 DEF RecordedInv
<1>4. ASSUME RecordedNext, calls' = calls + 1, Alone!TransportInv' PROVE RecordedInv'
  <2>1. asked' = Append(asked, next_id) /\ next_id \in Nat
    BY <1>1, <1>4 DEF RecordedNext, SessionInv, TransportHolds
  <2>2. asked' \in Seq(Nat) /\ Len(asked') = Len(asked) + 1
    BY <1>1, <2>1, AppendProperties
  <2> QED BY <1>1, <1>2, <1>4, <2>2 DEF RecordedInv
<1>5. ASSUME RecordedNext, calls' = calls, Alone!TransportInv' PROVE RecordedInv'
  <2>1. asked' = asked
    BY <1>5 DEF RecordedNext
  <2> QED BY <1>1, <1>2, <1>5, <2>1 DEF RecordedInv
<1>6. ASSUME RecordedNext, calls' = calls + 1
      PROVE  /\ asked' = Append(asked, next_id) /\ Alone!NoteNews /\ UNCHANGED FALSE
             /\ calls + 1 = Len(asked) + 1
  BY <1>1, <1>6 DEF RecordedNext
<1>7. CASE RecordedNext /\ CallRequest
  <2>1. PICK action \in Actions : T!AdmitRequest(calls + 1, action, TRUE) /\ calls' = calls + 1
    BY <1>7 DEF CallRequest, Client
  <2>2. PICK fits : T!AdmitRequest(calls + 1, action, fits)
    BY <2>1
  <2>3. Alone!AdmitRequest(calls + 1, action, fits)
    BY <2>2, RequestsAgree
  <2>4. Alone!AdmitRequest(Len(asked) + 1, action, fits)
    BY <1>6, <1>7, <2>1, <2>3
  <2>5. Alone!TransportInv'
    BY <1>1, <1>6, <1>7, <2>1, <2>4, AloneAssumption, Alone!RequestCalls
  <2> QED BY <1>4, <1>7, <2>1, <2>5
<1>8. CASE RecordedNext /\ CallControl
  <2>1. PICK action \in ClientControls : T!AdmitControl(calls + 1, action) /\ calls' = calls + 1
    BY <1>8 DEF CallControl, Client
  <2>2. Alone!AdmitControl(calls + 1, action)
    BY <2>1, ControlsAgree
  <2>3. Alone!AdmitControl(Len(asked) + 1, action)
    BY <1>6, <1>8, <2>1, <2>2
  <2>4. Alone!TransportInv'
    BY <1>1, <1>6, <1>8, <2>1, <2>3, AloneAssumption, Alone!ControlCalls
  <2> QED BY <1>4, <1>8, <2>1, <2>4
<1>9. CASE RecordedNext /\ CallStop
  <2>1. T!Stop(calls + 1) /\ calls' = calls + 1
    BY <1>9 DEF CallStop, Client
  <2>2. Alone!Stop(calls + 1)
    BY <2>1, StopsAgree
  <2>3. Alone!Stop(Len(asked) + 1)
    BY <1>6, <1>9, <2>1, <2>2
  <2>4. Alone!TransportInv'
    BY <1>1, <1>6, <1>9, <2>1, <2>3, AloneAssumption, Alone!StopSteps
  <2> QED BY <1>4, <1>9, <2>1, <2>4
<1>10. CASE RecordedNext /\ ReadLine
  <2>1. calls' = calls /\ asked' = asked /\ Alone!NoteNews
    BY <1>10 DEF RecordedNext, ReadLine
  <2> QED BY <1>5, <1>10, <2>1, SessionLines
<1>11. CASE RecordedNext /\ HandleDeadline
  <2>1. PICK id \in timers : T!Deadline(id) /\ calls' = calls
    BY <1>11 DEF HandleDeadline
  <2>2. asked' = asked /\ Alone!NoteNews
    BY <1>11, <2>1 DEF RecordedNext
  <2>3. Alone!Deadline(id)
    BY <2>1, DeadlinesAgree
  <2>4. Alone!HandleDeadline
    BY <2>2, <2>3 DEF Alone!HandleDeadline, Alone!Elsewhere
  <2>5. Alone!TransportInv'
    BY <1>1, <2>4, AloneAssumption, Alone!Deadlines
  <2> QED BY <1>5, <1>11, <2>1, <2>5
<1>12. CASE RecordedNext /\ HandleExitStatus
  <2>1. T!SidecarExited /\ calls' = calls
    BY <1>12 DEF HandleExitStatus
  <2>2. asked' = asked /\ Alone!NoteNews
    BY <1>12, <2>1 DEF RecordedNext
  <2>3. Alone!SidecarExited
    BY <2>1, ExitsAgree
  <2>4. Alone!HandleExitStatus
    BY <2>2, <2>3 DEF Alone!HandleExitStatus, Alone!Elsewhere
  <2>5. Alone!TransportInv'
    BY <1>1, <2>4, AloneAssumption, Alone!ExitStatuses
  <2> QED BY <1>5, <1>12, <2>1, <2>5
<1>13. CASE RecordedNext /\ (PortEnds \/ SidecarStep)
  <2>1. UNCHANGED <<library_vars, calls>>
    BY <1>13 DEF PortEnds, SidecarStep
  <2>2. asked' = asked /\ Alone!NoteNews
    BY <1>13, <2>1 DEF RecordedNext
  <2>3. Alone!TransportInv'
    BY <2>1, <2>2, TheTransportRests
  <2> QED BY <1>5, <1>13, <2>1, <2>3
<1> QED
  BY <1>3, <1>7, <1>8, <1>9, <1>10, <1>11, <1>12, <1>13
  DEF RecordedNext, SessionNext, LibraryNext

\* In a session every call is completed once, by no line of the sidecar but the one that
\* names it, and the owner hears of the end once, after every call made by then: what the
\* transport promises against anything it keeps against this sidecar, whatever is pressed,
\* dropped, late or killed (fail_outstanding, deliver_response, deliver_ack, announce).
THEOREM SessionsAnswerOnce ==
  RecordedSpec => [](Alone!EachCallIsAnsweredOnce /\ Alone!TheNewsComesLast)
<1>1. RecordedInv => Alone!EachCallIsAnsweredOnce /\ Alone!TheNewsComesLast
  BY DEF RecordedInv, Alone!TransportInv
<1> QED BY <1>1, RecordedStarts, RecordedKeeps, PTL DEF RecordedSpec
=============================================================================
