--------------------------- MODULE LibraryProofs ---------------------------
(***************************************************************************)
(* What the library promises its callers.  Its transport answers every     *)
(* call once and tells its owner last, for any clients and calls, any      *)
(* frames from the far end and any cap: by induction on the steps.  And    *)
(* its grammar and the helper's agree on every params: a field at a time,  *)
(* in the order the helper reads them.                                     *)
(***************************************************************************)
EXTENDS TransportAlone, Requests, SequenceTheorems, TLAPS

PendingType == [id: Nat, from: Nat \cup {Absent}, kind: {"none", "hello", "action"}]
ControlType == [id: Nat, from: Nat]

\* What a call may be told other than its own answer, and the owner of the end.
Words == {"ok", "failed", "pending", "busy", "timeout", "control_queue_full",
          "control_unconfirmed", "sidecar_unavailable", "sidecar_exited",
          "request_too_large", "unknown_request_id", "handshake_refused",
          "stale_generation", "malformed_frame", "sidecar_response_too_large"}

Post == [kind: {"reply"}, to: Nat, what: Words \cup {"answered"}, id: Nat]
          \cup [kind: {"exit"}, what: Words]
          \cup {Told(f) : f \in {g \in Frames : g.type = "session_event"}}

WellFormed ==
  /\ phase \in {"handshake", "ready", "closed", "stopped"}
  /\ handshake \in {"pending", "ok", "failed"}
  /\ handshake_waiter \in {0, Absent}
  /\ pending_request \in PendingType
  /\ pending_request.kind = "none" <=> pending_request = None
  /\ pending_controls \in Seq(ControlType)
  /\ next_id \in Nat
  /\ asked \in Seq(Nat) /\ started \in BOOLEAN /\ open_at \in Nat
  /\ mail \in Seq(Post)

\* The hello in flight is the handshake, and start_link waits for no other.
TheHandshake ==
  /\ phase = "handshake" <=> Hello
  /\ handshake = "pending" <=> Hello
  /\ handshake_waiter = 0 <=> Hello /\ started
  /\ phase = "ready" => handshake = "ok"

InFlight(p) == p.from \in Calls /\ p.id = asked[p.from] /\ p.id < next_id

\* What is in flight is a call, under the id it was written with, and under no other's.
PendingAreCalls ==
  /\ pending_request.kind = "action" =>
       InFlight(pending_request) /\ pending_request.id \notin ControlIds
  /\ \A i \in DOMAIN pending_controls : InFlight(pending_controls[i])
  /\ \A i, j \in DOMAIN pending_controls :
       pending_controls[i].id = pending_controls[j].id => i = j

\* Who may be answered at all.
Callers == Calls \cup (IF started THEN {0} ELSE {})

RepliesAreToCallers == \A i \in DOMAIN mail : mail[i].kind = "reply" => mail[i].to \in Callers

\* The owner is told as the transport closes, and it does not open again.
NewsIsOfTheEnd == Exits # {} => Gone

TransportInv ==
  /\ WellFormed /\ TheHandshake /\ PendingAreCalls
  /\ RepliesAreToCallers /\ EachCallIsAnsweredOnce
  /\ NewsIsOfTheEnd /\ TheNewsComesLast

-----------------------------------------------------------------------------
(* What a step sends. *)

\* s answers each call of S once and no other, and a call's own reply is of its id.
Answers(s, S, ids) ==
  /\ \A i \in DOMAIN s : s[i].kind = "reply" =>
       s[i].to \in S /\ (s[i].what = "answered" => s[i].id = ids[s[i].to])
  /\ \A c \in S : \E i \in DOMAIN s : s[i].kind = "reply" /\ s[i].to = c
  /\ \A i, j \in DOMAIN s :
       s[i].kind = "reply" /\ s[j].kind = "reply" /\ s[i].to = s[j].to => i = j

\* A step that sends new answers the calls of S, each of which was waiting or has just
\* been made; whoever else was waiting, waits on.  If it brings the news, nobody does.
Sends(new, S) ==
  /\ new \in Seq(Post) /\ mail' = mail \o new
  /\ Answers(new, S, asked')
  /\ S \subseteq Callers' /\ Callers \subseteq Callers'
  /\ \A c \in S : c \notin Waiting' /\ (c \in Waiting \/ c \notin Callers)
  /\ \A c \in Callers' \ S : c \in Waiting' <=> (c \in Waiting \/ c \notin Callers)
  /\ Calls \subseteq Calls' /\ \A c \in Calls : asked'[c] = asked[c]
  /\ (Gone => Gone') /\ (handshake = "ok" => handshake' = "ok")
  /\ \/ \A i \in DOMAIN new : new[i].kind # "exit"
     \/ /\ phase = "ready" /\ Gone' /\ Calls' = Calls
        /\ Calls \cap Waiting \subseteq S
        /\ \A i \in DOMAIN new : new[i].kind = "exit" <=> i = Len(new)

LEMMA Joined ==
  ASSUME NEW s \in Seq(Post), NEW t \in Seq(Post)
  PROVE  /\ s \o t \in Seq(Post) /\ Len(s \o t) = Len(s) + Len(t)
         /\ DOMAIN s = 1 .. Len(s) /\ Len(s) \in Nat
         /\ DOMAIN t = 1 .. Len(t) /\ Len(t) \in Nat
         /\ DOMAIN (s \o t) = 1 .. Len(s) + Len(t)
         /\ \A i \in 1 .. Len(s) : (s \o t)[i] = s[i]
         /\ \A i \in 1 .. Len(t) : (s \o t)[Len(s) + i] = t[i]
         /\ \A i \in 1 .. Len(s) + Len(t) : i \notin 1 .. Len(s) => i - Len(s) \in 1 .. Len(t)
BY ConcatProperties, LenProperties

LEMMA JoinedAnswers ==
  ASSUME NEW s \in Seq(Post), NEW t \in Seq(Post), NEW S, NEW T, NEW ids,
         Answers(s, S, ids), Answers(t, T, ids), S \cap T = {}
  PROVE  Answers(s \o t, S \cup T, ids)
<1> DEFINE st == s \o t
<1>1. /\ DOMAIN s = 1 .. Len(s) /\ Len(s) \in Nat /\ DOMAIN t = 1 .. Len(t) /\ Len(t) \in Nat
      /\ DOMAIN st = 1 .. Len(s) + Len(t)
      /\ \A i \in 1 .. Len(s) : st[i] = s[i]
      /\ \A i \in 1 .. Len(t) : st[Len(s) + i] = t[i]
      /\ \A i \in 1 .. Len(s) + Len(t) : i \notin 1 .. Len(s) => i - Len(s) \in 1 .. Len(t)
  BY Joined
<1> HIDE DEF st
<1>2. ASSUME NEW i \in DOMAIN st
      PROVE  \/ i \in DOMAIN s /\ st[i] = s[i]
             \/ i - Len(s) \in DOMAIN t /\ st[i] = t[i - Len(s)]
  <2>1. CASE i \in 1 .. Len(s)
    BY <1>1, <2>1
  <2>2. CASE i \notin 1 .. Len(s)
    <3>1. i - Len(s) \in 1 .. Len(t) /\ i = Len(s) + (i - Len(s)) /\ i \in Nat
      BY <1>1, <2>2
    <3> QED BY <1>1, <3>1
  <2> QED BY <2>1, <2>2
<1>3. \A i \in DOMAIN st : st[i].kind = "reply" =>
        st[i].to \in S \cup T /\ (st[i].what = "answered" => st[i].id = ids[st[i].to])
  BY <1>2 DEF Answers
<1>4. ASSUME NEW c \in S \cup T
      PROVE  \E i \in DOMAIN st : st[i].kind = "reply" /\ st[i].to = c
  <2>1. CASE c \in S
    <3>1. PICK i \in DOMAIN s : s[i].kind = "reply" /\ s[i].to = c
      BY <2>1 DEF Answers
    <3>2. i \in DOMAIN st /\ st[i] = s[i]
      BY <1>1
    <3> QED BY <3>1, <3>2
  <2>2. CASE c \in T
    <3>1. PICK i \in DOMAIN t : t[i].kind = "reply" /\ t[i].to = c
      BY <2>2 DEF Answers
    <3>2. Len(s) + i \in DOMAIN st /\ st[Len(s) + i] = t[i]
      BY <1>1
    <3> QED BY <3>1, <3>2
  <2> QED BY <2>1, <2>2
<1>5. ASSUME NEW i \in DOMAIN st, NEW j \in DOMAIN st,
             st[i].kind = "reply", st[j].kind = "reply", st[i].to = st[j].to
      PROVE  i = j
  <2>1. CASE i \in DOMAIN s /\ st[i] = s[i]
    <3>1. st[i].to \in S
      BY <1>5, <2>1 DEF Answers
    <3>2. j \in DOMAIN s /\ st[j] = s[j]
      BY <1>2, <1>5, <3>1 DEF Answers
    <3> QED BY <1>5, <2>1, <3>2 DEF Answers
  <2>2. CASE i - Len(s) \in DOMAIN t /\ st[i] = t[i - Len(s)]
    <3>1. st[i].to \in T
      BY <1>5, <2>2 DEF Answers
    <3>2. j - Len(s) \in DOMAIN t /\ st[j] = t[j - Len(s)]
      BY <1>2, <1>5, <3>1 DEF Answers
    <3>3. i - Len(s) = j - Len(s)
      BY <1>5, <2>2, <3>2 DEF Answers
    <3> QED BY <1>1, <3>3
  <2> QED BY <1>2, <2>1, <2>2
<1> QED BY <1>3, <1>4, <1>5 DEF Answers, st

LEMMA JoinedHasNoNews ==
  ASSUME NEW s \in Seq(Post), NEW t \in Seq(Post),
         \A i \in DOMAIN s : s[i].kind # "exit", \A i \in DOMAIN t : t[i].kind # "exit"
  PROVE  \A i \in DOMAIN (s \o t) : (s \o t)[i].kind # "exit"
<1> SUFFICES ASSUME NEW i \in DOMAIN (s \o t) PROVE (s \o t)[i].kind # "exit"
  OBVIOUS
<1>1. CASE i \in 1 .. Len(s)
  BY <1>1, Joined
<1>2. CASE i \notin 1 .. Len(s)
  <2>1. i - Len(s) \in 1 .. Len(t) /\ i = Len(s) + (i - Len(s))
    BY <1>2, Joined
  <2> QED BY <2>1, Joined
<1> QED BY <1>1, <1>2

LEMMA SendsKeeps ==
  ASSUME TransportInv, TheHandshake', NEW new, NEW S, Sends(new, S),
         NoteNews \/ (UNCHANGED open_at /\ \A i \in DOMAIN new : new[i].kind # "exit")
  PROVE  RepliesAreToCallers' /\ EachCallIsAnsweredOnce' /\ NewsIsOfTheEnd' /\ TheNewsComesLast'
<1>1. /\ mail' = mail \o new /\ DOMAIN mail = 1 .. Len(mail) /\ Len(mail) \in Nat
      /\ DOMAIN new = 1 .. Len(new) /\ Len(new) \in Nat
      /\ DOMAIN mail' = 1 .. Len(mail) + Len(new)
      /\ \A i \in 1 .. Len(mail) : mail'[i] = mail[i]
      /\ \A i \in 1 .. Len(new) : mail'[Len(mail) + i] = new[i]
      /\ \A i \in 1 .. Len(mail) + Len(new) : i \notin 1 .. Len(mail) => i - Len(mail) \in 1 .. Len(new)
  BY Joined DEF Sends, TransportInv, WellFormed
<1>2. ASSUME NEW i \in DOMAIN mail'
      PROVE  \/ i \in DOMAIN mail /\ mail'[i] = mail[i]
             \/ i - Len(mail) \in DOMAIN new /\ mail'[i] = new[i - Len(mail)] /\ i > Len(mail)
  <2>1. CASE i \in 1 .. Len(mail)
    BY <1>1, <2>1
  <2>2. CASE i \notin 1 .. Len(mail)
    <3>1. i - Len(mail) \in 1 .. Len(new) /\ i = Len(mail) + (i - Len(mail)) /\ i \in Nat
      BY <1>1, <2>2
    <3> QED BY <1>1, <3>1
  <2> QED BY <2>1, <2>2
<1>3. RepliesAreToCallers'
  <2> SUFFICES ASSUME NEW i \in DOMAIN mail', mail'[i].kind = "reply"
               PROVE  mail'[i].to \in Callers'
    BY DEF RepliesAreToCallers
  <2>1. CASE i \in DOMAIN mail /\ mail'[i] = mail[i]
    BY <2>1 DEF TransportInv, RepliesAreToCallers, Sends
  <2>2. CASE i - Len(mail) \in DOMAIN new /\ mail'[i] = new[i - Len(mail)]
    BY <2>2 DEF Sends, Answers
  <2> QED BY <1>2, <2>1, <2>2
<1>4. EachCallIsAnsweredOnce'
  <2> SUFFICES ASSUME NEW call \in Callers'
               PROVE  IF call \in Waiting' THEN RepliesTo(call)' = {}
                      ELSE \E i \in DOMAIN mail' :
                             /\ RepliesTo(call)' = {i}
                             /\ call # 0 /\ mail'[i].what = "answered" => mail'[i].id = asked'[call]
    BY DEF EachCallIsAnsweredOnce, Callers, RepliesTo
  <2>1. CASE call \in S
    <3>1. call \notin Waiting' /\ RepliesTo(call) = {}
      <4>1. call \notin Waiting' /\ (call \in Waiting \/ call \notin Callers)
        BY <2>1 DEF Sends
      <4>2. CASE call \in Callers
        BY <4>1, <4>2 DEF TransportInv, EachCallIsAnsweredOnce, Callers
      <4>3. CASE call \notin Callers
        BY <4>1, <4>3 DEF TransportInv, RepliesAreToCallers, RepliesTo
      <4> QED BY <4>1, <4>2, <4>3
    <3>2. PICK k \in DOMAIN new : new[k].kind = "reply" /\ new[k].to = call
      BY <2>1 DEF Sends, Answers
    <3>3. Len(mail) + k \in DOMAIN mail' /\ mail'[Len(mail) + k] = new[k]
      BY <1>1
    <3>4. RepliesTo(call)' = {Len(mail) + k}
      <4>1. ASSUME NEW i \in DOMAIN mail', mail'[i].kind = "reply", mail'[i].to = call
            PROVE  i = Len(mail) + k
        <5>1. i \notin DOMAIN mail \/ mail'[i] # mail[i]
          BY <3>1, <4>1 DEF RepliesTo
        <5>2. i - Len(mail) \in DOMAIN new /\ mail'[i] = new[i - Len(mail)]
          BY <1>2, <5>1
        <5>3. i - Len(mail) = k
          BY <3>2, <4>1, <5>2 DEF Sends, Answers
        <5> QED BY <1>1, <5>3
      <4> QED BY <3>2, <3>3, <4>1 DEF RepliesTo
    <3>5. new[k].what = "answered" => new[k].id = asked'[call]
      BY <3>2 DEF Sends, Answers
    <3> QED BY <3>1, <3>3, <3>4, <3>5
  <2>2. CASE call \notin S
    <3>1. RepliesTo(call)' = RepliesTo(call)
      <4>1. ASSUME NEW i \in DOMAIN mail', mail'[i].kind = "reply", mail'[i].to = call
            PROVE  i \in DOMAIN mail /\ mail'[i] = mail[i]
        BY <1>2, <4>1, <2>2 DEF Sends, Answers
      <4>2. \A i \in DOMAIN mail : i \in DOMAIN mail' /\ mail'[i] = mail[i]
        BY <1>1
      <4> QED BY <4>1, <4>2 DEF RepliesTo
    <3>2. call \in Waiting' <=> (call \in Waiting \/ call \notin Callers)
      BY <2>2 DEF Sends
    <3>3. CASE call \notin Callers
      BY <3>1, <3>2, <3>3 DEF TransportInv, RepliesAreToCallers, RepliesTo
    <3>4. CASE call \in Callers /\ call \in Waiting
      BY <3>1, <3>2, <3>4 DEF TransportInv, EachCallIsAnsweredOnce, Callers
    <3>5. CASE call \in Callers /\ call \notin Waiting
      <4>1. PICK i \in DOMAIN mail :
              /\ RepliesTo(call) = {i}
              /\ call # 0 /\ mail[i].what = "answered" => mail[i].id = asked[call]
        BY <3>5 DEF TransportInv, EachCallIsAnsweredOnce, Callers
      <4>2. i \in DOMAIN mail' /\ mail'[i] = mail[i]
        BY <1>1
      <4>3. call # 0 => asked'[call] = asked[call]
        BY <3>5 DEF Sends, Callers
      <4> QED BY <3>1, <3>2, <3>5, <4>1, <4>2, <4>3
    <3> QED BY <3>3, <3>4, <3>5
  <2> QED BY <2>1, <2>2
<1>5. CASE \A i \in DOMAIN new : new[i].kind # "exit"
  <2>1. Exits' = Exits
    <3>1. ASSUME NEW i \in DOMAIN mail', mail'[i].kind = "exit"
          PROVE  i \in DOMAIN mail /\ mail'[i] = mail[i]
      BY <1>2, <1>5, <3>1
    <3>2. \A i \in DOMAIN mail : i \in DOMAIN mail' /\ mail'[i] = mail[i]
      BY <1>1
    <3> QED BY <3>1, <3>2 DEF Exits
  <2>2. open_at' = open_at
    BY <2>1 DEF NoteNews
  <2>3. NewsIsOfTheEnd'
    BY <2>1 DEF NewsIsOfTheEnd, TransportInv, Sends
  <2>4. TheNewsComesLast'
    <3>1. \A i, j \in Exits' : i = j
      BY <2>1 DEF TransportInv, TheNewsComesLast
    <3>2. ASSUME NEW i \in Exits'
          PROVE  /\ handshake' = "ok"
                 /\ \A call \in 1 .. open_at' : \E j \in 1 .. i - 1 :
                      mail'[j].kind = "reply" /\ mail'[j].to = call
      <4>1. i \in Exits /\ handshake = "ok" /\ i \in 1 .. Len(mail)
        BY <2>1, <1>1, <3>2 DEF TransportInv, TheNewsComesLast, Exits
      <4>2. \A call \in 1 .. open_at : \E j \in 1 .. i - 1 :
              mail[j].kind = "reply" /\ mail[j].to = call
        BY <4>1 DEF TransportInv, TheNewsComesLast
      <4>3. \A j \in 1 .. i - 1 : mail'[j] = mail[j]
        BY <4>1, <1>1
      <4> QED BY <4>1, <4>2, <4>3, <2>2 DEF Sends
    <3> QED BY <3>1, <3>2 DEF TheNewsComesLast
  <2> QED BY <1>3, <1>4, <2>3, <2>4
<1>6. CASE /\ phase = "ready" /\ Gone' /\ Calls' = Calls /\ Calls \cap Waiting \subseteq S
           /\ \A i \in DOMAIN new : new[i].kind = "exit" <=> i = Len(new)
  <2>1. Exits = {} /\ handshake = "ok" /\ handshake' = "ok"
    BY <1>6 DEF TransportInv, NewsIsOfTheEnd, Gone, TheHandshake, Sends
  <2>2. \A i \in Exits' : i = Len(mail) + Len(new)
    <3> SUFFICES ASSUME NEW i \in DOMAIN mail', mail'[i].kind = "exit"
                 PROVE  i = Len(mail) + Len(new)
      BY DEF Exits
    <3>1. i - Len(mail) \in DOMAIN new /\ mail'[i] = new[i - Len(mail)]
      BY <1>2, <2>1 DEF Exits
    <3>2. i - Len(mail) = Len(new)
      BY <1>6, <3>1
    <3> QED BY <1>1, <3>2
  <2>3. ASSUME NEW i \in Exits', NEW call \in 1 .. open_at'
        PROVE  \E j \in 1 .. i - 1 : mail'[j].kind = "reply" /\ mail'[j].to = call
    <3>1. open_at' = Len(asked) /\ call \in Calls
      <4>1. NoteNews \/ \A k \in DOMAIN new : new[k].kind # "exit"
        OBVIOUS
      <4>2. i - Len(mail) \in DOMAIN new /\ mail'[i] = new[i - Len(mail)]
        BY <1>2, <2>1, <2>3 DEF Exits
      <4>3. mail'[i].kind = "exit"
        BY <2>3 DEF Exits
      <4> QED BY <4>1, <4>2, <4>3, <2>1, <2>3 DEF NoteNews, Calls
    <3>2. i = Len(mail) + Len(new)
      BY <2>2, <2>3
    <3>3. CASE call \in Waiting
      <4>1. PICK k \in DOMAIN new : new[k].kind = "reply" /\ new[k].to = call
        BY <1>6, <3>1, <3>3 DEF Sends, Answers
      <4>2. k # Len(new)
        BY <1>6, <4>1
      <4>3. Len(mail) + k \in 1 .. i - 1 /\ mail'[Len(mail) + k] = new[k]
        BY <1>1, <3>2, <4>2
      <4> QED BY <4>1, <4>3
    <3>4. CASE call \notin Waiting
      <4>1. PICK j \in DOMAIN mail : RepliesTo(call) = {j}
        BY <3>1, <3>4 DEF TransportInv, EachCallIsAnsweredOnce
      <4>2. mail[j].kind = "reply" /\ mail[j].to = call
        BY <4>1 DEF RepliesTo
      <4>3. i - Len(mail) \in DOMAIN new
        BY <1>2, <2>1 DEF Exits
      <4>4. j \in 1 .. i - 1 /\ mail'[j] = mail[j]
        BY <1>1, <3>2, <4>3
      <4> QED BY <4>2, <4>4
    <3> QED BY <3>3, <3>4
  <2>4. NewsIsOfTheEnd' /\ TheNewsComesLast'
    <3>1. \A i, j \in Exits' : i = j
      BY <2>2
    <3> QED BY <1>6, <2>1, <2>3, <3>1 DEF NewsIsOfTheEnd, TheNewsComesLast
  <2> QED BY <1>3, <1>4, <2>4
<1> QED BY <1>5, <1>6 DEF Sends

-----------------------------------------------------------------------------
(* The controls in flight, and what their end is told. *)

\* Some of the controls in flight, each of them once.
Some(controls) ==
  /\ controls \in Seq(ControlType)
  /\ \A k \in DOMAIN controls : \E m \in DOMAIN pending_controls : controls[k] = pending_controls[m]
  /\ \A k, l \in DOMAIN controls : controls[k].id = controls[l].id => k = l

From(controls) == {controls[k].from : k \in DOMAIN controls}

\* Deleting one by its id leaves every other, each once.
LEMMA OtherControlsAre ==
  ASSUME TransportInv, NEW i \in DOMAIN pending_controls
  PROVE  LET others == OtherControls(pending_controls[i].id)
         IN  /\ Some(others)
             /\ From(others) = From(pending_controls) \ {pending_controls[i].from}
             /\ Len(others) < Len(pending_controls)
             /\ \A k \in DOMAIN others : others[k].id # pending_controls[i].id
<1> DEFINE n == Len(pending_controls)
           before == SubSeq(pending_controls, 1, i - 1)
           after == SubSeq(pending_controls, i + 1, n)
           others == OtherControls(pending_controls[i].id)
<1>1. /\ pending_controls \in Seq(ControlType) /\ n \in Nat /\ DOMAIN pending_controls = 1 .. n
      /\ \A k \in 1 .. n : pending_controls[k] \in ControlType
  BY LenProperties DEF TransportInv, WellFormed
<1>2. others = before \o after
  <2>1. \A j \in DOMAIN pending_controls : pending_controls[j].id = pending_controls[i].id => j = i
    BY DEF TransportInv, PendingAreCalls
  <2>2. i = CHOOSE j \in DOMAIN pending_controls : pending_controls[j].id = pending_controls[i].id
    BY <2>1
  <2> QED BY <2>2 DEF OtherControls
<1>3. /\ before \in Seq(ControlType) /\ Len(before) = i - 1
      /\ \A k \in 1 .. i - 1 : before[k] = pending_controls[k]
  <2>1. \A k \in 1 .. i - 1 : pending_controls[k] \in ControlType
    BY <1>1
  <2> QED BY <1>1, <2>1, SubSeqProperties, Z3
<1>4. /\ after \in Seq(ControlType) /\ Len(after) = n - i
      /\ \A k \in 1 .. n - i : after[k] = pending_controls[i + k]
  <2>1. \A k \in i + 1 .. n : pending_controls[k] \in ControlType
    BY <1>1
  <2>2. /\ after \in Seq(ControlType)
        /\ Len(after) = IF i + 1 <= n THEN n - (i + 1) + 1 ELSE 0
        /\ \A k \in 1 .. n - (i + 1) + 1 : after[k] = pending_controls[i + 1 + k - 1]
    <3>1. i + 1 \in Int /\ n \in Int
      BY <1>1
    <3> HIDE DEF n
    <3> QED BY <2>1, <3>1, SubSeqProperties
  <2>3. n \in Nat /\ i \in 1 .. n
    BY <1>1
  <2> HIDE DEF n, after
  <2>4. Len(after) = n - i
    BY <2>2, <2>3
  <2>5. ASSUME NEW k \in 1 .. n - i
        PROVE  k \in 1 .. n - (i + 1) + 1 /\ i + 1 + k - 1 = i + k
    BY <2>3
  <2> QED BY <2>2, <2>4, <2>5
<1> HIDE DEF before, after, others, n
<1>5. /\ others \in Seq(ControlType) /\ Len(others) = n - 1 /\ DOMAIN others = 1 .. n - 1
      /\ \A k \in 1 .. n - 1 : others[k] = IF k < i THEN pending_controls[k] ELSE pending_controls[k + 1]
  <2>1. /\ others \in Seq(ControlType) /\ Len(others) = Len(before) + Len(after)
        /\ \A k \in 1 .. Len(before) + Len(after) :
             others[k] = IF k <= Len(before) THEN before[k] ELSE after[k - Len(before)]
    BY <1>2, <1>3, <1>4, ConcatProperties
  <2>2. Len(others) = n - 1
    BY <1>1, <1>3, <1>4, <2>1
  <2>3. ASSUME NEW k \in 1 .. n - 1
        PROVE  others[k] = IF k < i THEN pending_controls[k] ELSE pending_controls[k + 1]
    <3>1. others[k] = IF k <= i - 1 THEN before[k] ELSE after[k - (i - 1)]
      BY <1>1, <1>3, <1>4, <2>1
    <3>2. CASE k < i
      BY <1>1, <1>3, <3>1, <3>2
    <3>3. CASE ~(k < i)
      <4>1. k - (i - 1) \in 1 .. n - i /\ i + (k - (i - 1)) = k + 1 /\ ~(k <= i - 1)
        BY <1>1, <3>3
      <4> QED BY <1>4, <3>1, <3>3, <4>1
    <3> QED BY <3>2, <3>3
  <2> QED BY <2>1, <2>2, <2>3, LenProperties
<1>6. \A k \in DOMAIN others : \E m \in DOMAIN pending_controls :
        /\ others[k] = pending_controls[m] /\ m = (IF k < i THEN k ELSE k + 1) /\ m # i
  BY <1>1, <1>5
<1>7. \A m \in DOMAIN pending_controls : m # i => \E k \in DOMAIN others : others[k] = pending_controls[m]
  <2> SUFFICES ASSUME NEW m \in DOMAIN pending_controls, m # i
               PROVE  \E k \in DOMAIN others : others[k] = pending_controls[m]
    OBVIOUS
  <2>1. CASE m < i
    BY <1>1, <1>5, <2>1
  <2>2. CASE m > i
    <3>1. m - 1 \in DOMAIN others /\ ~(m - 1 < i) /\ (m - 1) + 1 = m
      BY <1>1, <1>5, <2>2
    <3> QED BY <1>5, <3>1
  <2> QED BY <1>1, <2>1, <2>2
<1>8. \A k, l \in DOMAIN others : others[k].id = others[l].id => k = l
  <2> SUFFICES ASSUME NEW k \in DOMAIN others, NEW l \in DOMAIN others, others[k].id = others[l].id
               PROVE  k = l
    OBVIOUS
  <2>1. PICK m \in DOMAIN pending_controls :
          others[k] = pending_controls[m] /\ m = (IF k < i THEN k ELSE k + 1)
    BY <1>6
  <2>2. PICK p \in DOMAIN pending_controls :
          others[l] = pending_controls[p] /\ p = (IF l < i THEN l ELSE l + 1)
    BY <1>6
  <2>3. m = p
    BY <2>1, <2>2 DEF TransportInv, PendingAreCalls
  <2> QED BY <1>1, <1>5, <2>1, <2>2, <2>3
<1>9. \A k \in DOMAIN others : others[k].id # pending_controls[i].id
  BY <1>6 DEF TransportInv, PendingAreCalls
<1>10. From(others) = From(pending_controls) \ {pending_controls[i].from}
  <2>1. ASSUME NEW m \in DOMAIN pending_controls, m # i
        PROVE  pending_controls[m].from # pending_controls[i].from
    BY <2>1 DEF TransportInv, PendingAreCalls, InFlight
  <2> QED BY <1>6, <1>7, <2>1 DEF From
<1>11. Some(others)
  BY <1>5, <1>6, <1>8 DEF Some
<1>12. Len(others) < Len(pending_controls)
  BY <1>1, <1>5 DEF n
<1> QED BY <1>9, <1>10, <1>11, <1>12 DEF others

LEMMA AllControls ==
  ASSUME TransportInv
  PROVE  Some(pending_controls)
BY DEF TransportInv, WellFormed, PendingAreCalls, Some

\* Whom fail_outstanding tells when it is given these controls.
Owed(controls) ==
  ({IF Hello THEN handshake_waiter ELSE pending_request.from} \ {Absent}) \cup From(controls)

LEMMA SomeWords ==
  /\ "answered" \notin Words /\ {"ok", "failed"} \subseteq Words
  /\ {"busy", "timeout", "control_queue_full", "control_unconfirmed"} \subseteq Words
  /\ {"sidecar_unavailable", "sidecar_exited", "request_too_large"} \subseteq Words
  /\ {"unknown_request_id", "handshake_refused", "stale_generation"} \subseteq Words
  /\ {"malformed_frame", "sidecar_response_too_large"} \subseteq Words
BY DEF Words

LEMMA PostsAre ==
  /\ \A from \in Nat, what \in Words \cup {"answered"}, id \in Nat : Reply(from, what, id) \in Post
  /\ \A from \in Nat, what \in Words : Failed(from, what) \in Post
  /\ \A what \in Words : News(what) \in Post
  /\ \A from, what, id : /\ Reply(from, what, id).kind = "reply" /\ Reply(from, what, id).to = from
                         /\ Reply(from, what, id).what = what /\ Reply(from, what, id).id = id
  /\ \A from, what : /\ Failed(from, what).kind = "reply" /\ Failed(from, what).to = from
                     /\ Failed(from, what).what = what
  /\ \A what : News(what).kind = "exit"
BY DEF Reply, Failed, News, Post, ForeignId

\* Those waiting, and those told by fail_outstanding, are the same.
LEMMA TheOutstanding ==
  ASSUME TransportInv
  PROVE  /\ Owed(pending_controls) = Waiting \ {Absent}
         /\ Waiting \ {Absent} \subseteq Callers
         /\ Absent \notin Callers
         /\ \A i \in DOMAIN pending_controls : pending_controls[i].from \in Waiting
<1>1. handshake_waiter # Absent => handshake_waiter = 0 /\ Hello /\ started
  BY DEF TransportInv, WellFormed, TheHandshake
<1>2. pending_request.kind = "action" => pending_request.from \in Calls
  BY DEF TransportInv, PendingAreCalls, InFlight
<1>3. \A i \in DOMAIN pending_controls : pending_controls[i].from \in Calls
  BY DEF TransportInv, PendingAreCalls, InFlight
<1>4. pending_request.kind \in {"none", "hello", "action"}
      /\ (pending_request.kind = "none" => pending_request.from = Absent)
  BY DEF TransportInv, WellFormed, PendingType, None
<1>5. Absent \notin Callers
  BY TransportAssumption DEF Callers, Calls
<1>6. \A c : c \in Waiting <=> \/ pending_request.kind = "action" /\ c = pending_request.from
                              \/ c \in From(pending_controls)
                              \/ c = handshake_waiter
  BY DEF Waiting, From
<1>7. From(pending_controls) \subseteq Callers
  BY <1>3 DEF From, Callers
<1>8. Waiting \ {Absent} \subseteq Callers
  BY <1>1, <1>2, <1>6, <1>7 DEF Callers
<1>9. ~Hello => handshake_waiter = Absent
  BY <1>1
<1>10. Owed(pending_controls) = Waiting \ {Absent}
  BY <1>2, <1>4, <1>5, <1>6, <1>7, <1>9 DEF Owed, Hello, Callers
<1> QED BY <1>5, <1>6, <1>8, <1>10 DEF From

\* fail_outstanding tells each of them once.
LEMMA OutstandingAnswers ==
  ASSUME TransportInv, NEW controls, Some(controls), NEW what \in Words, NEW ids
  PROVE  /\ Outstanding(controls, what) \in Seq(Post)
         /\ Answers(Outstanding(controls, what), Owed(controls), ids)
         /\ \A i \in DOMAIN Outstanding(controls, what) : Outstanding(controls, what)[i].kind # "exit"
<1> DEFINE to == IF Hello THEN handshake_waiter ELSE pending_request.from
           first == IF to = Absent THEN <<>> ELSE <<Failed(to, what)>>
           rest == [i \in DOMAIN controls |-> Failed(controls[i].from, what)]
<1>1. /\ controls \in Seq(ControlType) /\ DOMAIN controls = 1 .. Len(controls) /\ Len(controls) \in Nat
      /\ \A i \in DOMAIN controls : controls[i] \in ControlType
  BY LenProperties DEF Some
<1>2. to = Absent \/ to \in Nat
  BY DEF TransportInv, WellFormed, PendingType
<1> HIDE DEF to
<1>3. /\ first \in Seq(Post) /\ Answers(first, {to} \ {Absent}, ids)
      /\ \A i \in DOMAIN first : first[i].kind # "exit"
  <2>1. CASE to = Absent
    BY <2>1 DEF Answers
  <2>2. CASE to # Absent
    <3>1. first = <<Failed(to, what)>> /\ Failed(to, what) \in Post
      BY <1>2, <2>2, PostsAre
    <3>2. first \in Seq(Post) /\ DOMAIN first = {1} /\ first[1] = Failed(to, what)
      BY <3>1
    <3> QED BY <2>2, <3>2, PostsAre, SomeWords DEF Answers
  <2> QED BY <2>1, <2>2
<1>4. /\ rest \in Seq(Post) /\ Answers(rest, From(controls), ids)
      /\ \A i \in DOMAIN rest : rest[i].kind # "exit"
  <2>1. \A i \in DOMAIN controls : Failed(controls[i].from, what) \in Post
    BY <1>1, PostsAre DEF ControlType
  <2>2. rest \in Seq(Post)
    BY <1>1, <2>1
  <2>3. DOMAIN rest = DOMAIN controls /\ \A i \in DOMAIN controls :
          rest[i].kind = "reply" /\ rest[i].to = controls[i].from /\ rest[i].what = what
    BY PostsAre
  <2> HIDE DEF rest
  <2>4. \A i, j \in DOMAIN controls : controls[i].from = controls[j].from => i = j
    BY DEF Some, TransportInv, PendingAreCalls, InFlight
  <2> QED BY <2>2, <2>3, <2>4, SomeWords DEF Answers, From
<1>5. ({to} \ {Absent}) \cap From(controls) = {}
  <2> SUFFICES ASSUME NEW k \in DOMAIN controls, to # Absent, controls[k].from = to PROVE FALSE
    BY DEF From
  <2>1. PICK m \in DOMAIN pending_controls : controls[k] = pending_controls[m]
    BY DEF Some
  <2>2. to \in Calls /\ pending_controls[m].id = asked[to]
    BY <2>1 DEF TransportInv, PendingAreCalls, InFlight
  <2>3. CASE Hello
    BY <2>2, <2>3 DEF to, TransportInv, WellFormed, Calls
  <2>4. CASE ~Hello
    <3>1. pending_request.kind = "action"
      BY <2>4 DEF to, Hello, TransportInv, WellFormed, PendingType, None
    <3>2. pending_request.id = asked[to] /\ pending_request.id \notin ControlIds
      BY <2>4, <3>1 DEF to, TransportInv, PendingAreCalls, InFlight
    <3> QED BY <2>2, <3>2 DEF ControlIds
  <2> QED BY <2>3, <2>4
<1>6. Outstanding(controls, what) = first \o rest
  BY DEF Outstanding, to
<1>7. Owed(controls) = ({to} \ {Absent}) \cup From(controls)
  BY DEF Owed, to
<1> HIDE DEF first, rest
<1>8. /\ Answers(first \o rest, ({to} \ {Absent}) \cup From(controls), ids)
      /\ first \o rest \in Seq(Post)
  BY <1>3, <1>4, <1>5, JoinedAnswers, Joined
<1>9. \A i \in DOMAIN (first \o rest) : (first \o rest)[i].kind # "exit"
  BY <1>3, <1>4, JoinedHasNoNews
<1> QED BY <1>6, <1>7, <1>8, <1>9

-----------------------------------------------------------------------------
(* The calls a step makes, and the steps by what they do. *)

\* The calls of N are made, and no other.
Makes(N) ==
  /\ N \subseteq Nat /\ N \cap Callers = {}
  /\ asked' \in Seq(Nat)
  /\ Calls' = Calls \cup (N \ {0}) /\ \A c \in Calls : asked'[c] = asked[c]
  /\ started' = (started \/ 0 \in N)

LEMMA MakesNone ==
  ASSUME TransportInv, UNCHANGED <<asked, started>>
  PROVE  Makes({})
BY DEF TransportInv, WellFormed, Makes, Calls, Callers

LEMMA MakesOne ==
  ASSUME TransportInv, asked' = Append(asked, next_id), UNCHANGED started
  PROVE  Makes({Len(asked) + 1}) /\ asked'[Len(asked) + 1] = next_id
<1>1. asked \in Seq(Nat) /\ next_id \in Nat /\ Len(asked) \in Nat /\ started \in BOOLEAN
  BY LenProperties DEF TransportInv, WellFormed
<1>2. /\ asked' \in Seq(Nat) /\ Len(asked') = Len(asked) + 1
      /\ \A c \in 1 .. Len(asked) : asked'[c] = asked[c]
      /\ asked'[Len(asked) + 1] = next_id
  BY <1>1, AppendProperties
<1>3. Calls' = Calls \cup {Len(asked) + 1}
  BY <1>1, <1>2 DEF Calls
<1>4. Len(asked) + 1 \notin Callers
  BY <1>1 DEF Callers, Calls
<1> QED BY <1>1, <1>2, <1>3, <1>4 DEF Makes, Calls

LEMMA MakesTheLink ==
  ASSUME TransportInv, ~started, started' = TRUE, UNCHANGED asked
  PROVE  Makes({0})
<1>1. 0 \notin Callers
  BY DEF Callers, Calls
<1>2. started' = (started \/ 0 \in {0})
  OBVIOUS
<1> QED BY <1>1, <1>2 DEF Makes, TransportInv, WellFormed, Calls

LEMMA CallersGrow ==
  ASSUME TransportInv, NEW N, Makes(N)
  PROVE  Callers' = Callers \cup N /\ started' \in BOOLEAN
BY DEF Makes, Callers, Calls, TransportInv, WellFormed

LEMMA NotedInNat ==
  ASSUME TransportInv, NoteNews \/ UNCHANGED open_at
  PROVE  open_at' \in Nat
BY LenProperties DEF TransportInv, WellFormed, NoteNews

\* What is in flight stays a call when calls are made.
LEMMA CallStays ==
  ASSUME NEW N, Makes(N), next_id \in Nat, next_id' \in {next_id, next_id + 1},
         NEW c \in Calls, NEW id \in Nat, id = asked[c], id < next_id
  PROVE  c \in Calls' /\ id = asked'[c] /\ id < next_id'
<1>1. c \in Calls' /\ id = asked'[c]
  BY DEF Makes
<1>2. id < next_id'
  OBVIOUS
<1> QED BY <1>1, <1>2

LEMMA PendingStays ==
  ASSUME TransportInv, NEW N, Makes(N), next_id' \in {next_id, next_id + 1}, UNCHANGED pending
  PROVE  PendingAreCalls'
<1>1. UNCHANGED <<pending_request, pending_controls>>
  BY DEF pending
<1>2. pending_request.id \in Nat /\ \A i \in DOMAIN pending_controls : pending_controls[i].id \in Nat
  <2>1. pending_request \in PendingType /\ pending_controls \in Seq(ControlType)
    BY DEF TransportInv, WellFormed
  <2>2. \A i \in DOMAIN pending_controls : pending_controls[i] \in ControlType
    BY <2>1, LenProperties
  <2> QED BY <2>1, <2>2 DEF PendingType, ControlType
<1>3. pending_request.kind = "action" => InFlight(pending_request)'
  <2> SUFFICES ASSUME pending_request.kind = "action" PROVE InFlight(pending_request)'
    OBVIOUS
  <2>1. InFlight(pending_request)
    BY DEF TransportInv, PendingAreCalls
  <2> QED BY <1>1, <1>2, <2>1 DEF InFlight, Makes, TransportInv, WellFormed
<1>4. \A i \in DOMAIN pending_controls : InFlight(pending_controls[i])'
  <2> SUFFICES ASSUME NEW i \in DOMAIN pending_controls PROVE InFlight(pending_controls[i])'
    OBVIOUS
  <2>1. InFlight(pending_controls[i])
    BY DEF TransportInv, PendingAreCalls
  <2> QED BY <1>1, <1>2, <2>1 DEF InFlight, Makes, TransportInv, WellFormed
<1>5. ControlIds' = ControlIds
  BY <1>1 DEF ControlIds
<1>6. \A i \in DOMAIN pending_controls' : InFlight(pending_controls[i])'
  BY <1>1, <1>4
<1>7. \A i, j \in DOMAIN pending_controls' :
        pending_controls'[i].id = pending_controls'[j].id => i = j
  BY <1>1 DEF TransportInv, PendingAreCalls
<1>8. pending_request'.kind = "action" => InFlight(pending_request)' /\ pending_request'.id \notin ControlIds'
  BY <1>1, <1>3, <1>5 DEF TransportInv, PendingAreCalls
<1> QED BY <1>6, <1>7, <1>8 DEF PendingAreCalls, InFlight

\* A step that tells nobody, and makes no call.
LEMMA QuietSteps ==
  ASSUME TransportInv, phase' = phase \/ (phase' = "stopped" /\ ~Hello),
         UNCHANGED <<handshake, handshake_waiter, pending, next_id, mail, asked, started>>,
         NoteNews \/ UNCHANGED open_at
  PROVE  TransportInv'
<1>1. Makes({})
  BY MakesNone
<1>2. UNCHANGED <<pending_request, pending_controls>>
  BY DEF pending
<1>3. PendingAreCalls'
  BY <1>1, PendingStays DEF TransportInv, WellFormed
<1>4. WellFormed' /\ TheHandshake'
  BY <1>2, NotedInNat DEF TransportInv, WellFormed, TheHandshake, Hello
<1>5. Sends(<<>>, {})
  <2>1. mail' = mail \o <<>>
    BY ConcatEmptySeq DEF TransportInv, WellFormed
  <2>2. Waiting' = Waiting /\ Callers' = Callers /\ Calls' = Calls
    BY <1>2 DEF Waiting, Callers, Calls
  <2>3. Waiting \ {Absent} \subseteq Callers
    BY TheOutstanding
  <2> QED BY <2>1, <2>2, <2>3 DEF Sends, Answers, Gone
<1>6. NoteNews \/ (UNCHANGED open_at /\ \A i \in DOMAIN <<>> : <<>>[i].kind # "exit")
  OBVIOUS
<1> QED BY <1>3, <1>4, <1>5, <1>6, SendsKeeps DEF TransportInv

\* A call answered on the spot.
LEMMA AnswerSteps ==
  ASSUME TransportInv, NEW from \in Nat, Makes({from}), NEW what \in Words,
         mail' = Append(mail, Failed(from, what)), phase' = phase \/ (phase' = "stopped" /\ ~Hello),
         UNCHANGED <<handshake, handshake_waiter, pending, next_id>>, from = 0 => ~Hello, NoteNews \/ UNCHANGED open_at
  PROVE  TransportInv'
<1> DEFINE new == <<Failed(from, what)>>
<1>1. UNCHANGED <<handshake, handshake_waiter, pending_request, pending_controls, next_id>>
  BY DEF pending
<1>2. /\ new \in Seq(Post) /\ DOMAIN new = {1} /\ new[1] = Failed(from, what)
      /\ Failed(from, what) \in Post
  BY PostsAre
<1> HIDE DEF new
<1>3. mail' = mail \o new /\ mail' \in Seq(Post)
  <2>1. mail \in Seq(Post)
    BY DEF TransportInv, WellFormed
  <2>2. Append(mail, Failed(from, what)) = mail \o new
    BY <2>1, <1>2, AppendIsConcat DEF new
  <2> QED BY <1>1, <1>2, <2>1, <2>2, Joined
<1>4. PendingAreCalls'
  BY <1>1, PendingStays DEF TransportInv, WellFormed
<1>5. started' = (started \/ from = 0) /\ started' \in BOOLEAN
  BY CallersGrow DEF Makes
<1>6. TheHandshake'
  BY <1>1, <1>5 DEF TransportInv, WellFormed, TheHandshake, Hello
<1>7. WellFormed'
  BY <1>1, <1>3, <1>5, NotedInNat DEF TransportInv, WellFormed, Makes
<1>8. Answers(new, {from}, asked')
  BY <1>2, PostsAre, SomeWords DEF Answers
<1>9. Sends(new, {from})
  <2>1. Waiting' = Waiting
    BY <1>1 DEF Waiting
  <2>2. Callers' = Callers \cup {from} /\ from \notin Callers
    BY CallersGrow DEF Makes
  <2>3. Waiting \ {Absent} \subseteq Callers /\ from # Absent
    BY TheOutstanding, TransportAssumption
  <2>4. \A c \in Callers' \ {from} : c \in Waiting' <=> (c \in Waiting \/ c \notin Callers)
    BY <2>1, <2>2
  <2>5. \A i \in DOMAIN new : new[i].kind # "exit"
    BY <1>2, PostsAre
  <2>6. Calls \subseteq Calls' /\ \A c \in Calls : asked'[c] = asked[c]
    BY DEF Makes
  <2>7. (Gone => Gone') /\ (handshake = "ok" => handshake' = "ok")
    BY <1>1 DEF Gone
  <2> QED BY <1>2, <1>3, <1>8, <2>1, <2>2, <2>3, <2>4, <2>5, <2>6, <2>7 DEF Sends
<1>10. \A i \in DOMAIN new : new[i].kind # "exit"
  BY <1>2, PostsAre
<1> QED BY <1>4, <1>6, <1>7, <1>9, <1>10, SendsKeeps DEF TransportInv

\* The end: nothing is in flight any more, and whoever waited or has just called is
\* told once, before the owner is.
Ends ==
  /\ phase' \in {"closed", "stopped"}
  /\ pending_request' = None /\ pending_controls' = <<>>
  /\ handshake' = (IF Hello THEN "failed" ELSE handshake)
  /\ handshake_waiter' = (IF Hello THEN Absent ELSE handshake_waiter)
  /\ UNCHANGED next_id

LEMMA Tells ==
  ASSUME TransportInv, Ends, NEW N, Makes(N), 0 \notin N, NoteNews,
         NEW new \in Seq(Post), mail' = mail \o new,
         Answers(new, (Waiting \ {Absent}) \cup N, asked'),
         \/ \A i \in DOMAIN new : new[i].kind # "exit"
         \/ phase = "ready" /\ N = {} /\ \A i \in DOMAIN new : new[i].kind = "exit" <=> i = Len(new)
  PROVE  TransportInv'
<1> DEFINE S == (Waiting \ {Absent}) \cup N
<1>1. handshake_waiter' = Absent
  BY DEF Ends, TransportInv, WellFormed, TheHandshake
<1>2. Waiting' = {Absent}
  <2>1. pending_request'.kind # "action" /\ DOMAIN pending_controls' = {}
    BY DEF Ends, None
  <2> QED BY <1>1, <2>1 DEF Waiting
<1>3. Gone' /\ ~Hello' /\ started' = started
  BY DEF Ends, Gone, Hello, None, Makes, TransportInv, WellFormed
<1>4. handshake' # "pending" /\ handshake' \in {"ok", "failed"} /\ (handshake = "ok" => handshake' = "ok")
  BY DEF Ends, TransportInv, WellFormed, TheHandshake
<1>5. TheHandshake'
  <2>1. handshake_waiter' # 0
    BY <1>1, TransportAssumption
  <2> QED BY <1>3, <1>4, <2>1 DEF TheHandshake, Ends
<1>6. PendingAreCalls'
  BY DEF Ends, None, PendingAreCalls
<1>7. WellFormed'
  <2>1. mail' \in Seq(Post)
    BY Joined DEF TransportInv, WellFormed
  <2>2. pending_request' \in PendingType /\ pending_request'.kind = "none"
    BY DEF Ends, None, PendingType, ForeignId
  <2>3. pending_controls' \in Seq(ControlType)
    BY DEF Ends
  <2>4. started' \in BOOLEAN /\ asked' \in Seq(Nat) /\ next_id' \in Nat /\ open_at' \in Nat
    BY CallersGrow, NotedInNat DEF Makes, Ends, TransportInv, WellFormed
  <2> QED BY <1>1, <1>4, <2>1, <2>2, <2>3, <2>4 DEF WellFormed, Ends
<1>8. Sends(new, S)
  <2>1. Callers' = Callers \cup N /\ N \cap Callers = {} /\ N \subseteq Nat
    BY CallersGrow DEF Makes
  <2>2. Waiting \ {Absent} \subseteq Callers /\ Absent \notin Callers
    BY TheOutstanding
  <2>3. Absent \notin N
    BY <2>1, TransportAssumption
  <2>4. S \subseteq Callers' /\ Callers \subseteq Callers'
    BY <2>1, <2>2
  <2>5. \A c \in S : c \notin Waiting' /\ (c \in Waiting \/ c \notin Callers)
    BY <1>2, <2>1, <2>3
  <2>6. \A c \in Callers' \ S : c \in Waiting' <=> (c \in Waiting \/ c \notin Callers)
    BY <1>2, <2>1, <2>2, <2>3
  <2>7. Calls \subseteq Calls' /\ (\A c \in Calls : asked'[c] = asked[c]) /\ (N = {} => Calls' = Calls)
    BY DEF Makes
  <2>8. Calls \cap Waiting \subseteq S
    BY <2>2 DEF Callers
  <2> QED BY <1>3, <1>4, <2>4, <2>5, <2>6, <2>7, <2>8 DEF Sends
<1> QED BY <1>5, <1>6, <1>7, <1>8, SendsKeeps DEF TransportInv

TellsAll(controls, what, before, after) ==
  mail' = mail \o before \o Outstanding(controls, what) \o after

LEMMA EndSteps ==
  ASSUME TransportInv, Ends, NEW N, Makes(N), 0 \notin N, NoteNews,
         NEW controls, Some(controls), NEW what \in Words,
         NEW before \in Seq(Post), NEW B, Answers(before, B, asked'),
         NEW after \in Seq(Post), NEW A, Answers(after, A, asked'),
         TellsAll(controls, what, before, after),
         B \cap Owed(controls) = {}, A \cap (B \cup Owed(controls)) = {},
         (B \cup Owed(controls)) \cup A = (Waiting \ {Absent}) \cup N,
         \A i \in DOMAIN before : before[i].kind # "exit",
         \/ \A i \in DOMAIN after : after[i].kind # "exit"
         \/ phase = "ready" /\ N = {} /\ after = <<News(what)>>
  PROVE  TransportInv'
<1> DEFINE rest == Outstanding(controls, what)
           told == before \o rest
           new == told \o after
<1>1. /\ rest \in Seq(Post) /\ Answers(rest, Owed(controls), asked')
      /\ \A i \in DOMAIN rest : rest[i].kind # "exit"
  BY OutstandingAnswers
<1> HIDE DEF rest
<1>2. told \in Seq(Post) /\ Answers(told, B \cup Owed(controls), asked')
  BY <1>1, Joined, JoinedAnswers
<1>3. \A i \in DOMAIN told : told[i].kind # "exit"
  BY <1>1, JoinedHasNoNews
<1>4. mail' = mail \o new
  <2>1. mail \in Seq(Post)
    BY DEF TransportInv, WellFormed
  <2>2. (mail \o before) \o rest = mail \o (before \o rest)
    <3>1. rest \in Seq(Post) /\ before \in Seq(Post)
      BY <1>1
    <3> HIDE DEF told
    <3> QED BY <2>1, <3>1, ConcatAssociative
  <2> HIDE DEF told
  <2>3. (mail \o told) \o after = mail \o (told \o after)
    BY <1>2, <2>1, ConcatAssociative
  <2> QED BY <2>2, <2>3 DEF rest, told, TellsAll
<1> HIDE DEF told
<1>5. new \in Seq(Post) /\ Answers(new, (Waiting \ {Absent}) \cup N, asked')
  <2>1. (B \cup Owed(controls)) \cap A = {}
    OBVIOUS
  <2>2. Answers(new, (B \cup Owed(controls)) \cup A, asked')
    BY <1>2, <2>1, JoinedAnswers
  <2>3. new \in Seq(Post)
    BY <1>2, Joined
  <2> QED BY <2>2, <2>3
<1>6. CASE \A i \in DOMAIN after : after[i].kind # "exit"
  <2>1. \A i \in DOMAIN new : new[i].kind # "exit"
    BY <1>2, <1>3, <1>6, JoinedHasNoNews
  <2> QED BY <1>4, <1>5, <2>1, Tells
<1>7. CASE phase = "ready" /\ N = {} /\ after = <<News(what)>>
  <2>1. DOMAIN after = {1} /\ Len(after) = 1 /\ after[1].kind = "exit"
    BY <1>7, PostsAre
  <2>2. /\ DOMAIN new = 1 .. Len(told) + 1 /\ Len(new) = Len(told) + 1 /\ Len(told) \in Nat
        /\ \A i \in 1 .. Len(told) : i \in DOMAIN told /\ new[i] = told[i]
        /\ new[Len(told) + 1] = after[1]
    <3>1. /\ Len(new) = Len(told) + Len(after) /\ Len(told) \in Nat /\ DOMAIN told = 1 .. Len(told)
          /\ DOMAIN new = 1 .. Len(told) + Len(after)
          /\ \A i \in 1 .. Len(told) : new[i] = told[i]
          /\ \A i \in 1 .. Len(after) : new[Len(told) + i] = after[i]
      BY <1>2, Joined
    <3> QED BY <2>1, <3>1
  <2> HIDE DEF new
  <2>3. \A i \in DOMAIN new : new[i].kind = "exit" <=> i = Len(new)
    <3> SUFFICES ASSUME NEW i \in DOMAIN new PROVE new[i].kind = "exit" <=> i = Len(new)
      OBVIOUS
    <3>1. CASE i = Len(told) + 1
      BY <2>1, <2>2, <3>1
    <3>2. CASE i \in 1 .. Len(told)
      BY <1>3, <2>2, <3>2
    <3> QED BY <2>2, <3>1, <3>2
  <2> QED BY <1>4, <1>5, <1>7, <2>3, Tells
<1> QED BY <1>6, <1>7

LEMMA NobodyTold ==
  ASSUME NEW ids
  PROVE  <<>> \in Seq(Post) /\ Answers(<<>>, {}, ids) /\ \A i \in DOMAIN <<>> : <<>>[i].kind # "exit"
BY DEF Answers

LEMMA OneTold ==
  ASSUME NEW from \in Nat, NEW what \in Words, NEW ids
  PROVE  LET s == <<Failed(from, what)>>
         IN  s \in Seq(Post) /\ Answers(s, {from}, ids) /\ \A i \in DOMAIN s : s[i].kind # "exit"
<1> DEFINE s == <<Failed(from, what)>>
<1>1. s \in Seq(Post) /\ DOMAIN s = {1} /\ s[1] = Failed(from, what)
  BY PostsAre
<1> HIDE DEF s
<1>2. Answers(s, {from}, ids) /\ \A i \in DOMAIN s : s[i].kind # "exit"
  BY <1>1, PostsAre, SomeWords DEF Answers
<1> QED BY <1>1, <1>2 DEF s

LEMMA NewsTold ==
  ASSUME NEW what \in Words, NEW ids
  PROVE  <<News(what)>> \in Seq(Post) /\ Answers(<<News(what)>>, {}, ids)
<1> DEFINE s == <<News(what)>>
<1>1. s \in Seq(Post) /\ DOMAIN s = {1} /\ s[1] = News(what)
  BY PostsAre
<1> HIDE DEF s
<1>2. Answers(s, {}, ids)
  BY <1>1, PostsAre DEF Answers
<1> QED BY <1>1, <1>2 DEF s

LEMMA ClosedEnds ==
  ASSUME NEW controls, NEW what, NEW before, NEW after, Closed(controls, what, before, after)
  PROVE  Ends /\ TellsAll(controls, what, before, after)
BY DEF Closed, Ends, TellsAll

\* poison, the sidecar's exit and an unconfirmed barrier: the owner hears last.
LEMMA AnnounceSteps ==
  ASSUME TransportInv, UNCHANGED <<asked, started>>, NoteNews, NEW what \in Words,
         Announce(pending_controls, what, <<>>)
  PROVE  TransportInv'
<1>1. Makes({}) /\ Some(pending_controls) /\ Owed(pending_controls) = Waiting \ {Absent}
  BY MakesNone, AllControls, TheOutstanding
<1>2. CASE phase = "ready"
  <2>1. Closed(pending_controls, what, <<>>, <<News(what)>>)
    BY <1>2 DEF Announce
  <2>2. Ends /\ TellsAll(pending_controls, what, <<>>, <<News(what)>>)
    BY <2>1, ClosedEnds
  <2>3. /\ {} \cap Owed(pending_controls) = {} /\ {} \cap ({} \cup Owed(pending_controls)) = {}
        /\ ({} \cup Owed(pending_controls)) \cup {} = (Waiting \ {Absent}) \cup {}
    BY <1>1
  <2> QED BY <1>1, <1>2, <2>2, <2>3, NobodyTold, NewsTold, EndSteps
<1>3. CASE phase # "ready"
  <2>1. Closed(pending_controls, what, <<>>, <<>>)
    BY <1>3 DEF Announce
  <2>2. Ends /\ TellsAll(pending_controls, what, <<>>, <<>>)
    BY <2>1, ClosedEnds
  <2>3. /\ {} \cap Owed(pending_controls) = {} /\ {} \cap ({} \cup Owed(pending_controls)) = {}
        /\ ({} \cup Owed(pending_controls)) \cup {} = (Waiting \ {Absent}) \cup {}
    BY <1>1
  <2> QED BY <1>1, <2>2, <2>3, NobodyTold, EndSteps
<1> QED BY <1>2, <1>3

\* A step that tells nobody, and has the calls it makes wait.
LEMMA WaitingSteps ==
  ASSUME TransportInv, NEW N, Makes(N), UNCHANGED mail,
         Waiting' \ {Absent} = (Waiting \ {Absent}) \cup N,
         WellFormed', TheHandshake', PendingAreCalls',
         Gone => Gone', handshake = "ok" => handshake' = "ok",
         NoteNews \/ UNCHANGED open_at
  PROVE  TransportInv'
<1>1. mail' = mail \o <<>>
  BY ConcatEmptySeq DEF TransportInv, WellFormed
<1>2. Callers' = Callers \cup N /\ N \cap Callers = {} /\ Absent \notin N
  BY CallersGrow, TransportAssumption DEF Makes
<1>3. Waiting \ {Absent} \subseteq Callers /\ Absent \notin Callers
  BY TheOutstanding
<1>4. \A c \in Callers' : c \in Waiting' <=> (c \in Waiting \/ c \notin Callers)
  <2> SUFFICES ASSUME NEW c \in Callers' PROVE c \in Waiting' <=> (c \in Waiting \/ c \notin Callers)
    OBVIOUS
  <2>1. c # Absent
    BY <1>2, <1>3
  <2> QED BY <1>2, <1>3, <2>1
<1>5. Calls \subseteq Calls' /\ \A c \in Calls : asked'[c] = asked[c]
  BY DEF Makes
<1>6. Sends(<<>>, {})
  BY <1>1, <1>2, <1>4, <1>5, NobodyTold DEF Sends
<1>7. NoteNews \/ (UNCHANGED open_at /\ \A i \in DOMAIN <<>> : <<>>[i].kind # "exit")
  OBVIOUS
<1> QED BY <1>6, <1>7, SendsKeeps DEF TransportInv

\* A step that answers one of those waiting.
LEMMA CompletingSteps ==
  ASSUME TransportInv, UNCHANGED <<asked, started>>,
         NEW post \in Post, post.kind = "reply", post.to \in Waiting \ {Absent},
         post.what = "answered" => post.id = asked[post.to],
         mail' = Append(mail, post), Waiting' \ {Absent} = (Waiting \ {Absent}) \ {post.to},
         WellFormed', TheHandshake', PendingAreCalls',
         Gone => Gone', handshake = "ok" => handshake' = "ok", NoteNews
  PROVE  TransportInv'
<1> DEFINE new == <<post>>
<1>1. new \in Seq(Post) /\ DOMAIN new = {1} /\ new[1] = post
  OBVIOUS
<1>2. mail' = mail \o new
  BY AppendIsConcat DEF TransportInv, WellFormed
<1> HIDE DEF new
<1>3. Answers(new, {post.to}, asked')
  BY <1>1 DEF Answers
<1>4. Waiting \ {Absent} \subseteq Callers /\ Absent \notin Callers
  BY TheOutstanding
<1>5. Callers' = Callers /\ Calls' = Calls /\ asked' = asked
  BY DEF Callers, Calls
<1>6. \A c \in Callers' \ {post.to} : c \in Waiting' <=> (c \in Waiting \/ c \notin Callers)
  <2> SUFFICES ASSUME NEW c \in Callers' \ {post.to}
               PROVE  c \in Waiting' <=> (c \in Waiting \/ c \notin Callers)
    OBVIOUS
  <2>1. c # Absent
    BY <1>4, <1>5
  <2> QED BY <1>5, <2>1
<1>7. post.to \notin Waiting' /\ post.to \in Callers'
  BY <1>4, <1>5
<1>8. \A i \in DOMAIN new : new[i].kind # "exit"
  BY <1>1
<1>9. Sends(new, {post.to})
  BY <1>1, <1>2, <1>3, <1>5, <1>6, <1>7, <1>8 DEF Sends
<1> QED BY <1>9, SendsKeeps DEF TransportInv

-----------------------------------------------------------------------------
(* The steps. *)

\* A call that could not be written ends everything, and is told last.
LEMMA NotWrittenSteps ==
  ASSUME TransportInv, asked' = Append(asked, next_id), UNCHANGED started, NoteNews,
         NEW what \in Words, NotWritten(Len(asked) + 1, what)
  PROVE  TransportInv'
<1> DEFINE from == Len(asked) + 1
<1>1. Makes({from})
  BY MakesOne
<1>2. from \in Nat /\ 0 \notin {from}
  BY LenProperties DEF TransportInv, WellFormed
<1> HIDE DEF from
<1>3. Some(pending_controls) /\ Owed(pending_controls) = Waiting \ {Absent}
      /\ Waiting \ {Absent} \subseteq Callers
  BY AllControls, TheOutstanding
<1>4. from \notin Callers
  BY <1>1 DEF Makes
<1>5. Closed(pending_controls, what, <<>>, <<Failed(from, what)>>)
  BY DEF NotWritten, from
<1>6. Ends /\ TellsAll(pending_controls, what, <<>>, <<Failed(from, what)>>)
  BY <1>5, ClosedEnds
<1>7. /\ {} \cap Owed(pending_controls) = {} /\ {from} \cap ({} \cup Owed(pending_controls)) = {}
      /\ ({} \cup Owed(pending_controls)) \cup {from} = (Waiting \ {Absent}) \cup {from}
  BY <1>3, <1>4
<1>8. /\ <<Failed(from, what)>> \in Seq(Post) /\ Answers(<<Failed(from, what)>>, {from}, asked')
      /\ \A i \in DOMAIN <<Failed(from, what)>> : <<Failed(from, what)>>[i].kind # "exit"
  BY <1>2, OneTold
<1> QED BY <1>1, <1>2, <1>3, <1>6, <1>7, <1>8, NobodyTold, EndSteps

\* stop, and what it finds outstanding.
LEMMA StopSteps ==
  ASSUME TransportInv, asked' = Append(asked, next_id), UNCHANGED started, NoteNews,
         Stop(Len(asked) + 1)
  PROVE  TransportInv'
<1> DEFINE from == Len(asked) + 1
<1>1. Makes({from})
  BY MakesOne
<1>2. from \in Nat /\ 0 \notin {from}
  BY LenProperties DEF TransportInv, WellFormed
<1> HIDE DEF from
<1>3. CASE Gone
  <2>1. /\ phase' = "stopped" /\ ~Hello
        /\ mail' = Append(mail, Failed(from, "ok"))
        /\ UNCHANGED <<handshake, handshake_waiter, pending, next_id>>
    BY <1>3 DEF Stop, from, Gone, TransportInv, TheHandshake
  <2> QED BY <1>1, <1>2, <2>1, SomeWords, AnswerSteps
<1>4. CASE ~Gone
  <2>1. Some(pending_controls) /\ Owed(pending_controls) = Waiting \ {Absent}
        /\ Waiting \ {Absent} \subseteq Callers
    BY AllControls, TheOutstanding
  <2>2. from \notin Callers
    BY <1>1 DEF Makes
  <2>3. Ends
    BY <1>4 DEF Stop, Ends
  <2>4. TellsAll(pending_controls, "sidecar_unavailable", <<>>, <<Failed(from, "ok")>>)
    <3>1. mail' = mail \o Outstanding(pending_controls, "sidecar_unavailable") \o <<Failed(from, "ok")>>
      BY <1>4 DEF Stop, from
    <3>2. mail \o <<>> = mail
      BY ConcatEmptySeq DEF TransportInv, WellFormed
    <3> QED BY <3>1, <3>2 DEF TellsAll
  <2>5. /\ {} \cap Owed(pending_controls) = {} /\ {from} \cap ({} \cup Owed(pending_controls)) = {}
        /\ ({} \cup Owed(pending_controls)) \cup {from} = (Waiting \ {Absent}) \cup {from}
    BY <2>1, <2>2
  <2>6. /\ <<Failed(from, "ok")>> \in Seq(Post) /\ Answers(<<Failed(from, "ok")>>, {from}, asked')
        /\ \A i \in DOMAIN <<Failed(from, "ok")>> : <<Failed(from, "ok")>>[i].kind # "exit"
    BY <1>2, SomeWords, OneTold
  <2> QED BY <1>1, <1>2, <2>1, <2>3, <2>4, <2>5, <2>6, SomeWords, NobodyTold, EndSteps
<1> QED BY <1>3, <1>4

\* What is asked while nothing is in flight waits under the next id.
LEMMA RequestSteps ==
  ASSUME TransportInv, asked' = Append(asked, next_id), UNCHANGED started, NoteNews,
         UNCHANGED <<phase, handshake, handshake_waiter, pending_controls, mail>>,
         next_id' = next_id + 1, pending_request = None, ~Hello,
         pending_request' = [id |-> next_id, from |-> Len(asked) + 1, kind |-> "action"]
  PROVE  TransportInv'
<1> DEFINE from == Len(asked) + 1
<1>1. Makes({from}) /\ asked'[from] = next_id
  BY MakesOne
<1>2. from \in Nat /\ from # 0 /\ from \in Calls' /\ from \notin Calls /\ next_id \in Nat
  BY <1>1, LenProperties DEF TransportInv, WellFormed, Makes, Callers
<1>3. pending_request' = [id |-> next_id, from |-> from, kind |-> "action"]
  OBVIOUS
<1> HIDE DEF from
<1>4. Waiting' \ {Absent} = (Waiting \ {Absent}) \cup {from}
  <2>1. pending_request.kind # "action"
    BY DEF None
  <2>2. from # Absent
    BY <1>2, TransportAssumption
  <2> QED BY <1>3, <2>1, <2>2 DEF Waiting
<1>5. WellFormed'
  <2>1. pending_request' \in PendingType /\ pending_request'.kind = "action"
    BY <1>2, <1>3 DEF PendingType
  <2>2. pending_request' # None
    BY <2>1 DEF None
  <2> QED BY <1>1, <1>2, <2>1, <2>2, CallersGrow, NotedInNat DEF WellFormed, TransportInv, Makes
<1>6. TheHandshake'
  BY <1>1, <1>3, <1>2 DEF TheHandshake, TransportInv, Hello, Makes
<1>7. PendingAreCalls'
  <2>1. \A i \in DOMAIN pending_controls : /\ pending_controls[i].id \in Nat
                                          /\ pending_controls[i].id < next_id
                                          /\ pending_controls[i].from \in Calls
                                          /\ pending_controls[i].id = asked[pending_controls[i].from]
    <3>1. \A i \in DOMAIN pending_controls : pending_controls[i] \in ControlType
      BY LenProperties DEF TransportInv, WellFormed
    <3> QED BY <3>1 DEF TransportInv, PendingAreCalls, InFlight, ControlType
  <2>2. \A i \in DOMAIN pending_controls' : InFlight(pending_controls[i])'
    <3> SUFFICES ASSUME NEW i \in DOMAIN pending_controls PROVE InFlight(pending_controls[i])'
      OBVIOUS
    <3>1. /\ pending_controls[i].from \in Calls'
          /\ pending_controls[i].id = asked'[pending_controls[i].from]
          /\ pending_controls[i].id < next_id'
      BY <1>1, <1>2, <2>1, CallStays
    <3> QED BY <3>1 DEF InFlight
  <2>3. pending_request'.id \notin ControlIds'
    BY <1>2, <1>3, <2>1 DEF ControlIds
  <2>4. InFlight(pending_request)'
    BY <1>1, <1>2, <1>3 DEF InFlight
  <2>5. \A i, j \in DOMAIN pending_controls' :
          pending_controls'[i].id = pending_controls'[j].id => i = j
    BY DEF TransportInv, PendingAreCalls
  <2> QED BY <2>2, <2>3, <2>4, <2>5 DEF PendingAreCalls, InFlight
<1> QED BY <1>1, <1>4, <1>5, <1>6, <1>7, WaitingSteps DEF Gone

\* A control joins those in flight.
LEMMA ControlSteps ==
  ASSUME TransportInv, asked' = Append(asked, next_id), UNCHANGED started, NoteNews,
         UNCHANGED <<phase, handshake, handshake_waiter, pending_request, mail>>,
         next_id' = next_id + 1,
         pending_controls' = Append(pending_controls, [id |-> next_id, from |-> Len(asked) + 1])
  PROVE  TransportInv'
<1> DEFINE from == Len(asked) + 1
           control == [id |-> next_id, from |-> from]
           n == Len(pending_controls)
<1>1. Makes({from}) /\ asked'[from] = next_id
  BY MakesOne
<1>2. from \in Nat /\ from # 0 /\ from \in Calls' /\ from \notin Calls /\ next_id \in Nat
  BY <1>1, LenProperties DEF TransportInv, WellFormed, Makes, Callers
<1>3. pending_controls' = Append(pending_controls, control)
  OBVIOUS
<1> HIDE DEF from
<1>4. control \in ControlType /\ control.id = next_id /\ control.from = from
  BY <1>2 DEF ControlType
<1> HIDE DEF control
<1>5. pending_controls \in Seq(ControlType) /\ n \in Nat /\ DOMAIN pending_controls = 1 .. n
  BY LenProperties DEF TransportInv, WellFormed
<1>6. /\ pending_controls' \in Seq(ControlType) /\ DOMAIN pending_controls' = 1 .. n + 1
      /\ \A i \in 1 .. n : pending_controls'[i] = pending_controls[i]
      /\ pending_controls'[n + 1] = control
  BY <1>3, <1>4, <1>5, AppendProperties, LenProperties
<1>7. \A i \in 1 .. n : /\ pending_controls[i].id \in Nat
                       /\ pending_controls[i].id < next_id
                       /\ pending_controls[i].from \in Calls
                       /\ pending_controls[i].id = asked[pending_controls[i].from]
  <2>1. \A i \in DOMAIN pending_controls : pending_controls[i] \in ControlType
    BY LenProperties DEF TransportInv, WellFormed
  <2> QED BY <1>5, <2>1 DEF TransportInv, PendingAreCalls, InFlight, ControlType
<1> HIDE DEF n
<1>8. \A i \in 1 .. n + 1 : i \in 1 .. n \/ i = n + 1
  BY <1>5
<1>9. From(pending_controls)' = From(pending_controls) \cup {from}
  BY <1>4, <1>5, <1>6, <1>8 DEF From
<1>10. Waiting' \ {Absent} = (Waiting \ {Absent}) \cup {from}
  <2>1. from # Absent
    BY <1>2, TransportAssumption
  <2> QED BY <1>9, <2>1 DEF Waiting, From
<1>11. WellFormed' /\ TheHandshake'
  BY <1>1, <1>2, <1>6, CallersGrow, NotedInNat DEF WellFormed, TheHandshake, Hello, TransportInv, Makes
<1>12. PendingAreCalls'
  <2>1. ASSUME NEW i \in DOMAIN pending_controls'
        PROVE  InFlight(pending_controls[i])'
    <3>1. CASE i \in 1 .. n
      <4>1. /\ pending_controls[i].from \in Calls'
            /\ pending_controls[i].id = asked'[pending_controls[i].from]
            /\ pending_controls[i].id < next_id'
        BY <1>1, <1>2, <1>7, <3>1, CallStays
      <4> QED BY <1>6, <3>1, <4>1 DEF InFlight
    <3>2. CASE i = n + 1
      BY <1>1, <1>2, <1>4, <1>6, <3>2 DEF InFlight
    <3> QED BY <1>6, <1>8, <3>1, <3>2
  <2>2. ASSUME NEW i \in DOMAIN pending_controls', NEW j \in DOMAIN pending_controls',
               pending_controls'[i].id = pending_controls'[j].id
        PROVE  i = j
    <3>1. CASE i \in 1 .. n /\ j \in 1 .. n
      BY <1>5, <1>6, <2>2, <3>1 DEF TransportInv, PendingAreCalls
    <3>2. CASE i = n + 1 \/ j = n + 1
      <4>1. \A k \in 1 .. n : pending_controls'[k].id # next_id
        BY <1>2, <1>5, <1>6, <1>7, SMTT(30)
      <4> QED BY <1>4, <1>6, <1>8, <2>2, <3>2, <4>1
    <3> QED BY <1>6, <1>8, <3>1, <3>2
  <2>3. ASSUME pending_request.kind = "action"
        PROVE  InFlight(pending_request)' /\ pending_request.id \notin ControlIds'
    <3>1. InFlight(pending_request) /\ pending_request.id \in Nat /\ pending_request.id \notin ControlIds
      BY <2>3 DEF TransportInv, PendingAreCalls, WellFormed, PendingType
    <3>2. InFlight(pending_request)'
      <4>1. /\ pending_request.from \in Calls'
            /\ pending_request.id = asked'[pending_request.from]
            /\ pending_request.id < next_id'
        BY <1>1, <1>2, <3>1, CallStays DEF InFlight
      <4> QED BY <4>1 DEF InFlight
    <3>3. ASSUME NEW i \in DOMAIN pending_controls' PROVE pending_controls'[i].id # pending_request.id
      BY <1>2, <1>4, <1>5, <1>6, <1>8, <3>1 DEF InFlight, ControlIds
    <3> QED BY <3>2, <3>3 DEF ControlIds
  <2> QED BY <2>1, <2>2, <2>3 DEF PendingAreCalls, InFlight
<1> QED BY <1>1, <1>10, <1>11, <1>12, WaitingSteps DEF Gone

\* The request in flight is over: answered, or late.
LEMMA RequestOver ==
  ASSUME TransportInv, UNCHANGED <<asked, started>>, NoteNews,
         UNCHANGED <<phase, handshake, handshake_waiter, pending_controls, next_id>>,
         pending_request # None, ~Hello, pending_request' = None,
         NEW post \in Post, post.kind = "reply", post.to = pending_request.from,
         post.what = "answered" => post.id = pending_request.id,
         mail' = Append(mail, post)
  PROVE  TransportInv'
<1>1. /\ pending_request.kind = "action" /\ pending_request.from \in Calls
      /\ pending_request.id = asked[pending_request.from] /\ pending_request.id \notin ControlIds
  BY DEF TransportInv, WellFormed, PendingType, Hello, PendingAreCalls, InFlight
<1>2. /\ post.to \in Waiting \ {Absent} /\ post.to \in Calls
      /\ post.what = "answered" => post.id = asked[post.to]
  BY <1>1, TransportAssumption DEF Waiting, Calls
<1>3. post.to \notin From(pending_controls)
  BY <1>1 DEF From, TransportInv, PendingAreCalls, InFlight, ControlIds
<1>4. handshake_waiter = Absent
  BY DEF TransportInv, WellFormed, TheHandshake
<1>5. Waiting' \ {Absent} = (Waiting \ {Absent}) \ {post.to}
  <2>1. pending_request'.kind # "action"
    BY DEF None
  <2> QED BY <1>1, <1>3, <1>4, <2>1 DEF Waiting, From
<1>6. mail' \in Seq(Post)
  BY AppendProperties DEF TransportInv, WellFormed
<1>7. WellFormed'
  <2>1. pending_request' \in PendingType /\ pending_request'.kind = "none"
    BY DEF None, PendingType, ForeignId
  <2> QED BY <1>6, <2>1, NotedInNat DEF TransportInv, WellFormed
<1>8. TheHandshake'
  <2>1. pending_request'.kind = "none"
    BY DEF None
  <2> QED BY <2>1 DEF TransportInv, TheHandshake, Hello
<1>9. PendingAreCalls'
  <2>1. pending_request'.kind = "none"
    BY DEF None
  <2> QED BY <2>1 DEF TransportInv, PendingAreCalls, InFlight, Calls
<1> QED BY <1>2, <1>5, <1>7, <1>8, <1>9, CompletingSteps DEF Gone

\* deliver_ack answers one control, and the others stay.
LEMMA ControlOver ==
  ASSUME TransportInv, UNCHANGED <<asked, started>>, NoteNews,
         UNCHANGED <<phase, handshake, handshake_waiter, pending_request, next_id>>,
         NEW i \in DOMAIN pending_controls,
         pending_controls' = OtherControls(pending_controls[i].id),
         mail' = Append(mail, Reply(pending_controls[i].from, "answered", pending_controls[i].id))
  PROVE  TransportInv'
<1> DEFINE post == Reply(pending_controls[i].from, "answered", pending_controls[i].id)
           others == OtherControls(pending_controls[i].id)
<1>1. /\ pending_controls[i].from \in Calls /\ pending_controls[i].from \in Nat
      /\ pending_controls[i].id = asked[pending_controls[i].from] /\ pending_controls[i].id \in Nat
  <2>1. pending_controls[i] \in ControlType
    BY LenProperties DEF TransportInv, WellFormed
  <2> QED BY <2>1 DEF TransportInv, PendingAreCalls, InFlight, ControlType
<1>2. /\ post \in Post /\ post.kind = "reply" /\ post.to = pending_controls[i].from
      /\ post.what = "answered" => post.id = asked[post.to]
  <2>1. post \in Post
    BY <1>1, PostsAre
  <2>2. /\ post.kind = "reply" /\ post.to = pending_controls[i].from
        /\ post.id = pending_controls[i].id
    BY DEF Reply
  <2> QED BY <1>1, <2>1, <2>2
<1>3. /\ Some(others)
      /\ From(others) = From(pending_controls) \ {pending_controls[i].from}
  BY OtherControlsAre
<1>4. pending_controls' = others /\ mail' = Append(mail, post)
  OBVIOUS
<1> HIDE DEF post, others
<1>5. post.to \in Waiting \ {Absent}
  BY <1>1, <1>2, TransportAssumption DEF Waiting
<1>6. pending_request.kind = "action" => pending_request.from # post.to
  BY <1>1, <1>2 DEF TransportInv, PendingAreCalls, InFlight, ControlIds
<1>7. handshake_waiter # post.to
  BY <1>1, <1>2, TransportAssumption DEF TransportInv, WellFormed, Calls
<1>8. Waiting' \ {Absent} = (Waiting \ {Absent}) \ {post.to}
  <2>1. From(pending_controls)' = From(pending_controls) \ {post.to}
    BY <1>2, <1>3, <1>4 DEF From
  <2> QED BY <1>6, <1>7, <2>1 DEF Waiting, From
<1>9. mail' \in Seq(Post)
  BY <1>2, <1>4, AppendProperties DEF TransportInv, WellFormed
<1>10. WellFormed' /\ TheHandshake'
  BY <1>3, <1>4, <1>9, NotedInNat DEF TransportInv, WellFormed, TheHandshake, Hello, Some
<1>11. PendingAreCalls'
  <2>1. \A k \in DOMAIN others : \E m \in DOMAIN pending_controls : others[k] = pending_controls[m]
    BY <1>3 DEF Some
  <2>2. \A k \in DOMAIN pending_controls' : InFlight(pending_controls[k])'
    BY <1>4, <2>1 DEF TransportInv, PendingAreCalls, InFlight, Calls
  <2>3. ControlIds' \subseteq ControlIds
    BY <1>4, <2>1 DEF ControlIds
  <2>4. \A k, l \in DOMAIN pending_controls' :
          pending_controls'[k].id = pending_controls'[l].id => k = l
    BY <1>3, <1>4 DEF Some
  <2>5. pending_request.kind = "action" =>
          InFlight(pending_request)' /\ pending_request.id \notin ControlIds'
    BY <2>3 DEF TransportInv, PendingAreCalls, InFlight, Calls
  <2> QED BY <2>2, <2>4, <2>5 DEF PendingAreCalls, InFlight
<1> QED BY <1>2, <1>4, <1>5, <1>8, <1>10, <1>11, CompletingSteps DEF Gone

\* The hello response: whoever awaits the handshake is told it is over.
LEMMA HandshakeOver ==
  ASSUME TransportInv, UNCHANGED <<asked, started>>, NoteNews, phase = "handshake",
         phase' = "ready", handshake' = "ok", handshake_waiter' = Absent,
         pending_request' = None, UNCHANGED <<pending_controls, next_id>>,
         mail' = IF handshake_waiter = Absent THEN mail
                 ELSE Append(mail, Failed(handshake_waiter, "ok"))
  PROVE  TransportInv'
<1>1. Hello /\ handshake = "pending" /\ ~Gone /\ handshake_waiter \in {0, Absent}
  BY DEF TransportInv, WellFormed, TheHandshake, Gone
<1>2. pending_request' \in PendingType /\ pending_request'.kind = "none"
  BY DEF None, PendingType, ForeignId
<1>3. TheHandshake'
  BY <1>2, TransportAssumption DEF TheHandshake, Hello
<1>4. PendingAreCalls'
  BY <1>2 DEF TransportInv, PendingAreCalls, InFlight, Calls
<1>5. mail' \in Seq(Post) => WellFormed'
  BY <1>2, NotedInNat DEF TransportInv, WellFormed
<1>6. From(pending_controls) \subseteq Calls /\ From(pending_controls)' = From(pending_controls)
  BY DEF From, TransportInv, PendingAreCalls, InFlight
<1>7. Waiting' \ {Absent} = From(pending_controls) \ {Absent}
  BY <1>2 DEF Waiting, From
<1>8. Waiting = From(pending_controls) \cup {handshake_waiter}
  BY <1>1 DEF Waiting, From, Hello
<1>9. CASE handshake_waiter = Absent
  <2>1. WellFormed'
    BY <1>5, <1>9 DEF TransportInv, WellFormed
  <2>2. Makes({}) /\ Waiting' \ {Absent} = (Waiting \ {Absent}) \cup {}
    BY <1>7, <1>8, <1>9, MakesNone
  <2> QED BY <1>1, <1>3, <1>4, <1>9, <2>1, <2>2, WaitingSteps
<1>10. CASE handshake_waiter = 0
  <2> DEFINE post == Failed(0, "ok")
  <2>1. /\ post \in Post /\ post.kind = "reply" /\ post.to = 0 /\ post.what = "ok"
    BY PostsAre, SomeWords
  <2>2. mail' = Append(mail, post) /\ 0 # Absent
    BY <1>10, TransportAssumption
  <2> HIDE DEF post
  <2>3. WellFormed'
    BY <1>5, <2>1, <2>2, AppendProperties DEF TransportInv, WellFormed
  <2>4. 0 \notin From(pending_controls)
    BY <1>6 DEF Calls
  <2>5. Waiting' \ {Absent} = (Waiting \ {Absent}) \ {post.to} /\ post.to \in Waiting \ {Absent}
    BY <1>7, <1>8, <1>10, <2>1, <2>2, <2>4
  <2> QED BY <1>1, <1>3, <1>4, <2>1, <2>2, <2>3, <2>5, CompletingSteps
<1> QED BY <1>1, <1>9, <1>10

\* The owner is told an event, and nobody is answered.
LEMMA EventSteps ==
  ASSUME TransportInv, UNCHANGED <<asked, started>>, NoteNews,
         NEW frame, Told(frame) \in Post, ForwardEvent(frame), GenerationsMatch(frame)
  PROVE  TransportInv'
<1> DEFINE new == <<Told(frame)>>
<1>1. /\ UNCHANGED <<phase, handshake, handshake_waiter, pending_request, pending_controls, next_id>>
      /\ UNCHANGED pending /\ mail' = Append(mail, Told(frame))
  BY DEF ForwardEvent, phases, pending
<1>2. Told(frame) \in Post /\ Told(frame).kind = "event"
  BY DEF Told
<1>3. new \in Seq(Post) /\ DOMAIN new = {1} /\ new[1].kind = "event"
  BY <1>2
<1>4. mail' = mail \o new /\ mail' \in Seq(Post)
  BY <1>1, <1>2, AppendIsConcat, AppendProperties DEF TransportInv, WellFormed
<1> HIDE DEF new
<1>5. Makes({})
  BY MakesNone
<1>6. PendingAreCalls'
  BY <1>1, <1>5, PendingStays DEF TransportInv, WellFormed
<1>7. WellFormed' /\ TheHandshake'
  BY <1>1, <1>4, NotedInNat DEF TransportInv, WellFormed, TheHandshake, Hello
<1>8. Answers(new, {}, asked') /\ \A i \in DOMAIN new : new[i].kind # "exit"
  BY <1>3 DEF Answers
<1>9. Sends(new, {})
  <2>1. Waiting' = Waiting /\ Callers' = Callers /\ Calls' = Calls
    BY <1>1 DEF Waiting, Callers, Calls
  <2>2. Waiting \ {Absent} \subseteq Callers
    BY TheOutstanding
  <2> QED BY <1>1, <1>3, <1>4, <1>8, <2>1, <2>2 DEF Sends, Gone
<1> QED BY <1>6, <1>7, <1>8, <1>9, SendsKeeps DEF TransportInv

\* A barrier nobody acknowledged: its caller, whoever else waits, the owner.
LEMMA UnconfirmedSteps ==
  ASSUME TransportInv, UNCHANGED <<asked, started>>, NoteNews, NEW i \in DOMAIN pending_controls,
         Announce(OtherControls(pending_controls[i].id), "control_unconfirmed",
                  <<Failed(pending_controls[i].from, "control_unconfirmed")>>)
  PROVE  TransportInv'
<1> DEFINE from == pending_controls[i].from
           others == OtherControls(pending_controls[i].id)
           what == "control_unconfirmed"
           before == <<Failed(from, what)>>
           after == IF phase = "ready" THEN <<News(what)>> ELSE <<>>
<1>1. from \in Calls /\ from \in Nat
  BY DEF TransportInv, PendingAreCalls, InFlight, Calls
<1>2. /\ Some(others) /\ From(others) = From(pending_controls) \ {from}
      /\ Owed(pending_controls) = Waiting \ {Absent}
  BY OtherControlsAre, TheOutstanding
<1>3. what \in Words
  BY SomeWords
<1>4. Closed(others, what, before, after)
  BY DEF Announce
<1> HIDE DEF what
<1>5. /\ before \in Seq(Post) /\ Answers(before, {from}, asked')
      /\ \A k \in DOMAIN before : before[k].kind # "exit"
  BY <1>1, <1>3, OneTold
<1>6. /\ after \in Seq(Post) /\ Answers(after, {}, asked')
      /\ \/ \A k \in DOMAIN after : after[k].kind # "exit"
         \/ phase = "ready" /\ after = <<News(what)>>
  <2>1. CASE phase = "ready"
    BY <1>3, <2>1, NewsTold
  <2>2. CASE phase # "ready"
    BY <2>2, NobodyTold
  <2> QED BY <2>1, <2>2
<1>7. Ends /\ TellsAll(others, what, before, after)
  BY <1>4, ClosedEnds
<1>8. from \notin Owed(others)
  <2>1. Hello => handshake_waiter # from
    BY <1>1, TransportAssumption DEF TransportInv, WellFormed, Calls
  <2>2. ~Hello => pending_request.from # from
    <3> SUFFICES ASSUME ~Hello, pending_request.from = from PROVE FALSE
      OBVIOUS
    <3>1. pending_request.kind = "action"
      BY <1>1, TransportAssumption DEF TransportInv, WellFormed, PendingType, Hello, None
    <3> QED BY <3>1 DEF TransportInv, PendingAreCalls, InFlight, ControlIds
  <2> QED BY <1>2, <2>1, <2>2 DEF Owed
<1>9. from \in Waiting \ {Absent}
  BY <1>1, TransportAssumption, TheOutstanding
<1>10. Owed(others) \cup {from} = Owed(pending_controls)
  <2>1. from \in From(pending_controls)
    BY DEF From
  <2> QED BY <1>2, <2>1 DEF Owed
<1> HIDE DEF others, before, after, from
<1>11. /\ {from} \cap Owed(others) = {} /\ {} \cap ({from} \cup Owed(others)) = {}
       /\ ({from} \cup Owed(others)) \cup {} = (Waiting \ {Absent}) \cup {}
  BY <1>2, <1>8, <1>10
<1>12. Makes({}) /\ 0 \notin {}
  BY MakesNone
<1> QED BY <1>2, <1>3, <1>5, <1>6, <1>7, <1>11, <1>12, EndSteps

\* The handshake's deadline: everything ends and no owner is told.
LEMMA HandshakeLate ==
  ASSUME TransportInv, UNCHANGED <<asked, started>>, NoteNews,
         Closed(pending_controls, "timeout", <<>>, <<>>)
  PROVE  TransportInv'
<1>1. Makes({}) /\ Some(pending_controls) /\ Owed(pending_controls) = Waiting \ {Absent}
  BY MakesNone, AllControls, TheOutstanding
<1>2. Ends /\ TellsAll(pending_controls, "timeout", <<>>, <<>>)
  BY ClosedEnds
<1>3. /\ {} \cap Owed(pending_controls) = {} /\ {} \cap ({} \cup Owed(pending_controls)) = {}
      /\ ({} \cup Owed(pending_controls)) \cup {} = (Waiting \ {Absent}) \cup {}
  BY <1>1
<1> QED BY <1>1, <1>2, <1>3, SomeWords, NobodyTold, EndSteps

LEMMA PoisonSteps ==
  ASSUME TransportInv, UNCHANGED <<asked, started>>, NoteNews, NEW what \in Words, Poison(what)
  PROVE  TransportInv'
BY AnnounceSteps DEF Poison

LEMMA StartLinkSteps ==
  ASSUME TransportInv, StartLink
  PROVE  TransportInv'
<1>1. Makes({0}) /\ started' = TRUE /\ ~started /\ asked' = asked /\ open_at' = open_at
  BY MakesTheLink DEF StartLink
<1>2. CASE handshake = "pending"
  <2>1. /\ handshake_waiter' = 0 /\ UNCHANGED <<phase, handshake, next_id, mail>>
        /\ UNCHANGED <<pending_request, pending_controls>> /\ UNCHANGED pending
    BY <1>2 DEF StartLink, AwaitHandshake, pending
  <2>2. Hello /\ handshake_waiter = Absent
    BY <1>1, <1>2 DEF TransportInv, TheHandshake, WellFormed
  <2>3. WellFormed' /\ TheHandshake'
    BY <1>1, <2>1, <2>2 DEF TransportInv, WellFormed, TheHandshake, Hello
  <2>4. PendingAreCalls'
    BY <1>1, <2>1, PendingStays DEF TransportInv, WellFormed
  <2>5. Waiting' \ {Absent} = (Waiting \ {Absent}) \cup {0}
    BY <2>1, <2>2, TransportAssumption DEF Waiting
  <2> QED BY <1>1, <2>1, <2>3, <2>4, <2>5, WaitingSteps DEF Gone
<1>3. CASE handshake # "pending"
  <2>1. /\ mail' = Append(mail, Failed(0, handshake)) /\ phase' = phase
        /\ UNCHANGED <<handshake, handshake_waiter, pending, next_id>>
    BY <1>3 DEF StartLink, AwaitHandshake, Answer, phases
  <2>2. handshake \in Words /\ ~Hello
    BY <1>3, SomeWords DEF TransportInv, WellFormed, TheHandshake
  <2> QED BY <1>1, <2>1, <2>2, AnswerSteps
<1> QED BY <1>2, <1>3

\* start_link's own answer was an error, so the handshake is over.
LEMMA AbandonSteps ==
  ASSUME TransportInv, Abandon
  PROVE  TransportInv'
<1>1. PICK i \in DOMAIN mail : mail[i].kind = "reply" /\ mail[i].to = 0
  BY DEF Abandon
<1>2. 0 \in Callers /\ i \in RepliesTo(0)
  BY <1>1 DEF TransportInv, RepliesAreToCallers, RepliesTo
<1>3. 0 \notin Waiting
  BY <1>2 DEF TransportInv, EachCallIsAnsweredOnce, Callers
<1>4. started
  BY <1>2 DEF Callers, Calls
<1>5. ~Hello
  BY <1>3, <1>4 DEF Waiting, TransportInv, TheHandshake
<1> QED BY <1>5, QuietSteps DEF Abandon

LEMMA AnsweredNow ==
  ASSUME TransportInv, asked' = Append(asked, next_id), UNCHANGED started, NoteNews,
         NEW what \in Words, Answer(Len(asked) + 1, what)
  PROVE  TransportInv'
<1>1. Makes({Len(asked) + 1}) /\ Len(asked) + 1 \in Nat /\ Len(asked) + 1 # 0
  BY MakesOne, LenProperties DEF TransportInv, WellFormed
<1>2. /\ mail' = Append(mail, Failed(Len(asked) + 1, what)) /\ phase' = phase
      /\ UNCHANGED <<handshake, handshake_waiter, pending, next_id>>
  BY DEF Answer, phases
<1> QED BY <1>1, <1>2, AnswerSteps

LEMMA RequestCalls ==
  ASSUME TransportInv, asked' = Append(asked, next_id), UNCHANGED started, NoteNews,
         NEW action, NEW fits, AdmitRequest(Len(asked) + 1, action, fits)
  PROVE  TransportInv'
<1>1. CASE Gone
  <2>1. Answer(Len(asked) + 1, "sidecar_unavailable")
    BY <1>1 DEF AdmitRequest, Gone
  <2> QED BY <2>1, SomeWords, AnsweredNow
<1>2. CASE phase = "ready" /\ action = "hello"
  <2>1. Answer(Len(asked) + 1, "ok")
    BY <1>2 DEF AdmitRequest, Gone
  <2> QED BY <2>1, SomeWords, AnsweredNow
<1>3. CASE ~Gone /\ pending_request # None /\ ~(phase = "ready" /\ action = "hello")
  <2>1. Answer(Len(asked) + 1, "busy")
    BY <1>3 DEF AdmitRequest
  <2> QED BY <2>1, SomeWords, AnsweredNow
<1>4. CASE ~Gone /\ pending_request = None /\ ~(phase = "ready" /\ action = "hello")
  <2>1. CASE WriteError(fits) # "none"
    <3>1. NotWritten(Len(asked) + 1, WriteError(fits)) /\ WriteError(fits) \in Words
      BY <1>4, <2>1, SomeWords DEF AdmitRequest, WriteError
    <3> QED BY <3>1, NotWrittenSteps
  <2>2. CASE WriteError(fits) = "none"
    <3>1. /\ pending_request' = [id |-> next_id, from |-> Len(asked) + 1, kind |-> "action"]
          /\ next_id' = next_id + 1
          /\ UNCHANGED <<phase, handshake, handshake_waiter, pending_controls, mail>>
      BY <1>4, <2>2 DEF AdmitRequest, Written, phases
    <3>2. ~Hello
      BY <1>4 DEF Hello, None
    <3> QED BY <1>4, <3>1, <3>2, RequestSteps
  <2> QED BY <2>1, <2>2
<1> QED BY <1>1, <1>2, <1>3, <1>4

LEMMA ControlCalls ==
  ASSUME TransportInv, asked' = Append(asked, next_id), UNCHANGED started, NoteNews,
         NEW action, AdmitControl(Len(asked) + 1, action)
  PROVE  TransportInv'
<1>1. CASE Gone
  <2>1. Answer(Len(asked) + 1, "sidecar_unavailable")
    BY <1>1 DEF AdmitControl, Gone
  <2> QED BY <2>1, SomeWords, AnsweredNow
<1>2. CASE phase = "handshake"
  <2>1. Answer(Len(asked) + 1, "busy")
    BY <1>2 DEF AdmitControl, Gone
  <2> QED BY <2>1, SomeWords, AnsweredNow
<1>3. CASE phase = "ready" /\ Len(pending_controls) >= MaxPendingControls
  <2>1. Answer(Len(asked) + 1, "control_queue_full")
    BY <1>3 DEF AdmitControl, Gone
  <2> QED BY <2>1, SomeWords, AnsweredNow
<1>4. CASE ~Gone /\ phase # "handshake" /\ ~(Len(pending_controls) >= MaxPendingControls)
  <2>1. CASE WriteError(TRUE) # "none"
    <3>1. NotWritten(Len(asked) + 1, WriteError(TRUE)) /\ WriteError(TRUE) \in Words
      BY <1>4, <2>1, SomeWords DEF AdmitControl, WriteError
    <3> QED BY <3>1, NotWrittenSteps
  <2>2. CASE WriteError(TRUE) = "none"
    <3>1. /\ pending_controls' =
               Append(pending_controls, [id |-> next_id, from |-> Len(asked) + 1])
          /\ next_id' = next_id + 1
          /\ UNCHANGED <<phase, handshake, handshake_waiter, pending_request, mail>>
      BY <1>4, <2>2 DEF AdmitControl, Written, phases
    <3> QED BY <3>1, ControlSteps
  <2> QED BY <2>1, <2>2
<1>5. phase \in {"handshake", "ready"} \/ Gone
  BY DEF TransportInv, WellFormed, Gone
<1> QED BY <1>1, <1>2, <1>3, <1>4, <1>5 DEF Gone

LEMMA DropSteps ==
  ASSUME TransportInv, UNCHANGED <<asked, started>>, NoteNews, Drop
  PROVE  TransportInv'
BY QuietSteps DEF Drop, phases

LEMMA UnmatchedSteps ==
  ASSUME TransportInv, UNCHANGED <<asked, started>>, NoteNews, NEW frame, Unmatched(frame)
  PROVE  TransportInv'
BY DropSteps, PoisonSteps, SomeWords DEF Unmatched

LEMMA ResponseLines ==
  ASSUME TransportInv, UNCHANGED <<asked, started>>, NoteNews, ~Gone,
         NEW frame, RouteResponse(frame)
  PROVE  TransportInv'
<1>1. CASE phase = "handshake"
  <2>1. HandshakeResponse(frame)
    BY <1>1 DEF RouteResponse
  <2>2. CASE frame.request_id # pending_request.id \/ ~frame.ok
    <3>1. Poison("unknown_request_id") \/ Poison("handshake_refused")
      BY <2>1, <2>2 DEF HandshakeResponse
    <3> QED BY <3>1, PoisonSteps, SomeWords
  <2>3. CASE frame.request_id = pending_request.id /\ frame.ok
    <3>1. /\ phase' = "ready" /\ handshake' = "ok" /\ handshake_waiter' = Absent
          /\ pending_request' = None /\ UNCHANGED <<pending_controls, next_id>>
          /\ mail' = IF handshake_waiter = Absent THEN mail
                     ELSE Append(mail, Failed(handshake_waiter, "ok"))
      BY <2>1, <2>3 DEF HandshakeResponse
    <3> QED BY <1>1, <3>1, HandshakeOver
  <2> QED BY <2>2, <2>3
<1>2. CASE phase = "ready" /\ frame.request_id \in RequestId
  <2>1. AnswerRequest(frame)
    BY <1>2 DEF RouteResponse
  <2>2. CASE ~GenerationsMatch(frame)
    BY <2>1, <2>2, PoisonSteps, SomeWords DEF AnswerRequest
  <2>3. CASE GenerationsMatch(frame)
    <3> DEFINE post == Reply(pending_request.from, "answered", frame.request_id)
    <3>1. /\ pending_request # None /\ frame.request_id = pending_request.id /\ ~Hello
      BY <1>2 DEF RequestId, TransportInv, TheHandshake
    <3>2. /\ UNCHANGED <<phase, handshake, handshake_waiter, pending_controls, next_id>>
          /\ pending_request' = None /\ mail' = Append(mail, post)
      BY <2>1, <2>3 DEF AnswerRequest, phases
    <3>3. /\ post.kind = "reply" /\ post.to = pending_request.from /\ post.id = pending_request.id
      BY <3>1 DEF Reply
    <3>4. pending_request.from \in Nat /\ pending_request.id \in Nat
      <4>1. pending_request.kind = "action" /\ pending_request \in PendingType
        BY <3>1 DEF TransportInv, WellFormed, PendingType, Hello
      <4> QED BY <4>1 DEF TransportInv, PendingAreCalls, InFlight, Calls, PendingType
    <3>5. post \in Post
      BY <3>1, <3>4, PostsAre
    <3> HIDE DEF post
    <3> QED BY <3>1, <3>2, <3>3, <3>5, RequestOver
  <2> QED BY <2>2, <2>3
<1>3. CASE phase # "handshake" /\ ~(phase = "ready" /\ frame.request_id \in RequestId)
  BY <1>3, UnmatchedSteps DEF RouteResponse
<1> QED BY <1>1, <1>2, <1>3

LEMMA AckLines ==
  ASSUME TransportInv, UNCHANGED <<asked, started>>, NoteNews, NEW frame, RouteAck(frame)
  PROVE  TransportInv'
<1>1. CASE frame.request_id \notin ControlIds
  BY <1>1, UnmatchedSteps DEF RouteAck
<1>2. CASE frame.request_id \in ControlIds /\ ~GenerationsMatch(frame)
  BY <1>2, PoisonSteps, SomeWords DEF RouteAck
<1>3. CASE frame.request_id \in ControlIds /\ GenerationsMatch(frame)
  <2>1. DeliverAck(frame)
    BY <1>3 DEF RouteAck
  <2>2. PICK i \in DOMAIN pending_controls :
          /\ pending_controls[i].id = frame.request_id
          /\ mail' = Append(mail, Reply(pending_controls[i].from, "answered", frame.request_id))
    BY <2>1 DEF DeliverAck
  <2>3. /\ pending_controls' = OtherControls(frame.request_id)
        /\ UNCHANGED <<phase, handshake, handshake_waiter, pending_request, next_id>>
    BY <2>1 DEF DeliverAck, phases
  <2> QED BY <2>2, <2>3, ControlOver
<1> QED BY <1>1, <1>2, <1>3

\* Whatever came, whole or in part.
LEMMA Fragments ==
  ASSUME TransportInv, UNCHANGED <<asked, started>>, NoteNews,
         NEW kind, NEW bytes, NEW frame, Absorb(kind, bytes, frame),
         frame.type = "session_event" => Told(frame) \in Post
  PROVE  TransportInv'
<1>1. UNCHANGED <<asked, started>> /\ NoteNews /\ ~Gone
  BY DEF Absorb
<1>2. CASE acc_size + bytes > MaxResponseBytes
  BY <1>1, <1>2, PoisonSteps, SomeWords DEF Absorb
<1>3. CASE ~(acc_size + bytes > MaxResponseBytes) /\ kind = "noeol"
  <2>1. UNCHANGED <<phase, handshake, handshake_waiter, pending, next_id, mail>>
    BY <1>3 DEF Absorb, phases
  <2> QED BY <1>1, <2>1, QuietSteps
<1>4. CASE ~(acc_size + bytes > MaxResponseBytes) /\ kind # "noeol"
  <2>1. HandleLine(frame)
    BY <1>4 DEF Absorb
  <2>2. CASE frame.type = "response"
    BY <1>1, <2>1, <2>2, ResponseLines DEF HandleLine
  <2>3. CASE frame.type = "control_ack"
    BY <1>1, <2>1, <2>3, AckLines DEF HandleLine
  <2>4. CASE frame.type = "session_event"
    <3>1. ForwardEvent(frame)
      BY <2>1, <2>4 DEF HandleLine
    <3>2. CASE ~GenerationsMatch(frame)
      BY <1>1, <3>1, <3>2, PoisonSteps, SomeWords DEF ForwardEvent
    <3>3. CASE GenerationsMatch(frame)
      BY <1>1, <2>4, <3>1, <3>3, EventSteps
    <3> QED BY <3>2, <3>3
  <2>5. CASE frame.type \notin {"response", "control_ack", "session_event"}
    BY <1>1, <2>1, <2>5, PoisonSteps, SomeWords DEF HandleLine
  <2> QED BY <2>2, <2>3, <2>4, <2>5
<1> QED BY <1>2, <1>3, <1>4

LEMMA Chunks ==
  ASSUME TransportInv, Chunk
  PROVE  TransportInv'
<1>1. PICK kind \in {"eol", "noeol"}, bytes \in ChunkBytes, frame \in Frames :
        Absorb(kind, bytes, frame)
  BY DEF Chunk
<1>2. UNCHANGED <<asked, started>> /\ NoteNews
  BY DEF Chunk
<1>3. frame.type = "session_event" => Told(frame) \in Post
  BY DEF Post
<1> QED BY <1>1, <1>2, <1>3, Fragments

LEMMA ExitStatuses ==
  ASSUME TransportInv, HandleExitStatus
  PROVE  TransportInv'
<1>1. UNCHANGED <<asked, started>> /\ NoteNews /\ SidecarExited
  BY DEF HandleExitStatus, Elsewhere
<1>2. CASE phase = "closed"
  <2>1. UNCHANGED <<phase, handshake, handshake_waiter, pending, next_id, mail>>
    BY <1>1, <1>2 DEF SidecarExited, phases
  <2> QED BY <1>1, <2>1, QuietSteps
<1>3. CASE phase # "closed"
  <2>1. Announce(pending_controls, "sidecar_exited", <<>>)
    BY <1>1, <1>3 DEF SidecarExited
  <2> QED BY <1>1, <2>1, AnnounceSteps, SomeWords
<1> QED BY <1>2, <1>3

LEMMA Deadlines ==
  ASSUME TransportInv, HandleDeadline
  PROVE  TransportInv'
<1> PICK id \in timers : Deadline(id)
  BY DEF HandleDeadline
<1>1. UNCHANGED <<asked, started>> /\ NoteNews
  BY DEF HandleDeadline, Elsewhere
<1>2. CASE Hello /\ id \in RequestId
  <2>1. Closed(pending_controls, "timeout", <<>>, <<>>)
    BY <1>2 DEF Deadline
  <2> QED BY <1>1, <2>1, HandshakeLate
<1>3. CASE ~Hello /\ id \in RequestId
  <2> DEFINE post == Failed(pending_request.from, "timeout")
  <2>1. /\ mail' = Append(mail, post) /\ pending_request' = None
        /\ UNCHANGED <<phase, handshake, handshake_waiter, pending_controls, next_id>>
    BY <1>3 DEF Deadline, phases
  <2>2. pending_request # None
    BY <1>3 DEF RequestId
  <2>3. pending_request.from \in Nat
    <3>1. pending_request.kind = "action"
      BY <1>3, <2>2 DEF TransportInv, WellFormed, PendingType, Hello
    <3> QED BY <3>1 DEF TransportInv, PendingAreCalls, InFlight, Calls
  <2>4. /\ post \in Post /\ post.kind = "reply" /\ post.to = pending_request.from
        /\ post.what # "answered"
    BY <2>3, PostsAre, SomeWords
  <2> HIDE DEF post
  <2> QED BY <1>1, <1>3, <2>1, <2>2, <2>4, RequestOver
<1>4. CASE id \notin RequestId /\ id \in ControlIds
  <2>1. PICK i \in DOMAIN pending_controls :
          /\ pending_controls[i].id = id
          /\ Announce(OtherControls(id), "control_unconfirmed",
                      <<Failed(pending_controls[i].from, "control_unconfirmed")>>)
    BY <1>4 DEF Deadline
  <2> QED BY <1>1, <2>1, UnconfirmedSteps
<1>5. CASE id \notin RequestId /\ id \notin ControlIds
  <2>1. UNCHANGED <<phase, handshake, handshake_waiter, pending, next_id, mail>>
    BY <1>5 DEF Deadline, phases
  <2> QED BY <1>1, <2>1, QuietSteps
<1> QED BY <1>2, <1>3, <1>4, <1>5

-----------------------------------------------------------------------------
(* The theorems. *)

LEMMA TransportInvInit ==
  ASSUME AloneInit
  PROVE  TransportInv
<1>1. /\ phase = "handshake" /\ handshake = "pending" /\ handshake_waiter = Absent
      /\ pending_request = [id |-> 1, from |-> Absent, kind |-> "hello"]
      /\ pending_controls = <<>> /\ next_id = 2 /\ mail = <<>>
      /\ started = FALSE /\ asked = <<>> /\ open_at = 0
  BY DEF AloneInit, TransportInit
<1>2. WellFormed
  <2>1. pending_request \in PendingType /\ pending_request.kind # "none" /\ pending_request # None
    BY <1>1 DEF PendingType, None
  <2>2. pending_controls \in Seq(ControlType) /\ asked \in Seq(Nat) /\ mail \in Seq(Post)
    BY <1>1
  <2> QED BY <1>1, <2>1, <2>2 DEF WellFormed
<1>3. Calls = {} /\ DOMAIN mail = {} /\ DOMAIN pending_controls = {}
  BY <1>1 DEF Calls
<1>4. TheHandshake /\ PendingAreCalls
  BY <1>1, <1>3, TransportAssumption DEF TheHandshake, Hello, PendingAreCalls
<1>5. RepliesAreToCallers /\ EachCallIsAnsweredOnce /\ NewsIsOfTheEnd /\ TheNewsComesLast
  BY <1>1, <1>3 DEF RepliesAreToCallers, EachCallIsAnsweredOnce, NewsIsOfTheEnd, TheNewsComesLast, Exits
<1> QED BY <1>2, <1>4, <1>5 DEF TransportInv

LEMMA TransportInvStep ==
  ASSUME TransportInv, [AloneNext]_alone_vars
  PROVE  TransportInv'
<1>1. CASE CallRequest
  <2>1. PICK action \in Actions, fits \in BOOLEAN :
          AdmitRequest(Len(asked) + 1, action, fits) /\ asked' = Append(asked, next_id)
          /\ NoteNews /\ UNCHANGED started
    BY <1>1 DEF CallRequest, Client
  <2> QED BY <2>1, RequestCalls
<1>2. CASE CallControl
  <2>1. PICK action \in Controls :
          AdmitControl(Len(asked) + 1, action) /\ asked' = Append(asked, next_id)
          /\ NoteNews /\ UNCHANGED started
    BY <1>2 DEF CallControl, Client
  <2> QED BY <2>1, ControlCalls
<1>3. CASE CallStop
  BY <1>3, StopSteps DEF CallStop, Client
<1>4. CASE StartLink
  BY <1>4, StartLinkSteps
<1>5. CASE Abandon
  BY <1>5, AbandonSteps
<1>6. CASE Chunk
  BY <1>6, Chunks
<1>7. CASE SidecarExits
  <2>1. /\ UNCHANGED <<phase, handshake, handshake_waiter, pending, next_id, mail, open_at>>
        /\ UNCHANGED <<asked, started>>
    BY <1>7 DEF SidecarExits, Elsewhere, phases
  <2> QED BY <2>1, QuietSteps
<1>8. CASE HandleExitStatus
  BY <1>8, ExitStatuses
<1>9. CASE HandleDeadline
  BY <1>9, Deadlines
<1>10. CASE UNCHANGED alone_vars
  <2>1. /\ UNCHANGED <<phase, handshake, handshake_waiter, pending, next_id, mail, open_at>>
        /\ UNCHANGED <<asked, started>>
    BY <1>10 DEF alone_vars, transport_vars, phases
  <2> QED BY <2>1, QuietSteps
<1> QED BY <1>1, <1>2, <1>3, <1>4, <1>5, <1>6, <1>7, <1>8, <1>9, <1>10 DEF AloneNext

\* The strengthened invariant.
THEOREM Handled == AloneSpec => []TransportInv
<1>1. AloneInit => TransportInv
  BY TransportInvInit
<1>2. TransportInv /\ [AloneNext]_alone_vars => TransportInv'
  BY TransportInvStep
<1> QED BY <1>1, <1>2, PTL DEF AloneSpec

\* Whatever the far end sends and however the timers and the exit fall, every call,
\* start_link's among them, is completed exactly once and by no frame but its own
\* (fail_outstanding, deliver_response, deliver_ack, handle_info's deadlines).
THEOREM EachAnsweredOnce == AloneSpec => []EachCallIsAnsweredOnce
<1>1. TransportInv => EachCallIsAnsweredOnce
  BY DEF TransportInv
<1> QED BY <1>1, Handled, PTL

\* The owner is told of the end once, after the handshake, and after every call
\* made by then has its answer (poison, announce).
THEOREM OwnerHearsLast == AloneSpec => []TheNewsComesLast
<1>1. TransportInv => TheNewsComesLast
  BY DEF TransportInv
<1> QED BY <1>1, Handled, PTL

-----------------------------------------------------------------------------
(* The two grammars.                                                       *)


\* What a request holds of the params it was built from.
LEMMA SentIs ==
  ASSUME NEW p \in Params
  PROVE  /\ Sent(p).action = p.action /\ Sent(p).query = p.query
         /\ Sent(p).until = p.until /\ Sent(p).kind = p.kind
         /\ Sent(p).check = p.check
         /\ Sent(p).checked = p.checked /\ Sent(p).checked_kind = p.checked_kind
         /\ \A f \in Fields :
              Sent(p).top[f] = IF f \in Carries(p.action, p.top) THEN PutAs(f, p.top[f])
                               ELSE "absent"
<1>1. Sent(p).top = SentFields(p.action, p.top)
  BY DEF Sent, Params
<1>2. \A f \in Fields :
        SentFields(p.action, p.top)[f] =
          IF f \in Carries(p.action, p.top) THEN PutAs(f, p.top[f]) ELSE "absent"
  BY DEF SentFields
<1> QED BY <1>1, <1>2 DEF Sent, Params

\* A condition the library lets through is one the helper reads, its timeout apart.
LEMMA UntilsAgree ==
  ASSUME NEW v, NEW k \in Kinds, NEW u \in [UntilFields -> Values], NEW l \in BOOLEAN,
         UntilAccepted(v, k, u, l), u["timeout_ms"] # "null"
  PROVE  UntilRead(v, k, u, l)
<1>1. CASE k = "appears"
  BY <1>1 DEF UntilAccepted, UntilRead, OnlyItsOwn, UntilReads, ByReference, ByFinding, Takes, FindAccepted,
              FindRead, Has, Optional, UntilFields, FindFields, Named, Text
<1>2. CASE k = "disappears"
  BY <1>2 DEF UntilAccepted, UntilRead, OnlyItsOwn, UntilReads, ByReference, ByFinding, Takes, FindAccepted,
              FindRead, Has, Optional, UntilFields, FindFields, Named, Text
<1>3. CASE k \in {"enabled", "value"}
  BY <1>3 DEF UntilAccepted, UntilRead, OnlyItsOwn, UntilReads, ByReference, ByFinding, Takes, Has, Optional,
              UntilFields, FindFields, Named, Text
<1>4. CASE k \in {"window_title", "text"}
  BY <1>4 DEF UntilAccepted, UntilRead, OnlyItsOwn, UntilReads, ByReference, ByFinding, Takes, Has, Optional,
              UntilFields, FindFields, Named, Text
<1>5. CASE k \in {"menu_open", "menu_closed"}
  BY <1>5 DEF UntilAccepted, UntilRead, OnlyItsOwn, UntilReads, ByReference, ByFinding, Takes, Has, Optional,
              UntilFields, FindFields, Named, Text
<1> QED BY <1>1, <1>2, <1>3, <1>4, <1>5 DEF Kinds

\* What a request is aimed at reads as the params said it.
LEMMA AimsAgree ==
  ASSUME NEW p \in Params, AddressingAccepted(p.action, p.top), BindingAccepted(p.action, p.top),
         ArgumentsAccepted(p)
  PROVE  HelperAims(Sent(p)) = CallerAims(p)
<1> DEFINE t == p.top
           q == Sent(p).top
           a == p.action
<1>1. t \in [Fields -> Values] /\ a \in LibraryActions
  BY DEF Params
<1>2. q["observation_id"] = PutAs("observation_id", t["observation_id"])
      /\ q["target_id"] = PutAs("target_id", t["target_id"])
  BY SentIs DEF Carries, Fields
<1>3. Given(q, "observation_id") = Named(t, "observation_id")
  BY <1>1, <1>2 DEF PutAs, Given, Named, AddressingAccepted, Addressed, Viewing, Has, Fields, Values
<1>4. Given(q, "target_id") = Named(t, "target_id")
  BY <1>1, <1>2 DEF PutAs, Given, Named, BindingAccepted, Has, Fields, Values
<1>5. Given(q, "element_ref") = Named(t, "element_ref")
  <2>1. CASE a \in PointOrElement
    BY <1>1, <2>1, SentIs DEF Carries, PutAs, Given, Named, Fields, Values, PointOrElement,
       ElementActions
  <2>2. CASE a \in ElementActions \cup {"type"}
    BY <1>1, <2>2, SentIs DEF Carries, PutAs, Given, Named, Fields, Values, PointOrElement,
       ElementActions, ArgumentsAccepted, Has
  <2>3. CASE a \notin PointOrElement \cup ElementActions \cup {"type"}
    <3>1. ~Has(t, "element_ref")
      BY <1>1, <2>3 DEF AddressingAccepted, TargetAccepted
    <3> QED BY <1>1, <2>3, <3>1, SentIs DEF Carries, PutAs, Given, Named, Fields, Has
  <2> QED BY <2>1, <2>2, <2>3
<1> QED BY <1>3, <1>4, <1>5 DEF HelperAims, CallerAims

\* The first thing the helper reads of a request: what it is aimed at.
LEMMA AddressingAgrees ==
  ASSUME NEW p \in Params, AddressingAccepted(p.action, p.top), BindingAccepted(p.action, p.top),
         ArgumentsAccepted(p)
  PROVE  AddressingRead(p.action, Sent(p).top) /\ BindingRead(p.action, Sent(p).top)
<1> DEFINE t == p.top
           q == Sent(p).top
           a == p.action
<1>1. t \in [Fields -> Values] /\ a \in LibraryActions
  BY DEF Params
<1>2. /\ Given(q, "observation_id") = Named(t, "observation_id")
      /\ Given(q, "element_ref") = Named(t, "element_ref")
      /\ Given(q, "target_id") = Named(t, "target_id")
  BY AimsAgree DEF HelperAims, CallerAims
<1>3. /\ q["observation_id"] = PutAs("observation_id", t["observation_id"])
      /\ q["target_id"] = PutAs("target_id", t["target_id"])
      /\ q["element_ref"] \in {"absent", PutAs("element_ref", t["element_ref"])}
  BY SentIs DEF Carries, Fields
<1>4. NonEmpty(q, "observation_id") /\ NonEmpty(q, "target_id") /\ NonEmpty(q, "element_ref")
  BY <1>2, <1>3 DEF NonEmpty, PutAs, Given, Named
<1>5. BindingRead(a, q)
  BY <1>2, <1>4 DEF BindingRead, BindingAccepted, Has, Named
<1>6. ASSUME a = "type"
      PROVE  /\ ~Has(q, "x") /\ ~Has(q, "y") /\ ~Has(q, "region")
             /\ Named(t, "element_ref") = Named(t, "observation_id")
  <2>1. ~Has(q, "x") /\ ~Has(q, "y") /\ ~Has(q, "region")
    BY <1>6, SentIs DEF Carries, Fields, Has, PointOrElement, Viewing, Addressed
  <2>2. Named(t, "element_ref") = Named(t, "observation_id")
    BY <1>6 DEF AddressingAccepted, ArgumentsAccepted, Has, Named
  <2> QED BY <2>1, <2>2
<1>7. ASSUME a \in Addressed
      PROVE  /\ ~Has(q, "region") /\ Named(t, "observation_id")
             /\ ~(Named(t, "element_ref") /\ HasPoint(q))
             /\ a \in ElementActions => Named(t, "element_ref")
             /\ Named(t, "element_ref") => a \in ElementActions \cup PointOrElement
  <2>1. ~Has(q, "region")
    BY <1>7, SentIs DEF Carries, Fields, Has, Viewing, Addressed
  <2>2. TargetAccepted(a, t) /\ Named(t, "observation_id")
    BY <1>7 DEF AddressingAccepted
  <2>3. HasPoint(q) => HasPoint(t)
    BY SentIs DEF HasPoint, Has, Fields, PutAs
  <2>4. ~(Named(t, "element_ref") /\ HasPoint(t))
    BY <2>2 DEF TargetAccepted, Named, Has
  <2> QED BY <2>1, <2>2, <2>3, <2>4 DEF TargetAccepted, Named, Has
<1>8. ASSUME a \in Viewing \/ a \notin Addressed \cup Viewing \cup {"type"}
      PROVE  ~Named(t, "element_ref")
  BY <1>8 DEF AddressingAccepted, Has, Named, Viewing, Addressed
<1>9. ASSUME a \notin Addressed \cup Viewing \cup {"type"}
      PROVE  ~Named(t, "observation_id")
  BY <1>9 DEF AddressingAccepted, Has, Named
<1>10. AddressingRead(a, q)
  BY <1>2, <1>4, <1>6, <1>7, <1>8, <1>9 DEF AddressingRead
<1> QED BY <1>5, <1>10

\* What evidence it is to bring back, and what it waits on.
LEMMA EvidenceAgrees ==
  ASSUME NEW p \in Params, LibraryAccepts(p), ~NullTimeout(p)
  PROVE  EvidenceRead(Sent(p)) /\ WaitedOn(Sent(p)) /\ ~Has(Sent(p).top, "screenshot_after")
<1> DEFINE t == p.top
           q == Sent(p).top
           a == p.action
<1>1. /\ t \in [Fields -> Values] /\ a \in LibraryActions /\ p.kind \in Kinds
      /\ p.checked_kind \in Kinds /\ p.until \in [UntilFields -> Values]
      /\ p.checked \in [UntilFields -> Values]
  BY DEF Params
<1>2. /\ Given(q, "observation_id") = Named(t, "observation_id")
      /\ Given(q, "element_ref") = Named(t, "element_ref")
  BY AimsAgree DEF HelperAims, CallerAims, LibraryAccepts
<1>3. q["check"] = PutAs("check", t["check"])
  BY SentIs DEF Carries, Fields
<1>4. ~Has(q, "screenshot_after")
  BY SentIs DEF Carries, Fields, Has
<1>5. Named(t, "observation_id") \in BOOLEAN
  BY DEF Named
<1>6. ASSUME Has(q, "check") PROVE Has(t, "check") /\ t["check"] = q["check"]
  BY <1>3, <1>6 DEF Has, PutAs
<1>7. ASSUME t["check"] = "object",
             UntilAccepted(p.check["until"], p.checked_kind, p.checked, Named(t, "observation_id"))
      PROVE  UntilRead(p.check["until"], p.checked_kind, p.checked, Named(t, "observation_id"))
  BY <1>1, <1>5, <1>7, UntilsAgree DEF NullTimeout
<1>8. ASSUME CarriesMutationSeq(a) PROVE TakesACheck(a)
  BY <1>1, <1>8 DEF CarriesMutationSeq, TakesACheck, TouchesInput, LibraryActions
<1>9. EvidenceRead(Sent(p))
  <2>1. SUFFICES ASSUME Has(q, "check")
                 PROVE  /\ TakesACheck(a)
                        /\ \/ q["check"] = "known"
                           \/ q["check"] = "semantic" /\ Given(q, "element_ref")
                           \/ /\ q["check"] = "object"
                              /\ p.check["kind"] = "semantic" /\ ~Has(p.check, "stray")
                              /\ UntilRead(p.check["until"], p.checked_kind, p.checked,
                                           Given(q, "observation_id"))
    BY SentIs DEF EvidenceRead
  <2>2. EvidenceAccepted(p)
    BY DEF LibraryAccepts
  <2> QED BY <1>2, <1>6, <1>7, <1>8, <2>1, <2>2 DEF EvidenceAccepted
<1>10. WaitedOn(Sent(p))
  <2>1. CASE a = "wait_for"
    <3>1. q["until"] = PutAs("until", t["until"])
      BY <2>1, SentIs DEF Carries, Fields
    <3>2. UntilAccepted(t["until"], p.kind, p.until, Named(t, "observation_id"))
      BY <2>1 DEF LibraryAccepts, ArgumentsAccepted
    <3>3. q["until"] = t["until"]
      BY <3>1, <3>2 DEF UntilAccepted, PutAs
    <3>4. UntilRead(q["until"], p.kind, p.until, Named(t, "observation_id"))
      BY <1>1, <1>5, <2>1, <3>2, <3>3, UntilsAgree DEF NullTimeout
    <3> QED BY <1>2, <2>1, <3>4, SentIs DEF WaitedOn
  <2>2. CASE a # "wait_for"
    BY <2>2, SentIs DEF WaitedOn, Carries, Fields, Has
  <2> QED BY <2>1, <2>2
<1> QED BY <1>4, <1>9, <1>10

\* Each action finds the arguments it reads.
LEMMA ArgumentsAgree ==
  ASSUME NEW p \in Params, LibraryAccepts(p), ~UnknownKey(p)
  PROVE  HelperReads(Sent(p))
<1> DEFINE t == p.top
           q == Sent(p).top
           a == p.action
<1>1. t \in [Fields -> Values] /\ a \in LibraryActions /\ ArgumentsAccepted(p)
  BY DEF Params, LibraryAccepts
<1>2. Given(q, "element_ref") = Named(t, "element_ref")
  BY AimsAgree DEF HelperAims, CallerAims, LibraryAccepts
<1>3. ASSUME a \in PointOrElement, ~Given(q, "element_ref")
      PROVE  Number(q, "x") /\ Number(q, "y")
  <2>1. Fit(t, "x") /\ Fit(t, "y")
    BY <1>1, <1>2, <1>3 DEF ArgumentsAccepted, PointerAccepted
  <2>2. q["x"] = PutAs("x", t["x"]) /\ q["y"] = PutAs("y", t["y"])
    BY <1>2, <1>3, SentIs DEF Carries, Fields
  <2> QED BY <2>1, <2>2 DEF Fit, Number, PutAs
<1>4. ASSUME a = "inspect" PROVE Number(q, "x") /\ Number(q, "y")
  BY <1>1, <1>4, SentIs DEF ArgumentsAccepted, Carries, Fields, Fit, Number, PutAs
<1>5. ASSUME a = "left_click_drag" PROVE Shape(q, "from") /\ Shape(q, "to")
  BY <1>1, <1>5, SentIs DEF ArgumentsAccepted, Carries, Fields, Shape, PutAs
<1>6. ASSUME a = "scroll" PROVE q["direction"] = "known" /\ q["amount"] \in {"absent", "fit"}
  BY <1>1, <1>6, SentIs DEF ArgumentsAccepted, Carries, Fields, Fit, PutAs
<1>7. ASSUME a = "set_value" PROVE Text(q, "value")
  BY <1>1, <1>7, SentIs DEF ArgumentsAccepted, Carries, Fields, Text, Named, PutAs
<1>8. ASSUME a = "toggle" PROVE q["on"] \in {"false", "true"}
  BY <1>1, <1>8, SentIs DEF ArgumentsAccepted, Carries, Fields, PutAs
<1>9. ASSUME a \in {"paste", "type"} PROVE Text(q, "text") /\ Named(q, "text")
  BY <1>1, <1>9, SentIs DEF ArgumentsAccepted, Carries, Fields, Text, Named, PutAs
<1>10. ASSUME a = "key" PROVE q["chord"] = "known"
  BY <1>1, <1>10, SentIs DEF ArgumentsAccepted, UnknownKey, Carries, Fields, PutAs
<1>11. ASSUME a = "select_target" PROVE Fit(q, "window_id")
  BY <1>1, <1>11, SentIs DEF ArgumentsAccepted, Carries, Fields, Fit, PutAs
<1>12. ASSUME a \in Viewing PROVE q["region"] \in {"absent", "null"} \/ Shape(q, "region")
  BY <1>1, <1>12, SentIs DEF ArgumentsAccepted, Carries, Fields, Optional, Shape, PutAs
<1>13. ASSUME a = "screenshot"
       PROVE  /\ q["annotate_point"] \in {"absent", "null"} \/ Shape(q, "annotate_point")
              /\ Optional(q, "jpeg_quality", {"fit"})
  BY <1>1, <1>13, SentIs DEF ArgumentsAccepted, Carries, Fields, Optional, Shape, PutAs
<1>14. ASSUME a = "elements" PROVE ListingRead(Sent(p))
  <2>1. \A f \in {"scope", "query", "skeleton", "root", "observation_id"} : q[f] = PutAs(f, t[f])
    BY <1>14, SentIs DEF Carries, Fields
  <2>2. ListingAccepted(p)
    BY <1>1, <1>14 DEF ArgumentsAccepted
  <2>3. /\ q["scope"] \in {"absent", "known"}
        /\ q["skeleton"] \in {"absent", "false", "true"}
        /\ ~(q["skeleton"] = "true" /\ Has(q, "query"))
    BY <2>1, <2>2 DEF ListingAccepted, Has, Optional, PutAs
  <2>4. ASSUME Has(q, "root")
        PROVE  Named(q, "root") /\ ~Has(q, "scope") /\ Has(q, "observation_id")
    BY <2>1, <2>2, <2>4 DEF ListingAccepted, Has, Named, PutAs
  <2>5. ASSUME Has(q, "query")
        PROVE  q["query"] = "object" /\ ~Has(p.query, "stray") /\ FindRead(p.query)
    <3>1. Has(t, "query")
      BY <2>1, <2>5 DEF Has, PutAs
    <3>2. t["query"] = "object" /\ ~Has(p.query, "stray") /\ FindAccepted(p.query)
      BY <2>2, <3>1 DEF ListingAccepted, QueryAccepted
    <3>3. FindRead(p.query)
      BY <3>2 DEF FindAccepted, FindRead, Has
    <3> QED BY <2>1, <3>2, <3>3 DEF PutAs
  <2> QED BY <2>3, <2>4, <2>5, SentIs DEF ListingRead
<1> HIDE DEF q
<1> QED
  BY <1>3, <1>4, <1>5, <1>6, <1>7, <1>8, <1>9, <1>10, <1>11, <1>12, <1>13, <1>14, SentIs
  DEF HelperReads, q

(***************************************************************************)
(* What the library lets through, the helper takes, whatever the params:   *)
(* two validators written apart, in two languages, agree in the direction  *)
(* that matters.                                                           *)
(***************************************************************************)
THEOREM GrammarsAgree == \A p \in Params : WhatIsSentIsTaken(p)
<1> SUFFICES ASSUME NEW p \in Params, LibraryAccepts(p), ~NullTimeout(p), ~UnknownKey(p)
             PROVE  HelperParses(Sent(p)) /\ HelperReads(Sent(p))
  BY DEF WhatIsSentIsTaken
<1>1. AddressingRead(p.action, Sent(p).top) /\ BindingRead(p.action, Sent(p).top)
  BY AddressingAgrees DEF LibraryAccepts
<1>2. HelperReads(Sent(p))
  BY ArgumentsAgree
<1> QED BY <1>1, <1>2, EvidenceAgrees, SentIs DEF HelperParses

(***************************************************************************)
(* And what the helper acts on is what the caller named.                   *)
(***************************************************************************)
THEOREM AimsAreKept == \A p \in Params : AimIsKept(p)
BY AimsAgree DEF AimIsKept, LibraryAccepts
=============================================================================
