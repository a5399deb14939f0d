--------------------------- MODULE TransportAlone ---------------------------
(***************************************************************************)
(* The transport with nothing assumed of what is at the far end of its     *)
(* Port: any frame may come next, whole or in fragments, and the process   *)
(* may exit at any moment.  Clients call whenever they like; start_link    *)
(* is call 0 and the others are numbered in the order they are handled.    *)
(***************************************************************************)
EXTENDS Transport, FiniteSets

CONSTANTS
  Actions,    \* the actions clients ask for
  Controls,   \* the controls they send
  Frames,     \* what a line may decode to
  ChunkBytes, \* the sizes a chunk may have
  MaxCalls,   \* bound: calls in one behaviour
  MaxChunks   \* bound: chunks in one behaviour

VARIABLES
  started,    \* start_link has asked for the handshake
  asked,      \* history: the id each call would be written under
  open_at,    \* history: the calls that had been made when the owner was told
  chunks      \* how many chunks came

alone_vars == <<transport_vars, started, asked, open_at, chunks>>

AloneInit ==
  /\ TransportInit
  /\ started = FALSE /\ asked = <<>> /\ open_at = 0
  /\ chunks = 0

\* Where in the mail the owner is told of the end, and where a call is answered.
Exits == {i \in DOMAIN mail : mail[i].kind = "exit"}

RepliesTo(call) == {i \in DOMAIN mail : mail[i].kind = "reply" /\ mail[i].to = call}

\* When a step tells the owner of an exit, note how many calls came before.
NoteNews == open_at' = IF Exits' # Exits THEN Len(asked) ELSE open_at

Client(step(_)) ==
  /\ Len(asked) < MaxCalls
  /\ asked' = Append(asked, next_id)
  /\ step(Len(asked) + 1)
  /\ NoteNews
  /\ UNCHANGED <<started, chunks>>

CallRequest == \E action \in Actions, fits \in BOOLEAN :
                 Client(LAMBDA from : AdmitRequest(from, action, fits))
CallControl == \E action \in Controls : Client(LAMBDA from : AdmitControl(from, action))
CallStop    == Client(Stop)

StartLink ==
  /\ ~started /\ started' = TRUE
  /\ AwaitHandshake(0)
  /\ UNCHANGED <<asked, open_at, chunks>>

\* start_link was answered with an error and stops the transport.
Abandon ==
  /\ phase # "stopped"
  /\ \E i \in DOMAIN mail : mail[i].kind = "reply" /\ mail[i].to = 0 /\ mail[i].what # "ok"
  /\ phase' = "stopped"
  /\ UNCHANGED <<handshake, handshake_waiter, pending, next_id, envelope, acc_size, timers,
                 port, outbox, mail, started, asked, open_at, chunks>>

Chunk ==
  /\ chunks < MaxChunks /\ chunks' = chunks + 1
  /\ \E kind \in {"eol", "noeol"}, bytes \in ChunkBytes, frame \in Frames :
       /\ Absorb(kind, bytes, frame)
  /\ NoteNews
  /\ UNCHANGED <<started, asked>>

Elsewhere == UNCHANGED <<started, asked, chunks>>

\* The sidecar ends by itself; its status waits in the mailbox.
SidecarExits ==
  /\ port = "open" /\ port' = "exited"
  /\ UNCHANGED <<phases, pending, next_id, envelope, acc_size, timers, outbox, mail, open_at>>
  /\ Elsewhere

HandleExitStatus == SidecarExited /\ NoteNews /\ Elsewhere

HandleDeadline == (\E id \in timers : Deadline(id)) /\ NoteNews /\ Elsewhere

AloneNext ==
  \/ CallRequest \/ CallControl \/ CallStop \/ StartLink \/ Abandon
  \/ Chunk \/ SidecarExits \/ HandleExitStatus \/ HandleDeadline

AloneSpec == AloneInit /\ [][AloneNext]_alone_vars

\* The BEAM delivers timer messages and exit statuses, and a GenServer handles
\* what is delivered.  Nothing is assumed of the sidecar or of the clients.
Delivers ==
  WF_alone_vars(HandleDeadline) /\ WF_alone_vars(HandleExitStatus)

FairAloneSpec == AloneSpec /\ Delivers
-----------------------------------------------------------------------------
(* Properties. *)

Calls == 1 .. Len(asked)

Waiting ==
  (IF pending_request.kind = "action" THEN {pending_request.from} ELSE {})
    \cup {pending_controls[i].from : i \in DOMAIN pending_controls}
    \cup {handshake_waiter}

\* Every outstanding call, start_link's wait for the handshake among them, is
\* completed once: on its reply, its deadline, the sidecar's exit, a poison or a
\* stop, whichever comes first and however many of them come; and a frame only ever
\* completes the call whose id it names: a reply that lost its race with its deadline
\* cannot answer the request that comes next.
EachCallIsAnsweredOnce ==
  \A call \in Calls \cup (IF started THEN {0} ELSE {}) :
    IF call \in Waiting THEN RepliesTo(call) = {}
    ELSE \E i \in DOMAIN mail :
           /\ RepliesTo(call) = {i}
           /\ call # 0 /\ mail[i].what = "answered" => mail[i].id = asked[call]

\* The owner is told of the end once, never before the handshake is over, and
\* after every call made by then had its answer.
TheNewsComesLast ==
  /\ \A i, j \in Exits : i = j
  /\ \A i \in Exits :
       /\ handshake = "ok"
       /\ \A call \in 1 .. open_at : \E j \in 1 .. i - 1 :
            mail[j].kind = "reply" /\ mail[j].to = call

\* A call is answered whatever the sidecar does, silence included.
EveryCallIsAnswered ==
  \A call \in 1 .. MaxCalls :
    (call \in Calls) ~> (\E i \in DOMAIN mail : mail[i].kind = "reply" /\ mail[i].to = call)

\* The owner is told whenever the sidecar ends by itself after the handshake,
\* unless it stopped the transport first.
TheOwnerIsTold ==
  (port = "exited" /\ handshake = "ok") ~> (Exits # {} \/ phase = "stopped")
=============================================================================
