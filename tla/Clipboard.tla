------------------------------ MODULE Clipboard ------------------------------
(***************************************************************************)
(* The X CLIPBOARD as paste uses it (clipboard.rs, selection.rs).  The     *)
(* worker reads the person's text, owns the selection with what it pastes, *)
(* and owns it again with what it read.  A thread of the helper's answers  *)
(* whoever asks, and hands over what other applications answer.  Both use  *)
(* one connection and one locked record; the server keeps who owns the     *)
(* selection, the properties texts travel in, and what it has to tell      *)
(* compux, in order.  A text is the sequence of its parts, a part what one *)
(* property carries in an INCR transfer.                                   *)
(***************************************************************************)
EXTENDS Naturals, Sequences

SX == INSTANCE SequencesExt
FX == INSTANCE Functions

CONSTANTS
  None,
  Compux,       \* the helper's window
  Apps,         \* the other applications
  Copyable,     \* the texts a person may copy
  Pasted,       \* the texts a caller may paste
  Parts,        \* how many parts a text has
  MaxParts,     \* MAX_TEXT_BYTES: parts of the largest text compux keeps
  MaxTransfers, \* MAX_TRANSFERS
  MaxUses,      \* bound: times an application asks, a paste counting for two
  MaxCopies     \* bound: times an application takes the selection

Text    == Seq((Copyable \cup Pasted) \X Nat)
Value   == [type : {"none", "text", "incr"}, parts : Text]
Reading == [read : Nat, got : Text \cup {None}]
Answer  == [found : BOOLEAN, text : Text]

ASSUME ClipboardAssumption ==
  /\ None \notin Text \cup Value \cup Reading \cup Answer
  /\ Compux \notin Apps /\ None \notin Apps \cup {Compux}
  /\ \A t \in Copyable \cup Pasted : Parts[t] \in Nat \ {0}
  /\ \A t \in Pasted : Parts[t] <= MaxParts
  /\ MaxParts \in Nat /\ MaxTransfers \in Nat \ {0}

VARIABLES
  owner,     \* the server: who owns the selection
  landing,   \* the property of compux's window texts arrive in
  place,     \* the property each application has its answer put in
  events,    \* what the server has to tell compux
  owned,     \* Shared: the text compux serves
  transfers, \* Shared: INCR transfers in flight, oldest first
  reading,   \* Shared: the read in progress
  thread,    \* the clipboard thread: the event it is at
  worker,    \* the worker's paste
  holds,     \* what each application serves while it owns
  sending,   \* what compux asked of applications, in order
  asking,    \* what each application asked of compux, and got
  copies,    \* times the selection was taken by an application
  put,       \* history: every text compux has served
  unread     \* history: the reads that ended without the text asked for

server_vars == <<owner, landing, place, events>>
shared_vars == <<owned, transfers, reading>>
app_vars    == <<holds, sending, asking, copies>>
history     == <<put, unread>>
vars == <<server_vars, shared_vars, thread, worker, app_vars, history>>

Whole(t) == [i \in 1 .. Parts[t] |-> <<t, i>>]

Waits == [at |-> "waits"]
Idle  == [at |-> "idle", pastes |-> 0, read |-> 0, prior |-> None, answer |-> None,
          text |-> None, restores |-> FALSE]

ClipboardInit ==
  /\ owner \in Apps \cup {None}
  /\ landing = None /\ place = [a \in Apps |-> None] /\ events = <<>>
  /\ owned = None /\ transfers = <<>> /\ reading = None
  /\ thread = Waits /\ worker = Idle
  /\ holds \in [Apps -> Copyable]
  /\ sending = <<>> /\ copies = 0
  /\ asking = [a \in Apps |-> [at |-> "idle", ask |-> 0, got |-> <<>>]]
  /\ put = {} /\ unread = {}

Uses == FX!FoldFunction(LAMBDA a, n : n + a.ask, 2 * worker.pastes, asking)
MayAsk   == Uses < MaxUses
MayPaste == Uses + 1 < MaxUses

Server == UNCHANGED server_vars
Shared == UNCHANGED shared_vars
Others == UNCHANGED app_vars

\* ---- the worker: text ----------------------------------------------------------------

Goes(at) == worker' = [worker EXCEPT !.at = at]

\* Who owns the selection decides where the person's text is read.
StartPaste ==
  /\ worker.at = "idle" /\ MayPaste
  /\ \E t \in Pasted :
       LET w == [worker EXCEPT !.pastes = @ + 1, !.text = Whole(t), !.prior = None,
                                !.answer = None, !.restores = FALSE]
       IN  \/ owner = None   /\ worker' = [w EXCEPT !.at = "own"]    /\ UNCHANGED reading
           \/ owner = Compux /\ worker' = [w EXCEPT !.at = "served"] /\ UNCHANGED reading
           \/ /\ owner \in Apps
              /\ worker' = [w EXCEPT !.at = "convert", !.read = @ + 1]
              /\ reading' = [read |-> worker.read + 1, got |-> None]
  /\ Server /\ Others /\ UNCHANGED <<owned, transfers, thread, history>>

ReadsItsOwn ==
  /\ worker.at = "served"
  /\ worker' = [worker EXCEPT !.at = "own", !.prior = owned]
  /\ Server /\ Shared /\ Others /\ UNCHANGED <<thread, history>>

\* convert_selection: the server asks whoever owns the selection by now.
Converts ==
  /\ worker.at = "convert"
  /\ Goes("waiting")
  /\ IF owner \in Apps
     THEN /\ sending' = Append(sending, [app |-> owner, text |-> holds[owner], at |-> "asked",
                                         read |-> worker.read, sent |-> 0, deletes |-> 0])
          /\ UNCHANGED events
     ELSE events' = Append(events, [kind |-> "notify", found |-> FALSE]) /\ UNCHANGED sending
  /\ Shared /\ UNCHANGED <<owner, landing, place, thread, holds, asking, copies, history>>

\* recv_timeout: the answer, or no more patience.
Hears ==
  /\ worker.at = "waiting" /\ worker.answer # None
  /\ worker' = [worker EXCEPT !.at = "clear",
                  !.prior = IF worker.answer.found THEN worker.answer.text ELSE None]
  /\ Server /\ Shared /\ Others /\ UNCHANGED <<thread, history>>

GivesUpReading ==
  /\ worker.at = "waiting" /\ worker.answer = None
  /\ Goes("clear")
  /\ Server /\ Shared /\ Others /\ UNCHANGED <<thread, history>>

ClearsReading ==
  /\ worker.at = "clear"
  /\ Goes("own") /\ reading' = None
  /\ unread' = IF worker.prior = None THEN unread \cup {worker.read} ELSE unread
  /\ Server /\ Others /\ UNCHANGED <<owned, transfers, thread, put>>

\* ---- the worker: own -----------------------------------------------------------------

\* What is served changes before the selection is taken.
PutsText ==
  /\ worker.at = "own"
  /\ Goes("claim")
  /\ owned' = worker.text /\ put' = put \cup {worker.text}
  /\ Server /\ Others /\ UNCHANGED <<transfers, reading, thread, unread>>

ClaimsSelection ==
  /\ worker.at = "claim"
  /\ Goes("prove") /\ owner' = Compux
  /\ Shared /\ Others /\ UNCHANGED <<landing, place, events, thread, history>>

\* A failed own ends the paste with nothing armed; a failed restore is only said.
ProvesOwner ==
  /\ worker.at = "prove"
  /\ Goes(IF owner = Compux /\ ~worker.restores THEN "pasted" ELSE "idle")
  /\ Server /\ Shared /\ Others /\ UNCHANGED <<thread, history>>

\* The keystroke and the dwell are over: what was read is put back.
Restores ==
  /\ worker.at = "pasted"
  /\ IF worker.prior = None THEN Goes("idle")
     ELSE worker' = [worker EXCEPT !.at = "own", !.text = worker.prior, !.restores = TRUE]
  /\ Server /\ Shared /\ Others /\ UNCHANGED <<thread, history>>

\* Drop: the thread is told to stop, and joined.
Stops ==
  /\ worker.at = "idle" /\ worker.pastes > 0
  /\ Goes("stopped")
  /\ events' = Append(events, [kind |-> "stop"])
  /\ Shared /\ Others /\ UNCHANGED <<owner, landing, place, thread, history>>

WorkerNext ==
  \/ StartPaste \/ ReadsItsOwn \/ Converts \/ Hears \/ GivesUpReading
  \/ ClearsReading \/ PutsText \/ ClaimsSelection \/ ProvesOwner \/ Restores \/ Stops
-----------------------------------------------------------------------------
(* The thread: serve. *)

Next_(kind) == thread.at = "waits" /\ events # <<>> /\ Head(events).kind = kind
Taken == events' = Tail(events)
Turns(to) == thread' = to

\* SelectionClear: an application took the selection.
LosesSelection ==
  /\ Next_("clear") /\ Taken
  /\ owned' = None
  /\ Others /\ UNCHANGED <<owner, landing, place, transfers, reading, thread, worker, history>>

\* answer_request: the text as it is when the request is met.
MeetsRequest ==
  /\ Next_("request") /\ Taken
  /\ Turns([at |-> "answer", app |-> Head(events).app, ask |-> Head(events).ask, text |-> owned])
  /\ Shared /\ Others /\ UNCHANGED <<owner, landing, place, worker, history>>

\* An application has one transfer at most.
Of(app)      == {i \in DOMAIN transfers : transfers[i].app = app}
Without(app) == IF Of(app) = {} THEN transfers
                ELSE SX!RemoveAt(transfers, CHOOSE i \in Of(app) : TRUE)

\* Transfers::start: one at a place, and the oldest goes when there is no room.
Started(app, text) ==
  LET rest == Without(app)
  IN  Append(IF Len(rest) >= MaxTransfers THEN Tail(rest) ELSE rest,
             [app |-> app, text |-> text, sent |-> 0])

\* SelectionNotify: an application told of an answer it no longer waits for drops it.
Told(app, ask, found) ==
  IF asking[app].at = "asked" /\ asking[app].ask = ask
  THEN [asking EXCEPT ![app].at = IF found THEN "told" ELSE "idle"]
  ELSE asking

\* answer, write_answer, start_incr, and the notify.
Answers ==
  /\ thread.at = "answer" /\ Turns(Waits)
  /\ LET app == thread.app  text == thread.text  IN
       \/ text = None /\ UNCHANGED <<place, transfers>>
       \/ /\ text # None /\ Len(text) <= 1
          /\ place' = [place EXCEPT ![app] = [type |-> "text", parts |-> text]]
          /\ UNCHANGED transfers
       \/ /\ text # None /\ Len(text) > 1
          /\ place' = [place EXCEPT ![app] = [type |-> "incr", parts |-> <<>>]]
          /\ transfers' = Started(app, text)
  /\ asking' = Told(thread.app, thread.ask, thread.text # None)
  /\ UNCHANGED <<owner, landing, events, owned, reading, worker, holds, sending, copies, history>>

\* What is sent is of the text the transfer began with.
NextPart_OfNow(t) == IF owned = None THEN t.text[t.sent + 1] ELSE owned[t.sent + 1]

NextPart(t) == t.text[t.sent + 1]

\* next_chunk, Transfers::deleted: the next part, the empty one at the end.
SendsPart ==
  /\ Next_("deleted") /\ Taken
  /\ LET app == Head(events).app  IN
       \/ Of(app) = {} /\ UNCHANGED <<place, transfers>>
       \/ \E i \in Of(app) :
            LET t == transfers[i]  over == t.sent = Len(t.text)  IN
            /\ place' = [place EXCEPT ![app] =
                 [type |-> "text", parts |-> IF over THEN <<>> ELSE <<NextPart(t)>>]]
            /\ transfers' = IF over THEN SX!RemoveAt(transfers, i)
                            ELSE [transfers EXCEPT ![i].sent = @ + 1]
  /\ Others /\ UNCHANGED <<owner, landing, owned, reading, thread, worker, history>>

\* The read in progress takes an INCR transfer.
InParts == IF reading = None THEN FALSE ELSE reading.got # None

\* finish_read: whatever read is in progress gets the answer; a worker that stopped
\* waiting for it does not hear.
FinishesRead(found, text) ==
  /\ reading' = None
  /\ worker' = IF reading # None /\ worker.at = "waiting" /\ worker.read = reading.read
               THEN [worker EXCEPT !.answer = [found |-> found, text |-> text]]
               ELSE worker

\* converted: the owner answered, or refused.
MeetsNotify ==
  /\ Next_("notify") /\ Taken
  /\ IF Head(events).found
     THEN Turns([at |-> "take", then |-> "converted"]) /\ UNCHANGED <<reading, worker>>
     ELSE FinishesRead(FALSE, <<>>) /\ UNCHANGED thread
  /\ Others /\ UNCHANGED <<owner, landing, place, owned, transfers, history>>

\* landed_chunk: something landed; only a read in chunks looks.
MeetsLanded_Always ==
  /\ Next_("landed") /\ Taken
  /\ Turns(IF reading # None THEN [at |-> "take", then |-> "chunk"] ELSE Waits)
  /\ Shared /\ Others /\ UNCHANGED <<owner, landing, place, worker, history>>

MeetsLanded ==
  /\ Next_("landed") /\ Taken
  /\ Turns(IF InParts THEN [at |-> "take", then |-> "chunk"] ELSE Waits)
  /\ Shared /\ Others /\ UNCHANGED <<owner, landing, place, worker, history>>

\* take_landed: read and deleted, and every owner that sends in chunks sees it gone.
TakesLanded ==
  /\ thread.at = "take"
  /\ Turns([at |-> thread.then,
            value |-> IF landing = None THEN [type |-> "none", parts |-> <<>>] ELSE landing])
  /\ landing' = None
  /\ sending' = [n \in DOMAIN sending |->
                   IF landing # None /\ sending[n].at = "sending"
                   THEN [sending[n] EXCEPT !.deletes = @ + 1] ELSE sending[n]]
  /\ Shared /\ UNCHANGED <<owner, place, events, worker, holds, asking, copies, history>>

\* selection::converted: the whole text, the start of one in chunks, or too large.
Converted ==
  /\ thread.at = "converted" /\ Turns(Waits)
  /\ LET value == thread.value  IN
       \/ /\ value.type = "incr"
          /\ reading' = IF reading = None THEN None ELSE [reading EXCEPT !.got = <<>>]
          /\ UNCHANGED worker
       \/ /\ value.type # "incr" /\ Len(value.parts) <= MaxParts
          /\ FinishesRead(TRUE, value.parts)
       \/ /\ value.type # "incr" /\ Len(value.parts) > MaxParts
          /\ FinishesRead(FALSE, <<>>)
  /\ Server /\ Others /\ UNCHANGED <<owned, transfers, history>>

\* Receiving::chunk.
ReceivesPart ==
  /\ thread.at = "chunk"
  /\ LET parts == thread.value.parts  IN
       \/ ~InParts /\ Turns(Waits) /\ UNCHANGED reading
       \/ /\ InParts
          /\ \/ /\ parts = <<>>
                /\ Turns([at |-> "finish", found |-> TRUE, text |-> reading.got])
                /\ reading' = [reading EXCEPT !.got = <<>>]
             \/ /\ parts # <<>> /\ Len(reading.got) + Len(parts) > MaxParts
                /\ Turns([at |-> "finish", found |-> FALSE, text |-> <<>>])
                /\ reading' = [reading EXCEPT !.got = <<>>]
             \/ /\ parts # <<>> /\ Len(reading.got) + Len(parts) <= MaxParts
                /\ Turns(Waits)
                /\ reading' = [reading EXCEPT !.got = @ \o parts]
  /\ Server /\ Others /\ UNCHANGED <<owned, transfers, worker, history>>

Finishes ==
  /\ thread.at = "finish" /\ Turns(Waits)
  /\ FinishesRead(thread.found, thread.text)
  /\ Server /\ Others /\ UNCHANGED <<owned, transfers, history>>

\* The stop: the selection is given up if it is still compux's when looked at.
MeetsStop ==
  /\ Next_("stop") /\ Taken
  /\ Turns([at |-> IF owner = Compux THEN "release" ELSE "ended"])
  /\ Shared /\ Others /\ UNCHANGED <<owner, landing, place, worker, history>>

Releases ==
  /\ thread.at = "release" /\ Turns([at |-> "ended"])
  /\ owner' = None
  /\ Shared /\ Others /\ UNCHANGED <<landing, place, events, worker, history>>

ThreadNext ==
  \/ LosesSelection \/ MeetsRequest \/ Answers \/ SendsPart \/ MeetsNotify \/ MeetsLanded
  \/ TakesLanded \/ Converted \/ ReceivesPart \/ Finishes \/ MeetsStop \/ Releases
-----------------------------------------------------------------------------
(* The other applications, as the protocol between X clients has them. *)

\* A person copies: the server tells the owner that was.
Copies(a) ==
  /\ copies < MaxCopies /\ copies' = copies + 1
  /\ \E t \in Copyable : holds' = [holds EXCEPT ![a] = t]
  /\ owner' = a
  /\ events' = IF owner = Compux THEN Append(events, [kind |-> "clear"]) ELSE events
  /\ Shared /\ UNCHANGED <<landing, place, thread, worker, sending, asking, history>>

Lands(value, more) ==
  /\ landing' = value
  /\ events' = events \o <<[kind |-> "landed"]>> \o more

Notify(found) == <<[kind |-> "notify", found |-> found]>>

\* An owner compux asked refuses, answers whole, or in chunks; in its own time.
AppAnswers(n) ==
  LET s == sending[n]  IN
  /\ s.at = "asked"
  /\ \/ /\ sending' = [sending EXCEPT ![n].at = "over"]
        /\ events' = events \o Notify(FALSE) /\ UNCHANGED landing
     \/ /\ sending' = [sending EXCEPT ![n].at = "over"]
        /\ Lands([type |-> "text", parts |-> Whole(s.text)], Notify(TRUE))
     \/ /\ sending' = [sending EXCEPT ![n].at = "sending"]
        /\ Lands([type |-> "incr", parts |-> <<>>], Notify(TRUE))
  /\ Shared /\ UNCHANGED <<owner, place, thread, worker, holds, asking, copies, history>>

\* It saw the property deleted: the next part, the empty one at the end.
AppSends(n) ==
  LET s == sending[n]  over == s.sent = Parts[s.text]  IN
  /\ s.at = "sending" /\ s.deletes > 0
  /\ sending' = [sending EXCEPT ![n].deletes = @ - 1, ![n].sent = IF over THEN @ ELSE @ + 1,
                                ![n].at = IF over THEN "over" ELSE @]
  /\ Lands([type |-> "text", parts |-> IF over THEN <<>> ELSE <<<<s.text, s.sent + 1>>>>], <<>>)
  /\ Shared /\ UNCHANGED <<owner, place, thread, worker, holds, asking, copies, history>>

\* An application asks for the text compux owns.
AppAsks(a) ==
  /\ owner = Compux /\ asking[a].at = "idle" /\ MayAsk
  /\ asking' = [asking EXCEPT ![a] = [at |-> "asked", ask |-> @.ask + 1, got |-> <<>>]]
  /\ events' = Append(events, [kind |-> "request", app |-> a, ask |-> asking[a].ask + 1])
  /\ Shared /\ UNCHANGED <<owner, landing, place, thread, worker, holds, sending, copies, history>>

\* What it reads it deletes, and compux, which watches the places it sends to, sees that.
AppTakes(a) ==
  /\ asking[a].at \in {"told", "taking"} /\ place[a] # None
  /\ LET value == place[a]
         got   == asking[a].got \o value.parts
         last  == IF asking[a].at = "told" THEN value.type = "text" ELSE value.parts = <<>>
     IN  asking' = [asking EXCEPT ![a].got = got, ![a].at = IF last THEN "done" ELSE "taking"]
  /\ place' = [place EXCEPT ![a] = None]
  /\ events' = IF Of(a) # {} THEN Append(events, [kind |-> "deleted", app |-> a]) ELSE events
  /\ Shared /\ UNCHANGED <<owner, landing, thread, worker, holds, sending, copies, history>>

\* It has used what it got, or stopped waiting, and may ask again.
AppForgets(a) ==
  /\ asking[a].at # "idle" /\ MayAsk
  /\ asking' = [asking EXCEPT ![a].at = "idle", ![a].got = <<>>]
  /\ Server /\ Shared /\ UNCHANGED <<thread, worker, holds, sending, copies, history>>

AppsNext ==
  \/ \E a \in Apps : Copies(a) \/ AppAsks(a) \/ AppTakes(a) \/ AppForgets(a)
  \/ \E n \in DOMAIN sending : AppAnswers(n) \/ AppSends(n)

ClipboardNext == WorkerNext \/ ThreadNext \/ AppsNext

ClipboardSpec == ClipboardInit /\ [][ClipboardNext]_vars
-----------------------------------------------------------------------------
(* Properties. *)

\* What an application read of compux is one text compux served, whole, whatever
\* transfers came between.
AnswersAreWhole == \A a \in Apps : asking[a].at = "done" => asking[a].got \in put

\* The text a read brings back is the one its owner had, whole: no part lost, doubled
\* or taken for the end.  An owner whose earlier read was given up, or was too large,
\* may still be sending, and what it sends is taken for the next owner's.
ReadsAreWhole ==
  worker.at = "clear" /\ worker.prior # None /\ unread = {} =>
    \A n \in DOMAIN sending :
      sending[n].read = worker.read => worker.prior = Whole(sending[n].text)
=============================================================================
