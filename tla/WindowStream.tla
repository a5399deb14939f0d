---------------------------- MODULE WindowStream ----------------------------
(***************************************************************************)
(* One bound window's frames: the Slot the window server's thread fills    *)
(* and the worker reads, the ScreenCaptureKit stream that fills it, and    *)
(* the fence an after-action look is held to.  The worker's calls are      *)
(* StartStream, StopStream and Latest; the rest is the server's thread.    *)
(***************************************************************************)
EXTENDS Desktop

CONSTANTS
  SilenceLimit, \* SILENCE_LIMIT_MS, in ticks
  QueueDepth,   \* QUEUE_DEPTH
  Mishaps       \* what may befall a live sample before it is offered

ASSUME MishapsAssumption == Mishaps \subseteq {"no_buffer", "unreadable", "fault"}
ASSUME LimitsAssumption == SilenceLimit \in Nat /\ QueueDepth \in Nat

VARIABLES
  slot,    \* Slot: the frame held, the samples counted, the standing condition
  stream,  \* the live stream and whether the server still sends to it
  inbox,   \* the samples the server's queue holds, oldest first
  sent,    \* the sample the server last sent: its picture and its time
  lost     \* history: a live sample left no pixels, and the next ones said "unchanged"

stream_vars == <<slot, stream, inbox, sent, lost>>

Unsent == [picture |-> None, at |-> -1]
EmptySlot == [held |-> None, seq |-> 0, condition |-> None]

StreamInit ==
  /\ slot = EmptySlot
  /\ stream = None
  /\ inbox = <<>>
  /\ sent = Unsent
  /\ lost = FALSE

\* ---- Slot ---------------------------------------------------------------

NextSeq(s) == [s EXCEPT !.seq = @ + 1]

Offer(s, frame) == [s EXCEPT !.held = frame]

Frame(pixels, sample, seq) ==
  [pixels |-> pixels, status |-> sample.status, seq |-> seq, at |-> now, shown |-> sample.shown]

\* A sample that is no picture moves the kept one on, and is kept when there is none.
Note(s, sample) ==
  IF s.held # None THEN Offer(s, Frame(s.held.pixels, sample, s.seq))
  ELSE IF sample.status = "idle" THEN s
  ELSE Offer(s, Frame(None, sample, s.seq))

Fault(s, why) == IF s.condition = None THEN [s EXCEPT !.condition = why] ELSE s

\* Slip: the sample's own time is not compared.
Admits_ByCount(fence, frame) == fence = None \/ frame.seq > fence.beyond

Admits(fence, frame) ==
  \/ fence = None
  \/ /\ frame.shown # None
     /\ frame.shown > fence.after
     /\ frame.seq > fence.beyond

Refusal(status) == CASE status = "minimized" -> "minimized"
                     [] status = "disconnected" -> "unavailable"
                     [] OTHER -> None

Err(why) == [frame |-> None, why |-> why]

\* Slip: the kept picture is answered whatever the last sample said.
Peek_AnyStatus(s, fence) ==
  IF s.condition # None THEN Err(s.condition)
  ELSE IF s.held = None \/ ~Admits(fence, s.held) THEN Err("not_yet")
  ELSE [frame |-> s.held, why |-> None]

Peek(s, fence) ==
  IF s.condition # None THEN Err(s.condition)
  ELSE IF s.held = None THEN Err("not_yet")
  ELSE IF Refusal(s.held.status) # None THEN Err(Refusal(s.held.status))
  ELSE IF now - s.held.at > SilenceLimit THEN Err("unavailable")
  ELSE IF ~Admits(fence, s.held) THEN Err("not_yet")
  ELSE [frame |-> s.held, why |-> None]

\* ---- the worker's calls ---------------------------------------------------

StartStream(w) ==
  /\ stream' = [window |-> w, tenant |-> tenant[w], serving |-> TRUE]
  /\ slot' = EmptySlot
  /\ inbox' = <<>> /\ sent' = Unsent /\ lost' = FALSE

\* Always with its slot: a binding never starts a second stream on one.
StopStream ==
  /\ stream' = None
  /\ slot' = EmptySlot
  /\ inbox' = <<>> /\ sent' = Unsent /\ lost' = FALSE

Latest(fence) == IF stream = None THEN Err("unavailable") ELSE Peek(slot, fence)

\* ---- the server's thread --------------------------------------------------

Enqueue(status, shown, picture) ==
  /\ inbox' = Append(inbox, [status |-> status, shown |-> shown, picture |-> picture])
  /\ sent' = [picture |-> picture, at |-> now]
  /\ UNCHANGED <<slot, stream, lost>>

Serving ==
  /\ stream # None /\ stream.serving
  /\ tenant[stream.window] = stream.tenant
  /\ Len(inbox) < QueueDepth

\* At most one sample an instant: a picture when the window changed since the last
\* one sent, "idle" when it has not.
ServerSends ==
  /\ Serving /\ sent.at < now
  /\ LET w == stream.window
     IN  IF w \notin on_screen THEN Enqueue("minimized", now, sent.picture)
         ELSE IF sent.picture = Picture(w) THEN Enqueue("idle", now, sent.picture)
         ELSE Enqueue("live", now, Picture(w))
  /\ UNCHANGED desktop_vars

\* take_sample: every sample is counted, and only a whole live one is a picture.
SampleKept ==
  LET sample == Head(inbox)
      counted == NextSeq(slot)
  IN  /\ slot' = IF sample.status = "live"
                   THEN Offer(counted, Frame(sample.picture, sample, counted.seq))
                   ELSE Note(counted, sample)
      /\ lost' = (lost /\ sample.status # "live")
      /\ UNCHANGED whims

\* A live sample with no buffer or one that would not lock; one whose attachments
\* cannot be read; one over the budget, or a panic.
SampleMishap(mishap) ==
  LET sample == Head(inbox)
      counted == NextSeq(slot)
  IN  /\ sample.status = "live"
      /\ Whim
      /\ slot' = CASE mishap = "no_buffer" -> counted
                   [] mishap = "unreadable" ->
                        Note(counted, [status |-> "disconnected", shown |-> None])
                   [] mishap = "fault" -> Fault(counted, "budget")
      /\ lost' = TRUE

Delivered ==
  /\ inbox # <<>>
  /\ inbox' = Tail(inbox)
  /\ SampleKept \/ \E mishap \in Mishaps : SampleMishap(mishap)
  /\ UNCHANGED <<stream, sent, now, scenes, front, on_screen, born, tenant>>

\* stream:didStopWithError:, when the window closed or the grant went.
Stopped ==
  /\ stream # None /\ stream.serving
  /\ IF tenant[stream.window] = stream.tenant THEN Whim ELSE UNCHANGED whims
  /\ stream' = [stream EXCEPT !.serving = FALSE]
  /\ slot' = Fault(slot, "unavailable")
  /\ UNCHANGED <<inbox, sent, lost, now, scenes, front, on_screen, born, tenant>>

StreamNext == ServerSends \/ Delivered \/ Stopped

Instant(t) ==
  CHOOSE v \in DOMAIN scenes :
    scenes[v].from <= t /\ (v = Len(scenes) \/ t < scenes[v + 1].from)

-----------------------------------------------------------------------------
(* The picture a look is answered with is what the window showed at the  *)
(* instant the frame carries: the samples that said "unchanged" moved that *)
(* instant on and were true of it.  Not so once a live sample left no      *)
(* pixels, which lost records (take_sample, Slot::note, Slot::offer).      *)
PictureIsOfItsTime ==
  LET frame == Latest(None).frame
  IN  frame # None /\ ~lost =>
        frame.pixels = PictureIn(scenes[Instant(frame.shown)], stream.window)
=============================================================================
