----------------------------- MODULE HeldInput -----------------------------
(***************************************************************************)
(* What a sequence holds down, and what is left of it when the helper is   *)
(* killed: the press stack of held.rs, the X11 desktop it posts through    *)
(* (linux/x11/input.rs) and the journal each helper keeps on disk          *)
(* (linux/x11/journal.rs).                                                 *)
(*                                                                         *)
(* An XTEST key stays down in the X server after its client is gone, so a  *)
(* press is written down before it is posted and forgotten after its       *)
(* release, and the next helper releases what a dead one wrote.  Each file *)
(* operation and each round trip to the server is one step; a helper may   *)
(* be killed between any two.  Several helpers may share one display.      *)
(***************************************************************************)
EXTENDS Naturals, Sequences, FiniteSets

CONSTANTS
  Slots,         \* the helpers that may run side by side
  Pids,          \* the process ids the kernel hands out
  Items,         \* the keys and buttons sequences hold
  Codes,         \* the numbers the server knows them by
  Layouts,       \* the keyboard layouts: each gives an item its code, if it has one
  InputSequences, \* what a sequence presses, in order, and whether it pastes
  MaxHeld,       \* MAX_HELD
  MaxJournals,   \* MAX_JOURNALS
  PidsComeBack,  \* whether a dead helper's pid may be handed out again
  Copied,        \* what the person may copy: "newer" text, or an "image"
  MaxStarts,     \* bound: helpers started
  MaxTrouble,    \* bound: file, server and clipboard operations that fail
  MaxChanges,    \* bound: changes of layout
  Absent

ASSUME HeldAssumption ==
  /\ Layouts \subseteq [Items -> Codes \cup {Absent}]
  /\ InputSequences \subseteq [items: Seq(Items), pastes: BOOLEAN]
  /\ MaxHeld \in Nat /\ MaxJournals \in Nat
  /\ PidsComeBack \in BOOLEAN
  /\ Copied \subseteq {"newer", "image"}
  /\ MaxStarts \in Nat /\ MaxTrouble \in Nat /\ MaxChanges \in Nat

\* A journal as it is on disk.
Journals == [started: Nat, held: Seq(Codes)]

ASSUME AbsentIsNothing == Absent \notin Pids \cup Codes \cup Journals

VARIABLES
  server,    \* the codes down in the X server
  layout,    \* the layout in force
  files,     \* the journals on disk, one name per pid
  clipboard, \* whose text is on it
  helper,    \* the process in each slot
  used,      \* the pids handed out so far
  starts,    \* helpers started so far
  trouble,   \* operations that failed so far
  changes,   \* changes of layout so far
  doubtful   \* history: the codes whose press the connection failed under

held_vars ==
  <<server, layout, files, clipboard, helper, used, starts, trouble, changes, doubtful>>

Dead ==
  [doing |-> "dead", pid |-> Absent, started |-> 0, connected |-> FALSE,
   journal |-> <<>>, left |-> <<>>, down |-> <<>>, todo |-> <<>>, pastes |-> FALSE,
   prior |-> Absent, restore |-> Absent, code |-> Absent, stuck |-> {},
   pressed |-> {}, found |-> {}]

HeldInit ==
  /\ server = {}
  /\ layout \in Layouts
  /\ files = [p \in Pids |-> Absent]
  /\ clipboard = "users"
  /\ helper = [h \in Slots |-> Dead]
  /\ used = {}
  /\ starts = 0
  /\ trouble = 0
  /\ changes = 0
  /\ doubtful = {}

Becomes(h, record) == helper' = [helper EXCEPT ![h] = record]

Doing(h, what) == helper[h].doing = what

\* An operation that may fail does so at most MaxTrouble times.
Fails == trouble < MaxTrouble /\ trouble' = trouble + 1

Works == UNCHANGED trouble

Last(s)  == s[Len(s)]
Front(s) == SubSeq(s, 1, Len(s) - 1)
Listed(s) == {s[i] : i \in DOMAIN s}
-----------------------------------------------------------------------------
(* The journal. *)

JournalOf(h, held) == [started |-> helper[h].started, held |-> held]

\* write: the file as it stands, and no file when nothing is held.
Write(h, held) ==
  files' = [files EXCEPT ![helper[h].pid] =
              IF held = <<>> THEN Absent ELSE JournalOf(h, held)]

\* Slip: a release starts the journal afresh.
Forgotten_All(held, code) == IF code \in Listed(held) THEN <<>> ELSE held

\* forget: the newest entry of that code goes, if there is one.
Forgotten(held, code) ==
  LET at == {i \in DOMAIN held : held[i] = code}
      newest == CHOOSE i \in at : \A k \in at : k <= i
  IN  IF at = {} THEN held
      ELSE SubSeq(held, 1, newest - 1) \o SubSeq(held, newest + 1, Len(held))

\* record refuses an item past MAX_HELD.
Room(h) == Len(helper[h].journal) < MaxHeld

Alive(pid, started) ==
  \E h \in Slots : helper[h].pid = pid /\ helper[h].started = started

\* The directory as it is read: at most MaxJournals names of it.
Listings ==
  {names \in SUBSET {p \in Pids : files[p] # Absent} :
     \/ Cardinality(names) = MaxJournals
     \/ Cardinality(names) < MaxJournals /\ \A p \in Pids \ names : files[p] = Absent}

Orders(S) ==
  {order \in UNION {[1 .. n -> S] : n \in 0 .. MaxJournals} :
     Listed(order) = S /\ \A i, j \in DOMAIN order : order[i] = order[j] => i = j}

\* left_behind: of the names read, the journals of processes no longer running, in
\* the order the directory gives them.
LeftBehind(names) ==
  {[i \in DOMAIN order |-> [pid |-> order[i], held |-> files[order[i]].held, stuck |-> FALSE]] :
     order \in Orders({p \in names : ~Alive(p, files[p].started)})}
-----------------------------------------------------------------------------
(* Starting: release what helpers that died left held. *)

Start(h) ==
  /\ Doing(h, "dead")
  /\ starts < MaxStarts /\ starts' = starts + 1
  /\ \E pid \in Pids, names \in Listings : \E left \in LeftBehind(names) :
       /\ \A g \in Slots : helper[g].pid # pid
       /\ PidsComeBack \/ pid \notin used
       /\ used' = used \cup {pid}
       /\ LET new == [Dead EXCEPT !.pid = pid, !.started = starts + 1, !.connected = TRUE,
                                  !.found = {left[i].pid : i \in DOMAIN left},
                                  !.doing = "idle"]
          IN  \/ left = <<>> /\ Works /\ Becomes(h, new)
              \/ /\ left # <<>> /\ Works
                 /\ Becomes(h, [new EXCEPT !.left = left, !.doing = "starting"])
              \/ left # <<>> /\ Fails /\ Becomes(h, new)
  /\ UNCHANGED <<server, layout, files, clipboard, changes, doubtful>>

\* release_journal, one item: last pressed first, and it goes on past a failure.
LiftLeft(h) ==
  /\ Doing(h, "starting")
  /\ LET journal == Head(helper[h].left)
         rest(stuck) == [journal EXCEPT !.held = Front(@), !.stuck = stuck]
         goes_on(stuck) ==
           Becomes(h, [helper[h] EXCEPT !.left = [helper[h].left EXCEPT ![1] = rest(stuck)]])
     IN  /\ journal.held # <<>>
         /\ \/ Works /\ server' = server \ {Last(journal.held)} /\ goes_on(journal.stuck)
            \/ Fails /\ UNCHANGED server /\ goes_on(TRUE)
  /\ UNCHANGED <<layout, files, clipboard, used, starts, changes, doubtful>>

\* Slip: a journal that was released is kept.
ClearLeft_Never(h) ==
  /\ Doing(h, "starting")
  /\ Head(helper[h].left).held = <<>>
  /\ Becomes(h, [helper[h] EXCEPT !.left = Tail(@),
                   !.doing = IF Tail(helper[h].left) = <<>> THEN "idle" ELSE "starting"])
  /\ UNCHANGED <<server, files, layout, clipboard, used, starts, trouble, changes, doubtful>>

\* The end of release_journal: the file goes once all of it is up.
ClearLeft(h) ==
  /\ Doing(h, "starting")
  /\ LET journal == Head(helper[h].left)
     IN  /\ journal.held = <<>>
         /\ \/ journal.stuck /\ Works /\ UNCHANGED files
            \/ ~journal.stuck /\ Works /\ files' = [files EXCEPT ![journal.pid] = Absent]
            \/ ~journal.stuck /\ Fails /\ UNCHANGED files
  /\ Becomes(h, [helper[h] EXCEPT !.left = Tail(@),
                   !.doing = IF Tail(helper[h].left) = <<>> THEN "idle" ELSE "starting"])
  /\ UNCHANGED <<server, layout, clipboard, used, starts, changes, doubtful>>
-----------------------------------------------------------------------------
(* A sequence under its guard. *)

Begin(h) ==
  /\ Doing(h, "idle")
  /\ \E s \in InputSequences :
       Becomes(h, [helper[h] EXCEPT !.doing = "readying", !.todo = s.items,
                     !.pastes = s.pastes, !.prior = Absent, !.stuck = {}, !.pressed = {}])
  /\ UNCHANGED <<server, layout, files, clipboard, used, starts, trouble, changes, doubtful>>

\* The body is over, or a `?` left it: whatever it holds is released.
Over(h) ==
  [helper[h] EXCEPT !.doing = "releasing", !.todo = <<>>, !.pastes = FALSE, !.code = Absent]

\* ready_to_hold writes the journal as it stands, and clears it again if it holds
\* nothing: two file operations.
ReadyWrites(h) ==
  /\ Doing(h, "readying")
  /\ \/ /\ Works
        /\ files' = [files EXCEPT ![helper[h].pid] = JournalOf(h, helper[h].journal)]
        /\ Becomes(h, [helper[h] EXCEPT !.doing = "readied"])
     \/ Fails /\ UNCHANGED files /\ Becomes(h, Over(h))
  /\ UNCHANGED <<server, layout, clipboard, used, starts, changes, doubtful>>

ReadyClears(h) ==
  /\ Doing(h, "readied")
  /\ \/ /\ Works /\ Write(h, helper[h].journal)
        /\ Becomes(h, [helper[h] EXCEPT !.doing =
                         IF helper[h].pastes THEN "reading" ELSE "body"])
     \/ /\ helper[h].journal = <<>>
        /\ Fails /\ UNCHANGED files /\ Becomes(h, Over(h))
  /\ UNCHANGED <<server, layout, clipboard, used, starts, changes, doubtful>>

\* take_clipboard: read, set, and arm the restore.
ReadClipboard(h) ==
  /\ Doing(h, "reading")
  /\ \/ Works /\ Becomes(h, [helper[h] EXCEPT !.doing = "setting",
                               !.prior = IF clipboard = "image" THEN Absent ELSE clipboard])
     \/ Fails /\ Becomes(h, Over(h))
  /\ UNCHANGED <<server, layout, files, clipboard, used, starts, changes, doubtful>>

\* Slip: the restore is armed only when the set fails.
SetClipboard_Unarmed(h) ==
  /\ Doing(h, "setting")
  /\ \/ /\ Works /\ clipboard' = "pasted"
        /\ Becomes(h, [helper[h] EXCEPT !.doing = "body"])
     \/ Fails /\ UNCHANGED clipboard
        /\ Becomes(h, [Over(h) EXCEPT !.restore = helper[h].prior])
  /\ UNCHANGED <<server, layout, files, used, starts, changes, doubtful>>

SetClipboard(h) ==
  /\ Doing(h, "setting")
  /\ \/ /\ Works /\ clipboard' = "pasted"
        /\ Becomes(h, [helper[h] EXCEPT !.doing = "body", !.restore = helper[h].prior])
     \/ Fails /\ UNCHANGED clipboard /\ Becomes(h, Over(h))
  /\ UNCHANGED <<server, layout, files, used, starts, changes, doubtful>>

\* press, to the point where the server is asked: the guard's stack first, then the
\* layout's code, then the journal.  Nothing is posted when any of them refuses, or
\* when the gate does.
PressRecords(h) ==
  /\ Doing(h, "body") /\ helper[h].todo # <<>>
  /\ LET item == Head(helper[h].todo)
         code == layout[item]
         down == Append(helper[h].down, [item |-> item, posted |-> FALSE])
         held == Append(helper[h].journal, code)
     IN  \/ /\ code # Absent /\ Room(h)
            /\ Works /\ Write(h, held)
            /\ Becomes(h, [helper[h] EXCEPT !.doing = "pressing", !.down = down,
                             !.journal = held, !.code = code])
         \/ Works /\ UNCHANGED files /\ Becomes(h, [Over(h) EXCEPT !.down = down])
         \/ /\ code # Absent /\ Room(h)
            /\ Fails /\ UNCHANGED files /\ Becomes(h, [Over(h) EXCEPT !.down = down])
  /\ UNCHANGED <<server, layout, clipboard, used, starts, changes, doubtful>>

Top(h) == Last(helper[h].down)

\* The server takes the press, refuses it, or the connection fails under it.
PressPosts(h) ==
  /\ Doing(h, "pressing")
  /\ LET code == helper[h].code
         failed == [helper[h] EXCEPT !.doing = "unpressing"]
     IN  \/ /\ helper[h].connected
            /\ Works /\ server' = server \cup {code} /\ UNCHANGED doubtful
            /\ Becomes(h, [helper[h] EXCEPT !.doing = "body", !.todo = Tail(@), !.code = Absent,
                             !.down = [@ EXCEPT ![Len(@)] = [item |-> Top(h).item, posted |-> TRUE]],
                             !.pressed = @ \cup {[item |-> Top(h).item, code |-> code]}])
         \/ /\ IF helper[h].connected THEN Fails ELSE Works
            /\ UNCHANGED <<server, doubtful>> /\ Becomes(h, failed)
         \/ /\ helper[h].connected
            /\ Fails /\ server' \in {server, server \cup {code}} /\ doubtful' = doubtful \cup {code}
            /\ Becomes(h, [failed EXCEPT !.connected = FALSE])
  /\ UNCHANGED <<layout, files, clipboard, used, starts, changes>>

\* forget, on disk: nothing is written for a code that was not there, and a write
\* that fails leaves the file.  Memory has forgotten it either way.
ForgetsOnDisk(h, code, worked, broke) ==
  LET journal == Forgotten(helper[h].journal, code)
  IN  \/ /\ Works /\ IF code \in Listed(helper[h].journal) THEN Write(h, journal)
                     ELSE UNCHANGED files
         /\ Becomes(h, [worked EXCEPT !.journal = journal])
      \/ /\ code \in Listed(helper[h].journal)
         /\ Fails /\ UNCHANGED files
         /\ Becomes(h, [broke EXCEPT !.journal = journal])

\* The press was refused: what was written for it is forgotten.
PressForgets(h) ==
  /\ Doing(h, "unpressing")
  /\ ForgetsOnDisk(h, helper[h].code, Over(h), Over(h))
  /\ UNCHANGED <<server, layout, clipboard, used, starts, changes, doubtful>>

\* Every other step of a body holds nothing: it ends, or fails where it stands.
BodyEnds(h) ==
  /\ Doing(h, "body")
  /\ Becomes(h, Over(h))
  /\ UNCHANGED <<server, layout, files, clipboard, used, starts, trouble, changes, doubtful>>
-----------------------------------------------------------------------------
(* release_all. *)

\* The item is off the stack; one that would not come up is named, if its press
\* was accepted.
Popped(h, failed) ==
  [helper[h] EXCEPT !.doing = "releasing", !.down = Front(@), !.code = Absent,
                    !.stuck = IF failed /\ Top(h).posted THEN @ \cup {Top(h).item} ELSE @]

\* Slip: the loop stops at the first release that fails.
ReleasePosts_StopsEarly(h) ==
  /\ Doing(h, "releasing") /\ helper[h].down # <<>>
  /\ LET code == layout[Top(h).item]
     IN  \/ /\ code # Absent /\ helper[h].connected
            /\ Works /\ server' = server \ {code}
            /\ Becomes(h, [helper[h] EXCEPT !.doing = "lifting", !.code = code])
         \/ Fails /\ UNCHANGED server /\ Becomes(h, [Popped(h, FALSE) EXCEPT !.down = <<>>])
  /\ UNCHANGED <<layout, files, clipboard, used, starts, changes, doubtful>>

\* One item, newest first, by the code its key has now.
ReleasePosts(h) ==
  /\ Doing(h, "releasing") /\ helper[h].down # <<>>
  /\ LET code == layout[Top(h).item]
     IN  \/ /\ code # Absent /\ helper[h].connected
            /\ Works /\ server' = server \ {code}
            /\ Becomes(h, [helper[h] EXCEPT !.doing = "lifting", !.code = code])
         \/ /\ code = Absent \/ ~helper[h].connected
            /\ Works /\ UNCHANGED server /\ Becomes(h, Popped(h, TRUE))
         \/ Fails /\ UNCHANGED server /\ Becomes(h, Popped(h, TRUE))
         \/ /\ code # Absent /\ helper[h].connected
            /\ Fails /\ server' \in {server, server \ {code}}
            /\ Becomes(h, [Popped(h, TRUE) EXCEPT !.connected = FALSE])
  /\ UNCHANGED <<layout, files, clipboard, used, starts, changes, doubtful>>

ReleaseForgets(h) ==
  /\ Doing(h, "lifting")
  /\ ForgetsOnDisk(h, helper[h].code, Popped(h, FALSE), Popped(h, TRUE))
  /\ UNCHANGED <<server, layout, clipboard, used, starts, changes, doubtful>>

\* The clipboard comes back last; a failure there is said and not returned.
RestoreClipboard(h) ==
  /\ Doing(h, "releasing") /\ helper[h].down = <<>> /\ helper[h].restore # Absent
  /\ \/ Works /\ clipboard' = helper[h].restore
     \/ Fails /\ UNCHANGED clipboard
  /\ Becomes(h, [helper[h] EXCEPT !.restore = Absent])
  /\ UNCHANGED <<server, layout, files, used, starts, changes, doubtful>>

\* guarded answers with the body's outcome and what would not come back up.
End(h) ==
  /\ Doing(h, "releasing") /\ helper[h].down = <<>> /\ helper[h].restore = Absent
  /\ Becomes(h, [helper[h] EXCEPT !.doing = "idle"])
  /\ UNCHANGED <<server, layout, files, clipboard, used, starts, trouble, changes, doubtful>>
-----------------------------------------------------------------------------
(* What happens around a helper. *)

\* A stop, a poison or anyone's SIGKILL.
Killed(h) ==
  /\ ~Doing(h, "dead")
  /\ Becomes(h, Dead)
  /\ UNCHANGED <<server, layout, files, clipboard, used, starts, trouble, changes, doubtful>>

LayoutChanges ==
  /\ changes < MaxChanges /\ changes' = changes + 1
  /\ layout' \in Layouts \ {layout}
  /\ UNCHANGED <<server, files, clipboard, helper, used, starts, trouble, doubtful>>

\* The person copies something, text or not.
PersonCopies ==
  /\ clipboard = "users"
  /\ clipboard' \in Copied
  /\ UNCHANGED <<server, layout, files, helper, used, starts, trouble, changes, doubtful>>

Sequence(h) ==
  \/ Begin(h) \/ ReadyWrites(h) \/ ReadyClears(h) \/ ReadClipboard(h) \/ SetClipboard(h)
  \/ PressRecords(h) \/ PressPosts(h) \/ PressForgets(h) \/ BodyEnds(h)
  \/ ReleasePosts(h) \/ ReleaseForgets(h) \/ RestoreClipboard(h) \/ End(h)

HeldNext ==
  \/ \E h \in Slots : Start(h) \/ LiftLeft(h) \/ ClearLeft(h) \/ Sequence(h) \/ Killed(h)
  \/ LayoutChanges \/ PersonCopies

HeldSpec == HeldInit /\ [][HeldNext]_held_vars
-----------------------------------------------------------------------------
(* Properties. *)

Written == UNION {Listed(files[p].held) : p \in {q \in Pids : files[q] # Absent}}

\* Whatever compux holds down is written on disk at every moment, so a helper killed
\* between any two steps leaves nothing the next start cannot find, a press its
\* connection failed under excepted (Input::press, Input::release, release_journal).
HeldIsWrittenDown == server \subseteq Written \cup doubtful

\* A start that met no failure leaves no journal of a helper that was dead when it
\* looked, unless its pid lives again.
AStartReleasesTheDead ==
  trouble = 0 =>
    \A h \in Slots : \A p \in helper[h].found :
      \/ helper[h].doing = "starting"
      \/ files[p] = Absent \/ \E g \in Slots : helper[g].pid = p

\* When a sequence has answered, and the layout stayed, whatever it pressed is up, is
\* named in its answer, or is held by another helper too: one stuck key strands no
\* other (release_all).
SilenceMeansUpOnOneLayout ==
  changes = 0 =>
    \A h \in Slots : helper[h].doing = "idle" =>
      \A press \in helper[h].pressed :
        \/ press.code \notin server \/ press.code \in doubtful
        \/ press.item \in helper[h].stuck
        \/ \E p \in Pids : p # helper[h].pid /\ files[p] # Absent
                          /\ press.code \in Listed(files[p].held)

\* A paste that met no failure leaves the person's text on the clipboard, unless
\* what it found there was none of it.
PasteIsUndone ==
  trouble = 0 /\ starts = 1 =>
    \A h \in Slots : helper[h].doing = "idle" /\ clipboard = "pasted"
                       => helper[h].prior \in {Absent, "pasted"}
=============================================================================
