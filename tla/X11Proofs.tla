----------------------------- MODULE X11Proofs -----------------------------
(***************************************************************************)
(* What MCInput checks of two helpers, for any number of them, of keys     *)
(* and of failures: while no process number is handed out again, nothing   *)
(* is down that is not on disk, and a start clears what it found.          *)
(* And what MCClipboard checks of two applications, for any applications,  *)
(* texts, transfers and bounds: an asker gets one served text, whole, and  *)
(* a read brings back the text of the owner it asked.                      *)
(***************************************************************************)
EXTENDS HeldInput, Clipboard, SequenceTheorems, WellFoundedInduction, TLAPS

Clipboards == {"users", "newer", "image", "pasted"}

Doings ==
  {"dead", "starting", "idle", "readying", "readied", "reading", "setting", "body", "pressing",
   "unpressing", "releasing", "lifting"}

Pids0       == Pids \cup {Absent}
Codes0      == Codes \cup {Absent}
Clipboards0 == Clipboards \cup {Absent}
CodeList    == Seq(Codes)
ItemList    == Seq(Items)
LeftEntries == [pid: Pids, held: CodeList, stuck: BOOLEAN]
LeftList    == Seq(LeftEntries)
Stacks      == Seq([item: Items, posted: BOOLEAN])
ItemSets    == SUBSET Items
PressSets   == SUBSET [item: Items, code: Codes]
PidSets     == SUBSET Pids

HelperType ==
  [doing: Doings, pid: Pids0, started: Nat, connected: BOOLEAN, journal: CodeList,
   left: LeftList, down: Stacks, todo: ItemList, pastes: BOOLEAN, prior: Clipboards0,
   restore: Clipboards0, code: Codes0, stuck: ItemSets, pressed: PressSets, found: PidSets]

HeldTypes ==
  /\ layout \in Layouts /\ clipboard \in Clipboards
  /\ files \in [Pids -> Journals \cup {Absent}]
  /\ helper \in [Slots -> HelperType]
  /\ used \subseteq Pids /\ starts \in Nat /\ trouble \in Nat /\ changes \in Nat

\* A process number is one helper's, and a journal is of a number handed out.
NumbersAreUsed ==
  /\ \A h \in Slots : helper[h].pid \in used \cup {Absent}
  /\ \A p \in Pids : files[p] # Absent => p \in used
  /\ \A g, h \in Slots : g # h /\ helper[g].pid = helper[h].pid => helper[g].pid = Absent

\* A helper that acts has a number, and its journal is of the process it is.
LivingOwnTheirs ==
  \A h \in Slots :
    /\ helper[h].doing = "dead" => helper[h] = Dead
    /\ helper[h].doing # "dead" => helper[h].pid # Absent
    /\ helper[h].pid # Absent /\ files[helper[h].pid] # Absent =>
         files[helper[h].pid].started = helper[h].started

\* What a start found is of processes that stay dead.
FoundAreDead ==
  \A h \in Slots :
    /\ \A p \in helper[h].found : p \in used /\ \A g \in Slots : helper[g].pid # p
    /\ \A i \in DOMAIN helper[h].left : helper[h].left[i].pid \in helper[h].found
    /\ helper[h].doing = "starting" <=> helper[h].left # <<>>

\* A file there is, and that has the code.
Lists(file, code) == file # Absent /\ code \in Listed(file.held)

\* While a code is asked of the server, its helper knows which, and has it on disk
\* before a press.
AskedIsWritten ==
  \A h \in Slots :
    /\ helper[h].doing \in {"pressing", "unpressing", "lifting"} => helper[h].code \in Codes
    /\ helper[h].doing \in {"pressing", "lifting"} => helper[h].down # <<>>
    /\ helper[h].doing = "pressing" =>
         /\ Lists(files[helper[h].pid], helper[h].code)
         /\ helper[h].code \in Listed(helper[h].journal) /\ helper[h].todo # <<>>

\* What a helper means to keep in its journal: not the entry it is about to forget,
\* nor one it has yet to press.
Kept(r) ==
  IF r.doing \in {"pressing", "unpressing", "lifting"}
  THEN Listed(Forgotten(r.journal, r.code)) ELSE Listed(r.journal)

Vouches(r, p, code) ==
  /\ r.pid = p => code \in Kept(r)
  /\ \A i \in DOMAIN r.left :
       r.left[i].pid = p => r.left[i].stuck \/ code \in Listed(r.left[i].held)

\* p's journal vouches for a code that is down: it is on disk, its helper does not
\* mean to forget it, and no start that reads it has lifted it.
Attests(p, code) == Lists(files[p], code) /\ \A h \in Slots : Vouches(helper[h], p, code)

\* What vouches before a step still does after it.
AttestsStay == \A p \in Pids, code \in server \cap server' : Attests(p, code) => Attests(p, code)'

Attested == \A code \in server : code \in doubtful \/ \E p \in Pids : Attests(p, code)

HeldInv ==
  /\ HeldTypes /\ NumbersAreUsed /\ LivingOwnTheirs /\ FoundAreDead /\ AskedIsWritten
  /\ Attested
-----------------------------------------------------------------------------
\* Without failure, what a start has found is still to be lifted or gone.
FoundAreCleared ==
  trouble = 0 =>
    \A h \in Slots :
      /\ \A i \in DOMAIN helper[h].left : ~helper[h].left[i].stuck
      /\ \A p \in helper[h].found :
           files[p] = Absent \/ \E i \in DOMAIN helper[h].left : helper[h].left[i].pid = p

ClearInv == HeldInv /\ FoundAreCleared
-----------------------------------------------------------------------------
\* On one layout: what a sequence pressed is on its stack, is named, is up, or is
\* another's to vouch for.
On(down, item) == \E i \in DOMAIN down : down[i].item = item /\ down[i].posted

OnStack(h, item) == On(helper[h].down, item)

UpHere(h, code) ==
  code \in server => code \in doubtful \/ \E p \in Pids : p # helper[h].pid /\ Attests(p, code)

PressesEndOf(h) ==
  /\ \A press \in helper[h].pressed :
       /\ press.code = layout[press.item]
       /\ \/ OnStack(h, press.item)
          \/ helper[h].doing \notin {"body", "pressing"}
             /\ (press.item \in helper[h].stuck \/ UpHere(h, press.code))
  /\ helper[h].doing = "pressing" => helper[h].code = layout[Top(h).item]
  /\ helper[h].doing = "lifting" =>
       helper[h].code = layout[Top(h).item] /\ UpHere(h, helper[h].code)
  /\ helper[h].doing \in {"dead", "starting", "idle"} => helper[h].down = <<>>
  /\ helper[h].doing \in {"readying", "readied", "reading", "setting"} => helper[h].pressed = {}

PressesEnd == changes = 0 => \A h \in Slots : PressesEndOf(h)

SilenceInv == HeldInv /\ PressesEnd
-----------------------------------------------------------------------------
(* What forget does to a journal. *)

LEMMA LastFront ==
  ASSUME NEW S, NEW s \in Seq(S), s # <<>>
  PROVE  /\ Last(s) \in S /\ Front(s) \in Seq(S)
         /\ Len(s) \in Nat \ {0} /\ Len(Front(s)) = Len(s) - 1
         /\ \A i \in 1 .. Len(s) - 1 : Front(s)[i] = s[i]
         /\ \A e \in Listed(s) : e = Last(s) \/ e \in Listed(Front(s))
<1>1. Len(s) \in Nat \ {0} /\ s \in [1 .. Len(s) -> S] /\ DOMAIN s = 1 .. Len(s)
  BY EmptySeq, LenProperties
<1>2. /\ Front(s) \in Seq(S) /\ Len(Front(s)) = Len(s) - 1
      /\ \A i \in 1 .. Len(s) - 1 : Front(s)[i] = s[i]
  BY <1>1, SubSeqProperties DEF Front
<1>3. DOMAIN Front(s) = 1 .. Len(s) - 1
  BY <1>2, LenProperties
<1> QED BY <1>1, <1>2, <1>3 DEF Last, Listed

LEMMA AppendListed ==
  ASSUME NEW S, NEW s \in Seq(S), NEW e \in S
  PROVE  Append(s, e) \in Seq(S) /\ Listed(Append(s, e)) = Listed(s) \cup {e}
<1>1. /\ Append(s, e) \in Seq(S) /\ Len(Append(s, e)) = Len(s) + 1
      /\ \A i \in 1 .. Len(s) : Append(s, e)[i] = s[i]
      /\ Append(s, e)[Len(s) + 1] = e
  BY AppendProperties
<1>2. /\ Len(s) \in Nat /\ DOMAIN s = 1 .. Len(s)
      /\ DOMAIN Append(s, e) = 1 .. Len(s) + 1
  BY <1>1, LenProperties
<1> QED BY <1>1, <1>2 DEF Listed

\* A journal that lists a code has a newest entry of it.
LEMMA NewestEntry ==
  ASSUME NEW held \in Seq(Codes), NEW code \in Listed(held)
  PROVE  \E n \in 1 .. Len(held) :
           held[n] = code /\ \A k \in {i \in DOMAIN held : held[i] = code} : k <= n
<1> DEFINE fromEnd == {Len(held) - i : i \in {k \in DOMAIN held : held[k] = code}}
<1>1. Len(held) \in Nat /\ DOMAIN held = 1 .. Len(held)
  BY LenProperties
<1>2. fromEnd \subseteq Nat /\ fromEnd # {}
  BY <1>1 DEF Listed
<1>3. PICK d \in fromEnd : \A e \in fromEnd : ~(<<e, d>> \in OpToRel(<, Nat))
  BY <1>2, WFMin, NatLessThanWellFounded
<1>4. PICK n \in 1 .. Len(held) : held[n] = code /\ d = Len(held) - n
  BY <1>1, <1>3
<1>5. ASSUME NEW k \in DOMAIN held, held[k] = code PROVE k <= n
  <2>1. Len(held) - k \in fromEnd /\ Len(held) - k \in Nat /\ d \in Nat
    BY <1>1, <1>2, <1>3, <1>5
  <2>2. ~(Len(held) - k < d)
    BY <1>3, <2>1 DEF OpToRel
  <2> QED BY <1>1, <1>4, <2>1, <2>2
<1> QED BY <1>1, <1>4, <1>5

LEMMA ForgottenIs ==
  ASSUME NEW held \in Seq(Codes), NEW code \in Listed(held)
  PROVE  \E n \in 1 .. Len(held) :
           /\ held[n] = code /\ \A i \in 1 .. Len(held) : held[i] = code => i <= n
           /\ Forgotten(held, code) =
                SubSeq(held, 1, n - 1) \o SubSeq(held, n + 1, Len(held))
<1> DEFINE at == {i \in DOMAIN held : held[i] = code}
           newest == CHOOSE i \in at : \A k \in at : k <= i
<1>1. Len(held) \in Nat /\ DOMAIN held = 1 .. Len(held)
  BY LenProperties
<1>2. newest \in at /\ \A k \in at : k <= newest
  BY <1>1, NewestEntry
<1>3. at # {}
  BY <1>2
<1> QED BY <1>1, <1>2, <1>3 DEF Forgotten

LEMMA ForgetsOne ==
  ASSUME NEW held \in Seq(Codes), NEW code
  PROVE  /\ Forgotten(held, code) \in Seq(Codes)
         /\ Listed(Forgotten(held, code)) \subseteq Listed(held)
         /\ Listed(held) \ {code} \subseteq Listed(Forgotten(held, code))
         /\ code \notin Listed(held) => Forgotten(held, code) = held
<1>1. Len(held) \in Nat /\ DOMAIN held = 1 .. Len(held) /\ held \in [1 .. Len(held) -> Codes]
  BY LenProperties
<1>2. CASE code \notin Listed(held)
  <2>1. {i \in DOMAIN held : held[i] = code} = {}
    BY <1>2 DEF Listed
  <2> QED BY <2>1 DEF Forgotten
<1>3. CASE code \in Listed(held)
  <2>1. PICK n \in 1 .. Len(held) :
          /\ held[n] = code
          /\ Forgotten(held, code) = SubSeq(held, 1, n - 1) \o SubSeq(held, n + 1, Len(held))
    BY <1>3, ForgottenIs
  <2> DEFINE before == SubSeq(held, 1, n - 1)
             after  == SubSeq(held, n + 1, Len(held))
  <2>2. /\ before \in Seq(Codes) /\ Len(before) = n - 1
        /\ \A i \in 1 .. n - 1 : before[i] = held[i]
    <3>1. \A i \in 1 .. n - 1 : held[i] \in Codes
      BY <1>1
    <3>2. n - 1 \in Int /\ n - 1 - 1 + 1 = n - 1
      BY <1>1
    <3> QED BY <1>1, <3>1, <3>2, SubSeqProperties
  <2>3. /\ after \in Seq(Codes) /\ Len(after) = Len(held) - n
        /\ \A i \in 1 .. Len(held) - n : after[i] = held[n + i]
    <3>1. \A i \in n + 1 .. Len(held) : held[i] \in Codes
      BY <1>1
    <3>2. n + 1 \in Int /\ Len(held) \in Int
      BY <1>1
    <3>3. /\ after \in Seq(Codes)
          /\ Len(after) = IF n + 1 <= Len(held) THEN Len(held) - (n + 1) + 1 ELSE 0
          /\ \A i \in 1 .. Len(held) - (n + 1) + 1 : after[i] = held[n + 1 + i - 1]
      BY <3>1, <3>2, SubSeqProperties
    <3>4. /\ Len(held) - (n + 1) + 1 = Len(held) - n
          /\ n + 1 <= Len(held) \/ Len(held) - n = 0
          /\ \A i \in 1 .. Len(held) - n : n + 1 + i - 1 = n + i
      <4>1. Len(held) \in Nat
        BY <1>1
      <4> QED BY <4>1
    <3> HIDE DEF after
    <3> QED BY <3>3, <3>4
  <2> HIDE DEF before, after
  <2> DEFINE rest == before \o after
  <2>4. /\ rest \in Seq(Codes) /\ Len(rest) = Len(before) + Len(after)
        /\ \A i \in 1 .. Len(before) + Len(after) :
             rest[i] = IF i <= Len(before) THEN before[i] ELSE after[i - Len(before)]
    BY <2>2, <2>3, ConcatProperties
  <2> HIDE DEF rest
  <2>5. DOMAIN rest = 1 .. Len(held) - 1
    <3>1. Len(rest) = Len(held) - 1
      BY <1>1, <2>2, <2>3, <2>4
    <3> QED BY <2>4, <3>1, LenProperties
  <2>6. \A i \in 1 .. Len(held) - 1 : rest[i] = IF i <= n - 1 THEN held[i] ELSE held[i + 1]
    BY <1>1, <2>2, <2>3, <2>4
  <2>7. Listed(rest) \subseteq Listed(held)
    <3>1. \A i \in 1 .. Len(held) - 1 : i + 1 \in DOMAIN held /\ i \in DOMAIN held
      BY <1>1
    <3> QED BY <2>5, <2>6, <3>1 DEF Listed
  <2>8. ASSUME NEW c \in Listed(held), c # code PROVE c \in Listed(rest)
    <3>1. PICK i \in 1 .. Len(held) : held[i] = c
      BY <1>1, <2>8 DEF Listed
    <3>2. CASE i <= n - 1
      <4>1. i \in 1 .. Len(held) - 1
        BY <1>1, <3>2
      <4>2. rest[i] = held[i]
        BY <2>6, <3>2, <4>1
      <4> QED BY <3>1, <4>1, <4>2, <2>5 DEF Listed
    <3>3. CASE i > n
      <4>1. i - 1 \in 1 .. Len(held) - 1 /\ ~(i - 1 <= n - 1) /\ (i - 1) + 1 = i
        BY <1>1, <3>3
      <4>2. rest[i - 1] = held[i]
        BY <2>6, <4>1
      <4> QED BY <3>1, <4>1, <4>2, <2>5 DEF Listed
    <3> QED BY <1>1, <2>1, <2>8, <3>1, <3>2, <3>3
  <2> QED BY <1>3, <2>1, <2>4, <2>7, <2>8 DEF before, after, rest
<1> QED BY <1>2, <1>3

\* What was written for a press and is forgotten again leaves the journal as it was.
LEMMA ForgetsTheLast ==
  ASSUME NEW held \in Seq(Codes), NEW code \in Codes
  PROVE  Forgotten(Append(held, code), code) = held
<1> DEFINE longer == Append(held, code)
<1>1. /\ longer \in Seq(Codes) /\ Len(longer) = Len(held) + 1 /\ Len(held) \in Nat
      /\ \A i \in 1 .. Len(held) : longer[i] = held[i]
      /\ longer[Len(held) + 1] = code
  BY AppendProperties, LenProperties
<1>2. code \in Listed(longer)
  BY AppendListed
<1> HIDE DEF longer
<1>3. PICK n \in 1 .. Len(longer) :
        /\ \A i \in 1 .. Len(longer) : longer[i] = code => i <= n
        /\ Forgotten(longer, code) =
             SubSeq(longer, 1, n - 1) \o SubSeq(longer, n + 1, Len(longer))
  BY <1>1, <1>2, ForgottenIs
<1>4. n = Len(held) + 1
  BY <1>1, <1>3
<1>5. SubSeq(longer, n + 1, Len(longer)) = <<>>
  BY <1>1, <1>4, SubSeqEmpty
<1>6. SubSeq(longer, 1, n - 1) = held
  <2>1. /\ SubSeq(longer, 1, n - 1) \in Seq(Codes) /\ Len(SubSeq(longer, 1, n - 1)) = Len(held)
        /\ \A i \in 1 .. Len(held) : SubSeq(longer, 1, n - 1)[i] = longer[i]
    <3>1. \A i \in 1 .. n - 1 : longer[i] \in Codes
      BY <1>1, <1>4
    <3> QED BY <1>1, <1>4, <3>1, SubSeqProperties
  <2> QED BY <1>1, <2>1, SeqEqual
<1>7. Forgotten(longer, code) = held
  BY <1>3, <1>5, <1>6, ConcatEmptySeq
<1> QED BY <1>7 DEF longer
-----------------------------------------------------------------------------
(* A step of a sequence, and what such a step leaves alone. *)

Acting(r) == r.doing \notin {"dead", "starting"}

SafeStep(h) ==
  /\ helper' \in [Slots -> HelperType] /\ \A g \in Slots \ {h} : helper'[g] = helper[g]
  /\ Acting(helper[h]) /\ Acting(helper'[h])
  /\ helper'[h].pid = helper[h].pid /\ helper'[h].started = helper[h].started
  /\ helper'[h].left = helper[h].left /\ helper'[h].found = helper[h].found
  /\ helper'[h].doing \in {"pressing", "unpressing", "lifting"} => helper'[h].code \in Codes
  /\ helper'[h].doing \in {"pressing", "lifting"} => helper'[h].down # <<>>
  /\ helper'[h].doing = "pressing" =>
       /\ Lists(files'[helper[h].pid], helper'[h].code)
       /\ helper'[h].code \in Listed(helper'[h].journal) /\ helper'[h].todo # <<>>
  /\ files' \in [Pids -> Journals \cup {Absent}]
  /\ \A p \in Pids \ {helper[h].pid} : files'[p] = files[p]
  /\ files'[helper[h].pid] # Absent => files'[helper[h].pid].started = helper[h].started
  /\ clipboard' \in Clipboards /\ trouble' \in Nat /\ UNCHANGED <<layout, used, starts, changes>>
  /\ doubtful \subseteq doubtful'
  /\ \A code \in server \cap server' :
       Lists(files[helper[h].pid], code) /\ code \in Kept(helper[h]) =>
         Lists(files'[helper[h].pid], code) /\ code \in Kept(helper'[h])
  /\ \A code \in server' \ server :
       \/ code \in doubtful'
       \/ Lists(files'[helper[h].pid], code) /\ code \in Kept(helper'[h])

\* What vouched for a code that stays down still does.
LEMMA SafeStepsAttest ==
  ASSUME HeldInv, NEW h \in Slots, SafeStep(h), NEW p \in Pids, NEW code \in server \cap server',
         Attests(p, code)
  PROVE  Attests(p, code)'
<1>1. Lists(files'[p], code)
  <2>1. CASE p = helper[h].pid
    BY <2>1 DEF SafeStep, Attests, Vouches
  <2>2. CASE p # helper[h].pid
    BY <2>2 DEF SafeStep, Attests, Lists
  <2> QED BY <2>1, <2>2
<1>2. Vouches(helper'[h], p, code)
  BY DEF SafeStep, Attests, Vouches
<1>3. \A g \in Slots \ {h} : Vouches(helper'[g], p, code)
  BY DEF SafeStep, Attests
<1> QED BY <1>1, <1>2, <1>3 DEF Attests

\* A code a step presses is on disk.
LEMMA NewPressesAttest ==
  ASSUME HeldInv, NEW h \in Slots, SafeStep(h), NEW code \in server' \ server, code \notin doubtful'
  PROVE  \E p \in Pids : p = helper[h].pid /\ Attests(p, code)'
<1>1. helper[h].pid \in Pids
  BY DEF HeldInv, HeldTypes, NumbersAreUsed, LivingOwnTheirs, SafeStep, Acting
<1>2. Lists(files'[helper[h].pid], code) /\ code \in Kept(helper'[h])
  BY DEF SafeStep
<1>3. \A g \in Slots : \A i \in DOMAIN helper'[g].left : helper'[g].left[i].pid # helper[h].pid
  BY DEF HeldInv, FoundAreDead, SafeStep
<1>4. \A g \in Slots \ {h} : helper'[g].pid # helper[h].pid
  BY <1>1, AbsentIsNothing DEF HeldInv, NumbersAreUsed, SafeStep
<1> QED BY <1>1, <1>2, <1>3, <1>4 DEF Attests, Vouches

LEMMA SafeStepsKeep ==
  ASSUME HeldInv, NEW h \in Slots, SafeStep(h)
  PROVE  HeldInv'
<1> USE DEF HeldInv
<1>1. helper[h].pid \in Pids
  BY DEF HeldTypes, NumbersAreUsed, LivingOwnTheirs, SafeStep, Acting
<1>2. HeldTypes'
  BY DEF HeldTypes, SafeStep
<1>3. \A g \in Slots : helper'[g].pid = helper[g].pid /\ helper'[g].left = helper[g].left
                       /\ helper'[g].found = helper[g].found
  BY DEF SafeStep
<1>4. NumbersAreUsed'
  BY <1>1, <1>3 DEF NumbersAreUsed, SafeStep, LivingOwnTheirs, Acting
<1>5. LivingOwnTheirs'
  <2>1. \A g \in Slots \ {h} : helper[g].pid # Absent => helper[g].pid \in Pids
                               /\ helper[g].pid # helper[h].pid
    BY <1>1, AbsentIsNothing DEF NumbersAreUsed, HeldTypes, HelperType, Pids0
  <2> QED BY <1>1, <2>1 DEF LivingOwnTheirs, SafeStep, Acting
<1>6. FoundAreDead'
  BY <1>3 DEF FoundAreDead, SafeStep, Acting
<1>7. AskedIsWritten'
  <2>1. \A g \in Slots \ {h} : helper[g].doing = "pressing" =>
          helper[g].pid \in Pids /\ helper[g].pid # helper[h].pid
    BY <1>1 DEF NumbersAreUsed, LivingOwnTheirs, HeldTypes, HelperType, Pids0
  <2> QED BY <2>1 DEF AskedIsWritten, SafeStep, Lists
<1>8. Attested'
  <2> SUFFICES ASSUME NEW code \in server', code \notin doubtful'
               PROVE  \E p \in Pids : Attests(p, code)'
    BY DEF Attested
  <2>1. CASE code \in server
    BY <2>1, SafeStepsAttest DEF Attested, SafeStep
  <2>2. CASE code \notin server
    BY <2>2, NewPressesAttest
  <2> QED BY <2>1, <2>2
<1> QED BY <1>2, <1>4, <1>5, <1>6, <1>7, <1>8
-----------------------------------------------------------------------------
(* Every step of a sequence is one of those. *)

LEMMA Becoming ==
  ASSUME HeldTypes, NEW h \in Slots, NEW r \in HelperType, Becomes(h, r)
  PROVE  /\ helper' \in [Slots -> HelperType] /\ helper'[h] = r
         /\ \A g \in Slots \ {h} : helper'[g] = helper[g]
BY DEF HeldTypes, Becomes

\* A helper that acts is a process with a number.
LEMMA ActingHas ==
  ASSUME HeldInv, NEW h \in Slots, Acting(helper[h])
  PROVE  helper[h] \in HelperType /\ helper[h].pid \in Pids
BY DEF HeldInv, HeldTypes, HelperType, LivingOwnTheirs, Acting, Pids0

\* Nothing is written, nothing is pressed, and no code is in hand before or after.
LEMMA QuietStepsAreSafe ==
  ASSUME HeldInv, NEW h \in Slots, NEW r \in HelperType, Becomes(h, r),
         Acting(helper[h]), Acting(r),
         r.pid = helper[h].pid, r.started = helper[h].started, r.left = helper[h].left,
         r.found = helper[h].found, r.journal = helper[h].journal,
         helper[h].doing \notin {"pressing", "unpressing", "lifting"},
         r.doing \notin {"pressing", "unpressing", "lifting"},
         server' \subseteq server, clipboard' \in Clipboards, trouble' \in Nat,
         UNCHANGED <<layout, files, used, starts, changes, doubtful>>
  PROVE  SafeStep(h)
<1>1. /\ helper' \in [Slots -> HelperType] /\ helper'[h] = r
      /\ \A g \in Slots \ {h} : helper'[g] = helper[g]
  BY Becoming DEF HeldInv
<1>2. helper[h].pid \in Pids
  BY ActingHas
<1>3. files[helper[h].pid] # Absent => files[helper[h].pid].started = helper[h].started
  BY <1>2, AbsentIsNothing DEF HeldInv, LivingOwnTheirs
<1>4. Kept(helper'[h]) = Kept(helper[h])
  BY <1>1 DEF Kept
<1> QED BY <1>1, <1>2, <1>3, <1>4 DEF SafeStep, HeldInv, HeldTypes

LEMMA TroubleIsNat ==
  HeldTypes => /\ Works => trouble' = trouble /\ trouble' \in Nat
               /\ Fails => trouble' \in Nat \ {0}
BY DEF HeldTypes, Works, Fails

LEMMA OverIs ==
  ASSUME HeldInv, NEW h \in Slots, Acting(helper[h]),
         NEW down \in Stacks
  PROVE  /\ Over(h) \in HelperType /\ Acting(Over(h)) /\ Over(h).doing = "releasing"
         /\ Over(h).down = helper[h].down
         /\ [Over(h) EXCEPT !.down = down] \in HelperType
         /\ [Over(h) EXCEPT !.down = down].doing = "releasing"
         /\ [Over(h) EXCEPT !.down = down].down = down
         /\ \A r \in {Over(h), [Over(h) EXCEPT !.down = down]} :
              /\ r.pid = helper[h].pid /\ r.started = helper[h].started
              /\ r.left = helper[h].left /\ r.found = helper[h].found
              /\ r.journal = helper[h].journal
<1>1. helper[h] \in HelperType
  BY ActingHas
<1>2. <<>> \in ItemList /\ Absent \in Codes0 /\ "releasing" \in Doings
  BY EmptySeq DEF ItemList, Codes0, Doings
<1>3. Over(h) \in HelperType
  BY <1>1, <1>2 DEF Over, HelperType
<1> QED BY <1>1, <1>3 DEF Over, HelperType, Acting

LEMMA AnyValue ==
  /\ \A what \in {"idle", "readying", "readied", "reading", "setting", "body", "pressing",
                  "unpressing", "releasing", "lifting"} : what \in Doings
  /\ Absent \in Pids0 /\ Absent \in Codes0 /\ Absent \in Clipboards0
  /\ {} \in ItemSets /\ {} \in PressSets
BY DEF Doings, Pids0, Codes0, Clipboards0, ItemSets, PressSets

\* The quiet steps.
LEMMA BeginIsSafe == ASSUME HeldInv, NEW h \in Slots, Begin(h) PROVE SafeStep(h)
<1>1. PICK s \in InputSequences :
        Becomes(h, [helper[h] EXCEPT !.doing = "readying", !.todo = s.items,
                      !.pastes = s.pastes, !.prior = Absent, !.stuck = {}, !.pressed = {}])
  BY DEF Begin
<1> DEFINE r == [helper[h] EXCEPT !.doing = "readying", !.todo = s.items,
                   !.pastes = s.pastes, !.prior = Absent, !.stuck = {}, !.pressed = {}]
<1>2. helper[h].doing = "idle" /\ Acting(helper[h]) /\ helper[h] \in HelperType
  BY ActingHas DEF Begin, Doing, Acting
<1>3. /\ s.items \in ItemList /\ s.pastes \in BOOLEAN /\ Absent \in Clipboards0
      /\ {} \in ItemSets /\ {} \in PressSets /\ "readying" \in Doings
  BY HeldAssumption DEF ItemList, Clipboards0, ItemSets, PressSets, Doings
<1>6. r \in HelperType
  BY <1>2, <1>3 DEF HelperType
<1>4. /\ r.doing = "readying" /\ r.pid = helper[h].pid /\ r.started = helper[h].started
      /\ r.left = helper[h].left /\ r.found = helper[h].found /\ r.journal = helper[h].journal
  BY <1>2 DEF HelperType
<1> HIDE DEF r
<1>5. Acting(r)
  BY <1>4 DEF Acting
<1> QED BY <1>1, <1>2, <1>6, <1>4, <1>5, QuietStepsAreSafe DEF Begin, HeldInv, HeldTypes, r

LEMMA BodyEndsIsSafe == ASSUME HeldInv, NEW h \in Slots, BodyEnds(h) PROVE SafeStep(h)
<1>1. helper[h].doing = "body" /\ Acting(helper[h]) /\ Becomes(h, Over(h))
  BY DEF BodyEnds, Doing, Acting
<1>2. helper[h].down \in Stacks
  BY <1>1, ActingHas DEF HelperType
<1> HIDE DEF Over
<1> QED BY <1>1, <1>2, OverIs, QuietStepsAreSafe DEF BodyEnds, HeldInv, HeldTypes

LEMMA EndIsSafe == ASSUME HeldInv, NEW h \in Slots, End(h) PROVE SafeStep(h)
<1> DEFINE r == [helper[h] EXCEPT !.doing = "idle"]
<1>1. helper[h].doing = "releasing" /\ Acting(helper[h]) /\ helper[h] \in HelperType
  BY ActingHas DEF End, Doing, Acting
<1>2. r \in HelperType
  BY <1>1, AnyValue DEF HelperType
<1>3. /\ r.doing = "idle" /\ r.pid = helper[h].pid /\ r.started = helper[h].started
      /\ r.left = helper[h].left /\ r.found = helper[h].found /\ r.journal = helper[h].journal
  BY <1>1 DEF HelperType
<1>4. Becomes(h, r)
  BY DEF End
<1> HIDE DEF r
<1>5. Acting(r)
  BY <1>3 DEF Acting
<1> QED BY <1>1, <1>2, <1>3, <1>4, <1>5, QuietStepsAreSafe DEF End, HeldInv, HeldTypes

LEMMA RestoreIsSafe == ASSUME HeldInv, NEW h \in Slots, RestoreClipboard(h) PROVE SafeStep(h)
<1> DEFINE r == [helper[h] EXCEPT !.restore = Absent]
<1>1. helper[h].doing = "releasing" /\ Acting(helper[h]) /\ helper[h] \in HelperType
  BY ActingHas DEF RestoreClipboard, Doing, Acting
<1>2. r \in HelperType
  BY <1>1, AnyValue DEF HelperType
<1>3. /\ r.doing = "releasing" /\ r.pid = helper[h].pid /\ r.started = helper[h].started
      /\ r.left = helper[h].left /\ r.found = helper[h].found /\ r.journal = helper[h].journal
  BY <1>1 DEF HelperType
<1>4. Becomes(h, r)
  BY DEF RestoreClipboard
<1> HIDE DEF r
<1>5. Acting(r)
  BY <1>3 DEF Acting
<1>6. clipboard' \in Clipboards
  <2>1. helper[h].restore # Absent => helper[h].restore \in Clipboards
    BY <1>1 DEF HelperType, Clipboards0
  <2> QED BY <2>1 DEF RestoreClipboard, HeldInv, HeldTypes
<1>7. trouble' \in Nat
  BY TroubleIsNat DEF RestoreClipboard, HeldInv
<1> QED BY <1>1, <1>2, <1>3, <1>4, <1>5, <1>6, <1>7, QuietStepsAreSafe DEF RestoreClipboard

LEMMA ReadIsSafe == ASSUME HeldInv, NEW h \in Slots, ReadClipboard(h) PROVE SafeStep(h)
<1> DEFINE prior == IF clipboard = "image" THEN Absent ELSE clipboard
           r == [helper[h] EXCEPT !.doing = "setting", !.prior = prior]
<1>1. helper[h].doing = "reading" /\ Acting(helper[h]) /\ helper[h] \in HelperType
  BY ActingHas DEF ReadClipboard, Doing, Acting
<1>2. prior \in Clipboards0
  BY AnyValue DEF HeldInv, HeldTypes, Clipboards0
<1> HIDE DEF prior
<1>3. r \in HelperType
  BY <1>1, <1>2, AnyValue DEF HelperType
<1>4. /\ r.doing = "setting" /\ r.pid = helper[h].pid /\ r.started = helper[h].started
      /\ r.left = helper[h].left /\ r.found = helper[h].found /\ r.journal = helper[h].journal
  BY <1>1 DEF HelperType
<1> HIDE DEF r
<1>5. Acting(r)
  BY <1>4 DEF Acting
<1>6. trouble' \in Nat /\ clipboard' \in Clipboards
  BY TroubleIsNat DEF ReadClipboard, HeldInv, HeldTypes
<1>7. Becomes(h, r) \/ Becomes(h, Over(h))
  BY DEF ReadClipboard, r, prior
<1>8. CASE Becomes(h, r)
  BY <1>1, <1>3, <1>4, <1>5, <1>6, <1>8, QuietStepsAreSafe DEF ReadClipboard
<1>9. CASE Becomes(h, Over(h))
  <2>1. helper[h].down \in Stacks
    BY <1>1 DEF HelperType
  <2> HIDE DEF Over
  <2> QED BY <1>1, <1>6, <1>9, <2>1, OverIs, QuietStepsAreSafe DEF ReadClipboard
<1> QED BY <1>7, <1>8, <1>9

LEMMA SetIsSafe == ASSUME HeldInv, NEW h \in Slots, SetClipboard(h) PROVE SafeStep(h)
<1> DEFINE r == [helper[h] EXCEPT !.doing = "body", !.restore = helper[h].prior]
<1>1. helper[h].doing = "setting" /\ Acting(helper[h]) /\ helper[h] \in HelperType
  BY ActingHas DEF SetClipboard, Doing, Acting
<1>2. helper[h].prior \in Clipboards0
  BY <1>1 DEF HelperType
<1>3. r \in HelperType
  BY <1>1, <1>2, AnyValue DEF HelperType
<1>4. /\ r.doing = "body" /\ r.pid = helper[h].pid /\ r.started = helper[h].started
      /\ r.left = helper[h].left /\ r.found = helper[h].found /\ r.journal = helper[h].journal
  BY <1>1 DEF HelperType
<1> HIDE DEF r
<1>5. Acting(r)
  BY <1>4 DEF Acting
<1>6. trouble' \in Nat /\ clipboard' \in Clipboards
  BY TroubleIsNat DEF SetClipboard, HeldInv, HeldTypes, Clipboards
<1>7. Becomes(h, r) \/ Becomes(h, Over(h))
  BY DEF SetClipboard, r
<1>8. CASE Becomes(h, r)
  BY <1>1, <1>3, <1>4, <1>5, <1>6, <1>8, QuietStepsAreSafe DEF SetClipboard
<1>9. CASE Becomes(h, Over(h))
  <2>1. helper[h].down \in Stacks
    BY <1>1 DEF HelperType
  <2> HIDE DEF Over
  <2> QED BY <1>1, <1>6, <1>9, <2>1, OverIs, QuietStepsAreSafe DEF SetClipboard
<1> QED BY <1>7, <1>8, <1>9

\* The steps that write the journal.
LEMMA WrittenIs ==
  ASSUME HeldInv, NEW h \in Slots, Acting(helper[h]), NEW held \in CodeList,
         Write(h, held) \/ files' = [files EXCEPT ![helper[h].pid] = JournalOf(h, held)]
  PROVE  /\ files' \in [Pids -> Journals \cup {Absent}]
         /\ \A p \in Pids \ {helper[h].pid} : files'[p] = files[p]
         /\ files'[helper[h].pid] # Absent => files'[helper[h].pid].started = helper[h].started
         /\ \A code \in Listed(held) : Lists(files'[helper[h].pid], code)
<1>1. helper[h].pid \in Pids /\ helper[h].started \in Nat
  BY ActingHas DEF HelperType
<1>2. JournalOf(h, held) \in Journals /\ JournalOf(h, held) # Absent
  BY <1>1, AbsentIsNothing DEF JournalOf, Journals, CodeList
<1>3. JournalOf(h, held).started = helper[h].started /\ JournalOf(h, held).held = held
  BY DEF JournalOf
<1>4. held = <<>> => Listed(held) = {}
  BY DEF Listed
<1>5. files \in [Pids -> Journals \cup {Absent}]
  BY DEF HeldInv, HeldTypes
<1> DEFINE file == IF held = <<>> THEN Absent ELSE JournalOf(h, held)
<1>6. CASE Write(h, held)
  <2>1. files' = [files EXCEPT ![helper[h].pid] = file]
    BY <1>6 DEF Write
  <2>2. file \in Journals \cup {Absent} /\ (file # Absent => file.started = helper[h].started)
    BY <1>2, <1>3
  <2>3. \A code \in Listed(held) : Lists(file, code)
    BY <1>2, <1>3, <1>4 DEF Lists
  <2> HIDE DEF file
  <2> QED BY <1>1, <1>5, <2>1, <2>2, <2>3
<1>7. CASE files' = [files EXCEPT ![helper[h].pid] = JournalOf(h, held)]
  <2>1. \A code \in Listed(held) : Lists(JournalOf(h, held), code)
    BY <1>2, <1>3 DEF Lists
  <2> QED BY <1>1, <1>2, <1>3, <1>5, <1>7, <2>1
<1> QED BY <1>6, <1>7

LEMMA ReadyWritesIsSafe == ASSUME HeldInv, NEW h \in Slots, ReadyWrites(h) PROVE SafeStep(h)
<1> DEFINE r == [helper[h] EXCEPT !.doing = "readied"]
<1>1. helper[h].doing = "readying" /\ Acting(helper[h]) /\ helper[h] \in HelperType
  BY ActingHas DEF ReadyWrites, Doing, Acting
<1>2. helper[h].journal \in CodeList /\ helper[h].down \in Stacks
  BY <1>1 DEF HelperType
<1>3. r \in HelperType
  BY <1>1, AnyValue DEF HelperType
<1>4. /\ r.doing = "readied" /\ r.pid = helper[h].pid /\ r.started = helper[h].started
      /\ r.left = helper[h].left /\ r.found = helper[h].found /\ r.journal = helper[h].journal
  BY <1>1 DEF HelperType
<1>5. /\ UNCHANGED <<server, layout, clipboard, used, starts, changes, doubtful>>
      /\ trouble' \in Nat /\ clipboard' \in Clipboards
  BY TroubleIsNat DEF ReadyWrites, HeldInv, HeldTypes
<1>6. \/ Becomes(h, r) /\ files' = [files EXCEPT ![helper[h].pid] = JournalOf(h, helper[h].journal)]
      \/ Becomes(h, Over(h)) /\ UNCHANGED files
  BY DEF ReadyWrites, r
<1> HIDE DEF r
<1>7. Acting(r)
  BY <1>4 DEF Acting
<1>8. CASE /\ Becomes(h, r)
           /\ files' = [files EXCEPT ![helper[h].pid] = JournalOf(h, helper[h].journal)]
  <2>1. /\ helper' \in [Slots -> HelperType] /\ helper'[h] = r
        /\ \A g \in Slots \ {h} : helper'[g] = helper[g]
    BY <1>3, <1>8, Becoming DEF HeldInv
  <2>2. Kept(r) = Listed(helper[h].journal) /\ Kept(helper[h]) = Listed(helper[h].journal)
    BY <1>1, <1>4 DEF Kept
  <2>3. /\ files' \in [Pids -> Journals \cup {Absent}]
        /\ \A p \in Pids \ {helper[h].pid} : files'[p] = files[p]
        /\ files'[helper[h].pid] # Absent => files'[helper[h].pid].started = helper[h].started
        /\ \A code \in Listed(helper[h].journal) : Lists(files'[helper[h].pid], code)
    BY <1>1, <1>2, <1>8, WrittenIs
  <2> QED BY <1>1, <1>4, <1>5, <1>7, <2>1, <2>2, <2>3 DEF SafeStep
<1>9. CASE Becomes(h, Over(h)) /\ UNCHANGED files
  <2> HIDE DEF Over
  <2> QED BY <1>1, <1>2, <1>5, <1>9, OverIs, QuietStepsAreSafe
<1> QED BY <1>6, <1>8, <1>9

LEMMA ReadyClearsIsSafe == ASSUME HeldInv, NEW h \in Slots, ReadyClears(h) PROVE SafeStep(h)
<1> DEFINE next == IF helper[h].pastes THEN "reading" ELSE "body"
           r == [helper[h] EXCEPT !.doing = next]
<1>1. helper[h].doing = "readied" /\ Acting(helper[h]) /\ helper[h] \in HelperType
  BY ActingHas DEF ReadyClears, Doing, Acting
<1>2. helper[h].journal \in CodeList /\ helper[h].down \in Stacks
  BY <1>1 DEF HelperType
<1>3. next \in {"reading", "body"} /\ next \in Doings
  BY AnyValue
<1>6. \/ Becomes(h, r) /\ Write(h, helper[h].journal)
      \/ Becomes(h, Over(h)) /\ UNCHANGED files
  BY DEF ReadyClears
<1> HIDE DEF next
<1>4. /\ r \in HelperType
      /\ r.doing = next /\ r.pid = helper[h].pid /\ r.started = helper[h].started
      /\ r.left = helper[h].left /\ r.found = helper[h].found /\ r.journal = helper[h].journal
  BY <1>1, <1>3 DEF HelperType
<1>5. /\ UNCHANGED <<server, layout, clipboard, used, starts, changes, doubtful>>
      /\ trouble' \in Nat /\ clipboard' \in Clipboards
  BY TroubleIsNat DEF ReadyClears, HeldInv, HeldTypes
<1> HIDE DEF r
<1>7. Acting(r) /\ r.doing \notin {"pressing", "unpressing", "lifting"}
  BY <1>3, <1>4 DEF Acting
<1>8. CASE Becomes(h, r) /\ Write(h, helper[h].journal)
  <2>1. /\ helper' \in [Slots -> HelperType] /\ helper'[h] = r
        /\ \A g \in Slots \ {h} : helper'[g] = helper[g]
    BY <1>4, <1>8, Becoming DEF HeldInv
  <2>2. Kept(r) = Listed(helper[h].journal) /\ Kept(helper[h]) = Listed(helper[h].journal)
    BY <1>1, <1>4, <1>7 DEF Kept
  <2> QED BY <1>1, <1>2, <1>4, <1>5, <1>7, <1>8, <2>1, <2>2, WrittenIs DEF SafeStep
<1>9. CASE Becomes(h, Over(h)) /\ UNCHANGED files
  <2> HIDE DEF Over
  <2> QED BY <1>1, <1>2, <1>5, <1>9, OverIs, QuietStepsAreSafe
<1> QED BY <1>6, <1>8, <1>9

\* A press is on disk before the server is asked for it.
LEMMA PressRecordsIsSafe == ASSUME HeldInv, NEW h \in Slots, PressRecords(h) PROVE SafeStep(h)
<1> DEFINE item == Head(helper[h].todo)
           code == layout[item]
           down == Append(helper[h].down, [item |-> item, posted |-> FALSE])
           held == Append(helper[h].journal, code)
           r == [helper[h] EXCEPT !.doing = "pressing", !.down = down, !.journal = held,
                                  !.code = code]
           over == [Over(h) EXCEPT !.down = down]
<1>1. helper[h].doing = "body" /\ Acting(helper[h]) /\ helper[h] \in HelperType
      /\ helper[h].todo # <<>>
  BY ActingHas DEF PressRecords, Doing, Acting
<1>2. helper[h].journal \in Seq(Codes) /\ helper[h].down \in Stacks /\ helper[h].todo \in Seq(Items)
  BY <1>1 DEF HelperType, CodeList, ItemList
<1>3. item \in Items
  BY <1>1, <1>2, HeadTailProperties
<1>4. layout \in [Items -> Codes0]
  BY HeldAssumption DEF HeldInv, HeldTypes, Codes0
<1>5. code \in Codes0
  BY <1>3, <1>4
<1>6. /\ \/ code # Absent /\ Write(h, held) /\ Becomes(h, r)
         \/ UNCHANGED files /\ Becomes(h, over)
      /\ UNCHANGED <<server, layout, clipboard, used, starts, changes, doubtful>>
      /\ trouble' \in Nat /\ clipboard' \in Clipboards
  BY TroubleIsNat DEF PressRecords, HeldInv, HeldTypes
<1> HIDE DEF item
<1>7. down \in Stacks /\ down # <<>>
  <2> DEFINE S == [item: Items, posted: BOOLEAN]
             e == [item |-> item, posted |-> FALSE]
  <2>1. e \in S /\ helper[h].down \in Seq(S)
    BY <1>2, <1>3 DEF Stacks
  <2> HIDE DEF e, S
  <2>2. Append(helper[h].down, e) \in Seq(S) /\ Append(helper[h].down, e) # <<>>
    BY <2>1
  <2> QED BY <2>2 DEF e, S, Stacks
<1> HIDE DEF code
<1>8. CASE code # Absent /\ Write(h, held) /\ Becomes(h, r)
  <2>1. code \in Codes
    BY <1>5, <1>8 DEF Codes0
  <2>2. held \in CodeList /\ Listed(held) = Listed(helper[h].journal) \cup {code}
    BY <1>2, <2>1, AppendListed DEF CodeList
  <2>3. Forgotten(held, code) = helper[h].journal
    BY <1>2, <2>1, ForgetsTheLast
  <2> HIDE DEF down, held
  <2>4. r \in HelperType
    BY <1>1, <1>5, <1>7, <2>2, AnyValue DEF HelperType
  <2>5. /\ r.doing = "pressing" /\ r.pid = helper[h].pid /\ r.started = helper[h].started
        /\ r.left = helper[h].left /\ r.found = helper[h].found /\ r.journal = held
        /\ r.code = code /\ r.down = down /\ r.todo = helper[h].todo
    BY <1>1 DEF HelperType
  <2> HIDE DEF r
  <2>6. Acting(r)
    BY <2>5 DEF Acting
  <2>7. Kept(r) = Listed(helper[h].journal) /\ Kept(helper[h]) = Listed(helper[h].journal)
    BY <1>1, <2>3, <2>5 DEF Kept
  <2>8. /\ helper' \in [Slots -> HelperType] /\ helper'[h] = r
        /\ \A g \in Slots \ {h} : helper'[g] = helper[g]
    BY <1>8, <2>4, Becoming DEF HeldInv
  <2>9. /\ files' \in [Pids -> Journals \cup {Absent}]
        /\ \A p \in Pids \ {helper[h].pid} : files'[p] = files[p]
        /\ files'[helper[h].pid] # Absent => files'[helper[h].pid].started = helper[h].started
        /\ \A c \in Listed(held) : Lists(files'[helper[h].pid], c)
    BY <1>1, <1>8, <2>2, WrittenIs
  <2> QED BY <1>1, <1>6, <1>7, <2>1, <2>2, <2>5, <2>6, <2>7, <2>8, <2>9 DEF SafeStep
<1>9. CASE UNCHANGED files /\ Becomes(h, over)
  <2> HIDE DEF Over, down
  <2>1. /\ over \in HelperType /\ over.doing = "releasing"
        /\ over.pid = helper[h].pid /\ over.started = helper[h].started
        /\ over.left = helper[h].left /\ over.found = helper[h].found
        /\ over.journal = helper[h].journal
    BY <1>1, <1>7, OverIs
  <2> HIDE DEF over
  <2>2. Acting(over)
    BY <2>1 DEF Acting
  <2> QED BY <1>1, <1>6, <1>9, <2>1, <2>2, QuietStepsAreSafe
<1> QED BY <1>6, <1>8, <1>9

LEMMA PressPostsIsSafe == ASSUME HeldInv, NEW h \in Slots, PressPosts(h) PROVE SafeStep(h)
<1> DEFINE code == helper[h].code
           posted == [helper[h].down EXCEPT ![Len(helper[h].down)] =
                        [item |-> Top(h).item, posted |-> TRUE]]
           rest == Tail(helper[h].todo)
           pressed == helper[h].pressed \cup {[item |-> Top(h).item, code |-> code]}
           took == [helper[h] EXCEPT !.doing = "body", !.todo = rest, !.code = Absent,
                                     !.down = posted, !.pressed = pressed]
           failed == [helper[h] EXCEPT !.doing = "unpressing"]
           broke == [failed EXCEPT !.connected = FALSE]
<1>1. helper[h].doing = "pressing" /\ Acting(helper[h]) /\ helper[h] \in HelperType
  BY ActingHas DEF PressPosts, Doing, Acting
<1>2. /\ \/ server' = server \cup {code} /\ UNCHANGED doubtful /\ Becomes(h, took)
         \/ UNCHANGED <<server, doubtful>> /\ Becomes(h, failed)
         \/ /\ server' \in {server, server \cup {code}} /\ doubtful' = doubtful \cup {code}
            /\ Becomes(h, broke)
      /\ UNCHANGED <<layout, files, clipboard, used, starts, changes>>
      /\ trouble' \in Nat /\ clipboard' \in Clipboards
  BY TroubleIsNat DEF PressPosts, HeldInv, HeldTypes
<1> HIDE DEF Top, pressed, posted, rest
<1>3. /\ code \in Codes /\ code \in Listed(helper[h].journal) /\ helper[h].down # <<>>
      /\ Lists(files[helper[h].pid], code) /\ helper[h].todo # <<>>
  BY <1>1 DEF HeldInv, AskedIsWritten
<1>4. /\ helper[h].journal \in Seq(Codes)
      /\ helper[h].down \in Seq([item: Items, posted: BOOLEAN])
      /\ helper[h].pressed \in PressSets /\ helper[h].todo \in Seq(Items)
  BY <1>1 DEF HelperType, CodeList, Stacks, ItemList
<1>5. Kept(helper[h]) \subseteq Listed(helper[h].journal)
  BY <1>1, <1>4, ForgetsOne DEF Kept
<1>6. files[helper[h].pid] # Absent => files[helper[h].pid].started = helper[h].started
  BY <1>1, ActingHas, AbsentIsNothing DEF HeldInv, LivingOwnTheirs
<1>7. files \in [Pids -> Journals \cup {Absent}] /\ Absent \in Codes0
  BY DEF HeldInv, HeldTypes, Codes0
<1>8. Top(h).item \in Items
  <2>1. Last(helper[h].down) \in [item: Items, posted: BOOLEAN]
    BY <1>3, <1>4, LastFront
  <2> QED BY <2>1 DEF Top
<1>9. CASE server' = server \cup {code} /\ UNCHANGED doubtful /\ Becomes(h, took)
  <2>1. posted \in Stacks
    BY <1>3, <1>4, <1>8, LastFront, ExceptSeq DEF Stacks, posted
  <2>2. pressed \in PressSets
    BY <1>3, <1>4, <1>8 DEF PressSets, pressed
  <2>3. rest \in ItemList
    BY <1>3, <1>4, HeadTailProperties DEF ItemList, rest
  <2>4. took \in HelperType
    BY <1>1, <1>7, <2>1, <2>2, <2>3, AnyValue DEF HelperType
  <2>5. /\ took.doing = "body" /\ took.pid = helper[h].pid /\ took.started = helper[h].started
        /\ took.left = helper[h].left /\ took.found = helper[h].found
        /\ took.journal = helper[h].journal
    BY <1>1 DEF HelperType
  <2> HIDE DEF took
  <2>6. Acting(took) /\ Kept(took) = Listed(helper[h].journal)
    BY <2>5 DEF Acting, Kept
  <2>7. /\ helper' \in [Slots -> HelperType] /\ helper'[h] = took
        /\ \A g \in Slots \ {h} : helper'[g] = helper[g]
    BY <1>9, <2>4, Becoming DEF HeldInv
  <2> QED BY <1>1, <1>2, <1>3, <1>5, <1>6, <1>7, <1>9, <2>5, <2>6, <2>7 DEF SafeStep
<1>10. ASSUME NEW r \in {failed, broke}, Becomes(h, r), doubtful \subseteq doubtful',
              server \subseteq server', server' \ server \subseteq doubtful'
       PROVE  SafeStep(h)
  <2>1. failed \in HelperType
    BY <1>1, AnyValue DEF HelperType
  <2>2. broke \in HelperType
    BY <2>1 DEF HelperType
  <2>3. /\ r.doing = "unpressing" /\ r.pid = helper[h].pid /\ r.started = helper[h].started
        /\ r.left = helper[h].left /\ r.found = helper[h].found
        /\ r.journal = helper[h].journal /\ r.code = code /\ r \in HelperType
    BY <1>1, <1>10, <2>1, <2>2 DEF HelperType
  <2>4. Acting(r) /\ Kept(r) = Kept(helper[h])
    BY <1>1, <2>3 DEF Acting, Kept
  <2>5. /\ helper' \in [Slots -> HelperType] /\ helper'[h] = r
        /\ \A g \in Slots \ {h} : helper'[g] = helper[g]
    BY <1>10, <2>3, Becoming DEF HeldInv
  <2> HIDE DEF failed, broke
  <2> QED BY <1>1, <1>2, <1>3, <1>6, <1>7, <1>10, <2>3, <2>4, <2>5 DEF SafeStep
<1> HIDE DEF took, failed, broke
<1> QED BY <1>2, <1>9, <1>10

\* What is forgotten on disk is what was up, or was never pressed.
LEMMA ForgetsIsSafe ==
  ASSUME HeldInv, NEW h \in Slots, helper[h].doing \in {"unpressing", "lifting"},
         NEW worked \in HelperType, NEW broke \in HelperType,
         ForgetsOnDisk(h, helper[h].code, worked, broke),
         \A r \in {worked, broke} :
           /\ r.doing = "releasing" /\ r.pid = helper[h].pid /\ r.started = helper[h].started
           /\ r.left = helper[h].left /\ r.found = helper[h].found,
         UNCHANGED <<server, layout, clipboard, used, starts, changes, doubtful>>
  PROVE  SafeStep(h)
<1> DEFINE code == helper[h].code
           journal == Forgotten(helper[h].journal, code)
<1>1. Acting(helper[h]) /\ helper[h] \in HelperType /\ helper[h].pid \in Pids
  BY ActingHas DEF Acting
<1>2. helper[h].journal \in Seq(Codes)
  BY <1>1 DEF HelperType, CodeList
<1>3. /\ journal \in CodeList
      /\ code \notin Listed(helper[h].journal) => journal = helper[h].journal
  BY <1>2, ForgetsOne DEF CodeList
<1>4. PICK r \in {worked, broke} :
        /\ Becomes(h, [r EXCEPT !.journal = journal])
        /\ Write(h, journal) \/ UNCHANGED files
  BY DEF ForgetsOnDisk
<1>5. trouble' \in Nat /\ clipboard' \in Clipboards /\ files \in [Pids -> Journals \cup {Absent}]
  BY TroubleIsNat DEF ForgetsOnDisk, HeldInv, HeldTypes
<1> HIDE DEF journal
<1> DEFINE next == [r EXCEPT !.journal = journal]
<1>6. /\ next \in HelperType /\ next.doing = "releasing" /\ next.pid = helper[h].pid
      /\ next.started = helper[h].started /\ next.left = helper[h].left
      /\ next.found = helper[h].found /\ next.journal = journal
  BY <1>3 DEF HelperType
<1>7. Becomes(h, next)
  BY <1>4
<1> HIDE DEF next
<1>8. Kept(next) = Listed(journal) /\ Kept(helper[h]) = Listed(journal) /\ Acting(next)
  BY <1>6 DEF Kept, Acting, journal
<1>9. /\ helper' \in [Slots -> HelperType] /\ helper'[h] = next
      /\ \A g \in Slots \ {h} : helper'[g] = helper[g]
  BY <1>6, <1>7, Becoming DEF HeldInv
<1>10. CASE Write(h, journal)
  <2>1. /\ files' \in [Pids -> Journals \cup {Absent}]
        /\ \A p \in Pids \ {helper[h].pid} : files'[p] = files[p]
        /\ files'[helper[h].pid] # Absent => files'[helper[h].pid].started = helper[h].started
        /\ \A c \in Listed(journal) : Lists(files'[helper[h].pid], c)
    BY <1>1, <1>3, <1>10, WrittenIs
  <2> QED BY <1>1, <1>5, <1>6, <1>8, <1>9, <2>1 DEF SafeStep
<1>11. CASE UNCHANGED files
  <2>1. files[helper[h].pid] # Absent => files[helper[h].pid].started = helper[h].started
    BY <1>1, AbsentIsNothing DEF HeldInv, LivingOwnTheirs
  <2> QED BY <1>1, <1>5, <1>6, <1>8, <1>9, <1>11, <2>1 DEF SafeStep
<1> QED BY <1>4, <1>10, <1>11

LEMMA PressForgetsIsSafe == ASSUME HeldInv, NEW h \in Slots, PressForgets(h) PROVE SafeStep(h)
<1>1. helper[h].doing = "unpressing" /\ Acting(helper[h])
  BY DEF PressForgets, Doing, Acting
<1>2. helper[h].down \in Stacks
  BY <1>1, ActingHas DEF HelperType
<1>3. /\ Over(h) \in HelperType /\ Over(h).doing = "releasing" /\ Over(h).pid = helper[h].pid
      /\ Over(h).started = helper[h].started
      /\ Over(h).left = helper[h].left /\ Over(h).found = helper[h].found
  BY <1>1, <1>2, OverIs
<1>4. /\ ForgetsOnDisk(h, helper[h].code, Over(h), Over(h))
      /\ UNCHANGED <<server, layout, clipboard, used, starts, changes, doubtful>>
  BY DEF PressForgets
<1> HIDE DEF Over
<1> QED BY <1>1, <1>3, <1>4, ForgetsIsSafe

LEMMA PoppedIs ==
  ASSUME HeldInv, NEW h \in Slots, Acting(helper[h]), helper[h].down # <<>>,
         NEW failed \in BOOLEAN
  PROVE  /\ Popped(h, failed) \in HelperType /\ Popped(h, failed).doing = "releasing"
         /\ [Popped(h, failed) EXCEPT !.connected = FALSE] \in HelperType
         /\ \A r \in {Popped(h, failed), [Popped(h, failed) EXCEPT !.connected = FALSE]} :
              /\ r.doing = "releasing" /\ r.pid = helper[h].pid /\ r.started = helper[h].started
              /\ r.left = helper[h].left /\ r.found = helper[h].found
              /\ r.journal = helper[h].journal
<1> DEFINE front == Front(helper[h].down)
           stuck == IF failed /\ Top(h).posted THEN helper[h].stuck \cup {Top(h).item}
                    ELSE helper[h].stuck
<1>1. helper[h] \in HelperType
  BY ActingHas
<1>2. helper[h].down \in Seq([item: Items, posted: BOOLEAN]) /\ helper[h].stuck \in ItemSets
  BY <1>1 DEF HelperType, Stacks
<1>3. front \in Stacks /\ Last(helper[h].down) \in [item: Items, posted: BOOLEAN]
  BY <1>2, LastFront DEF Stacks
<1>4. stuck \in ItemSets
  BY <1>2, <1>3 DEF Top, ItemSets
<1>5. Popped(h, failed) =
        [helper[h] EXCEPT !.doing = "releasing", !.down = front, !.code = Absent, !.stuck = stuck]
  BY <1>1 DEF Popped, HelperType
<1> HIDE DEF front, stuck
<1>6. Popped(h, failed) \in HelperType
  BY <1>1, <1>3, <1>4, <1>5, AnyValue DEF HelperType
<1>7. /\ Popped(h, failed).doing = "releasing" /\ Popped(h, failed).pid = helper[h].pid
      /\ Popped(h, failed).started = helper[h].started
      /\ Popped(h, failed).left = helper[h].left /\ Popped(h, failed).found = helper[h].found
      /\ Popped(h, failed).journal = helper[h].journal
  BY <1>1, <1>5 DEF HelperType
<1> HIDE DEF Popped
<1> QED BY <1>6, <1>7 DEF HelperType

LEMMA ReleaseForgetsIsSafe ==
  ASSUME HeldInv, NEW h \in Slots, ReleaseForgets(h) PROVE SafeStep(h)
<1>1. helper[h].doing = "lifting" /\ Acting(helper[h])
  BY DEF ReleaseForgets, Doing, Acting
<1>2. helper[h].down # <<>>
  BY <1>1 DEF HeldInv, AskedIsWritten
<1>3. \A failed \in BOOLEAN :
        /\ Popped(h, failed) \in HelperType /\ Popped(h, failed).doing = "releasing"
        /\ Popped(h, failed).pid = helper[h].pid
        /\ Popped(h, failed).started = helper[h].started
        /\ Popped(h, failed).left = helper[h].left /\ Popped(h, failed).found = helper[h].found
  BY <1>1, <1>2, PoppedIs
<1>4. /\ ForgetsOnDisk(h, helper[h].code, Popped(h, FALSE), Popped(h, TRUE))
      /\ UNCHANGED <<server, layout, clipboard, used, starts, changes, doubtful>>
  BY DEF ReleaseForgets
<1> HIDE DEF Popped
<1> QED BY <1>1, <1>3, <1>4, ForgetsIsSafe

\* A key is up before its journal forgets it.
LEMMA ReleasePostsIsSafe ==
  ASSUME HeldInv, NEW h \in Slots, ReleasePosts(h) PROVE SafeStep(h)
<1> DEFINE code == layout[Top(h).item]
           lifts == [helper[h] EXCEPT !.doing = "lifting", !.code = code]
           popped == Popped(h, TRUE)
           broke == [popped EXCEPT !.connected = FALSE]
<1>1. helper[h].doing = "releasing" /\ Acting(helper[h]) /\ helper[h] \in HelperType
      /\ helper[h].down # <<>>
  BY ActingHas DEF ReleasePosts, Doing, Acting
<1>2. /\ \/ code # Absent /\ server' = server \ {code} /\ Becomes(h, lifts)
         \/ server' \subseteq server /\ (Becomes(h, popped) \/ Becomes(h, broke))
      /\ UNCHANGED <<layout, files, clipboard, used, starts, changes, doubtful>>
      /\ trouble' \in Nat /\ clipboard' \in Clipboards
  BY TroubleIsNat DEF ReleasePosts, HeldInv, HeldTypes
<1>3. code \in Codes0
  <2>1. helper[h].down \in Seq([item: Items, posted: BOOLEAN])
    BY <1>1 DEF HelperType, Stacks
  <2>2. Last(helper[h].down) \in [item: Items, posted: BOOLEAN]
    BY <1>1, <2>1, LastFront
  <2>3. layout \in [Items -> Codes0]
    BY HeldAssumption DEF HeldInv, HeldTypes, Codes0
  <2> QED BY <2>2, <2>3 DEF Top
<1> HIDE DEF code
<1>4. CASE code # Absent /\ server' = server \ {code} /\ Becomes(h, lifts)
  <2>1. /\ lifts \in HelperType /\ lifts.doing = "lifting" /\ lifts.pid = helper[h].pid
        /\ lifts.started = helper[h].started /\ lifts.left = helper[h].left
        /\ lifts.found = helper[h].found /\ lifts.journal = helper[h].journal
        /\ lifts.code = code /\ lifts.down = helper[h].down
    BY <1>1, <1>3, AnyValue DEF HelperType
  <2> HIDE DEF lifts
  <2>2. /\ helper' \in [Slots -> HelperType] /\ helper'[h] = lifts
        /\ \A g \in Slots \ {h} : helper'[g] = helper[g]
    BY <1>4, <2>1, Becoming DEF HeldInv
  <2>3. helper[h].journal \in Seq(Codes)
    BY <1>1 DEF HelperType, CodeList
  <2>4. /\ Kept(helper[h]) = Listed(helper[h].journal)
        /\ Kept(lifts) = Listed(Forgotten(helper[h].journal, code))
    BY <1>1, <2>1 DEF Kept
  <2>5. Kept(helper[h]) \ {code} \subseteq Kept(lifts)
    BY <2>3, <2>4, ForgetsOne
  <2>6. files[helper[h].pid] # Absent => files[helper[h].pid].started = helper[h].started
    BY <1>1, ActingHas, AbsentIsNothing DEF HeldInv, LivingOwnTheirs
  <2>7. code \in Codes /\ Acting(lifts) /\ files \in [Pids -> Journals \cup {Absent}]
    BY <1>3, <1>4, <2>1 DEF Codes0, Acting, HeldInv, HeldTypes
  <2> QED BY <1>1, <1>2, <1>4, <2>1, <2>2, <2>5, <2>6, <2>7 DEF SafeStep
<1>5. ASSUME NEW r \in {popped, broke}, Becomes(h, r), server' \subseteq server
      PROVE  SafeStep(h)
  <2>1. /\ r \in HelperType /\ r.doing = "releasing" /\ r.pid = helper[h].pid
        /\ r.started = helper[h].started /\ r.left = helper[h].left
        /\ r.found = helper[h].found /\ r.journal = helper[h].journal
    BY <1>1, PoppedIs
  <2>2. Acting(r)
    BY <2>1 DEF Acting
  <2> HIDE DEF popped, broke
  <2> QED BY <1>1, <1>2, <1>5, <2>1, <2>2, QuietStepsAreSafe
<1> HIDE DEF lifts, popped, broke
<1> QED BY <1>2, <1>4, <1>5

LEMMA SequenceIsSafe == ASSUME HeldInv, NEW h \in Slots, Sequence(h) PROVE SafeStep(h)
BY BeginIsSafe, ReadyWritesIsSafe, ReadyClearsIsSafe, ReadIsSafe, SetIsSafe, PressRecordsIsSafe,
   PressPostsIsSafe, PressForgetsIsSafe, BodyEndsIsSafe, ReleasePostsIsSafe,
   ReleaseForgetsIsSafe, RestoreIsSafe, EndIsSafe
   DEF Sequence
-----------------------------------------------------------------------------
(* What happens around a sequence. *)

LEMMA DeadIs ==
  /\ Dead \in HelperType /\ Dead.doing = "dead" /\ Dead.pid = Absent /\ Dead.left = <<>>
  /\ Dead.found = {} /\ Dead.pressed = {} /\ Dead.started = 0 /\ Dead.journal = <<>>
<1>1. /\ <<>> \in CodeList /\ <<>> \in LeftList /\ <<>> \in Stacks /\ <<>> \in ItemList
      /\ {} \in PidSets /\ "dead" \in Doings
  BY EmptySeq DEF CodeList, LeftList, Stacks, ItemList, PidSets, Doings
<1> QED BY <1>1, AnyValue DEF Dead, HelperType

LEMMA InitHolds == HeldInit => HeldInv
<1> SUFFICES ASSUME HeldInit PROVE HeldInv
  OBVIOUS
<1>1. \A h \in Slots : helper[h] = Dead
  BY DEF HeldInit
<1>2. HeldTypes
  BY DeadIs DEF HeldInit, HeldTypes, Clipboards
<1>3. NumbersAreUsed /\ AskedIsWritten
  BY <1>1, DeadIs DEF HeldInit, NumbersAreUsed, AskedIsWritten
<1>4. LivingOwnTheirs
  BY <1>1, DeadIs DEF LivingOwnTheirs
<1>5. FoundAreDead
  BY <1>1, DeadIs DEF FoundAreDead
<1>6. Attested
  BY DEF HeldInit, Attested
<1> QED BY <1>2, <1>3, <1>4, <1>5, <1>6 DEF HeldInv

LEMMA KilledKeeps ==
  ASSUME HeldInv, NEW h \in Slots, Killed(h)
  PROVE  HeldInv' /\ AttestsStay /\ (FoundAreCleared => FoundAreCleared')
<1> USE DEF HeldInv
<1>1. /\ helper' \in [Slots -> HelperType] /\ helper'[h] = Dead
      /\ \A g \in Slots \ {h} : helper'[g] = helper[g]
      /\ UNCHANGED <<server, layout, files, clipboard, used, starts, trouble, changes, doubtful>>
  BY Becoming, DeadIs DEF Killed
<1>2. HeldTypes'
  BY <1>1 DEF HeldTypes
<1>3. NumbersAreUsed'
  BY <1>1, DeadIs DEF NumbersAreUsed
<1>4. LivingOwnTheirs'
  BY <1>1, DeadIs DEF LivingOwnTheirs
<1>5. FoundAreDead'
  <2>1. \A g \in Slots : helper'[g].pid = Absent \/ helper'[g].pid = helper[g].pid
    BY <1>1, DeadIs
  <2>2. used \subseteq Pids
    BY DEF HeldTypes
  <2>3. helper'[h].found = {} /\ helper'[h].left = <<>> /\ helper'[h].doing = "dead"
    BY <1>1, DeadIs
  <2> QED BY <1>1, <2>1, <2>2, <2>3, AbsentIsNothing DEF FoundAreDead
<1>6. AskedIsWritten'
  <2>1. helper'[h].doing = "dead"
    BY <1>1, DeadIs
  <2> QED BY <1>1, <2>1 DEF AskedIsWritten
<1>7. AttestsStay
  <2>1. \A p \in Pids, code \in server : Vouches(helper'[h], p, code)
    BY <1>1, DeadIs, AbsentIsNothing DEF Vouches
  <2> QED BY <1>1, <2>1 DEF AttestsStay, Attests
<1>9. Attested'
  BY <1>1, <1>7 DEF Attested, AttestsStay
<1>8. FoundAreCleared => FoundAreCleared'
  <2>1. helper'[h].found = {} /\ helper'[h].left = <<>>
    BY <1>1, DeadIs
  <2> QED BY <1>1, <2>1 DEF FoundAreCleared
<1> QED BY <1>2, <1>3, <1>4, <1>5, <1>6, <1>7, <1>8, <1>9

LEMMA AroundKeeps ==
  ASSUME HeldInv, LayoutChanges \/ PersonCopies
  PROVE  HeldInv' /\ AttestsStay /\ (FoundAreCleared => FoundAreCleared')
<1> USE DEF HeldInv
<1>1. /\ UNCHANGED <<server, files, helper, used, starts, trouble, doubtful>>
      /\ layout' \in Layouts /\ clipboard' \in Clipboards /\ changes' \in Nat
  <2>1. CASE LayoutChanges
    BY <2>1 DEF LayoutChanges, HeldTypes
  <2>2. CASE PersonCopies
    BY <2>2, HeldAssumption DEF PersonCopies, HeldTypes, Clipboards
  <2> QED BY <2>1, <2>2
<1>2. HeldTypes'
  BY <1>1 DEF HeldTypes
<1>3. /\ NumbersAreUsed' /\ LivingOwnTheirs' /\ FoundAreDead' /\ AskedIsWritten'
  BY <1>1 DEF NumbersAreUsed, LivingOwnTheirs, FoundAreDead, AskedIsWritten
<1>4. Attested' /\ AttestsStay
  BY <1>1 DEF Attested, AttestsStay, Attests
<1>5. FoundAreCleared => FoundAreCleared'
  BY <1>1 DEF FoundAreCleared
<1> QED BY <1>2, <1>3, <1>4, <1>5

\* The journals a start finds are of processes that are dead, and stay so.
LEMMA LeftIs ==
  ASSUME HeldInv, NEW names \in Listings, NEW left \in LeftBehind(names)
  PROVE  /\ left \in LeftList
         /\ \A i \in DOMAIN left :
              /\ left[i].pid \in Pids /\ files[left[i].pid] # Absent /\ left[i].pid \in used
              /\ left[i].held = files[left[i].pid].held /\ left[i].stuck = FALSE
              /\ \A g \in Slots : helper[g].pid # left[i].pid
<1> DEFINE dead == {p \in names : ~Alive(p, files[p].started)}
           found(order) ==
             [i \in DOMAIN order |->
               [pid |-> order[i], held |-> files[order[i]].held, stuck |-> FALSE]]
<1>1. PICK order \in Orders(dead) : left = found(order)
  BY DEF LeftBehind
<1>2. PICK n \in 0 .. MaxJournals : order \in [1 .. n -> dead]
  BY <1>1 DEF Orders
<1>3. \A p \in dead : p \in Pids /\ files[p] # Absent /\ ~Alive(p, files[p].started)
  BY DEF Listings
<1>4. \A p \in dead : p \in used /\ files[p].held \in CodeList
  BY <1>3 DEF HeldInv, HeldTypes, NumbersAreUsed, Journals, CodeList
<1>5. \A p \in dead : \A g \in Slots : helper[g].pid # p
  <2> SUFFICES ASSUME NEW p \in dead, NEW g \in Slots, helper[g].pid = p PROVE FALSE
    OBVIOUS
  <2>1. p # Absent
    BY <1>3, AbsentIsNothing
  <2>2. files[p].started = helper[g].started
    BY <1>3, <2>1 DEF HeldInv, LivingOwnTheirs
  <2> QED BY <1>3, <2>2 DEF Alive
<1> HIDE DEF dead
<1>6. /\ DOMAIN left = 1 .. n /\ \A i \in 1 .. n : order[i] \in dead
      /\ \A i \in 1 .. n :
           left[i] = [pid |-> order[i], held |-> files[order[i]].held, stuck |-> FALSE]
      /\ left = [i \in 1 .. n |-> left[i]]
  BY <1>1, <1>2
<1> HIDE DEF found
<1>7. \A i \in 1 .. n : left[i] \in LeftEntries
  <2> TAKE i \in 1 .. n
  <2>1. order[i] \in Pids /\ files[order[i]].held \in CodeList
    BY <1>3, <1>4, <1>6
  <2>2. [pid |-> order[i], held |-> files[order[i]].held, stuck |-> FALSE] \in LeftEntries
    BY <2>1 DEF LeftEntries
  <2>3. left[i] = [pid |-> order[i], held |-> files[order[i]].held, stuck |-> FALSE]
    BY <1>6
  <2> QED BY <2>2, <2>3
<1>8. left \in LeftList
  <2>1. n \in Nat
    BY HeldAssumption
  <2>2. left \in [1 .. n -> LeftEntries]
    BY <1>6, <1>7
  <2>3. left \in Seq(LeftEntries)
    BY <2>1, <2>2, SeqDef
  <2> QED BY <2>3 DEF LeftList
<1> QED BY <1>3, <1>4, <1>5, <1>6, <1>8

LEMMA StartKeeps ==
  ASSUME HeldInv, ~PidsComeBack \/ used = {}, NEW h \in Slots, Start(h)
  PROVE  HeldInv' /\ AttestsStay /\ (FoundAreCleared => FoundAreCleared')
<1> USE DEF HeldInv
<1>1. PICK pid \in Pids, names \in Listings : \E left \in LeftBehind(names) :
        /\ \A g \in Slots : helper[g].pid # pid
        /\ pid \notin used /\ used' = used \cup {pid}
        /\ LET new == [Dead EXCEPT !.pid = pid, !.started = starts + 1, !.connected = TRUE,
                                   !.found = {left[i].pid : i \in DOMAIN left},
                                   !.doing = "idle"]
           IN  \/ left = <<>> /\ Works /\ Becomes(h, new)
               \/ /\ left # <<>> /\ Works
                  /\ Becomes(h, [new EXCEPT !.left = left, !.doing = "starting"])
               \/ left # <<>> /\ Fails /\ Becomes(h, new)
  BY DEF Start
<1>2. PICK left \in LeftBehind(names) :
        /\ \A g \in Slots : helper[g].pid # pid
        /\ pid \notin used /\ used' = used \cup {pid}
        /\ LET new == [Dead EXCEPT !.pid = pid, !.started = starts + 1, !.connected = TRUE,
                                   !.found = {left[i].pid : i \in DOMAIN left},
                                   !.doing = "idle"]
           IN  \/ left = <<>> /\ Works /\ Becomes(h, new)
               \/ /\ left # <<>> /\ Works
                  /\ Becomes(h, [new EXCEPT !.left = left, !.doing = "starting"])
               \/ left # <<>> /\ Fails /\ Becomes(h, new)
  BY <1>1
<1> DEFINE found == {left[i].pid : i \in DOMAIN left}
           idle == [Dead EXCEPT !.pid = pid, !.started = starts + 1, !.connected = TRUE,
                                !.found = found, !.doing = "idle"]
           starting == [idle EXCEPT !.left = left, !.doing = "starting"]
<1>3. /\ left \in LeftList
      /\ \A i \in DOMAIN left :
           /\ left[i].pid \in Pids /\ files[left[i].pid] # Absent /\ left[i].pid \in used
           /\ left[i].held = files[left[i].pid].held /\ left[i].stuck = FALSE
           /\ \A g \in Slots : helper[g].pid # left[i].pid
  BY LeftIs
<1>4. found \in PidSets /\ \A p \in found : p \in used /\ \A g \in Slots : helper[g].pid # p
  BY <1>3 DEF PidSets
<1>5. /\ UNCHANGED <<server, layout, files, clipboard, changes, doubtful>> /\ starts' \in Nat
      /\ starts + 1 \in Nat /\ trouble' \in Nat /\ helper[h].doing = "dead"
  BY TroubleIsNat DEF Start, Doing, HeldTypes
<1>6. PICK r \in {idle, starting} :
        /\ Becomes(h, r)
        /\ \/ r = idle /\ (left = <<>> \/ trouble' # 0)
           \/ r = starting /\ left # <<>>
  <2>1. \/ Becomes(h, idle) /\ (left = <<>> \/ trouble' # 0)
        \/ left # <<>> /\ Becomes(h, starting)
    BY <1>2, TroubleIsNat
  <2> HIDE DEF idle, starting
  <2> QED BY <2>1
<1> HIDE DEF found
<1>7. /\ idle \in HelperType /\ idle.doing = "idle" /\ idle.pid = pid /\ idle.left = <<>>
      /\ idle.found = found
  <2>1. pid \in Pids0 /\ "idle" \in Doings
    BY AnyValue DEF Pids0
  <2> QED BY <1>4, <1>5, <2>1, DeadIs DEF HelperType
<1>8. /\ starting \in HelperType /\ starting.doing = "starting" /\ starting.pid = pid
      /\ starting.left = left /\ starting.found = found
  <2>1. "starting" \in Doings
    BY DEF Doings
  <2> HIDE DEF idle
  <2> QED BY <1>3, <1>7, <2>1 DEF HelperType
<1> HIDE DEF idle, starting
<1>9. /\ r \in HelperType /\ r.pid = pid /\ r.found = found
      /\ r.doing \in {"idle", "starting"} /\ (r.doing = "starting" <=> r.left # <<>>)
      /\ r.left \in {<<>>, left} /\ (trouble' = 0 => r.left = left)
  BY <1>6, <1>7, <1>8
<1>10. /\ helper' \in [Slots -> HelperType] /\ helper'[h] = r
       /\ \A g \in Slots \ {h} : helper'[g] = helper[g]
  BY <1>6, <1>9, Becoming
<1>11. /\ \A g \in Slots : helper[g].pid # pid
       /\ pid \notin used /\ used' = used \cup {pid} /\ files[pid] = Absent /\ pid # Absent
  BY <1>2, AbsentIsNothing DEF NumbersAreUsed
<1>12. HeldTypes'
  BY <1>5, <1>10, <1>11 DEF HeldTypes
<1>13. NumbersAreUsed'
  BY <1>5, <1>9, <1>10, <1>11 DEF NumbersAreUsed
<1>14. LivingOwnTheirs'
  BY <1>5, <1>9, <1>10, <1>11 DEF LivingOwnTheirs
<1>15. FoundAreDead'
  <2>1. ASSUME NEW g \in Slots, NEW p \in helper'[g].found
        PROVE  p \in used' /\ \A k \in Slots : helper'[k].pid # p
    <3>1. p \in used /\ \A k \in Slots : helper[k].pid # p
      BY <1>4, <1>9, <1>10, <2>1 DEF FoundAreDead
    <3> QED BY <1>9, <1>10, <1>11, <3>1
  <2>2. \A i \in DOMAIN r.left : r.left[i].pid \in r.found
    BY <1>9 DEF found
  <2> QED BY <1>9, <1>10, <2>1, <2>2 DEF FoundAreDead
<1>16. AskedIsWritten'
  <2>1. r.doing \notin {"pressing", "unpressing", "lifting"}
    BY <1>9
  <2> QED BY <1>5, <1>10, <2>1 DEF AskedIsWritten
<1>17. Attested' /\ AttestsStay
  <2>1. ASSUME NEW p \in Pids, NEW code \in server, Attests(p, code) PROVE Attests(p, code)'
    <3>1. files[p] # Absent /\ code \in Listed(files[p].held)
      BY <2>1 DEF Attests, Lists
    <3>2. p # pid
      BY <1>11, <3>1
    <3>3. \A i \in DOMAIN r.left : r.left[i].pid = p => code \in Listed(r.left[i].held)
      BY <1>3, <1>9, <3>1
    <3>4. Vouches(r, p, code)
      BY <1>9, <3>2, <3>3 DEF Vouches
    <3> QED BY <1>5, <1>10, <2>1, <3>4 DEF Attests
  <2> QED BY <1>5, <2>1 DEF Attested, AttestsStay
<1>18. FoundAreCleared => FoundAreCleared'
  <2> SUFFICES ASSUME FoundAreCleared, trouble' = 0 PROVE FoundAreCleared'
    BY DEF FoundAreCleared
  <2>1. trouble = 0
    BY TroubleIsNat DEF Start
  <2>2. /\ \A i \in DOMAIN r.left : ~r.left[i].stuck
        /\ \A p \in r.found : \E i \in DOMAIN r.left : r.left[i].pid = p
    BY <1>3, <1>9 DEF found
  <2> QED BY <1>5, <1>10, <2>1, <2>2 DEF FoundAreCleared
<1> QED BY <1>12, <1>13, <1>14, <1>15, <1>16, <1>17, <1>18

\* The rest of a start: what each of its steps leaves of what it found.
LEMMA LiftLeftKeeps ==
  ASSUME HeldInv, NEW h \in Slots, LiftLeft(h)
  PROVE  HeldInv' /\ AttestsStay /\ (FoundAreCleared => FoundAreCleared')
<1> USE DEF HeldInv
<1> DEFINE left == helper[h].left
           journal == left[1]
           rest(stuck) == [journal EXCEPT !.held = Front(@), !.stuck = stuck]
           next(stuck) == [helper[h] EXCEPT !.left = [left EXCEPT ![1] = rest(stuck)]]
<1>1. /\ helper[h].doing = "starting" /\ helper[h] \in HelperType
      /\ left \in Seq(LeftEntries) /\ left # <<>>
  BY DEF LiftLeft, Doing, HeldTypes, HelperType, LeftList, FoundAreDead
<1>2. Head(left) = journal /\ DOMAIN left = 1 .. Len(left) /\ Len(left) \in Nat \ {0}
  BY <1>1, LenProperties, EmptySeq
<1>3. PICK stuck \in BOOLEAN :
        /\ Becomes(h, next(stuck)) /\ journal.held # <<>>
        /\ \/ server' = server \ {Last(journal.held)} /\ stuck = journal.stuck
           \/ server' = server /\ stuck /\ trouble' # 0
        /\ trouble' = 0 => trouble = 0
  <2>1. Head(left) \in LeftEntries
    BY <1>1, HeadTailProperties
  <2>2. journal.stuck \in BOOLEAN
    BY <1>2, <2>1 DEF LeftEntries
  <2> QED BY <1>2, <2>2, TroubleIsNat DEF LiftLeft
<1>4. /\ UNCHANGED <<layout, files, clipboard, used, starts, changes, doubtful>> /\ trouble' \in Nat
  BY TroubleIsNat DEF LiftLeft
<1>5. /\ journal.pid \in Pids /\ journal.held \in Seq(Codes) /\ journal.stuck \in BOOLEAN
      /\ journal \in LeftEntries
  <2>1. Head(left) \in LeftEntries
    BY <1>1, HeadTailProperties
  <2> QED BY <1>2, <2>1 DEF LeftEntries, CodeList
<1>6. /\ Front(journal.held) \in CodeList
      /\ \A code \in Listed(journal.held) :
           code = Last(journal.held) \/ code \in Listed(Front(journal.held))
  BY <1>3, <1>5, LastFront DEF CodeList
<1> DEFINE mine == rest(stuck)
           lefts == [left EXCEPT ![1] = mine]
           r == next(stuck)
<1>7. /\ mine \in LeftEntries /\ mine.pid = journal.pid
      /\ mine.held = Front(journal.held) /\ mine.stuck = stuck
  BY <1>5, <1>6 DEF LeftEntries
<1> HIDE DEF mine
<1>8. /\ lefts \in LeftList /\ DOMAIN lefts = DOMAIN left /\ lefts[1] = mine
      /\ \A i \in DOMAIN left : i # 1 => lefts[i] = left[i]
  <2>1. lefts \in LeftList
    BY <1>1, <1>2, <1>7, ExceptSeq DEF LeftList
  <2> QED BY <1>1, <1>2, <2>1
<1>9. r = [helper[h] EXCEPT !.left = lefts]
  BY DEF mine
<1> HIDE DEF lefts, next
<1>10. /\ r \in HelperType /\ r.doing = "starting" /\ r.pid = helper[h].pid
       /\ r.started = helper[h].started /\ r.found = helper[h].found /\ r.left = lefts
       /\ r.journal = helper[h].journal
  BY <1>1, <1>8, <1>9 DEF HelperType
<1>11. /\ helper' \in [Slots -> HelperType] /\ helper'[h] = r
       /\ \A g \in Slots \ {h} : helper'[g] = helper[g]
  BY <1>3, <1>10, Becoming
<1> HIDE DEF r
<1>12. HeldTypes'
  BY <1>4, <1>11 DEF HeldTypes
<1>13. NumbersAreUsed'
  BY <1>4, <1>10, <1>11 DEF NumbersAreUsed
<1>14. LivingOwnTheirs'
  BY <1>1, <1>4, <1>10, <1>11 DEF LivingOwnTheirs
<1>15. FoundAreDead'
  <2>1. \A g \in Slots : helper'[g].pid = helper[g].pid /\ helper'[g].found = helper[g].found
                         /\ helper'[g].doing = helper[g].doing
    BY <1>1, <1>10, <1>11
  <2>2. \A i \in DOMAIN r.left : r.left[i].pid \in r.found
    <3>1. \A i \in DOMAIN left : left[i].pid \in helper[h].found
      BY DEF FoundAreDead
    <3> HIDE DEF left
    <3> QED BY <1>2, <1>7, <1>8, <1>10, <3>1
  <2>3. r.left # <<>>
    BY <1>2, <1>8, <1>10
  <2> QED BY <1>1, <1>4, <1>10, <1>11, <2>1, <2>2, <2>3 DEF FoundAreDead
<1>16. AskedIsWritten'
  BY <1>4, <1>10, <1>11 DEF AskedIsWritten
<1>17. Attested' /\ AttestsStay
  <2>1. ASSUME NEW p \in Pids, NEW code \in server', Attests(p, code) PROVE Attests(p, code)'
    <3>1. ASSUME NEW i \in DOMAIN lefts, lefts[i].pid = p
          PROVE  lefts[i].stuck \/ code \in Listed(lefts[i].held)
      <4>1. CASE i = 1
        <5>1. journal.stuck \/ code \in Listed(journal.held)
          BY <1>2, <1>7, <1>8, <2>1, <3>1, <4>1 DEF Attests, Vouches
        <5> QED BY <1>3, <1>6, <1>7, <1>8, <4>1, <5>1
      <4>2. CASE i # 1
        BY <1>8, <2>1, <3>1, <4>2 DEF Attests, Vouches
      <4> QED BY <4>1, <4>2
    <3>2. r.pid = p => code \in Kept(r)
      BY <1>1, <1>10, <2>1 DEF Attests, Vouches, Kept
    <3>3. Vouches(r, p, code)
      BY <1>10, <3>1, <3>2 DEF Vouches
    <3> QED BY <1>4, <1>11, <2>1, <3>3 DEF Attests
  <2>2. server' \subseteq server
    BY <1>3
  <2> QED BY <1>4, <2>1, <2>2 DEF Attested, AttestsStay
<1>18. FoundAreCleared => FoundAreCleared'
  <2> SUFFICES ASSUME FoundAreCleared, trouble' = 0 PROVE FoundAreCleared'
    BY DEF FoundAreCleared
  <2>1. /\ \A i \in DOMAIN left : ~left[i].stuck
        /\ \A p \in helper[h].found :
             files[p] = Absent \/ \E i \in DOMAIN left : left[i].pid = p
    BY <1>3 DEF FoundAreCleared
  <2>2. \A i \in DOMAIN lefts : ~lefts[i].stuck /\ lefts[i].pid = left[i].pid
    BY <1>2, <1>3, <1>7, <1>8, <2>1
  <2> QED BY <1>3, <1>4, <1>8, <1>10, <1>11, <2>1, <2>2 DEF FoundAreCleared
<1> QED BY <1>12, <1>13, <1>14, <1>15, <1>16, <1>17, <1>18

LEMMA ClearLeftKeeps ==
  ASSUME HeldInv, NEW h \in Slots, ClearLeft(h)
  PROVE  HeldInv' /\ AttestsStay /\ (FoundAreCleared => FoundAreCleared')
<1> USE DEF HeldInv
<1> DEFINE left == helper[h].left
           journal == left[1]
           rest == Tail(left)
           then == IF rest = <<>> THEN "idle" ELSE "starting"
           r == [helper[h] EXCEPT !.left = rest, !.doing = then]
<1>1. /\ helper[h].doing = "starting" /\ helper[h] \in HelperType
      /\ left \in Seq(LeftEntries) /\ left # <<>>
  BY DEF ClearLeft, Doing, HeldTypes, HelperType, LeftList, FoundAreDead
<1>2. /\ Head(left) = journal /\ DOMAIN left = 1 .. Len(left) /\ Len(left) \in Nat \ {0}
      /\ journal \in LeftEntries
  <2>1. Head(left) \in LeftEntries
    BY <1>1, HeadTailProperties
  <2> QED BY <1>1, <2>1, LenProperties, EmptySeq
<1>3. /\ Becomes(h, r) /\ journal.held = <<>>
      /\ files' = files \/ (~journal.stuck /\ files' = [files EXCEPT ![journal.pid] = Absent])
      /\ UNCHANGED <<server, layout, clipboard, used, starts, changes, doubtful>> /\ trouble' \in Nat
      /\ trouble' = 0 =>
           /\ trouble = 0
           /\ journal.stuck \/ files' = [files EXCEPT ![journal.pid] = Absent]
  BY <1>1, <1>2, TroubleIsNat DEF ClearLeft, HelperType
<1>4. /\ rest \in LeftList /\ DOMAIN rest = 1 .. Len(left) - 1
      /\ \A i \in DOMAIN rest : i + 1 \in DOMAIN left /\ rest[i] = left[i + 1]
  <2>1. /\ rest \in Seq(LeftEntries) /\ Len(rest) = Len(left) - 1
        /\ \A i \in 1 .. Len(rest) : rest[i] = left[i + 1]
    BY <1>1, HeadTailProperties
  <2>2. DOMAIN rest = 1 .. Len(left) - 1
    BY <2>1, LenProperties
  <2> QED BY <1>2, <2>1, <2>2 DEF LeftList
<1> HIDE DEF rest
<1>5. /\ then \in {"idle", "starting"} /\ then \in Doings /\ (then = "starting" <=> rest # <<>>)
  BY DEF Doings
<1> HIDE DEF then
<1>6. /\ r \in HelperType /\ r.doing = then /\ r.pid = helper[h].pid
      /\ r.started = helper[h].started /\ r.found = helper[h].found /\ r.left = rest
      /\ r.journal = helper[h].journal
  BY <1>1, <1>4, <1>5 DEF HelperType
<1> HIDE DEF r
<1>7. /\ helper' \in [Slots -> HelperType] /\ helper'[h] = r
      /\ \A g \in Slots \ {h} : helper'[g] = helper[g]
  BY <1>3, <1>6, Becoming
<1>8. journal.pid \in Pids /\ \A g \in Slots : helper[g].pid # journal.pid
  <2>1. journal.pid \in helper[h].found
    BY <1>2 DEF FoundAreDead
  <2> QED BY <1>2, <2>1 DEF FoundAreDead, LeftEntries
<1>9. /\ files' \in [Pids -> Journals \cup {Absent}]
      /\ \A p \in Pids : files'[p] = files[p] \/ files'[p] = Absent
      /\ \A p \in Pids \ {journal.pid} : files'[p] = files[p]
      /\ \A g \in Slots : helper[g].pid \in Pids => files'[helper[g].pid] = files[helper[g].pid]
  BY <1>3, <1>8 DEF HeldTypes
<1>10. HeldTypes'
  BY <1>3, <1>7, <1>9 DEF HeldTypes
<1>11. NumbersAreUsed'
  BY <1>3, <1>6, <1>7, <1>9 DEF NumbersAreUsed
<1>12. \A g \in Slots : helper'[g].pid = helper[g].pid /\ helper'[g].found = helper[g].found
                        /\ helper'[g].started = helper[g].started
  BY <1>6, <1>7
<1>13. LivingOwnTheirs'
  <2>1. \A g \in Slots : helper[g].pid \in Pids \cup {Absent}
    BY DEF HeldTypes, HelperType, Pids0
  <2>2. helper'[h].doing # "dead" /\ helper[h].doing # "dead"
    BY <1>1, <1>5, <1>6, <1>7
  <2> QED BY <1>7, <1>9, <1>12, <2>1, <2>2 DEF LivingOwnTheirs
<1>14. FoundAreDead'
  <2>1. \A i \in DOMAIN r.left : r.left[i].pid \in r.found
    BY <1>4, <1>6 DEF FoundAreDead
  <2> QED BY <1>3, <1>5, <1>6, <1>7, <1>12, <2>1 DEF FoundAreDead
<1>15. AskedIsWritten'
  <2>1. \A g \in Slots : helper[g].doing = "pressing" => helper[g].pid \in Pids
    BY DEF LivingOwnTheirs, HeldTypes, HelperType, Pids0
  <2> QED BY <1>3, <1>5, <1>6, <1>7, <1>9, <2>1 DEF AskedIsWritten
<1>16. Attested' /\ AttestsStay
  <2>1. ASSUME NEW p \in Pids, NEW code \in server, Attests(p, code) PROVE Attests(p, code)'
    <3>1. Listed(journal.held) = {}
      BY <1>3 DEF Listed
    <3>2. p = journal.pid => journal.stuck
      BY <1>2, <2>1, <3>1 DEF Attests, Vouches
    <3>3. files'[p] = files[p]
      BY <1>3, <1>9, <3>2
    <3>4. r.pid = p => code \in Kept(r)
      BY <1>1, <1>5, <1>6, <2>1 DEF Attests, Vouches, Kept
    <3>5. Vouches(r, p, code)
      BY <1>4, <1>6, <2>1, <3>4 DEF Attests, Vouches
    <3> QED BY <1>7, <2>1, <3>3, <3>5 DEF Attests
  <2> QED BY <1>3, <2>1 DEF Attested, AttestsStay
<1>17. FoundAreCleared => FoundAreCleared'
  <2> SUFFICES ASSUME FoundAreCleared, trouble' = 0 PROVE FoundAreCleared'
    BY DEF FoundAreCleared
  <2>1. /\ trouble = 0 /\ \A i \in DOMAIN left : ~left[i].stuck
        /\ \A p \in helper[h].found :
             files[p] = Absent \/ \E i \in DOMAIN left : left[i].pid = p
    BY <1>3 DEF FoundAreCleared
  <2>2. files'[journal.pid] = Absent
    BY <1>2, <1>3, <1>8, <2>1 DEF HeldTypes
  <2>3. \A g \in Slots : \A p \in helper[g].found : p \in Pids
    BY DEF FoundAreDead, HeldTypes
  <2>4. ASSUME NEW p \in helper[h].found
        PROVE  files'[p] = Absent \/ \E i \in DOMAIN rest : rest[i].pid = p
    <3>1. CASE files[p] = Absent \/ p = journal.pid
      BY <1>9, <2>2, <2>3, <3>1
    <3>2. CASE files[p] # Absent /\ p # journal.pid
      <4>1. PICK i \in DOMAIN left : left[i].pid = p
        BY <2>1, <3>2
      <4>2. i - 1 \in DOMAIN rest /\ (i - 1) + 1 = i
        BY <1>2, <1>4, <3>2, <4>1
      <4> QED BY <1>4, <4>1, <4>2
    <3> QED BY <3>1, <3>2
  <2>5. \A i \in DOMAIN rest : ~rest[i].stuck
    BY <1>4, <2>1
  <2> QED BY <1>6, <1>7, <1>9, <2>1, <2>3, <2>4, <2>5 DEF FoundAreCleared
<1> QED BY <1>10, <1>11, <1>13, <1>14, <1>15, <1>16, <1>17
-----------------------------------------------------------------------------
\* A sequence's steps leave the journals of the dead alone.
LEMMA SequenceClears ==
  ASSUME HeldInv, FoundAreCleared, NEW h \in Slots, Sequence(h)
  PROVE  FoundAreCleared'
<1>1. trouble' = 0 => trouble = 0
  BY TroubleIsNat
     DEF HeldInv, Sequence, Begin, ReadyWrites, ReadyClears, ReadClipboard, SetClipboard,
         PressRecords, PressPosts, PressForgets, ForgetsOnDisk, BodyEnds, ReleasePosts,
         ReleaseForgets, RestoreClipboard, End
<1>2. SafeStep(h) /\ helper[h].pid \in Pids
  BY SequenceIsSafe, ActingHas DEF SafeStep
<1>3. \A g \in Slots : helper'[g].left = helper[g].left /\ helper'[g].found = helper[g].found
  BY <1>2 DEF SafeStep
<1>4. \A g \in Slots : \A p \in helper[g].found : files'[p] = files[p]
  BY <1>2 DEF SafeStep, HeldInv, FoundAreDead, HeldTypes
<1> QED BY <1>1, <1>3, <1>4 DEF FoundAreCleared
-----------------------------------------------------------------------------
LEMMA UntouchedKeeps ==
  HeldInv /\ UNCHANGED held_vars => HeldInv' /\ (FoundAreCleared => FoundAreCleared')
<1> SUFFICES ASSUME HeldInv, UNCHANGED held_vars
             PROVE  HeldInv' /\ (FoundAreCleared => FoundAreCleared')
  OBVIOUS
<1>1. /\ HeldTypes' /\ NumbersAreUsed' /\ LivingOwnTheirs' /\ FoundAreDead' /\ AskedIsWritten'
  BY DEF held_vars, HeldInv, HeldTypes, NumbersAreUsed, LivingOwnTheirs, FoundAreDead,
         AskedIsWritten
<1>2. Attested'
  BY DEF held_vars, HeldInv, Attested, Attests
<1>3. FoundAreCleared => FoundAreCleared'
  BY DEF held_vars, FoundAreCleared
<1> QED BY <1>1, <1>2, <1>3 DEF HeldInv

LEMMA StepsKeep ==
  ASSUME HeldInv, ~PidsComeBack \/ used = {}, [HeldNext]_held_vars
  PROVE  HeldInv' /\ (FoundAreCleared => FoundAreCleared')
<1>1. ASSUME NEW h \in Slots, Sequence(h)
      PROVE  HeldInv' /\ (FoundAreCleared => FoundAreCleared')
  BY <1>1, SequenceIsSafe, SafeStepsKeep, SequenceClears
<1>2. ASSUME NEW h \in Slots, Start(h) \/ LiftLeft(h) \/ ClearLeft(h) \/ Killed(h)
      PROVE  HeldInv' /\ (FoundAreCleared => FoundAreCleared')
  BY <1>2, StartKeeps, LiftLeftKeeps, ClearLeftKeeps, KilledKeeps
<1> QED BY <1>1, <1>2, UntouchedKeeps, AroundKeeps DEF HeldNext

\* Of the process numbers the kernel hands out none comes back: then, whatever fails
\* and whenever a helper is killed, nothing compux holds down is missing from the
\* journals on disk, a press its connection failed under excepted (Input::press,
\* Input::release, release_journal).
THEOREM NothingHeldIsForgotten ==
  ASSUME ~PidsComeBack
  PROVE  HeldSpec => []HeldIsWrittenDown
<1>1. HeldInit => HeldInv
  BY InitHolds
<1>2. HeldInv /\ [HeldNext]_held_vars => HeldInv'
  BY StepsKeep
<1>3. HeldInv => HeldIsWrittenDown
  BY DEF HeldInv, Attested, Attests, Lists, HeldIsWrittenDown, Written
<1> QED BY <1>1, <1>2, <1>3, PTL DEF HeldSpec

\* Under the same hypothesis, and while nothing fails, a start that is over has left no
\* journal of the helpers it found dead, however many there were and wherever it or they
\* were killed (Input::release_left_behind, release_journal).
THEOREM StartsReleaseTheDead ==
  ASSUME ~PidsComeBack
  PROVE  HeldSpec => []AStartReleasesTheDead
<1>1. HeldInit => ClearInv
  <2>1. HeldInit => \A h \in Slots : helper[h].found = {} /\ helper[h].left = <<>>
    BY DeadIs DEF HeldInit
  <2> QED BY <2>1, InitHolds DEF ClearInv, FoundAreCleared
<1>2. ClearInv /\ [HeldNext]_held_vars => ClearInv'
  BY StepsKeep DEF ClearInv
<1>3. ClearInv => AStartReleasesTheDead
  <2> SUFFICES ASSUME ClearInv, trouble = 0, NEW h \in Slots, NEW p \in helper[h].found,
                      helper[h].doing # "starting"
               PROVE  files[p] = Absent
    BY DEF AStartReleasesTheDead
  <2>1. helper[h].left = <<>>
    BY DEF ClearInv, HeldInv, FoundAreDead
  <2> QED BY <2>1 DEF ClearInv, FoundAreCleared
<1> QED BY <1>1, <1>2, <1>3, PTL DEF HeldSpec
-----------------------------------------------------------------------------
(* What was pressed, on one layout. *)

LEMMA UpStays ==
  ASSUME HeldInv, NEW h \in Slots, SafeStep(h), NEW g \in Slots, NEW code,
         UpHere(g, code), g # h \/ code \in server \/ code \notin server'
  PROVE  UpHere(g, code)'
<1>1. helper'[g].pid = helper[g].pid /\ doubtful \subseteq doubtful'
  BY DEF SafeStep
<1>2. CASE code \in server /\ code \in server'
  <2>1. CASE code \in doubtful
    BY <1>1, <2>1 DEF UpHere
  <2>2. ASSUME NEW p \in Pids, p # helper[g].pid, Attests(p, code) PROVE UpHere(g, code)'
    BY <1>1, <1>2, <2>2, SafeStepsAttest DEF UpHere
  <2> QED BY <1>2, <2>1, <2>2 DEF UpHere
<1>3. CASE code \notin server /\ code \in server' /\ code \notin doubtful'
  <2>1. PICK p \in Pids : p = helper[h].pid /\ Attests(p, code)'
    BY <1>3, NewPressesAttest
  <2>2. p # helper[g].pid
    BY <1>3, <2>1, AbsentIsNothing DEF HeldInv, NumbersAreUsed
  <2> QED BY <1>1, <2>1, <2>2 DEF UpHere
<1> QED BY <1>2, <1>3 DEF UpHere

LEMMA OthersEnd ==
  ASSUME HeldInv, NEW h \in Slots, SafeStep(h), NEW g \in Slots \ {h}, PressesEndOf(g)
  PROVE  PressesEndOf(g)'
<1>1. helper'[g] = helper[g] /\ layout' = layout
  BY DEF SafeStep
<1>2. \A code : UpHere(g, code) => UpHere(g, code)'
  BY UpStays
<1>3. \A item : OnStack(g, item) => OnStack(g, item)'
  BY <1>1 DEF OnStack
<1>4. Top(g)' = Top(g)
  BY <1>1 DEF Top
<1> QED BY <1>1, <1>2, <1>3, <1>4 DEF PressesEndOf

\* Neither the stack nor what was pressed changes.
Calm(h) ==
  /\ helper'[h].down = helper[h].down /\ helper'[h].pressed = helper[h].pressed
  /\ helper'[h].stuck = helper[h].stuck /\ server' = server
  /\ helper'[h].doing \in {"readied", "reading", "setting", "body", "releasing"}
  /\ \/ helper[h].doing \in {"readying", "readied", "reading", "setting"}
     \/ helper'[h].doing = "releasing"

LEMMA CalmEnds ==
  ASSUME HeldInv, NEW h \in Slots, SafeStep(h), PressesEndOf(h), Calm(h)
  PROVE  PressesEndOf(h)'
<1>1. layout' = layout
  BY DEF SafeStep
<1>2. \A code : UpHere(h, code) => UpHere(h, code)'
  BY UpStays DEF Calm
<1>3. \A item : OnStack(h, item) => OnStack(h, item)'
  BY DEF OnStack, Calm
<1>4. helper'[h].doing \notin {"pressing", "lifting", "dead", "starting", "idle"}
  BY DEF Calm
<1> QED BY <1>1, <1>2, <1>3, <1>4 DEF PressesEndOf, Calm

LEMMA CalmSteps ==
  ASSUME HeldInv, NEW h \in Slots,
         \/ ReadyWrites(h) \/ ReadyClears(h) \/ ReadClipboard(h) \/ SetClipboard(h)
         \/ PressForgets(h) \/ BodyEnds(h) \/ RestoreClipboard(h)
  PROVE  Calm(h)
<1>1. helper \in [Slots -> HelperType] /\ helper[h] \in HelperType
  BY DEF HeldInv, HeldTypes
<1>2. ASSUME NEW r, Becomes(h, r) PROVE helper'[h] = r
  BY <1>1, <1>2 DEF Becomes
<1>3. CASE ReadyWrites(h)
  BY <1>1, <1>2, <1>3 DEF ReadyWrites, Over, Doing, HelperType, Calm
<1>4. CASE ReadyClears(h)
  BY <1>1, <1>2, <1>4 DEF ReadyClears, Over, Doing, HelperType, Calm
<1>5. CASE ReadClipboard(h)
  BY <1>1, <1>2, <1>5 DEF ReadClipboard, Over, Doing, HelperType, Calm
<1>6. CASE SetClipboard(h)
  BY <1>1, <1>2, <1>6 DEF SetClipboard, Over, Doing, HelperType, Calm
<1>7. CASE PressForgets(h)
  BY <1>1, <1>2, <1>7 DEF PressForgets, ForgetsOnDisk, Over, Doing, HelperType, Calm
<1>8. CASE BodyEnds(h)
  BY <1>1, <1>2, <1>8 DEF BodyEnds, Over, Doing, HelperType, Calm
<1>9. CASE RestoreClipboard(h)
  BY <1>1, <1>2, <1>9 DEF RestoreClipboard, Over, Doing, HelperType, Calm
<1> QED BY <1>3, <1>4, <1>5, <1>6, <1>7, <1>8, <1>9

\* What a stack has of an item, as it grows, as its top is posted and as it shrinks.
LEMMA StackGrows ==
  ASSUME NEW down \in Stacks, NEW e \in [item: Items, posted: BOOLEAN]
  PROVE  /\ Last(Append(down, e)) = e
         /\ \A item : On(down, item) => On(Append(down, e), item)
<1>1. /\ Len(Append(down, e)) = Len(down) + 1 /\ Append(down, e)[Len(down) + 1] = e
      /\ \A i \in 1 .. Len(down) : Append(down, e)[i] = down[i]
      /\ Append(down, e) \in Seq([item: Items, posted: BOOLEAN])
  BY AppendProperties DEF Stacks
<1>2. /\ Len(down) \in Nat /\ DOMAIN down = 1 .. Len(down)
      /\ DOMAIN Append(down, e) = 1 .. Len(down) + 1
  BY <1>1, LenProperties DEF Stacks
<1> QED BY <1>1, <1>2 DEF On, Last

LEMMA StackPosts ==
  ASSUME NEW down \in Stacks, down # <<>>, NEW e \in [item: Items, posted: BOOLEAN],
         e.item = Last(down).item, e.posted = TRUE
  PROVE  /\ On([down EXCEPT ![Len(down)] = e], e.item)
         /\ \A item : On(down, item) => On([down EXCEPT ![Len(down)] = e], item)
<1>1. Len(down) \in Nat \ {0} /\ DOMAIN down = 1 .. Len(down)
  BY EmptySeq, LenProperties DEF Stacks
<1> QED BY <1>1 DEF On, Last

LEMMA StackShrinks ==
  ASSUME NEW down \in Stacks, down # <<>>
  PROVE  \A item : On(down, item) =>
           On(Front(down), item) \/ (Last(down).item = item /\ Last(down).posted)
<1>1. Len(down) \in Nat \ {0} /\ DOMAIN down = 1 .. Len(down)
  BY EmptySeq, LenProperties DEF Stacks
<1>2. /\ Front(down) \in Seq([item: Items, posted: BOOLEAN]) /\ Len(Front(down)) = Len(down) - 1
      /\ \A i \in 1 .. Len(down) - 1 : Front(down)[i] = down[i]
  BY LastFront DEF Stacks
<1>3. DOMAIN Front(down) = 1 .. Len(down) - 1
  BY <1>2, LenProperties
<1> QED BY <1>1, <1>2, <1>3 DEF On, Last

\* The steps that change the stack, or what was pressed.
LEMMA BeginOrEndEnds ==
  ASSUME HeldInv, NEW h \in Slots, SafeStep(h), PressesEndOf(h), Begin(h) \/ End(h)
  PROVE  PressesEndOf(h)'
<1>1. helper \in [Slots -> HelperType] /\ helper[h] \in HelperType
  BY DEF HeldInv, HeldTypes
<1>2. ASSUME NEW r, Becomes(h, r) PROVE helper'[h] = r
  BY <1>1, <1>2 DEF Becomes
<1>3. CASE Begin(h)
  <2>1. helper'[h].doing = "readying" /\ helper'[h].pressed = {}
    BY <1>1, <1>2, <1>3 DEF Begin, HelperType
  <2> QED BY <2>1 DEF PressesEndOf
<1>4. CASE End(h)
  <2>1. /\ helper'[h].doing = "idle" /\ helper'[h].down = <<>> /\ helper[h].down = <<>>
        /\ helper'[h].pressed = helper[h].pressed /\ helper'[h].stuck = helper[h].stuck
        /\ UNCHANGED <<server, layout>>
    BY <1>1, <1>2, <1>4 DEF End, HelperType
  <2>2. \A code : UpHere(h, code) => UpHere(h, code)'
    BY <2>1, UpStays
  <2>3. \A item : ~OnStack(h, item)
    BY <2>1 DEF OnStack, On
  <2> QED BY <2>1, <2>2, <2>3 DEF PressesEndOf
<1> QED BY <1>3, <1>4

LEMMA PressRecordsEnds ==
  ASSUME HeldInv, NEW h \in Slots, SafeStep(h), PressesEndOf(h), PressRecords(h)
  PROVE  PressesEndOf(h)'
<1> DEFINE item == Head(helper[h].todo)
           e == [item |-> item, posted |-> FALSE]
<1>1. /\ helper \in [Slots -> HelperType] /\ helper[h] \in HelperType
      /\ helper[h].down \in Stacks /\ helper[h].todo \in Seq(Items)
  BY DEF HeldInv, HeldTypes, HelperType, ItemList
<1>2. ASSUME NEW r, Becomes(h, r) PROVE helper'[h] = r
  BY <1>1, <1>2 DEF Becomes
<1>3. /\ helper'[h].down = Append(helper[h].down, e) /\ helper'[h].pressed = helper[h].pressed
      /\ \/ helper'[h].doing = "pressing" /\ helper'[h].code = layout[item]
         \/ helper'[h].doing = "releasing"
      /\ helper[h].doing = "body" /\ helper[h].todo # <<>> /\ layout' = layout
  BY <1>1, <1>2 DEF PressRecords, Over, Doing, HelperType
<1>4. item \in Items
  BY <1>1, <1>3, HeadTailProperties
<1> HIDE DEF item
<1>5. /\ Last(helper'[h].down) = e
      /\ \A i : OnStack(h, i) => OnStack(h, i)'
  BY <1>1, <1>3, <1>4, StackGrows DEF OnStack
<1>6. Top(h)'.item = item
  BY <1>5 DEF Top
<1>7. \A press \in helper[h].pressed : press.code = layout[press.item] /\ OnStack(h, press.item)
  BY <1>3 DEF PressesEndOf
<1> QED BY <1>3, <1>5, <1>6, <1>7 DEF PressesEndOf

LEMMA PressPostsEnds ==
  ASSUME HeldInv, NEW h \in Slots, SafeStep(h), PressesEndOf(h), PressPosts(h)
  PROVE  PressesEndOf(h)'
<1> DEFINE e == [item |-> Top(h).item, posted |-> TRUE]
           press == [item |-> Top(h).item, code |-> helper[h].code]
<1>1. /\ helper \in [Slots -> HelperType] /\ helper[h] \in HelperType
      /\ helper[h].down \in Stacks
  BY DEF HeldInv, HeldTypes, HelperType
<1>2. ASSUME NEW r, Becomes(h, r) PROVE helper'[h] = r
  BY <1>1, <1>2 DEF Becomes
<1>3. /\ \/ /\ helper'[h].doing = "body"
            /\ helper'[h].down = [helper[h].down EXCEPT ![Len(helper[h].down)] = e]
            /\ helper'[h].pressed = helper[h].pressed \cup {press}
         \/ /\ helper'[h].doing = "unpressing" /\ helper'[h].down = helper[h].down
            /\ helper'[h].pressed = helper[h].pressed
      /\ helper[h].doing = "pressing" /\ layout' = layout
  BY <1>1, <1>2 DEF PressPosts, Doing, HelperType
<1>4. /\ helper[h].down # <<>> /\ helper[h].code = layout[Top(h).item]
      /\ \A p \in helper[h].pressed : p.code = layout[p.item] /\ OnStack(h, p.item)
  BY <1>3 DEF HeldInv, AskedIsWritten, PressesEndOf
<1>5. Last(helper[h].down) \in [item: Items, posted: BOOLEAN]
  BY <1>1, <1>4, LastFront DEF Stacks
<1>6. /\ e \in [item: Items, posted: BOOLEAN] /\ e.item = Last(helper[h].down).item
      /\ e.posted = TRUE
      /\ press.item = e.item /\ press.code = helper[h].code /\ e.item = Top(h).item
  BY <1>5 DEF Top
<1> HIDE DEF e, press
<1>7. CASE /\ helper'[h].doing = "body"
           /\ helper'[h].down = [helper[h].down EXCEPT ![Len(helper[h].down)] = e]
           /\ helper'[h].pressed = helper[h].pressed \cup {press}
  <2> DEFINE down == helper[h].down
  <2>1. /\ On([down EXCEPT ![Len(down)] = e], e.item)
        /\ \A item : On(down, item) => On([down EXCEPT ![Len(down)] = e], item)
    <3> HIDE DEF down
    <3>1. down \in Stacks /\ down # <<>> /\ e.item = Last(down).item
      BY <1>1, <1>4, <1>6 DEF down
    <3> QED BY <1>6, <3>1, StackPosts
  <2>2. \A i : i = e.item \/ OnStack(h, i) => OnStack(h, i)'
    BY <1>7, <2>1 DEF OnStack
  <2>3. \A p \in helper'[h].pressed : p.code = layout'[p.item] /\ OnStack(h, p.item)'
    BY <1>3, <1>4, <1>6, <1>7, <2>2
  <2> QED BY <1>7, <2>3 DEF PressesEndOf
<1>8. CASE /\ helper'[h].doing = "unpressing" /\ helper'[h].down = helper[h].down
           /\ helper'[h].pressed = helper[h].pressed
  <2>1. \A i : OnStack(h, i) => OnStack(h, i)'
    BY <1>8 DEF OnStack
  <2> QED BY <1>3, <1>4, <1>8, <2>1 DEF PressesEndOf
<1> QED BY <1>3, <1>7, <1>8

\* An item that leaves the stack is named, or its code is up.
LEMMA PoppedEnds ==
  ASSUME HeldInv, NEW h \in Slots, SafeStep(h), PressesEndOf(h), server' \subseteq server,
         helper[h].doing \in {"releasing", "lifting"}, helper[h].down # <<>>,
         NEW failed \in BOOLEAN, ~failed => helper[h].doing = "lifting",
         helper'[h].doing = "releasing", helper'[h].down = Front(helper[h].down),
         helper'[h].pressed = helper[h].pressed,
         helper'[h].stuck = IF failed /\ Top(h).posted THEN helper[h].stuck \cup {Top(h).item}
                            ELSE helper[h].stuck
  PROVE  PressesEndOf(h)'
<1>1. layout' = layout /\ helper[h].down \in Stacks
  BY DEF SafeStep, HeldInv, HeldTypes, HelperType
<1>2. \A code : UpHere(h, code) => UpHere(h, code)'
  BY UpStays
<1>3. ASSUME NEW press \in helper[h].pressed
      PROVE  OnStack(h, press.item)' \/ press.item \in helper'[h].stuck \/ UpHere(h, press.code)'
  <2>1. CASE OnStack(h, press.item)
    <3>1. OnStack(h, press.item)' \/ (Top(h).item = press.item /\ Top(h).posted)
      BY <1>1, <2>1, StackShrinks DEF OnStack, Top
    <3>2. CASE Top(h).item = press.item /\ Top(h).posted /\ ~failed
      BY <1>2, <3>2 DEF PressesEndOf
    <3> QED BY <3>1, <3>2
  <2>2. CASE press.item \in helper[h].stuck \/ UpHere(h, press.code)
    BY <1>2, <2>2
  <2> QED BY <1>3, <2>1, <2>2 DEF PressesEndOf
<1> QED BY <1>1, <1>3 DEF PressesEndOf

LEMMA PoppedHas ==
  ASSUME HeldInv, NEW h \in Slots, NEW failed \in BOOLEAN, NEW journal,
         NEW r \in {Popped(h, failed), [Popped(h, failed) EXCEPT !.connected = FALSE],
                   [Popped(h, failed) EXCEPT !.journal = journal]}
  PROVE  /\ r.doing = "releasing" /\ r.down = Front(helper[h].down)
         /\ r.pressed = helper[h].pressed
         /\ r.stuck = IF failed /\ Top(h).posted
                      THEN helper[h].stuck \cup {Top(h).item} ELSE helper[h].stuck
<1> DEFINE stuck == IF failed /\ Top(h).posted THEN helper[h].stuck \cup {Top(h).item}
                    ELSE helper[h].stuck
           front == Front(helper[h].down)
<1>1. helper[h] \in HelperType
  BY DEF HeldInv, HeldTypes
<1>2. Popped(h, failed) =
        [helper[h] EXCEPT !.doing = "releasing", !.down = front, !.code = Absent, !.stuck = stuck]
  BY <1>1 DEF Popped, HelperType
<1> HIDE DEF stuck, front
<1>3. /\ Popped(h, failed).doing = "releasing" /\ Popped(h, failed).down = front
      /\ Popped(h, failed).pressed = helper[h].pressed /\ Popped(h, failed).stuck = stuck
      /\ DOMAIN Popped(h, failed) = DOMAIN helper[h]
  BY <1>1, <1>2 DEF HelperType
<1>4. r.doing = "releasing" /\ r.down = front /\ r.pressed = helper[h].pressed /\ r.stuck = stuck
  <2> HIDE DEF Popped
  <2> QED BY <1>1, <1>3 DEF HelperType
<1> QED BY <1>4 DEF stuck, front

LEMMA ReleasesEnd ==
  ASSUME HeldInv, NEW h \in Slots, SafeStep(h), PressesEndOf(h),
         ReleasePosts(h) \/ ReleaseForgets(h)
  PROVE  PressesEndOf(h)'
<1> DEFINE code == layout[Top(h).item]
           lifts == [helper[h] EXCEPT !.doing = "lifting", !.code = code]
           popped == Popped(h, TRUE)
           broke == [popped EXCEPT !.connected = FALSE]
           Pops(failed) ==
             /\ helper'[h].doing = "releasing" /\ helper'[h].down = Front(helper[h].down)
             /\ helper'[h].pressed = helper[h].pressed
             /\ helper'[h].stuck = IF failed /\ Top(h).posted
                                   THEN helper[h].stuck \cup {Top(h).item} ELSE helper[h].stuck
<1>1. helper \in [Slots -> HelperType] /\ helper[h] \in HelperType
  BY DEF HeldInv, HeldTypes
<1>2. ASSUME NEW r, Becomes(h, r) PROVE helper'[h] = r
  BY <1>1, <1>2 DEF Becomes
<1>3. CASE ReleasePosts(h)
  <2>1. /\ helper[h].doing = "releasing" /\ helper[h].down # <<>> /\ layout' = layout
        /\ \/ server' = server \ {code} /\ Becomes(h, lifts)
           \/ server' \subseteq server /\ (Becomes(h, popped) \/ Becomes(h, broke))
    BY <1>3 DEF ReleasePosts, Doing
  <2>2. CASE server' \subseteq server /\ (Becomes(h, popped) \/ Becomes(h, broke))
    <3>1. PICK r \in {popped, broke} : helper'[h] = r
      BY <1>2, <2>2
    <3>2. r \in {Popped(h, TRUE), [Popped(h, TRUE) EXCEPT !.connected = FALSE],
                 [Popped(h, TRUE) EXCEPT !.journal = <<>>]}
      BY <3>1
    <3>3. Pops(TRUE)
      <4>1. /\ r.doing = "releasing" /\ r.down = Front(helper[h].down)
            /\ r.pressed = helper[h].pressed
            /\ r.stuck = IF TRUE /\ Top(h).posted
                         THEN helper[h].stuck \cup {Top(h).item} ELSE helper[h].stuck
        BY <3>2, PoppedHas
      <4> QED BY <3>1, <4>1
    <3> QED BY <2>1, <2>2, <3>3, PoppedEnds
  <2>3. CASE server' = server \ {code} /\ Becomes(h, lifts)
    <3>4. /\ helper'[h].doing = "lifting" /\ helper'[h].code = code
          /\ helper'[h].down = helper[h].down /\ helper'[h].pressed = helper[h].pressed
          /\ helper'[h].stuck = helper[h].stuck
      BY <1>1, <1>2, <2>3 DEF HelperType
    <3>1. \A c : UpHere(h, c) => UpHere(h, c)'
      BY <2>3, UpStays
    <3>2. Top(h)' = Top(h) /\ \A i : OnStack(h, i) => OnStack(h, i)'
      BY <3>4 DEF Top, OnStack
    <3>3. UpHere(h, helper[h].code)'
      BY <2>3, <3>4 DEF UpHere
    <3> QED BY <2>1, <3>1, <3>2, <3>3, <3>4 DEF PressesEndOf
  <2> QED BY <2>1, <2>2, <2>3
<1>4. CASE ReleaseForgets(h)
  <2> DEFINE journal == Forgotten(helper[h].journal, helper[h].code)
             next(failed) == [Popped(h, failed) EXCEPT !.journal = journal]
  <2>3. /\ helper[h].doing = "lifting" /\ server' = server
        /\ Becomes(h, next(FALSE)) \/ Becomes(h, next(TRUE))
    BY <1>4 DEF ReleaseForgets, ForgetsOnDisk, Doing
  <2>4. PICK failed \in BOOLEAN : helper'[h] = next(failed)
    BY <1>2, <2>3
  <2>5. /\ next(failed).doing = "releasing" /\ next(failed).down = Front(helper[h].down)
        /\ next(failed).pressed = helper[h].pressed
        /\ next(failed).stuck = IF failed /\ Top(h).posted
                               THEN helper[h].stuck \cup {Top(h).item} ELSE helper[h].stuck
    <3> HIDE DEF journal
    <3> QED BY PoppedHas
  <2>1. helper[h].doing = "lifting" /\ server' = server /\ Pops(failed)
    <3> HIDE DEF next
    <3> QED BY <2>3, <2>4, <2>5
  <2>2. helper[h].down # <<>>
    BY <2>1 DEF HeldInv, AskedIsWritten
  <2> QED BY <2>1, <2>2, PoppedEnds
<1> QED BY <1>3, <1>4

LEMMA SequenceEnds ==
  ASSUME HeldInv, NEW h \in Slots, Sequence(h), PressesEndOf(h)
  PROVE  PressesEndOf(h)'
<1>1. SafeStep(h)
  BY SequenceIsSafe
<1> QED BY <1>1, CalmSteps, CalmEnds, BeginOrEndEnds, PressRecordsEnds, PressPostsEnds, ReleasesEnd
        DEF Sequence

\* A start, and a death, touch no stack.
LEMMA StartsEnd ==
  ASSUME HeldInv, NEW h \in Slots, PressesEndOf(h), AttestsStay, server' \subseteq server,
         UNCHANGED <<layout, doubtful>>,
         \/ Start(h) \/ LiftLeft(h) \/ ClearLeft(h) \/ Killed(h) \/ UNCHANGED helper
  PROVE  PressesEndOf(h)'
<1>1. helper \in [Slots -> HelperType] /\ helper[h] \in HelperType
  BY DEF HeldInv, HeldTypes
<1>2. ASSUME NEW r, Becomes(h, r) PROVE helper'[h] = r
  BY <1>1, <1>2 DEF Becomes
<1>3. CASE Start(h) \/ Killed(h)
  <2>1. helper'[h].down = <<>> /\ helper'[h].pressed = {}
        /\ helper'[h].doing \in {"dead", "starting", "idle"}
    <3>1. CASE Killed(h)
      BY <1>2, <3>1 DEF Killed, Dead
    <3>2. CASE Start(h)
      <4> DEFINE new(pid, found) ==
                   [Dead EXCEPT !.pid = pid, !.started = starts + 1, !.connected = TRUE,
                                !.found = found, !.doing = "idle"]
      <4>1. \E pid, found, left :
              \/ Becomes(h, new(pid, found))
              \/ Becomes(h, [new(pid, found) EXCEPT !.left = left, !.doing = "starting"])
        BY <3>2 DEF Start
      <4>2. PICK pid, found, left :
              \/ helper'[h] = new(pid, found)
              \/ helper'[h] = [new(pid, found) EXCEPT !.left = left, !.doing = "starting"]
        BY <1>2, <4>1
      <4> QED BY <4>2 DEF Dead
    <3> QED BY <1>3, <3>1, <3>2
  <2> QED BY <2>1 DEF PressesEndOf
<1>4. CASE LiftLeft(h) \/ ClearLeft(h) \/ UNCHANGED helper
  <2>1. /\ helper'[h].down = helper[h].down /\ helper'[h].pressed = helper[h].pressed
        /\ helper'[h].stuck = helper[h].stuck /\ helper'[h].pid = helper[h].pid
        /\ helper'[h].code = helper[h].code
        /\ \/ helper[h].doing = "starting" /\ helper'[h].doing \in {"starting", "idle"}
           \/ helper'[h].doing = helper[h].doing
    <3>1. CASE LiftLeft(h)
      BY <1>1, <1>2, <3>1 DEF LiftLeft, Doing, HelperType
    <3>2. CASE ClearLeft(h)
      BY <1>1, <1>2, <3>2 DEF ClearLeft, Doing, HelperType
    <3> QED BY <1>4, <3>1, <3>2
  <2>2. \A code : UpHere(h, code) => UpHere(h, code)'
    BY <2>1 DEF UpHere, AttestsStay
  <2>3. Top(h)' = Top(h) /\ \A item : OnStack(h, item) => OnStack(h, item)'
    BY <2>1 DEF Top, OnStack
  <2> QED BY <2>1, <2>2, <2>3 DEF PressesEndOf
<1> QED BY <1>3, <1>4

\* The helpers beside the one that starts or dies.
LEMMA BesideEnd ==
  ASSUME HeldInv, NEW g \in Slots, PressesEndOf(g), AttestsStay, server' \subseteq server,
         UNCHANGED <<layout, doubtful>>, helper'[g] = helper[g]
  PROVE  PressesEndOf(g)'
<1>1. \A code : UpHere(g, code) => UpHere(g, code)'
  BY DEF UpHere, AttestsStay
<1>2. Top(g)' = Top(g) /\ \A item : OnStack(g, item) => OnStack(g, item)'
  BY DEF Top, OnStack
<1> QED BY <1>1, <1>2 DEF PressesEndOf

LEMMA StepsEnd ==
  ASSUME HeldInv, PressesEnd, ~PidsComeBack, [HeldNext]_held_vars
  PROVE  PressesEnd'
<1>1. CASE UNCHANGED held_vars
  <2>1. AttestsStay
    BY <1>1 DEF held_vars, AttestsStay, Attests
  <2> QED BY <1>1, <2>1, BesideEnd DEF held_vars, PressesEnd
<1>2. ASSUME NEW h \in Slots, Sequence(h) PROVE PressesEnd'
  <2>1. SafeStep(h) /\ changes' = changes
    BY <1>2, SequenceIsSafe DEF SafeStep
  <2> QED BY <1>2, <2>1, SequenceEnds, OthersEnd DEF PressesEnd
<1>3. ASSUME NEW h \in Slots, Start(h) \/ LiftLeft(h) \/ ClearLeft(h) \/ Killed(h) PROVE PressesEnd'
  <2>1. AttestsStay
    BY <1>3, StartKeeps, LiftLeftKeeps, ClearLeftKeeps, KilledKeeps
  <2>2. /\ server' \subseteq server /\ UNCHANGED <<layout, doubtful, changes>>
        /\ \A g \in Slots \ {h} : helper'[g] = helper[g]
    BY <1>3 DEF Start, LiftLeft, ClearLeft, Killed, Becomes, HeldInv, HeldTypes
  <2> QED BY <1>3, <2>1, <2>2, StartsEnd, BesideEnd DEF PressesEnd
<1>4. CASE PersonCopies
  <2>1. AttestsStay
    BY <1>4, AroundKeeps
  <2> QED BY <1>4, <2>1, BesideEnd DEF PersonCopies, PressesEnd
<1>5. CASE LayoutChanges
  <2>1. changes' # 0
    BY <1>5 DEF LayoutChanges, HeldInv, HeldTypes
  <2> QED BY <2>1 DEF PressesEnd
<1> QED BY <1>1, <1>2, <1>3, <1>4, <1>5 DEF HeldNext

\* Under the same hypothesis, and while the layout stays: once a sequence has answered,
\* each key it pressed is up, is named in the answer, is the press the connection failed
\* under, or is held by another helper, whatever failed on the way (release_all).
THEOREM AnsweredMeansUp ==
  ASSUME ~PidsComeBack
  PROVE  HeldSpec => []SilenceMeansUpOnOneLayout
<1>1. HeldInit => SilenceInv
  <2>1. HeldInit => \A h \in Slots : helper[h].pressed = {} /\ helper[h].down = <<>>
                                     /\ helper[h].doing = "dead"
    BY DEF HeldInit, Dead
  <2> QED BY <2>1, InitHolds DEF SilenceInv, PressesEnd, PressesEndOf
<1>2. SilenceInv /\ [HeldNext]_held_vars => SilenceInv'
  BY StepsKeep, StepsEnd DEF SilenceInv
<1>3. SilenceInv => SilenceMeansUpOnOneLayout
  <2> SUFFICES ASSUME SilenceInv, changes = 0, NEW h \in Slots, helper[h].doing = "idle",
                      NEW press \in helper[h].pressed
               PROVE  \/ press.code \notin server \/ press.code \in doubtful
                      \/ press.item \in helper[h].stuck
                      \/ \E p \in Pids : p # helper[h].pid /\ files[p] # Absent
                                        /\ press.code \in Listed(files[p].held)
    BY DEF SilenceMeansUpOnOneLayout
  <2>1. PressesEndOf(h)
    BY DEF SilenceInv, PressesEnd
  <2>2. ~OnStack(h, press.item)
    BY <2>1 DEF PressesEndOf, OnStack, On
  <2> QED BY <2>1, <2>2 DEF PressesEndOf, UpHere, Attests, Lists
<1> QED BY <1>1, <1>2, <1>3, PTL DEF HeldSpec
-----------------------------------------------------------------------------
(* The person's clipboard. *)

\* What a paste found comes back, or there is nothing to bring back: the restore is armed
\* from the set until release_all has run it.
Armed == {"body", "pressing", "unpressing", "releasing", "lifting"}

PasteOf(h) ==
  /\ helper[h].restore \in {Absent, helper[h].prior}
  /\ helper[h].doing \notin Armed => helper[h].restore = Absent
  /\ clipboard = "pasted" =>
       helper[h].prior \in {Absent, "pasted"} \/ helper[h].restore = helper[h].prior

\* One helper was started, and no other lives.
OneStart ==
  /\ starts = 0 => used = {} /\ \A h \in Slots : helper[h].doing = "dead"
  /\ \A g, h \in Slots : helper[g].doing # "dead" /\ helper[h].doing # "dead" => g = h

PastesEnd == trouble = 0 => \A h \in Slots : helper[h].doing # "dead" => PasteOf(h)

PasteInv ==
  /\ starts \in Nat
  /\ starts <= 1 => HeldInv /\ OneStart /\ PastesEnd

\* A step of a body or of release_all that is none of the clipboard's.
LEMMA SameTextEnds ==
  ASSUME NEW h \in Slots, PasteOf(h), clipboard' = clipboard,
         helper'[h].prior = helper[h].prior, helper'[h].restore = helper[h].restore,
         helper[h].doing \in Armed => helper'[h].doing \in Armed
  PROVE  PasteOf(h)'
BY DEF PasteOf

LEMMA SameText ==
  ASSUME HeldInv, NEW h \in Slots,
         \/ ReadyWrites(h) \/ ReadyClears(h) \/ PressRecords(h) \/ PressPosts(h)
         \/ PressForgets(h) \/ BodyEnds(h) \/ ReleasePosts(h) \/ ReleaseForgets(h)
  PROVE  /\ clipboard' = clipboard
         /\ helper'[h].prior = helper[h].prior /\ helper'[h].restore = helper[h].restore
         /\ helper[h].doing \in Armed => helper'[h].doing \in Armed
<1>1. helper \in [Slots -> HelperType] /\ helper[h] \in HelperType
  BY DEF HeldInv, HeldTypes
<1>2. ASSUME NEW r, Becomes(h, r) PROVE helper'[h] = r
  BY <1>1, <1>2 DEF Becomes
<1> DEFINE Same(r) == /\ r.prior = helper[h].prior /\ r.restore = helper[h].restore
                      /\ helper[h].doing \in Armed => r.doing \in Armed
<1>3. Same(Over(h))
  BY <1>1 DEF HelperType, Over, Armed
<1>4. ASSUME NEW down PROVE Same([Over(h) EXCEPT !.down = down])
  BY <1>1 DEF HelperType, Over, Armed
<1>5. ASSUME NEW failed \in BOOLEAN, NEW journal
      PROVE  /\ Same(Popped(h, failed)) /\ Same([Popped(h, failed) EXCEPT !.connected = FALSE])
             /\ Same([Popped(h, failed) EXCEPT !.journal = journal])
  BY <1>1 DEF HelperType, Popped, Armed
<1>6. ASSUME NEW journal PROVE Same([Over(h) EXCEPT !.journal = journal])
  BY <1>1 DEF HelperType, Over, Armed
<1>7. CASE ReadyWrites(h)
  <2>1. Same([helper[h] EXCEPT !.doing = "readied"])
    BY <1>1, <1>7 DEF HelperType, Armed, ReadyWrites, Doing
  <2>2. Same(helper'[h])
    BY <1>2, <1>3, <1>7, <2>1 DEF ReadyWrites
  <2> QED BY <1>7, <2>2 DEF ReadyWrites
<1>8. CASE ReadyClears(h)
  <2>1. \A what : Same([helper[h] EXCEPT !.doing = what])
    BY <1>1, <1>8 DEF HelperType, Armed, ReadyClears, Doing
  <2>2. Same(helper'[h])
    BY <1>2, <1>3, <1>8, <2>1 DEF ReadyClears
  <2> QED BY <1>8, <2>2 DEF ReadyClears
<1>9. CASE PressRecords(h)
  <2> DEFINE item == Head(helper[h].todo)
             code == layout[item]
             down == Append(helper[h].down, [item |-> item, posted |-> FALSE])
             held == Append(helper[h].journal, code)
             presses == [helper[h] EXCEPT !.doing = "pressing", !.down = down, !.journal = held,
                                          !.code = code]
             ends == [Over(h) EXCEPT !.down = down]
  <2>1. Same(presses) /\ Same(ends)
    BY <1>1, <1>4 DEF HelperType, Armed
  <2>3. Becomes(h, presses) \/ Becomes(h, ends)
    BY <1>9 DEF PressRecords
  <2> HIDE DEF presses, ends
  <2>4. helper'[h] = presses \/ helper'[h] = ends
    BY <1>2, <2>3
  <2>2. Same(helper'[h])
    BY <2>1, <2>4
  <2> QED BY <1>9, <2>2 DEF PressRecords
<1>10. CASE PressPosts(h)
  <2>1. /\ Same([helper[h] EXCEPT !.doing = "unpressing"])
        /\ Same([[helper[h] EXCEPT !.doing = "unpressing"] EXCEPT !.connected = FALSE])
    BY <1>1 DEF HelperType, Armed
  <2>2. Same([helper[h] EXCEPT !.doing = "body", !.todo = Tail(@), !.code = Absent,
                !.down = [@ EXCEPT ![Len(@)] = [item |-> Top(h).item, posted |-> TRUE]],
                !.pressed = @ \cup {[item |-> Top(h).item, code |-> helper[h].code]}])
    BY <1>1 DEF HelperType, Armed
  <2>3. Same(helper'[h])
    BY <1>2, <1>10, <2>1, <2>2 DEF PressPosts
  <2> QED BY <1>10, <2>3 DEF PressPosts
<1>11. CASE PressForgets(h)
  <2>1. Same(helper'[h])
    BY <1>2, <1>6, <1>11 DEF PressForgets, ForgetsOnDisk
  <2> QED BY <1>11, <2>1 DEF PressForgets
<1>12. CASE BodyEnds(h)
  <2>1. Same(helper'[h])
    BY <1>2, <1>3, <1>12 DEF BodyEnds
  <2> QED BY <1>12, <2>1 DEF BodyEnds
<1>13. CASE ReleasePosts(h)
  <2> DEFINE lifts == [helper[h] EXCEPT !.doing = "lifting", !.code = layout[Top(h).item]]
             broke == [Popped(h, TRUE) EXCEPT !.connected = FALSE]
  <2>1. Same(lifts) /\ Same(Popped(h, TRUE)) /\ Same(broke)
    BY <1>1, <1>5 DEF HelperType, Armed
  <2>3. Becomes(h, lifts) \/ Becomes(h, Popped(h, TRUE)) \/ Becomes(h, broke)
    BY <1>13 DEF ReleasePosts
  <2> HIDE DEF lifts, broke
  <2>4. helper'[h] \in {lifts, Popped(h, TRUE), broke}
    BY <1>2, <2>3
  <2>2. Same(helper'[h])
    BY <2>1, <2>4
  <2> QED BY <1>13, <2>2 DEF ReleasePosts
<1>14. CASE ReleaseForgets(h)
  <2>1. Same(helper'[h])
    BY <1>2, <1>5, <1>14 DEF ReleaseForgets, ForgetsOnDisk
  <2> QED BY <1>14, <2>1 DEF ReleaseForgets
<1> QED BY <1>7, <1>8, <1>9, <1>10, <1>11, <1>12, <1>13, <1>14

LEMMA SequencePastes ==
  ASSUME HeldInv, NEW h \in Slots, Sequence(h), PasteOf(h), trouble' = 0
  PROVE  PasteOf(h)'
<1>1. helper \in [Slots -> HelperType] /\ helper[h] \in HelperType
  BY DEF HeldInv, HeldTypes
<1>2. ASSUME NEW r, Becomes(h, r) PROVE helper'[h] = r
  BY <1>1, <1>2 DEF Becomes
<1>3. ~Fails
  BY TroubleIsNat DEF HeldInv
<1>4. CASE Begin(h)
  <2>1. /\ helper'[h].prior = Absent /\ helper'[h].restore = helper[h].restore
        /\ helper[h].doing = "idle"
    BY <1>1, <1>2, <1>4 DEF Begin, Doing, HelperType
  <2> QED BY <2>1 DEF PasteOf, Armed
<1>5. CASE ReadClipboard(h)
  <2> DEFINE prior == IF clipboard = "image" THEN Absent ELSE clipboard
             r == [helper[h] EXCEPT !.doing = "setting", !.prior = prior]
  <2>1. helper'[h] = r /\ clipboard' = clipboard
    BY <1>2, <1>3, <1>5 DEF ReadClipboard
  <2>2. r.prior = prior /\ r.restore = helper[h].restore /\ helper[h].doing = "reading"
    BY <1>1, <1>5 DEF HelperType, ReadClipboard, Doing
  <2> HIDE DEF r
  <2> QED BY <2>1, <2>2 DEF PasteOf, Armed
<1>6. CASE SetClipboard(h)
  <2> DEFINE r == [helper[h] EXCEPT !.doing = "body", !.restore = helper[h].prior]
  <2>1. helper'[h] = r
    BY <1>2, <1>3, <1>6 DEF SetClipboard
  <2>2. r.doing = "body" /\ r.restore = r.prior
    BY <1>1 DEF HelperType
  <2> HIDE DEF r
  <2> QED BY <2>1, <2>2 DEF PasteOf, Armed
<1>7. CASE RestoreClipboard(h)
  <2> DEFINE r == [helper[h] EXCEPT !.restore = Absent]
  <2>1. helper'[h] = r /\ clipboard' = helper[h].restore
    BY <1>2, <1>3, <1>7 DEF RestoreClipboard
  <2>2. r.prior = helper[h].prior /\ r.restore = Absent /\ helper[h].restore # Absent
    BY <1>1, <1>7 DEF HelperType, RestoreClipboard
  <2> HIDE DEF r
  <2> QED BY <2>1, <2>2 DEF PasteOf
<1>8. CASE End(h)
  <2> DEFINE r == [helper[h] EXCEPT !.doing = "idle"]
  <2>1. helper'[h] = r /\ clipboard' = clipboard /\ helper[h].restore = Absent
    BY <1>2, <1>8 DEF End
  <2>2. r.prior = helper[h].prior /\ r.restore = helper[h].restore
    BY <1>1 DEF HelperType
  <2> HIDE DEF r
  <2> QED BY <2>1, <2>2 DEF PasteOf
<1> QED BY <1>4, <1>5, <1>6, <1>7, <1>8, SameText, SameTextEnds DEF Sequence

LEMMA OthersPaste ==
  ASSUME NEW h \in Slots, helper'[h] = helper[h], PasteOf(h),
         clipboard' = "pasted" => clipboard = "pasted"
  PROVE  PasteOf(h)'
BY DEF PasteOf

LEMMA PastesStart == HeldInit => PasteInv
<1> SUFFICES ASSUME HeldInit PROVE PasteInv
  OBVIOUS
<1>1. \A h \in Slots : helper[h].doing = "dead"
  BY DeadIs DEF HeldInit
<1>2. OneStart /\ PastesEnd /\ starts \in Nat
  BY <1>1 DEF HeldInit, OneStart, PastesEnd
<1> QED BY <1>2, InitHolds DEF PasteInv

LEMMA FirstStart ==
  ASSUME HeldInv, OneStart, PastesEnd, NEW h \in Slots, Start(h), starts' <= 1
  PROVE  used = {} /\ OneStart' /\ PastesEnd'
<1>1. starts = 0 /\ starts' = 1 /\ \A g \in Slots : helper[g].doing = "dead"
  BY DEF Start, HeldInv, HeldTypes, OneStart
<1>2. used = {}
  BY <1>1 DEF OneStart
<1>3. \A g \in Slots \ {h} : helper'[g] = helper[g]
  BY DEF Start, Becomes, HeldInv, HeldTypes
<1>4. OneStart'
  BY <1>1, <1>3 DEF OneStart
<1>5. helper'[h].prior = Absent /\ helper'[h].restore = Absent
  <2>1. PICK pid \in Pids, names \in Listings : \E left \in LeftBehind(names) :
          LET new == [Dead EXCEPT !.pid = pid, !.started = starts + 1, !.connected = TRUE,
                                  !.found = {left[i].pid : i \in DOMAIN left},
                                  !.doing = "idle"]
          IN  \/ Becomes(h, new)
              \/ Becomes(h, [new EXCEPT !.left = left, !.doing = "starting"])
    BY DEF Start
  <2>2. PICK left \in LeftBehind(names) :
          LET new == [Dead EXCEPT !.pid = pid, !.started = starts + 1, !.connected = TRUE,
                                  !.found = {left[i].pid : i \in DOMAIN left},
                                  !.doing = "idle"]
          IN  \/ Becomes(h, new)
              \/ Becomes(h, [new EXCEPT !.left = left, !.doing = "starting"])
    BY <2>1
  <2> DEFINE new == [Dead EXCEPT !.pid = pid, !.started = starts + 1, !.connected = TRUE,
                                 !.found = {left[i].pid : i \in DOMAIN left},
                                 !.doing = "idle"]
             lifting == [new EXCEPT !.left = left, !.doing = "starting"]
  <2>3. /\ new.prior = Absent /\ new.restore = Absent
        /\ lifting.prior = Absent /\ lifting.restore = Absent
    BY DEF Dead
  <2>4. Becomes(h, new) \/ Becomes(h, lifting)
    BY <2>2
  <2> HIDE DEF new, lifting
  <2>5. helper'[h] \in {new, lifting}
    BY <2>4 DEF Becomes, HeldInv, HeldTypes
  <2> QED BY <2>3, <2>5
<1>6. PastesEnd'
  BY <1>1, <1>3, <1>5 DEF PastesEnd, PasteOf
<1> QED BY <1>2, <1>4, <1>6

LEMMA LiftsPaste ==
  ASSUME HeldInv, OneStart, PastesEnd, NEW h \in Slots, LiftLeft(h) \/ ClearLeft(h)
  PROVE  OneStart' /\ PastesEnd'
<1>1. /\ \A g \in Slots \ {h} : helper'[g] = helper[g]
      /\ starts' = starts /\ used' = used /\ clipboard' = clipboard /\ helper[h].doing = "starting"
      /\ trouble' = 0 => trouble = 0
  BY TroubleIsNat DEF LiftLeft, ClearLeft, Becomes, HeldInv, HeldTypes, Doing
<1>2. /\ helper'[h].prior = helper[h].prior /\ helper'[h].restore = helper[h].restore
  BY DEF LiftLeft, ClearLeft, Becomes, HeldInv, HeldTypes, HelperType
<1>3. OneStart'
  BY <1>1 DEF OneStart
<1>4. ASSUME trouble' = 0 PROVE PasteOf(h)'
  <2>1. PasteOf(h)
    BY <1>1, <1>4 DEF PastesEnd
  <2> QED BY <1>1, <1>2, <2>1 DEF PasteOf, Armed
<1>5. PastesEnd'
  BY <1>1, <1>4, OthersPaste DEF PastesEnd
<1> QED BY <1>3, <1>5

LEMMA PastesKeep ==
  ASSUME PasteInv, [HeldNext]_held_vars
  PROVE  PasteInv'
<1> SUFFICES ASSUME starts' <= 1 PROVE PasteInv'
  <2>1. starts' = starts \/ starts' = starts + 1
    BY DEF HeldNext, held_vars, Start, LiftLeft, ClearLeft, Sequence, Killed, LayoutChanges,
           PersonCopies, Begin, ReadyWrites, ReadyClears, ReadClipboard, SetClipboard, PressRecords,
           PressPosts, PressForgets, BodyEnds, ReleasePosts, ReleaseForgets, RestoreClipboard, End
  <2> QED BY <2>1 DEF PasteInv
<1>1. starts \in Nat /\ (starts' = starts \/ starts' = starts + 1)
  BY DEF PasteInv, HeldNext, held_vars, Start, LiftLeft, ClearLeft, Sequence, Killed, LayoutChanges,
         PersonCopies, Begin, ReadyWrites, ReadyClears, ReadClipboard, SetClipboard, PressRecords,
         PressPosts, PressForgets, BodyEnds, ReleasePosts, ReleaseForgets, RestoreClipboard, End
<1>2. HeldInv /\ OneStart /\ PastesEnd
  BY <1>1 DEF PasteInv
<1>3. CASE \E h \in Slots : Start(h)
  <2>1. used = {} /\ OneStart' /\ PastesEnd'
    BY <1>2, <1>3, FirstStart
  <2> QED BY <1>1, <1>2, <2>1, StepsKeep DEF PasteInv
<1>4. CASE \E h \in Slots : Sequence(h)
  <2>1. PICK h \in Slots : Sequence(h)
    BY <1>4
  <2>2. SafeStep(h)
    BY <1>2, <2>1, SequenceIsSafe
  <2>3. /\ \A g \in Slots \ {h} : helper'[g] = helper[g]
        /\ helper[h].doing # "dead" /\ starts' = starts /\ used' = used
    BY <2>2 DEF SafeStep, Acting
  <2>4. OneStart'
    BY <1>2, <2>3 DEF OneStart
  <2>5. trouble' = 0 => trouble = 0
    BY <1>2, <2>1, TroubleIsNat
       DEF HeldInv, Sequence, Begin, ReadyWrites, ReadyClears, ReadClipboard, SetClipboard,
           PressRecords, PressPosts, PressForgets, ForgetsOnDisk, BodyEnds, ReleasePosts,
           ReleaseForgets, RestoreClipboard, End
  <2>6. ASSUME trouble' = 0 PROVE PasteOf(h)'
    BY <1>2, <2>1, <2>3, <2>5, <2>6, SequencePastes DEF PastesEnd
  <2>7. \A g \in Slots \ {h} : helper[g].doing = "dead"
    BY <1>2, <2>3 DEF OneStart
  <2>8. PastesEnd'
    BY <2>3, <2>6, <2>7 DEF PastesEnd
  <2> QED BY <1>1, <1>2, <2>1, <2>2, <2>4, <2>8, SafeStepsKeep DEF PasteInv
<1>5. CASE \E h \in Slots : LiftLeft(h) \/ ClearLeft(h)
  <2>1. PICK h \in Slots : LiftLeft(h) \/ ClearLeft(h)
    BY <1>5
  <2> QED BY <1>1, <1>2, <2>1, LiftsPaste, LiftLeftKeeps, ClearLeftKeeps DEF PasteInv
<1>6. CASE \E h \in Slots : Killed(h)
  <2>1. PICK h \in Slots : Killed(h)
    BY <1>6
  <2>2. /\ \A g \in Slots \ {h} : helper'[g] = helper[g]
        /\ helper'[h].doing = "dead"
        /\ UNCHANGED <<clipboard, used, starts, trouble>>
    BY <1>2, <2>1, DeadIs DEF Killed, Becomes, HeldInv, HeldTypes
  <2>3. OneStart' /\ PastesEnd'
    BY <1>2, <2>2, OthersPaste DEF OneStart, PastesEnd
  <2> QED BY <1>1, <1>2, <2>1, <2>3, KilledKeeps DEF PasteInv
<1>7. CASE LayoutChanges \/ PersonCopies \/ UNCHANGED held_vars
  <2>1. /\ UNCHANGED <<helper, used, starts, trouble>>
        /\ clipboard' = "pasted" => clipboard = "pasted"
    BY <1>7, HeldAssumption DEF LayoutChanges, PersonCopies, held_vars
  <2>2. OneStart' /\ PastesEnd'
    BY <1>2, <2>1, OthersPaste DEF OneStart, PastesEnd
  <2>3. HeldInv'
    BY <1>2, <1>7, AroundKeeps, UntouchedKeeps
  <2> QED BY <1>1, <2>2, <2>3 DEF PasteInv
<1> QED BY <1>3, <1>4, <1>5, <1>6, <1>7 DEF HeldNext

\* Of the first helper, while nothing fails: the text a paste found is back when its
\* sequence has answered, whatever the person copies meanwhile and wherever the body ends;
\* text that was none, or the paste's own, is not brought back (take_clipboard, restore).
THEOREM ThePersonsTextComesBack == HeldSpec => []PasteIsUndone
<1>1. PasteInv => PasteIsUndone
  BY DEF PasteInv, PastesEnd, PasteOf, PasteIsUndone, Armed
<1> QED BY <1>1, PastesStart, PastesKeep, PTL DEF HeldSpec
-----------------------------------------------------------------------------
\* ---- the clipboard: what an answer is made of -----------------------------------------

Event ==
  [kind : {"stop", "clear", "landed"}] \cup [kind : {"notify"}, found : BOOLEAN]
    \cup [kind : {"request"}, app : Apps, ask : Nat] \cup [kind : {"deleted"}, app : Apps]

Transfer == {t \in [app : Apps, text : Text, sent : Nat] : t.sent <= Len(t.text)}

Asked == [at : {"idle", "asked", "told", "taking", "done"}, ask : Nat, got : Text]

Sending ==
  {s \in [app : Apps, text : Copyable, at : {"asked", "sending", "over"}, read : Nat,
          sent : Nat, deletes : Nat] : s.sent <= Parts[s.text]}

Worker == [at : {"idle", "served", "convert", "waiting", "clear", "own", "claim", "prove",
                 "pasted", "stopped"},
           pastes : Nat, read : Nat, prior : Text \cup {None}, answer : Answer \cup {None},
           text : Text \cup {None}, restores : BOOLEAN]

ThreadIsTyped ==
  /\ thread.at \in {"waits", "answer", "take", "converted", "chunk", "finish", "release", "ended"}
  /\ thread.at = "answer" =>
       thread.app \in Apps /\ thread.ask \in Nat /\ thread.text \in Text \cup {None}
  /\ thread.at = "take" => thread.then \in {"converted", "chunk"}
  /\ thread.at \in {"converted", "chunk"} => thread.value \in Value
  /\ thread.at = "finish" => thread.found \in BOOLEAN /\ thread.text \in Text

\* What the worker is about to serve is a text.
WorkerHasText ==
  worker.at \in {"served", "convert", "waiting", "clear", "own"} => worker.text \in Text

ClipTypes ==
  /\ owner \in Apps \cup {None, Compux}
  /\ landing \in Value \cup {None} /\ place \in [Apps -> Value \cup {None}]
  /\ events \in Seq(Event)
  /\ owned \in Text \cup {None} /\ transfers \in Seq(Transfer) /\ reading \in Reading \cup {None}
  /\ ThreadIsTyped /\ worker \in Worker
  /\ holds \in [Apps -> Copyable] /\ sending \in Seq(Sending)
  /\ asking \in [Apps -> Asked] /\ copies \in Nat
  /\ WorkerHasText /\ put \subseteq Text /\ unread \subseteq Nat

\* What compux serves, and what it answers with, it has served.
ServesItsOwn ==
  /\ owned = None \/ owned \in put
  /\ thread.at = "answer" => thread.text = None \/ thread.text \in put

TransfersAreOfText ==
  \A i \in DOMAIN transfers :
    /\ transfers[i].text \in put
    /\ \A j \in DOMAIN transfers : transfers[i].app = transfers[j].app => i = j

Asks(e, a)    == e.kind = "request" /\ e.app = a
Deletes(e, a) == e.kind = "deleted" /\ e.app = a
Begins(got, t, n) == Len(got) = n /\ \A i \in 1 .. n : got[i] = t[i]

\* The requests of an application wait in the order they were made in, each once.
AskedInOrder(a) ==
  /\ \A i \in DOMAIN events : Asks(events[i], a) =>
       /\ events[i].ask <= asking[a].ask
       /\ \A j \in DOMAIN events :
            Asks(events[j], a) /\ i < j => events[i].ask < events[j].ask
  /\ thread.at = "answer" /\ thread.app = a =>
       /\ thread.ask <= asking[a].ask
       /\ \A i \in DOMAIN events : Asks(events[i], a) => thread.ask < events[i].ask

NoneAsked(a) ==
  /\ \A i \in DOMAIN events : ~Asks(events[i], a)
  /\ ~(thread.at = "answer" /\ thread.app = a)
NoneDeleted(a) == \A i \in DOMAIN events : ~Deletes(events[i], a)

\* Nothing it deleted for an earlier answer is left when it is told of a later one.
AskedIsClean(a) ==
  asking[a].at = "asked" =>
    /\ asking[a].got = <<>>
    /\ \A i, j \in DOMAIN events :
         Deletes(events[i], a) /\ Asks(events[j], a) /\ events[j].ask = asking[a].ask => i < j
    /\ thread.at = "answer" /\ thread.app = a /\ thread.ask = asking[a].ask => NoneDeleted(a)

\* It was told of a text, or of the start of one that nothing was sent of.
ToldIsStart(a) ==
  asking[a].at = "told" =>
    /\ NoneAsked(a) /\ NoneDeleted(a) /\ asking[a].got = <<>> /\ place[a] # None
    /\ \/ place[a].type = "text" /\ place[a].parts \in put
       \/ /\ place[a].type = "incr" /\ place[a].parts = <<>>
          /\ \A i \in Of(a) : transfers[i].sent = 0

\* What it has, and what waits for it, is what was sent of the text.
TakingIsPart(a) ==
  asking[a].at = "taking" =>
    /\ NoneAsked(a)
    /\ \A i, j \in DOMAIN events : Deletes(events[i], a) /\ Deletes(events[j], a) => i = j
    /\ place[a] # None =>
         /\ NoneDeleted(a)
         /\ place[a].parts = <<>> => asking[a].got \in put
         /\ place[a].parts # <<>> => \A i \in Of(a) :
              Begins(asking[a].got \o place[a].parts, transfers[i].text, transfers[i].sent)
    /\ place[a] = None => \A i \in Of(a) :
         Begins(asking[a].got, transfers[i].text, transfers[i].sent)

DoneIsWhole(a) == asking[a].at = "done" => asking[a].got \in put

AskerInv(a) ==
  AskedInOrder(a) /\ AskedIsClean(a) /\ ToldIsStart(a) /\ TakingIsPart(a) /\ DoneIsWhole(a)

AnswerInv == ServesItsOwn /\ TransfersAreOfText /\ \A a \in Apps : AskerInv(a)

\* ---- the clipboard: what a read is made of --------------------------------------------

Free == thread.at \notin {"take", "converted", "chunk", "finish"}

NoneLanded   == \A i \in DOMAIN events : events[i].kind # "landed"
NoneNotified == \A i \in DOMAIN events : events[i].kind # "notify"
OneLanded ==
  \E i \in DOMAIN events : \A j \in DOMAIN events : events[j].kind = "landed" <=> i = j

AllOver == \A n \in DOMAIN sending : sending[n].at = "over"
Quiet   == AllOver /\ landing = None /\ NoneLanded /\ NoneNotified /\ Free

\* What an owner answered is on its way: landed, and then said.
Announced ==
  /\ \E i \in DOMAIN events : \A j \in DOMAIN events :
       /\ events[j].kind = "notify" <=> i = j
       /\ events[j].kind = "landed" => j < i
  /\ \A i \in DOMAIN events : events[i].kind = "notify" => events[i].found
  /\ \A i, j \in DOMAIN events :
       events[i].kind = "landed" /\ events[j].kind = "landed" => i = j

NoneFound == \A i \in DOMAIN events : events[i].kind = "notify" => ~events[i].found

TextOf(parts) == [type |-> "text", parts |-> parts]
Incr          == [type |-> "incr", parts |-> <<>>]

\* What the owner put there once the thread has had so many of its parts.
NextLanded(s, have) ==
  \/ s.at = "sending" /\ s.deletes = 0 /\ s.sent = have + 1
     /\ landing = TextOf(<<<<s.text, have + 1>>>>)
  \/ s.at = "over" /\ s.sent = have /\ have = Parts[s.text] /\ landing = TextOf(<<>>)

\* What comes next: the owner is to send it, or it has landed.
Coming(s, have) ==
  \/ s.at = "sending" /\ s.deletes = 1 /\ s.sent = have /\ landing = None /\ NoneLanded
  \/ NextLanded(s, have) /\ OneLanded

Had       == Len(reading.got)
TakesIt(then) ==
  thread.at = "take" /\ thread.then = then /\ NoneLanded /\ NoneNotified
Spent(s)   == s.at = "over" /\ landing = None /\ NoneLanded /\ NoneNotified
InPart(s) ==
  /\ reading.got # None /\ NoneNotified /\ Had <= Parts[s.text]
  /\ Begins(reading.got, Whole(s.text), Had)

\* Where a read is: its owner has not answered; it answered with the whole text, which is to be
\* taken, or was; it answers in parts, of which the thread has none, or some, or is at one.
NotAnswered(s) ==
  /\ s.at = "asked" /\ s.sent = 0 /\ s.deletes = 0 /\ landing = None /\ reading.got = None
  /\ NoneLanded /\ NoneNotified /\ Free
WholeLanded(s) ==
  /\ s.at = "over" /\ landing = TextOf(Whole(s.text)) /\ reading.got = None
  /\ (Announced /\ Free) \/ TakesIt("converted")
WholeHad(s) ==
  Spent(s) /\ reading.got = None /\ thread.at = "converted" /\ thread.value = TextOf(Whole(s.text))
PartsLanded(s) ==
  /\ s.at = "sending" /\ s.sent = 0 /\ s.deletes = 0 /\ landing = Incr /\ reading.got = None
  /\ (Announced /\ Free) \/ TakesIt("converted")
PartsBegin(s) ==
  /\ reading.got = None /\ thread.at = "converted" /\ thread.value = Incr
  /\ NoneNotified /\ Coming(s, 0)
PartAwaited(s) == InPart(s) /\ Free /\ Coming(s, Had)
PartLanded(s)  == InPart(s) /\ TakesIt("chunk") /\ NextLanded(s, Had)
PartHad(s) ==
  /\ InPart(s) /\ thread.at = "chunk" /\ Had < Parts[s.text]
  /\ thread.value = TextOf(<<<<s.text, Had + 1>>>>) /\ Coming(s, Had + 1)
EndHad(s) ==
  InPart(s) /\ thread.at = "chunk" /\ thread.value = TextOf(<<>>) /\ Had = Parts[s.text] /\ Spent(s)
EndRead(s) ==
  thread.at = "finish" /\ thread.found /\ thread.text = Whole(s.text) /\ Spent(s)

ComesTo(s) ==
  \/ NotAnswered(s) \/ WholeLanded(s) \/ WholeHad(s) \/ PartsLanded(s) \/ PartsBegin(s)
  \/ PartAwaited(s) \/ PartLanded(s) \/ PartHad(s) \/ EndHad(s) \/ EndRead(s)

Refused == AllOver /\ landing = None /\ NoneLanded /\ NoneFound /\ Free

ReadFrom(n, s) ==
  /\ s = sending[n] /\ s.read = worker.read /\ ComesTo(s)
  /\ \A m \in DOMAIN sending : m # n => sending[m].at = "over"

Heard ==
  worker.answer.found =>
    /\ Quiet
    /\ \A n \in DOMAIN sending : sending[n].read = worker.read =>
         worker.answer.text = Whole(sending[n].text)

\* A read that waits: it may come to the text of the owner it asked, or to nothing.
Waiting ==
  \/ worker.answer # None /\ reading = None /\ Heard
  \/ /\ worker.answer = None /\ reading # None /\ reading.read = worker.read
     /\ \/ thread.at = "finish" /\ ~thread.found
        \/ Refused
        \/ \E n \in DOMAIN sending : \E s \in {sending[n]} : ReadFrom(n, s)

ReadsInOrder ==
  \A n \in DOMAIN sending :
    /\ sending[n].read <= worker.read
    /\ worker.at = "convert" => sending[n].read < worker.read
    /\ \A m \in DOMAIN sending : sending[m].read = sending[n].read => m = n

ReadInv ==
  /\ ReadsInOrder
  /\ worker.at \in {"convert", "waiting"} => worker.prior = None
  /\ unread = {} =>
       /\ worker.at \notin {"waiting", "clear"} => Quiet
       /\ worker.at = "convert" =>
            worker.answer = None /\ reading = [read |-> worker.read, got |-> None]
       /\ worker.at = "waiting" => Waiting
       /\ worker.at = "clear" /\ worker.prior # None =>
            /\ Quiet
            /\ \A n \in DOMAIN sending :
                 sending[n].read = worker.read => worker.prior = Whole(sending[n].text)

ClipInv == AnswerInv /\ ReadInv

LEMMA WholeIsText ==
  ASSUME NEW t \in Copyable \cup Pasted
  PROVE  /\ Whole(t) \in Text /\ Len(Whole(t)) = Parts[t]
         /\ \A i \in 1 .. Parts[t] : Whole(t)[i] = <<t, i>> /\ <<<<t, i>>>> \in Text
<1>1. Parts[t] \in Nat
  BY ClipboardAssumption
<1> QED BY <1>1 DEF Whole, Text

LEMMA NoneIsNothing ==
  /\ None \notin Text /\ None \notin Value /\ None \notin Reading /\ None \notin Answer
  /\ None \notin Apps /\ Compux \notin Apps /\ None # Compux
BY ClipboardAssumption

\* What taking the first of a queue leaves.
LEMMA QueueTail ==
  ASSUME NEW S, NEW q \in Seq(S), q # <<>>
  PROVE  /\ Head(q) \in S /\ Head(q) = q[1] /\ 1 \in DOMAIN q
         /\ Tail(q) \in Seq(S) /\ Len(q) \in Nat \ {0} /\ Len(Tail(q)) = Len(q) - 1
         /\ \A i \in DOMAIN Tail(q) : i + 1 \in DOMAIN q /\ Tail(q)[i] = q[i + 1]
OBVIOUS

LEMMA QueueAppend ==
  ASSUME NEW S, NEW q \in Seq(S), NEW e \in S
  PROVE  /\ Append(q, e) \in Seq(S) /\ Len(q) \in Nat /\ Len(Append(q, e)) = Len(q) + 1
         /\ DOMAIN q = 1 .. Len(q) /\ DOMAIN Append(q, e) = 1 .. Len(q) + 1
         /\ Append(q, e)[Len(q) + 1] = e
         /\ \A i \in DOMAIN q : Append(q, e)[i] = q[i]
OBVIOUS

LEMMA EventsAre ==
  /\ [kind |-> "stop"] \in Event /\ [kind |-> "clear"] \in Event /\ [kind |-> "landed"] \in Event
  /\ \A f \in BOOLEAN : [kind |-> "notify", found |-> f] \in Event
  /\ \A a \in Apps : [kind |-> "deleted", app |-> a] \in Event
  /\ \A a \in Apps, k \in Nat : [kind |-> "request", app |-> a, ask |-> k] \in Event
BY DEF Event

LEMMA EventFields ==
  ASSUME NEW e \in Event
  PROVE  /\ e.kind \in {"stop", "clear", "landed", "notify", "request", "deleted"}
         /\ e.kind = "notify" => e.found \in BOOLEAN
         /\ e.kind \in {"request", "deleted"} => e.app \in Apps
         /\ e.kind = "request" => e.ask \in Nat
BY DEF Event

\* Events that are put behind the others one by one.
LEMMA LandsAre ==
  ASSUME NEW q \in Seq(Event), NEW f \in BOOLEAN
  PROVE  /\ q \o Notify(f) = Append(q, [kind |-> "notify", found |-> f])
         /\ (q \o <<[kind |-> "landed"]>>) \o <<>> = Append(q, [kind |-> "landed"])
         /\ (q \o <<[kind |-> "landed"]>>) \o Notify(f) =
              Append(Append(q, [kind |-> "landed"]), [kind |-> "notify", found |-> f])
<1> DEFINE l == [kind |-> "landed"]
           n == [kind |-> "notify", found |-> f]
<1>1. l \in Event /\ n \in Event
  BY EventsAre
<1> HIDE DEF l, n
<1>2. /\ q \o <<n>> = Append(q, n) /\ (q \o <<l>>) \o <<>> = Append(q, l)
      /\ (q \o <<l>>) \o <<n>> = Append(Append(q, l), n)
  BY <1>1
<1> QED BY <1>2 DEF l, n, Notify

\* What is left of a sequence an entry is taken out of, in order.
LEMMA LeftOut ==
  ASSUME NEW S, NEW q \in Seq(S), NEW i \in DOMAIN q
  PROVE  /\ SX!RemoveAt(q, i) \in Seq(S) /\ Len(q) \in Nat \ {0}
         /\ Len(SX!RemoveAt(q, i)) = Len(q) - 1
         /\ \A n \in 1 .. Len(q) - 1 :
              SX!RemoveAt(q, i)[n] = q[IF n < i THEN n ELSE n + 1]
<1>1. i \in Nat /\ Len(q) \in Nat /\ 1 <= i /\ i <= Len(q) /\ DOMAIN q = 1 .. Len(q)
  OBVIOUS
<1> DEFINE a == SubSeq(q, 1, i - 1)
           b == SubSeq(q, i + 1, Len(q))
<1>2. a \in Seq(S) /\ Len(a) = i - 1 /\ \A n \in 1 .. i - 1 : a[n] = q[n]
  BY <1>1, SubSeqProperties
<1>3. b \in Seq(S) /\ Len(b) = Len(q) - i /\ \A n \in 1 .. Len(q) - i : b[n] = q[n + i]
  BY <1>1, SubSeqProperties
<1> HIDE DEF a, b
<1>4. /\ a \o b \in Seq(S) /\ Len(a \o b) = Len(a) + Len(b)
      /\ \A n \in 1 .. Len(a) + Len(b) :
           (a \o b)[n] = IF n <= Len(a) THEN a[n] ELSE b[n - Len(a)]
  BY <1>2, <1>3, ConcatProperties, Zenon
<1>5. ASSUME NEW n \in 1 .. Len(q) - 1
      PROVE  (a \o b)[n] = q[IF n < i THEN n ELSE n + 1]
  <2>1. n \in 1 .. Len(a) + Len(b)
    BY <1>1, <1>2, <1>3
  <2>2. CASE n < i
    BY <1>1, <1>2, <1>4, <2>1, <2>2
  <2>3. CASE ~(n < i)
    <3>1. n - Len(a) \in 1 .. Len(q) - i /\ (n - Len(a)) + i = n + 1 /\ ~(n <= Len(a))
      BY <1>1, <1>2, <1>3, <2>3
    <3>2. b[n - Len(a)] = q[(n - Len(a)) + i]
      BY <1>3, <3>1
    <3> QED BY <1>4, <2>1, <2>3, <3>1, <3>2
  <2> QED BY <2>2, <2>3
<1>6. Len(a \o b) = Len(q) - 1 /\ Len(q) \in Nat \ {0}
  BY <1>1, <1>2, <1>3, <1>4
<1>7. SX!RemoveAt(q, i) = a \o b
  BY DEF SX!RemoveAt, a, b
<1> QED BY <1>4, <1>5, <1>6, <1>7

LEMMA WithoutIsTyped ==
  ASSUME ClipTypes, NEW app \in Apps
  PROVE  Without(app) \in Seq(Transfer)
<1>1. transfers \in Seq(Transfer) /\ Of(app) \subseteq DOMAIN transfers
  BY DEF ClipTypes, Of
<1>2. CASE Of(app) # {}
  <2> DEFINE i == CHOOSE i \in Of(app) : TRUE
  <2>1. i \in DOMAIN transfers
    BY <1>1, <1>2
  <2> QED BY <1>1, <1>2, <2>1, LeftOut DEF Without
<1> QED BY <1>1, <1>2 DEF Without

LEMMA StartedIsTyped ==
  ASSUME ClipTypes, NEW app \in Apps, NEW text \in Text
  PROVE  Started(app, text) \in Seq(Transfer)
<1> DEFINE rest == Without(app)
           new  == [app |-> app, text |-> text, sent |-> 0]
           kept == IF Len(rest) >= MaxTransfers THEN Tail(rest) ELSE rest
<1>1. rest \in Seq(Transfer) /\ new \in Transfer
  BY WithoutIsTyped DEF Transfer, Text
<1> HIDE DEF rest, new
<1>2. kept \in Seq(Transfer)
  BY <1>1, ClipboardAssumption, QueueTail
<1> HIDE DEF kept
<1>3. Append(kept, new) \in Seq(Transfer)
  BY <1>1, <1>2
<1> QED BY <1>3 DEF Started, rest, new, kept

LEMMA ClipTypesInit == ClipboardInit => ClipTypes
BY DEF ClipboardInit, ClipTypes, ThreadIsTyped, WorkerHasText, Waits, Idle, Worker, Asked, Text

LEMMA StartPasteTyped == ClipTypes /\ StartPaste => ClipTypes'
<1> SUFFICES ASSUME ClipTypes, StartPaste PROVE ClipTypes'
  OBVIOUS
<1>1. \A t \in Pasted : Whole(t) \in Text
  BY WholeIsText
<1>2. worker'.text \in Text /\ worker' \in Worker
  <2>1. PICK t \in Pasted :
          LET w == [worker EXCEPT !.pastes = @ + 1, !.text = Whole(t), !.prior = None,
                                  !.answer = None, !.restores = FALSE]
          IN  \/ worker' = [w EXCEPT !.at = "own"] \/ worker' = [w EXCEPT !.at = "served"]
              \/ worker' = [w EXCEPT !.at = "convert", !.read = @ + 1]
    BY DEF StartPaste
  <2> DEFINE x == Whole(t)
             n == worker.pastes + 1
             w == [worker EXCEPT !.pastes = n, !.text = x, !.prior = None,
                                 !.answer = None, !.restores = FALSE]
             r == w.read + 1
  <2>2. x \in Text
    BY <1>1
  <2>3. n \in Nat /\ worker \in Worker
    BY DEF ClipTypes, Worker
  <2>4. \/ worker' = [w EXCEPT !.at = "own"] \/ worker' = [w EXCEPT !.at = "served"]
        \/ worker' = [w EXCEPT !.at = "convert", !.read = r]
    BY <2>1
  <2> HIDE DEF x, n
  <2>5. w \in Worker /\ w.text = x
    BY <2>2, <2>3 DEF Worker
  <2> HIDE DEF w
  <2>6. r \in Nat
    BY <2>5 DEF Worker
  <2> HIDE DEF r
  <2>7. [w EXCEPT !.at = "own"] \in Worker /\ [w EXCEPT !.at = "own"].text = x
    BY <2>5 DEF Worker
  <2>8. [w EXCEPT !.at = "served"] \in Worker /\ [w EXCEPT !.at = "served"].text = x
    BY <2>5 DEF Worker
  <2>9. /\ [w EXCEPT !.at = "convert", !.read = r] \in Worker
        /\ [w EXCEPT !.at = "convert", !.read = r].text = x
    BY <2>5, <2>6 DEF Worker
  <2> QED BY <2>2, <2>4, <2>7, <2>8, <2>9
<1>3. reading' \in Reading \cup {None}
  BY DEF StartPaste, ClipTypes, Worker, Reading
<1> QED BY <1>2, <1>3 DEF StartPaste, ClipTypes, ThreadIsTyped, WorkerHasText, Server, Others,
             server_vars, app_vars, history

LEMMA WorkerTyped ==
  ClipTypes /\ (ReadsItsOwn \/ Hears \/ GivesUpReading \/ ClearsReading \/ PutsText
                  \/ ClaimsSelection \/ ProvesOwner \/ Restores) => ClipTypes'
<1> USE DEF ClipTypes, ThreadIsTyped, WorkerHasText, Server, Others, Shared, server_vars,
            app_vars, shared_vars, history, Worker, Goes
<1>1. ClipTypes /\ ReadsItsOwn => ClipTypes'
  BY DEF ReadsItsOwn
<1>2. ClipTypes /\ Hears => ClipTypes'
  BY DEF Hears, Answer
<1>3. ClipTypes /\ (GivesUpReading \/ ClaimsSelection \/ ProvesOwner) => ClipTypes'
  BY DEF GivesUpReading, ClaimsSelection, ProvesOwner
<1>4. ClipTypes /\ ClearsReading => ClipTypes'
  BY DEF ClearsReading
<1>5. ClipTypes /\ PutsText => ClipTypes'
  BY DEF PutsText
<1>6. ASSUME ClipTypes, Restores PROVE ClipTypes'
  <2>1. worker' \in Worker /\ (worker'.at = "own" => worker'.text \in Text)
        /\ worker'.at \in {"own", "idle"}
    <3>1. CASE worker.prior = None
      BY <1>6, <3>1 DEF Restores
    <3>2. CASE worker.prior # None
      <4>1. worker.prior \in Text
        BY <1>6, <3>2
      <4> DEFINE x == worker.prior
      <4>2. worker' = [worker EXCEPT !.at = "own", !.text = x, !.restores = TRUE]
        BY <1>6, <3>2 DEF Restores
      <4>3. worker \in Worker /\ x \in Text
        BY <1>6, <4>1
      <4> HIDE DEF x
      <4> QED BY <4>2, <4>3
    <3> QED BY <3>1, <3>2
  <2> HIDE DEF Worker
  <2> QED BY <1>6, <2>1 DEF Restores
<1> QED BY <1>1, <1>2, <1>3, <1>4, <1>5, <1>6

LEMMA ConvertsTyped == ClipTypes /\ Converts => ClipTypes'
<1> SUFFICES ASSUME ClipTypes, Converts PROVE ClipTypes'
  OBVIOUS
<1> DEFINE s == [app |-> owner, text |-> holds[owner], at |-> "asked", read |-> worker.read,
                 sent |-> 0, deletes |-> 0]
           e == [kind |-> "notify", found |-> FALSE]
<1>1. owner \in Apps => s \in Sending
  BY ClipboardAssumption DEF ClipTypes, Sending, Worker
<1>2. e \in Event
  BY EventsAre
<1>3. (sending' = Append(sending, s) /\ owner \in Apps) \/ sending' = sending
  BY DEF Converts
<1>4. events' = Append(events, e) \/ events' = events
  BY DEF Converts
<1> HIDE DEF s, e
<1>5. sending' \in Seq(Sending) /\ events' \in Seq(Event)
  <2>1. sending \in Seq(Sending) /\ events \in Seq(Event)
    BY DEF ClipTypes
  <2>2. Append(events, e) \in Seq(Event) /\ (owner \in Apps => Append(sending, s) \in Seq(Sending))
    BY <1>1, <1>2, <2>1
  <2> QED BY <1>3, <1>4, <2>1, <2>2
<1>6. worker' \in Worker /\ worker'.text = worker.text /\ worker'.at = "waiting"
      /\ worker.at = "convert"
  BY DEF Converts, Goes, ClipTypes, Worker
<1> QED BY <1>5, <1>6 DEF Converts, ClipTypes, ThreadIsTyped, WorkerHasText, Shared,
             shared_vars, history

LEMMA StopsTyped == ClipTypes /\ Stops => ClipTypes'
<1> SUFFICES ASSUME ClipTypes, Stops PROVE ClipTypes'
  OBVIOUS
<1>1. events' \in Seq(Event)
  <2>1. events \in Seq(Event) /\ [kind |-> "stop"] \in Event
    BY EventsAre DEF ClipTypes
  <2>2. Append(events, [kind |-> "stop"]) \in Seq(Event)
    BY <2>1
  <2> QED BY <2>2 DEF Stops
<1>2. worker' \in Worker /\ worker'.at = "stopped"
  BY DEF Stops, Goes, ClipTypes, Worker
<1> QED BY <1>1, <1>2 DEF Stops, ClipTypes, ThreadIsTyped, WorkerHasText, Shared, shared_vars,
             Others, app_vars, history

\* The thread takes the first of what the server had to tell.
LEMMA TakenIs ==
  ASSUME ClipTypes, NEW kind, Next_(kind), Taken
  PROVE  /\ events' \in Seq(Event) /\ Head(events) \in Event /\ Head(events) = events[1]
         /\ Head(events).kind = kind /\ 1 \in DOMAIN events /\ thread.at = "waits"
         /\ Len(events') = Len(events) - 1
         /\ \A i \in DOMAIN events' : i + 1 \in DOMAIN events /\ events'[i] = events[i + 1]
<1>1. events \in Seq(Event) /\ events # <<>> /\ events' = Tail(events)
  BY DEF ClipTypes, Next_, Taken
<1> QED BY <1>1, QueueTail DEF Next_

LEMMA FinishesTyped ==
  ASSUME ClipTypes, NEW found \in BOOLEAN, NEW text \in Text, FinishesRead(found, text)
  PROVE  /\ worker' \in Worker /\ WorkerHasText' /\ reading' = None
         /\ worker' = [worker EXCEPT !.answer = worker'.answer]
<1> DEFINE a == [found |-> found, text |-> text]
<1>1. a \in Answer /\ worker \in Worker /\ WorkerHasText
  BY DEF Answer, ClipTypes
<1>2. (worker' = [worker EXCEPT !.answer = a] \/ worker' = worker) /\ reading' = None
  BY DEF FinishesRead
<1> HIDE DEF a
<1>3. /\ [worker EXCEPT !.answer = a] \in Worker
      /\ [worker EXCEPT !.answer = a].at = worker.at
      /\ [worker EXCEPT !.answer = a].text = worker.text
      /\ [worker EXCEPT !.answer = a].answer = a
  BY <1>1 DEF Worker
<1>4. worker = [worker EXCEPT !.answer = worker.answer]
  BY <1>1 DEF Worker
<1> QED BY <1>1, <1>2, <1>3, <1>4 DEF WorkerHasText

LEMMA ThreadTakesTyped ==
  ClipTypes /\ (LosesSelection \/ MeetsRequest \/ MeetsLanded \/ MeetsStop) => ClipTypes'
<1> USE DEF ClipTypes, WorkerHasText, Server, Others, Shared, server_vars, app_vars, shared_vars,
            history, Turns
<1>1. ASSUME ClipTypes, LosesSelection PROVE ClipTypes'
  <2>1. events' \in Seq(Event)
    BY <1>1, TakenIs, Zenon DEF LosesSelection
  <2> QED BY <1>1, <2>1 DEF LosesSelection, ThreadIsTyped
<1>2. ASSUME ClipTypes, MeetsRequest PROVE ClipTypes'
  <2>1. events' \in Seq(Event) /\ Head(events) \in Event /\ Head(events).kind = "request"
    BY <1>2, TakenIs, Zenon DEF MeetsRequest
  <2>2. Head(events).app \in Apps /\ Head(events).ask \in Nat
    BY <2>1, EventFields, Zenon
  <2>3. ThreadIsTyped'
    BY <1>2, <2>2 DEF MeetsRequest, ThreadIsTyped
  <2> QED BY <1>2, <2>1, <2>3 DEF MeetsRequest
<1>3. ASSUME ClipTypes, MeetsLanded PROVE ClipTypes'
  <2>1. events' \in Seq(Event)
    BY <1>3, TakenIs, Zenon DEF MeetsLanded
  <2> QED BY <1>3, <2>1 DEF MeetsLanded, ThreadIsTyped, Waits
<1>4. ASSUME ClipTypes, MeetsStop PROVE ClipTypes'
  <2>1. events' \in Seq(Event)
    BY <1>4, TakenIs, Zenon DEF MeetsStop
  <2> QED BY <1>4, <2>1 DEF MeetsStop, ThreadIsTyped
<1> QED BY <1>1, <1>2, <1>3, <1>4, Zenon

LEMMA MeetsNotifyTyped == ClipTypes /\ MeetsNotify => ClipTypes'
<1> SUFFICES ASSUME ClipTypes, MeetsNotify PROVE ClipTypes'
  OBVIOUS
<1>1. events' \in Seq(Event)
  BY TakenIs, Zenon DEF MeetsNotify
<1>2. <<>> \in Text
  BY DEF Text
<1>3. worker' \in Worker /\ WorkerHasText' /\ reading' \in Reading \cup {None}
  BY <1>2, FinishesTyped DEF MeetsNotify, ClipTypes, WorkerHasText
<1>4. ThreadIsTyped'
  <2>1. thread' = [at |-> "take", then |-> "converted"] \/ thread' = thread
    BY DEF MeetsNotify, Turns
  <2>2. (thread' = [at |-> "take", then |-> "converted"]) => ThreadIsTyped'
    BY DEF ThreadIsTyped
  <2>3. (thread' = thread) => ThreadIsTyped'
    BY DEF ThreadIsTyped, ClipTypes
  <2> QED BY <2>1, <2>2, <2>3
<1> QED BY <1>1, <1>3, <1>4 DEF MeetsNotify, ClipTypes, Others, app_vars, history

LEMMA ToldTyped ==
  ASSUME ClipTypes, NEW app \in Apps, NEW ask, NEW found
  PROVE  Told(app, ask, found) \in [Apps -> Asked]
BY DEF ClipTypes, Told, Asked

LEMMA AnswersTyped == ClipTypes /\ Answers => ClipTypes'
<1> SUFFICES ASSUME ClipTypes, Answers PROVE ClipTypes'
  OBVIOUS
<1>1. thread.app \in Apps /\ thread.text \in Text \cup {None}
  BY DEF ClipTypes, ThreadIsTyped, Answers
<1>2. transfers' \in Seq(Transfer)
  BY <1>1, StartedIsTyped DEF Answers, ClipTypes
<1>3. <<>> \in Text
  BY DEF Text
<1>4. place' \in [Apps -> Value \cup {None}]
  <2> DEFINE text == [type |-> "text", parts |-> thread.text]
             incr == [type |-> "incr", parts |-> <<>>]
  <2>1. incr \in Value /\ (thread.text # None => text \in Value)
    BY <1>1, <1>3 DEF Value
  <2>2. \/ place' = place \/ place' = [place EXCEPT ![thread.app] = incr]
        \/ thread.text # None /\ place' = [place EXCEPT ![thread.app] = text]
    BY DEF Answers
  <2> HIDE DEF text, incr
  <2> QED BY <1>1, <2>1, <2>2 DEF ClipTypes
<1>5. asking' \in [Apps -> Asked]
  BY <1>1, ToldTyped DEF Answers
<1> QED BY <1>2, <1>4, <1>5 DEF Answers, ClipTypes, ThreadIsTyped, WorkerHasText, Turns, Waits,
             history

\* A part of a text is a text.
LEMMA PartIsText ==
  ASSUME NEW t \in Text, NEW i \in DOMAIN t
  PROVE  <<t[i]>> \in Text
BY DEF Text

LEMMA SendsPartTyped == ClipTypes /\ SendsPart => ClipTypes'
<1> SUFFICES ASSUME ClipTypes, SendsPart PROVE ClipTypes'
  OBVIOUS
<1>1. /\ events' \in Seq(Event) /\ Head(events).app \in Apps
  BY TakenIs, EventFields DEF SendsPart
<1>2. ASSUME NEW i \in Of(Head(events).app),
             place' = [place EXCEPT ![Head(events).app] =
               [type |-> "text",
                parts |-> IF transfers[i].sent = Len(transfers[i].text) THEN <<>>
                          ELSE <<NextPart(transfers[i])>>]],
             transfers' = IF transfers[i].sent = Len(transfers[i].text)
                          THEN SX!RemoveAt(transfers, i)
                          ELSE [transfers EXCEPT ![i].sent = @ + 1]
      PROVE  transfers' \in Seq(Transfer) /\ place' \in [Apps -> Value \cup {None}]
  <2> DEFINE t == transfers[i]
  <2>1. i \in DOMAIN transfers /\ transfers \in Seq(Transfer) /\ t \in Transfer
    BY DEF Of, ClipTypes
  <2>2. SX!RemoveAt(transfers, i) \in Seq(Transfer)
    BY <2>1, LeftOut, Zenon
  <2>3. ASSUME t.sent # Len(t.text)
        PROVE  [transfers EXCEPT ![i].sent = @ + 1] \in Seq(Transfer)
    <3> DEFINE n == t.sent + 1
               u == [t EXCEPT !.sent = n]
    <3>1. n \in Nat /\ n <= Len(t.text)
      BY <2>1, <2>3 DEF Transfer, Text
    <3> HIDE DEF n
    <3>2. u \in Transfer
      BY <2>1, <3>1 DEF Transfer
    <3>3. [transfers EXCEPT ![i].sent = @ + 1] = [transfers EXCEPT ![i] = u]
      BY <2>1 DEF n
    <3> HIDE DEF u
    <3>4. [transfers EXCEPT ![i] = u] \in Seq(Transfer)
      BY <2>1, <3>2
    <3> QED BY <3>3, <3>4
  <2>4. ASSUME t.sent # Len(t.text) PROVE <<NextPart(t)>> \in Text
    <3>1. t.sent + 1 \in DOMAIN t.text /\ t.text \in Text
      BY <2>1, <2>4 DEF Transfer, Text
    <3> QED BY <3>1, PartIsText, Zenon DEF NextPart
  <2>5. [type |-> "text",
         parts |-> IF t.sent = Len(t.text) THEN <<>> ELSE <<NextPart(t)>>] \in Value
    <3>1. <<>> \in Text
      BY DEF Text
    <3> QED BY <2>4, <3>1 DEF Value
  <2>6. place' \in [Apps -> Value \cup {None}]
    BY <1>2, <2>5 DEF ClipTypes
  <2> QED BY <1>2, <2>2, <2>3, <2>6
<1>3. transfers' \in Seq(Transfer) /\ place' \in [Apps -> Value \cup {None}]
  <2>1. CASE UNCHANGED <<place, transfers>>
    BY <2>1 DEF ClipTypes
  <2> QED BY <1>2, <2>1 DEF SendsPart
<1> QED BY <1>1, <1>3 DEF SendsPart, ClipTypes, ThreadIsTyped, WorkerHasText, Others, app_vars,
             history

LEMMA TakesLandedTyped == ClipTypes /\ TakesLanded => ClipTypes'
<1> SUFFICES ASSUME ClipTypes, TakesLanded PROVE ClipTypes'
  OBVIOUS
<1>1. [type |-> "none", parts |-> <<>>] \in Value
  BY DEF Value, Text
<1>2. ThreadIsTyped'
  BY <1>1 DEF TakesLanded, ClipTypes, ThreadIsTyped, Turns
<1>3. sending' \in Seq(Sending)
  <2>1. sending \in Seq(Sending)
    BY DEF ClipTypes
  <2>2. ASSUME NEW n \in DOMAIN sending
        PROVE  (IF landing # None /\ sending[n].at = "sending"
                THEN [sending[n] EXCEPT !.deletes = @ + 1] ELSE sending[n]) \in Sending
    <3> DEFINE d == sending[n].deletes + 1
    <3>0. sending[n] \in Sending
      BY <2>1
    <3>1. sending[n] \in Sending /\ d \in Nat
      BY <3>0 DEF Sending
    <3> HIDE DEF d
    <3>2. [sending[n] EXCEPT !.deletes = d] \in Sending
      BY <3>1 DEF Sending
    <3> QED BY <3>1, <3>2 DEF d
  <2> DEFINE After(n) == IF landing # None /\ sending[n].at = "sending"
                         THEN [sending[n] EXCEPT !.deletes = @ + 1] ELSE sending[n]
  <2>3. sending' = [n \in 1 .. Len(sending) |-> After(n)] /\ Len(sending) \in Nat
    BY <2>1 DEF TakesLanded
  <2>4. \A n \in 1 .. Len(sending) : After(n) \in Sending
    BY <2>1, <2>2
  <2> HIDE DEF After
  <2> QED BY <2>3, <2>4
<1> QED BY <1>2, <1>3 DEF TakesLanded, ClipTypes, WorkerHasText, Shared, shared_vars, history

LEMMA ConvertedTyped == ClipTypes /\ Converted => ClipTypes'
<1> SUFFICES ASSUME ClipTypes, Converted PROVE ClipTypes'
  OBVIOUS
<1>1. thread.value.parts \in Text /\ <<>> \in Text
  BY DEF Converted, ClipTypes, ThreadIsTyped, Value, Text
<1>2. worker' \in Worker /\ WorkerHasText' /\ reading' \in Reading \cup {None}
  <2>1. CASE UNCHANGED worker /\ reading' = IF reading = None THEN None
                                            ELSE [reading EXCEPT !.got = <<>>]
    BY <1>1, <2>1 DEF ClipTypes, WorkerHasText, Reading
  <2> QED BY <1>1, <2>1, FinishesTyped DEF Converted
<1> QED BY <1>2 DEF Converted, ClipTypes, ThreadIsTyped, Turns, Waits, Server, server_vars,
             Others, app_vars, history

LEMMA ReceivesPartTyped == ClipTypes /\ ReceivesPart => ClipTypes'
<1> SUFFICES ASSUME ClipTypes, ReceivesPart PROVE ClipTypes'
  OBVIOUS
<1> DEFINE parts == thread.value.parts
<1>1. parts \in Text /\ <<>> \in Text
  BY DEF ReceivesPart, ClipTypes, ThreadIsTyped, Value, Text
<1>2. InParts => reading \in Reading /\ reading.got \in Text
  BY DEF InParts, ClipTypes, Reading
<1>3. InParts => reading.got \o parts \in Text
  BY <1>1, <1>2, ConcatProperties, Zenon DEF Text
<1>4. reading' \in Reading \cup {None} /\ ThreadIsTyped'
  <2>1. CASE ~InParts
    <3>1. thread' = Waits /\ reading' = reading
      BY <2>1 DEF ReceivesPart, Turns
    <3> QED BY <3>1 DEF ClipTypes, ThreadIsTyped, Waits
  <2>2. CASE InParts
    <3> DEFINE both == reading.got \o parts
    <3>1. \/ /\ reading' = [reading EXCEPT !.got = <<>>]
             /\ thread' = [at |-> "finish", found |-> TRUE, text |-> reading.got]
          \/ /\ reading' = [reading EXCEPT !.got = <<>>]
             /\ thread' = [at |-> "finish", found |-> FALSE, text |-> <<>>]
          \/ thread' = Waits /\ reading' = [reading EXCEPT !.got = both]
      BY <2>2 DEF ReceivesPart, Turns
    <3>2. both \in Text
      BY <1>3, <2>2
    <3> HIDE DEF both
    <3>3. reading \in Reading /\ reading.got \in Text
      BY <1>2, <2>2
    <3>4. [reading EXCEPT !.got = <<>>] \in Reading /\ [reading EXCEPT !.got = both] \in Reading
      BY <1>1, <3>2, <3>3 DEF Reading
    <3>5. ASSUME thread' = [at |-> "finish", found |-> TRUE, text |-> reading.got]
          PROVE  ThreadIsTyped'
      BY <3>3, <3>5 DEF ThreadIsTyped
    <3>6. ASSUME thread' = [at |-> "finish", found |-> FALSE, text |-> <<>>]
          PROVE  ThreadIsTyped'
      BY <1>1, <3>6 DEF ThreadIsTyped
    <3>7. ASSUME thread' = Waits PROVE ThreadIsTyped'
      BY <3>7 DEF ThreadIsTyped, Waits
    <3> QED BY <3>1, <3>4, <3>5, <3>6, <3>7
  <2> QED BY <2>1, <2>2
<1> QED BY <1>4 DEF ReceivesPart, ClipTypes, WorkerHasText, Server, server_vars, Others,
             app_vars, history

LEMMA ThreadEndsTyped == ClipTypes /\ (Finishes \/ Releases) => ClipTypes'
<1>1. ASSUME ClipTypes, Finishes PROVE ClipTypes'
  <2>1. thread.found \in BOOLEAN /\ thread.text \in Text
    BY <1>1 DEF ClipTypes, ThreadIsTyped, Finishes
  <2>2. worker' \in Worker /\ WorkerHasText' /\ reading' = None
    BY <1>1, <2>1, FinishesTyped DEF Finishes
  <2> QED BY <1>1, <2>2 DEF Finishes, ClipTypes, ThreadIsTyped, Turns, Waits, Server,
               server_vars, Others, app_vars, history
<1>2. ASSUME ClipTypes, Releases PROVE ClipTypes'
  BY <1>2 DEF Releases, ClipTypes, ThreadIsTyped, WorkerHasText, Turns, Shared, shared_vars,
              Others, app_vars, history
<1> QED BY <1>1, <1>2

LEMMA CopiesTyped == ASSUME NEW a \in Apps PROVE ClipTypes /\ Copies(a) => ClipTypes'
<1> SUFFICES ASSUME ClipTypes, Copies(a) PROVE ClipTypes'
  OBVIOUS
<1>1. events' \in Seq(Event)
  <2>1. events \in Seq(Event) /\ [kind |-> "clear"] \in Event
    BY EventsAre DEF ClipTypes
  <2>2. Append(events, [kind |-> "clear"]) \in Seq(Event)
    BY <2>1
  <2> QED BY <2>1, <2>2 DEF Copies
<1>2. holds' \in [Apps -> Copyable]
  BY DEF Copies, ClipTypes
<1> QED BY <1>1, <1>2 DEF Copies, ClipTypes, ThreadIsTyped, WorkerHasText, Shared, shared_vars,
             history

LEMMA AppAnswersTyped ==
  ASSUME ClipTypes, NEW n \in DOMAIN sending, AppAnswers(n) PROVE ClipTypes'
<1>1. sending[n] \in Sending /\ sending \in Seq(Sending) /\ events \in Seq(Event)
  BY DEF ClipTypes
<1>2. sending' \in Seq(Sending)
  <2>1. \E at \in {"over", "sending"} : sending' = [sending EXCEPT ![n].at = at]
    BY DEF AppAnswers
  <2>2. \A at \in {"over", "sending"} : [sending[n] EXCEPT !.at = at] \in Sending
    BY <1>1 DEF Sending
  <2>3. PICK at \in {"over", "sending"} : sending' = [sending EXCEPT ![n].at = at]
    BY <2>1
  <2> DEFINE u == [sending[n] EXCEPT !.at = at]
  <2>4. u \in Sending /\ sending' = [sending EXCEPT ![n] = u]
    BY <2>2, <2>3
  <2> HIDE DEF u
  <2> QED BY <1>1, <2>4
<1>3. events' \in Seq(Event)
  <2> DEFINE l == [kind |-> "landed"]
             t == [kind |-> "notify", found |-> TRUE]
             f == [kind |-> "notify", found |-> FALSE]
  <2>1. l \in Event /\ t \in Event /\ f \in Event
    BY EventsAre
  <2>2. events' = Append(events, f) \/ events' = Append(Append(events, l), t)
    BY <1>1, LandsAre DEF AppAnswers, Lands
  <2> HIDE DEF l, t, f
  <2>3. Append(events, f) \in Seq(Event) /\ Append(events, l) \in Seq(Event)
    BY <1>1, <2>1
  <2>4. Append(Append(events, l), t) \in Seq(Event)
    BY <2>1, <2>3
  <2> QED BY <2>2, <2>3, <2>4
<1>4. landing' \in Value \cup {None}
  <2>1. <<>> \in Text /\ Whole(sending[n].text) \in Text
    BY <1>1, WholeIsText DEF Sending, Text
  <2> DEFINE whole == [type |-> "text", parts |-> Whole(sending[n].text)]
             incr  == [type |-> "incr", parts |-> <<>>]
  <2>2. whole \in Value /\ incr \in Value
    BY <2>1 DEF Value
  <2>3. landing' = landing \/ landing' = whole \/ landing' = incr
    BY DEF AppAnswers, Lands
  <2> HIDE DEF whole, incr
  <2> QED BY <2>2, <2>3 DEF ClipTypes
<1> QED BY <1>2, <1>3, <1>4 DEF AppAnswers, Lands, ClipTypes, ThreadIsTyped, WorkerHasText,
             Shared, shared_vars, history

LEMMA AppSendsTyped ==
  ASSUME ClipTypes, NEW n \in DOMAIN sending, AppSends(n)
  PROVE  ClipTypes' /\ events' = Append(events, [kind |-> "landed"])
<1>1. sending[n] \in Sending /\ sending \in Seq(Sending) /\ events \in Seq(Event)
  BY DEF ClipTypes
<1> DEFINE s == sending[n]
           over == s.sent = Parts[s.text]
           l == [kind |-> "landed"]
<1>2. sending' \in Seq(Sending)
  <2> DEFINE d == s.deletes - 1
             k == IF over THEN s.sent ELSE s.sent + 1
             at == IF over THEN "over" ELSE s.at
             u == [s EXCEPT !.deletes = d, !.sent = k, !.at = at]
  <2>0. s.text \in Copyable /\ s.sent <= Parts[s.text] /\ s.sent \in Nat /\ s.deletes \in Nat
        /\ s.at = "sending"
    BY <1>1 DEF Sending, AppSends
  <2>7. Parts[s.text] \in Nat
    BY <2>0, ClipboardAssumption
  <2>8. s.deletes > 0
    BY DEF AppSends
  <2>1. d \in Nat /\ k \in Nat /\ k <= Parts[s.text] /\ at \in {"asked", "sending", "over"}
    BY <2>0, <2>7, <2>8
  <2>2. sending' = [sending EXCEPT ![n] = u]
    BY <1>1 DEF AppSends
  <2> HIDE DEF d, k, at
  <2>3. u \in Sending
    BY <1>1, <2>1 DEF Sending
  <2> HIDE DEF u, s
  <2> QED BY <1>1, <2>2, <2>3
<1>3. events' \in Seq(Event) /\ events' = Append(events, l)
  <2>1. l \in Event
    BY EventsAre
  <2>2. events' = Append(events, l)
    BY <1>1, LandsAre DEF AppSends, Lands
  <2> HIDE DEF l
  <2> QED BY <1>1, <2>1, <2>2
<1>4. landing' \in Value \cup {None}
  <2>0. s.text \in Copyable /\ s.sent <= Parts[s.text] /\ s.sent \in Nat
    BY <1>1 DEF Sending
  <2>7. Parts[s.text] \in Nat
    BY <2>0, ClipboardAssumption
  <2>1. ~over => s.sent + 1 \in 1 .. Parts[s.text] /\ s.text \in Copyable
    BY <2>0, <2>7
  <2>2. <<>> \in Text /\ (~over => <<<<s.text, s.sent + 1>>>> \in Text)
    BY <1>1, <2>1, WholeIsText DEF Sending, Text
  <2> QED BY <2>2 DEF AppSends, Lands, Value
<1> QED BY <1>2, <1>3, <1>4 DEF AppSends, Lands, ClipTypes, ThreadIsTyped, WorkerHasText,
             Shared, shared_vars, history

LEMMA AppAsksTyped == ASSUME NEW a \in Apps PROVE ClipTypes /\ AppAsks(a) => ClipTypes'
<1> SUFFICES ASSUME ClipTypes, AppAsks(a) PROVE ClipTypes'
  OBVIOUS
<1> DEFINE k == asking[a].ask + 1
           r == [at |-> "asked", ask |-> k, got |-> <<>>]
           e == [kind |-> "request", app |-> a, ask |-> k]
<1>1. asking \in [Apps -> Asked] /\ k \in Nat /\ <<>> \in Text /\ events \in Seq(Event)
  BY DEF ClipTypes, Asked, Text
<1>2. asking' = [asking EXCEPT ![a] = r] /\ events' = Append(events, e)
  BY DEF AppAsks
<1> HIDE DEF k
<1>3. r \in Asked /\ e \in Event
  BY <1>1, EventsAre DEF Asked
<1> HIDE DEF r, e
<1>4. asking' \in [Apps -> Asked] /\ events' \in Seq(Event)
  BY <1>1, <1>2, <1>3
<1> QED BY <1>4 DEF AppAsks, ClipTypes, ThreadIsTyped, WorkerHasText, Shared, shared_vars,
             history

LEMMA AppTakesTyped == ASSUME NEW a \in Apps PROVE ClipTypes /\ AppTakes(a) => ClipTypes'
<1> SUFFICES ASSUME ClipTypes, AppTakes(a) PROVE ClipTypes'
  OBVIOUS
<1> DEFINE got == asking[a].got \o place[a].parts
           e == [kind |-> "deleted", app |-> a]
<1>1. /\ asking \in [Apps -> Asked] /\ asking[a].got \in Text /\ place[a].parts \in Text
      /\ events \in Seq(Event) /\ e \in Event /\ place \in [Apps -> Value \cup {None}]
  BY EventsAre DEF ClipTypes, Asked, AppTakes, Value
<1>2. got \in Text
  BY <1>1, ConcatProperties, Zenon DEF Text
<1>3. /\ \E at \in {"done", "taking"} : asking' = [asking EXCEPT ![a].got = got, ![a].at = at]
      /\ place' = [place EXCEPT ![a] = None]
      /\ (events' = Append(events, e)) \/ (events' = events)
  BY DEF AppTakes
<1> HIDE DEF got, e
<1>4. \A at \in {"done", "taking"} :
        [asking EXCEPT ![a].got = got, ![a].at = at] \in [Apps -> Asked]
  BY <1>1, <1>2 DEF Asked
<1>5. asking' \in [Apps -> Asked] /\ place' \in [Apps -> Value \cup {None}]
  BY <1>1, <1>3, <1>4
<1>6. events' \in Seq(Event)
  BY <1>1, <1>3
<1> QED BY <1>5, <1>6 DEF AppTakes, ClipTypes, ThreadIsTyped, WorkerHasText, Shared,
             shared_vars, history

LEMMA AppForgetsTyped == ASSUME NEW a \in Apps PROVE ClipTypes /\ AppForgets(a) => ClipTypes'
<1> SUFFICES ASSUME ClipTypes, AppForgets(a) PROVE ClipTypes'
  OBVIOUS
<1>1. asking' \in [Apps -> Asked]
  <2> DEFINE r == [asking[a] EXCEPT !.at = "idle", !.got = <<>>]
  <2>1. asking \in [Apps -> Asked] /\ asking[a] \in Asked /\ <<>> \in Text
    BY DEF ClipTypes, Text
  <2>2. r \in Asked /\ asking' = [asking EXCEPT ![a] = r]
    BY <2>1 DEF Asked, AppForgets
  <2> HIDE DEF r
  <2> QED BY <2>1, <2>2
<1> QED BY <1>1 DEF AppForgets, ClipTypes, ThreadIsTyped, WorkerHasText, Server, server_vars,
             Shared, shared_vars, history

\* What an application has of its answer, where nothing of it changes.
LEMMA AskerFrame ==
  ASSUME ClipTypes, ClipTypes', NEW b \in Apps, AskerInv(b), NEW d \in Nat,
         asking'[b] = asking[b], place'[b] = place[b], put \subseteq put',
         \A i \in DOMAIN events' : Asks(events'[i], b) \/ Deletes(events'[i], b) =>
           i + d \in DOMAIN events /\ events'[i] = events[i + d],
         thread'.at = "answer" /\ thread'.app = b => thread' = thread,
         \A i \in Of(b)' : \E j \in Of(b) : transfers'[i] = transfers[j]
  PROVE  AskerInv(b)'
<1>1. DOMAIN events \subseteq Nat /\ DOMAIN events' \subseteq Nat
  BY DEF ClipTypes
<1>2. \A i \in DOMAIN events' :
        /\ Asks(events'[i], b) => /\ i + d \in DOMAIN events /\ Asks(events[i + d], b)
                                  /\ events[i + d].ask = events'[i].ask
        /\ Deletes(events'[i], b) => i + d \in DOMAIN events /\ Deletes(events[i + d], b)
  OBVIOUS
<1>3. (NoneAsked(b) => NoneAsked(b)') /\ (NoneDeleted(b) => NoneDeleted(b)')
  BY <1>2 DEF NoneAsked, NoneDeleted, Asks, Deletes
<1>4. AskedInOrder(b)'
  BY <1>1, <1>2 DEF AskedInOrder, AskerInv, Asks
<1>5. AskedIsClean(b)'
  <2> SUFFICES ASSUME asking[b].at = "asked"
               PROVE  /\ asking[b].got = <<>>
                      /\ \A i, j \in DOMAIN events' :
                           Deletes(events'[i], b) /\ Asks(events'[j], b)
                             /\ events'[j].ask = asking[b].ask => i < j
                      /\ thread'.at = "answer" /\ thread'.app = b /\ thread'.ask = asking[b].ask
                           => NoneDeleted(b)'
    BY DEF AskedIsClean, Asks, Deletes
  <2>1. /\ asking[b].got = <<>>
        /\ \A i, j \in DOMAIN events :
             Deletes(events[i], b) /\ Asks(events[j], b) /\ events[j].ask = asking[b].ask => i < j
        /\ thread.at = "answer" /\ thread.app = b /\ thread.ask = asking[b].ask => NoneDeleted(b)
    BY DEF AskedIsClean, AskerInv
  <2>2. ASSUME NEW i \in DOMAIN events', NEW j \in DOMAIN events', Deletes(events'[i], b),
               Asks(events'[j], b), events'[j].ask = asking[b].ask
        PROVE  i < j
    <3>1. i + d < j + d
      BY <1>2, <2>1, <2>2
    <3> QED BY <1>1, <3>1
  <2>3. ASSUME thread'.at = "answer", thread'.app = b, thread'.ask = asking[b].ask
        PROVE  NoneDeleted(b)'
    BY <1>3, <2>1, <2>3
  <2> QED BY <2>1, <2>2, <2>3
<1>6. ToldIsStart(b)'
  <2> SUFFICES ASSUME asking'[b].at = "told" PROVE ToldIsStart(b)'
    BY DEF ToldIsStart
  <2>1. /\ NoneAsked(b) /\ NoneDeleted(b) /\ asking[b].got = <<>> /\ place[b] # None
        /\ \/ place[b].type = "text" /\ place[b].parts \in put
           \/ /\ place[b].type = "incr" /\ place[b].parts = <<>>
              /\ \A i \in Of(b) : transfers[i].sent = 0
    BY DEF ToldIsStart, AskerInv
  <2>2. (\A i \in Of(b) : transfers[i].sent = 0) => \A i \in Of(b)' : transfers'[i].sent = 0
    OBVIOUS
  <2> QED BY <1>3, <2>1, <2>2 DEF ToldIsStart
<1>7. TakingIsPart(b)'
  <2> SUFFICES ASSUME asking'[b].at = "taking" PROVE TakingIsPart(b)'
    BY DEF TakingIsPart
  <2>1. /\ NoneAsked(b)
        /\ \A i, j \in DOMAIN events : Deletes(events[i], b) /\ Deletes(events[j], b) => i = j
        /\ place[b] # None =>
             /\ NoneDeleted(b)
             /\ place[b].parts = <<>> => asking[b].got \in put
             /\ place[b].parts # <<>> => \A i \in Of(b) :
                  Begins(asking[b].got \o place[b].parts, transfers[i].text, transfers[i].sent)
        /\ place[b] = None => \A i \in Of(b) :
             Begins(asking[b].got, transfers[i].text, transfers[i].sent)
    BY DEF TakingIsPart, AskerInv
  <2>2. \A i, j \in DOMAIN events' : Deletes(events'[i], b) /\ Deletes(events'[j], b) => i = j
    <3>1. \A i, j \in DOMAIN events' :
            Deletes(events'[i], b) /\ Deletes(events'[j], b) => i + d = j + d
      BY <1>2, <2>1
    <3> QED BY <1>1, <3>1
  <2>3. ASSUME NEW got, \A i \in Of(b) : Begins(got, transfers[i].text, transfers[i].sent)
        PROVE  \A i \in Of(b)' : Begins(got, transfers'[i].text, transfers'[i].sent)
    BY <2>3
  <2>4. place[b] # None /\ place[b].parts # <<>> => \A i \in Of(b)' :
          Begins(asking[b].got \o place[b].parts, transfers'[i].text, transfers'[i].sent)
    BY <2>1, <2>3
  <2>5. place[b] = None => \A i \in Of(b)' :
          Begins(asking[b].got, transfers'[i].text, transfers'[i].sent)
    BY <2>1, <2>3
  <2>6. place[b] # None =>
          NoneDeleted(b)' /\ (place[b].parts = <<>> => asking[b].got \in put')
    BY <1>3, <2>1
  <2>7. NoneAsked(b)'
    BY <1>3, <2>1
  <2> DEFINE x == asking'[b]
             p == place'[b]
  <2>8. /\ p # None =>
             /\ NoneDeleted(b)'
             /\ p.parts = <<>> => x.got \in put'
             /\ p.parts # <<>> => \A i \in Of(b)' :
                  Begins(x.got \o p.parts, transfers'[i].text, transfers'[i].sent)
        /\ p = None => \A i \in Of(b)' : Begins(x.got, transfers'[i].text, transfers'[i].sent)
    <3>1. x = asking[b] /\ p = place[b]
      OBVIOUS
    <3> HIDE DEF x, p
    <3> QED BY <2>4, <2>5, <2>6, <3>1, Zenon
  <2> QED BY <2>2, <2>7, <2>8, Zenon DEF TakingIsPart, Deletes, Begins
<1>8. DoneIsWhole(b)'
  BY DEF DoneIsWhole, AskerInv
<1> QED BY <1>4, <1>5, <1>6, <1>7, <1>8 DEF AskerInv

LEMMA AnswersKept ==
  ASSUME ClipTypes, ClipTypes', AnswerInv, UNCHANGED <<transfers, asking, place>>,
         put \subseteq put', owned' = None \/ owned' \in put',
         thread'.at = "answer" => thread' = thread,
         NEW d \in Nat,
         \A i \in DOMAIN events' : events'[i].kind \in {"request", "deleted"} =>
           i + d \in DOMAIN events /\ events'[i] = events[i + d]
  PROVE  AnswerInv'
<1>1. ServesItsOwn'
  BY DEF AnswerInv, ServesItsOwn
<1>2. TransfersAreOfText'
  BY DEF AnswerInv, TransfersAreOfText
<1>3. ASSUME NEW b \in Apps PROVE AskerInv(b)'
  <2>1. \A i \in DOMAIN events' : Asks(events'[i], b) \/ Deletes(events'[i], b) =>
          i + d \in DOMAIN events /\ events'[i] = events[i + d]
    BY DEF Asks, Deletes
  <2>2. \A i \in Of(b)' : \E j \in Of(b) : transfers'[i] = transfers[j]
    BY DEF Of
  <2>3. AskerInv(b) /\ asking'[b] = asking[b] /\ place'[b] = place[b]
    BY DEF AnswerInv
  <2> QED BY <2>1, <2>2, <2>3, AskerFrame
<1> QED BY <1>1, <1>2, <1>3 DEF AnswerInv

\* What a queue is with one more behind the others.
LEMMA OneBehind ==
  ASSUME NEW q \in Seq(Event), NEW e \in Event, NEW i \in DOMAIN Append(q, e)
  PROVE  \/ i \in DOMAIN q /\ i <= Len(q) /\ Append(q, e)[i] = q[i]
         \/ i = Len(q) + 1 /\ Append(q, e)[i] = e
BY QueueAppend

LEMMA KeptBehind ==
  ASSUME ClipTypes, NEW e \in Event, events' = Append(events, e),
         e.kind \notin {"request", "deleted"}
  PROVE  \A i \in DOMAIN events' : events'[i].kind \in {"request", "deleted"} =>
           i + 0 \in DOMAIN events /\ events'[i] = events[i + 0]
<1>1. events \in Seq(Event)
  BY DEF ClipTypes
<1>2. ASSUME NEW i \in DOMAIN events', events'[i].kind \in {"request", "deleted"}
      PROVE  i \in DOMAIN events /\ events'[i] = events[i]
  BY <1>1, <1>2, OneBehind
<1>3. \A i \in DOMAIN events : i + 0 = i
  BY <1>1
<1> QED BY <1>2, <1>3

LEMMA WorkerAnswers == ClipTypes /\ ClipTypes' /\ AnswerInv /\ WorkerNext => AnswerInv'
<1> SUFFICES ASSUME ClipTypes, ClipTypes', AnswerInv, WorkerNext PROVE AnswerInv'
  OBVIOUS
<1> USE DEF Server, Others, Shared, server_vars, app_vars, shared_vars, history, Goes
<1>1. UNCHANGED <<transfers, asking, place, thread>>
  BY DEF WorkerNext, StartPaste, ReadsItsOwn, Converts, Hears, GivesUpReading, ClearsReading,
         PutsText, ClaimsSelection, ProvesOwner, Restores, Stops
<1>2. put \subseteq put' /\ (owned' = None \/ owned' \in put')
  <2>1. owned = None \/ owned \in put
    BY DEF AnswerInv, ServesItsOwn
  <2> QED BY <2>1 DEF WorkerNext, StartPaste, ReadsItsOwn, Converts, Hears, GivesUpReading,
         ClearsReading, PutsText, ClaimsSelection, ProvesOwner, Restores, Stops
<1>3. \/ events' = events \/ events' = Append(events, [kind |-> "notify", found |-> FALSE])
      \/ events' = Append(events, [kind |-> "stop"])
  BY DEF WorkerNext, StartPaste, ReadsItsOwn, Converts, Hears, GivesUpReading, ClearsReading,
         PutsText, ClaimsSelection, ProvesOwner, Restores, Stops
<1>4. \A i \in DOMAIN events' : events'[i].kind \in {"request", "deleted"} =>
        i + 0 \in DOMAIN events /\ events'[i] = events[i + 0]
  <2>1. CASE events' = events
    <3>1. \A i \in DOMAIN events : i + 0 = i
      BY DEF ClipTypes
    <3> QED BY <2>1, <3>1
  <2>2. CASE events' = Append(events, [kind |-> "notify", found |-> FALSE])
    <3> DEFINE e == [kind |-> "notify", found |-> FALSE]
    <3>1. e \in Event /\ e.kind = "notify" /\ events' = Append(events, e)
      BY <2>2, EventsAre
    <3> HIDE DEF e
    <3> QED BY <3>1, KeptBehind
  <2>3. CASE events' = Append(events, [kind |-> "stop"])
    <3> DEFINE e == [kind |-> "stop"]
    <3>1. e \in Event /\ e.kind = "stop" /\ events' = Append(events, e)
      BY <2>3, EventsAre
    <3> HIDE DEF e
    <3> QED BY <3>1, KeptBehind
  <2> QED BY <1>3, <2>1, <2>2, <2>3
<1> QED BY <1>1, <1>2, <1>4, AnswersKept

\* The thread does something else than answer, on its own or told to.
LEMMA ThreadAnswersKept ==
  ClipTypes /\ ClipTypes' /\ AnswerInv
    /\ (LosesSelection \/ MeetsNotify \/ MeetsLanded \/ MeetsStop \/ TakesLanded \/ Converted
          \/ ReceivesPart \/ Finishes \/ Releases) => AnswerInv'
<1> SUFFICES ASSUME ClipTypes, ClipTypes', AnswerInv,
                    \/ LosesSelection \/ MeetsNotify \/ MeetsLanded \/ MeetsStop \/ TakesLanded
                    \/ Converted \/ ReceivesPart \/ Finishes \/ Releases
             PROVE  AnswerInv'
  OBVIOUS
<1> USE DEF Server, Others, Shared, server_vars, app_vars, shared_vars, history, Turns
<1>1. UNCHANGED <<transfers, asking, place, put>>
  BY DEF LosesSelection, MeetsNotify, MeetsLanded, MeetsStop, TakesLanded, Converted, ReceivesPart,
         Finishes, Releases
<1>2. owned' = None \/ owned' \in put'
  <2>1. owned' = None \/ owned' = owned
    BY DEF LosesSelection, MeetsNotify, MeetsLanded, MeetsStop, TakesLanded, Converted,
     ReceivesPart,
           Finishes, Releases
  <2> QED BY <1>1, <2>1 DEF AnswerInv, ServesItsOwn
<1>3. thread'.at = "answer" => thread' = thread
  <2>1. \/ thread' = thread \/ thread' = Waits
        \/ \E at \in {"release", "ended"} : thread' = [at |-> at]
        \/ \E then \in {"converted", "chunk"} : thread' = [at |-> "take", then |-> then]
        \/ \E found \in BOOLEAN : \E text :
             thread' = [at |-> "finish", found |-> found, text |-> text]
        \/ thread.at = "take" /\ \E value : thread' = [at |-> thread.then, value |-> value]
    <3>1. LosesSelection => thread' = thread
      BY DEF LosesSelection
    <3>2. MeetsNotify => thread' = thread \/ thread' = [at |-> "take", then |-> "converted"]
      BY DEF MeetsNotify
    <3>3. MeetsLanded => thread' = Waits \/ thread' = [at |-> "take", then |-> "chunk"]
      BY DEF MeetsLanded
    <3>4. MeetsStop \/ Releases => \E at \in {"release", "ended"} : thread' = [at |-> at]
      BY DEF MeetsStop, Releases
    <3>5. Converted \/ Finishes => thread' = Waits
      BY DEF Converted, Finishes
    <3>6. ReceivesPart => \/ thread' = Waits
            \/ \E found \in BOOLEAN : \E text :
                 thread' = [at |-> "finish", found |-> found, text |-> text]
      BY DEF ReceivesPart
    <3>7. TakesLanded =>
            thread.at = "take" /\ \E value : thread' = [at |-> thread.then, value |-> value]
      BY DEF TakesLanded
    <3> QED BY <3>1, <3>2, <3>3, <3>4, <3>5, <3>6, <3>7
  <2>2. thread.at = "take" => thread.then # "answer"
    BY DEF ClipTypes, ThreadIsTyped
  <2> QED BY <2>1, <2>2 DEF Waits
<1>4. CASE events' = events
  <2>1. \A i \in DOMAIN events' : events'[i].kind \in {"request", "deleted"} =>
          i + 0 \in DOMAIN events /\ events'[i] = events[i + 0]
    BY <1>4 DEF ClipTypes
  <2> QED BY <1>1, <1>2, <1>3, <2>1, AnswersKept
<1>5. CASE LosesSelection \/ MeetsNotify \/ MeetsLanded \/ MeetsStop
  <2>1. \A i \in DOMAIN events' : events'[i].kind \in {"request", "deleted"} =>
          i + 1 \in DOMAIN events /\ events'[i] = events[i + 1]
    BY <1>5, TakenIs DEF LosesSelection, MeetsNotify, MeetsLanded, MeetsStop
  <2> QED BY <1>1, <1>2, <1>3, <2>1, AnswersKept
<1> QED BY <1>4, <1>5 DEF TakesLanded, Converted, ReceivesPart, Finishes, Releases

LEMMA AppsAnswersKept ==
  ASSUME ClipTypes, ClipTypes', AnswerInv,
         \/ \E a \in Apps : Copies(a)
         \/ \E n \in DOMAIN sending : AppAnswers(n) \/ AppSends(n)
  PROVE  AnswerInv'
<1> USE DEF Shared, shared_vars, history, Lands
<1>1. /\ UNCHANGED <<transfers, asking, place, put, owned, thread>>
      /\ owned' = None \/ owned' \in put'
  BY DEF Copies, AppAnswers, AppSends, AnswerInv, ServesItsOwn
<1> DEFINE l == [kind |-> "landed"]
           c == [kind |-> "clear"]
           n(f) == [kind |-> "notify", found |-> f]
<1>2. /\ l \in Event /\ c \in Event /\ \A f \in BOOLEAN : n(f) \in Event /\ n(f).kind = "notify"
      /\ l.kind = "landed" /\ c.kind = "clear" /\ events \in Seq(Event)
  BY EventsAre DEF ClipTypes
<1>3. \/ events' = events \/ events' = Append(events, c)
      \/ \E f \in BOOLEAN : events' = Append(events, n(f))
      \/ events' = Append(events, l)
      \/ \E f \in BOOLEAN : events' = Append(Append(events, l), n(f))
  <2>1. CASE \E a \in Apps : Copies(a)
    BY <2>1 DEF Copies
  <2>2. CASE \E m \in DOMAIN sending : AppAnswers(m)
    BY <1>2, <2>2, LandsAre DEF AppAnswers
  <2>3. CASE \E m \in DOMAIN sending : AppSends(m)
    BY <1>2, <2>3, LandsAre DEF AppSends
  <2> QED BY <2>1, <2>2, <2>3
<1> HIDE DEF l, c, n
<1>4. \A i \in DOMAIN events' : events'[i].kind \in {"request", "deleted"} =>
        i \in DOMAIN events /\ events'[i] = events[i]
  <2>1. ASSUME NEW e \in Event, NEW g \in Event, events' = Append(Append(events, e), g),
               NEW i \in DOMAIN events', events'[i].kind \in {"request", "deleted"},
               e.kind \notin {"request", "deleted"}, g.kind \notin {"request", "deleted"}
        PROVE  i \in DOMAIN events /\ events'[i] = events[i]
    <3>1. Append(events, e) \in Seq(Event)
      BY <1>2, <2>1, QueueAppend, Zenon
    <3>2. i \in DOMAIN Append(events, e) /\ events'[i] = Append(events, e)[i]
      BY <2>1, <3>1, OneBehind
    <3> QED BY <1>2, <2>1, <3>2, OneBehind
  <2>2. ASSUME NEW e \in Event, events' = Append(events, e),
               NEW i \in DOMAIN events', events'[i].kind \in {"request", "deleted"},
               e.kind \notin {"request", "deleted"}
        PROVE  i \in DOMAIN events /\ events'[i] = events[i]
    BY <1>2, <2>2, OneBehind
  <2> QED BY <1>2, <1>3, <2>1, <2>2
<1>5. \A i \in DOMAIN events : i + 0 = i
  BY <1>2
<1>6. \A i \in DOMAIN events' : events'[i].kind \in {"request", "deleted"} =>
        i + 0 \in DOMAIN events /\ events'[i] = events[i + 0]
  BY <1>4, <1>5
<1> QED BY <1>1, <1>6, AnswersKept

LEMMA MeetsRequestAnswers ==
  ClipTypes /\ ClipTypes' /\ AnswerInv /\ MeetsRequest => AnswerInv'
<1> SUFFICES ASSUME ClipTypes, ClipTypes', AnswerInv, MeetsRequest PROVE AnswerInv'
  OBVIOUS
<1> DEFINE e == events[1]
<1>1. /\ e.kind = "request" /\ 1 \in DOMAIN events /\ thread.at = "waits"
      /\ \A i \in DOMAIN events' : i + 1 \in DOMAIN events /\ events'[i] = events[i + 1]
      /\ thread' = [at |-> "answer", app |-> e.app, ask |-> e.ask, text |-> owned]
  BY TakenIs DEF MeetsRequest, Turns
<1>2. UNCHANGED <<transfers, asking, place, put, owned>>
  BY DEF MeetsRequest, Shared, shared_vars, Others, app_vars, history
<1>3. ServesItsOwn' /\ TransfersAreOfText'
  BY <1>1, <1>2 DEF AnswerInv, ServesItsOwn, TransfersAreOfText
<1>4. ASSUME NEW b \in Apps, e.app # b PROVE AskerInv(b)'
  <2>1. AskerInv(b) /\ asking'[b] = asking[b] /\ place'[b] = place[b] /\ put \subseteq put'
    BY <1>2 DEF AnswerInv
  <2>2. ~(thread'.at = "answer" /\ thread'.app = b)
    BY <1>1, <1>4
  <2>3. \A i \in Of(b)' : \E j \in Of(b) : transfers'[i] = transfers[j]
    BY <1>2 DEF Of
  <2> QED BY <1>1, <2>1, <2>2, <2>3, AskerFrame
<1>5. ASSUME NEW b \in Apps, e.app = b PROVE AskerInv(b)'
  <2>1. /\ AskedInOrder(b) /\ AskedIsClean(b) /\ ToldIsStart(b) /\ TakingIsPart(b)
        /\ DoneIsWhole(b)
    BY DEF AnswerInv, AskerInv
  <2>2. Asks(e, b) /\ DOMAIN events \subseteq Nat /\ DOMAIN events' \subseteq Nat
    BY <1>1, <1>5 DEF Asks, ClipTypes
  <2>3. asking[b].at \notin {"told", "taking"}
    BY <1>1, <2>1, <2>2 DEF ToldIsStart, TakingIsPart, NoneAsked
  <2>4. AskedInOrder(b)'
    <3>1. /\ \A i \in DOMAIN events : Asks(events[i], b) => events[i].ask <= asking[b].ask
          /\ \A i, j \in DOMAIN events :
               Asks(events[i], b) /\ Asks(events[j], b) /\ i < j => events[i].ask < events[j].ask
      BY <2>1 DEF AskedInOrder
    <3>2. \A i \in DOMAIN events' : Asks(events'[i], b) =>
            /\ events'[i].ask <= asking[b].ask
            /\ \A j \in DOMAIN events' :
                 Asks(events'[j], b) /\ i < j => events'[i].ask < events'[j].ask
      <4>1. \A i, j \in DOMAIN events' : i < j => i + 1 < j + 1
        BY <2>2
      <4> QED BY <1>1, <3>1, <4>1
    <3>3. e.ask <= asking[b].ask
      BY <1>1, <2>2, <3>1
    <3>4. \A i \in DOMAIN events' : Asks(events'[i], b) => e.ask < events'[i].ask
      <4>1. \A i \in DOMAIN events' : 1 < i + 1
        BY <2>2, <1>1 DEF ClipTypes
      <4> QED BY <1>1, <2>2, <3>1, <4>1
    <3> QED BY <1>1, <1>2, <3>2, <3>3, <3>4 DEF AskedInOrder, Asks
  <2>5. AskedIsClean(b)'
    <3> SUFFICES ASSUME asking[b].at = "asked" PROVE AskedIsClean(b)'
      BY <1>2 DEF AskedIsClean
    <3>1. /\ asking[b].got = <<>>
          /\ \A i, j \in DOMAIN events :
               Deletes(events[i], b) /\ Asks(events[j], b) /\ events[j].ask = asking[b].ask => i < j
      BY <2>1 DEF AskedIsClean
    <3>2. ASSUME NEW i \in DOMAIN events', NEW j \in DOMAIN events', Deletes(events'[i], b),
                 Asks(events'[j], b), events'[j].ask = asking[b].ask
          PROVE  i < j
      <4>1. i + 1 < j + 1
        BY <1>1, <3>1, <3>2
      <4> QED BY <2>2, <4>1
    <3>3. ASSUME e.ask = asking[b].ask, NEW i \in DOMAIN events', Deletes(events'[i], b)
          PROVE  FALSE
      <4>1. i + 1 < 1 /\ i \in 1 .. Len(events')
        BY <1>1, <2>2, <3>1, <3>3 DEF ClipTypes
      <4> QED BY <4>1
    <3> QED BY <1>1, <1>2, <3>1, <3>2, <3>3 DEF AskedIsClean, NoneDeleted, Asks, Deletes
  <2>6. ToldIsStart(b)' /\ TakingIsPart(b)' /\ DoneIsWhole(b)'
    BY <1>2, <2>1, <2>3 DEF ToldIsStart, TakingIsPart, DoneIsWhole
  <2> QED BY <2>4, <2>5, <2>6 DEF AskerInv
<1> QED BY <1>3, <1>4, <1>5 DEF AnswerInv

\* Each application has one entry at most.
Apart(q) == \A i, j \in DOMAIN q : q[i].app = q[j].app => i = j

LEMMA LeftOutApart ==
  ASSUME NEW q \in Seq(Transfer), Apart(q), NEW i \in DOMAIN q
  PROVE  /\ Apart(SX!RemoveAt(q, i))
         /\ \A n \in DOMAIN SX!RemoveAt(q, i) :
              \E m \in DOMAIN q : SX!RemoveAt(q, i)[n] = q[m] /\ m # i
<1> DEFINE r == SX!RemoveAt(q, i)
           At(n) == IF n < i THEN n ELSE n + 1
<1>1. /\ r \in Seq(Transfer) /\ Len(q) \in Nat \ {0} /\ Len(r) = Len(q) - 1
      /\ \A n \in 1 .. Len(q) - 1 : r[n] = q[At(n)]
  BY LeftOut
<1>2. i \in 1 .. Len(q) /\ DOMAIN q = 1 .. Len(q)
  OBVIOUS
<1> HIDE DEF r
<1>3. DOMAIN r = 1 .. Len(q) - 1
  BY <1>1
<1>4. \A n \in DOMAIN r : At(n) \in DOMAIN q /\ At(n) # i /\ r[n] = q[At(n)]
  BY <1>1, <1>2, <1>3
<1>5. \A m, n \in DOMAIN r : At(m) = At(n) => m = n
  BY <1>1, <1>2, <1>3
<1> HIDE DEF At
<1> QED BY <1>4, <1>5 DEF Apart, r

LEMMA TailApart ==
  ASSUME NEW q \in Seq(Transfer), Apart(q), q # <<>>
  PROVE  /\ Apart(Tail(q)) /\ Tail(q) \in Seq(Transfer)
         /\ \A n \in DOMAIN Tail(q) : \E m \in DOMAIN q : Tail(q)[n] = q[m]
<1> DEFINE r == Tail(q)
<1>1. r \in Seq(Transfer) /\ \A i \in DOMAIN r : i + 1 \in DOMAIN q /\ r[i] = q[i + 1]
  BY QueueTail
<1> HIDE DEF r
<1>2. \A m, n \in DOMAIN r : m + 1 = n + 1 => m = n
  BY <1>1
<1> QED BY <1>1, <1>2 DEF Apart, r

LEMMA StartedIs ==
  ASSUME ClipTypes, TransfersAreOfText, NEW app \in Apps, NEW text \in Text
  PROVE  /\ Apart(Started(app, text))
         /\ \A n \in DOMAIN Started(app, text) :
              \/ Started(app, text)[n] = [app |-> app, text |-> text, sent |-> 0]
              \/ \E m \in DOMAIN transfers :
                   Started(app, text)[n] = transfers[m] /\ transfers[m].app # app
<1> DEFINE rest == Without(app)
           new  == [app |-> app, text |-> text, sent |-> 0]
           kept == IF Len(rest) >= MaxTransfers THEN Tail(rest) ELSE rest
<1>1. transfers \in Seq(Transfer) /\ Apart(transfers) /\ rest \in Seq(Transfer)
  BY WithoutIsTyped DEF ClipTypes, TransfersAreOfText, Apart
<1>2. Apart(rest) /\ \A n \in DOMAIN rest :
        \E m \in DOMAIN transfers : rest[n] = transfers[m] /\ transfers[m].app # app
  <2>1. CASE Of(app) = {}
    BY <1>1, <2>1 DEF Without, Of
  <2>2. CASE Of(app) # {}
    <3> DEFINE i == CHOOSE i \in Of(app) : TRUE
    <3>1. i \in Of(app)
      BY <2>2
    <3> HIDE DEF i
    <3>2. i \in DOMAIN transfers /\ transfers[i].app = app
      BY <3>1 DEF Of
    <3>3. rest = SX!RemoveAt(transfers, i)
      BY <2>2 DEF Without, i
    <3>4. \A m \in DOMAIN transfers : m # i => transfers[m].app # app
      BY <1>1, <3>2 DEF Apart
    <3> HIDE DEF rest
    <3> QED BY <1>1, <3>2, <3>3, <3>4, LeftOutApart
  <2> QED BY <2>1, <2>2
<1> HIDE DEF rest
<1>3. /\ Apart(kept) /\ kept \in Seq(Transfer)
      /\ \A n \in DOMAIN kept :
           \E m \in DOMAIN transfers : kept[n] = transfers[m] /\ transfers[m].app # app
  <2>1. CASE Len(rest) >= MaxTransfers
    <3>1. rest # <<>>
      BY <2>1, ClipboardAssumption
    <3> QED BY <1>1, <1>2, <2>1, <3>1, TailApart
  <2>2. CASE ~(Len(rest) >= MaxTransfers)
    BY <1>1, <1>2, <2>2
  <2> QED BY <2>1, <2>2
<1> HIDE DEF kept
<1>4. new \in Transfer /\ new.app = app
  BY DEF Transfer, Text
<1> HIDE DEF new
<1> DEFINE all == Append(kept, new)
<1>5. \A n \in DOMAIN all : \/ n = Len(kept) + 1 /\ all[n] = new
                            \/ n \in DOMAIN kept /\ n <= Len(kept) /\ all[n] = kept[n]
  BY <1>3, <1>4, QueueAppend
<1> HIDE DEF all
<1>6. \A n \in DOMAIN kept : kept[n].app # app
  BY <1>3
<1>7. Apart(all)
  BY <1>3, <1>4, <1>5, <1>6 DEF Apart
<1>8. \A n \in DOMAIN all : all[n] = new
        \/ \E m \in DOMAIN transfers : all[n] = transfers[m] /\ transfers[m].app # app
  BY <1>3, <1>5
<1>9. Started(app, text) = all
  BY DEF Started, all, kept, rest, new
<1> QED BY <1>7, <1>8, <1>9 DEF new

\* Nothing that was told of, or is being taken, is the answer the thread is at.
LEMMA AnswersAnswers ==
  ClipTypes /\ ClipTypes' /\ AnswerInv /\ Answers => AnswerInv'
<1> SUFFICES ASSUME ClipTypes, ClipTypes', AnswerInv, Answers PROVE AnswerInv'
  OBVIOUS
<1>0. thread.at = "answer" /\ thread.app \in Apps /\ thread.ask \in Nat
  BY DEF ClipTypes, ThreadIsTyped, Answers
<1>8. PICK app \in Apps, ask \in Nat : app = thread.app /\ ask = thread.ask
  BY <1>0
<1>9. PICK text : text = thread.text
  OBVIOUS
<1>1. /\ text = None \/ (text \in put /\ text \in Text)
      /\ thread.at = "answer" /\ thread'.at = "waits"
      /\ thread.app = app /\ thread.ask = ask /\ thread.text = text
  BY <1>0, <1>8, <1>9 DEF ClipTypes, Answers, Turns, Waits, AnswerInv, ServesItsOwn
<1>2. /\ UNCHANGED <<events, owned, put>>
      /\ asking' = Told(app, ask, text # None)
      /\ \A b \in Apps : b # app => asking'[b] = asking[b] /\ place'[b] = place[b]
  BY <1>1 DEF Answers, history, Told, ClipTypes
<1>3. \/ transfers' = transfers
      \/ text # None /\ transfers' = Started(app, text)
  BY <1>1 DEF Answers
<1>4. /\ Apart(transfers')
      /\ \A n \in DOMAIN transfers' :
           \/ text # None /\ transfers'[n] = [app |-> app, text |-> text, sent |-> 0]
           \/ \E m \in DOMAIN transfers : transfers'[n] = transfers[m]
  <2>1. CASE transfers' = transfers
    BY <2>1 DEF AnswerInv, TransfersAreOfText, Apart
  <2>2. CASE text # None /\ transfers' = Started(app, text)
    BY <1>1, <2>2, StartedIs DEF AnswerInv
  <2> QED BY <1>3, <2>1, <2>2
<1>5. ServesItsOwn' /\ TransfersAreOfText'
  <2>1. ServesItsOwn'
    BY <1>1, <1>2 DEF AnswerInv, ServesItsOwn
  <2>2. ASSUME NEW n \in DOMAIN transfers' PROVE transfers'[n].text \in put'
    <3>1. CASE text # None /\ transfers'[n] = [app |-> app, text |-> text, sent |-> 0]
      BY <1>1, <1>2, <3>1
    <3>2. CASE \E m \in DOMAIN transfers : transfers'[n] = transfers[m]
      BY <1>2, <3>2 DEF AnswerInv, TransfersAreOfText
    <3> QED BY <1>4, <3>1, <3>2
  <2> QED BY <1>4, <2>1, <2>2 DEF TransfersAreOfText, Apart
<1>6. ASSUME NEW b \in Apps, b # app PROVE AskerInv(b)'
  <2>1. \A i \in Of(b)' : \E j \in Of(b) : transfers'[i] = transfers[j]
    <3>1. ASSUME NEW i \in Of(b)' PROVE \E j \in Of(b) : transfers'[i] = transfers[j]
      <4>1. i \in DOMAIN transfers' /\ transfers'[i].app = b
        BY <3>1 DEF Of
      <4>2. PICK j \in DOMAIN transfers : transfers'[i] = transfers[j]
        BY <1>4, <1>6, <4>1
      <4> QED BY <4>1, <4>2 DEF Of
    <3> QED BY <3>1
  <2>2. \A i \in DOMAIN events' : i + 0 \in DOMAIN events /\ events'[i] = events[i + 0]
    BY <1>2 DEF ClipTypes
  <2>3. AskerInv(b) /\ asking'[b] = asking[b] /\ place'[b] = place[b] /\ put \subseteq put'
    BY <1>2, <1>6 DEF AnswerInv
  <2>4. ~(thread'.at = "answer" /\ thread'.app = b)
    BY <1>1
  <2> QED BY <2>1, <2>2, <2>3, <2>4, AskerFrame
<1>7. AskerInv(app)'
  <2> DEFINE told == asking[app].at = "asked" /\ asking[app].ask = ask
  <2>1. /\ AskedInOrder(app) /\ AskedIsClean(app) /\ ToldIsStart(app) /\ TakingIsPart(app)
        /\ DoneIsWhole(app)
    BY <1>1 DEF AnswerInv, AskerInv
  <2>2. asking[app].at \notin {"told", "taking"}
    BY <1>1, <2>1 DEF ToldIsStart, TakingIsPart, NoneAsked
  <2>3. /\ asking'[app].ask = asking[app].ask /\ asking'[app].got = asking[app].got
        /\ told => asking'[app].at = IF text # None THEN "told" ELSE "idle"
        /\ ~told => asking'[app].at = asking[app].at
    BY <1>1, <1>2 DEF Told, ClipTypes, Asked
  <2>4. AskedInOrder(app)'
    BY <1>1, <1>2, <2>1, <2>3 DEF AskedInOrder, Asks
  <2>5. AskedIsClean(app)'
    <3> SUFFICES ASSUME asking'[app].at = "asked" PROVE AskedIsClean(app)'
      BY DEF AskedIsClean
    <3>1. asking[app].at = "asked"
      BY <2>3
    <3> QED BY <1>1, <1>2, <2>1, <2>3, <3>1 DEF AskedIsClean, Asks, Deletes
  <2>6. TakingIsPart(app)' /\ DoneIsWhole(app)'
    BY <1>2, <2>1, <2>2, <2>3 DEF TakingIsPart, DoneIsWhole
  <2>7. ToldIsStart(app)'
    <3> SUFFICES ASSUME asking'[app].at = "told" PROVE ToldIsStart(app)'
      BY DEF ToldIsStart
    <3>1. told /\ text # None
      BY <2>2, <2>3
    <3>2. NoneDeleted(app) /\ asking[app].got = <<>>
      BY <1>1, <2>1, <3>1 DEF AskedIsClean
    <3>3. \A i \in DOMAIN events : ~Asks(events[i], app)
      <4>1. ASSUME NEW i \in DOMAIN events, Asks(events[i], app) PROVE FALSE
        <5>1. ask < events[i].ask /\ events[i].ask <= ask /\ events[i].ask \in Nat
          BY <1>1, <2>1, <3>1, <4>1, EventFields DEF AskedInOrder, Asks, ClipTypes
        <5> QED BY <1>1, <5>1
      <4> QED BY <4>1
    <3>4. NoneAsked(app)' /\ NoneDeleted(app)' /\ asking'[app].got = <<>>
      BY <1>1, <1>2, <2>3, <3>2, <3>3 DEF NoneAsked, NoneDeleted, Asks, Deletes
    <3>5. CASE Len(text) <= 1
      <4>1. place'[app] = [type |-> "text", parts |-> text]
        BY <1>1, <3>1, <3>5 DEF Answers, ClipTypes, Text
      <4>2. [type |-> "text", parts |-> text] \in Value
        BY <1>1, <3>1 DEF Value
      <4>3. place'[app] # None
        BY <4>1, <4>2, NoneIsNothing
      <4> QED BY <1>1, <1>2, <3>1, <3>4, <4>1, <4>3 DEF ToldIsStart
    <3>6. CASE Len(text) > 1
      <4>1. place'[app] = [type |-> "incr", parts |-> <<>>] /\ transfers' = Started(app, text)
        BY <1>1, <3>1, <3>6 DEF Answers, ClipTypes, Text
      <4>2. [type |-> "incr", parts |-> <<>>] \in Value
        BY DEF Value, Text
      <4>3. place'[app] # None
        BY <4>1, <4>2, NoneIsNothing
      <4>4. \A i \in Of(app)' : transfers'[i].sent = 0
        <5>1. ASSUME NEW i \in Of(app)' PROVE transfers'[i].sent = 0
          <6>1. i \in DOMAIN transfers' /\ transfers'[i].app = app
            BY <5>1 DEF Of
          <6>2. transfers'[i] = [app |-> app, text |-> text, sent |-> 0]
            BY <1>1, <3>1, <4>1, <6>1, StartedIs DEF AnswerInv
          <6> QED BY <6>2
        <5> QED BY <5>1
      <4> QED BY <3>4, <4>1, <4>3, <4>4 DEF ToldIsStart
    <3>7. Len(text) \in Nat
      BY <1>1, <3>1 DEF Text
    <3> QED BY <3>5, <3>6, <3>7
  <2> QED BY <2>4, <2>5, <2>6, <2>7 DEF AskerInv
<1> QED BY <1>1, <1>5, <1>6, <1>7 DEF AnswerInv

\* One part more of what is taken.
LEMMA BeginsWithNext ==
  ASSUME NEW got \in Text, NEW t \in Text, NEW n \in Nat, Begins(got, t, n), n < Len(t)
  PROVE  Begins(got \o <<t[n + 1]>>, t, n + 1)
<1>1. /\ Len(got) = n /\ t[n + 1] \in (Copyable \cup Pasted) \X Nat
      /\ got \in Seq((Copyable \cup Pasted) \X Nat)
  BY DEF Begins, Text
<1> DEFINE p == t[n + 1]
           S == (Copyable \cup Pasted) \X Nat
<1>2. p \in S /\ got \in Seq(S)
  BY <1>1
<1> HIDE DEF p, S
<1>3. got \o <<p>> = Append(got, p) /\ Len(Append(got, p)) = Len(got) + 1
      /\ Append(got, p)[Len(got) + 1] = p /\ \A i \in 1 .. Len(got) : Append(got, p)[i] = got[i]
  BY <1>2
<1>4. \A i \in 1 .. n + 1 : Append(got, p)[i] = t[i]
  BY <1>1, <1>3 DEF Begins, p
<1> QED BY <1>1, <1>3, <1>4 DEF Begins, p

LEMMA BeginsWithAll ==
  ASSUME NEW got \in Text, NEW t \in Text, Begins(got, t, Len(t))
  PROVE  got = t
<1> DEFINE S == (Copyable \cup Pasted) \X Nat
<1>1. got \in Seq(S) /\ t \in Seq(S)
  BY DEF Text
<1> HIDE DEF S
<1>2. Len(got) = Len(t) /\ \A i \in 1 .. Len(got) : got[i] = t[i]
  BY DEF Begins
<1> QED BY <1>1, <1>2, SeqEqual

LEMMA SendsPartAnswers ==
  ClipTypes /\ ClipTypes' /\ AnswerInv /\ SendsPart => AnswerInv'
<1> SUFFICES ASSUME ClipTypes, ClipTypes', AnswerInv, SendsPart PROVE AnswerInv'
  OBVIOUS
<1>0. /\ events[1] \in Event /\ events[1].kind = "deleted" /\ Head(events) = events[1]
      /\ 1 \in DOMAIN events /\ thread.at = "waits"
      /\ \A i \in DOMAIN events' : i + 1 \in DOMAIN events /\ events'[i] = events[i + 1]
  BY TakenIs DEF SendsPart
<1>1. PICK app \in Apps : app = events[1].app
  BY <1>0, EventFields
<1>2. UNCHANGED <<thread, asking, put, owned>>
  BY DEF SendsPart, Others, app_vars, history
<1>3. /\ transfers \in Seq(Transfer) /\ Apart(transfers) /\ place \in [Apps -> Value \cup {None}]
      /\ \A i, j \in Of(app) : i = j
  BY DEF ClipTypes, AnswerInv, TransfersAreOfText, Apart, Of
<1>4. \/ Of(app) = {} /\ UNCHANGED <<place, transfers>>
      \/ \E i \in Of(app) :
           /\ place' = [place EXCEPT ![app] = [type |-> "text",
                          parts |-> IF transfers[i].sent = Len(transfers[i].text) THEN <<>>
                                    ELSE <<NextPart(transfers[i])>>]]
           /\ transfers' = IF transfers[i].sent = Len(transfers[i].text)
                           THEN SX!RemoveAt(transfers, i)
                           ELSE [transfers EXCEPT ![i].sent = @ + 1]
  BY <1>0, <1>1 DEF SendsPart
<1>5. /\ Apart(transfers')
      /\ \A n \in DOMAIN transfers' : \E m \in DOMAIN transfers :
           /\ transfers'[n].app = transfers[m].app /\ transfers'[n].text = transfers[m].text
           /\ transfers[m].app # app => transfers'[n] = transfers[m]
  <2>1. CASE UNCHANGED transfers
    BY <1>3, <2>1
  <2>2. ASSUME NEW i \in Of(app), transfers' = SX!RemoveAt(transfers, i)
        PROVE  <1>5!1 /\ <1>5!2
    BY <1>3, <2>2, LeftOutApart DEF Of
  <2>3. ASSUME NEW i \in Of(app), transfers' = [transfers EXCEPT ![i].sent = @ + 1]
        PROVE  <1>5!1 /\ <1>5!2
    <3>1. /\ DOMAIN transfers' = DOMAIN transfers
          /\ \A n \in DOMAIN transfers : n # i => transfers'[n] = transfers[n]
          /\ transfers'[i].app = transfers[i].app /\ transfers'[i].text = transfers[i].text
          /\ i \in DOMAIN transfers /\ transfers[i].app = app
      BY <1>3, <2>3 DEF Of, Transfer
    <3> QED BY <1>3, <3>1 DEF Apart
  <2> QED BY <1>4, <2>1, <2>2, <2>3
<1>6. ServesItsOwn' /\ TransfersAreOfText'
  BY <1>2, <1>5 DEF AnswerInv, ServesItsOwn, TransfersAreOfText, Apart
<1>7. ASSUME NEW b \in Apps, b # app PROVE AskerInv(b)'
  <2>1. \A i \in Of(b)' : \E j \in Of(b) : transfers'[i] = transfers[j]
    BY <1>5, <1>7 DEF Of
  <2>2. AskerInv(b) /\ asking'[b] = asking[b] /\ place'[b] = place[b] /\ put \subseteq put'
    BY <1>2, <1>3, <1>4, <1>7 DEF AnswerInv
  <2> QED BY <1>0, <1>2, <2>1, <2>2, AskerFrame
<1>8. AskerInv(app)'
  <2>1. /\ AskedInOrder(app) /\ AskedIsClean(app) /\ ToldIsStart(app) /\ TakingIsPart(app)
        /\ DoneIsWhole(app) /\ Deletes(events[1], app)
    BY <1>0, <1>1 DEF AnswerInv, AskerInv, Deletes
  <2>2. asking[app].at # "told"
    BY <1>0, <2>1 DEF ToldIsStart, NoneDeleted
  <2>3. DOMAIN events \subseteq Nat /\ DOMAIN events' \subseteq Nat /\ 0 \notin DOMAIN events'
    BY DEF ClipTypes
  <2>4. (NoneAsked(app) => NoneAsked(app)')
        /\ \A i \in DOMAIN events' :
             /\ Asks(events'[i], app) => Asks(events[i + 1], app)
             /\ Deletes(events'[i], app) => Deletes(events[i + 1], app)
    BY <1>0, <1>2 DEF NoneAsked, Asks
  <2>5. AskedInOrder(app)'
    <3>1. /\ \A i \in DOMAIN events : Asks(events[i], app) =>
               /\ events[i].ask <= asking[app].ask
               /\ \A j \in DOMAIN events :
                    Asks(events[j], app) /\ i < j => events[i].ask < events[j].ask
      BY <2>1 DEF AskedInOrder
    <3>2. \A i, j \in DOMAIN events' : i < j => i + 1 < j + 1
      BY <2>3
    <3>3. \A i \in DOMAIN events' : Asks(events'[i], app) =>
            /\ events'[i].ask <= asking[app].ask
            /\ \A j \in DOMAIN events' :
                 Asks(events'[j], app) /\ i < j => events'[i].ask < events'[j].ask
      BY <1>0, <3>1, <3>2
    <3> QED BY <1>0, <1>2, <3>3 DEF AskedInOrder, Asks
  <2>6. AskedIsClean(app)'
    <3> SUFFICES ASSUME asking[app].at = "asked" PROVE AskedIsClean(app)'
      BY <1>2 DEF AskedIsClean
    <3>1. /\ asking[app].got = <<>>
          /\ \A i, j \in DOMAIN events :
               Deletes(events[i], app) /\ Asks(events[j], app) /\ events[j].ask = asking[app].ask
                 => i < j
      BY <2>1 DEF AskedIsClean
    <3>2. ASSUME NEW i \in DOMAIN events', NEW j \in DOMAIN events', Deletes(events'[i], app),
                 Asks(events'[j], app), events'[j].ask = asking[app].ask
          PROVE  i < j
      <4>1. i + 1 < j + 1
        BY <1>0, <3>1, <3>2
      <4> QED BY <2>3, <4>1
    <3> QED BY <1>0, <1>2, <3>1, <3>2 DEF AskedIsClean, Asks, Deletes
  <2>7. ToldIsStart(app)' /\ DoneIsWhole(app)'
    BY <1>2, <2>1, <2>2 DEF ToldIsStart, DoneIsWhole
  <2>8. TakingIsPart(app)'
    <3> SUFFICES ASSUME asking[app].at = "taking" PROVE TakingIsPart(app)'
      BY <1>2 DEF TakingIsPart
    <3>1. /\ NoneAsked(app) /\ place[app] = None
          /\ \A i, j \in DOMAIN events : Deletes(events[i], app) /\ Deletes(events[j], app) => i = j
          /\ \A i \in Of(app) : Begins(asking[app].got, transfers[i].text, transfers[i].sent)
      BY <1>0, <2>1 DEF TakingIsPart, NoneDeleted
    <3>2. NoneAsked(app)' /\ NoneDeleted(app)'
      <4>1. \A i \in DOMAIN events' : ~Deletes(events'[i], app)
        <5>1. ASSUME NEW i \in DOMAIN events', Deletes(events'[i], app) PROVE FALSE
          <6>1. i + 1 = 1
            BY <1>0, <2>1, <3>1, <5>1
          <6> QED BY <2>3, <6>1
        <5> QED BY <5>1
      <4> QED BY <2>4, <3>1, <4>1 DEF NoneDeleted, Deletes
    <3>3. CASE Of(app) = {}
      <4>1. UNCHANGED <<place, transfers>> /\ Of(app)' = {}
        BY <1>4, <3>3 DEF Of
      <4> QED BY <3>1, <3>2, <4>1 DEF TakingIsPart, NoneDeleted
    <3>4. ASSUME NEW i \in Of(app),
                 place' = [place EXCEPT ![app] = [type |-> "text",
                            parts |-> IF transfers[i].sent = Len(transfers[i].text) THEN <<>>
                                      ELSE <<NextPart(transfers[i])>>]],
                 transfers' = IF transfers[i].sent = Len(transfers[i].text)
                              THEN SX!RemoveAt(transfers, i)
                              ELSE [transfers EXCEPT ![i].sent = @ + 1]
          PROVE  TakingIsPart(app)'
      <4> DEFINE t == transfers[i]
                 got == asking[app].got
      <4>1. /\ t \in Transfer /\ t.text \in Text /\ t.sent \in Nat /\ t.sent <= Len(t.text)
            /\ Len(t.text) \in Nat /\ t.text \in put /\ got \in Text
            /\ Begins(got, t.text, t.sent) /\ i \in DOMAIN transfers /\ t.app = app
        <5>1. i \in DOMAIN transfers /\ t.app = app /\ t \in Transfer
          BY <1>3, <3>4 DEF Of
        <5>2. t.text \in Text /\ t.sent \in Nat /\ t.sent <= Len(t.text) /\ Len(t.text) \in Nat
          BY <5>1 DEF Transfer, Text
        <5>3. t.text \in put /\ got \in Text
          BY <5>1 DEF AnswerInv, TransfersAreOfText, ClipTypes, Asked
        <5>4. Begins(got, t.text, t.sent)
          BY <3>1, <3>4
        <5> QED BY <5>1, <5>2, <5>3, <5>4
      <4>2. CASE t.sent = Len(t.text)
        <5>1. place'[app].parts = <<>> /\ got = t.text
          BY <1>3, <3>4, <4>1, <4>2, BeginsWithAll
        <5>2. place'[app] # None
          <6>1. place'[app] = [type |-> "text", parts |-> <<>>]
            BY <1>3, <3>4, <4>2
          <6>2. [type |-> "text", parts |-> <<>>] \in Value
            BY DEF Value, Text
          <6> QED BY <6>1, <6>2, NoneIsNothing
        <5> QED BY <1>2, <3>2, <4>1, <5>1, <5>2 DEF TakingIsPart, NoneDeleted
      <4>3. CASE t.sent # Len(t.text)
        <5>1. t.sent < Len(t.text)
          BY <4>1, <4>3
        <5> DEFINE p == NextPart(t)
        <5>2. /\ place'[app] = [type |-> "text", parts |-> <<p>>]
              /\ transfers' = [transfers EXCEPT ![i].sent = @ + 1]
          BY <1>3, <3>4, <4>3
        <5>3. Begins(got \o <<p>>, t.text, t.sent + 1)
          BY <4>1, <5>1, BeginsWithNext DEF NextPart
        <5>4. <<p>> \in Text
          <6>1. t.sent + 1 \in DOMAIN t.text
            BY <4>1, <5>1 DEF Text
          <6> QED BY <4>1, <6>1, PartIsText DEF NextPart
        <5>5. /\ Of(app)' \subseteq {i} /\ transfers'[i].text = t.text
              /\ transfers'[i].sent = t.sent + 1
          <6>1. /\ DOMAIN transfers' = DOMAIN transfers
                /\ \A n \in DOMAIN transfers : transfers'[n].app = transfers[n].app
                /\ transfers'[i].text = t.text /\ transfers'[i].sent = t.sent + 1
            BY <1>3, <4>1, <5>2 DEF Transfer
          <6> QED BY <1>3, <4>1, <6>1 DEF Of, Apart
        <5> HIDE DEF p
        <5>6. place'[app] # None /\ place'[app].parts = <<p>> /\ <<p>> # <<>>
          <6>1. [type |-> "text", parts |-> <<p>>] \in Value
            BY <5>4 DEF Value
          <6> QED BY <5>2, <6>1, NoneIsNothing
        <5>7. \A n \in Of(app)' : Begins(got \o <<p>>, transfers'[n].text, transfers'[n].sent)
          BY <5>3, <5>5
        <5>8. asking'[app].got = got /\ asking'[app].got \o place'[app].parts = got \o <<p>>
          BY <1>2, <5>6
        <5>9. \A n \in Of(app)' :
                Begins(asking'[app].got \o place'[app].parts, transfers'[n].text,
                       transfers'[n].sent)
          BY <5>7, <5>8
        <5>10. \A m, n \in DOMAIN events' :
                 Deletes(events'[m], app) /\ Deletes(events'[n], app) => m = n
          BY <3>2 DEF NoneDeleted, Deletes
        <5> QED BY <3>2, <5>6, <5>9, <5>10, Zenon DEF TakingIsPart, Begins, Deletes
      <4> QED BY <4>2, <4>3
    <3> QED BY <1>4, <3>3, <3>4
  <2> QED BY <2>5, <2>6, <2>7, <2>8 DEF AskerInv
<1> QED BY <1>6, <1>7, <1>8 DEF AnswerInv

LEMMA AppAsksAnswers ==
  ASSUME ClipTypes, ClipTypes', AnswerInv, NEW a \in Apps, AppAsks(a)
  PROVE  AnswerInv'
<1> DEFINE k == asking[a].ask + 1
           e == [kind |-> "request", app |-> a, ask |-> k]
<1>1. /\ UNCHANGED <<thread, transfers, place, put, owned>> /\ asking[a].ask \in Nat
      /\ \A b \in Apps : b # a => asking'[b] = asking[b]
      /\ asking'[a].at = "asked" /\ asking'[a].ask = k /\ asking'[a].got = <<>>
      /\ events' = Append(events, e) /\ events \in Seq(Event)
  BY DEF AppAsks, Shared, shared_vars, history, ClipTypes, Asked
<1>2. e \in Event /\ e.kind = "request" /\ e.app = a /\ e.ask = k /\ k \in Nat
  BY <1>1, EventsAre
<1> HIDE DEF e
<1>3. \A i \in DOMAIN events' : \/ i \in DOMAIN events /\ i <= Len(events) /\ events'[i] = events[i]
                                \/ i = Len(events) + 1 /\ events'[i] = e
  BY <1>1, <1>2, OneBehind
<1>4. Len(events) \in Nat /\ DOMAIN events = 1 .. Len(events)
  BY <1>1
<1>5. ServesItsOwn' /\ TransfersAreOfText'
  BY <1>1 DEF AnswerInv, ServesItsOwn, TransfersAreOfText
<1>6. ASSUME NEW b \in Apps, b # a PROVE AskerInv(b)'
  <2>1. \A i \in DOMAIN events' : Asks(events'[i], b) \/ Deletes(events'[i], b) =>
          i + 0 \in DOMAIN events /\ events'[i] = events[i + 0]
    BY <1>2, <1>3, <1>4, <1>6 DEF Asks, Deletes
  <2>2. AskerInv(b) /\ asking'[b] = asking[b] /\ place'[b] = place[b] /\ put \subseteq put'
    BY <1>1, <1>6 DEF AnswerInv
  <2>3. \A i \in Of(b)' : \E j \in Of(b) : transfers'[i] = transfers[j]
    BY <1>1 DEF Of
  <2> QED BY <1>1, <2>1, <2>2, <2>3, AskerFrame
<1>7. AskerInv(a)'
  <2>1. AskedInOrder(a)
    BY DEF AnswerInv, AskerInv
  <2>2. \A i \in DOMAIN events : Asks(events[i], a) => events[i].ask \in Nat /\ events[i].ask < k
    <3>1. ASSUME NEW i \in DOMAIN events, Asks(events[i], a)
          PROVE  events[i].ask \in Nat /\ events[i].ask < k
      <4>1. events[i].ask \in Nat /\ events[i].ask <= asking[a].ask
        BY <1>1, <2>1, <3>1, EventFields DEF AskedInOrder, Asks
      <4> QED BY <1>1, <4>1
    <3> QED BY <3>1
  <2>3. thread.at = "answer" /\ thread.app = a => /\ thread.ask < k
          /\ \A i \in DOMAIN events : Asks(events[i], a) => thread.ask < events[i].ask
    <3>1. ASSUME thread.at = "answer", thread.app = a PROVE thread.ask < k
      <4>1. thread.ask <= asking[a].ask /\ thread.ask \in Nat
        BY <2>1, <3>1 DEF AskedInOrder, ClipTypes, ThreadIsTyped
      <4> QED BY <1>1, <4>1
    <3> QED BY <2>1, <3>1 DEF AskedInOrder
  <2>4. AskedInOrder(a)'
    <3>1. \A i, j \in DOMAIN events : Asks(events[i], a) /\ Asks(events[j], a) /\ i < j =>
            events[i].ask < events[j].ask
      BY <2>1 DEF AskedInOrder
    <3>2. \A i \in DOMAIN events' : Asks(events'[i], a) =>
            /\ events'[i].ask <= k
            /\ \A j \in DOMAIN events' :
                 Asks(events'[j], a) /\ i < j => events'[i].ask < events'[j].ask
      <4>1. ASSUME NEW i \in DOMAIN events', Asks(events'[i], a) PROVE events'[i].ask <= k
        BY <1>2, <1>3, <2>2, <4>1
      <4>2. ASSUME NEW i \in DOMAIN events', NEW j \in DOMAIN events', Asks(events'[i], a),
                   Asks(events'[j], a), i < j
            PROVE  events'[i].ask < events'[j].ask
        <5>1. i \in DOMAIN events /\ events'[i] = events[i]
          BY <1>3, <1>4, <4>2
        <5> QED BY <1>2, <1>3, <2>2, <3>1, <4>2, <5>1
      <4> QED BY <4>1, <4>2
    <3>3. thread'.at = "answer" /\ thread'.app = a => /\ thread'.ask <= k
            /\ \A i \in DOMAIN events' : Asks(events'[i], a) => thread'.ask < events'[i].ask
      <4>1. ASSUME thread.at = "answer", thread.app = a PROVE thread.ask \in Nat
        BY <4>1 DEF ClipTypes, ThreadIsTyped
      <4> QED BY <1>1, <1>2, <1>3, <2>3, <4>1
    <3> QED BY <1>1, <3>2, <3>3 DEF AskedInOrder, Asks
  <2>5. AskedIsClean(a)'
    <3>1. ASSUME NEW i \in DOMAIN events', NEW j \in DOMAIN events', Deletes(events'[i], a),
                 Asks(events'[j], a), events'[j].ask = k
          PROVE  i < j
      <4>1. j = Len(events) + 1
        BY <1>3, <2>2, <3>1, <1>2
      <4>2. i # Len(events) + 1
        BY <1>2, <1>3, <1>4, <3>1 DEF Deletes
      <4> QED BY <1>3, <1>4, <4>1, <4>2
    <3>2. thread.at = "answer" /\ thread.app = a => thread.ask # k
      BY <1>2, <2>3 DEF ClipTypes, ThreadIsTyped
    <3> QED BY <1>1, <3>1, <3>2 DEF AskedIsClean, Asks, Deletes
  <2>6. ToldIsStart(a)' /\ TakingIsPart(a)' /\ DoneIsWhole(a)'
    BY <1>1 DEF ToldIsStart, TakingIsPart, DoneIsWhole
  <2> QED BY <2>4, <2>5, <2>6 DEF AskerInv
<1> QED BY <1>5, <1>6, <1>7 DEF AnswerInv

LEMMA AppForgetsAnswers ==
  ASSUME ClipTypes, ClipTypes', AnswerInv, NEW a \in Apps, AppForgets(a)
  PROVE  AnswerInv'
<1>1. /\ UNCHANGED <<thread, transfers, place, put, owned, events>>
      /\ \A b \in Apps : b # a => asking'[b] = asking[b]
      /\ asking'[a].at = "idle" /\ asking'[a].ask = asking[a].ask
  BY DEF AppForgets, Shared, shared_vars, Server, server_vars, history, ClipTypes, Asked
<1>2. ServesItsOwn' /\ TransfersAreOfText'
  BY <1>1 DEF AnswerInv, ServesItsOwn, TransfersAreOfText
<1>3. ASSUME NEW b \in Apps, b # a PROVE AskerInv(b)'
  <2>1. \A i \in DOMAIN events' : i + 0 \in DOMAIN events /\ events'[i] = events[i + 0]
    BY <1>1 DEF ClipTypes
  <2>2. AskerInv(b) /\ asking'[b] = asking[b] /\ place'[b] = place[b] /\ put \subseteq put'
    BY <1>1, <1>3 DEF AnswerInv
  <2>3. \A i \in Of(b)' : \E j \in Of(b) : transfers'[i] = transfers[j]
    BY <1>1 DEF Of
  <2> QED BY <1>1, <2>1, <2>2, <2>3, AskerFrame
<1>4. AskedInOrder(a)'
  BY <1>1 DEF AskedInOrder, AnswerInv, AskerInv, Asks
<1>5. AskedIsClean(a)' /\ ToldIsStart(a)' /\ TakingIsPart(a)' /\ DoneIsWhole(a)'
  BY <1>1 DEF AskedIsClean, ToldIsStart, TakingIsPart, DoneIsWhole
<1> QED BY <1>2, <1>3, <1>4, <1>5 DEF AnswerInv, AskerInv

LEMMA AppTakesAnswers ==
  ASSUME ClipTypes, ClipTypes', AnswerInv, NEW a \in Apps, AppTakes(a)
  PROVE  AnswerInv'
<1> DEFINE e == [kind |-> "deleted", app |-> a]
<1>1. /\ UNCHANGED <<thread, transfers, put, owned>> /\ events \in Seq(Event)
      /\ \A b \in Apps : b # a => asking'[b] = asking[b] /\ place'[b] = place[b]
      /\ asking[a].at \in {"told", "taking"} /\ place[a] # None /\ place'[a] = None
      /\ events' = IF Of(a) # {} THEN Append(events, e) ELSE events
      /\ asking'[a].ask = asking[a].ask /\ asking'[a].got = asking[a].got \o place[a].parts
      /\ asking'[a].at = IF (IF asking[a].at = "told" THEN place[a].type = "text"
                             ELSE place[a].parts = <<>>) THEN "done" ELSE "taking"
  <2> DEFINE got == asking[a].got \o place[a].parts
             at  == IF (IF asking[a].at = "told" THEN place[a].type = "text"
                        ELSE place[a].parts = <<>>) THEN "done" ELSE "taking"
  <2>1. /\ asking' = [asking EXCEPT ![a].got = got, ![a].at = at]
        /\ place' = [place EXCEPT ![a] = None]
    BY DEF AppTakes
  <2>2. asking \in [Apps -> Asked] /\ asking[a] \in Asked /\ place \in [Apps -> Value \cup {None}]
    BY DEF ClipTypes
  <2>3. /\ UNCHANGED <<thread, transfers, put, owned>> /\ events \in Seq(Event)
        /\ asking[a].at \in {"told", "taking"} /\ place[a] # None
        /\ events' = IF Of(a) # {} THEN Append(events, e) ELSE events
    BY DEF AppTakes, Shared, shared_vars, history, ClipTypes
  <2> HIDE DEF got, at
  <2>4. /\ \A b \in Apps : b # a => asking'[b] = asking[b] /\ place'[b] = place[b]
        /\ asking'[a].ask = asking[a].ask /\ asking'[a].got = got /\ asking'[a].at = at
        /\ place'[a] = None
    BY <2>1, <2>2 DEF Asked
  <2> QED BY <2>3, <2>4 DEF got, at
<1>2. e \in Event /\ e.kind = "deleted" /\ e.app = a
  BY EventsAre
<1> HIDE DEF e
<1>3. Len(events) \in Nat /\ DOMAIN events = 1 .. Len(events)
  BY <1>1
<1>4. \A i \in DOMAIN events' : \/ i \in DOMAIN events /\ i <= Len(events) /\ events'[i] = events[i]
                                \/ i = Len(events) + 1 /\ events'[i] = e
  BY <1>1, <1>2, <1>3, OneBehind
<1>5. ServesItsOwn' /\ TransfersAreOfText'
  BY <1>1 DEF AnswerInv, ServesItsOwn, TransfersAreOfText
<1>6. ASSUME NEW b \in Apps, b # a PROVE AskerInv(b)'
  <2>1. \A i \in DOMAIN events' : Asks(events'[i], b) \/ Deletes(events'[i], b) =>
          i + 0 \in DOMAIN events /\ events'[i] = events[i + 0]
    BY <1>2, <1>3, <1>4, <1>6 DEF Asks, Deletes
  <2>2. AskerInv(b) /\ asking'[b] = asking[b] /\ place'[b] = place[b] /\ put \subseteq put'
    BY <1>1, <1>6 DEF AnswerInv
  <2>3. \A i \in Of(b)' : \E j \in Of(b) : transfers'[i] = transfers[j]
    BY <1>1 DEF Of
  <2> QED BY <1>1, <2>1, <2>2, <2>3, AskerFrame
<1>7. AskerInv(a)'
  <2>1. ToldIsStart(a) /\ TakingIsPart(a) /\ NoneAsked(a) /\ NoneDeleted(a)
    BY <1>1 DEF AnswerInv, AskerInv, ToldIsStart, TakingIsPart
  <2>2. NoneAsked(a)'
    BY <1>1, <1>2, <1>4, <2>1 DEF NoneAsked, Asks
  <2>3. AskedInOrder(a)'
    BY <2>2 DEF AskedInOrder, NoneAsked, Asks
  <2>4. AskedIsClean(a)' /\ ToldIsStart(a)'
    BY <1>1 DEF AskedIsClean, ToldIsStart
  <2>5. \A i, j \in DOMAIN events' : Deletes(events'[i], a) /\ Deletes(events'[j], a) => i = j
    <3>1. \A i \in DOMAIN events' : Deletes(events'[i], a) => i = Len(events) + 1
      BY <1>4, <2>1 DEF NoneDeleted
    <3> QED BY <3>1
  <2>6. asking[a].got \in Text /\ place[a].parts \in Text
    BY <1>1 DEF ClipTypes, Asked, Value
  <2>7. CASE asking[a].at = "told"
    <3>1. /\ asking[a].got = <<>>
          /\ \/ place[a].type = "text" /\ place[a].parts \in put
             \/ /\ place[a].type = "incr" /\ place[a].parts = <<>>
                /\ \A i \in Of(a) : transfers[i].sent = 0
      BY <2>1, <2>7 DEF ToldIsStart
    <3>2. asking'[a].got = place[a].parts
      BY <1>1, <2>6, <3>1 DEF Text
    <3>3. DoneIsWhole(a)'
      BY <1>1, <2>7, <3>1, <3>2 DEF DoneIsWhole
    <3>4. TakingIsPart(a)'
      <4> SUFFICES ASSUME asking'[a].at = "taking" PROVE TakingIsPart(a)'
        BY DEF TakingIsPart
      <4>1. asking'[a].got = <<>> /\ \A i \in Of(a) : transfers[i].sent = 0
        BY <1>1, <2>7, <3>1, <3>2
      <4>2. \A i \in Of(a)' : Begins(asking'[a].got, transfers'[i].text, transfers'[i].sent)
        <5>1. Of(a)' = Of(a)
          BY <1>1 DEF Of
        <5> QED BY <1>1, <4>1, <5>1 DEF Begins
      <4> QED BY <1>1, <2>2, <2>5, <4>2, Zenon DEF TakingIsPart, Deletes, Begins
    <3> QED BY <2>3, <2>4, <3>3, <3>4 DEF AskerInv
  <2>8. CASE asking[a].at = "taking"
    <3>1. /\ place[a].parts = <<>> => asking[a].got \in put
          /\ place[a].parts # <<>> => \A i \in Of(a) :
               Begins(asking[a].got \o place[a].parts, transfers[i].text, transfers[i].sent)
      BY <1>1, <2>1, <2>8 DEF TakingIsPart
    <3>2. DoneIsWhole(a)'
      <4> SUFFICES ASSUME asking'[a].at = "done" PROVE asking'[a].got \in put'
        BY DEF DoneIsWhole
      <4>1. place[a].parts = <<>>
        BY <1>1, <2>8
      <4>2. asking[a].got \o <<>> = asking[a].got
        BY <2>6 DEF Text
      <4> QED BY <1>1, <3>1, <4>1, <4>2
    <3>3. TakingIsPart(a)'
      <4> SUFFICES ASSUME asking'[a].at = "taking" PROVE TakingIsPart(a)'
        BY DEF TakingIsPart
      <4>1. place[a].parts # <<>>
        BY <1>1, <2>8
      <4>2. \A i \in Of(a)' : Begins(asking'[a].got, transfers'[i].text, transfers'[i].sent)
        <5>1. Of(a)' = Of(a)
          BY <1>1 DEF Of
        <5> QED BY <1>1, <3>1, <4>1, <5>1
      <4> QED BY <1>1, <2>2, <2>5, <4>2, Zenon DEF TakingIsPart, Deletes, Begins
    <3> QED BY <2>3, <2>4, <3>2, <3>3 DEF AskerInv
  <2> QED BY <1>1, <2>7, <2>8
<1> QED BY <1>5, <1>6, <1>7 DEF AnswerInv

LEMMA AnswerInit == ClipboardInit => AnswerInv
BY DEF ClipboardInit, AnswerInv, ServesItsOwn, TransfersAreOfText, AskerInv, AskedInOrder,
       AskedIsClean, ToldIsStart, TakingIsPart, DoneIsWhole, Waits

LEMMA AppsStep ==
  ASSUME AppsNext
  PROVE  \/ \E a \in Apps : Copies(a) \/ AppAsks(a) \/ AppTakes(a) \/ AppForgets(a)
         \/ \E n \in DOMAIN sending : AppAnswers(n) \/ AppSends(n)
BY DEF AppsNext

LEMMA ClipTypesNext == ClipTypes /\ [ClipboardNext]_vars => ClipTypes'
<1> SUFFICES ASSUME ClipTypes, [ClipboardNext]_vars PROVE ClipTypes'
  OBVIOUS
<1>1. CASE WorkerNext
  BY <1>1, StartPasteTyped, WorkerTyped, ConvertsTyped, StopsTyped, Zenon DEF WorkerNext
<1>2. CASE ThreadNext
  BY <1>2, ThreadTakesTyped, MeetsNotifyTyped, AnswersTyped, SendsPartTyped, TakesLandedTyped,
     ConvertedTyped, ReceivesPartTyped, ThreadEndsTyped, Zenon DEF ThreadNext
<1>3. CASE AppsNext
  BY <1>3, AppsStep, CopiesTyped, AppAsksTyped, AppTakesTyped, AppForgetsTyped, AppAnswersTyped,
     AppSendsTyped, Zenon
<1>4. CASE UNCHANGED vars
  BY <1>4 DEF ClipTypes, ThreadIsTyped, WorkerHasText, vars, server_vars, shared_vars, app_vars,
              history
<1> QED BY <1>1, <1>2, <1>3, <1>4 DEF ClipboardNext

LEMMA AnswerNext == ClipTypes /\ AnswerInv /\ [ClipboardNext]_vars => AnswerInv'
<1> SUFFICES ASSUME ClipTypes, AnswerInv, [ClipboardNext]_vars PROVE AnswerInv'
  OBVIOUS
<1>0. ClipTypes'
  BY ClipTypesNext
<1>1. CASE WorkerNext
  BY <1>0, <1>1, WorkerAnswers
<1>2. CASE ThreadNext
  BY <1>0, <1>2, ThreadAnswersKept, MeetsRequestAnswers, AnswersAnswers, SendsPartAnswers, Zenon
     DEF ThreadNext
<1>3. CASE AppsNext
  <2>1. CASE \/ \E a \in Apps : Copies(a)
             \/ \E n \in DOMAIN sending : AppAnswers(n) \/ AppSends(n)
    BY <1>0, <2>1, AppsAnswersKept
  <2>2. ASSUME NEW a \in Apps, AppAsks(a) \/ AppTakes(a) \/ AppForgets(a) PROVE AnswerInv'
    <3>1. CASE AppAsks(a)
      BY <1>0, <3>1, AppAsksAnswers
    <3>2. CASE AppTakes(a)
      BY <1>0, <3>2, AppTakesAnswers
    <3>3. CASE AppForgets(a)
      BY <1>0, <3>3, AppForgetsAnswers
    <3> QED BY <2>2, <3>1, <3>2, <3>3
  <2> QED BY <1>3, <2>1, <2>2, AppsStep
<1>4. CASE UNCHANGED vars
  <2>1. \A i \in DOMAIN events' : events'[i].kind \in {"request", "deleted"} =>
          i + 0 \in DOMAIN events /\ events'[i] = events[i + 0]
    BY <1>4 DEF ClipTypes, vars, server_vars
  <2>2. /\ UNCHANGED <<transfers, asking, place>> /\ put \subseteq put' /\ thread' = thread
        /\ owned' = None \/ owned' \in put'
    BY <1>4 DEF vars, server_vars, shared_vars, app_vars, history, AnswerInv, ServesItsOwn
  <2> QED BY <1>0, <2>1, <2>2, AnswersKept
<1> QED BY <1>1, <1>2, <1>3, <1>4 DEF ClipboardNext

\* Whatever transfers came between, whoever stopped waiting and asked again: what an application
\* read of compux (AppTakes) is one text compux served, whole.
THEOREM AnswersAreWholeAlways == ClipboardSpec => []AnswersAreWhole
<1>1. ClipboardInit => ClipTypes /\ AnswerInv
  BY ClipTypesInit, AnswerInit
<1>2. ClipTypes /\ AnswerInv /\ [ClipboardNext]_vars => (ClipTypes /\ AnswerInv)'
  BY ClipTypesNext, AnswerNext
<1>3. AnswerInv => AnswersAreWhole
  BY DEF AnswerInv, AskerInv, DoneIsWhole, AnswersAreWhole
<1> QED BY <1>1, <1>2, <1>3, PTL DEF ClipboardSpec

\* ---- the clipboard: reads ------------------------------------------------------------

Tidings == {"landed", "notify"}

\* The queue as the read sees it, and where nothing of that changes.
LEMMA TidingsKept ==
  ASSUME ClipTypes, ClipTypes', NEW d \in Nat,
         \A i \in DOMAIN events' : events'[i].kind \in Tidings =>
           i + d \in DOMAIN events /\ events'[i] = events[i + d],
         \A i \in DOMAIN events : events[i].kind \in Tidings =>
           \E j \in DOMAIN events' : j + d = i /\ events'[j] = events[i]
  PROVE  /\ NoneLanded => NoneLanded'
         /\ NoneNotified => NoneNotified'
         /\ OneLanded => OneLanded'
         /\ Announced => Announced'
         /\ NoneFound => NoneFound'
<1>1. DOMAIN events \subseteq Nat /\ DOMAIN events' \subseteq Nat
  BY DEF ClipTypes
<1>2. \A i \in DOMAIN events' : events'[i].kind \in Tidings =>
        /\ i + d \in DOMAIN events /\ events'[i].kind = events[i + d].kind
        /\ events'[i].found = events[i + d].found
  OBVIOUS
<1>3. \A i, j \in DOMAIN events' : i + d = j + d => i = j
  BY <1>1
<1>4. \A i, j \in DOMAIN events' : i + d < j + d => i < j
  BY <1>1
<1>5. (NoneLanded => NoneLanded') /\ (NoneNotified => NoneNotified') /\ (NoneFound => NoneFound')
  BY <1>2 DEF NoneLanded, NoneNotified, NoneFound, Tidings
<1>6. ASSUME OneLanded PROVE OneLanded'
  <2>1. PICK i \in DOMAIN events : \A j \in DOMAIN events : events[j].kind = "landed" <=> i = j
    BY <1>6 DEF OneLanded
  <2>2. PICK k \in DOMAIN events' : k + d = i /\ events'[k] = events[i]
    BY <2>1 DEF Tidings
  <2>3. \A j \in DOMAIN events' : events'[j].kind = "landed" <=> k = j
    BY <1>2, <1>3, <2>1, <2>2 DEF Tidings
  <2> QED BY <2>3 DEF OneLanded
<1>7. ASSUME Announced PROVE Announced'
  <2>1. PICK i \in DOMAIN events : \A j \in DOMAIN events :
          /\ events[j].kind = "notify" <=> i = j
          /\ events[j].kind = "landed" => j < i
    BY <1>7 DEF Announced
  <2>2. PICK k \in DOMAIN events' : k + d = i /\ events'[k] = events[i]
    BY <2>1 DEF Tidings
  <2>3. \A j \in DOMAIN events' : events'[j].kind = "notify" <=> k = j
    BY <1>2, <1>3, <2>1, <2>2 DEF Tidings
  <2>4. \A j \in DOMAIN events' : events'[j].kind = "landed" => j < k
    <3>1. ASSUME NEW j \in DOMAIN events', events'[j].kind = "landed" PROVE j < k
      <4>1. j + d < k + d
        BY <1>2, <2>1, <2>2, <3>1 DEF Tidings
      <4> QED BY <1>4, <4>1
    <3> QED BY <3>1
  <2>5. \A m, n \in DOMAIN events' :
          events'[m].kind = "landed" /\ events'[n].kind = "landed" => m = n
    BY <1>2, <1>3, <1>7 DEF Tidings, Announced
  <2>6. \A m \in DOMAIN events' : events'[m].kind = "notify" => events'[m].found
    BY <1>2, <1>7 DEF Tidings, Announced
  <2> QED BY <2>3, <2>4, <2>5, <2>6 DEF Announced
<1> QED BY <1>5, <1>6, <1>7

LEMMA TidingsBehind ==
  ASSUME ClipTypes, ClipTypes', NEW e \in Event, events' = Append(events, e)
  PROVE  /\ e.kind \notin Tidings =>
              /\ NoneLanded => NoneLanded'
              /\ NoneNotified => NoneNotified'
              /\ OneLanded => OneLanded'
              /\ Announced => Announced'
              /\ NoneFound => NoneFound'
         /\ e.kind = "landed" =>
              /\ NoneLanded => OneLanded'
              /\ NoneNotified => NoneNotified'
         /\ e.kind = "notify" =>
              /\ NoneLanded => NoneLanded'
              /\ NoneNotified /\ ~e.found => NoneFound'
<1>1. events \in Seq(Event) /\ Len(events) \in Nat /\ DOMAIN events = 1 .. Len(events)
      /\ DOMAIN events' = 1 .. Len(events) + 1 /\ events'[Len(events) + 1] = e
      /\ \A i \in DOMAIN events : events'[i] = events[i]
  BY QueueAppend DEF ClipTypes
<1>2. \A i \in DOMAIN events' : \/ i \in DOMAIN events /\ i <= Len(events) /\ events'[i] = events[i]
                                \/ i = Len(events) + 1 /\ events'[i] = e
  BY <1>1
<1>3. CASE e.kind \notin Tidings
  <2>1. \A i \in DOMAIN events' : events'[i].kind \in Tidings =>
          i + 0 \in DOMAIN events /\ events'[i] = events[i + 0]
    BY <1>1, <1>2, <1>3
  <2>2. \A i \in DOMAIN events : events[i].kind \in Tidings =>
          \E j \in DOMAIN events' : j + 0 = i /\ events'[j] = events[i]
    BY <1>1
  <2>3. e.kind # "landed" /\ e.kind # "notify"
    BY <1>3 DEF Tidings
  <2>4. /\ NoneLanded => NoneLanded'
        /\ NoneNotified => NoneNotified'
        /\ OneLanded => OneLanded'
        /\ Announced => Announced'
        /\ NoneFound => NoneFound'
    BY <2>1, <2>2, TidingsKept
  <2> QED BY <1>3, <2>3, <2>4
<1>4. ASSUME e.kind = "landed" PROVE (NoneLanded => OneLanded') /\ (NoneNotified => NoneNotified')
  <2>1. ASSUME NoneLanded
        PROVE  \A j \in DOMAIN events' : events'[j].kind = "landed" <=> Len(events) + 1 = j
    BY <1>1, <1>2, <1>4, <2>1 DEF NoneLanded
  <2>2. Len(events) + 1 \in DOMAIN events'
    BY <1>1
  <2> QED BY <1>2, <1>4, <2>1, <2>2 DEF OneLanded, NoneNotified
<1>5. ASSUME e.kind = "notify"
      PROVE  (NoneLanded => NoneLanded') /\ (NoneNotified /\ ~e.found => NoneFound')
  BY <1>2, <1>5 DEF NoneLanded, NoneNotified, NoneFound
<1> QED BY <1>3, <1>4, <1>5 DEF Tidings

LEMMA AnnouncedBehind ==
  ASSUME events \in Seq(Event), NoneLanded, NoneNotified,
         NEW l \in Event, NEW t \in Event, l.kind = "landed", t.kind = "notify", t.found,
         events' = Append(Append(events, l), t)
  PROVE  Announced'
<1> DEFINE q == Append(events, l)
           n == Len(events)
<1>1. n \in Nat /\ DOMAIN events = 1 .. n /\ q \in Seq(Event) /\ Len(q) = n + 1
      /\ q[n + 1] = l /\ \A i \in DOMAIN events : q[i] = events[i]
  BY QueueAppend
<1> HIDE DEF q
<1>2. DOMAIN events' = 1 .. n + 2 /\ events'[n + 2] = t /\ \A i \in 1 .. n + 1 : events'[i] = q[i]
  BY <1>1, QueueAppend DEF q
<1>3. \A i \in DOMAIN events' : \/ i \in 1 .. n /\ events'[i] = events[i]
                                \/ i = n + 1 /\ events'[i] = l
                                \/ i = n + 2 /\ events'[i] = t
  BY <1>1, <1>2
<1> HIDE DEF n
<1>4. \A j \in DOMAIN events' : (events'[j].kind = "notify" <=> n + 2 = j)
        /\ (events'[j].kind = "landed" => j = n + 1) /\ (events'[j].kind = "landed" => j < n + 2)
  BY <1>1, <1>3 DEF NoneLanded, NoneNotified
<1>5. n + 2 \in DOMAIN events'
  BY <1>1, <1>2
<1>6. \A j \in DOMAIN events' : events'[j].kind = "notify" => events'[j].found
  BY <1>2, <1>4
<1>7. \A i, j \in DOMAIN events' :
        events'[i].kind = "landed" /\ events'[j].kind = "landed" => i = j
  BY <1>4
<1> QED BY <1>4, <1>5, <1>6, <1>7 DEF Announced

\* The thread takes what the read does not look at; what landed; what was said.
LEMMA TidingsTaken ==
  ASSUME ClipTypes, ClipTypes', NEW kind, Next_(kind), Taken
  PROVE  /\ kind \notin Tidings =>
              /\ NoneLanded => NoneLanded'
              /\ NoneNotified => NoneNotified'
              /\ OneLanded => OneLanded'
              /\ Announced => Announced'
              /\ NoneFound => NoneFound'
         /\ kind = "landed" =>
              /\ ~NoneLanded /\ (OneLanded => NoneLanded')
              /\ NoneNotified => NoneNotified'
              /\ Announced => Announced'
         /\ kind = "notify" =>
              /\ ~NoneNotified /\ (NoneLanded => NoneLanded')
              /\ Announced => NoneLanded' /\ NoneNotified' /\ Head(events).found
              /\ NoneFound => NoneFound' /\ ~Head(events).found
<1>1. /\ events \in Seq(Event) /\ events # <<>> /\ events' = Tail(events) /\ events[1].kind = kind
      /\ Head(events) = events[1] /\ Len(events) \in Nat \ {0} /\ Len(events') = Len(events) - 1
      /\ \A i \in DOMAIN events' : events'[i] = events[i + 1]
      /\ events' \in Seq(Event)
  <2>1. events \in Seq(Event) /\ events # <<>> /\ events' = Tail(events)
    BY DEF ClipTypes, Next_, Taken
  <2> QED BY <2>1, QueueTail DEF Next_
<1>2. /\ DOMAIN events = 1 .. Len(events) /\ DOMAIN events' = 1 .. Len(events) - 1
      /\ 1 \in DOMAIN events
      /\ \A i \in DOMAIN events' : i + 1 \in DOMAIN events /\ i + 1 # 1 /\ i \in Nat
      /\ \A i \in DOMAIN events : i = 1 \/ (i - 1 \in DOMAIN events' /\ (i - 1) + 1 = i)
  BY <1>1
<1>3. ASSUME kind \notin Tidings
      PROVE  /\ NoneLanded => NoneLanded'
             /\ NoneNotified => NoneNotified'
             /\ OneLanded => OneLanded'
             /\ Announced => Announced'
             /\ NoneFound => NoneFound'
  <2>1. \A i \in DOMAIN events' : events'[i].kind \in Tidings =>
          i + 1 \in DOMAIN events /\ events'[i] = events[i + 1]
    BY <1>1, <1>2
  <2>2. \A i \in DOMAIN events : events[i].kind \in Tidings =>
          \E j \in DOMAIN events' : j + 1 = i /\ events'[j] = events[i]
    <3>1. ASSUME NEW i \in DOMAIN events, events[i].kind \in Tidings
          PROVE  \E j \in DOMAIN events' : j + 1 = i /\ events'[j] = events[i]
      <4>1. i # 1
        BY <1>1, <1>3, <3>1
      <4>2. i - 1 \in DOMAIN events' /\ (i - 1) + 1 = i
        BY <1>2, <4>1
      <4>3. events'[i - 1] = events[i]
        BY <1>1, <4>2
      <4> QED BY <4>2, <4>3
    <3> QED BY <3>1
  <2> QED BY <2>1, <2>2, TidingsKept
<1>4. ASSUME kind = "landed"
      PROVE  /\ ~NoneLanded /\ (OneLanded => NoneLanded')
             /\ NoneNotified => NoneNotified'
             /\ Announced => Announced'
  <2>1. ~NoneLanded
    BY <1>1, <1>2, <1>4 DEF NoneLanded
  <2>2. ASSUME OneLanded PROVE NoneLanded'
    <3>1. PICK i \in DOMAIN events : \A j \in DOMAIN events : events[j].kind = "landed" <=> i = j
      BY <2>2 DEF OneLanded
    <3>2. i = 1
      BY <1>1, <1>2, <1>4, <3>1
    <3> QED BY <1>1, <1>2, <3>1, <3>2 DEF NoneLanded
  <2>3. NoneNotified => NoneNotified'
    BY <1>1, <1>2 DEF NoneNotified
  <2>4. ASSUME Announced PROVE Announced'
    <3>1. PICK i \in DOMAIN events : \A j \in DOMAIN events :
            /\ events[j].kind = "notify" <=> i = j
            /\ events[j].kind = "landed" => j < i
      BY <2>4 DEF Announced
    <3>2. i # 1 /\ i - 1 \in DOMAIN events' /\ (i - 1) + 1 = i
      BY <1>1, <1>2, <1>4, <3>1
    <3>3. NoneLanded'
      BY <1>1, <1>2, <1>4, <2>4 DEF Announced, NoneLanded
    <3>4. \A j \in DOMAIN events' : events'[j].kind = "notify" <=> i - 1 = j
      <4>1. \A j \in DOMAIN events' : j + 1 = i <=> i - 1 = j
        BY <1>2
      <4> QED BY <1>1, <1>2, <3>1, <4>1
    <3>5. \A j \in DOMAIN events' : events'[j].kind = "notify" => events'[j].found
      BY <1>1, <1>2, <2>4 DEF Announced
    <3> QED BY <3>2, <3>3, <3>4, <3>5 DEF Announced, NoneLanded
  <2> QED BY <2>1, <2>2, <2>3, <2>4
<1>5. ASSUME kind = "notify"
      PROVE  /\ ~NoneNotified /\ (NoneLanded => NoneLanded')
             /\ Announced => NoneLanded' /\ NoneNotified' /\ Head(events).found
             /\ NoneFound => NoneFound' /\ ~Head(events).found
  <2>1. ~NoneNotified /\ (NoneLanded => NoneLanded')
    BY <1>1, <1>2, <1>5 DEF NoneNotified, NoneLanded
  <2>2. NoneFound => NoneFound' /\ ~Head(events).found
    BY <1>1, <1>2, <1>5 DEF NoneFound
  <2>3. ASSUME Announced PROVE NoneLanded' /\ NoneNotified' /\ Head(events).found
    <3>1. PICK i \in DOMAIN events : \A j \in DOMAIN events :
            /\ events[j].kind = "notify" <=> i = j
            /\ events[j].kind = "landed" => j < i
      BY <2>3 DEF Announced
    <3>2. i = 1
      BY <1>1, <1>2, <1>5, <3>1
    <3>3. \A j \in DOMAIN events' : ~(j + 1 < 1)
      BY <1>2
    <3> QED BY <1>1, <1>2, <1>5, <2>3, <3>1, <3>2, <3>3 DEF NoneLanded, NoneNotified, Announced
  <2> QED BY <2>1, <2>2, <2>3
<1> QED BY <1>3, <1>4, <1>5

\* A step the read has no part in.
LEMMA ReadFrame ==
  ASSUME ClipTypes, ClipTypes', ReadInv, UNCHANGED <<landing, reading, sending, unread, worker>>,
         thread' = thread \/ (Free /\ Free'),
         NoneLanded => NoneLanded', NoneNotified => NoneNotified', OneLanded => OneLanded',
         Announced => Announced', NoneFound => NoneFound'
  PROVE  ReadInv'
<1>1. /\ Free => Free'
      /\ ~Free => thread' = thread
      /\ \A at \in {"take", "converted", "chunk", "finish"} : thread.at = at => thread' = thread
  BY DEF Free
<1>2. AllOver => AllOver'
  BY DEF AllOver
<1>3. Quiet => Quiet'
  BY <1>1, <1>2 DEF Quiet
<1>4. Refused => Refused'
  BY <1>1, <1>2 DEF Refused
<1>5. Heard => Heard'
  BY <1>3 DEF Heard
<1>6. \A t \in {"converted", "chunk"} : TakesIt(t) => TakesIt(t)'
  BY <1>1 DEF TakesIt
<1>7. \A s : Spent(s) => Spent(s)'
  BY DEF Spent
<1>8. \A s, k : Coming(s, k) => Coming(s, k)'
  BY DEF Coming, NextLanded
<1>9. \A s : InPart(s) => InPart(s)'
  BY DEF InPart, Had, Begins, Whole
<1>10. ASSUME NEW s, ComesTo(s) PROVE ComesTo(s)'
  <2>1. NotAnswered(s) => NotAnswered(s)'
    BY <1>1 DEF NotAnswered
  <2>2. WholeLanded(s) => WholeLanded(s)'
    BY <1>1, <1>6 DEF WholeLanded, TextOf, Whole
  <2>3. WholeHad(s) => WholeHad(s)'
    BY <1>1, <1>7 DEF WholeHad, TextOf, Whole
  <2>4. PartsLanded(s) => PartsLanded(s)'
    BY <1>1, <1>6 DEF PartsLanded, Incr
  <2>5. PartsBegin(s) => PartsBegin(s)'
    BY <1>1, <1>8 DEF PartsBegin, Incr
  <2>6. PartAwaited(s) => PartAwaited(s)'
    BY <1>1, <1>8, <1>9 DEF PartAwaited, Had
  <2>7. PartLanded(s) => PartLanded(s)'
    BY <1>6, <1>9 DEF PartLanded, Had, NextLanded, TextOf
  <2>8. PartHad(s) => PartHad(s)'
    BY <1>1, <1>8, <1>9 DEF PartHad, Had, TextOf
  <2>9. EndHad(s) => EndHad(s)'
    BY <1>1, <1>7, <1>9 DEF EndHad, Had, TextOf
  <2>10. EndRead(s) => EndRead(s)'
    BY <1>1, <1>7 DEF EndRead, Whole
  <2> QED BY <1>10, <2>1, <2>2, <2>3, <2>4, <2>5, <2>6, <2>7, <2>8, <2>9, <2>10 DEF ComesTo
<1>11. \A n \in DOMAIN sending : \A s \in {sending[n]} : ReadFrom(n, s) => ReadFrom(n, s)'
  BY <1>10 DEF ReadFrom
<1>12. Waiting => Waiting'
  <2>1. thread.at = "finish" => thread' = thread
    BY <1>1
  <2> QED BY <1>4, <1>5, <1>11, <2>1 DEF Waiting
<1>13. ReadsInOrder'
  BY DEF ReadInv, ReadsInOrder
<1> QED BY <1>3, <1>12, <1>13 DEF ReadInv, Whole

LEMMA TidingsSame ==
  ASSUME UNCHANGED events
  PROVE  /\ NoneLanded' = NoneLanded /\ NoneNotified' = NoneNotified /\ OneLanded' = OneLanded
         /\ Announced' = Announced /\ NoneFound' = NoneFound
BY DEF NoneLanded, NoneNotified, OneLanded, Announced, NoneFound

\* The thread serves, or is told to stop.
LEMMA ThreadServesReads ==
  ClipTypes /\ ClipTypes' /\ ReadInv
    /\ (LosesSelection \/ MeetsRequest \/ Answers \/ SendsPart \/ MeetsStop \/ Releases) => ReadInv'
<1> SUFFICES ASSUME ClipTypes, ClipTypes', ReadInv,
                    \/ LosesSelection \/ MeetsRequest \/ Answers \/ SendsPart \/ MeetsStop
                    \/ Releases
             PROVE  ReadInv'
  OBVIOUS
<1>1. UNCHANGED <<landing, reading, sending, unread, worker>>
  BY DEF LosesSelection, MeetsRequest, Answers, SendsPart, MeetsStop, Releases, Others, Shared,
         app_vars, shared_vars, history
<1>2. Free /\ Free'
  <2>1. LosesSelection \/ SendsPart => thread.at = "waits" /\ thread' = thread
    BY DEF LosesSelection, SendsPart, Next_
  <2>2. MeetsRequest => thread.at = "waits" /\ thread'.at = "answer"
    BY DEF MeetsRequest, Next_, Turns
  <2>3. Answers => thread.at = "answer" /\ thread'.at = "waits"
    BY DEF Answers, Turns, Waits
  <2>4. MeetsStop => thread.at = "waits" /\ thread'.at \in {"release", "ended"}
    BY DEF MeetsStop, Next_, Turns
  <2>5. Releases => thread.at = "release" /\ thread'.at = "ended"
    BY DEF Releases, Turns
  <2> QED BY <2>1, <2>2, <2>3, <2>4, <2>5 DEF Free
<1>3. CASE events' = events
  BY <1>1, <1>2, <1>3, TidingsSame, ReadFrame
<1>4. ASSUME NEW kind \in {"clear", "request", "deleted", "stop"}, Next_(kind), Taken PROVE ReadInv'
  <2>1. kind \notin Tidings
    BY <1>4 DEF Tidings
  <2> QED BY <1>1, <1>2, <1>4, <2>1, TidingsTaken, ReadFrame
<1> QED BY <1>3, <1>4 DEF LosesSelection, MeetsRequest, Answers, SendsPart, MeetsStop, Releases

LEMMA AppsAskReads ==
  ASSUME ClipTypes, ClipTypes', ReadInv, NEW a \in Apps,
         Copies(a) \/ AppAsks(a) \/ AppTakes(a) \/ AppForgets(a)
  PROVE  ReadInv'
<1>1. UNCHANGED <<landing, reading, sending, unread, worker>> /\ thread' = thread
  BY DEF Copies, AppAsks, AppTakes, AppForgets, Server, Shared, server_vars, shared_vars, history
<1>2. \/ events' = events
      \/ \E e \in Event : e.kind \notin Tidings /\ events' = Append(events, e)
  <2>1. CASE Copies(a)
    BY <2>1, EventsAre DEF Copies, Tidings
  <2>2. CASE AppAsks(a)
    <3> DEFINE k == asking[a].ask + 1
               e == [kind |-> "request", app |-> a, ask |-> k]
    <3>1. k \in Nat /\ events' = Append(events, e)
      BY <2>2 DEF AppAsks, ClipTypes, Asked
    <3> HIDE DEF k
    <3>2. e \in Event /\ e.kind \notin Tidings
      BY <3>1, EventsAre DEF Tidings
    <3> QED BY <3>1, <3>2
  <2>3. CASE AppTakes(a)
    BY <2>3, EventsAre DEF AppTakes, Tidings
  <2>4. CASE AppForgets(a)
    BY <2>4 DEF AppForgets, Server, server_vars
  <2> QED BY <2>1, <2>2, <2>3, <2>4
<1>3. CASE events' = events
  BY <1>1, <1>3, TidingsSame, ReadFrame
<1>4. ASSUME NEW e \in Event, e.kind \notin Tidings, events' = Append(events, e) PROVE ReadInv'
  BY <1>1, <1>4, TidingsBehind, ReadFrame
<1> QED BY <1>2, <1>3, <1>4

\* ---- the worker's steps ---------------------------------------------------------------

LEMMA QuietKept ==
  ASSUME UNCHANGED <<landing, sending, thread>>, NoneLanded => NoneLanded',
         NoneNotified => NoneNotified', Quiet
  PROVE  Quiet'
BY DEF Quiet, AllOver, Free

LEMMA WorkerReads ==
  ClipTypes /\ ClipTypes' /\ ReadInv /\ WorkerNext => ReadInv'
<1> SUFFICES ASSUME ClipTypes, ClipTypes', ReadInv, WorkerNext PROVE ReadInv'
  OBVIOUS
<1> USE DEF Server, Others, Shared, server_vars, app_vars, shared_vars, history
<1>0. worker \in Worker /\ worker' \in Worker /\ worker.read \in Nat /\ sending \in Seq(Sending)
  BY DEF ClipTypes, Worker
<1>1. CASE StartPaste
  <2>1. /\ worker.at = "idle" /\ UNCHANGED <<landing, sending, thread, events, unread>>
        /\ worker'.at \in {"own", "served", "convert"}
        /\ worker'.answer = None /\ worker'.prior = None
        /\ worker'.at # "convert" => worker'.read = worker.read
        /\ worker'.at = "convert" =>
             /\ worker'.read = worker.read + 1
             /\ reading' = [read |-> worker.read + 1, got |-> None]
    <3>1. PICK t \in Pasted :
            LET w == [worker EXCEPT !.pastes = @ + 1, !.text = Whole(t), !.prior = None,
                                    !.answer = None, !.restores = FALSE]
            IN  \/ worker' = [w EXCEPT !.at = "own"]
                \/ worker' = [w EXCEPT !.at = "served"]
                \/ /\ worker' = [w EXCEPT !.at = "convert", !.read = @ + 1]
                   /\ reading' = [read |-> worker.read + 1, got |-> None]
      BY <1>1 DEF StartPaste
    <3> DEFINE x == Whole(t)
               n == worker.pastes + 1
               w == [worker EXCEPT !.pastes = n, !.text = x, !.prior = None,
                                   !.answer = None, !.restores = FALSE]
    <3>2. /\ w.read = worker.read /\ w.answer = None /\ w.prior = None
          /\ \A at : [w EXCEPT !.at = at].at = at /\ [w EXCEPT !.at = at].read = worker.read
                     /\ [w EXCEPT !.at = at].answer = None /\ [w EXCEPT !.at = at].prior = None
          /\ [w EXCEPT !.at = "convert", !.read = @ + 1].at = "convert"
          /\ [w EXCEPT !.at = "convert", !.read = @ + 1].answer = None
          /\ [w EXCEPT !.at = "convert", !.read = @ + 1].prior = None
          /\ [w EXCEPT !.at = "convert", !.read = @ + 1].read = worker.read + 1
      BY <1>0 DEF Worker
    <3>3. worker.at = "idle" /\ UNCHANGED <<landing, sending, thread, events, unread>>
      BY <1>1 DEF StartPaste
    <3>4. \/ worker' = [w EXCEPT !.at = "own"]
          \/ worker' = [w EXCEPT !.at = "served"]
          \/ /\ worker' = [w EXCEPT !.at = "convert", !.read = @ + 1]
             /\ reading' = [read |-> worker.read + 1, got |-> None]
      BY <3>1
    <3> HIDE DEF w
    <3>5. CASE \E at \in {"own", "served"} : worker' = [w EXCEPT !.at = at]
      <4>1. /\ worker'.at \in {"own", "served"} /\ worker'.answer = None /\ worker'.prior = None
            /\ worker'.read = worker.read
        BY <3>2, <3>5
      <4> QED BY <3>3, <4>1
    <3>6. CASE /\ worker' = [w EXCEPT !.at = "convert", !.read = @ + 1]
               /\ reading' = [read |-> worker.read + 1, got |-> None]
      <4>1. /\ worker'.at = "convert" /\ worker'.answer = None /\ worker'.prior = None
            /\ worker'.read = worker.read + 1
        BY <3>2, <3>6
      <4> QED BY <3>3, <3>6, <4>1
    <3> QED BY <3>4, <3>5, <3>6
  <2>2. unread' = {} => Quiet'
    BY <2>1, QuietKept, TidingsSame DEF ReadInv
  <2>3. ReadsInOrder'
    <3>1. \A n \in DOMAIN sending : sending[n].read \in Nat /\ sending[n].read <= worker.read
      BY <1>0 DEF ReadInv, ReadsInOrder, Sending
    <3>2. CASE worker'.at # "convert"
      BY <2>1, <3>2 DEF ReadInv, ReadsInOrder
    <3>3. CASE worker'.at = "convert"
      <4>1. \A n \in DOMAIN sending :
              sending[n].read < worker.read + 1 /\ sending[n].read <= worker.read + 1
        BY <1>0, <3>1
      <4> QED BY <2>1, <3>3, <4>1 DEF ReadInv, ReadsInOrder
    <3> QED BY <3>2, <3>3
  <2> QED BY <2>1, <2>2, <2>3 DEF ReadInv
<1>2. CASE ReadsItsOwn \/ PutsText \/ ClaimsSelection \/ ProvesOwner \/ Restores
  <2>1. /\ worker.at \notin {"convert", "waiting", "clear"}
        /\ worker'.at \notin {"convert", "waiting", "clear"} /\ worker'.read = worker.read
        /\ UNCHANGED <<landing, sending, thread, events, unread>>
    <3>1. CASE ReadsItsOwn
      BY <1>0, <3>1 DEF ReadsItsOwn, Worker
    <3>2. CASE PutsText
      BY <1>0, <3>2 DEF PutsText, Goes, Worker
    <3>3. CASE ClaimsSelection
      BY <1>0, <3>3 DEF ClaimsSelection, Goes, Worker
    <3>4. CASE ProvesOwner
      BY <1>0, <3>4 DEF ProvesOwner, Goes, Worker
    <3>5. CASE Restores
      <4>1. CASE worker.prior = None
        BY <1>0, <3>5, <4>1 DEF Restores, Goes, Worker
      <4>2. CASE worker.prior # None
        BY <1>0, <3>5, <4>2 DEF Restores, Worker
      <4> QED BY <4>1, <4>2
    <3> QED BY <1>2, <3>1, <3>2, <3>3, <3>4, <3>5
  <2>2. unread' = {} => Quiet'
    BY <2>1, QuietKept, TidingsSame DEF ReadInv
  <2>3. ReadsInOrder'
    BY <2>1 DEF ReadInv, ReadsInOrder
  <2> QED BY <2>1, <2>2, <2>3 DEF ReadInv
<1>3. CASE Stops
  <2>1. /\ worker.at = "idle" /\ worker'.at = "stopped" /\ worker'.read = worker.read
        /\ UNCHANGED <<landing, sending, thread, unread>>
        /\ events' = Append(events, [kind |-> "stop"])
    BY <1>0, <1>3 DEF Stops, Goes, Worker
  <2>2. (NoneLanded => NoneLanded') /\ (NoneNotified => NoneNotified')
    <3> DEFINE e == [kind |-> "stop"]
    <3>1. e \in Event /\ e.kind \notin Tidings /\ events' = Append(events, e)
      BY <2>1, EventsAre DEF Tidings
    <3> HIDE DEF e
    <3> QED BY <3>1, TidingsBehind
  <2>3. unread' = {} => Quiet'
    BY <2>1, <2>2, QuietKept DEF ReadInv
  <2>4. ReadsInOrder'
    BY <2>1 DEF ReadInv, ReadsInOrder
  <2> QED BY <2>1, <2>3, <2>4 DEF ReadInv
<1>4. CASE Hears
  <2>1. /\ worker.at = "waiting" /\ worker'.at = "clear" /\ worker'.read = worker.read
        /\ worker.answer # None
        /\ worker'.prior = IF worker.answer.found THEN worker.answer.text ELSE None
        /\ UNCHANGED <<landing, sending, thread, events, unread>>
    BY <1>0, <1>4 DEF Hears, Worker
  <2>2. ReadsInOrder'
    BY <2>1 DEF ReadInv, ReadsInOrder
  <2>3. ASSUME unread' = {}, worker'.prior # None
        PROVE  /\ Quiet'
               /\ \A n \in DOMAIN sending' :
                    sending'[n].read = worker'.read => worker'.prior = Whole(sending'[n].text)
    <3>1. worker.answer.found /\ Heard
      BY <2>1, <2>3 DEF ReadInv, Waiting
    <3>2. Quiet'
      BY <2>1, <3>1, QuietKept, TidingsSame DEF Heard
    <3> QED BY <2>1, <3>1, <3>2 DEF Heard
  <2> QED BY <2>1, <2>2, <2>3 DEF ReadInv, Whole
<1>5. CASE GivesUpReading
  <2>1. /\ worker.at = "waiting" /\ worker'.at = "clear" /\ worker'.read = worker.read
        /\ worker'.prior = worker.prior /\ UNCHANGED sending
    BY <1>0, <1>5 DEF GivesUpReading, Goes, Worker
  <2>2. ReadsInOrder'
    BY <2>1 DEF ReadInv, ReadsInOrder
  <2> QED BY <2>1, <2>2 DEF ReadInv
<1>6. CASE ClearsReading
  <2>1. /\ worker.at = "clear" /\ worker'.at = "own" /\ worker'.read = worker.read
        /\ UNCHANGED <<landing, sending, thread, events>>
        /\ unread' = IF worker.prior = None THEN unread \cup {worker.read} ELSE unread
    BY <1>0, <1>6 DEF ClearsReading, Goes, Worker
  <2>2. unread' = {} => Quiet'
    BY <2>1, QuietKept, TidingsSame DEF ReadInv
  <2>3. ReadsInOrder'
    BY <2>1 DEF ReadInv, ReadsInOrder
  <2> QED BY <2>1, <2>2, <2>3 DEF ReadInv
<1>7. CASE Converts
  <2> DEFINE s == [app |-> owner, text |-> holds[owner], at |-> "asked", read |-> worker.read,
                   sent |-> 0, deletes |-> 0]
             e == [kind |-> "notify", found |-> FALSE]
  <2>1. /\ worker.at = "convert" /\ worker'.at = "waiting" /\ worker'.read = worker.read
        /\ worker'.prior = worker.prior /\ worker'.answer = worker.answer
        /\ UNCHANGED <<landing, thread, unread, reading>>
        /\ \/ owner \in Apps /\ sending' = Append(sending, s) /\ events' = events
           \/ events' = Append(events, e) /\ sending' = sending
    BY <1>0, <1>7 DEF Converts, Goes, Worker
  <2>2. owner \in Apps => s \in Sending
    <3>1. ASSUME owner \in Apps PROVE s \in Sending
      <4>1. holds[owner] \in Copyable /\ worker.read \in Nat
        BY <1>0, <3>1 DEF ClipTypes
      <4>2. Parts[holds[owner]] \in Nat /\ 0 <= Parts[holds[owner]]
        BY <4>1, ClipboardAssumption
      <4> QED BY <3>1, <4>1, <4>2 DEF Sending
    <3> QED BY <3>1
  <2>3. s.at = "asked" /\ s.read = worker.read /\ s.sent = 0 /\ s.deletes = 0
    OBVIOUS
  <2>4. e \in Event /\ e.kind = "notify" /\ ~e.found
    BY EventsAre
  <2> HIDE DEF s, e
  <2>5. CASE owner \in Apps /\ sending' = Append(sending, s) /\ events' = events
    <3> DEFINE k == Len(sending) + 1
    <3>1. /\ DOMAIN sending' = 1 .. k /\ sending'[k] = s /\ k \in Nat /\ k \notin DOMAIN sending
          /\ \A n \in 1 .. k : n = k \/ (n \in DOMAIN sending /\ sending'[n] = sending[n])
      BY <1>0, <2>2, <2>5
    <3>2. ReadsInOrder'
      <4>1. \A n \in DOMAIN sending : sending[n].read \in Nat /\ sending[n].read < worker.read
        BY <1>0, <2>1 DEF ReadInv, ReadsInOrder, Sending
      <4>2. \A n \in DOMAIN sending :
              sending[n].read <= worker.read /\ sending[n].read # worker.read
        BY <1>0, <4>1
      <4>3. \A m, n \in DOMAIN sending : sending[m].read = sending[n].read => m = n
        BY DEF ReadInv, ReadsInOrder
      <4>4. worker.read <= worker.read
        BY <1>0
      <4> HIDE DEF k
      <4> QED BY <2>1, <2>3, <3>1, <4>2, <4>3, <4>4 DEF ReadsInOrder
    <3>3. ASSUME unread = {} PROVE Waiting'
      <4>1. /\ Quiet /\ worker.answer = None /\ reading = [read |-> worker.read, got |-> None]
        BY <2>1, <3>3 DEF ReadInv
      <4>2. /\ reading \in Reading /\ reading # None
            /\ reading.read = worker.read /\ reading.got = None
        BY <1>0, <4>1, NoneIsNothing DEF Reading
      <4>3. PICK v \in {s} : TRUE
        OBVIOUS
      <4>7. v = s /\ v.at = "asked" /\ v.read = worker.read /\ v.sent = 0 /\ v.deletes = 0
        BY <2>3, <4>3
      <4>8. ComesTo(v)'
        BY <2>1, <2>5, <4>1, <4>2, <4>7
           DEF ComesTo, NotAnswered, Quiet, NoneLanded, NoneNotified, Free
      <4>4. \A m \in DOMAIN sending' : m # k => sending'[m].at = "over"
        BY <3>1, <4>1 DEF Quiet, AllOver
      <4> HIDE DEF k
      <4>6. k \in DOMAIN sending'
        BY <3>1 DEF k
      <4>9. PICK n \in DOMAIN sending' : n = k
        BY <4>6
      <4>5. ReadFrom(n, v)' /\ v = sending'[n]
        BY <2>1, <3>1, <4>8, <4>4, <4>7, <4>9 DEF ReadFrom
      <4> QED BY <2>1, <4>1, <4>2, <4>5 DEF Waiting
    <3> QED BY <2>1, <3>2, <3>3 DEF ReadInv
  <2>6. CASE events' = Append(events, e) /\ sending' = sending
    <3>1. ReadsInOrder'
      BY <2>1, <2>6 DEF ReadInv, ReadsInOrder
    <3>2. ASSUME unread = {} PROVE Waiting'
      <4>1. /\ Quiet /\ worker.answer = None /\ reading = [read |-> worker.read, got |-> None]
        BY <2>1, <3>2 DEF ReadInv
      <4>2. reading \in Reading /\ reading # None /\ reading.read = worker.read
        BY <1>0, <4>1, NoneIsNothing DEF Reading
      <4>3. NoneLanded' /\ NoneFound'
        BY <2>4, <2>6, <4>1, TidingsBehind DEF Quiet
      <4>4. Refused'
        BY <2>1, <2>6, <4>1, <4>3 DEF Refused, Quiet, AllOver, Free
      <4> QED BY <2>1, <4>1, <4>2, <4>4 DEF Waiting
    <3> QED BY <2>1, <3>1, <3>2 DEF ReadInv
  <2> QED BY <2>1, <2>5, <2>6
<1> QED BY <1>1, <1>2, <1>3, <1>4, <1>5, <1>6, <1>7 DEF WorkerNext

\* ---- the owners' and the thread's part in a read --------------------------------------

LEMMA QuietStops ==
  ASSUME ClipTypes, ClipTypes', Quiet
  PROVE  /\ ~MeetsNotify /\ ~MeetsLanded /\ ~TakesLanded /\ ~Converted /\ ~ReceivesPart /\ ~Finishes
         /\ \A n \in DOMAIN sending : ~AppAnswers(n) /\ ~AppSends(n)
<1>1. ~MeetsNotify
  BY TidingsTaken DEF Quiet, MeetsNotify
<1>2. ~MeetsLanded
  BY TidingsTaken DEF Quiet, MeetsLanded
<1>3. ~TakesLanded /\ ~Converted /\ ~ReceivesPart /\ ~Finishes
  BY DEF Quiet, Free, TakesLanded, Converted, ReceivesPart, Finishes
<1>4. \A n \in DOMAIN sending : ~AppAnswers(n) /\ ~AppSends(n)
  BY DEF Quiet, AllOver, AppAnswers, AppSends
<1> QED BY <1>1, <1>2, <1>3, <1>4

\* What such a step keeps, and what is left to show of it.
LEMMA ReadMoves ==
  ASSUME ReadInv, ~Quiet, unread' = unread, worker'.at = worker.at,
         worker'.read = worker.read, worker'.prior = worker.prior,
         DOMAIN sending' = DOMAIN sending,
         \A n \in DOMAIN sending : sending'[n].read = sending[n].read,
         worker.at = "waiting" /\ Waiting => Waiting'
  PROVE  ReadInv'
<1>1. ReadsInOrder'
  BY DEF ReadInv, ReadsInOrder
<1>2. unread = {} => /\ worker.at \in {"waiting", "clear"}
                     /\ worker.at = "waiting" => Waiting'
                     /\ worker.at = "clear" => worker.prior = None
  BY DEF ReadInv
<1> QED BY <1>1, <1>2 DEF ReadInv

LEMMA AnswerKept ==
  ASSUME Waiting, ~Quiet, worker.answer # None, worker'.answer = worker.answer, reading' = None
  PROVE  Waiting'
BY DEF Waiting, Heard

LEMMA NotFound ==
  ASSUME worker'.answer # None, ~worker'.answer.found, reading' = None
  PROVE  Waiting'
BY DEF Waiting, Heard

LEMMA WaitingFor ==
  ASSUME NEW n \in DOMAIN sending', NEW s, s = sending'[n], s.read = worker'.read, ComesTo(s)',
         \A m \in DOMAIN sending' : m # n => sending'[m].at = "over",
         worker'.answer = None, reading' # None, reading'.read = worker'.read
  PROVE  Waiting'
<1>1. ReadFrom(n, s)'
  BY DEF ReadFrom
<1> QED BY <1>1 DEF Waiting

LEMMA FinishIs ==
  ASSUME ClipTypes, NEW found \in BOOLEAN, NEW text \in Text, FinishesRead(found, text)
  PROVE  /\ reading' = None /\ worker'.at = worker.at
         /\ worker'.read = worker.read /\ worker'.prior = worker.prior
         /\ worker.at = "waiting" /\ Waiting =>
              IF worker.answer # None THEN worker'.answer = worker.answer
              ELSE /\ worker'.answer # None
                   /\ worker'.answer.found = found /\ worker'.answer.text = text
<1> DEFINE answer == [found |-> found, text |-> text]
<1>1. answer \in Answer /\ answer # None /\ answer.found = found /\ answer.text = text
  BY NoneIsNothing DEF Answer
<1> HIDE DEF answer
<1>2. worker \in Worker
  BY DEF ClipTypes
<1>3. reading' = None
  BY DEF FinishesRead
<1>4. CASE worker' = worker
  <2>1. worker.at = "waiting" /\ Waiting => worker.answer # None
    <3>1. ASSUME worker.at = "waiting", Waiting, worker.answer = None PROVE FALSE
      <4>1. reading # None /\ worker.read = reading.read
        BY <3>1 DEF Waiting
      <4>2. worker' = [worker EXCEPT !.answer = answer]
        BY <3>1, <4>1 DEF FinishesRead, answer
      <4>3. worker'.answer = answer
        BY <1>2, <4>2 DEF Worker
      <4> QED BY <1>1, <1>4, <3>1, <4>3
    <3> QED BY <3>1
  <2> QED BY <1>3, <1>4, <2>1
<1>5. CASE reading # None /\ worker' = [worker EXCEPT !.answer = answer]
  <2>1. /\ worker'.at = worker.at /\ worker'.read = worker.read /\ worker'.prior = worker.prior
        /\ worker'.answer = answer
    BY <1>2, <1>5 DEF Worker
  <2>2. Waiting => worker.answer = None
    BY <1>5 DEF Waiting
  <2> QED BY <1>1, <1>3, <2>1, <2>2
<1> QED BY <1>4, <1>5 DEF FinishesRead, answer

\* The text of the owner it asked is all there, and what was going on is over.
LEMMA ReadEnds ==
  ASSUME ReadsInOrder, NEW n \in DOMAIN sending, NEW s, ReadFrom(n, s), Spent(s),
         UNCHANGED <<landing, events, sending>>, Free', worker'.read = worker.read,
         worker'.answer # None, worker'.answer.text = Whole(s.text), reading' = None
  PROVE  Waiting'
<1>1. AllOver'
  BY DEF AllOver, Spent, ReadFrom
<1>2. Quiet'
  BY <1>1, TidingsSame DEF Quiet, Spent
<1>3. \A m \in DOMAIN sending : sending[m].read = worker.read => sending[m] = s
  BY DEF ReadsInOrder, ReadFrom
<1>4. \A m \in DOMAIN sending' :
        sending'[m].read = worker'.read => worker'.answer.text = Whole(sending'[m].text)
  BY <1>3
<1> QED BY <1>2, <1>4 DEF Waiting, Heard, Whole

LEMMA MeetsNotifyReads == ClipTypes /\ ClipTypes' /\ ReadInv /\ MeetsNotify => ReadInv'
<1> SUFFICES ASSUME ClipTypes, ClipTypes', ReadInv, MeetsNotify PROVE ReadInv'
  OBVIOUS
<1>1. /\ thread.at = "waits" /\ Next_("notify") /\ Taken /\ ~Quiet
      /\ UNCHANGED <<landing, sending, unread>>
  BY QuietStops DEF MeetsNotify, Next_, Others, app_vars, history
<1>2. /\ ~NoneNotified /\ (NoneLanded => NoneLanded')
      /\ Announced => NoneLanded' /\ NoneNotified' /\ Head(events).found
      /\ NoneFound => ~Head(events).found
  BY <1>1, TidingsTaken
<1>3. CASE ~Head(events).found
  <2>1. FinishesRead(FALSE, <<>>)
    BY <1>3 DEF MeetsNotify
  <2>4. <<>> \in Text
    BY DEF Text
  <2>2. /\ reading' = None /\ worker'.at = worker.at
        /\ worker'.read = worker.read /\ worker'.prior = worker.prior
        /\ worker.at = "waiting" /\ Waiting =>
             IF worker.answer # None THEN worker'.answer = worker.answer
             ELSE worker'.answer # None /\ ~worker'.answer.found
    BY <2>1, <2>4, FinishIs
  <2>3. worker.at = "waiting" /\ Waiting => Waiting'
    BY <1>1, <2>2, AnswerKept, NotFound
  <2> QED BY <1>1, <2>2, <2>3, ReadMoves
<1>4. CASE Head(events).found
  <2>1. /\ UNCHANGED <<reading, worker>>
        /\ thread'.at = "take" /\ thread'.then = "converted"
    BY <1>4 DEF MeetsNotify, Turns
  <2>2. ASSUME Waiting, worker.answer = None PROVE Waiting'
    <3>1. /\ reading # None /\ reading.read = worker.read /\ ~Refused
          /\ \E n \in DOMAIN sending : \E s \in {sending[n]} : ReadFrom(n, s)
      BY <1>1, <1>2, <1>4, <2>2 DEF Waiting, Refused
    <3>2. PICK n \in DOMAIN sending : \E s \in {sending[n]} : ReadFrom(n, s)
      BY <3>1
    <3>3. PICK s : s = sending[n] /\ ReadFrom(n, s)
      BY <3>2
    <3>4. CASE WholeLanded(s)
      <4>1. NoneLanded' /\ NoneNotified'
        BY <1>1, <1>2, <3>4 DEF WholeLanded, TakesIt
      <4>2. WholeLanded(s)'
        BY <1>1, <2>1, <3>4, <4>1 DEF WholeLanded, TakesIt, TextOf, Whole
      <4> QED BY <1>1, <2>1, <2>2, <3>1, <3>3, <4>2, WaitingFor DEF ReadFrom, ComesTo
    <3>5. CASE PartsLanded(s)
      <4>1. NoneLanded' /\ NoneNotified'
        BY <1>1, <1>2, <3>5 DEF PartsLanded, TakesIt
      <4>2. PartsLanded(s)'
        BY <1>1, <2>1, <3>5, <4>1 DEF PartsLanded, TakesIt, Incr
      <4> QED BY <1>1, <2>1, <2>2, <3>1, <3>3, <4>2, WaitingFor DEF ReadFrom, ComesTo
    <3>6. WholeLanded(s) \/ PartsLanded(s)
      BY <1>1, <1>2, <3>3 DEF ReadFrom, ComesTo, NotAnswered, WholeHad, PartsBegin, PartAwaited,
         InPart, PartLanded, PartHad, EndHad, EndRead
    <3> QED BY <3>4, <3>5, <3>6
  <2>3. ASSUME Waiting, worker.answer # None PROVE Waiting'
    BY <1>1, <2>1, <2>3, AnswerKept DEF Waiting
  <2> QED BY <1>1, <2>1, <2>2, <2>3, ReadMoves
<1> QED BY <1>3, <1>4

LEMMA MeetsLandedReads == ClipTypes /\ ClipTypes' /\ ReadInv /\ MeetsLanded => ReadInv'
<1> SUFFICES ASSUME ClipTypes, ClipTypes', ReadInv, MeetsLanded PROVE ReadInv'
  OBVIOUS
<1>1. /\ thread.at = "waits" /\ Next_("landed") /\ Taken /\ ~Quiet
      /\ UNCHANGED <<landing, sending, unread, reading, worker>>
  BY QuietStops DEF MeetsLanded, Next_, Others, Shared, shared_vars, app_vars, history
<1>2. /\ ~NoneLanded /\ (OneLanded => NoneLanded')
      /\ NoneNotified => NoneNotified'
      /\ Announced => Announced'
  BY <1>1, TidingsTaken
<1>3. /\ InParts => thread'.at = "take" /\ thread'.then = "chunk"
      /\ ~InParts => Free'
  BY DEF MeetsLanded, Turns, Waits, Free
<1>4. ASSUME Waiting, worker.answer = None PROVE Waiting'
  <2>1. /\ reading # None /\ reading.read = worker.read
        /\ \E n \in DOMAIN sending : \E s \in {sending[n]} : ReadFrom(n, s)
    BY <1>1, <1>2, <1>4 DEF Waiting, Refused
  <2>2. PICK n \in DOMAIN sending : \E s \in {sending[n]} : ReadFrom(n, s)
    BY <2>1
  <2>3. PICK s : s = sending[n] /\ ReadFrom(n, s)
    BY <2>2
  <2>4. ASSUME ComesTo(s)' PROVE Waiting'
    BY <1>1, <1>4, <2>1, <2>3, <2>4, WaitingFor DEF ReadFrom
  <2>5. ASSUME WholeLanded(s) \/ PartsLanded(s) PROVE ComesTo(s)'
    <3>1. Free' /\ Announced'
      BY <1>1, <1>2, <1>3, <2>5 DEF WholeLanded, PartsLanded, InParts, TakesIt
    <3> QED BY <1>1, <2>5, <3>1 DEF ComesTo, WholeLanded, PartsLanded, TextOf, Whole, Incr
  <2>6. ASSUME PartAwaited(s) PROVE ComesTo(s)'
    <3>1. InParts /\ NoneNotified /\ InPart(s) /\ NextLanded(s, Had) /\ OneLanded
      BY <1>2, <2>1, <2>6 DEF PartAwaited, InPart, InParts, Coming
    <3>2. TakesIt("chunk")'
      BY <1>2, <1>3, <3>1 DEF TakesIt
    <3>3. InPart(s)' /\ NextLanded(s, Had)'
      BY <1>1, <1>2, <3>1 DEF InPart, NextLanded, Had, Begins, Whole, TextOf
    <3> QED BY <3>2, <3>3 DEF ComesTo, PartLanded
  <2>7. WholeLanded(s) \/ PartsLanded(s) \/ PartAwaited(s)
    BY <1>1, <1>2, <2>3 DEF ReadFrom, ComesTo, NotAnswered, WholeHad, PartsBegin,
       PartLanded, TakesIt, PartHad, EndHad, EndRead
  <2> QED BY <2>4, <2>5, <2>6, <2>7
<1>5. ASSUME Waiting, worker.answer # None PROVE Waiting'
  BY <1>1, <1>5, AnswerKept DEF Waiting
<1> QED BY <1>1, <1>4, <1>5, ReadMoves

LEMMA TakesLandedReads == ClipTypes /\ ClipTypes' /\ ReadInv /\ TakesLanded => ReadInv'
<1> SUFFICES ASSUME ClipTypes, ClipTypes', ReadInv, TakesLanded PROVE ReadInv'
  OBVIOUS
<1>1. /\ thread.at = "take" /\ ~Quiet /\ landing' = None
      /\ UNCHANGED <<events, unread, reading, worker>>
  BY QuietStops DEF TakesLanded, Shared, shared_vars, history
<1>2. /\ sending \in Seq(Sending) /\ DOMAIN sending' = DOMAIN sending
      /\ \A n \in DOMAIN sending :
           sending'[n] = IF landing # None /\ sending[n].at = "sending"
                         THEN [sending[n] EXCEPT !.deletes = @ + 1] ELSE sending[n]
      /\ \A n \in DOMAIN sending : sending[n] \in Sending
  BY DEF TakesLanded, ClipTypes
<1>3. \A n \in DOMAIN sending :
        /\ sending'[n].read = sending[n].read /\ sending'[n].at = sending[n].at
        /\ sending[n].at = "over" => sending'[n] = sending[n]
  BY <1>2 DEF Sending
<1>4. NoneLanded' = NoneLanded /\ NoneNotified' = NoneNotified
  BY <1>1, TidingsSame
<1>5. landing # None =>
        thread'.value = landing /\ thread'.at = thread.then
  BY DEF TakesLanded, Turns
<1>6. ASSUME Waiting, worker.answer = None PROVE Waiting'
  <2>1. /\ reading # None /\ reading.read = worker.read
        /\ \E n \in DOMAIN sending : \E s \in {sending[n]} : ReadFrom(n, s)
    BY <1>1, <1>6 DEF Waiting, Refused, Free
  <2>2. PICK n \in DOMAIN sending : \E s \in {sending[n]} : ReadFrom(n, s)
    BY <2>1
  <2>3. PICK s : s = sending[n] /\ ReadFrom(n, s)
    BY <2>2
  <2>4. PICK t : t = sending'[n]
    OBVIOUS
  <2>5. ASSUME ComesTo(t)' PROVE Waiting'
    BY <1>1, <1>2, <1>3, <1>6, <2>1, <2>3, <2>4, <2>5, WaitingFor DEF ReadFrom
  <2>6. landing # None => IF s.at = "sending" THEN t = [s EXCEPT !.deletes = @ + 1] ELSE t = s
    BY <1>2, <2>3, <2>4
  <2>7. s \in Sending /\ Parts[s.text] \in Nat /\ s.text \in Copyable
    BY <1>2, <2>3, ClipboardAssumption DEF Sending
  <2>8. ASSUME s.at = "sending", landing # None
        PROVE  /\ t.at = "sending" /\ t.text = s.text /\ t.sent = s.sent
               /\ t.deletes = s.deletes + 1
    BY <2>6, <2>7, <2>8 DEF Sending
  <2>9. WholeLanded(s) \/ PartsLanded(s) => landing # None /\ landing \in Value
    <3>1. None # TextOf(Whole(s.text)) /\ None # Incr
      <4>1. Whole(s.text) \in Text /\ <<>> \in Text
        BY <2>7, WholeIsText DEF Text
      <4>2. TextOf(Whole(s.text)) \in Value /\ Incr \in Value
        BY <4>1 DEF TextOf, Incr, Value
      <4> QED BY <4>2, NoneIsNothing
    <3> QED BY <3>1 DEF WholeLanded, PartsLanded, ClipTypes
  <2>10. ASSUME WholeLanded(s) PROVE ComesTo(t)'
    <3>1. /\ t = s /\ s.at = "over" /\ NoneLanded' /\ NoneNotified'
          /\ thread'.at = "converted" /\ thread'.value = TextOf(Whole(s.text))
      BY <1>1, <1>4, <1>5, <2>6, <2>9, <2>10 DEF WholeLanded, TakesIt, Free
    <3>2. WholeHad(s)'
      BY <1>1, <2>10, <3>1 DEF WholeLanded, WholeHad, Spent, TextOf, Whole
    <3> QED BY <3>1, <3>2 DEF ComesTo
  <2>11. ASSUME PartsLanded(s) PROVE ComesTo(t)'
    <3>1. /\ NoneLanded' /\ NoneNotified' /\ thread'.at = "converted" /\ thread'.value = Incr
          /\ t.at = "sending" /\ t.sent = 0 /\ t.deletes = 1
      BY <1>1, <1>4, <1>5, <2>8, <2>9, <2>11 DEF PartsLanded, TakesIt, Free
    <3>2. PartsBegin(t)'
      BY <1>1, <2>11, <3>1 DEF PartsLanded, PartsBegin, Coming, Incr
    <3> QED BY <3>2 DEF ComesTo
  <2>12. ASSUME PartLanded(s) PROVE ComesTo(t)'
    <3>1. /\ NoneLanded' /\ NoneNotified' /\ InPart(s) /\ NextLanded(s, Had) /\ reading \in Reading
          /\ thread.then = "chunk" /\ Had \in Nat /\ Had' = Had
      <4>1. reading \in Reading /\ reading.got # None
        BY <2>1, <2>12 DEF ClipTypes, PartLanded, InPart
      <4>2. Had \in Nat
        BY <4>1 DEF Reading, Had, Text
      <4> QED BY <1>1, <1>4, <2>12, <4>1, <4>2 DEF PartLanded, TakesIt, Had
    <3>2. PICK h \in Nat : h = Had /\ h = Had'
      BY <3>1
    <3>3. landing # None
      <4>1. s.text \in Copyable \cup Pasted /\ <<>> \in Text
        BY <2>7 DEF Text
      <4>2. <<<<s.text, h + 1>>>> \in Text
        BY <3>2, <4>1 DEF Text
      <4>3. TextOf(<<<<s.text, h + 1>>>>) \in Value /\ TextOf(<<>>) \in Value
        BY <4>1, <4>2 DEF TextOf, Value
      <4> QED BY <3>1, <3>2, <4>3, NoneIsNothing DEF NextLanded
    <3>4. thread'.value = landing /\ thread'.at = "chunk"
      BY <1>5, <3>1, <3>3
    <3>5. CASE /\ s.at = "sending" /\ s.deletes = 0 /\ s.sent = h + 1
               /\ landing = TextOf(<<<<s.text, h + 1>>>>)
      <4>1. t.at = "sending" /\ t.text = s.text /\ t.sent = h + 1 /\ t.deletes = 1
        BY <2>8, <3>3, <3>5
      <4>2. h < Parts[s.text]
        BY <2>7, <3>2, <3>5 DEF Sending
      <4>3. InPart(t)'
        BY <1>1, <3>1, <4>1 DEF InPart, Had, Begins, Whole
      <4>4. Coming(t, h + 1)'
        BY <1>1, <3>1, <4>1 DEF Coming
      <4>5. PartHad(t)'
        BY <3>2, <3>4, <3>5, <4>1, <4>2, <4>3, <4>4 DEF PartHad, TextOf
      <4> QED BY <4>5 DEF ComesTo
    <3>6. CASE s.at = "over" /\ s.sent = h /\ h = Parts[s.text] /\ landing = TextOf(<<>>)
      <4>1. t = s
        BY <2>6, <3>3, <3>6
      <4>2. InPart(s)' /\ Spent(s)'
        BY <1>1, <3>1, <3>6 DEF InPart, Had, Begins, Whole, Spent
      <4>3. EndHad(s)'
        BY <3>2, <3>4, <3>6, <4>2 DEF EndHad, TextOf
      <4> QED BY <4>1, <4>3 DEF ComesTo
    <3> QED BY <3>1, <3>2, <3>5, <3>6 DEF NextLanded
  <2>13. WholeLanded(s) \/ PartsLanded(s) \/ PartLanded(s)
    BY <1>1, <2>3 DEF ReadFrom, ComesTo, NotAnswered, WholeHad, PartsBegin, PartAwaited,
       PartHad, EndHad, EndRead, Free
  <2> QED BY <2>5, <2>10, <2>11, <2>12, <2>13
<1>7. ASSUME Waiting, worker.answer # None PROVE Waiting'
  BY <1>1, <1>7, AnswerKept DEF Waiting
<1> QED BY <1>1, <1>2, <1>3, <1>6, <1>7, ReadMoves

LEMMA ConvertedReads == ClipTypes /\ ClipTypes' /\ ReadInv /\ Converted => ReadInv'
<1> SUFFICES ASSUME ClipTypes, ClipTypes', ReadInv, Converted PROVE ReadInv'
  OBVIOUS
<1>1. /\ thread.at = "converted" /\ ~Quiet /\ Free' /\ thread.value \in Value
      /\ UNCHANGED <<landing, events, sending, unread>>
  BY QuietStops DEF Converted, Server, Others, server_vars, app_vars, history, Turns, Waits,
     Free, ClipTypes, ThreadIsTyped
<1>2. thread.value.type # "incr" => thread.value.parts \in Text /\ <<>> \in Text
  BY <1>1 DEF Value, Text
<1>3. CASE thread.value.type = "incr"
  <2>1. /\ worker' = worker
        /\ reading' = IF reading = None THEN None ELSE [reading EXCEPT !.got = <<>>]
    BY <1>3 DEF Converted
  <2>2. ASSUME Waiting, worker.answer = None PROVE Waiting'
    <3>1. /\ reading \in Reading /\ reading # None /\ reading.read = worker.read
          /\ \E n \in DOMAIN sending : \E s \in {sending[n]} : ReadFrom(n, s)
      BY <1>1, <2>2 DEF Waiting, Refused, Free, ClipTypes
    <3>2. PICK n \in DOMAIN sending : \E s \in {sending[n]} : ReadFrom(n, s)
      BY <3>1
    <3>3. PICK s : s = sending[n] /\ ReadFrom(n, s)
      BY <3>2
    <3>4. PartsBegin(s)
      BY <1>1, <1>3, <3>3 DEF ReadFrom, ComesTo, NotAnswered, WholeLanded, WholeHad, PartsLanded,
         TakesIt, PartAwaited, PartLanded, PartHad, EndHad, EndRead, Free, TextOf
    <3>5. /\ reading'.got = <<>> /\ reading'.read = reading.read /\ reading' \in Reading
          /\ reading'.got # None
      <4>1. reading' = [reading EXCEPT !.got = <<>>]
        BY <2>1, <3>1
      <4>2. <<>> \in Text
        BY DEF Text
      <4> QED BY <3>1, <4>1, <4>2, NoneIsNothing DEF Reading
    <3>6. s \in Sending /\ Parts[s.text] \in Nat
      <4>1. s \in Sending
        BY <3>3 DEF ClipTypes
      <4> QED BY <4>1, ClipboardAssumption DEF Sending
    <3>7. Had' = 0
      BY <3>5 DEF Had
    <3>8. InPart(s)'
      BY <1>1, <3>4, <3>5, <3>6, <3>7, TidingsSame DEF InPart, Begins, PartsBegin, Had
    <3>9. Coming(s, Had)'
      BY <1>1, <3>4, <3>7, TidingsSame DEF PartsBegin, Coming, NextLanded, TextOf
    <3>10. ComesTo(s)'
      BY <1>1, <3>8, <3>9 DEF ComesTo, PartAwaited
    <3>11. reading' # None
      BY <3>5, NoneIsNothing
    <3> QED BY <1>1, <2>1, <2>2, <3>1, <3>3, <3>5, <3>10, <3>11, WaitingFor DEF ReadFrom
  <2>3. ASSUME Waiting, worker.answer # None PROVE Waiting'
    BY <1>1, <2>1, <2>3, AnswerKept DEF Waiting
  <2> QED BY <1>1, <2>1, <2>2, <2>3, ReadMoves
<1>4. CASE thread.value.type # "incr" /\ Len(thread.value.parts) > MaxParts
  <2>1. FinishesRead(FALSE, <<>>)
    <3>1. ~(Len(thread.value.parts) <= MaxParts)
      BY <1>2, <1>4, ClipboardAssumption DEF Text
    <3> QED BY <1>4, <3>1 DEF Converted
  <2>2. /\ reading' = None /\ worker'.at = worker.at
        /\ worker'.read = worker.read /\ worker'.prior = worker.prior
        /\ worker.at = "waiting" /\ Waiting =>
             IF worker.answer # None THEN worker'.answer = worker.answer
             ELSE worker'.answer # None /\ ~worker'.answer.found
    BY <1>2, <1>4, <2>1, FinishIs
  <2>3. worker.at = "waiting" /\ Waiting => Waiting'
    BY <1>1, <2>2, AnswerKept, NotFound
  <2> QED BY <1>1, <2>2, <2>3, ReadMoves
<1>5. CASE thread.value.type # "incr" /\ FinishesRead(TRUE, thread.value.parts)
  <2>1. /\ reading' = None /\ worker'.at = worker.at
        /\ worker'.read = worker.read /\ worker'.prior = worker.prior
        /\ worker.at = "waiting" /\ Waiting =>
             IF worker.answer # None THEN worker'.answer = worker.answer
             ELSE worker'.answer # None /\ worker'.answer.text = thread.value.parts
    BY <1>2, <1>5, FinishIs
  <2>2. ASSUME worker.at = "waiting", Waiting, worker.answer = None PROVE Waiting'
    <3>1. \E n \in DOMAIN sending : \E s \in {sending[n]} : ReadFrom(n, s)
      BY <1>1, <2>2 DEF Waiting, Refused, Free
    <3>2. PICK n \in DOMAIN sending : \E s \in {sending[n]} : ReadFrom(n, s)
      BY <3>1
    <3>3. PICK s : s = sending[n] /\ ReadFrom(n, s)
      BY <3>2
    <3>4. WholeHad(s)
      BY <1>1, <1>5, <3>3 DEF ReadFrom, ComesTo, NotAnswered, WholeLanded, PartsLanded, PartsBegin,
         TakesIt, PartAwaited, PartLanded, PartHad, EndHad, EndRead, Free, Incr
    <3>5. Spent(s) /\ thread.value.parts = Whole(s.text)
      BY <3>4 DEF WholeHad, TextOf
    <3> QED BY <1>1, <2>1, <2>2, <3>3, <3>5, ReadEnds DEF ReadInv
  <2>3. worker.at = "waiting" /\ Waiting => Waiting'
    BY <1>1, <2>1, <2>2, AnswerKept
  <2> QED BY <1>1, <2>1, <2>3, ReadMoves
<1> QED BY <1>3, <1>4, <1>5 DEF Converted

LEMMA FinishesReads == ClipTypes /\ ClipTypes' /\ ReadInv /\ Finishes => ReadInv'
<1> SUFFICES ASSUME ClipTypes, ClipTypes', ReadInv, Finishes PROVE ReadInv'
  OBVIOUS
<1>1. /\ thread.at = "finish" /\ ~Quiet /\ Free' /\ thread.text \in Text /\ thread.found \in BOOLEAN
      /\ UNCHANGED <<landing, events, sending, unread>>
      /\ FinishesRead(thread.found, thread.text)
  BY QuietStops DEF Finishes, Server, Others, server_vars, app_vars, history, Turns, Waits,
     Free, ClipTypes, ThreadIsTyped
<1>2. /\ reading' = None /\ worker'.at = worker.at
      /\ worker'.read = worker.read /\ worker'.prior = worker.prior
      /\ worker.at = "waiting" /\ Waiting =>
           IF worker.answer # None THEN worker'.answer = worker.answer
           ELSE /\ worker'.answer # None
                /\ worker'.answer.found = thread.found /\ worker'.answer.text = thread.text
  BY <1>1, FinishIs
<1>3. ASSUME worker.at = "waiting", Waiting, worker.answer = None, thread.found PROVE Waiting'
  <2>1. \E n \in DOMAIN sending : \E s \in {sending[n]} : ReadFrom(n, s)
    BY <1>1, <1>3 DEF Waiting, Refused, Free
  <2>2. PICK n \in DOMAIN sending : \E s \in {sending[n]} : ReadFrom(n, s)
    BY <2>1
  <2>3. PICK s : s = sending[n] /\ ReadFrom(n, s)
    BY <2>2
  <2>4. EndRead(s)
    BY <1>1, <2>3 DEF ReadFrom, ComesTo, NotAnswered, WholeLanded, PartsLanded, PartsBegin,
       TakesIt, PartAwaited, PartLanded, PartHad, EndHad, WholeHad, Free
  <2>5. Spent(s) /\ thread.text = Whole(s.text)
    BY <2>4 DEF EndRead
  <2> QED BY <1>1, <1>2, <1>3, <2>3, <2>5, ReadEnds DEF ReadInv
<1>4. worker.at = "waiting" /\ Waiting => Waiting'
  BY <1>1, <1>2, <1>3, AnswerKept, NotFound
<1> QED BY <1>1, <1>2, <1>4, ReadMoves

LEMMA ReceivesPartReads == ClipTypes /\ ClipTypes' /\ ReadInv /\ ReceivesPart => ReadInv'
<1> SUFFICES ASSUME ClipTypes, ClipTypes', ReadInv, ReceivesPart PROVE ReadInv'
  OBVIOUS
<1>1. /\ thread.at = "chunk" /\ ~Quiet
      /\ UNCHANGED <<landing, events, sending, unread, worker>>
  BY QuietStops DEF ReceivesPart, Server, Others, server_vars, app_vars, history
<1>2. ASSUME Waiting, worker.answer = None PROVE Waiting'
  <2>1. /\ reading \in Reading /\ reading # None /\ reading.read = worker.read
        /\ \E n \in DOMAIN sending : \E s \in {sending[n]} : ReadFrom(n, s)
    BY <1>1, <1>2 DEF Waiting, Refused, Free, ClipTypes
  <2>2. PICK n \in DOMAIN sending : \E s \in {sending[n]} : ReadFrom(n, s)
    BY <2>1
  <2>3. PICK s : s = sending[n] /\ ReadFrom(n, s)
    BY <2>2
  <2>4. PartHad(s) \/ EndHad(s)
    BY <1>1, <2>3 DEF ReadFrom, ComesTo, NotAnswered, WholeLanded, PartsLanded, PartsBegin,
       TakesIt, PartAwaited, PartLanded, EndRead, WholeHad, Free
  <2>5. InParts /\ reading.got \in Text /\ InPart(s) /\ Had \in Nat
    <3>1. InPart(s) /\ reading.got # None
      BY <2>4 DEF PartHad, EndHad, InPart
    <3>2. reading.got \in Text
      BY <2>1, <3>1 DEF Reading
    <3> QED BY <2>1, <3>1, <3>2 DEF InParts, Had, Text
  <2>6. s \in Sending /\ Parts[s.text] \in Nat /\ s.text \in Copyable \cup Pasted
    <3>1. s \in Sending
      BY <2>3 DEF ClipTypes
    <3> QED BY <3>1, ClipboardAssumption DEF Sending
  <2>7. \A g \in Text : /\ [reading EXCEPT !.got = g].got = g
                        /\ [reading EXCEPT !.got = g].read = reading.read
                        /\ [reading EXCEPT !.got = g] # None /\ g # None
    <3>1. \A g \in Text : [reading EXCEPT !.got = g] \in Reading
      BY <2>1 DEF Reading
    <3> QED BY <2>1, <3>1, NoneIsNothing DEF Reading
  <2>8. ASSUME reading' # None, reading'.read = reading.read, ComesTo(s)' PROVE Waiting'
    BY <1>1, <1>2, <2>1, <2>3, <2>8, WaitingFor DEF ReadFrom
  <2>9. CASE EndHad(s)
    <3>1. /\ thread'.at = "finish" /\ thread'.found /\ thread'.text = reading.got
          /\ reading' = [reading EXCEPT !.got = <<>>]
      BY <2>5, <2>9 DEF ReceivesPart, EndHad, TextOf, Turns
    <3>2. reading.got = Whole(s.text)
      <4>1. Whole(s.text) \in Text /\ Len(Whole(s.text)) = Parts[s.text] /\ Had = Parts[s.text]
        BY <2>6, <2>9, WholeIsText DEF EndHad
      <4>2. \A i \in 1 .. Len(reading.got) : reading.got[i] = Whole(s.text)[i]
        BY <2>5, <2>6, <2>9 DEF InPart, Begins, Had, EndHad
      <4> DEFINE w == Whole(s.text)
                 S == (Copyable \cup Pasted) \X Nat
      <4>3. w \in Seq(S) /\ reading.got \in Seq(S) /\ Len(w) = Len(reading.got)
        BY <2>5, <4>1 DEF Text, Had
      <4>4. \A i \in 1 .. Len(reading.got) : reading.got[i] = w[i]
        BY <4>2
      <4> HIDE DEF w, S
      <4>5. reading.got = w
        BY <4>3, <4>4, SeqEqual
      <4> QED BY <4>5 DEF w
    <3>3. Spent(s)'
      BY <1>1, <2>9, TidingsSame DEF EndHad, Spent
    <3>4. ComesTo(s)'
      BY <3>1, <3>2, <3>3 DEF ComesTo, EndRead, Whole
    <3>5. <<>> \in Text
      BY DEF Text
    <3> QED BY <2>7, <2>8, <3>1, <3>4, <3>5
  <2>10. CASE PartHad(s)
    <3> DEFINE p == <<s.text, Had + 1>>
    <3>1. /\ thread.value.parts = <<p>> /\ <<p>> # <<>> /\ <<p>> \in Text /\ Len(<<p>>) = 1
          /\ Had < Parts[s.text] /\ Coming(s, Had + 1)
      BY <2>5, <2>6, <2>10 DEF PartHad, TextOf, Text
    <3>2. /\ DOMAIN (reading.got \o <<p>>) = 1 .. Had + 1 /\ reading.got \o <<p>> \in Text
          /\ Len(reading.got \o <<p>>) = Had + 1 /\ (reading.got \o <<p>>)[Had + 1] = p
          /\ \A i \in 1 .. Had : (reading.got \o <<p>>)[i] = reading.got[i]
      <4> DEFINE S == (Copyable \cup Pasted) \X Nat
      <4>1. p \in S /\ reading.got \in Seq(S)
        BY <2>5, <2>6 DEF Text
      <4> HIDE DEF p, S
      <4> QED BY <4>1 DEF Had, Text, S
    <3> HIDE DEF p
    <3>3. CASE Len(reading.got) + 1 > MaxParts
      <4>1. /\ thread'.at = "finish" /\ ~thread'.found
            /\ reading' = [reading EXCEPT !.got = <<>>]
        BY <2>5, <3>1, <3>3, ClipboardAssumption DEF ReceivesPart, Turns, Had
      <4>2. <<>> \in Text
        BY DEF Text
      <4>3. reading' # None /\ reading'.read = worker.read
        BY <2>1, <2>7, <4>1, <4>2
      <4> QED BY <1>1, <1>2, <4>1, <4>3 DEF Waiting
    <3>4. CASE Len(reading.got) + 1 <= MaxParts
      <4>1. Free' /\ reading' = [reading EXCEPT !.got = reading.got \o <<p>>]
        <5>1. /\ Turns(Waits) /\ reading' = [reading EXCEPT !.got = @ \o thread.value.parts]
          BY <2>5, <3>1, <3>4, ClipboardAssumption DEF ReceivesPart, Had
        <5> QED BY <2>1, <3>1, <5>1 DEF Turns, Waits, Free, Reading
      <4>2. PICK g \in Text : g = reading.got \o <<p>>
        BY <3>2
      <4>3. /\ reading'.got = g /\ reading'.read = reading.read /\ reading' # None
            /\ reading'.got # None /\ Had' = Had + 1
        BY <2>7, <3>2, <4>1, <4>2 DEF Had
      <4>4. Begins(g, Whole(s.text), Had + 1)
        <5>1. \A i \in 1 .. Had : g[i] = Whole(s.text)[i]
          BY <2>5, <3>2, <4>2 DEF InPart, Begins
        <5>2. g[Had + 1] = Whole(s.text)[Had + 1]
          <6>1. Had + 1 \in 1 .. Parts[s.text]
            BY <2>5, <2>6, <3>1
          <6> QED BY <2>6, <3>2, <4>2, <6>1, WholeIsText DEF p
        <5>3. \A i \in 1 .. Had + 1 : i \in 1 .. Had \/ i = Had + 1
          BY <2>5
        <5> QED BY <3>2, <4>2, <5>1, <5>2, <5>3 DEF Begins
      <4>5. InPart(s)'
        <5>1. Had + 1 <= Parts[s.text]
          BY <2>5, <2>6, <3>1
        <5>2. NoneNotified'
          BY <1>1, <2>5, TidingsSame DEF InPart
        <5> QED BY <4>3, <4>4, <5>1, <5>2 DEF InPart, Begins, Whole
      <4>6. Coming(s, Had)'
        BY <1>1, <3>1, <4>3, TidingsSame DEF Coming, NextLanded, TextOf
      <4>7. ComesTo(s)'
        BY <4>1, <4>5, <4>6 DEF ComesTo, PartAwaited
      <4> QED BY <2>8, <4>3, <4>7
    <3> QED BY <2>5, <3>3, <3>4, ClipboardAssumption DEF Had
  <2> QED BY <2>4, <2>9, <2>10
<1>3. ASSUME Waiting, worker.answer # None PROVE Waiting'
  <2>1. reading' = None
    BY <1>3 DEF Waiting, InParts, ReceivesPart
  <2> QED BY <1>1, <1>3, <2>1, AnswerKept
<1> QED BY <1>1, <1>2, <1>3, ReadMoves

LEMMA AppAnswersReads ==
  ASSUME ClipTypes, ClipTypes', ReadInv, NEW n \in DOMAIN sending, AppAnswers(n)
  PROVE  ReadInv'
<1> DEFINE l == [kind |-> "landed"]
           t == [kind |-> "notify", found |-> TRUE]
           f == [kind |-> "notify", found |-> FALSE]
<1>1. /\ sending[n].at = "asked" /\ ~Quiet /\ sending[n] \in Sending /\ sending \in Seq(Sending)
      /\ UNCHANGED <<unread, reading, worker, thread>> /\ events \in Seq(Event)
  <2>1. ~Quiet
    BY QuietStops
  <2>2. sending[n] \in Sending /\ sending \in Seq(Sending) /\ events \in Seq(Event)
    BY DEF ClipTypes
  <2> QED BY <2>1, <2>2 DEF AppAnswers, Shared, shared_vars, history
<1>2. PICK at \in {"over", "sending"} : sending' = [sending EXCEPT ![n].at = at]
  BY DEF AppAnswers
<1> DEFINE u == [sending[n] EXCEPT !.at = at]
<1>3. u.at = at /\ \A g \in {"app", "text", "read", "sent", "deletes"} : u[g] = sending[n][g]
  BY <1>1, <1>2 DEF Sending
<1>4. /\ DOMAIN sending' = DOMAIN sending /\ sending'[n] = u
      /\ \A m \in DOMAIN sending : m # n => sending'[m] = sending[m]
  BY <1>1, <1>2
<1> HIDE DEF u
<1>5. \A m \in DOMAIN sending : sending'[m].read = sending[m].read
  BY <1>3, <1>4
<1>6. l \in Event /\ t \in Event /\ f \in Event /\ l.kind = "landed" /\ t.kind = "notify" /\ t.found
      /\ f.kind = "notify" /\ ~f.found
  BY EventsAre
<1>7. \/ at = "over" /\ events' = Append(events, f) /\ landing' = landing
      \/ /\ at = "over" /\ events' = Append(Append(events, l), t)
         /\ landing' = TextOf(Whole(sending[n].text))
      \/ at = "sending" /\ events' = Append(Append(events, l), t) /\ landing' = Incr
  <2>1. \/ sending' = [sending EXCEPT ![n].at = "over"] /\ events' = Append(events, f)
           /\ landing' = landing
        \/ /\ sending' = [sending EXCEPT ![n].at = "over"]
           /\ events' = Append(Append(events, l), t) /\ landing' = TextOf(Whole(sending[n].text))
        \/ /\ sending' = [sending EXCEPT ![n].at = "sending"]
           /\ events' = Append(Append(events, l), t) /\ landing' = Incr
    BY <1>1, LandsAre DEF AppAnswers, Lands, TextOf, Incr
  <2>2. \A b \in {"over", "sending"} : sending' = [sending EXCEPT ![n].at = b] => b = at
    <3>1. ASSUME NEW b \in {"over", "sending"}, sending' = [sending EXCEPT ![n].at = b]
          PROVE  b = at
      <4>1. sending'[n] = [sending[n] EXCEPT !.at = b]
        BY <1>1, <3>1
      <4>2. sending'[n].at = b
        BY <1>1, <4>1 DEF Sending
      <4> QED BY <1>3, <1>4, <4>2
    <3> QED BY <3>1
  <2> HIDE DEF l, t, f
  <2> QED BY <2>1, <2>2
<1> HIDE DEF l, t, f
<1>8. ASSUME Waiting, worker.answer = None PROVE Waiting'
  <2>1. CASE thread.at = "finish" /\ ~thread.found
    BY <1>1, <1>8, <2>1 DEF Waiting
  <2>2. CASE ~(thread.at = "finish" /\ ~thread.found)
    <3>1. /\ reading # None /\ reading.read = worker.read
          /\ \E k \in DOMAIN sending : \E s \in {sending[k]} : ReadFrom(k, s)
      BY <1>1, <1>8, <2>2 DEF Waiting, Refused, AllOver
    <3>2. PICK k \in DOMAIN sending : \E s \in {sending[k]} : ReadFrom(k, s)
      BY <3>1
    <3>3. PICK s : s = sending[k] /\ ReadFrom(k, s)
      BY <3>2
    <3>4. k = n
      BY <1>1, <3>3 DEF ReadFrom
    <3>5. NotAnswered(s)
      BY <1>1, <3>3, <3>4 DEF ReadFrom, ComesTo, WholeLanded, WholeHad, Spent, PartsLanded,
         PartsBegin, Coming, NextLanded, PartAwaited, PartLanded, PartHad, EndHad, EndRead
    <3>6. \A m \in DOMAIN sending' : m # n => sending'[m].at = "over"
      BY <1>4, <3>3, <3>4 DEF ReadFrom
    <3>7. CASE at = "over" /\ events' = Append(events, f) /\ landing' = landing
      <4>1. AllOver'
        BY <1>3, <1>4, <3>6, <3>7 DEF AllOver
      <4>2. NoneLanded' /\ NoneFound'
        BY <1>6, <3>5, <3>7, TidingsBehind DEF NotAnswered
      <4>3. Refused'
        BY <1>1, <3>5, <3>7, <4>1, <4>2 DEF Refused, NotAnswered, Free
      <4> QED BY <1>1, <1>8, <3>1, <4>3 DEF Waiting
    <3>8. CASE events' = Append(Append(events, l), t)
      <4>1. Announced'
        BY <1>1, <1>6, <3>5, <3>8, AnnouncedBehind DEF NotAnswered
      <4>2. Free' /\ reading'.got = None
        BY <1>1, <3>5 DEF NotAnswered, Free
      <4>3. PICK v : v = u
        OBVIOUS
      <4>4. v.at = at /\ v.text = sending[n].text /\ v.sent = 0 /\ v.deletes = 0
            /\ v.read = worker.read
        BY <1>3, <3>3, <3>4, <3>5, <4>3 DEF NotAnswered, ReadFrom
      <4>5. ASSUME at = "over", landing' = TextOf(Whole(sending[n].text)) PROVE ComesTo(v)'
        BY <4>1, <4>2, <4>4, <4>5 DEF ComesTo, WholeLanded, TextOf, Whole
      <4>6. ASSUME at = "sending", landing' = Incr PROVE ComesTo(v)'
        BY <4>1, <4>2, <4>4, <4>6 DEF ComesTo, PartsLanded, Incr
      <4>7. ComesTo(v)'
        <5>1. f # t
          BY <1>6
        <5>2. Append(events, f) # Append(Append(events, l), t)
          <6>1. Len(Append(events, f)) = Len(events) + 1 /\ Append(events, l) \in Seq(Event)
                /\ Len(Append(events, l)) = Len(events) + 1 /\ Len(events) \in Nat
            BY <1>1, <1>6
          <6>2. Len(Append(Append(events, l), t)) = Len(events) + 2
            BY <1>6, <6>1
          <6> QED BY <6>1, <6>2
        <5> QED BY <1>7, <3>8, <4>5, <4>6, <5>2
      <4> QED BY <1>1, <1>4, <1>8, <3>1, <3>6, <4>3, <4>4, <4>7, WaitingFor
    <3> QED BY <1>7, <3>7, <3>8
  <2> QED BY <2>1, <2>2
<1>9. ASSUME Waiting, worker.answer # None PROVE Waiting'
  BY <1>1, <1>9, AnswerKept DEF Waiting
<1> QED BY <1>1, <1>4, <1>5, <1>8, <1>9, ReadMoves

LEMMA AppSendsReads ==
  ASSUME ClipTypes, ClipTypes', ReadInv, NEW n \in DOMAIN sending, AppSends(n)
  PROVE  ReadInv'
<1>1. /\ sending[n].at = "sending" /\ sending[n].deletes > 0 /\ ~Quiet
      /\ sending[n] \in Sending /\ sending \in Seq(Sending)
      /\ UNCHANGED <<unread, reading, worker, thread>> /\ events \in Seq(Event)
  <2>1. ~Quiet
    BY QuietStops
  <2>2. sending[n] \in Sending /\ sending \in Seq(Sending) /\ events \in Seq(Event)
    BY DEF ClipTypes
  <2> QED BY <2>1, <2>2 DEF AppSends, Shared, shared_vars, history
<1> DEFINE over == sending[n].sent = Parts[sending[n].text]
           d == sending[n].deletes - 1
           k == IF over THEN sending[n].sent ELSE sending[n].sent + 1
           at == IF over THEN "over" ELSE sending[n].at
           u == [sending[n] EXCEPT !.deletes = d, !.sent = k, !.at = at]
<1>2. sending' = [sending EXCEPT ![n] = u]
  BY <1>1 DEF AppSends
<1>3. /\ over => u.at = "over" /\ u.sent = sending[n].sent
      /\ ~over => u.at = "sending" /\ u.sent = sending[n].sent + 1
      /\ u.read = sending[n].read /\ u.text = sending[n].text /\ u.deletes = sending[n].deletes - 1
  <2> HIDE DEF d, k
  <2>1. /\ u.at = at /\ u.sent = k /\ u.read = sending[n].read /\ u.text = sending[n].text
        /\ u.deletes = d
    BY <1>1 DEF Sending
  <2> QED BY <1>1, <2>1 DEF d, k
<1> HIDE DEF u, d, k, at
<1>4. /\ DOMAIN sending' = DOMAIN sending /\ sending'[n] = u
      /\ \A m \in DOMAIN sending : m # n => sending'[m] = sending[m]
  BY <1>1, <1>2
<1>5. \A m \in DOMAIN sending : sending'[m].read = sending[m].read
  BY <1>3, <1>4
<1>6. (NoneLanded => OneLanded') /\ (NoneNotified => NoneNotified')
  <2> DEFINE l == [kind |-> "landed"]
  <2>1. l \in Event /\ l.kind = "landed"
    BY EventsAre
  <2>2. events' = Append(events, l)
    BY <1>1, LandsAre DEF AppSends, Lands
  <2> HIDE DEF l
  <2> QED BY <2>1, <2>2, TidingsBehind
<1>7. landing' = TextOf(IF over THEN <<>> ELSE <<<<sending[n].text, sending[n].sent + 1>>>>)
  BY DEF AppSends, Lands, TextOf
<1>8. ASSUME Waiting, worker.answer = None PROVE Waiting'
  <2>1. CASE thread.at = "finish" /\ ~thread.found
    BY <1>1, <1>8, <2>1 DEF Waiting
  <2>2. CASE ~(thread.at = "finish" /\ ~thread.found)
    <3>1. /\ reading # None /\ reading.read = worker.read
          /\ \E m \in DOMAIN sending : \E s \in {sending[m]} : ReadFrom(m, s)
      BY <1>1, <1>8, <2>2 DEF Waiting, Refused, AllOver
    <3>2. PICK m \in DOMAIN sending : \E s \in {sending[m]} : ReadFrom(m, s)
      BY <3>1
    <3>3. PICK s : s = sending[m] /\ ReadFrom(m, s)
      BY <3>2
    <3>4. m = n /\ s = sending[n] /\ s.at = "sending" /\ s.deletes > 0
      BY <1>1, <3>3 DEF ReadFrom
    <3>5. PICK v : v = u
      OBVIOUS
    <3>6. v.read = s.read /\ v.text = s.text /\ v = sending'[n]
      BY <1>3, <1>4, <3>4, <3>5
    <3>7. ASSUME ComesTo(v)' PROVE Waiting'
      <4>1. \A i \in DOMAIN sending' : i # n => sending'[i].at = "over"
        BY <1>4, <3>3, <3>4 DEF ReadFrom
      <4>2. s.read = worker.read
        BY <3>3 DEF ReadFrom
      <4> QED BY <1>1, <1>4, <1>8, <3>1, <3>6, <3>7, <4>1, <4>2, WaitingFor
    <3>8. s \in Sending /\ Parts[s.text] \in Nat
      BY <1>1, <3>4, ClipboardAssumption DEF Sending
    <3>9. ASSUME NEW have, Coming(s, have) PROVE Coming(v, have)'
      <4>1. /\ s.deletes = 1 /\ s.sent = have /\ landing = None /\ NoneLanded
        BY <3>4, <3>8, <3>9 DEF Coming, NextLanded, Sending
      <4>2. OneLanded'
        BY <1>6, <4>1
      <4>3. CASE over
        <5>1. v.at = "over" /\ v.sent = have /\ have = Parts[v.text] /\ landing' = TextOf(<<>>)
          BY <1>3, <1>7, <3>4, <3>5, <4>1, <4>3
        <5> QED BY <4>2, <5>1 DEF Coming, NextLanded, TextOf
      <4>4. CASE ~over
        <5>1. /\ v.at = "sending" /\ v.sent = have + 1 /\ v.deletes = 0
              /\ landing' = TextOf(<<<<v.text, have + 1>>>>)
          BY <1>3, <1>7, <3>4, <3>5, <4>1, <4>4
        <5> QED BY <4>2, <5>1 DEF Coming, NextLanded, TextOf
      <4> QED BY <4>3, <4>4
    <3>10. InPart(s) => InPart(v)'
      BY <1>1, <1>6, <3>6 DEF InPart, Had, Begins, Whole
    <3>11. CASE PartsBegin(s)
      <4>1. Coming(v, 0)'
        BY <3>9, <3>11 DEF PartsBegin
      <4>2. PartsBegin(v)'
        BY <1>1, <1>6, <3>11, <4>1 DEF PartsBegin, Incr
      <4> QED BY <3>7, <4>2 DEF ComesTo
    <3>12. CASE PartAwaited(s)
      <4>1. PICK h : h = Had /\ h = Had'
        BY <1>1 DEF Had
      <4>2. Coming(v, h)'
        BY <3>9, <3>12, <4>1 DEF PartAwaited
      <4>3. PartAwaited(v)'
        BY <1>1, <3>10, <3>12, <4>1, <4>2 DEF PartAwaited, Free
      <4> QED BY <3>7, <4>3 DEF ComesTo
    <3>13. CASE PartHad(s)
      <4>1. PICK h : h = Had /\ h = Had'
        BY <1>1 DEF Had
      <4>2. Coming(v, h + 1)'
        BY <3>9, <3>13, <4>1 DEF PartHad
      <4>3. PartHad(v)'
        BY <1>1, <3>6, <3>10, <3>13, <4>1, <4>2 DEF PartHad, TextOf
      <4> QED BY <3>7, <4>3 DEF ComesTo
    <3>14. PartsBegin(s) \/ PartAwaited(s) \/ PartHad(s)
      BY <3>3, <3>4, <3>8 DEF ReadFrom, ComesTo, NotAnswered, WholeLanded, WholeHad, Spent,
         PartsLanded, PartLanded, NextLanded, EndHad, EndRead, Sending
    <3> QED BY <3>11, <3>12, <3>13, <3>14
  <2> QED BY <2>1, <2>2
<1>9. ASSUME Waiting, worker.answer # None PROVE Waiting'
  BY <1>1, <1>9, AnswerKept DEF Waiting
<1> QED BY <1>1, <1>4, <1>5, <1>8, <1>9, ReadMoves

LEMMA ReadInit == ClipboardInit => ReadInv
BY DEF ClipboardInit, ReadInv, ReadsInOrder, Quiet, AllOver, NoneLanded, NoneNotified, Free, Waits,
       Idle

LEMMA ReadNext == ClipTypes /\ ReadInv /\ [ClipboardNext]_vars => ReadInv'
<1> SUFFICES ASSUME ClipTypes, ReadInv, [ClipboardNext]_vars PROVE ReadInv'
  OBVIOUS
<1>0. ClipTypes'
  BY ClipTypesNext
<1>1. CASE WorkerNext
  BY <1>0, <1>1, WorkerReads
<1>2. CASE ThreadNext
  BY <1>0, <1>2, ThreadServesReads, MeetsNotifyReads, MeetsLandedReads, TakesLandedReads,
     ConvertedReads, ReceivesPartReads, FinishesReads, Zenon DEF ThreadNext
<1>3. CASE AppsNext
  BY <1>0, <1>3, AppsStep, AppsAskReads, AppAnswersReads, AppSendsReads, Zenon
<1>4. CASE UNCHANGED vars
  <2>1. UNCHANGED <<landing, reading, sending, unread, worker>> /\ thread' = thread
        /\ UNCHANGED events
    BY <1>4 DEF vars, server_vars, shared_vars, app_vars, history
  <2> QED BY <1>0, <2>1, TidingsSame, ReadFrame
<1> QED BY <1>1, <1>2, <1>3, <1>4 DEF ClipboardNext

\* The text a read brings back (Converted, ReceivesPart) is the one its owner had, whole, for any
\* number of parts, as long as no earlier read was given up or found too large.
THEOREM ReadsAreWholeAlways == ClipboardSpec => []ReadsAreWhole
<1>1. ClipboardInit => ClipTypes /\ ReadInv
  BY ClipTypesInit, ReadInit
<1>2. ClipTypes /\ ReadInv /\ [ClipboardNext]_vars => (ClipTypes /\ ReadInv)'
  BY ClipTypesNext, ReadNext
<1>3. ReadInv => ReadsAreWhole
  BY DEF ReadInv, ReadsAreWhole
<1> QED BY <1>1, <1>2, <1>3, PTL DEF ClipboardSpec
=============================================================================
