------------------------------ MODULE MCInput -------------------------------
(* What a helper posts.  Seat has one window to be bound, in two places    *)
(* and two sizes, another window a listing names, and a popup none does;   *)
(* HeldInput has two keys on one or two layouts, pressed by one or two     *)
(* helpers.  They share no state, and a behaviour follows one of them.     *)
EXTENDS Seat, HeldInput, TLC

VARIABLE follows

Plain   == [ctrl |-> 37, shift |-> 50]
Swapped == [ctrl |-> 50, shift |-> 37]
Without == [ctrl |-> Absent, shift |-> 50]

OneLayout    == {Plain}
OtherLayouts == {Plain, Swapped}
MissingKey   == {Plain, Without}

Chord == [items |-> <<"ctrl", "shift">>, pastes |-> FALSE]
Twice == [items |-> <<"ctrl", "shift", "ctrl">>, pastes |-> FALSE]
Paste == [items |-> <<"ctrl">>, pastes |-> TRUE]

ChordOrPaste == {Twice, Paste}
Keys         == {Chord}

\* Places are told apart by nothing, nor are sizes.  The two slots have the names of
\* the two places and the two pids those of the two sizes, so they are alike with them.
Alike == Permutations(Places) \cup Permutations(Sizes)

\* What is not followed begins in one way, and never changes.
InputInit ==
  /\ SeatInit /\ HeldInit
  /\ \/ follows = "window" /\ layout = Plain
     \/ follows = "keys" /\ front \in Windows

InputNext ==
  \/ follows = "window" /\ SeatNext /\ UNCHANGED <<follows, held_vars>>
  \/ follows = "keys" /\ HeldNext /\ UNCHANGED <<follows, seat_vars>>

\* What is not followed tells no two states apart.
Followed == <<follows, IF follows = "keys" THEN held_vars ELSE seat_vars>>

InputSpec == InputInit /\ [][InputNext]_<<follows, held_vars, seat_vars>>
=============================================================================
