---------------------------- MODULE MCClipboard ----------------------------
(* Two applications; texts of one part and of two, and one too large. *)
EXTENDS Clipboard, TLC

MCParts == [short |-> 1, long |-> 2, huge |-> 3, ours |-> 2, brief |-> 1]

Alike == Permutations(Apps)
=============================================================================
