----------------------------- MODULE MCObserver -----------------------------
(* One pinned browser with a normal and a private window, and a stranger   *)
(* the owner does not have recorded.                                       *)
EXTENDS Observer

MCBundleOf == [p \in Pids |-> IF p = "p1" THEN "browser" ELSE "stranger"]
MCWindowOwner == [w \in Windows |-> "p1"]
MCRoleOf == [e \in Elements |-> CASE e = "password" -> "secure"
                                  [] e = "label" -> "label"
                                  [] OTHER -> "editable"]
MCWindowOf == [e \in Elements |-> IF e = "diary" THEN "private" ELSE "public"]

\* An app answers everything, nothing, or all but two things nothing relates.
TwoMissing ==
  {Attributes, {}, Attributes \ {"AXValue", "AXURL"}, Attributes \ {"AXTitle", "clear"}}

\* Pages differ in nothing but their titles.
Alike == Permutations(Pages)
=============================================================================
