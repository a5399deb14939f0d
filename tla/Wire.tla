-------------------------------- MODULE Wire --------------------------------
(***************************************************************************)
(* The words both ends of the compux wire share: which actions exist, and  *)
(* the four classifications the gate, the control reader and the library's *)
(* transport decide by.  The lists are those of native/compux/src/wire.rs; *)
(* lib/compux/protocol.ex pins @read_only to the same list.                *)
(***************************************************************************)

\* Actions that send input to the machine in front of the person.
InputActions ==
  {"mouse_move", "left_click", "right_click", "double_click",
   "left_click_drag", "scroll", "type", "key", "paste", "press", "set_value",
   "focus", "select", "toggle", "expand", "collapse", "scroll_to"}

\* Actions that carry no mutation_seq and earn no receipt.
ReadOnlyActions ==
  {"screenshot", "mouse_move", "wait", "inspect", "wait_for_change",
   "elements", "windows", "wait_for", "select_target", "release_target",
   "probe", "idle_ms", "wait_for_idle", "hello"}

\* Actions reachable on a raw Port, admitted without any check.
UngatedActions == {"hello", "observe_start", "observe_stop"}

\* Accessibility verbs: one message through the platform, no synthetic event.
MessageActions ==
  {"press", "set_value", "focus", "select", "toggle", "expand", "collapse",
   "scroll_to"}

\* Actions whose one platform call may run for seconds.
LongActions == {"scroll", "type"}

\* Actions that post synthetic events one at a time.
EventActions == InputActions \ (MessageActions \cup {"type"})

TouchesInput(action) == action \in InputActions

BarredByAPause(action) == TouchesInput(action) \/ action = "select_target"

CarriesMutationSeq(action) == action \notin ReadOnlyActions

AnswersWithAck(action) == action \in {"observe_start", "observe_stop"}

WireActions ==
  InputActions \cup ReadOnlyActions \cup UngatedActions
    \cup {"request_permissions"}
=============================================================================
