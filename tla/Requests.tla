------------------------------ MODULE Requests ------------------------------
(***************************************************************************)
(* The grammar of a request, which two programs in two languages each      *)
(* decide by hand.  The library (protocol.ex) refuses a caller's params or *)
(* builds the request it sends from a list of fields; the helper refuses a *)
(* line (wire.rs, semantic.rs), and then each action reads its arguments   *)
(* (main.rs).  The model is the two decisions and the request between them.*)
(*                                                                         *)
(* A value is what the two sides tell apart of it: absent, null, false,    *)
(* true, an integer within the field's bounds or not, a number that is no  *)
(* integer, a string that is empty, in the field's table, of another text, *)
(* too long or the word semantic, and an object or a list as the field     *)
(* wants it, with fractions for its whole numbers, or neither.             *)
(***************************************************************************)
EXTENDS Wire

Values ==
  {"absent", "null", "false", "true", "fit", "unfit", "fraction", "empty", "known", "text",
   "long", "semantic", "object", "fractions", "stray"}

LibraryActions ==
  (InputActions \cup ReadOnlyActions) \ {"probe", "idle_ms", "wait_for_idle", "hello"}

Addressed ==
  {"left_click", "right_click", "double_click", "mouse_move", "left_click_drag", "scroll",
   "inspect", "press", "set_value", "focus", "select", "toggle", "expand", "collapse",
   "scroll_to"}

ElementActions ==
  {"press", "set_value", "focus", "select", "toggle", "expand", "collapse", "scroll_to"}

PointOrElement == {"left_click", "right_click", "double_click", "mouse_move", "scroll"}

Viewing == {"screenshot", "elements", "wait_for_change", "wait_for"}

Targetable ==
  (Addressed \cup Viewing \cup {"type", "key", "paste"}) \ {"wait_for_change"}

\* ---- params and requests ---------------------------------------------------------------

FindFields  == {"role", "name", "stray"}
UntilFields == FindFields \cup {"kind", "element_ref", "value", "contains", "scope",
                                "timeout_ms"}

\* What an until reads, by its kind.
Kinds == {"appears", "disappears", "enabled", "value", "window_title", "text", "menu_open",
          "menu_closed"}

\* stray: a field neither side names.
Fields ==
  {"observation_id", "element_ref", "target_id", "region", "x", "y", "from", "to", "display",
   "jpeg_quality", "rulers", "marks", "annotate_point", "modifiers", "value", "on",
   "window_id", "timeout_ms", "poll_ms", "scope", "query", "skeleton", "root", "text",
   "chord", "ms", "direction", "amount", "until", "check", "screenshot_after", "stray"}

\* The params of a call and the body of a request: its fields; the query's own;
\* the until's own, its kind apart; the check's own, and the until inside it.
Params ==
  [action : LibraryActions, top : [Fields -> Values],
   query : [FindFields -> Values],
   until : [UntilFields -> Values], kind : Kinds,
   check : [{"kind", "until", "stray"} -> Values],
   checked : [UntilFields -> Values], checked_kind : Kinds]

Has(m, f)   == m[f] # "absent"
Given(m, f) == m[f] \notin {"absent", "null"}
Named(m, f) == m[f] \in {"known", "text", "long", "semantic"}
Text(m, f)  == Named(m, f) \/ m[f] = "empty"
Fit(m, f)   == m[f] = "fit"
Optional(m, f, values) == m[f] \in {"absent", "null"} \cup values

HasPoint(t) == \E f \in {"x", "y", "from", "to"} : Has(t, f)

\* ---- the library: conditions and finds -----------------------------------------------------

\* validate_query, by the caller only_fields has left it to.
FindAccepted(m) ==
  /\ Has(m, "role") \/ Has(m, "name")
  /\ Has(m, "role") => m["role"] = "known"
  /\ Has(m, "name") => Named(m, "name")

QueryAccepted(p) ==
  Has(p.top, "query") =>
    p.top["query"] = "object" /\ ~Has(p.query, "stray") /\ FindAccepted(p.query)

\* until_fields: what a condition of a kind reads, beside kind and timeout_ms.
ByReference(kind, u) ==
  kind \in {"enabled", "value"} \/ (kind = "disappears" /\ Has(u, "element_ref"))

ByFinding(kind, u) == kind \in {"appears", "disappears"} /\ ~ByReference(kind, u)

UntilReads(kind, u) ==
  {f \in UntilFields :
     \/ f = "element_ref" /\ ByReference(kind, u)
     \/ f = "value" /\ kind = "value"
     \/ f \in {"role", "name", "scope"} /\ ByFinding(kind, u)
     \/ f \in {"contains", "scope"} /\ kind \in {"window_title", "text"}}

OnlyItsOwn(kind, u) ==
  \A f \in UntilFields \ {"kind", "timeout_ms"} :
    Has(u, f) => f \in UntilReads(kind, u)

\* validate_until.  A null timeout is taken for none, and sent as it stands.
UntilAccepted(value, kind, u, listed) ==
  /\ value = "object" /\ u["kind"] = "known"
  /\ OnlyItsOwn(kind, u)
  /\ ByReference(kind, u) =>
       Named(u, "element_ref") /\ listed /\ (kind = "value" => Text(u, "value"))
  /\ ByFinding(kind, u) => FindAccepted(u)
  /\ kind \in {"window_title", "text"} => Named(u, "contains")
  /\ Has(u, "scope") => u["scope"] = "known"
  /\ Optional(u, "timeout_ms", {"fit"})

\* ---- the library: validate -----------------------------------------------------------------

\* check_target.
TargetAccepted(action, t) ==
  IF action \in ElementActions THEN Named(t, "element_ref") /\ ~HasPoint(t)
  ELSE IF action \in PointOrElement THEN ~(Named(t, "element_ref") /\ HasPoint(t))
  ELSE ~Has(t, "element_ref")

\* check_addressing.
AddressingAccepted(action, t) ==
  /\ action \in Addressed =>
       Named(t, "observation_id") /\ ~Has(t, "region") /\ TargetAccepted(action, t)
  /\ action \in Viewing =>
       (Has(t, "observation_id") => Named(t, "observation_id")) /\ ~Has(t, "element_ref")
  /\ action = "type" =>
       /\ Has(t, "element_ref") => Named(t, "observation_id") /\ ~HasPoint(t)
       /\ Has(t, "observation_id") => Has(t, "element_ref")
  /\ action \notin Addressed \cup Viewing \cup {"type"} =>
       ~Has(t, "observation_id") /\ ~Has(t, "element_ref")

\* check_binding.
BindingAccepted(action, t) ==
  Has(t, "target_id") => action \in Targetable /\ Named(t, "target_id")

\* check_evidence, check_kind: the word of a check, or the object that waits.
EvidenceAccepted(p) ==
  /\ ~Has(p.top, "screenshot_after")
  /\ Has(p.top, "check") =>
       /\ CarriesMutationSeq(p.action)
       /\ \/ p.top["check"] = "known"
          \/ p.top["check"] = "semantic" /\ Named(p.top, "element_ref")
          \/ /\ p.top["check"] = "object"
             /\ p.check["kind"] = "semantic" /\ ~Has(p.check, "stray")
             /\ UntilAccepted(p.check["until"], p.checked_kind, p.checked,
                              Named(p.top, "observation_id"))

\* pointer_target: a control, or two coordinates.
PointerAccepted(t) == Named(t, "element_ref") \/ (Fit(t, "x") /\ Fit(t, "y"))

\* listing, listing_combination: a flag that is false is one that is absent.
ListingAccepted(p) ==
  LET t == p.top
  IN  /\ Has(t, "scope") => t["scope"] = "known"
      /\ QueryAccepted(p)
      /\ Optional(t, "skeleton", {"false", "true"})
      /\ Has(t, "root") => Named(t, "root") /\ ~Has(t, "scope") /\ Named(t, "observation_id")
      /\ ~(t["skeleton"] = "true" /\ Has(t, "query"))

DisplayActions ==
  LibraryActions \ {"select_target", "release_target", "paste", "type", "key", "wait"}

\* validate_action: the arguments of each action.
ArgumentsAccepted(p) ==
  LET a == p.action
      t == p.top
  IN  /\ a \in DisplayActions => Optional(t, "display", {"fit"})
      /\ a \in Viewing => Optional(t, "region", {"object"})
      /\ a = "screenshot" =>
           /\ Optional(t, "jpeg_quality", {"fit"}) /\ Optional(t, "annotate_point", {"object"})
           /\ Optional(t, "rulers", {"false", "true"}) /\ Optional(t, "marks", {"false", "true"})
      /\ a \in PointOrElement => PointerAccepted(t)
      /\ a \in PointOrElement \ {"scroll"} => Optional(t, "modifiers", {"object"})
      /\ a = "scroll" => t["direction"] = "known" /\ Fit(t, "amount")
      /\ a = "inspect" => Fit(t, "x") /\ Fit(t, "y")
      /\ a = "left_click_drag" => t["from"] = "object" /\ t["to"] = "object"
      /\ a \in ElementActions => Named(t, "element_ref")
      /\ a = "set_value" => Text(t, "value") /\ t["value"] # "long"
      /\ a = "toggle" => t["on"] \in {"false", "true"}
      /\ a = "select_target" => Fit(t, "window_id")
      /\ a = "wait_for" => UntilAccepted(t["until"], p.kind, p.until, Named(t, "observation_id"))
      /\ a = "wait_for_change" =>
           Optional(t, "timeout_ms", {"fit"}) /\ Optional(t, "poll_ms", {"fit"})
      /\ a = "elements" => ListingAccepted(p)
      /\ a \in {"paste", "type"} => Named(t, "text") /\ t["text"] # "long"
      /\ a = "type" => (Has(t, "element_ref") => Named(t, "element_ref"))
      /\ a = "key" => Named(t, "chord")
      /\ a = "wait" => Fit(t, "ms")

\* validate.
LibraryAccepts(p) ==
  /\ AddressingAccepted(p.action, p.top) /\ BindingAccepted(p.action, p.top)
  /\ EvidenceAccepted(p) /\ ArgumentsAccepted(p)

\* ---- the request the library sends ----------------------------------------------------------

\* What validate_action and the put_s copy of the params, by action.
Carries(a, t) ==
  {f \in Fields :
     \/ f \in {"observation_id", "target_id", "check"}
     \/ f = "display" /\ a \in DisplayActions
     \/ f = "region" /\ a \in Viewing
     \/ f = "element_ref" /\ (a \in ElementActions \/ a = "type")
     \/ f = "element_ref" /\ a \in PointOrElement /\ Named(t, "element_ref")
     \/ f \in {"x", "y"} /\ a \in PointOrElement /\ ~Named(t, "element_ref")
     \/ f \in {"x", "y"} /\ a = "inspect"
     \/ f \in {"jpeg_quality", "rulers", "marks", "annotate_point"} /\ a = "screenshot"
     \/ f = "modifiers" /\ a \in PointOrElement \ {"scroll"}
     \/ f \in {"direction", "amount"} /\ a = "scroll"
     \/ f \in {"from", "to"} /\ a = "left_click_drag"
     \/ f = "value" /\ a = "set_value"
     \/ f = "on" /\ a = "toggle"
     \/ f = "window_id" /\ a = "select_target"
     \/ f = "until" /\ a = "wait_for"
     \/ f \in {"timeout_ms", "poll_ms"} /\ a = "wait_for_change"
     \/ f \in {"scope", "query", "skeleton", "root"} /\ a = "elements"
     \/ f = "text" /\ a \in {"paste", "type"}
     \/ f = "chord" /\ a = "key"
     \/ f = "ms" /\ a = "wait"}

\* put_display, maybe_put: no null is written, and no flag that is false.
PutAs(f, v) ==
  IF v = "null" \/ (v = "false" /\ f \in {"rulers", "marks", "skeleton"}) THEN "absent" ELSE v

SentFields(a, t) ==
  [f \in Fields |-> IF f \in Carries(a, t) THEN PutAs(f, t[f]) ELSE "absent"]

\* A query, an until and a check go out as they came.
Sent(p) ==
  [action |-> p.action, top |-> SentFields(p.action, p.top), query |-> p.query,
   until |-> p.until, kind |-> p.kind, check |-> p.check,
   checked |-> p.checked, checked_kind |-> p.checked_kind]

\* ---- the helper: parse -------------------------------------------------------------------------

\* find, query_of.
FindRead(m) ==
  /\ m["role"] \in {"absent", "known"}
  /\ Has(m, "name") => Named(m, "name")
  /\ Has(m, "role") \/ Has(m, "name")

\* parse_until: the fields a kind takes.
Takes(kind, u) ==
  IF kind = "appears" THEN {"role", "name", "scope"}
  ELSE IF kind = "disappears"
  THEN IF Has(u, "element_ref") THEN {"element_ref"} ELSE {"role", "name", "scope"}
  ELSE IF kind = "enabled" THEN {"element_ref"}
  ELSE IF kind = "value" THEN {"element_ref", "value"}
  ELSE IF kind \in {"window_title", "text"} THEN {"contains", "scope"}
  ELSE {}

\* condition, timeout_of.
UntilRead(value, kind, u, listed) ==
  /\ value = "object" /\ u["kind"] = "known"
  /\ \A f \in UntilFields \ {"kind", "timeout_ms"} : Has(u, f) => f \in Takes(kind, u)
  /\ "element_ref" \in Takes(kind, u) => Named(u, "element_ref") /\ listed
  /\ "value" \in Takes(kind, u) => Text(u, "value")
  /\ "role" \in Takes(kind, u) => FindRead(u)
  /\ "contains" \in Takes(kind, u) => Named(u, "contains")
  /\ "scope" \in Takes(kind, u) => u["scope"] \in {"absent", "known"}
  /\ u["timeout_ms"] \in {"absent", "fit"}

\* non_empty.
NonEmpty(t, f) == Given(t, f) => Named(t, f)

\* addressing, typed_into, target.
AddressingRead(a, t) ==
  LET obs == Given(t, "observation_id")
      ref == Given(t, "element_ref")
  IN  /\ NonEmpty(t, "observation_id") /\ NonEmpty(t, "element_ref")
      /\ a = "type" =>
           /\ obs = ref
           /\ ref => ~Has(t, "x") /\ ~Has(t, "y") /\ ~Has(t, "region")
      /\ a \in Viewing => ~ref
      /\ a \in Addressed =>
           /\ ~Has(t, "region") /\ obs
           /\ ~(ref /\ HasPoint(t))
           /\ a \in ElementActions => ref
           /\ ref => a \in ElementActions \cup PointOrElement
      /\ a \notin Addressed \cup Viewing \cup {"type"} => ~obs /\ ~ref

\* binding.
BindingRead(a, t) == NonEmpty(t, "target_id") /\ (Given(t, "target_id") => a \in Targetable)

\* takes_a_check.
TakesACheck(a) == TouchesInput(a) /\ CarriesMutationSeq(a)

\* evidence, waiting_check.
EvidenceRead(q) ==
  Has(q.top, "check") =>
    /\ TakesACheck(q.action)
    /\ \/ q.top["check"] = "known"
       \/ q.top["check"] = "semantic" /\ Given(q.top, "element_ref")
       \/ /\ q.top["check"] = "object"
          /\ q.check["kind"] = "semantic" /\ ~Has(q.check, "stray")
          /\ UntilRead(q.check["until"], q.checked_kind, q.checked, Given(q.top, "observation_id"))

\* waited_on.
WaitedOn(q) ==
  IF q.action = "wait_for"
  THEN UntilRead(q.top["until"], q.kind, q.until, Given(q.top, "observation_id"))
  ELSE ~Has(q.top, "until")

\* checked_request.
HelperParses(q) ==
  /\ ~Has(q.top, "screenshot_after")
  /\ AddressingRead(q.action, q.top) /\ BindingRead(q.action, q.top)
  /\ EvidenceRead(q) /\ WaitedOn(q)

\* ---- the helper: the arguments of each action ------------------------------------------------------

Number(t, f) == t[f] \in {"fit", "unfit", "fraction"}
Shape(t, f)  == t[f] \in {"object", "fractions"}

\* semantic::listing.
ListingRead(q) ==
  LET t == q.top
  IN  /\ t["scope"] \in {"absent", "known"}
      /\ Has(t, "query") =>
           t["query"] = "object" /\ ~Has(q.query, "stray") /\ FindRead(q.query)
      /\ t["skeleton"] \in {"absent", "false", "true"}
      /\ Has(t, "root") => Named(t, "root") /\ ~Has(t, "scope") /\ Has(t, "observation_id")
      /\ ~(t["skeleton"] = "true" /\ Has(t, "query"))

\* Verb::from_request, coords, parse_point, scroll_notches, parse_region, parse_overlays,
\* parse_jpeg_quality.
HelperReads(q) ==
  LET a == q.action
      t == q.top
  IN  /\ a \in PointOrElement /\ ~Given(t, "element_ref") => Number(t, "x") /\ Number(t, "y")
      /\ a = "inspect" => Number(t, "x") /\ Number(t, "y")
      /\ a = "left_click_drag" => Shape(t, "from") /\ Shape(t, "to")
      /\ a = "scroll" => t["direction"] = "known" /\ t["amount"] \in {"absent", "fit"}
      /\ a = "set_value" => Text(t, "value")
      /\ a = "toggle" => t["on"] \in {"false", "true"}
      /\ a \in {"paste", "type"} => Text(t, "text")
      /\ a = "type" /\ Given(t, "element_ref") => Named(t, "text")
      /\ a = "key" => t["chord"] = "known"
      /\ a = "select_target" => Fit(t, "window_id")
      /\ a \in Viewing => t["region"] \in {"absent", "null"} \/ Shape(t, "region")
      /\ a = "screenshot" =>
           /\ t["annotate_point"] \in {"absent", "null"} \/ Shape(t, "annotate_point")
           /\ Optional(t, "jpeg_quality", {"fit"})
      /\ a = "elements" => ListingRead(q)

\* ---- what holds of every request ---------------------------------------------------------------------

\* Two things the library lets through and the helper refuses: an until whose
\* timeout is null, and a chord whose last part names no key.
NullTimeout(p) ==
  \/ p.action = "wait_for" /\ p.until["timeout_ms"] = "null"
  \/ p.top["check"] = "object" /\ p.checked["timeout_ms"] = "null"

UnknownKey(p) == p.action = "key" /\ p.top["chord"] # "known"

(***************************************************************************)
(* A request the library lets through is one the helper takes: its line is *)
(* not refused, and its action can read every argument it needs, save a    *)
(* null timeout and a key of no name.                                      *)
(***************************************************************************)
WhatIsSentIsTaken(p) ==
  LibraryAccepts(p) /\ ~NullTimeout(p) /\ ~UnknownKey(p) =>
    HelperParses(Sent(p)) /\ HelperReads(Sent(p))

\* What the helper takes a request to be aimed at, and what the caller gave.
HelperAims(q) ==
  [image  |-> Given(q.top, "observation_id"), control |-> Given(q.top, "element_ref"),
   window |-> Given(q.top, "target_id")]

CallerAims(p) ==
  [image  |-> Named(p.top, "observation_id"), control |-> Named(p.top, "element_ref"),
   window |-> Named(p.top, "target_id")]

(***************************************************************************)
(* A request the library lets through is aimed as its caller aimed it: no  *)
(* image, control or bound window is lost between them, and none is made   *)
(* up.                                                                     *)
(***************************************************************************)
AimIsKept(p) == LibraryAccepts(p) => HelperAims(Sent(p)) = CallerAims(p)
=============================================================================
