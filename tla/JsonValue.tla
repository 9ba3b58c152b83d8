----------------------------- MODULE JsonValue -----------------------------
(***************************************************************************)
(* A JSON text as the two decoders of generation/ leave it: the hooks they *)
(* give json.loads keep every pair of an object and the text of every      *)
(* number.  An object is the set of its pairs and the keys that came more  *)
(* than once with one value; the order of pairs only orders diagnostics.   *)
(***************************************************************************)
EXTENDS Naturals, Sequences

CONSTANTS
  JsonDepthLimit,  \* _JSON_DEPTH and _JSON_DEPTH_LIMIT
  NonScalarText    \* strings that hold a lone surrogate

ASSUME JsonValueAssumption == JsonDepthLimit \in Nat

Object(members, repeated) == [kind |-> "object", members |-> members, repeated |-> repeated]
List(items) == [kind |-> "list", items |-> items]
String(text) == [kind |-> "string", text |-> text]
Integer(number) == [kind |-> "integer", number |-> number]
Boolean(b) == [kind |-> "boolean", value |-> b]
Null == [kind |-> "null"]

Keys(v) == {m[1] : m \in v.members}
Field(v, key) == (CHOOSE m \in v.members : m[1] = key)[2]

Container(v) == v.kind \in {"object", "list"}

Within(v) ==
  IF v.kind = "object" THEN {m[2] : m \in v.members}
  ELSE IF v.kind = "list" THEN {v.items[i] : i \in DOMAIN v.items}
  ELSE {}

\* The values at each depth of a text, down to what the limit lets pass.
Layers(root) ==
  LET layer[n \in 0 .. JsonDepthLimit] ==
        IF n = 0 THEN {root} ELSE UNION {Within(v) : v \in layer[n - 1]}
  IN  layer

\* Both depth scanners; JsonDepth shows that they agree.
TooDeep(root) == \E v \in Layers(root)[JsonDepthLimit] : Container(v)

Components(root) == UNION {Layers(root)[n] : n \in 0 .. JsonDepthLimit}

HasNonScalarString(root) ==
  \E v \in Components(root) :
    \/ v.kind = "string" /\ v.text \in NonScalarText
    \/ v.kind = "object" /\ Keys(v) \cap NonScalarText # {}

HasDuplicateKeyAtRoot(root) ==
  /\ root.kind = "object"
  /\ root.repeated # {} \/ \E m, n \in root.members : m # n /\ m[1] = n[1]

HasDuplicateKey(root) ==
  \E v \in Components(root) :
    /\ v.kind = "object"
    /\ v.repeated # {} \/ \E m, n \in v.members : m # n /\ m[1] = n[1]

=============================================================================
