-------------------------- MODULE MCDraftDocuments --------------------------
(***************************************************************************)
(* The rows of the small drafts that responses hold.                       *)
(***************************************************************************)
EXTENDS JsonValue, TLC

Number(digits) == Integer([negative |-> FALSE, digits |-> digits])

Pairs(fields) == {<<k, fields[k]>> : k \in DOMAIN fields}
Row(fields) == Object(Pairs(fields), {})

RefTo(id) == Row([id |-> String(id), version |-> Number(<<1>>)])

AtomRow(id, predicate, frame) ==
  [id |-> String(id), version |-> Number(<<1>>), predicate |-> String(predicate),
   args |-> List(<<String("x"), String("")>>), frame |-> String(frame), grade |-> Null]

RuleRow(id, head, positive, request) ==
  [id |-> String(id), version |-> Number(<<1>>), head |-> RefTo(head),
   positive |-> List(positive), evidence_request |-> RefTo(request)]

RequestRow(id, subject) ==
  [id |-> String(id), version |-> Number(<<1>>), kind |-> String("certificate"),
   subject |-> RefTo(subject), question |-> String("why")]

RootRow(atoms, rules, requests) ==
  [schema |-> String("pff-draft/0.1"), atoms |-> List(atoms), rules |-> List(rules),
   evidence_requests |-> List(requests)]

=============================================================================
