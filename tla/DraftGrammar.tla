---------------------------- MODULE DraftGrammar ----------------------------
(***************************************************************************)
(* The texts of pff-draft/0.1 by their grammar: what each object has in    *)
(* its fields, and how the records of a draft refer to each other.  The    *)
(* code has no such definition: it has gates that look for what is wrong,  *)
(* each behind the ones before it.                                         *)
(***************************************************************************)
EXTENDS DraftSession

\* The words of the grammar are plain text, and its nesting is within the limit.
ASSUME DraftGrammarAssumption ==
  /\ NonScalarText \cap (RootFields \cup AtomFields \cup RuleFields \cup RequestFields) = {}
  /\ "pff-draft/0.1" \notin NonScalarText
  /\ JsonDepthLimit >= 5

IsText(v) == v.kind = "string" /\ v.text \notin LongText \cup NonScalarText

IsWord(v) == IsText(v) /\ v.text # ""

IsIdentifier(v) == IsWord(v) /\ v.text \notin ReservedText

IsVersion(v) ==
  /\ v.kind = "integer" /\ ~ v.number.negative
  /\ IntegerOf(v.number.digits) >= 1
  /\ IntegerOf(v.number.digits) <= IntegerOf(MaxVersionText)

IsListOf(v, IsItem(_)) ==
  /\ v.kind = "list" /\ Len(v.items) <= MaxMembers
  /\ \A i \in DOMAIN v.items : IsItem(v.items[i])

\* An object with each of these fields once, and no other.
HasFields(v, fields) ==
  /\ v.kind = "object" /\ v.repeated = {}
  /\ \A m, n \in v.members : m[1] = n[1] => m = n
  /\ Keys(v) = fields

IsNamed(v, fields) ==
  HasFields(v, fields) /\ IsIdentifier(Field(v, "id")) /\ IsVersion(Field(v, "version"))

IsReference(v) == IsNamed(v, IdentityFields)

IsAtom(v) ==
  /\ IsNamed(v, AtomFields)
  /\ IsWord(Field(v, "predicate")) /\ IsWord(Field(v, "frame"))
  /\ Field(v, "grade") = Null \/ IsText(Field(v, "grade"))
  /\ IsListOf(Field(v, "args"), IsText)

IsRule(v) ==
  /\ IsNamed(v, RuleFields)
  /\ IsReference(Field(v, "head")) /\ IsReference(Field(v, "evidence_request"))
  /\ IsListOf(Field(v, "positive"), IsReference)

IsRequest(v) ==
  /\ IsNamed(v, RequestFields)
  /\ IsWord(Field(v, "kind")) /\ Field(v, "kind").text = "certificate"
  /\ IsWord(Field(v, "question"))
  /\ IsReference(Field(v, "subject"))

IsDraftText(root) ==
  /\ HasFields(root, RootFields)
  /\ Field(root, "schema").kind = "string" /\ Field(root, "schema").text = "pff-draft/0.1"
  /\ IsListOf(Field(root, "atoms"), IsAtom)
  /\ IsListOf(Field(root, "rules"), IsRule)
  /\ IsListOf(Field(root, "evidence_requests"), IsRequest)

-----------------------------------------------------------------------------
(* The records of a list by their references, which differ.                *)

RefOf(v) == <<Field(v, "id").text, Field(v, "version").number.digits>>

Differ(items) == \A i, j \in DOMAIN items : RefOf(items[i]) = RefOf(items[j]) => i = j

RefsIn(items) == {RefOf(items[i]) : i \in DOMAIN items}

\* Rule i uses request f[i], which asks about rule i.
LinkedBy(f, rules, requests) ==
  \A i \in DOMAIN rules :
    /\ RefOf(Field(rules[i], "evidence_request")) = RefOf(requests[f[i]])
    /\ RefOf(Field(requests[f[i]], "subject")) = RefOf(rules[i])

IsLinkedDraft(root) ==
  LET atoms == Field(root, "atoms").items
      rules == Field(root, "rules").items
      requests == Field(root, "evidence_requests").items
      premises(r) == Field(r, "positive").items
  IN  /\ Differ(atoms) /\ Differ(rules) /\ Differ(requests)
      /\ \A i \in DOMAIN rules :
           /\ RefOf(Field(rules[i], "head")) \in RefsIn(atoms)
           /\ Differ(premises(rules[i])) /\ RefsIn(premises(rules[i])) \subseteq RefsIn(atoms)
      /\ \E f \in Bijection(DOMAIN rules, DOMAIN requests) : LinkedBy(f, rules, requests)

(* What capture kept of a response, as it was received or as it was        *)
(* consistently replaced, becomes a draft exactly when the prompt beside   *)
(* it is whole and in size, and it is UTF-8 within                         *)
(* the limits and holds one block, whose text follows the grammar of       *)
(* pff-draft/0.1 and links rules and requests by a bijection; and the      *)
(* draft then has one record for each of the block.                        *)
ExtractionIsExact ==
  outcome # NotYet =>
    LET data == envelope.raw_response.data
        payload == Payload(data)
        root == Document[payload]
        kept == \A c \in {envelope.prompt, envelope.raw_response} : c.sha256 = Digest(c.data)
    IN  /\ outcome.drafts # {} <=>
             /\ kept
             /\ Len(envelope.prompt.data) <= MaxPromptBytes
             /\ Len(data) <= MaxResponseBytes /\ BadByte \notin Range(data)
             /\ BlockIssue(data) = {}
             /\ Len(payload) <= MaxPayloadBytes /\ payload \in JsonText
             /\ IsDraftText(root) /\ IsLinkedDraft(root)
        /\ \A d \in outcome.drafts :
             /\ d.payload = Digest(payload)
             /\ Cardinality(d.atoms) = Len(Field(root, "atoms").items)
             /\ Cardinality(d.rules) = Len(Field(root, "rules").items)
             /\ Cardinality(d.requests) = Len(Field(root, "evidence_requests").items)

=============================================================================
