---------------------------- MODULE DraftExtract ----------------------------
(***************************************************************************)
(* extract_draft of generation/extract.py: one captured response becomes a *)
(* draft, or is refused.                                                   *)
(*                                                                         *)
(* The function is pure and an operator here.  What it raises is a set of  *)
(* codes, where an issue also carries a pointer into the text: a gate that *)
(* raises a code ends the extraction, and within a gate all are collected. *)
(* A reference is <<id, version>>, the identity of the record it names; a  *)
(* draft's records keep what their rendering says, as sets.                *)
(***************************************************************************)
EXTENDS DraftText, GenerationCapture

CONSTANTS
  Document,         \* the texts that are JSON, and what each parses to
  BadByte,          \* a token that is not UTF-8
  MaxPromptBytes, MaxResponseBytes, MaxPayloadBytes,  \* in tokens
  MaxMembers,       \* _COLLECTION_MEMBERS
  LongText,         \* texts over _STRING_BYTES
  ReservedText,     \* identifiers with the reserved prefix
  ForbiddenField    \* _FORBIDDEN_FIELDS

ASSUME DraftExtractAssumption ==
  {MaxPromptBytes, MaxResponseBytes, MaxPayloadBytes, MaxMembers} \subseteq Nat

JsonText == DOMAIN Document

\* What the parser makes of lists and of integers.
ASSUME DocumentAssumption ==
  \A text \in JsonText : \A v \in Components(Document[text]) :
    /\ v.kind = "list" => v.items \in Seq(Range(v.items))
    /\ v.kind = "integer" =>
         /\ v.number \in [negative : BOOLEAN, digits : Seq(0 .. 9)]
         /\ v.number.digits # <<>>
         /\ v.number.digits[1] = 0 => v.number.digits = <<0>>

RaisedIf(condition, code) == IF condition THEN {code} ELSE {}

-----------------------------------------------------------------------------
(* The values of fields.                                                   *)

StringIssues(v, allow_empty) ==
  IF v.kind # "string" THEN {"DRAFT_VALUE_TYPE"}
  ELSE IF v.text \in LongText THEN {"DRAFT_LIMIT_EXCEEDED"}
  ELSE RaisedIf(v.text = "" /\ ~ allow_empty, "DRAFT_VALUE_TYPE")

AnyText(v) == StringIssues(v, TRUE)
SomeText(v) == StringIssues(v, FALSE)

GradeText(v) == IF v = Null THEN {} ELSE AnyText(v)

CertificateText(v) ==
  IF SomeText(v) # {} THEN SomeText(v)
  ELSE RaisedIf(v.text # "certificate", "DRAFT_VALUE_TYPE")

Identifier(v) ==
  IF v.kind # "string" THEN {"DRAFT_VALUE_TYPE"}
  ELSE IF v.text \in LongText THEN {"DRAFT_LIMIT_EXCEEDED"}
  ELSE IF v.text = "" THEN {"DRAFT_INVALID_ID"}
  ELSE RaisedIf(v.text \in ReservedText, "DRAFT_RESERVED_ID")

Version(v) ==
  RaisedIf(v.kind # "integer" \/ ~ VersionAccepted(v.number), "DRAFT_INVALID_VERSION")

ListIssues(v, ItemIssues(_)) ==
  IF v.kind # "list" THEN {"DRAFT_VALUE_TYPE"}
  ELSE IF Len(v.items) > MaxMembers THEN {"DRAFT_LIMIT_EXCEEDED"}
  ELSE UNION {ItemIssues(v.items[i]) : i \in DOMAIN v.items}

-----------------------------------------------------------------------------
(* The fields of objects: exactly the expected ones.                       *)

FieldIssues(v, fields) ==
  RaisedIf(\E f \in fields : f \notin Keys(v), "DRAFT_FIELD_MISSING")
    \cup RaisedIf(\E f \in Keys(v) \ fields : f \in ForbiddenField, "DRAFT_FIELD_FORBIDDEN")
    \cup RaisedIf(\E f \in Keys(v) \ fields : f \notin ForbiddenField, "DRAFT_FIELD_UNKNOWN")

ValueIssues(v, field, Issues(_)) ==
  IF field \in Keys(v) THEN Issues(Field(v, field)) ELSE {}

IdentityFields == {"id", "version"}

IdentityValueIssues(v) ==
  ValueIssues(v, "id", Identifier) \cup ValueIssues(v, "version", Version)

\* An object may have an identity while other fields of it are refused.
HasIdentity(v) ==
  /\ v.kind = "object"
  /\ IdentityFields \subseteq Keys(v)
  /\ IdentityValueIssues(v) = {}

Identity(v) == <<Field(v, "id").text, IntegerOf(Field(v, "version").number.digits)>>

RepeatedIdentity(v) ==
  /\ v.kind = "list" /\ ~ (Len(v.items) > MaxMembers)
  /\ \E i, j \in DOMAIN v.items :
       /\ i # j
       /\ HasIdentity(v.items[i]) /\ HasIdentity(v.items[j])
       /\ Identity(v.items[i]) = Identity(v.items[j])

\* _reference, and the head of each _record function.
ObjectIssues(v, fields, Issues(_)) ==
  IF v.kind # "object" THEN {"DRAFT_VALUE_TYPE"}
  ELSE FieldIssues(v, fields) \cup IdentityValueIssues(v) \cup Issues(v)

NoIssues(v) == {}

Reference(v) == ObjectIssues(v, IdentityFields, NoIssues)

-----------------------------------------------------------------------------
(* Records and collections.                                                *)

ArgsIssues(v) == ListIssues(v, AnyText)

PositiveIssues(v) ==
  ListIssues(v, Reference) \cup RaisedIf(RepeatedIdentity(v), "DRAFT_DUPLICATE_MEMBER")

AtomFieldIssues(v) ==
  ValueIssues(v, "predicate", SomeText) \cup ValueIssues(v, "args", ArgsIssues)
    \cup ValueIssues(v, "frame", SomeText) \cup ValueIssues(v, "grade", GradeText)

RuleFieldIssues(v) ==
  ValueIssues(v, "head", Reference) \cup ValueIssues(v, "positive", PositiveIssues)
    \cup ValueIssues(v, "evidence_request", Reference)

RequestFieldIssues(v) ==
  ValueIssues(v, "kind", CertificateText) \cup ValueIssues(v, "subject", Reference)
    \cup ValueIssues(v, "question", SomeText)

AtomFields == IdentityFields \cup {"predicate", "args", "frame", "grade"}
RuleFields == IdentityFields \cup {"head", "positive", "evidence_request"}
RequestFields == IdentityFields \cup {"kind", "subject", "question"}

AtomRecord(v) == ObjectIssues(v, AtomFields, AtomFieldIssues)
RuleRecord(v) == ObjectIssues(v, RuleFields, RuleFieldIssues)
EvidenceRecord(v) == ObjectIssues(v, RequestFields, RequestFieldIssues)

RecordCollection(v, RecordIssues(_)) ==
  ListIssues(v, RecordIssues) \cup RaisedIf(RepeatedIdentity(v), "DRAFT_DUPLICATE_RECORD")

AtomCollection(v) == RecordCollection(v, AtomRecord)
RuleCollection(v) == RecordCollection(v, RuleRecord)
EvidenceCollection(v) == RecordCollection(v, EvidenceRecord)

RootFields == {"schema", "atoms", "rules", "evidence_requests"}

ShapeIssues(root) ==
  FieldIssues(root, RootFields)
    \cup ValueIssues(root, "atoms", AtomCollection)
    \cup ValueIssues(root, "rules", RuleCollection)
    \cup ValueIssues(root, "evidence_requests", EvidenceCollection)

SchemaIssues(root) ==
  IF "schema" \notin Keys(root) THEN {"DRAFT_FIELD_MISSING"}
  ELSE LET schema == Field(root, "schema")
       IN  IF schema.kind # "string" THEN {"DRAFT_VALUE_TYPE"}
           ELSE RaisedIf(schema.text # "pff-draft/0.1", "DRAFT_SCHEMA_MISMATCH")

-----------------------------------------------------------------------------
(* The draft a root of the right shape says, and its references.           *)

Items(v) == {v.items[i] : i \in DOMAIN v.items}

DraftAtomOf(v) ==
  [ref |-> Identity(v), predicate |-> Field(v, "predicate").text,
   form |-> <<Field(v, "args"), Field(v, "frame"), Field(v, "grade")>>]

ReferenceTo(v, field) == Identity(Field(v, field))

DraftRuleOf(v) ==
  [ref |-> Identity(v), head |-> ReferenceTo(v, "head"),
   positive |-> {Identity(a) : a \in Items(Field(v, "positive"))},
   request |-> ReferenceTo(v, "evidence_request")]

DraftRequestOf(v) == [ref |-> Identity(v), subject |-> ReferenceTo(v, "subject")]

DraftOf(root) ==
  [atoms |-> {DraftAtomOf(v) : v \in Items(Field(root, "atoms"))},
   rules |-> {DraftRuleOf(v) : v \in Items(Field(root, "rules"))},
   requests |-> {DraftRequestOf(v) : v \in Items(Field(root, "evidence_requests"))}]

RefsOf(records) == {r.ref : r \in records}

ReferenceIssue(ref, expected, others) ==
  IF ref \in expected THEN {}
  ELSE IF ref \in others THEN {"DRAFT_REFERENCE_KIND"}
  ELSE {"DRAFT_UNRESOLVED_REFERENCE"}

DanglingIssues(draft) ==
  LET atoms == RefsOf(draft.atoms)
      rules == RefsOf(draft.rules)
      requests == RefsOf(draft.requests)
      named == UNION {{r.head} \cup r.positive : r \in draft.rules}
  IN  (UNION {ReferenceIssue(a, atoms, rules \cup requests) : a \in named})
        \cup (UNION {ReferenceIssue(r.request, requests, atoms \cup rules) : r \in draft.rules})
        \cup (UNION {ReferenceIssue(q.subject, rules, atoms \cup requests) : q \in draft.requests})

\* Only the requests are looked at: each has one rule that uses it, and asks
\* about that rule.
Users(draft, request) == {r \in draft.rules : r.request = request.ref}

LinkageIssuesOfSomeUser(draft) ==
  RaisedIf(\E q \in draft.requests : \A r \in Users(draft, q) : q.subject # r.ref,
           "DRAFT_EVIDENCE_BINDING")

LinkageIssues(draft) ==
  RaisedIf(\E q \in draft.requests :
             \/ Users(draft, q) = {}
             \/ \E r, s \in Users(draft, q) : r # s
             \/ \E r \in Users(draft, q) : q.subject # r.ref,
           "DRAFT_EVIDENCE_BINDING")

-----------------------------------------------------------------------------
(* The gates of extract_draft, in their order.                             *)

DigestIssues(envelope) ==
  RaisedIf(\/ envelope.prompt.sha256 # Digest(envelope.prompt.data)
           \/ envelope.raw_response.sha256 # Digest(envelope.raw_response.data),
           "CAPTURE_DIGEST_MISMATCH")

LimitIssues(envelope) ==
  RaisedIf(\/ Len(envelope.prompt.data) > MaxPromptBytes
           \/ Len(envelope.raw_response.data) > MaxResponseBytes,
           "CAPTURE_LIMIT_EXCEEDED")

Utf8Issues(envelope) ==
  RaisedIf(\E i \in DOMAIN envelope.raw_response.data :
             envelope.raw_response.data[i] = BadByte, "RAW_UTF8")

CaptureIssues(envelope) ==
  IF DigestIssues(envelope) # {} THEN DigestIssues(envelope)
  ELSE IF LimitIssues(envelope) # {} THEN LimitIssues(envelope)
  ELSE Utf8Issues(envelope)

\* The depth of a text that is not JSON is not modelled: it is refused by
\* the depth scan or by the parser.
PayloadIssues(payload) ==
  IF Len(payload) > MaxPayloadBytes THEN {"DRAFT_PAYLOAD_LIMIT"}
  ELSE IF payload \notin JsonText THEN {"DRAFT_JSON_INVALID"}
  ELSE IF TooDeep(Document[payload]) THEN {"DRAFT_LIMIT_EXCEEDED"}
  ELSE IF HasNonScalarString(Document[payload]) THEN {"DRAFT_JSON_INVALID"}
  ELSE RaisedIf(HasDuplicateKey(Document[payload]), "DRAFT_JSON_DUPLICATE_KEY")

RootIssues(root) ==
  IF root.kind # "object" THEN {"DRAFT_ROOT_TYPE"}
  ELSE IF SchemaIssues(root) # {} THEN SchemaIssues(root)
  ELSE IF ShapeIssues(root) # {} THEN ShapeIssues(root)
  ELSE IF DanglingIssues(DraftOf(root)) # {} THEN DanglingIssues(DraftOf(root))
  ELSE LinkageIssues(DraftOf(root))

ExtractIssues(envelope) ==
  LET data == envelope.raw_response.data
      payload == Payload(data)
  IN  IF CaptureIssues(envelope) # {} THEN CaptureIssues(envelope)
      ELSE IF BlockIssue(data) # {} THEN BlockIssue(data)
      ELSE IF PayloadIssues(payload) # {} THEN PayloadIssues(payload)
      ELSE RootIssues(Document[payload])

\* What extract_draft returns: the draft and the digest of its payload.
ExtractDraft(envelope) ==
  LET payload == Payload(envelope.raw_response.data)
      draft == DraftOf(Document[payload])
  IN  [payload |-> Digest(payload), atoms |-> draft.atoms, rules |-> draft.rules,
       requests |-> draft.requests]

-----------------------------------------------------------------------------

UniqueRefs(records) == \A r, s \in records : r.ref = s.ref => r = s

(* What extract_draft promises of a draft: unique references within each   *)
(* kind, no dangling reference, and rules linked one to one with requests. *)
ExtractedDraft(draft) ==
  /\ UniqueRefs(draft.atoms) /\ UniqueRefs(draft.rules) /\ UniqueRefs(draft.requests)
  /\ \A r \in draft.rules : {r.head} \cup r.positive \subseteq RefsOf(draft.atoms)
  /\ \A r \in draft.rules :
       \E q \in draft.requests : q.ref = r.request /\ q.subject = r.ref
  /\ \A q \in draft.requests :
       \E r \in draft.rules : r.ref = q.subject /\ r.request = q.ref

=============================================================================
