-------------------------- MODULE DraftExtractProofs --------------------------
(***************************************************************************)
(* Every draft that extract_draft returns is linked, and what becomes a    *)
(* draft is exactly what the grammar of pff-draft/0.1 describes, whatever  *)
(* the response and whatever JSON text stands in it.                       *)
(*                                                                         *)
(* The second is proved gate by gate: each accepts what the grammar asks,  *)
(* given the gates before it.  The values of a text that passed the gates  *)
(* on any JSON text are Closed: the gates after them look only at those.   *)
(***************************************************************************)
EXTENDS DraftGrammar, TextScanProofs

(* What no code was raised of does not hold.                               *)
LEMMA RaisedIfNone ==
  ASSUME NEW condition, NEW code
  PROVE  RaisedIf(condition, code) = {} <=> ~ condition
  BY DEF RaisedIf

(* A record that is accepted has an identity.                              *)
LEMMA RecordHasIdentity ==
  ASSUME NEW v, AtomRecord(v) = {} \/ RuleRecord(v) = {} \/ EvidenceRecord(v) = {}
  PROVE  HasIdentity(v)
<1>1. PICK fields : /\ fields \in {AtomFields, RuleFields, RequestFields}
                    /\ v.kind = "object"
                    /\ FieldIssues(v, fields) = {} /\ IdentityValueIssues(v) = {}
  BY DEF AtomRecord, RuleRecord, EvidenceRecord, ObjectIssues
<1>2. IdentityFields \subseteq fields
  BY <1>1 DEF AtomFields, RuleFields, RequestFields
<1>3. RaisedIf(\E f \in fields : f \notin Keys(v), "DRAFT_FIELD_MISSING") = {}
  BY <1>1 DEF FieldIssues
<1>4. fields \subseteq Keys(v)
  BY <1>3, RaisedIfNone
<1> QED
  BY <1>1, <1>2, <1>4 DEF HasIdentity

(* What _record_collection accepts has a record for each identity.         *)
LEMMA CollectionIsDistinct ==
  ASSUME NEW v,
         AtomCollection(v) = {} \/ RuleCollection(v) = {} \/ EvidenceCollection(v) = {}
  PROVE  \A u, w \in Items(v) : Identity(u) = Identity(w) => u = w
<1>1. RaisedIf(RepeatedIdentity(v), "DRAFT_DUPLICATE_RECORD") = {}
  BY DEF AtomCollection, RuleCollection, EvidenceCollection, RecordCollection
<1>2. /\ v.kind = "list" /\ ~ (Len(v.items) > MaxMembers)
      /\ \A i \in DOMAIN v.items :
           \/ AtomRecord(v.items[i]) = {}
           \/ RuleRecord(v.items[i]) = {}
           \/ EvidenceRecord(v.items[i]) = {}
  <2>1. CASE AtomCollection(v) = {}
    <3>1. ListIssues(v, AtomRecord) = {}
      BY <2>1 DEF AtomCollection, RecordCollection
    <3>2. /\ v.kind = "list" /\ ~ (Len(v.items) > MaxMembers)
          /\ UNION {AtomRecord(v.items[i]) : i \in DOMAIN v.items} = {}
      BY <3>1 DEF ListIssues
    <3>3. \A i \in DOMAIN v.items : AtomRecord(v.items[i]) = {}
      BY <3>2
    <3> QED
      BY <3>2, <3>3
  <2>2. CASE RuleCollection(v) = {}
    <3>1. ListIssues(v, RuleRecord) = {}
      BY <2>2 DEF RuleCollection, RecordCollection
    <3>2. /\ v.kind = "list" /\ ~ (Len(v.items) > MaxMembers)
          /\ UNION {RuleRecord(v.items[i]) : i \in DOMAIN v.items} = {}
      BY <3>1 DEF ListIssues
    <3>3. \A i \in DOMAIN v.items : RuleRecord(v.items[i]) = {}
      BY <3>2
    <3> QED
      BY <3>2, <3>3
  <2>3. CASE EvidenceCollection(v) = {}
    <3>1. ListIssues(v, EvidenceRecord) = {}
      BY <2>3 DEF EvidenceCollection, RecordCollection
    <3>2. /\ v.kind = "list" /\ ~ (Len(v.items) > MaxMembers)
          /\ UNION {EvidenceRecord(v.items[i]) : i \in DOMAIN v.items} = {}
      BY <3>1 DEF ListIssues
    <3>3. \A i \in DOMAIN v.items : EvidenceRecord(v.items[i]) = {}
      BY <3>2
    <3> QED
      BY <3>2, <3>3
  <2> QED
    BY <2>1, <2>2, <2>3
<1>3. \A i \in DOMAIN v.items : HasIdentity(v.items[i])
  BY <1>2, RecordHasIdentity
<1>4. ~ RepeatedIdentity(v)
  BY <1>1, RaisedIfNone
<1> QED
  BY <1>2, <1>3, <1>4 DEF RepeatedIdentity, Items

(* The collections of a root of the right shape are accepted.              *)
LEMMA RootsHaveDistinctRecords ==
  ASSUME NEW root, ShapeIssues(root) = {}
  PROVE  /\ UniqueRefs(DraftOf(root).atoms)
         /\ UniqueRefs(DraftOf(root).rules)
         /\ UniqueRefs(DraftOf(root).requests)
<1>1. FieldIssues(root, RootFields) = {}
  BY DEF ShapeIssues
<1>2. RaisedIf(\E f \in RootFields : f \notin Keys(root), "DRAFT_FIELD_MISSING") = {}
  BY <1>1 DEF FieldIssues
<1>3. RootFields \subseteq Keys(root)
  BY <1>2, RaisedIfNone
<1>4. /\ AtomCollection(Field(root, "atoms")) = {}
      /\ RuleCollection(Field(root, "rules")) = {}
      /\ EvidenceCollection(Field(root, "evidence_requests")) = {}
  BY <1>3 DEF ShapeIssues, ValueIssues, RootFields
<1>5. UniqueRefs(DraftOf(root).atoms)
  <2>1. \A u, w \in Items(Field(root, "atoms")) : Identity(u) = Identity(w) => u = w
    BY <1>4, CollectionIsDistinct
  <2>2. \A u : DraftAtomOf(u).ref = Identity(u)
    BY DEF DraftAtomOf
  <2> QED
    BY <2>1, <2>2 DEF UniqueRefs, DraftOf
<1>6. UniqueRefs(DraftOf(root).rules)
  <2>1. \A u, w \in Items(Field(root, "rules")) : Identity(u) = Identity(w) => u = w
    BY <1>4, CollectionIsDistinct
  <2>2. \A u : DraftRuleOf(u).ref = Identity(u)
    BY DEF DraftRuleOf
  <2> QED
    BY <2>1, <2>2 DEF UniqueRefs, DraftOf
<1>7. UniqueRefs(DraftOf(root).requests)
  <2>1. \A u, w \in Items(Field(root, "evidence_requests")) :
          Identity(u) = Identity(w) => u = w
    BY <1>4, CollectionIsDistinct
  <2>2. \A u : DraftRequestOf(u).ref = Identity(u)
    BY DEF DraftRequestOf
  <2> QED
    BY <2>1, <2>2 DEF UniqueRefs, DraftOf
<1> QED
  BY <1>5, <1>6, <1>7

(* The reference gate: nothing dangles.                                    *)
LEMMA NothingDangles ==
  ASSUME NEW draft, DanglingIssues(draft) = {}
  PROVE  /\ \A r \in draft.rules : {r.head} \cup r.positive \subseteq RefsOf(draft.atoms)
         /\ \A r \in draft.rules : r.request \in RefsOf(draft.requests)
         /\ \A q \in draft.requests : q.subject \in RefsOf(draft.rules)
<1>1. \A ref, expected, others : ReferenceIssue(ref, expected, others) = {} => ref \in expected
  BY DEF ReferenceIssue
<1> DEFINE atoms == RefsOf(draft.atoms)
           rules == RefsOf(draft.rules)
           requests == RefsOf(draft.requests)
           named == UNION {{r.head} \cup r.positive : r \in draft.rules}
<1> DEFINE I == UNION {ReferenceIssue(a, atoms, rules \cup requests) : a \in named}
           J == UNION {ReferenceIssue(r.request, requests, atoms \cup rules) :
                         r \in draft.rules}
           K == UNION {ReferenceIssue(q.subject, rules, atoms \cup requests) :
                         q \in draft.requests}
<1>0. DanglingIssues(draft) = I \cup J \cup K
  BY DEF DanglingIssues
<1>2. I = {} /\ J = {} /\ K = {}
  <2> HIDE DEF I, J, K
  <2> QED
    BY <1>0
<1>3. /\ \A a \in named : ReferenceIssue(a, atoms, rules \cup requests) = {}
      /\ \A r \in draft.rules : ReferenceIssue(r.request, requests, atoms \cup rules) = {}
      /\ \A q \in draft.requests : ReferenceIssue(q.subject, rules, atoms \cup requests) = {}
  BY <1>2
<1>4. /\ \A a \in named : a \in atoms
      /\ \A r \in draft.rules : r.request \in requests
      /\ \A q \in draft.requests : q.subject \in rules
  BY <1>1, <1>3
<1> QED
  BY <1>4

(* The linkage gate looks at the requests only; with the reference gate    *)
(* before it, it links the rules one to one as well.                       *)
LEMMA LinkedOneToOne ==
  ASSUME NEW draft, DanglingIssues(draft) = {}, LinkageIssues(draft) = {}
  PROVE  /\ \A r \in draft.rules :
              \E q \in draft.requests : q.ref = r.request /\ q.subject = r.ref
         /\ \A q \in draft.requests :
              \E r \in draft.rules : r.ref = q.subject /\ r.request = q.ref
<1>1. \A q \in draft.requests :
        /\ Users(draft, q) # {}
        /\ \A r \in Users(draft, q) : q.subject = r.ref
  BY RaisedIfNone DEF LinkageIssues
<1>2. \A r \in draft.rules : \E q \in draft.requests : q.ref = r.request
  BY NothingDangles DEF RefsOf
<1> QED
  BY <1>1, <1>2 DEF Users

(* The draft of an accepted root is linked.                                *)
LEMMA AcceptedRoot ==
  ASSUME NEW root, RootIssues(root) = {}
  PROVE  ExtractedDraft(DraftOf(root))
<1>1. ShapeIssues(root) = {}
  BY DEF RootIssues
<1>2. DanglingIssues(DraftOf(root)) = {}
  BY <1>1 DEF RootIssues
<1>3. LinkageIssues(DraftOf(root)) = {}
  BY <1>1, <1>2 DEF RootIssues
<1> QED
  BY <1>1, <1>2, <1>3, RootsHaveDistinctRecords, NothingDangles, LinkedOneToOne
     DEF ExtractedDraft

(* A call of extract_draft that raises nothing returns a linked draft.     *)
THEOREM ExtractionLinks ==
  ASSUME NEW e, ExtractIssues(e) = {}
  PROVE  ExtractedDraft(ExtractDraft(e))
<1> DEFINE root == Document[Payload(e.raw_response.data)]
<1>1. RootIssues(root) = {}
  <2>1. CaptureIssues(e) = {}
    BY DEF ExtractIssues
  <2>2. BlockIssue(e.raw_response.data) = {}
    BY <2>1 DEF ExtractIssues
  <2>3. PayloadIssues(Payload(e.raw_response.data)) = {}
    BY <2>1, <2>2 DEF ExtractIssues
  <2> QED
    BY <2>1, <2>2, <2>3 DEF ExtractIssues
<1>2. ExtractedDraft(DraftOf(root))
  BY <1>1, AcceptedRoot
<1>3. /\ ExtractDraft(e).atoms = DraftOf(root).atoms
      /\ ExtractDraft(e).rules = DraftOf(root).rules
      /\ ExtractDraft(e).requests = DraftOf(root).requests
  BY DEF ExtractDraft
<1>4. \A d, c : /\ d.atoms = c.atoms /\ d.rules = c.rules /\ d.requests = c.requests
                /\ ExtractedDraft(c)
                => ExtractedDraft(d)
  BY DEF ExtractedDraft
<1> QED
  BY <1>2, <1>3, <1>4

(* No session of capturing, replacing and extracting ever yields a draft   *)
(* whose rules and evidence requests are not linked one to one.            *)
THEOREM SessionsYieldLinkedDrafts == Spec => []ExtractedDraftsAreLinked
<1>1. Init => ExtractedDraftsAreLinked
  <2>1. NotYet.drafts = {}
    BY DEF NotYet
  <2> QED
    BY <2>1 DEF Init, ExtractedDraftsAreLinked
<1>2. ExtractedDraftsAreLinked /\ [Next]_vars => ExtractedDraftsAreLinked'
  <2> SUFFICES ASSUME ExtractedDraftsAreLinked, [Next]_vars
               PROVE  ExtractedDraftsAreLinked'
    OBVIOUS
  <2>1. CASE Extract
    <3>1. \A d \in outcome'.drafts :
            ExtractIssues(envelope) = {} /\ d = ExtractDraft(envelope)
      BY <2>1 DEF Extract
    <3> QED
      BY <3>1, ExtractionLinks DEF ExtractedDraftsAreLinked
  <2>2. CASE outcome' = outcome
    BY <2>2 DEF ExtractedDraftsAreLinked
  <2> QED
    BY <2>1, <2>2 DEF Next, Capture, ReplaceData, ReplaceDigest, vars
<1> QED
  BY <1>1, <1>2, PTL DEF Spec

-----------------------------------------------------------------------------
(* The values of a document.                                               *)

\* What the gates on characters and on keys ask of a value by itself.
Clean(v) ==
  /\ v.kind = "string" => v.text \notin NonScalarText
  /\ v.kind = "object" =>
       /\ Keys(v) \cap NonScalarText = {}
       /\ v.repeated = {} /\ \A m, n \in v.members : m[1] = n[1] => m = n

\* What the parser makes of a value (DocumentAssumption).
Formed(v) ==
  /\ v.kind = "list" => v.items \in Seq(Range(v.items))
  /\ v.kind = "integer" => JsonInteger(v.number) /\ v.number.digits # <<>>

\* Values that can be looked into, any of them as deep as it goes.
Closed(values) == \A v \in values : Clean(v) /\ Formed(v) /\ Within(v) \subseteq values

(* What is within a value of a text that is not too deep is a value of it. *)
LEMMA ComponentsAreClosed ==
  ASSUME NEW root, ~ TooDeep(root)
  PROVE  root \in Components(root) /\ \A v \in Components(root) : Within(v) \subseteq Components(root)
<1> DEFINE layer == Layers(root)
<1>1. LayersTo(layer, root, JsonDepthLimit) /\ JsonDepthLimit \in Nat
  BY LayersAre, JsonValueAssumption
<1>2. Components(root) = UNION {layer[n] : n \in 0 .. JsonDepthLimit}
  BY DEF Components
<1>3. \A v \in layer[JsonDepthLimit] : ~ Container(v)
  BY DEF TooDeep
<1> HIDE DEF layer
<1>4. root \in layer[0] /\ 0 \in 0 .. JsonDepthLimit
  BY <1>1 DEF LayersTo
<1>5. ASSUME NEW n \in 0 .. JsonDepthLimit, NEW v \in layer[n]
      PROVE  Within(v) \subseteq Components(root)
  <2>1. CASE n = JsonDepthLimit
    <3>1. Within(v) = {}
      BY <1>3, <2>1 DEF Container, Within
    <3> QED
      BY <3>1
  <2>2. CASE n # JsonDepthLimit
    <3>1. n + 1 \in 1 .. JsonDepthLimit /\ n + 1 <= JsonDepthLimit /\ (n + 1) - 1 = n
          /\ n + 1 \in 0 .. JsonDepthLimit
      BY <1>1, <2>2
    <3>2. layer[n + 1] = UNION {Within(w) : w \in layer[n]}
      BY <1>1, <3>1 DEF LayersTo
    <3> QED
      BY <1>2, <3>1, <3>2
  <2> QED
    BY <2>1, <2>2
<1> QED
  BY <1>2, <1>4, <1>5

(* The three gates on a parsed text.                                       *)
Parsed(root) == ~ TooDeep(root) /\ ~ HasNonScalarString(root) /\ ~ HasDuplicateKey(root)

(* The values of a text that passed the gates on any JSON text.            *)
LEMMA DocumentsAreClosed ==
  ASSUME NEW text \in JsonText, Parsed(Document[text])
  PROVE  Document[text] \in Components(Document[text]) /\ Closed(Components(Document[text]))
<1> DEFINE root == Document[text]
<1>1. root \in Components(root) /\ \A v \in Components(root) : Within(v) \subseteq Components(root)
  BY ComponentsAreClosed DEF Parsed
<1>2. \A v \in Components(root) : Clean(v)
  BY DEF Parsed, HasNonScalarString, HasDuplicateKey, Clean
<1>3. \A v \in Components(root) : Formed(v)
  BY DocumentAssumption DEF Formed, JsonInteger
<1> QED
  BY <1>1, <1>2, <1>3 DEF Closed

-----------------------------------------------------------------------------
(* Each gate on a value asks what the grammar asks.                        *)

(* _string and _identifier: what is refused is not text of the right kind. *)
LEMMA TextGates ==
  ASSUME NEW v, Clean(v)
  PROVE  /\ AnyText(v) = {} <=> IsText(v)
         /\ SomeText(v) = {} <=> IsWord(v)
         /\ Identifier(v) = {} <=> IsIdentifier(v)
         /\ GradeText(v) = {} <=> v = Null \/ IsText(v)
         /\ CertificateText(v) = {} <=> IsWord(v) /\ v.text = "certificate"
<1>1. AnyText(v) = {} <=> IsText(v)
  BY DEF AnyText, StringIssues, RaisedIf, IsText, Clean
<1>2. SomeText(v) = {} <=> IsWord(v)
  BY DEF SomeText, StringIssues, RaisedIf, IsText, IsWord, Clean
<1>3. Identifier(v) = {} <=> IsIdentifier(v)
  BY DEF Identifier, RaisedIf, IsText, IsWord, IsIdentifier, Clean
<1>4. GradeText(v) = {} <=> v = Null \/ IsText(v)
  BY <1>1 DEF GradeText
<1>5. CertificateText(v) = {} <=> IsWord(v) /\ v.text = "certificate"
  BY <1>2 DEF CertificateText, RaisedIf
<1> QED
  BY <1>1, <1>2, <1>3, <1>4, <1>5

(* The order of digits that _version compares is the order of integers.    *)
LEMMA VersionGate ==
  ASSUME NEW v, Formed(v)
  PROVE  Version(v) = {} <=> IsVersion(v)
<1>1. Version(v) = {} <=> v.kind = "integer" /\ VersionAccepted(v.number)
  BY DEF Version, RaisedIf
<1>2. CASE v.kind = "integer"
  <2>1. JsonInteger(v.number) /\ v.number.digits # <<>>
    BY <1>2 DEF Formed
  <2>2. VersionAccepted(v.number) <=>
          /\ ~ v.number.negative /\ IntegerOf(v.number.digits) >= 1
          /\ IntegerOf(v.number.digits) <= IntegerOf(MaxVersionText)
    BY <2>1, VersionIsInRange
  <2> QED
    BY <1>1, <1>2, <2>2 DEF IsVersion
<1>3. CASE v.kind # "integer"
  BY <1>1, <1>3 DEF IsVersion
<1> QED
  BY <1>2, <1>3

(* A field is missing, forbidden or unknown, or all are as expected.       *)
LEMMA FieldGate ==
  ASSUME NEW v, Clean(v), v.kind = "object", NEW fields
  PROVE  FieldIssues(v, fields) = {} <=> HasFields(v, fields)
<1>1. FieldIssues(v, fields) = {} <=>
        /\ ~ \E f \in fields : f \notin Keys(v)
        /\ ~ \E f \in Keys(v) \ fields : f \in ForbiddenField
        /\ ~ \E f \in Keys(v) \ fields : f \notin ForbiddenField
  BY DEF FieldIssues, RaisedIf
<1>2. FieldIssues(v, fields) = {} <=> Keys(v) = fields
  BY <1>1
<1> QED
  BY <1>2 DEF HasFields, Clean

(* A field of a value is a value.                                          *)
LEMMA FieldIsIn ==
  ASSUME NEW values, Closed(values), NEW v \in values, v.kind = "object", NEW key \in Keys(v)
  PROVE  Field(v, key) \in values
<1>1. \E m \in v.members : m[1] = key
  BY DEF Keys
<1>2. Field(v, key) \in Within(v)
  BY <1>1 DEF Field, Within
<1> QED
  BY <1>2 DEF Closed

(* A member of a list is a value.                                          *)
LEMMA ItemIsIn ==
  ASSUME NEW values, Closed(values), NEW v \in values, v.kind = "list", NEW i \in DOMAIN v.items
  PROVE  v.items[i] \in values
  BY DEF Closed, Within

(* The fields of an object and its identity.                               *)
LEMMA NamedGate ==
  ASSUME NEW values, Closed(values), NEW v \in values, v.kind = "object",
         NEW fields, IdentityFields \subseteq fields
  PROVE  FieldIssues(v, fields) \cup IdentityValueIssues(v) = {} <=> IsNamed(v, fields)
<1>1. Clean(v)
  BY DEF Closed
<1>2. FieldIssues(v, fields) = {} <=> HasFields(v, fields)
  BY <1>1, FieldGate
<1>3. ASSUME HasFields(v, fields)
      PROVE  IdentityValueIssues(v) = {} <=>
               IsIdentifier(Field(v, "id")) /\ IsVersion(Field(v, "version"))
  <2>1. "id" \in Keys(v) /\ "version" \in Keys(v)
    BY <1>3 DEF HasFields, IdentityFields
  <2>2. /\ Clean(Field(v, "id")) /\ Formed(Field(v, "version"))
    BY <2>1, FieldIsIn DEF Closed
  <2>3. IdentityValueIssues(v) = Identifier(Field(v, "id")) \cup Version(Field(v, "version"))
    BY <2>1 DEF IdentityValueIssues, ValueIssues
  <2>4. /\ Identifier(Field(v, "id")) = {} <=> IsIdentifier(Field(v, "id"))
        /\ Version(Field(v, "version")) = {} <=> IsVersion(Field(v, "version"))
    BY <2>2, TextGates, VersionGate
  <2> QED
    BY <2>3, <2>4
<1> QED
  BY <1>2, <1>3 DEF IsNamed

(* _reference.                                                             *)
LEMMA ReferenceGate ==
  ASSUME NEW values, Closed(values), NEW v \in values
  PROVE  Reference(v) = {} <=> IsReference(v)
<1>1. CASE v.kind = "object"
  <2>1. Reference(v) = FieldIssues(v, IdentityFields) \cup IdentityValueIssues(v)
    BY <1>1 DEF Reference, ObjectIssues, NoIssues
  <2> QED
    BY <1>1, <2>1, NamedGate DEF IsReference
<1>2. CASE v.kind # "object"
  BY <1>2 DEF Reference, ObjectIssues, IsReference, IsNamed, HasFields
<1> QED
  BY <1>1, <1>2

(* Without leading zeros, a value has one text.                            *)
LEMMA DigitsOfValue ==
  ASSUME NEW x \in Seq(0 .. 9), NEW y \in Seq(0 .. 9), x # <<>>, y # <<>>,
         x[1] # 0, y[1] # 0, IntegerOf(x) = IntegerOf(y)
  PROVE  x = y
<1>1. /\ Len(x) \in Nat /\ Len(y) \in Nat /\ DOMAIN x = 1 .. Len(x) /\ DOMAIN y = 1 .. Len(y)
      /\ \A i \in 1 .. Len(x) : x[i] \in Nat
      /\ \A i \in 1 .. Len(y) : y[i] \in Nat
  <2>1. \A z \in Seq(0 .. 9) : Len(z) \in Nat /\ DOMAIN z = 1 .. Len(z)
    BY LenProperties
  <2>2. \A z \in Seq(0 .. 9) : \A i \in 1 .. Len(z) : z[i] \in 0 .. 9
    BY ElementOfSeq
  <2>3. \A d \in 0 .. 9 : d \in Nat
    OBVIOUS
  <2> QED
    BY <2>1, <2>2, <2>3
<1>2. IntegerOf(x) \in Nat /\ IntegerOf(y) \in Nat
  BY <1>1, PrefixValues, PrefixesAreNatural
<1>3. IntegerOf(x) = IntegerOf(y) /\ ~ (IntegerOf(x) > IntegerOf(y)) /\ ~ (IntegerOf(y) > IntegerOf(x))
  BY <1>2
<1>4. ~ (Len(x) < Len(y)) /\ ~ (Len(y) < Len(x))
  <2>1. Len(x) < Len(y) => IntegerOf(y) > IntegerOf(x)
    BY LongerIsGreater
  <2>2. Len(y) < Len(x) => IntegerOf(x) > IntegerOf(y)
    BY LongerIsGreater
  <2> QED
    BY <1>3, <2>1, <2>2
<1>5. Len(x) = Len(y)
  <2> DEFINE m == Len(x)
             n == Len(y)
  <2>1. m \in Nat /\ n \in Nat /\ ~ (m < n) /\ ~ (n < m)
    BY <1>1, <1>4
  <2> HIDE DEF m, n
  <2>2. m = n
    BY <2>1
  <2> QED
    BY <2>2 DEF m, n
<1>6. ~ TextAfter(x, y) /\ ~ TextAfter(y, x)
  <2>1. TextAfter(x, y) => IntegerOf(x) > IntegerOf(y)
    BY <1>5, TextOrderIsNumeric
  <2>2. TextAfter(y, x) => IntegerOf(y) > IntegerOf(x)
    BY <1>5, TextOrderIsNumeric
  <2> QED
    BY <1>3, <2>1, <2>2
<1> DEFINE S == {i \in 1 .. Len(x) : x[i] # y[i]}
<1>7. S = {}
  <2> SUFFICES ASSUME S # {} PROVE FALSE
    OBVIOUS
  <2>1. S \subseteq Nat
    OBVIOUS
  <2>2. PICK i \in S : \A m \in S : i <= m
    <3> HIDE DEF S
    <3> QED
      BY <2>1, LeastNatural
  <2>3. i \in 1 .. Len(x) /\ x[i] # y[i] /\ \A j \in 1 .. i - 1 : x[j] = y[j]
    BY <1>1, <2>2
  <2>4. x[i] > y[i] \/ y[i] > x[i]
    BY <1>1, <1>5, <2>3
  <2> QED
    BY <1>1, <1>5, <1>6, <2>3, <2>4 DEF TextAfter
<1>8. \A i \in DOMAIN x : x[i] = y[i]
  BY <1>1, <1>7
<1> QED
  BY <1>1, <1>5, <1>8

\* A record or a reference whose identity is in order.
Referable(v) ==
  HasIdentity(v) /\ IsVersion(Field(v, "version")) /\ Formed(Field(v, "version"))

(* What has its fields and its identity can be compared.                   *)
LEMMA NamedIsReferable ==
  ASSUME NEW values, Closed(values), NEW v \in values,
         NEW fields, IdentityFields \subseteq fields, IsNamed(v, fields)
  PROVE  Referable(v)
<1>1. v.kind = "object" /\ HasFields(v, fields) /\ IdentityFields \subseteq Keys(v)
  BY DEF IsNamed, HasFields
<1>2. FieldIssues(v, fields) \cup IdentityValueIssues(v) = {}
  BY <1>1, NamedGate
<1>3. "version" \in Keys(v)
  BY <1>1 DEF IdentityFields
<1>4. Formed(Field(v, "version"))
  BY <1>1, <1>3, FieldIsIn DEF Closed
<1>5. IdentityValueIssues(v) = {}
  BY <1>2
<1> QED
  BY <1>1, <1>4, <1>5 DEF Referable, HasIdentity, IsNamed

(* References are compared by value in the code, and here by text.         *)
LEMMA SameIdentity ==
  ASSUME NEW u, NEW w, Referable(u), Referable(w)
  PROVE  Identity(u) = Identity(w) <=> RefOf(u) = RefOf(w)
<1> DEFINE x == Field(u, "version").number.digits
           y == Field(w, "version").number.digits
<1>1. ASSUME NEW v, Referable(v)
      PROVE  LET z == Field(v, "version").number.digits
             IN  z \in Seq(0 .. 9) /\ z # <<>> /\ z[1] # 0
  <2> DEFINE n == Field(v, "version").number
  <2>1. JsonInteger(n) /\ n.digits # <<>>
    BY <1>1 DEF Referable, IsVersion, Formed
  <2>2. VersionAccepted(n)
    BY <1>1, <2>1, VersionIsInRange DEF Referable, IsVersion
  <2>3. n.digits # <<0>>
    BY <2>2 DEF VersionAccepted
  <2> QED
    BY <2>1, <2>3 DEF JsonInteger
<1>2. /\ x \in Seq(0 .. 9) /\ x # <<>> /\ x[1] # 0
      /\ y \in Seq(0 .. 9) /\ y # <<>> /\ y[1] # 0
  BY <1>1
<1>3. IntegerOf(x) = IntegerOf(y) <=> x = y
  <2> HIDE DEF x, y
  <2> QED
    BY <1>2, DigitsOfValue
<1>4. Identity(u) = Identity(w) <=>
        Field(u, "id").text = Field(w, "id").text /\ IntegerOf(x) = IntegerOf(y)
  BY DEF Identity
<1>5. RefOf(u) = RefOf(w) <=> Field(u, "id").text = Field(w, "id").text /\ x = y
  BY DEF RefOf
<1> QED
  BY <1>3, <1>4, <1>5

(* A list has no identity twice when its references differ.                *)
LEMMA RepeatedGate ==
  ASSUME NEW v, v.kind = "list", ~ (Len(v.items) > MaxMembers),
         \A i \in DOMAIN v.items : Referable(v.items[i])
  PROVE  RepeatedIdentity(v) <=> ~ Differ(v.items)
<1>1. RepeatedIdentity(v) <=>
        \E i, j \in DOMAIN v.items : i # j /\ Identity(v.items[i]) = Identity(v.items[j])
  BY DEF RepeatedIdentity, Referable
<1>2. \A i, j \in DOMAIN v.items :
        Identity(v.items[i]) = Identity(v.items[j]) <=> RefOf(v.items[i]) = RefOf(v.items[j])
  BY SameIdentity
<1> QED
  BY <1>1, <1>2 DEF Differ

(* The length of a list, and that its members are values as well.          *)
LEMMA ListFacts ==
  ASSUME NEW values, Closed(values), NEW v \in values, v.kind = "list"
  PROVE  /\ Len(v.items) \in Nat /\ DOMAIN v.items = 1 .. Len(v.items)
         /\ ~ (Len(v.items) > MaxMembers) <=> Len(v.items) <= MaxMembers
         /\ \A i \in DOMAIN v.items : v.items[i] \in values
<1>1. v.items \in Seq(Range(v.items))
  BY DEF Closed, Formed
<1>2. Len(v.items) \in Nat /\ DOMAIN v.items = 1 .. Len(v.items)
  BY <1>1
<1>3. MaxMembers \in Nat
  BY DraftExtractAssumption
<1>4. ~ (Len(v.items) > MaxMembers) <=> Len(v.items) <= MaxMembers
  BY <1>2, <1>3
<1> QED
  BY <1>2, <1>4, ItemIsIn

(* _args.                                                                  *)
LEMMA TextsGate ==
  ASSUME NEW values, Closed(values), NEW v \in values
  PROVE  ArgsIssues(v) = {} <=> IsListOf(v, IsText)
<1>1. CASE v.kind = "list"
  <2>1. \A i \in DOMAIN v.items : AnyText(v.items[i]) = {} <=> IsText(v.items[i])
    BY <1>1, ListFacts, TextGates DEF Closed
  <2>2. ArgsIssues(v) = {} <=>
          /\ ~ (Len(v.items) > MaxMembers)
          /\ \A i \in DOMAIN v.items : AnyText(v.items[i]) = {}
    BY <1>1 DEF ArgsIssues, ListIssues
  <2> QED
    BY <1>1, <2>1, <2>2, ListFacts DEF IsListOf
<1>2. CASE v.kind # "list"
  BY <1>2 DEF ArgsIssues, ListIssues, IsListOf
<1> QED
  BY <1>1, <1>2

(* _positive: references that differ.                                      *)
LEMMA ReferencesGate ==
  ASSUME NEW values, Closed(values), NEW v \in values
  PROVE  PositiveIssues(v) = {} <=> IsListOf(v, IsReference) /\ Differ(v.items)
<1>1. CASE v.kind = "list"
  <2>1. \A i \in DOMAIN v.items : Reference(v.items[i]) = {} <=> IsReference(v.items[i])
    BY <1>1, ListFacts, ReferenceGate
  <2>2. PositiveIssues(v) = {} <=>
          /\ ~ (Len(v.items) > MaxMembers)
          /\ \A i \in DOMAIN v.items : Reference(v.items[i]) = {}
          /\ ~ RepeatedIdentity(v)
    BY <1>1 DEF PositiveIssues, ListIssues, RaisedIf
  <2>3. ASSUME IsListOf(v, IsReference)
        PROVE  RepeatedIdentity(v) <=> ~ Differ(v.items)
    <3>1. \A i \in DOMAIN v.items : IsNamed(v.items[i], IdentityFields)
      BY <2>3 DEF IsListOf, IsReference
    <3>2. \A i \in DOMAIN v.items : Referable(v.items[i])
      BY <1>1, <3>1, ListFacts, NamedIsReferable
    <3>3. ~ (Len(v.items) > MaxMembers)
      BY <1>1, <2>3, ListFacts DEF IsListOf
    <3> QED
      BY <1>1, <3>2, <3>3, RepeatedGate
  <2> QED
    BY <1>1, <2>1, <2>2, <2>3, ListFacts DEF IsListOf
<1>2. CASE v.kind # "list"
  BY <1>2 DEF PositiveIssues, ListIssues, IsListOf
<1> QED
  BY <1>1, <1>2

(* The head of each _record function, and the fields it goes on with.      *)
LEMMA RecordGate ==
  ASSUME NEW values, Closed(values), NEW v \in values,
         NEW fields, IdentityFields \subseteq fields, NEW issues
  PROVE  (IF v.kind # "object" THEN {"DRAFT_VALUE_TYPE"}
          ELSE FieldIssues(v, fields) \cup IdentityValueIssues(v) \cup issues) = {}
           <=> IsNamed(v, fields) /\ issues = {}
<1>1. CASE v.kind = "object"
  <2>1. FieldIssues(v, fields) \cup IdentityValueIssues(v) = {} <=> IsNamed(v, fields)
    BY <1>1, NamedGate
  <2> QED
    BY <1>1, <2>1
<1>2. CASE v.kind # "object"
  BY <1>2 DEF IsNamed, HasFields
<1> QED
  BY <1>1, <1>2

(* The fields of a record are values.                                      *)
LEMMA NamedFields ==
  ASSUME NEW values, Closed(values), NEW v \in values, NEW fields, IsNamed(v, fields)
  PROVE  Keys(v) = fields /\ \A key \in fields : Field(v, key) \in values /\ Clean(Field(v, key))
<1>1. v.kind = "object" /\ Keys(v) = fields
  BY DEF IsNamed, HasFields
<1>2. \A key \in fields : Field(v, key) \in values
  BY <1>1, FieldIsIn
<1> QED
  BY <1>1, <1>2 DEF Closed

(* _atom_record.                                                           *)
LEMMA AtomGate ==
  ASSUME NEW values, Closed(values), NEW v \in values
  PROVE  AtomRecord(v) = {} <=> IsAtom(v)
<1>1. IdentityFields \subseteq AtomFields
  BY DEF AtomFields
<1>2. AtomRecord(v) = {} <=> IsNamed(v, AtomFields) /\ AtomFieldIssues(v) = {}
  BY <1>1, RecordGate DEF AtomRecord, ObjectIssues
<1>3. ASSUME IsNamed(v, AtomFields)
      PROVE  AtomFieldIssues(v) = {} <=>
               /\ IsWord(Field(v, "predicate")) /\ IsWord(Field(v, "frame"))
               /\ Field(v, "grade") = Null \/ IsText(Field(v, "grade"))
               /\ IsListOf(Field(v, "args"), IsText)
  <2>1. /\ "predicate" \in AtomFields /\ "frame" \in AtomFields
        /\ "grade" \in AtomFields /\ "args" \in AtomFields
    BY DEF AtomFields
  <2>2. AtomFieldIssues(v) =
          SomeText(Field(v, "predicate")) \cup ArgsIssues(Field(v, "args"))
            \cup SomeText(Field(v, "frame")) \cup GradeText(Field(v, "grade"))
    BY <1>3, <2>1, NamedFields DEF AtomFieldIssues, ValueIssues
  <2>3. /\ SomeText(Field(v, "predicate")) = {} <=> IsWord(Field(v, "predicate"))
        /\ SomeText(Field(v, "frame")) = {} <=> IsWord(Field(v, "frame"))
        /\ GradeText(Field(v, "grade")) = {} <=>
             Field(v, "grade") = Null \/ IsText(Field(v, "grade"))
    BY <1>3, <2>1, NamedFields, TextGates
  <2>4. ArgsIssues(Field(v, "args")) = {} <=> IsListOf(Field(v, "args"), IsText)
    BY <1>3, <2>1, NamedFields, TextsGate
  <2> QED
    BY <2>2, <2>3, <2>4
<1> QED
  BY <1>2, <1>3 DEF IsAtom

(* _rule_record.                                                           *)
LEMMA RuleGate ==
  ASSUME NEW values, Closed(values), NEW v \in values
  PROVE  RuleRecord(v) = {} <=> IsRule(v) /\ Differ(Field(v, "positive").items)
<1>1. IdentityFields \subseteq RuleFields
  BY DEF RuleFields
<1>2. RuleRecord(v) = {} <=> IsNamed(v, RuleFields) /\ RuleFieldIssues(v) = {}
  BY <1>1, RecordGate DEF RuleRecord, ObjectIssues
<1>3. ASSUME IsNamed(v, RuleFields)
      PROVE  RuleFieldIssues(v) = {} <=>
               /\ IsReference(Field(v, "head")) /\ IsReference(Field(v, "evidence_request"))
               /\ IsListOf(Field(v, "positive"), IsReference)
               /\ Differ(Field(v, "positive").items)
  <2>1. {"head", "positive", "evidence_request"} \subseteq RuleFields
    BY DEF RuleFields
  <2>2. RuleFieldIssues(v) =
          Reference(Field(v, "head")) \cup PositiveIssues(Field(v, "positive"))
            \cup Reference(Field(v, "evidence_request"))
    BY <1>3, <2>1, NamedFields DEF RuleFieldIssues, ValueIssues
  <2>3. /\ Field(v, "head") \in values /\ Field(v, "positive") \in values
        /\ Field(v, "evidence_request") \in values
    BY <1>3, <2>1, NamedFields
  <2>4. /\ Reference(Field(v, "head")) = {} <=> IsReference(Field(v, "head"))
        /\ Reference(Field(v, "evidence_request")) = {} <=>
             IsReference(Field(v, "evidence_request"))
    BY <2>3, ReferenceGate
  <2>5. PositiveIssues(Field(v, "positive")) = {} <=>
          IsListOf(Field(v, "positive"), IsReference) /\ Differ(Field(v, "positive").items)
    BY <2>3, ReferencesGate
  <2> QED
    BY <2>2, <2>4, <2>5
<1> QED
  BY <1>2, <1>3 DEF IsRule

(* _evidence_record.                                                       *)
LEMMA RequestGate ==
  ASSUME NEW values, Closed(values), NEW v \in values
  PROVE  EvidenceRecord(v) = {} <=> IsRequest(v)
<1>1. IdentityFields \subseteq RequestFields
  BY DEF RequestFields
<1>2. EvidenceRecord(v) = {} <=> IsNamed(v, RequestFields) /\ RequestFieldIssues(v) = {}
  BY <1>1, RecordGate DEF EvidenceRecord, ObjectIssues
<1>3. ASSUME IsNamed(v, RequestFields)
      PROVE  RequestFieldIssues(v) = {} <=>
               /\ IsWord(Field(v, "kind")) /\ Field(v, "kind").text = "certificate"
               /\ IsWord(Field(v, "question"))
               /\ IsReference(Field(v, "subject"))
  <2>1. {"kind", "question", "subject"} \subseteq RequestFields
    BY DEF RequestFields
  <2>2. RequestFieldIssues(v) =
          CertificateText(Field(v, "kind")) \cup Reference(Field(v, "subject"))
            \cup SomeText(Field(v, "question"))
    BY <1>3, <2>1, NamedFields DEF RequestFieldIssues, ValueIssues
  <2>3. /\ Field(v, "subject") \in values
        /\ Clean(Field(v, "kind")) /\ Clean(Field(v, "question"))
    BY <1>3, <2>1, NamedFields
  <2>4. /\ CertificateText(Field(v, "kind")) = {} <=>
             IsWord(Field(v, "kind")) /\ Field(v, "kind").text = "certificate"
        /\ SomeText(Field(v, "question")) = {} <=> IsWord(Field(v, "question"))
        /\ Reference(Field(v, "subject")) = {} <=> IsReference(Field(v, "subject"))
    BY <2>3, TextGates, ReferenceGate
  <2> QED
    BY <2>2, <2>4
<1> QED
  BY <1>2, <1>3 DEF IsRequest

(* _record_collection, of atoms.                                           *)
LEMMA AtomsGate ==
  ASSUME NEW values, Closed(values), NEW v \in values
  PROVE  AtomCollection(v) = {} <=> IsListOf(v, IsAtom) /\ Differ(v.items)
<1>1. CASE v.kind = "list"
  <2>1. \A i \in DOMAIN v.items : AtomRecord(v.items[i]) = {} <=> IsAtom(v.items[i])
    BY <1>1, ListFacts, AtomGate
  <2>2. AtomCollection(v) = {} <=>
          /\ ~ (Len(v.items) > MaxMembers)
          /\ \A i \in DOMAIN v.items : AtomRecord(v.items[i]) = {}
          /\ ~ RepeatedIdentity(v)
    BY <1>1 DEF AtomCollection, RecordCollection, ListIssues, RaisedIf
  <2>3. ASSUME IsListOf(v, IsAtom)
        PROVE  RepeatedIdentity(v) <=> ~ Differ(v.items)
    <3>1. \A i \in DOMAIN v.items : IsNamed(v.items[i], AtomFields)
      BY <2>3 DEF IsListOf, IsAtom
    <3>2. \A i \in DOMAIN v.items : Referable(v.items[i])
      BY <1>1, <3>1, ListFacts, NamedIsReferable DEF AtomFields
    <3>3. ~ (Len(v.items) > MaxMembers)
      BY <1>1, <2>3, ListFacts DEF IsListOf
    <3> QED
      BY <1>1, <3>2, <3>3, RepeatedGate
  <2> QED
    BY <1>1, <2>1, <2>2, <2>3, ListFacts DEF IsListOf
<1>2. CASE v.kind # "list"
  BY <1>2 DEF AtomCollection, RecordCollection, ListIssues, IsListOf
<1> QED
  BY <1>1, <1>2

(* _record_collection, of rules.                                           *)
LEMMA RulesGate ==
  ASSUME NEW values, Closed(values), NEW v \in values
  PROVE  RuleCollection(v) = {} <=>
           /\ IsListOf(v, IsRule) /\ Differ(v.items)
           /\ \A i \in DOMAIN v.items : Differ(Field(v.items[i], "positive").items)
<1>1. CASE v.kind = "list"
  <2>1. \A i \in DOMAIN v.items :
          RuleRecord(v.items[i]) = {} <=>
            IsRule(v.items[i]) /\ Differ(Field(v.items[i], "positive").items)
    BY <1>1, ListFacts, RuleGate
  <2>2. RuleCollection(v) = {} <=>
          /\ ~ (Len(v.items) > MaxMembers)
          /\ \A i \in DOMAIN v.items : RuleRecord(v.items[i]) = {}
          /\ ~ RepeatedIdentity(v)
    BY <1>1 DEF RuleCollection, RecordCollection, ListIssues, RaisedIf
  <2>3. ASSUME IsListOf(v, IsRule)
        PROVE  RepeatedIdentity(v) <=> ~ Differ(v.items)
    <3>1. \A i \in DOMAIN v.items : IsNamed(v.items[i], RuleFields)
      BY <2>3 DEF IsListOf, IsRule
    <3>2. \A i \in DOMAIN v.items : Referable(v.items[i])
      BY <1>1, <3>1, ListFacts, NamedIsReferable DEF RuleFields
    <3>3. ~ (Len(v.items) > MaxMembers)
      BY <1>1, <2>3, ListFacts DEF IsListOf
    <3> QED
      BY <1>1, <3>2, <3>3, RepeatedGate
  <2> QED
    BY <1>1, <2>1, <2>2, <2>3, ListFacts DEF IsListOf
<1>2. CASE v.kind # "list"
  BY <1>2 DEF RuleCollection, RecordCollection, ListIssues, IsListOf
<1> QED
  BY <1>1, <1>2

(* _record_collection, of evidence requests.                               *)
LEMMA RequestsGate ==
  ASSUME NEW values, Closed(values), NEW v \in values
  PROVE  EvidenceCollection(v) = {} <=> IsListOf(v, IsRequest) /\ Differ(v.items)
<1>1. CASE v.kind = "list"
  <2>1. \A i \in DOMAIN v.items : EvidenceRecord(v.items[i]) = {} <=> IsRequest(v.items[i])
    BY <1>1, ListFacts, RequestGate
  <2>2. EvidenceCollection(v) = {} <=>
          /\ ~ (Len(v.items) > MaxMembers)
          /\ \A i \in DOMAIN v.items : EvidenceRecord(v.items[i]) = {}
          /\ ~ RepeatedIdentity(v)
    BY <1>1 DEF EvidenceCollection, RecordCollection, ListIssues, RaisedIf
  <2>3. ASSUME IsListOf(v, IsRequest)
        PROVE  RepeatedIdentity(v) <=> ~ Differ(v.items)
    <3>1. \A i \in DOMAIN v.items : IsNamed(v.items[i], RequestFields)
      BY <2>3 DEF IsListOf, IsRequest
    <3>2. \A i \in DOMAIN v.items : Referable(v.items[i])
      BY <1>1, <3>1, ListFacts, NamedIsReferable DEF RequestFields
    <3>3. ~ (Len(v.items) > MaxMembers)
      BY <1>1, <2>3, ListFacts DEF IsListOf
    <3> QED
      BY <1>1, <3>2, <3>3, RepeatedGate
  <2> QED
    BY <1>1, <2>1, <2>2, <2>3, ListFacts DEF IsListOf
<1>2. CASE v.kind # "list"
  BY <1>2 DEF EvidenceCollection, RecordCollection, ListIssues, IsListOf
<1> QED
  BY <1>1, <1>2

\* No record of a draft, and no premise of a rule, comes twice.
NoneTwice(root) ==
  /\ Differ(Field(root, "atoms").items)
  /\ Differ(Field(root, "rules").items)
  /\ Differ(Field(root, "evidence_requests").items)
  /\ \A i \in DOMAIN Field(root, "rules").items :
       Differ(Field(Field(root, "rules").items[i], "positive").items)

(* The schema and the shape of a root, up to what comes twice.             *)
LEMMA ShapeGates ==
  ASSUME NEW values, Closed(values), NEW root \in values, root.kind = "object"
  PROVE  SchemaIssues(root) = {} /\ ShapeIssues(root) = {} <=> IsDraftText(root) /\ NoneTwice(root)
<1>1. Clean(root)
  BY DEF Closed
<1>2. FieldIssues(root, RootFields) = {} <=> HasFields(root, RootFields)
  BY <1>1, FieldGate
<1>3. ASSUME HasFields(root, RootFields)
      PROVE  SchemaIssues(root) = {} /\ ShapeIssues(root) = {} <=> IsDraftText(root) /\ NoneTwice(root)
  <2>1. /\ "schema" \in Keys(root) /\ "atoms" \in Keys(root) /\ "rules" \in Keys(root)
        /\ "evidence_requests" \in Keys(root)
    BY <1>3 DEF HasFields, RootFields
  <2> DEFINE schema == Field(root, "schema")
             atoms == Field(root, "atoms")
             rules == Field(root, "rules")
             requests == Field(root, "evidence_requests")
  <2>2. atoms \in values /\ rules \in values /\ requests \in values
    BY <2>1, FieldIsIn
  <2>3. SchemaIssues(root) = {} <=> schema.kind = "string" /\ schema.text = "pff-draft/0.1"
    BY <2>1 DEF SchemaIssues, RaisedIf
  <2>4. ShapeIssues(root) =
          FieldIssues(root, RootFields) \cup AtomCollection(atoms) \cup RuleCollection(rules)
            \cup EvidenceCollection(requests)
    BY <2>1 DEF ShapeIssues, ValueIssues
  <2>5. AtomCollection(atoms) = {} <=> IsListOf(atoms, IsAtom) /\ Differ(atoms.items)
    BY <2>2, AtomsGate
  <2>6. RuleCollection(rules) = {} <=>
          /\ IsListOf(rules, IsRule) /\ Differ(rules.items)
          /\ \A i \in DOMAIN rules.items : Differ(Field(rules.items[i], "positive").items)
    BY <2>2, RulesGate
  <2>7. EvidenceCollection(requests) = {} <=>
          IsListOf(requests, IsRequest) /\ Differ(requests.items)
    BY <2>2, RequestsGate
  <2>8. IsDraftText(root) <=>
          /\ schema.kind = "string" /\ schema.text = "pff-draft/0.1"
          /\ IsListOf(atoms, IsAtom) /\ IsListOf(rules, IsRule) /\ IsListOf(requests, IsRequest)
    BY <1>3 DEF IsDraftText
  <2>9. NoneTwice(root) <=>
          /\ Differ(atoms.items) /\ Differ(rules.items) /\ Differ(requests.items)
          /\ \A i \in DOMAIN rules.items : Differ(Field(rules.items[i], "positive").items)
    BY DEF NoneTwice
  <2> HIDE DEF schema, atoms, rules, requests
  <2> QED
    BY <1>2, <1>3, <2>3, <2>4, <2>5, <2>6, <2>7, <2>8, <2>9
<1>4. ASSUME ~ HasFields(root, RootFields)
      PROVE  ~ IsDraftText(root) /\ ShapeIssues(root) # {}
  BY <1>2, <1>4 DEF IsDraftText, ShapeIssues
<1> QED
  BY <1>3, <1>4

-----------------------------------------------------------------------------
(* The gates on references ask what the grammar asks.                      *)

(* The link of rules I and requests J: rule i has reference r[i] and uses  *)
(* request u[i], and request j has reference q[j] and asks about s[j].  If *)
(* each rule uses a request, and each request has one rule that uses it    *)
(* and asks about that rule, then the rules and the requests are linked by *)
(* a bijection, and the reverse.                                           *)
Gated(I, J, r, u, q, s) ==
  /\ \A i \in I : \E j \in J : u[i] = q[j]
  /\ \A j \in J : \E i \in I : s[j] = r[i]
  /\ \A j \in J :
       /\ \E i \in I : u[i] = q[j]
       /\ \A i, k \in I : u[i] = q[j] /\ u[k] = q[j] => i = k
       /\ \A i \in I : u[i] = q[j] => s[j] = r[i]

(* The linkage gate looks at requests; with the reference gate it is       *)
(* enough.                                                                 *)
LEMMA LinksAreBijections ==
  ASSUME NEW I, NEW J, NEW r, NEW u, NEW q, NEW s,
         \A i, k \in I : r[i] = r[k] => i = k,
         \A j, k \in J : q[j] = q[k] => j = k
  PROVE  Gated(I, J, r, u, q, s) <=>
           \E f \in Bijection(I, J) : \A i \in I : u[i] = q[f[i]] /\ s[f[i]] = r[i]
<1>1. ASSUME Gated(I, J, r, u, q, s)
      PROVE  \E f \in Bijection(I, J) : \A i \in I : u[i] = q[f[i]] /\ s[f[i]] = r[i]
  <2> DEFINE f == [i \in I |-> CHOOSE j \in J : u[i] = q[j]]
  <2>1. \A i \in I : f[i] \in J /\ u[i] = q[f[i]]
    BY <1>1 DEF Gated
  <2>2. f \in [I -> J]
    BY <2>1
  <2> HIDE DEF f
  <2>3. \A i, k \in I : f[i] = f[k] => i = k
    BY <1>1, <2>1 DEF Gated
  <2>4. \A j \in J : \E i \in I : f[i] = j
    BY <1>1, <2>1 DEF Gated
  <2>5. \A i \in I : s[f[i]] = r[i]
    BY <1>1, <2>1 DEF Gated
  <2>6. f \in Bijection(I, J)
    BY <2>2, <2>3, <2>4 DEF Bijection, Injection, Surjection, IsInjective
  <2> QED
    BY <2>1, <2>5, <2>6
<1>2. ASSUME NEW f \in Bijection(I, J), \A i \in I : u[i] = q[f[i]] /\ s[f[i]] = r[i]
      PROVE  Gated(I, J, r, u, q, s)
  <2>1. /\ f \in [I -> J]
        /\ \A i, k \in I : f[i] = f[k] => i = k
        /\ \A j \in J : \E i \in I : f[i] = j
    BY <1>2 DEF Bijection, Injection, Surjection, IsInjective
  <2>2. \A i \in I : f[i] \in J
    BY <2>1
  <2>3. \A i \in I, j \in J : u[i] = q[j] => j = f[i]
    BY <1>2, <2>2
  <2> QED
    BY <1>2, <2>1, <2>2, <2>3 DEF Gated
<1> QED
  BY <1>1, <1>2

(* The collections of a draft text are lists, and values of it.            *)
LEMMA RootLists ==
  ASSUME NEW values, Closed(values), NEW root \in values, IsDraftText(root)
  PROVE  /\ Field(root, "atoms") \in values /\ Field(root, "atoms").kind = "list"
         /\ Field(root, "rules") \in values /\ Field(root, "rules").kind = "list"
         /\ Field(root, "evidence_requests") \in values
         /\ Field(root, "evidence_requests").kind = "list"
<1>1. root.kind = "object" /\ Keys(root) = RootFields
  BY DEF IsDraftText, HasFields
<1>2. "atoms" \in Keys(root) /\ "rules" \in Keys(root) /\ "evidence_requests" \in Keys(root)
  BY <1>1 DEF RootFields
<1>3. /\ Field(root, "atoms") \in values /\ Field(root, "rules") \in values
      /\ Field(root, "evidence_requests") \in values
  BY <1>1, <1>2, FieldIsIn
<1>4. /\ Field(root, "atoms").kind = "list" /\ Field(root, "rules").kind = "list"
      /\ Field(root, "evidence_requests").kind = "list"
  BY DEF IsDraftText, IsListOf
<1> QED
  BY <1>3, <1>4

(* Everything a draft compares has an identity.                            *)
LEMMA DraftsAreReferable ==
  ASSUME NEW values, Closed(values), NEW root \in values, IsDraftText(root)
  PROVE  LET A == Field(root, "atoms").items
             R == Field(root, "rules").items
             Q == Field(root, "evidence_requests").items
         IN  /\ \A i \in DOMAIN A : Referable(A[i])
             /\ \A i \in DOMAIN R :
                  /\ Referable(R[i]) /\ Referable(Field(R[i], "head"))
                  /\ Referable(Field(R[i], "evidence_request"))
                  /\ \A k \in DOMAIN Field(R[i], "positive").items :
                       Referable(Field(R[i], "positive").items[k])
             /\ \A i \in DOMAIN Q : Referable(Q[i]) /\ Referable(Field(Q[i], "subject"))
<1> DEFINE A == Field(root, "atoms").items
           R == Field(root, "rules").items
           Q == Field(root, "evidence_requests").items
<1>1. /\ \A i \in DOMAIN A : A[i] \in values /\ IsAtom(A[i])
      /\ \A i \in DOMAIN R : R[i] \in values /\ IsRule(R[i])
      /\ \A i \in DOMAIN Q : Q[i] \in values /\ IsRequest(Q[i])
  BY RootLists, ListFacts DEF IsDraftText, IsListOf
<1>2. /\ IdentityFields \subseteq AtomFields /\ IdentityFields \subseteq RuleFields
      /\ IdentityFields \subseteq RequestFields /\ IdentityFields \subseteq IdentityFields
  BY DEF AtomFields, RuleFields, RequestFields
<1>3. \A v \in values : IsReference(v) => Referable(v)
  BY <1>2, NamedIsReferable DEF IsReference
<1> HIDE DEF A, R, Q
<1>4. \A i \in DOMAIN A : Referable(A[i])
  BY <1>1, <1>2, NamedIsReferable DEF IsAtom
<1>5. ASSUME NEW i \in DOMAIN R
      PROVE  /\ Referable(R[i]) /\ Referable(Field(R[i], "head"))
             /\ Referable(Field(R[i], "evidence_request"))
             /\ \A k \in DOMAIN Field(R[i], "positive").items :
                  Referable(Field(R[i], "positive").items[k])
  <2>1. R[i] \in values /\ IsNamed(R[i], RuleFields)
    BY <1>1 DEF IsRule
  <2>2. {"head", "evidence_request", "positive"} \subseteq RuleFields
    BY DEF RuleFields
  <2>3. /\ Field(R[i], "head") \in values /\ Field(R[i], "evidence_request") \in values
        /\ Field(R[i], "positive") \in values
    BY <2>1, <2>2, NamedFields
  <2>4. /\ IsReference(Field(R[i], "head")) /\ IsReference(Field(R[i], "evidence_request"))
        /\ Field(R[i], "positive").kind = "list"
        /\ \A k \in DOMAIN Field(R[i], "positive").items :
             IsReference(Field(R[i], "positive").items[k])
    BY <1>1 DEF IsRule, IsListOf
  <2>5. \A k \in DOMAIN Field(R[i], "positive").items : Field(R[i], "positive").items[k] \in values
    BY <2>3, <2>4, ItemIsIn
  <2>6. Referable(R[i])
    BY <1>2, <2>1, NamedIsReferable
  <2> QED
    BY <1>3, <2>3, <2>4, <2>5, <2>6
<1>6. ASSUME NEW i \in DOMAIN Q
      PROVE  Referable(Q[i]) /\ Referable(Field(Q[i], "subject"))
  <2>1. Q[i] \in values /\ IsNamed(Q[i], RequestFields) /\ IsReference(Field(Q[i], "subject"))
    BY <1>1 DEF IsRequest
  <2>2. "subject" \in RequestFields
    BY DEF RequestFields
  <2>3. Field(Q[i], "subject") \in values
    BY <2>1, <2>2, NamedFields
  <2>4. Referable(Q[i])
    BY <1>2, <2>1, NamedIsReferable
  <2> QED
    BY <1>3, <2>1, <2>3, <2>4
<1> QED
  BY <1>4, <1>5, <1>6 DEF A, R, Q

(* Nothing dangles exactly when each reference is among those it may name. *)
LEMMA DanglingGate ==
  ASSUME NEW draft
  PROVE  DanglingIssues(draft) = {} <=>
           /\ \A r \in draft.rules : {r.head} \cup r.positive \subseteq RefsOf(draft.atoms)
           /\ \A r \in draft.rules : r.request \in RefsOf(draft.requests)
           /\ \A q \in draft.requests : q.subject \in RefsOf(draft.rules)
<1>1. \A ref, expected, others : ref \in expected => ReferenceIssue(ref, expected, others) = {}
  BY DEF ReferenceIssue
<1>2. ASSUME /\ \A r \in draft.rules : {r.head} \cup r.positive \subseteq RefsOf(draft.atoms)
             /\ \A r \in draft.rules : r.request \in RefsOf(draft.requests)
             /\ \A q \in draft.requests : q.subject \in RefsOf(draft.rules)
      PROVE  DanglingIssues(draft) = {}
  <2> DEFINE atoms == RefsOf(draft.atoms)
             rules == RefsOf(draft.rules)
             requests == RefsOf(draft.requests)
             named == UNION {{r.head} \cup r.positive : r \in draft.rules}
  <2> DEFINE M == UNION {ReferenceIssue(a, atoms, rules \cup requests) : a \in named}
             N == UNION {ReferenceIssue(r.request, requests, atoms \cup rules) :
                           r \in draft.rules}
             K == UNION {ReferenceIssue(q.subject, rules, atoms \cup requests) :
                           q \in draft.requests}
  <2>1. M = {}
    <3>1. \A a \in named : ReferenceIssue(a, atoms, rules \cup requests) = {}
      BY <1>1, <1>2
    <3> HIDE DEF atoms, rules, requests, named
    <3> QED
      BY <3>1
  <2>2. N = {}
    <3>1. \A r \in draft.rules : ReferenceIssue(r.request, requests, atoms \cup rules) = {}
      BY <1>1, <1>2
    <3> QED
      BY <3>1
  <2>3. K = {}
    <3>1. \A q \in draft.requests : ReferenceIssue(q.subject, rules, atoms \cup requests) = {}
      BY <1>1, <1>2
    <3> QED
      BY <3>1
  <2>4. DanglingIssues(draft) = M \cup N \cup K
    BY DEF DanglingIssues
  <2> HIDE DEF M, N, K
  <2> QED
    BY <2>1, <2>2, <2>3, <2>4
<1> QED
  BY <1>2, NothingDangles

\* Membership of an identity among those of records, and of a reference.
(* Membership by identity in the code, and here by reference.              *)
LEMMA AmongRefs ==
  ASSUME NEW items, \A i \in DOMAIN items : Referable(items[i]), NEW v, Referable(v)
  PROVE  (\E i \in DOMAIN items : Identity(v) = Identity(items[i])) <=> RefOf(v) \in RefsIn(items)
<1>1. \A i \in DOMAIN items : Identity(v) = Identity(items[i]) <=> RefOf(v) = RefOf(items[i])
  BY SameIdentity
<1> QED
  BY <1>1 DEF RefsIn

\* The gates on references, as they read the texts of a draft.
References(A, R, Q) ==
  /\ \A i \in DOMAIN R :
       /\ RefOf(Field(R[i], "head")) \in RefsIn(A)
       /\ RefsIn(Field(R[i], "positive").items) \subseteq RefsIn(A)
       /\ RefOf(Field(R[i], "evidence_request")) \in RefsIn(Q)
  /\ \A j \in DOMAIN Q : RefOf(Field(Q[j], "subject")) \in RefsIn(R)

Linkages(R, Q) ==
  \A j \in DOMAIN Q :
    /\ \E i \in DOMAIN R : RefOf(Field(R[i], "evidence_request")) = RefOf(Q[j])
    /\ \A i, k \in DOMAIN R :
         /\ RefOf(Field(R[i], "evidence_request")) = RefOf(Q[j])
         /\ RefOf(Field(R[k], "evidence_request")) = RefOf(Q[j])
         => i = k
    /\ \A i \in DOMAIN R : RefOf(Field(R[i], "evidence_request")) = RefOf(Q[j])
                             => RefOf(Field(Q[j], "subject")) = RefOf(R[i])

(* The reference gate, for a text of the grammar.                          *)
LEMMA ReferencesAreDangling ==
  ASSUME NEW values, Closed(values), NEW root \in values, IsDraftText(root)
  PROVE  DanglingIssues(DraftOf(root)) = {} <=>
           References(Field(root, "atoms").items, Field(root, "rules").items,
                      Field(root, "evidence_requests").items)
<1> DEFINE A == Field(root, "atoms").items
           R == Field(root, "rules").items
           Q == Field(root, "evidence_requests").items
           draft == DraftOf(root)
<1>1. /\ \A i \in DOMAIN A : Referable(A[i])
      /\ \A i \in DOMAIN R :
           /\ Referable(R[i]) /\ Referable(Field(R[i], "head"))
           /\ Referable(Field(R[i], "evidence_request"))
           /\ \A k \in DOMAIN Field(R[i], "positive").items :
                Referable(Field(R[i], "positive").items[k])
      /\ \A i \in DOMAIN Q : Referable(Q[i]) /\ Referable(Field(Q[i], "subject"))
  BY DraftsAreReferable
<1>2. /\ draft.atoms = {DraftAtomOf(A[i]) : i \in DOMAIN A}
      /\ draft.rules = {DraftRuleOf(R[i]) : i \in DOMAIN R}
      /\ draft.requests = {DraftRequestOf(Q[i]) : i \in DOMAIN Q}
  BY DEF DraftOf, Items
<1>3. /\ \A v : DraftAtomOf(v).ref = Identity(v)
      /\ \A v : /\ DraftRuleOf(v).ref = Identity(v)
                /\ DraftRuleOf(v).head = Identity(Field(v, "head"))
                /\ DraftRuleOf(v).positive = {Identity(a) : a \in Items(Field(v, "positive"))}
                /\ DraftRuleOf(v).request = Identity(Field(v, "evidence_request"))
      /\ \A v : /\ DraftRequestOf(v).ref = Identity(v)
                /\ DraftRequestOf(v).subject = Identity(Field(v, "subject"))
  BY DEF DraftAtomOf, DraftRuleOf, DraftRequestOf, ReferenceTo
<1> HIDE DEF A, R, Q, draft
<1>4. /\ RefsOf(draft.atoms) = {Identity(A[i]) : i \in DOMAIN A}
      /\ RefsOf(draft.rules) = {Identity(R[i]) : i \in DOMAIN R}
      /\ RefsOf(draft.requests) = {Identity(Q[i]) : i \in DOMAIN Q}
  BY <1>2, <1>3 DEF RefsOf
<1>5. (\A r \in draft.rules : {r.head} \cup r.positive \subseteq RefsOf(draft.atoms)) <=>
        \A i \in DOMAIN R :
          /\ RefOf(Field(R[i], "head")) \in RefsIn(A)
          /\ RefsIn(Field(R[i], "positive").items) \subseteq RefsIn(A)
  <2>1. ASSUME NEW i \in DOMAIN R
        PROVE  {DraftRuleOf(R[i]).head} \cup DraftRuleOf(R[i]).positive \subseteq RefsOf(draft.atoms)
                 <=> /\ RefOf(Field(R[i], "head")) \in RefsIn(A)
                     /\ RefsIn(Field(R[i], "positive").items) \subseteq RefsIn(A)
    <3> DEFINE P == Field(R[i], "positive").items
    <3>1. DraftRuleOf(R[i]).positive = {Identity(P[k]) : k \in DOMAIN P}
      BY <1>3 DEF Items
    <3>2. Identity(Field(R[i], "head")) \in RefsOf(draft.atoms) <=>
            RefOf(Field(R[i], "head")) \in RefsIn(A)
      BY <1>1, <1>4, AmongRefs
    <3>3. \A k \in DOMAIN P :
            Identity(P[k]) \in RefsOf(draft.atoms) <=> RefOf(P[k]) \in RefsIn(A)
      BY <1>1, <1>4, AmongRefs
    <3>4. RefsIn(P) \subseteq RefsIn(A) <=> \A k \in DOMAIN P : RefOf(P[k]) \in RefsIn(A)
      BY DEF RefsIn
    <3> HIDE DEF P
    <3>5. DraftRuleOf(R[i]).positive \subseteq RefsOf(draft.atoms) <=> RefsIn(P) \subseteq RefsIn(A)
      BY <3>1, <3>3, <3>4
    <3> QED
      BY <1>3, <3>2, <3>5 DEF P
  <2> QED
    BY <1>2, <2>1
<1>6. (\A r \in draft.rules : r.request \in RefsOf(draft.requests)) <=>
        \A i \in DOMAIN R : RefOf(Field(R[i], "evidence_request")) \in RefsIn(Q)
  <2>1. \A i \in DOMAIN R :
          Identity(Field(R[i], "evidence_request")) \in RefsOf(draft.requests) <=>
            RefOf(Field(R[i], "evidence_request")) \in RefsIn(Q)
    BY <1>1, <1>4, AmongRefs
  <2> DEFINE refs == RefsOf(draft.requests)
  <2>2. (\A r \in draft.rules : r.request \in refs) <=>
          \A i \in DOMAIN R : DraftRuleOf(R[i]).request \in refs
    <3> HIDE DEF refs
    <3> QED
      BY <1>2
  <2>3. \A i \in DOMAIN R :
          DraftRuleOf(R[i]).request = Identity(Field(R[i], "evidence_request"))
    BY <1>3
  <2> QED
    BY <2>1, <2>2, <2>3
<1>7. (\A q \in draft.requests : q.subject \in RefsOf(draft.rules)) <=>
        \A j \in DOMAIN Q : RefOf(Field(Q[j], "subject")) \in RefsIn(R)
  <2>1. \A j \in DOMAIN Q :
          Identity(Field(Q[j], "subject")) \in RefsOf(draft.rules) <=>
            RefOf(Field(Q[j], "subject")) \in RefsIn(R)
    BY <1>1, <1>4, AmongRefs
  <2> DEFINE refs == RefsOf(draft.rules)
  <2>2. (\A q \in draft.requests : q.subject \in refs) <=>
          \A j \in DOMAIN Q : DraftRequestOf(Q[j]).subject \in refs
    <3> HIDE DEF refs
    <3> QED
      BY <1>2
  <2>3. \A j \in DOMAIN Q : DraftRequestOf(Q[j]).subject = Identity(Field(Q[j], "subject"))
    BY <1>3
  <2> QED
    BY <2>1, <2>2, <2>3
<1>8. DanglingIssues(draft) = {} <=> References(A, R, Q)
  BY <1>5, <1>6, <1>7, DanglingGate DEF References
<1> QED
  BY <1>8 DEF A, R, Q, draft

(* The linkage gate, for a text of the grammar.                            *)
LEMMA LinkagesAreGated ==
  ASSUME NEW values, Closed(values), NEW root \in values, IsDraftText(root),
         Differ(Field(root, "rules").items)
  PROVE  LinkageIssues(DraftOf(root)) = {} <=>
           Linkages(Field(root, "rules").items, Field(root, "evidence_requests").items)
<1> DEFINE R == Field(root, "rules").items
           Q == Field(root, "evidence_requests").items
           draft == DraftOf(root)
<1>1. /\ \A i \in DOMAIN R : Referable(R[i]) /\ Referable(Field(R[i], "evidence_request"))
      /\ \A j \in DOMAIN Q : Referable(Q[j]) /\ Referable(Field(Q[j], "subject"))
  BY DraftsAreReferable
<1>2. /\ draft.rules = {DraftRuleOf(R[i]) : i \in DOMAIN R}
      /\ draft.requests = {DraftRequestOf(Q[i]) : i \in DOMAIN Q}
  BY DEF DraftOf, Items
<1>3. /\ \A v : /\ DraftRuleOf(v).ref = Identity(v)
                /\ DraftRuleOf(v).request = Identity(Field(v, "evidence_request"))
      /\ \A v : /\ DraftRequestOf(v).ref = Identity(v)
                /\ DraftRequestOf(v).subject = Identity(Field(v, "subject"))
  BY DEF DraftRuleOf, DraftRequestOf, ReferenceTo
<1>0. \A i, k \in DOMAIN R : RefOf(R[i]) = RefOf(R[k]) => i = k
  BY DEF Differ
<1> HIDE DEF R, Q, draft
<1>4. \A i \in DOMAIN R, j \in DOMAIN Q :
        /\ Identity(Field(R[i], "evidence_request")) = Identity(Q[j]) <=>
             RefOf(Field(R[i], "evidence_request")) = RefOf(Q[j])
        /\ Identity(Field(Q[j], "subject")) = Identity(R[i]) <=>
             RefOf(Field(Q[j], "subject")) = RefOf(R[i])
  BY <1>1, SameIdentity
<1>5. \A i, k \in DOMAIN R : DraftRuleOf(R[i]) = DraftRuleOf(R[k]) => i = k
  <2>1. \A i, k \in DOMAIN R : Identity(R[i]) = Identity(R[k]) => RefOf(R[i]) = RefOf(R[k])
    BY <1>1, SameIdentity
  <2> QED
    BY <1>0, <1>3, <2>1
<1>6. LinkageIssues(draft) = {} <=>
        \A q \in draft.requests :
          /\ Users(draft, q) # {}
          /\ \A r, s \in Users(draft, q) : r = s
          /\ \A r \in Users(draft, q) : q.subject = r.ref
  BY RaisedIfNone DEF LinkageIssues
<1>7. ASSUME NEW j \in DOMAIN Q
      PROVE  LET q == DraftRequestOf(Q[j])
             IN  (/\ Users(draft, q) # {}
                  /\ \A r, s \in Users(draft, q) : r = s
                  /\ \A r \in Users(draft, q) : q.subject = r.ref)
                 <=>
                 (/\ \E i \in DOMAIN R : RefOf(Field(R[i], "evidence_request")) = RefOf(Q[j])
                  /\ \A i, k \in DOMAIN R :
                       /\ RefOf(Field(R[i], "evidence_request")) = RefOf(Q[j])
                       /\ RefOf(Field(R[k], "evidence_request")) = RefOf(Q[j])
                       => i = k
                  /\ \A i \in DOMAIN R : RefOf(Field(R[i], "evidence_request")) = RefOf(Q[j])
                                           => RefOf(Field(Q[j], "subject")) = RefOf(R[i]))
  <2> DEFINE q == DraftRequestOf(Q[j])
             Uses(i) == RefOf(Field(R[i], "evidence_request")) = RefOf(Q[j])
             U == {i \in DOMAIN R : Uses(i)}
  <2>1. Users(draft, q) = {DraftRuleOf(R[i]) : i \in U}
    BY <1>2, <1>3, <1>4 DEF Users
  <2>2. \A i \in DOMAIN R : q.subject = DraftRuleOf(R[i]).ref <=>
                              RefOf(Field(Q[j], "subject")) = RefOf(R[i])
    BY <1>3, <1>4
  <2>3. \A i \in U : i \in DOMAIN R
    OBVIOUS
  <2> HIDE DEF q, U
  <2>4. /\ Users(draft, q) # {} <=> U # {}
        /\ (\A r, s \in Users(draft, q) : r = s) <=> \A i, k \in U : i = k
        /\ (\A r \in Users(draft, q) : q.subject = r.ref) <=>
             \A i \in U : RefOf(Field(Q[j], "subject")) = RefOf(R[i])
    <3>1. Users(draft, q) # {} <=> U # {}
      BY <2>1
    <3>2. (\A r, s \in Users(draft, q) : r = s) <=> \A i, k \in U : i = k
      BY <1>5, <2>1, <2>3, SMTT(30)
    <3>3. (\A r \in Users(draft, q) : q.subject = r.ref) <=>
             \A i \in U : RefOf(Field(Q[j], "subject")) = RefOf(R[i])
      BY <2>1, <2>2, <2>3
    <3> QED
      BY <3>1, <3>2, <3>3
  <2> QED
    BY <2>4 DEF q, U
<1>8. LinkageIssues(draft) = {} <=> Linkages(R, Q)
  BY <1>2, <1>6, <1>7 DEF Linkages
<1> QED
  BY <1>8 DEF R, Q, draft

(* The gates from the schema on accept what the grammar describes.         *)
LEMMA RootGates ==
  ASSUME NEW values, Closed(values), NEW root \in values
  PROVE  RootIssues(root) = {} <=> IsDraftText(root) /\ IsLinkedDraft(root)
<1>1. CASE root.kind # "object"
  BY <1>1 DEF RootIssues, IsDraftText, HasFields
<1>2. CASE root.kind = "object"
  <2> DEFINE A == Field(root, "atoms").items
             R == Field(root, "rules").items
             Q == Field(root, "evidence_requests").items
  <2>1. RootIssues(root) = {} <=>
          /\ SchemaIssues(root) = {} /\ ShapeIssues(root) = {}
          /\ DanglingIssues(DraftOf(root)) = {} /\ LinkageIssues(DraftOf(root)) = {}
    BY <1>2 DEF RootIssues
  <2>2. SchemaIssues(root) = {} /\ ShapeIssues(root) = {} <=> IsDraftText(root) /\ NoneTwice(root)
    BY <1>2, ShapeGates
  <2>3. ASSUME IsDraftText(root), NoneTwice(root)
        PROVE  /\ DanglingIssues(DraftOf(root)) = {} <=> References(A, R, Q)
               /\ LinkageIssues(DraftOf(root)) = {} <=> Linkages(R, Q)
    <3>1. Differ(R)
      BY <2>3 DEF NoneTwice
    <3> QED
      BY <2>3, <3>1, ReferencesAreDangling, LinkagesAreGated
  <2>4. ASSUME NoneTwice(root)
        PROVE  References(A, R, Q) /\ Linkages(R, Q) <=> IsLinkedDraft(root)
    <3> DEFINE I == DOMAIN R
               J == DOMAIN Q
               r == [i \in I |-> RefOf(R[i])]
               u == [i \in I |-> RefOf(Field(R[i], "evidence_request"))]
               q == [j \in J |-> RefOf(Q[j])]
               s == [j \in J |-> RefOf(Field(Q[j], "subject"))]
    <3>1. /\ Differ(A) /\ Differ(R) /\ Differ(Q)
          /\ \A i \in I : Differ(Field(R[i], "positive").items)
      BY <2>4 DEF NoneTwice
    <3>2. /\ \A i, k \in I : r[i] = r[k] => i = k
          /\ \A j, k \in J : q[j] = q[k] => j = k
      BY <3>1 DEF Differ
    <3>3. (\E f \in Bijection(I, J) : LinkedBy(f, R, Q)) <=>
            \E f \in Bijection(I, J) : \A i \in I : u[i] = q[f[i]] /\ s[f[i]] = r[i]
      <4>1. \A f \in Bijection(I, J) : \A i \in I : f[i] \in J
        BY DEF Bijection, Injection, Surjection
      <4> QED
        BY <4>1 DEF LinkedBy
    <3>4. Gated(I, J, r, u, q, s) <=>
            \E f \in Bijection(I, J) : \A i \in I : u[i] = q[f[i]] /\ s[f[i]] = r[i]
      <4> HIDE DEF I, J, r, u, q, s
      <4> QED
        BY <3>2, LinksAreBijections
    <3>5. /\ \A i \in I : RefOf(Field(R[i], "evidence_request")) \in RefsIn(Q) <=>
                            \E j \in J : u[i] = q[j]
          /\ \A j \in J : RefOf(Field(Q[j], "subject")) \in RefsIn(R) <=>
                            \E i \in I : s[j] = r[i]
      BY DEF RefsIn
    <3>6. Linkages(R, Q) <=>
            \A j \in J :
              /\ \E i \in I : u[i] = q[j]
              /\ \A i, k \in I : u[i] = q[j] /\ u[k] = q[j] => i = k
              /\ \A i \in I : u[i] = q[j] => s[j] = r[i]
      <4>1. /\ \A i \in I : r[i] = RefOf(R[i]) /\ u[i] = RefOf(Field(R[i], "evidence_request"))
            /\ \A j \in J : q[j] = RefOf(Q[j]) /\ s[j] = RefOf(Field(Q[j], "subject"))
        OBVIOUS
      <4>2. I = DOMAIN R /\ J = DOMAIN Q
        OBVIOUS
      <4> HIDE DEF A, R, Q, I, J, r, u, q, s
      <4>3. ASSUME NEW j \in J
            PROVE  (/\ \E i \in I : RefOf(Field(R[i], "evidence_request")) = RefOf(Q[j])
                    /\ \A i, k \in I :
                         /\ RefOf(Field(R[i], "evidence_request")) = RefOf(Q[j])
                         /\ RefOf(Field(R[k], "evidence_request")) = RefOf(Q[j])
                         => i = k
                    /\ \A i \in I : RefOf(Field(R[i], "evidence_request")) = RefOf(Q[j])
                                     => RefOf(Field(Q[j], "subject")) = RefOf(R[i]))
                   <=>
                   (/\ \E i \in I : u[i] = q[j]
                    /\ \A i, k \in I : u[i] = q[j] /\ u[k] = q[j] => i = k
                    /\ \A i \in I : u[i] = q[j] => s[j] = r[i])
        BY <4>1
      <4> QED
        BY <4>2, <4>3 DEF Linkages
    <3>7. References(A, R, Q) <=>
            /\ \A i \in I : /\ RefOf(Field(R[i], "head")) \in RefsIn(A)
                            /\ RefsIn(Field(R[i], "positive").items) \subseteq RefsIn(A)
            /\ \A i \in I : \E j \in J : u[i] = q[j]
            /\ \A j \in J : \E i \in I : s[j] = r[i]
      <4>1. References(A, R, Q) <=>
              /\ \A i \in I : /\ RefOf(Field(R[i], "head")) \in RefsIn(A)
                              /\ RefsIn(Field(R[i], "positive").items) \subseteq RefsIn(A)
              /\ \A i \in I : RefOf(Field(R[i], "evidence_request")) \in RefsIn(Q)
              /\ \A j \in J : RefOf(Field(Q[j], "subject")) \in RefsIn(R)
        BY DEF References
      <4> HIDE DEF A, R, Q, I, J, r, u, q, s
      <4> QED
        BY <3>5, <4>1
    <3>8. IsLinkedDraft(root) <=>
            /\ \A i \in I : /\ RefOf(Field(R[i], "head")) \in RefsIn(A)
                            /\ RefsIn(Field(R[i], "positive").items) \subseteq RefsIn(A)
            /\ \E f \in Bijection(I, J) : LinkedBy(f, R, Q)
      BY <3>1 DEF IsLinkedDraft
    <3> HIDE DEF I, J, r, u, q, s
    <3> QED
      BY <3>3, <3>4, <3>6, <3>7, <3>8 DEF Gated
  <2>5. IsLinkedDraft(root) => NoneTwice(root)
    BY DEF IsLinkedDraft, NoneTwice
  <2> QED
    BY <2>1, <2>2, <2>3, <2>4, <2>5
<1> QED
  BY <1>1, <1>2

-----------------------------------------------------------------------------
(* What follows the grammar passes the gates on any JSON text: it is not   *)
(* too deep, and every value of it is clean.                               *)

\* What may stand at each depth of a draft.
Leaf(v) == ~ Container(v) /\ (v.kind = "string" => v.text \notin NonScalarText)

Tier1(v) == Leaf(v) \/ IsListOf(v, IsAtom) \/ IsListOf(v, IsRule) \/ IsListOf(v, IsRequest)

Tier2(v) == IsAtom(v) \/ IsRule(v) \/ IsRequest(v)

Tier3(v) == Leaf(v) \/ IsReference(v) \/ IsListOf(v, IsText) \/ IsListOf(v, IsReference)

Tier4(v) == Leaf(v) \/ IsReference(v)

(* A value that holds no other value.                                      *)
LEMMA LeavesAreClean ==
  ASSUME NEW v, Leaf(v)
  PROVE  Clean(v) /\ Within(v) = {}
  BY DEF Leaf, Clean, Within, Container

(* What stands in the fields of records and references.                    *)
LEMMA ValuesAreLeaves ==
  ASSUME NEW v
  PROVE  /\ IsText(v) => Leaf(v)
         /\ IsWord(v) => Leaf(v)
         /\ IsIdentifier(v) => Leaf(v)
         /\ IsVersion(v) => Leaf(v)
         /\ v = Null => Leaf(v)
<1>1. IsText(v) => Leaf(v)
  BY DEF IsText, Leaf, Container
<1>2. IsVersion(v) => Leaf(v)
  BY DEF IsVersion, Leaf, Container
<1>3. v = Null => Leaf(v)
  BY DEF Null, Leaf, Container
<1> QED
  BY <1>1, <1>2, <1>3 DEF IsWord, IsIdentifier

(* An object of the grammar: its keys are plain text, none comes twice.    *)
LEMMA FieldsAreClean ==
  ASSUME NEW v, NEW fields, HasFields(v, fields),
         fields \in {RootFields, AtomFields, RuleFields, RequestFields, IdentityFields}
  PROVE  Clean(v) /\ \A w \in Within(v) : \E key \in fields : w = Field(v, key)
<1>1. /\ v.kind = "object" /\ v.repeated = {} /\ Keys(v) = fields
      /\ \A m, n \in v.members : m[1] = n[1] => m = n
  BY DEF HasFields
<1>2. fields \cap NonScalarText = {}
  BY DraftGrammarAssumption DEF AtomFields
<1>3. Clean(v)
  BY <1>1, <1>2 DEF Clean
<1>4. \A m \in v.members : m[1] \in fields /\ m[2] = Field(v, m[1])
  BY <1>1 DEF Keys, Field
<1> QED
  BY <1>1, <1>3, <1>4 DEF Within

(* A reference holds leaves.                                               *)
LEMMA ReferencesAreClean ==
  ASSUME NEW v, IsReference(v)
  PROVE  Clean(v) /\ \A w \in Within(v) : Leaf(w)
<1>1. HasFields(v, IdentityFields) /\ IsIdentifier(Field(v, "id")) /\ IsVersion(Field(v, "version"))
  BY DEF IsReference, IsNamed
<1>2. \A key \in IdentityFields : Leaf(Field(v, key))
  BY <1>1, ValuesAreLeaves DEF IdentityFields
<1> QED
  BY <1>1, <1>2, FieldsAreClean

(* A record holds leaves, references and lists of these.                   *)
LEMMA RecordsAreClean ==
  ASSUME NEW v, Tier2(v)
  PROVE  Clean(v) /\ \A w \in Within(v) : Tier3(w)
<1>1. CASE IsAtom(v)
  <2>1. HasFields(v, AtomFields)
    BY <1>1 DEF IsAtom, IsNamed
  <2>2. \A key \in AtomFields : Tier3(Field(v, key))
    <3>1. /\ Leaf(Field(v, "id")) /\ Leaf(Field(v, "version")) /\ Leaf(Field(v, "predicate"))
          /\ Leaf(Field(v, "frame")) /\ Leaf(Field(v, "grade"))
          /\ IsListOf(Field(v, "args"), IsText)
      BY <1>1, ValuesAreLeaves DEF IsAtom, IsNamed
    <3> QED
      BY <3>1 DEF Tier3, AtomFields, IdentityFields
  <2> QED
    BY <2>1, <2>2, FieldsAreClean
<1>2. CASE IsRule(v)
  <2>1. HasFields(v, RuleFields)
    BY <1>2 DEF IsRule, IsNamed
  <2>2. \A key \in RuleFields : Tier3(Field(v, key))
    <3>1. /\ Leaf(Field(v, "id")) /\ Leaf(Field(v, "version"))
          /\ IsReference(Field(v, "head")) /\ IsReference(Field(v, "evidence_request"))
          /\ IsListOf(Field(v, "positive"), IsReference)
      BY <1>2, ValuesAreLeaves DEF IsRule, IsNamed
    <3> QED
      BY <3>1 DEF Tier3, RuleFields, IdentityFields
  <2> QED
    BY <2>1, <2>2, FieldsAreClean
<1>3. CASE IsRequest(v)
  <2>1. HasFields(v, RequestFields)
    BY <1>3 DEF IsRequest, IsNamed
  <2>2. \A key \in RequestFields : Tier3(Field(v, key))
    <3>1. /\ Leaf(Field(v, "id")) /\ Leaf(Field(v, "version")) /\ Leaf(Field(v, "kind"))
          /\ Leaf(Field(v, "question")) /\ IsReference(Field(v, "subject"))
      BY <1>3, ValuesAreLeaves DEF IsRequest, IsNamed
    <3> QED
      BY <3>1 DEF Tier3, RequestFields, IdentityFields
  <2> QED
    BY <2>1, <2>2, FieldsAreClean
<1> QED
  BY <1>1, <1>2, <1>3 DEF Tier2

(* A list holds its members.                                               *)
LEMMA ListsAreClean ==
  ASSUME NEW v, v.kind = "list"
  PROVE  Clean(v) /\ \A w \in Within(v) : \E i \in DOMAIN v.items : w = v.items[i]
  BY DEF Clean, Within

(* Each depth is clean, and says what the next one is.                     *)
LEMMA TiersAreClean ==
  ASSUME NEW v
  PROVE  /\ IsDraftText(v) => Clean(v) /\ \A w \in Within(v) : Tier1(w)
         /\ Tier1(v) => Clean(v) /\ \A w \in Within(v) : Tier2(w)
         /\ Tier2(v) => Clean(v) /\ \A w \in Within(v) : Tier3(w)
         /\ Tier3(v) => Clean(v) /\ \A w \in Within(v) : Tier4(w)
         /\ Tier4(v) => Clean(v) /\ \A w \in Within(v) : Leaf(w)
<1>1. ASSUME IsDraftText(v)
      PROVE  Clean(v) /\ \A w \in Within(v) : Tier1(w)
  <2>1. HasFields(v, RootFields)
    BY <1>1 DEF IsDraftText
  <2>2. Leaf(Field(v, "schema"))
    BY <1>1, DraftGrammarAssumption DEF IsDraftText, Leaf, Container
  <2>3. \A key \in RootFields : Tier1(Field(v, key))
    BY <1>1, <2>2 DEF IsDraftText, RootFields, Tier1
  <2> QED
    BY <2>1, <2>3, FieldsAreClean
<1>2. ASSUME Tier1(v)
      PROVE  Clean(v) /\ \A w \in Within(v) : Tier2(w)
  <2>1. CASE Leaf(v)
    BY <2>1, LeavesAreClean
  <2>2. CASE IsListOf(v, IsAtom) \/ IsListOf(v, IsRule) \/ IsListOf(v, IsRequest)
    BY <2>2, ListsAreClean DEF IsListOf, Tier2
  <2> QED
    BY <1>2, <2>1, <2>2 DEF Tier1
<1>3. ASSUME Tier3(v)
      PROVE  Clean(v) /\ \A w \in Within(v) : Tier4(w)
  <2>1. CASE Leaf(v)
    BY <2>1, LeavesAreClean
  <2>2. CASE IsReference(v)
    BY <2>2, ReferencesAreClean DEF Tier4
  <2>3. CASE IsListOf(v, IsText) \/ IsListOf(v, IsReference)
    BY <2>3, ListsAreClean, ValuesAreLeaves DEF IsListOf, Tier4
  <2> QED
    BY <1>3, <2>1, <2>2, <2>3 DEF Tier3
<1>4. ASSUME Tier4(v)
      PROVE  Clean(v) /\ \A w \in Within(v) : Leaf(w)
  BY <1>4, LeavesAreClean, ReferencesAreClean DEF Tier4
<1> QED
  BY <1>1, <1>2, <1>3, <1>4, RecordsAreClean

(* The grammar nests five deep, within the limit.                          *)
LEMMA DraftTextsAreParsed ==
  ASSUME NEW root, IsDraftText(root)
  PROVE  Parsed(root)
<1> DEFINE layer == Layers(root)
           L == JsonDepthLimit
<1>1. /\ LayersTo(layer, root, L)
      /\ L \in Nat /\ L >= 5
  BY LayersAre, JsonValueAssumption, DraftGrammarAssumption
<1>2. /\ Components(root) = UNION {layer[n] : n \in 0 .. L}
      /\ TooDeep(root) <=> \E v \in layer[L] : Container(v)
  BY DEF Components, TooDeep
<1> HIDE DEF layer, L
<1>3. ASSUME NEW n \in Nat, n + 1 <= L
      PROVE  layer[n + 1] = UNION {Within(v) : v \in layer[n]}
  <2>1. n + 1 \in 1 .. L /\ (n + 1) - 1 = n
    BY <1>1, <1>3
  <2> QED
    BY <1>1, <1>3, <2>1 DEF LayersTo, L
<1>4. \A v \in layer[0] : IsDraftText(v)
  BY <1>1 DEF LayersTo
<1>5. /\ layer[1] = UNION {Within(v) : v \in layer[0]}
      /\ layer[2] = UNION {Within(v) : v \in layer[1]}
      /\ layer[3] = UNION {Within(v) : v \in layer[2]}
      /\ layer[4] = UNION {Within(v) : v \in layer[3]}
      /\ layer[5] = UNION {Within(v) : v \in layer[4]}
  <2>1. /\ 0 + 1 = 1 /\ 1 + 1 = 2 /\ 2 + 1 = 3 /\ 3 + 1 = 4 /\ 4 + 1 = 5
        /\ 1 <= L /\ 2 <= L /\ 3 <= L /\ 4 <= L /\ 5 <= L
    BY <1>1
  <2> QED
    BY <1>3, <2>1
<1>6. \A v \in layer[1] : Tier1(v)
  BY <1>4, <1>5, TiersAreClean
<1>7. \A v \in layer[2] : Tier2(v)
  BY <1>5, <1>6, TiersAreClean
<1>8. \A v \in layer[3] : Tier3(v)
  BY <1>5, <1>7, TiersAreClean
<1>9. \A v \in layer[4] : Tier4(v)
  BY <1>5, <1>8, TiersAreClean
<1>10. \A v \in layer[5] : Leaf(v)
  BY <1>5, <1>9, TiersAreClean
<1>11. \A n \in Nat : n + 6 <= L => layer[n + 6] = {}
  <2> DEFINE S == {n \in Nat : n + 6 <= L => layer[n + 6] = {}}
  <2>1. 0 \in S
    <3>1. 6 <= L => layer[5 + 1] = UNION {Within(v) : v \in layer[5]}
      BY <1>3
    <3>2. \A v \in layer[5] : Within(v) = {}
      BY <1>10, LeavesAreClean
    <3>3. 5 + 1 = 6 /\ 0 + 6 = 6
      OBVIOUS
    <3> QED
      BY <3>1, <3>2, <3>3
  <2>2. ASSUME NEW n \in Nat, n \in S
        PROVE  n + 1 \in S
    <3> SUFFICES ASSUME (n + 1) + 6 <= L
                 PROVE  layer[(n + 1) + 6] = {}
      OBVIOUS
    <3>1. /\ n + 6 \in Nat /\ n + 6 <= L /\ (n + 6) + 1 <= L
          /\ (n + 1) + 6 = (n + 6) + 1
      BY <1>1
    <3>2. layer[n + 6] = {}
      BY <2>2, <3>1
    <3>3. layer[(n + 6) + 1] = UNION {Within(v) : v \in layer[n + 6]}
      BY <1>3, <3>1
    <3> QED
      BY <3>1, <3>2, <3>3
  <2>3. Nat \subseteq S
    <3> HIDE DEF S
    <3> QED
      BY <2>1, <2>2, NatFromZero
  <2> QED
    BY <2>3
<1>12. ASSUME NEW n \in 0 .. L, NEW v \in layer[n]
       PROVE  Clean(v) /\ (n >= 5 => Leaf(v))
  <2>1. CASE n \in 0 .. 5
    <3>1. n = 0 \/ n = 1 \/ n = 2 \/ n = 3 \/ n = 4 \/ n = 5
      BY <2>1
    <3>2. n # 5 => ~ (n >= 5)
      BY <3>1
    <3> QED
      BY <1>4, <1>6, <1>7, <1>8, <1>9, <1>10, <1>12, <3>1, <3>2, TiersAreClean, LeavesAreClean
  <2>2. CASE n \notin 0 .. 5
    <3>1. n - 6 \in Nat /\ (n - 6) + 6 = n /\ (n - 6) + 6 <= L
      BY <1>1, <2>2
    <3>2. layer[n] = {}
      BY <1>11, <3>1
    <3> QED
      BY <3>2
  <2> QED
    BY <2>1, <2>2
<1>13. ~ TooDeep(root)
  <2>1. L \in 0 .. L
    BY <1>1
  <2> QED
    BY <1>1, <1>2, <1>12, <2>1 DEF Leaf
<1>14. \A v \in Components(root) : Clean(v)
  BY <1>2, <1>12
<1>15. ~ HasNonScalarString(root)
  BY <1>14 DEF HasNonScalarString, Clean
<1>16. ~ HasDuplicateKey(root)
  BY <1>14 DEF HasDuplicateKey, Clean
<1> QED
  BY <1>13, <1>15, <1>16 DEF Parsed

-----------------------------------------------------------------------------
(* What an accepted draft has of each kind.                                *)

(* As many values as places, when no two places share one.                 *)
LEMMA CountOfDistinct ==
  ASSUME NEW n \in Nat, NEW g, g = [i \in 1 .. n |-> g[i]],
         \A i, k \in 1 .. n : g[i] = g[k] => i = k
  PROVE  Cardinality({g[i] : i \in 1 .. n}) = n
<1> DEFINE S == {g[i] : i \in 1 .. n}
<1>1. g \in Bijection(1 .. n, S)
  BY DEF Bijection, Injection, Surjection, IsInjective
<1>2. ExistsBijection(1 .. n, S)
  BY <1>1 DEF ExistsBijection
<1> QED
  BY <1>2, FS_CountingElements

(* A draft has one record for each of the text: none is lost or merged.    *)
LEMMA DraftsAreComplete ==
  ASSUME NEW values, Closed(values), NEW root \in values, IsDraftText(root), IsLinkedDraft(root)
  PROVE  /\ Cardinality(DraftOf(root).atoms) = Len(Field(root, "atoms").items)
         /\ Cardinality(DraftOf(root).rules) = Len(Field(root, "rules").items)
         /\ Cardinality(DraftOf(root).requests) = Len(Field(root, "evidence_requests").items)
<1> DEFINE A == Field(root, "atoms").items
           R == Field(root, "rules").items
           Q == Field(root, "evidence_requests").items
<1>1. /\ Len(A) \in Nat /\ DOMAIN A = 1 .. Len(A)
      /\ Len(R) \in Nat /\ DOMAIN R = 1 .. Len(R)
      /\ Len(Q) \in Nat /\ DOMAIN Q = 1 .. Len(Q)
  BY RootLists, ListFacts
<1>2. /\ \A i \in DOMAIN A : Referable(A[i])
      /\ \A i \in DOMAIN R : Referable(R[i])
      /\ \A i \in DOMAIN Q : Referable(Q[i])
  BY DraftsAreReferable
<1>3. /\ \A i, k \in DOMAIN A : RefOf(A[i]) = RefOf(A[k]) => i = k
      /\ \A i, k \in DOMAIN R : RefOf(R[i]) = RefOf(R[k]) => i = k
      /\ \A i, k \in DOMAIN Q : RefOf(Q[i]) = RefOf(Q[k]) => i = k
  BY DEF IsLinkedDraft, Differ
<1>4. /\ DraftOf(root).atoms = {DraftAtomOf(A[i]) : i \in DOMAIN A}
      /\ DraftOf(root).rules = {DraftRuleOf(R[i]) : i \in DOMAIN R}
      /\ DraftOf(root).requests = {DraftRequestOf(Q[i]) : i \in DOMAIN Q}
  BY DEF DraftOf, Items
<1>5. \A v : /\ DraftAtomOf(v).ref = Identity(v) /\ DraftRuleOf(v).ref = Identity(v)
             /\ DraftRequestOf(v).ref = Identity(v)
  BY DEF DraftAtomOf, DraftRuleOf, DraftRequestOf
<1> HIDE DEF A, R, Q
<1>6. Cardinality(DraftOf(root).atoms) = Len(A)
  <2> DEFINE g == [i \in 1 .. Len(A) |-> DraftAtomOf(A[i])]
  <2>1. \A i, k \in 1 .. Len(A) : g[i] = g[k] => i = k
    BY <1>1, <1>2, <1>3, <1>5, SameIdentity
  <2>2. DraftOf(root).atoms = {g[i] : i \in 1 .. Len(A)} /\ g = [i \in 1 .. Len(A) |-> g[i]]
    BY <1>1, <1>4
  <2> HIDE DEF g
  <2> QED
    BY <1>1, <2>1, <2>2, CountOfDistinct
<1>7. Cardinality(DraftOf(root).rules) = Len(R)
  <2> DEFINE g == [i \in 1 .. Len(R) |-> DraftRuleOf(R[i])]
  <2>1. \A i, k \in 1 .. Len(R) : g[i] = g[k] => i = k
    BY <1>1, <1>2, <1>3, <1>5, SameIdentity
  <2>2. DraftOf(root).rules = {g[i] : i \in 1 .. Len(R)} /\ g = [i \in 1 .. Len(R) |-> g[i]]
    BY <1>1, <1>4
  <2> HIDE DEF g
  <2> QED
    BY <1>1, <2>1, <2>2, CountOfDistinct
<1>8. Cardinality(DraftOf(root).requests) = Len(Q)
  <2> DEFINE g == [i \in 1 .. Len(Q) |-> DraftRequestOf(Q[i])]
  <2>1. \A i, k \in 1 .. Len(Q) : g[i] = g[k] => i = k
    BY <1>1, <1>2, <1>3, <1>5, SameIdentity
  <2>2. DraftOf(root).requests = {g[i] : i \in 1 .. Len(Q)} /\ g = [i \in 1 .. Len(Q) |-> g[i]]
    BY <1>1, <1>4
  <2> HIDE DEF g
  <2> QED
    BY <1>1, <2>1, <2>2, CountOfDistinct
<1> QED
  BY <1>6, <1>7, <1>8 DEF A, R, Q

-----------------------------------------------------------------------------
(* What a session keeps of a response, and the gates it passes.            *)

IsContent(c) == "data" \in DOMAIN c /\ "sha256" \in DOMAIN c /\ c.data \in Seq(Range(c.data))

IsKept(e) ==
  /\ {"prompt", "raw_response"} \subseteq DOMAIN e
  /\ IsContent(e.prompt) /\ IsContent(e.raw_response)

ExtractedOf(e) ==
  [issues |-> ExtractIssues(e), drafts |-> IF ExtractIssues(e) = {} THEN {ExtractDraft(e)} ELSE {}]

\* What is captured stays well formed, and what was extracted is of it.
SessionInv ==
  /\ envelope # Nothing => IsKept(envelope)
  /\ outcome # NotYet => envelope # Nothing /\ outcome = ExtractedOf(envelope)

(* A replaced field of a replaced field, and what it leaves alone.         *)
LEMMA ReplacedContent ==
  ASSUME NEW e, IsKept(e), NEW part \in {"prompt", "raw_response"},
         NEW content, content \in Seq(Range(content))
  PROVE  /\ IsKept([e EXCEPT ![part].data = content])
         /\ IsKept([e EXCEPT ![part].sha256 = Digest(content)])
<1> DEFINE c == [e[part] EXCEPT !.data = content]
           d == [e[part] EXCEPT !.sha256 = Digest(content)]
<1>1. /\ {"prompt", "raw_response"} \subseteq DOMAIN e
      /\ \A p \in {"prompt", "raw_response"} : IsContent(e[p])
  BY DEF IsKept
<1>2. IsContent(c) /\ IsContent(d)
  <2>1. /\ DOMAIN c = DOMAIN e[part] /\ DOMAIN d = DOMAIN e[part]
        /\ c.data = content /\ d.data = e[part].data
    BY <1>1 DEF IsContent
  <2> QED
    BY <1>1, <2>1 DEF IsContent
<1>3. /\ [e EXCEPT ![part].data = content] = [e EXCEPT ![part] = c]
      /\ [e EXCEPT ![part].sha256 = Digest(content)] = [e EXCEPT ![part] = d]
  OBVIOUS
<1> HIDE DEF c, d
<1>4. \A new : IsContent(new) => IsKept([e EXCEPT ![part] = new])
  <2> SUFFICES ASSUME NEW new, IsContent(new)
               PROVE  IsKept([e EXCEPT ![part] = new])
    OBVIOUS
  <2> DEFINE f == [e EXCEPT ![part] = new]
  <2>1. DOMAIN f = DOMAIN e
    OBVIOUS
  <2>2. \A p \in {"prompt", "raw_response"} : f[p] = IF p = part THEN new ELSE e[p]
    BY <1>1
  <2> HIDE DEF f
  <2>3. \A p \in {"prompt", "raw_response"} : IsContent(f[p])
    BY <1>1, <2>2
  <2>4. IsKept(f)
    BY <1>1, <2>1, <2>3 DEF IsKept
  <2> QED
    BY <2>4 DEF f
<1> QED
  BY <1>2, <1>3, <1>4

(* capture_generation.                                                     *)
LEMMA CapturedIsKept ==
  ASSUME NEW prompt, NEW response, prompt \in Seq(Range(prompt)), response \in Seq(Range(response))
  PROVE  IsKept(CaptureGeneration(Facts(prompt, response)))
<1> DEFINE e == CaptureGeneration(Facts(prompt, response))
<1>1. /\ "prompt" \in DOMAIN e /\ "raw_response" \in DOMAIN e
      /\ e.prompt = CapturedContent(prompt) /\ e.raw_response = CapturedContent(response)
  BY DEF CaptureGeneration, Facts
<1>2. \A content : content \in Seq(Range(content)) =>
        /\ IsContent(CapturedContent(content))
        /\ CapturedContent(content).sha256 = Digest(CapturedContent(content).data)
  BY DEF IsContent, CapturedContent
<1> HIDE DEF e
<1> QED
  BY <1>1, <1>2 DEF IsKept, e

(* The inductive invariant of a session.                                   *)
LEMMA SessionInvHolds == Spec => []SessionInv
<1>1. Init => SessionInv
  BY DEF Init, SessionInv
<1>2. SessionInv /\ [Next]_vars => SessionInv'
  <2> SUFFICES ASSUME SessionInv, [Next]_vars
               PROVE  SessionInv'
    OBVIOUS
  <2>1. CASE Capture
    <3>1. PICK x \in Exchanges : /\ envelope = Nothing /\ outcome' = outcome
                                 /\ envelope' = CaptureGeneration(Facts(x[1], x[2]))
      BY <2>1 DEF Capture
    <3>2. outcome' = NotYet
      BY <3>1 DEF SessionInv
    <3>3. IsKept(envelope')
      BY <3>1, CapturedIsKept, DraftSessionAssumption
    <3>4. NotYet' = NotYet
      BY DEF NotYet
    <3> QED
      BY <3>2, <3>3, <3>4 DEF SessionInv
  <2>2. ASSUME NEW t \in Tampers, ReplaceData(t[1], t[2]) \/ ReplaceDigest(t[1], t[2])
        PROVE  SessionInv'
    <3>1. /\ envelope # Nothing /\ outcome' = NotYet
          /\ \/ envelope' = [envelope EXCEPT ![t[1]].data = t[2]]
             \/ envelope' = [envelope EXCEPT ![t[1]].sha256 = Digest(t[2])]
      BY <2>2 DEF ReplaceData, ReplaceDigest
    <3>2. t[1] \in {"prompt", "raw_response"} /\ t[2] \in Seq(Range(t[2])) /\ IsKept(envelope)
      BY <3>1, DraftSessionAssumption DEF SessionInv
    <3>3. IsKept(envelope')
      <4>1. /\ IsKept([envelope EXCEPT ![t[1]].data = t[2]])
            /\ IsKept([envelope EXCEPT ![t[1]].sha256 = Digest(t[2])])
        BY <3>2, ReplacedContent
      <4>2. CASE envelope' = [envelope EXCEPT ![t[1]].data = t[2]]
        BY <4>1, <4>2, Zenon
      <4>3. CASE envelope' = [envelope EXCEPT ![t[1]].sha256 = Digest(t[2])]
        BY <4>1, <4>3, Zenon
      <4> QED
        BY <3>1, <4>2, <4>3
    <3> QED
      BY <3>1, <3>3 DEF SessionInv
  <2>3. CASE Extract
    BY <2>3 DEF Extract, SessionInv, ExtractedOf
  <2>4. CASE UNCHANGED vars
    BY <2>4 DEF vars, SessionInv
  <2> QED
    BY <2>1, <2>2, <2>3, <2>4 DEF Next
<1> QED
  BY <1>1, <1>2, PTL DEF Spec

-----------------------------------------------------------------------------

(* The digests, the sizes and the encoding of what was captured.           *)
LEMMA CaptureGates ==
  ASSUME NEW e, IsKept(e)
  PROVE  CaptureIssues(e) = {} <=>
           /\ \A c \in {e.prompt, e.raw_response} : c.sha256 = Digest(c.data)
           /\ Len(e.prompt.data) <= MaxPromptBytes
           /\ Len(e.raw_response.data) <= MaxResponseBytes /\ BadByte \notin Range(e.raw_response.data)
<1> DEFINE content == e.raw_response.data
<1>1. /\ Len(e.prompt.data) \in Nat /\ Len(content) \in Nat
      /\ MaxPromptBytes \in Nat /\ MaxResponseBytes \in Nat
  BY DraftExtractAssumption DEF IsKept, IsContent
<1>2. DigestIssues(e) = {} <=> \A c \in {e.prompt, e.raw_response} : c.sha256 = Digest(c.data)
  BY RaisedIfNone DEF DigestIssues
<1>3. LimitIssues(e) = {} <=> Len(e.prompt.data) <= MaxPromptBytes /\ Len(content) <= MaxResponseBytes
  <2>1. LimitIssues(e) = {} <=> ~ (Len(e.prompt.data) > MaxPromptBytes \/ Len(content) > MaxResponseBytes)
    BY RaisedIfNone DEF LimitIssues
  <2> QED
    BY <1>1, <2>1
<1>4. Utf8Issues(e) = {} <=> BadByte \notin Range(content)
  BY RaisedIfNone DEF Utf8Issues, Range
<1>5. CaptureIssues(e) = {} <=> DigestIssues(e) = {} /\ LimitIssues(e) = {} /\ Utf8Issues(e) = {}
  BY DEF CaptureIssues
<1> HIDE DEF content
<1> QED
  BY <1>2, <1>3, <1>4, <1>5 DEF content

(* The one block of a response is a part of it.                            *)
LEMMA BlockIsSequence ==
  ASSUME NEW content, content \in Seq(Range(content)), BlockIssue(content) = {}
  PROVE  Len(Payload(content)) \in Nat
<1> DEFINE s == PayloadStart(content)
           t == PayloadEnd(content)
<1>1. Openers(content) # {} /\ Closers(content) # {} /\ ~ (t < s)
  BY DEF BlockIssue
<1>2. /\ Len(content) \in Nat
      /\ Openers(content) \subseteq 1 .. Len(content) /\ Closers(content) \subseteq 1 .. Len(content)
  BY DEF Openers, Closers
<1>3. /\ (CHOOSE i \in Openers(content) : TRUE) \in 1 .. Len(content)
      /\ t \in 1 .. Len(content)
  BY <1>1, <1>2 DEF PayloadEnd
<1>4. Len(OpenMarker) = 2
  BY DEF OpenMarker
<1>5. s \in Nat /\ s >= 3 /\ s - 2 <= Len(content)
  BY <1>2, <1>3, <1>4 DEF PayloadStart
<1>6. s \in Int /\ t - 1 \in Int /\ \A i \in s .. t - 1 : content[i] \in Range(content)
  <2> HIDE DEF s, t
  <2>1. s \in Int /\ t - 1 \in Int /\ \A i \in s .. t - 1 : i \in 1 .. Len(content)
    BY <1>2, <1>3, <1>5
  <2>2. \A i \in 1 .. Len(content) : content[i] \in Range(content)
    BY DEF Range
  <2> QED
    BY <2>1, <2>2
<1> HIDE DEF s, t
<1>7. Len(SubSeq(content, s, t - 1)) = IF s <= t - 1 THEN (t - 1) - s + 1 ELSE 0
  BY <1>6, SubSeqProperties
<1>8. s \in Nat /\ t \in Nat
  BY <1>2, <1>3, <1>5
<1>9. (IF s <= t - 1 THEN (t - 1) - s + 1 ELSE 0) \in Nat
  BY <1>8
<1>10. Len(SubSeq(content, s, t - 1)) \in Nat
  BY <1>7, <1>9, Zenon
<1> QED
  BY <1>10, Zenon DEF Payload, s, t

(* The gates on any JSON text.                                             *)
LEMMA PayloadGates ==
  ASSUME NEW payload, Len(payload) \in Nat
  PROVE  PayloadIssues(payload) = {} <=>
           /\ Len(payload) <= MaxPayloadBytes /\ payload \in JsonText /\ Parsed(Document[payload])
<1>1. Len(payload) > MaxPayloadBytes <=> ~ (Len(payload) <= MaxPayloadBytes)
  BY DraftExtractAssumption
<1> QED
  BY <1>1, RaisedIfNone DEF PayloadIssues, Parsed

(* All that extract_draft asks of an envelope, gate by gate.               *)
LEMMA ExtractGates ==
  ASSUME NEW e, IsKept(e)
  PROVE  LET content == e.raw_response.data
             payload == Payload(content)
             root == Document[payload]
         IN  ExtractIssues(e) = {} <=>
               /\ \A c \in {e.prompt, e.raw_response} : c.sha256 = Digest(c.data)
               /\ Len(e.prompt.data) <= MaxPromptBytes
               /\ Len(content) <= MaxResponseBytes /\ BadByte \notin Range(content)
               /\ BlockIssue(content) = {}
               /\ Len(payload) <= MaxPayloadBytes /\ payload \in JsonText
               /\ IsDraftText(root) /\ IsLinkedDraft(root)
<1> DEFINE content == e.raw_response.data
           payload == Payload(content)
           root == Document[payload]
           captured == /\ \A c \in {e.prompt, e.raw_response} : c.sha256 = Digest(c.data)
                       /\ Len(e.prompt.data) <= MaxPromptBytes
                       /\ Len(content) <= MaxResponseBytes /\ BadByte \notin Range(content)
<1>1. CaptureIssues(e) = {} <=> captured
  BY CaptureGates
<1>2. BlockIssue(content) = {} => Len(payload) \in Nat
  BY BlockIsSequence DEF IsKept, IsContent
<1>3. Len(payload) \in Nat =>
        (PayloadIssues(payload) = {} <=>
           Len(payload) <= MaxPayloadBytes /\ payload \in JsonText /\ Parsed(root))
  BY PayloadGates
<1>4. payload \in JsonText /\ Parsed(root) =>
        (RootIssues(root) = {} <=> IsDraftText(root) /\ IsLinkedDraft(root))
  BY DocumentsAreClosed, RootGates
<1>5. IsDraftText(root) => Parsed(root)
  BY DraftTextsAreParsed
<1>6. ExtractIssues(e) = {} <=>
        /\ CaptureIssues(e) = {} /\ BlockIssue(content) = {}
        /\ PayloadIssues(payload) = {} /\ RootIssues(root) = {}
  BY DEF ExtractIssues
<1> HIDE DEF root, payload, content, captured
<1>7. ExtractIssues(e) = {} <=>
        /\ captured /\ BlockIssue(content) = {}
        /\ Len(payload) <= MaxPayloadBytes /\ payload \in JsonText
        /\ IsDraftText(root) /\ IsLinkedDraft(root)
  BY <1>1, <1>2, <1>3, <1>4, <1>5, <1>6
<1> QED
  BY <1>7 DEF root, payload, content, captured

(* ExtractionIsExact: no session ever refuses a response whose one block   *)
(* is a linked text of the grammar, gives a draft for any other, or loses  *)
(* or merges a record of the block.                                        *)
THEOREM ExtractionIsAlwaysExact == Spec => []ExtractionIsExact
<1>1. SessionInv => ExtractionIsExact
  <2> SUFFICES ASSUME SessionInv, outcome # NotYet
               PROVE  ExtractionIsExact
    BY DEF ExtractionIsExact
  <2> DEFINE content == envelope.raw_response.data
             payload == Payload(content)
             root == Document[payload]
             accepted == /\ \A c \in {envelope.prompt, envelope.raw_response} : c.sha256 = Digest(c.data)
                         /\ Len(envelope.prompt.data) <= MaxPromptBytes
                         /\ Len(content) <= MaxResponseBytes /\ BadByte \notin Range(content)
                         /\ BlockIssue(content) = {}
                         /\ Len(payload) <= MaxPayloadBytes /\ payload \in JsonText
                         /\ IsDraftText(root) /\ IsLinkedDraft(root)
             complete(d) == /\ d.payload = Digest(payload)
                            /\ Cardinality(d.atoms) = Len(Field(root, "atoms").items)
                            /\ Cardinality(d.rules) = Len(Field(root, "rules").items)
                            /\ Cardinality(d.requests) = Len(Field(root, "evidence_requests").items)
  <2>1. IsKept(envelope) /\ outcome = ExtractedOf(envelope)
    BY DEF SessionInv
  <2>2. ExtractIssues(envelope) = {} <=> accepted
    BY <2>1, ExtractGates
  <2>3. outcome.drafts = IF ExtractIssues(envelope) = {} THEN {ExtractDraft(envelope)} ELSE {}
    BY <2>1 DEF ExtractedOf
  <2>4. ASSUME accepted
        PROVE  complete(ExtractDraft(envelope))
    <3>1. payload \in JsonText /\ IsDraftText(root) /\ IsLinkedDraft(root)
      BY <2>4
    <3>2. root \in Components(root) /\ Closed(Components(root))
      BY <3>1, DraftTextsAreParsed, DocumentsAreClosed
    <3> DEFINE values == Components(root)
    <3>3. /\ Cardinality(DraftOf(root).atoms) = Len(Field(root, "atoms").items)
          /\ Cardinality(DraftOf(root).rules) = Len(Field(root, "rules").items)
          /\ Cardinality(DraftOf(root).requests) = Len(Field(root, "evidence_requests").items)
      <4> HIDE DEF values, root
      <4>1. Closed(values) /\ root \in values
        BY <3>2 DEF values
      <4> QED
        BY <3>1, <4>1, DraftsAreComplete
    <3>4. /\ ExtractDraft(envelope).payload = Digest(payload)
          /\ ExtractDraft(envelope).atoms = DraftOf(root).atoms
          /\ ExtractDraft(envelope).rules = DraftOf(root).rules
          /\ ExtractDraft(envelope).requests = DraftOf(root).requests
      BY DEF ExtractDraft
    <3> QED
      BY <3>3, <3>4
  <2> HIDE DEF accepted, complete
  <2>5. (outcome.drafts # {} <=> accepted) /\ \A d \in outcome.drafts : complete(d)
    BY <2>2, <2>3, <2>4
  <2> QED
    BY <2>5 DEF ExtractionIsExact, accepted, complete
<1> QED
  BY <1>1, SessionInvHolds, PTL

=============================================================================
