------------------------ MODULE BindingPipelineProofs ------------------------
(***************************************************************************)
(* For every set of captures, policies and answers: what finalize accepts  *)
(* is one answer to each planned task, validate_package can only object to *)
(* the content of a bound package, its records lead back to one draft, and *)
(* what is live in it was attested.                                        *)
(*                                                                         *)
(* DraftExtractProofs brings the session's variables with it; nothing here *)
(* speaks of them.                                                         *)
(***************************************************************************)
EXTENDS BindingPipeline, PffPipelineProofs, DraftExtractProofs, FiniteSetTheorems,
        SequenceTheorems

-----------------------------------------------------------------------------
(* A plan that passed its gates.                                           *)

Planned(d, p) == d \in Drafts /\ p \in Policies /\ PlanIssues(d, p) = {}

LEMMA DraftIsLinked ==
  ASSUME NEW d \in Drafts
  PROVE  ExtractedDraft(d)
  BY ExtractionLinks DEF Drafts

LEMMA GatesPassed ==
  ASSUME NEW d, NEW p, PlanIssues(d, p) = {}
  PROVE  /\ SourceGate(d, p) = {} /\ CoverageGate(d, p) = {} /\ IdentityGate(d, p) = {}
         /\ RegistryGate(p) = {} /\ RoutingGate(d, p) = {}
<1>1. SourceGate(d, p) = {}
  BY DEF PlanIssues
<1>2. CoverageGate(d, p) = {}
  BY <1>1 DEF PlanIssues
<1>3. IdentityGate(d, p) = {}
  BY <1>1, <1>2 DEF PlanIssues
<1>4. RegistryGate(p) = {}
  BY <1>1, <1>2, <1>3 DEF PlanIssues
<1> QED
  BY <1>1, <1>2, <1>3, <1>4 DEF PlanIssues

(* Every source of the draft has a target of its own that may name a record. *)
LEMMA TargetsNameRecords ==
  ASSUME NEW d, NEW p, Planned(d, p), NEW s \in SourcesOf(d)
  PROVE  /\ Target(p, s) \in Ref \ (MalformedRef \cup ReservedRef)
         /\ \A t \in SourcesOf(d) : Target(p, t) = Target(p, s) => t = s
<1>1. IdentityGate(d, p) = {} /\ CoverageGate(d, p) = {}
  BY GatesPassed DEF Planned
<1>2. /\ When(Target(p, s) \in BadIdRef, "TARGET_INVALID_ID", Target(p, s)) = {}
      /\ When(Target(p, s) \in ReservedRef \ BadIdRef, "TARGET_RESERVED_ID", Target(p, s)) = {}
      /\ When(Target(p, s) \in BadVersionRef, "TARGET_INVALID_VERSION", Target(p, s)) = {}
      /\ When(~ TargetIsFree(d, p, s), "TARGET_REF_COLLISION", Target(p, s)) = {}
  BY <1>1 DEF IdentityGate
<1>3. /\ Target(p, s) \notin BadIdRef /\ Target(p, s) \notin ReservedRef \ BadIdRef
      /\ Target(p, s) \notin BadVersionRef /\ TargetIsFree(d, p, s)
  BY <1>2, RaisedNone
<1>4. Target(p, s) \in Ref
  <2>1. CASE s[1] = "EVIDENCE_REQUEST"
    <3>1. s[2] \in RequestRefs(d)
      BY <2>1 DEF SourcesOf, DraftSource, RequestRefs
    <3>2. s[2] \in DOMAIN p.evidence
      BY <1>1, <3>1 DEF CoverageGate
    <3> QED
      BY <2>1, <3>2, CallerAssumption DEF Target, Planned
  <2>2. CASE s[1] # "EVIDENCE_REQUEST"
    <3>1. s \in RecordSources(d)
      BY <2>2 DEF RecordSources
    <3>2. s \in DOMAIN p.records
      BY <1>1, <3>1 DEF CoverageGate
    <3> QED
      BY <2>2, <3>2, CallerAssumption DEF Target, Planned
  <2> QED
    BY <2>1, <2>2
<1> QED
  BY <1>3, <1>4, BindingAssumption DEF TargetIsFree

LEMMA RecordOfReference ==
  ASSUME NEW records, UniqueRefs(records), NEW r \in records
  PROVE  TheRecord(records, r.ref) = r
  BY DEF TheRecord, UniqueRefs

LEMMA SourcesByKind ==
  ASSUME NEW d
  PROVE  /\ \A a \in d.atoms : DraftSource("ATOM", a.ref) \in SourcesOf(d)
         /\ \A r \in d.rules : DraftSource("RULE", r.ref) \in SourcesOf(d)
         /\ \A q \in d.requests : DraftSource("EVIDENCE_REQUEST", q.ref) \in SourcesOf(d)
  BY DEF SourcesOf

(* What a task asks: each is about one rule, through the rule's request,   *)
(* and goes to a checker that may certify it.                              *)
TaskOf(d, p, t, r) ==
  /\ t.subject_rule = PlannedRule(p, r) /\ t.request = r.request
  /\ KnownChecker(t.checker)
  /\ CheckerMayCertify(TheRecord(d.atoms, r.head).predicate, t.checker)

LEMMA TasksOfRules ==
  ASSUME NEW d, NEW p, Planned(d, p)
  PROVE  /\ \A t \in Plan(d, p).tasks : \E r \in d.rules : TaskOf(d, p, t, r)
         /\ \A r \in d.rules : \E t \in Plan(d, p).tasks : TaskOf(d, p, t, r)
         /\ \A t, u \in Plan(d, p).tasks : t.request = u.request => t = u
         /\ \A r, s \in d.rules : r.request = s.request => r = s
         /\ \A t \in Plan(d, p).tasks : t.payload = d.payload
<1>1. ExtractedDraft(d)
  BY DraftIsLinked DEF Planned
<1>2. Plan(d, p).tasks = {EvidenceTask(d, p, q) : q \in d.requests}
  BY DEF Plan
<1>3. ASSUME NEW q \in d.requests, NEW r \in d.rules, r.ref = q.subject, r.request = q.ref
      PROVE  TaskOf(d, p, EvidenceTask(d, p, q), r)
  <2>1. TheRecord(d.rules, q.subject) = r
    BY <1>1, <1>3, RecordOfReference DEF ExtractedDraft
  <2> DEFINE predicate == HeadPredicate(d, r)
             route == p.evidence[q.ref]
  <2>2. CheckerRouteIssues(predicate, route, q.ref) = {}
    <3>1. RoutingGate(d, p) = {}
      BY GatesPassed DEF Planned
    <3>2. When(~ KnownPredicate(predicate), "HEAD_PREDICATE_UNKNOWN", q.ref)
            \cup CheckerRouteIssues(predicate, route, q.ref) = {}
      BY <2>1, <3>1 DEF RoutingGate
    <3> QED
      BY <3>2, EmptyCup
  <2>3. KnownChecker(route.checker)
    BY <2>2 DEF CheckerRouteIssues
  <2>4. CheckerMayCertify(predicate, route.checker)
    BY <2>2, <2>3, RaisedNone DEF CheckerRouteIssues
  <2>5. /\ EvidenceTask(d, p, q).subject_rule = PlannedRule(p, r)
        /\ EvidenceTask(d, p, q).request = q.ref
        /\ EvidenceTask(d, p, q).checker = route.checker
    BY <2>1 DEF EvidenceTask
  <2> QED
    BY <1>3, <2>3, <2>4, <2>5 DEF TaskOf, HeadPredicate
<1>4. \A t \in Plan(d, p).tasks : \E r \in d.rules : TaskOf(d, p, t, r)
  BY <1>1, <1>2, <1>3 DEF ExtractedDraft
<1>5. \A r \in d.rules : \E t \in Plan(d, p).tasks : TaskOf(d, p, t, r)
  <2>1. \A r \in d.rules : \E q \in d.requests : q.ref = r.request /\ q.subject = r.ref
    BY <1>1 DEF ExtractedDraft
  <2> QED
    BY <1>2, <1>3, <2>1
<1>6. \A q : EvidenceTask(d, p, q).request = q.ref /\ EvidenceTask(d, p, q).payload = d.payload
  BY DEF EvidenceTask
<1>7. \A t, u \in Plan(d, p).tasks : t.request = u.request => t = u
  BY <1>1, <1>2, <1>6 DEF ExtractedDraft, UniqueRefs
<1>8. \A r, s \in d.rules : r.request = s.request => r = s
  BY <1>1 DEF ExtractedDraft, UniqueRefs
<1> QED
  BY <1>2, <1>4, <1>5, <1>6, <1>7, <1>8

(* Evidence that finalize_draft_binding accepts: one answer to each task.  *)
Attestations ==
  {Attested(t, a) : t \in UNION {Plan(d, p).tasks : d \in Drafts, p \in Policies}, a \in Answers}

Finalizable(d, p, ev) ==
  Planned(d, p) /\ ev \in Seq(Attestations) /\ FinalizeIssues(Plan(d, p), ev) = {}

LEMMA AttestedParts ==
  ASSUME NEW t, NEW a
  PROVE  /\ Attested(t, a).task = t /\ Attested(t, a).result = a.result
         /\ Attested(t, a).authority = a.authority /\ Attested(t, a).id = a.id
  BY DEF Attested

OfTask(ev, t) ==
  LET submitted == Submitted(ev, t.request)
  IN  When(submitted = {}, "EVIDENCE_MISSING", t.request)
        \cup When(Cardinality(submitted) > 1, "EVIDENCE_DUPLICATE", t.request)
        \cup When(\E i \in submitted : submitted = {i} /\ ev[i].task # t,
                  "EVIDENCE_TASK_MISMATCH", t.request)

LEMMA EachTaskIsJudged ==
  ASSUME NEW plan, NEW ev, NEW t \in plan.tasks
  PROVE  LET submitted == Submitted(ev, t.request)
         IN  When(submitted = {}, "EVIDENCE_MISSING", t.request)
               \cup When(Cardinality(submitted) > 1, "EVIDENCE_DUPLICATE", t.request)
               \cup When(\E i \in submitted : submitted = {i} /\ ev[i].task # t,
                         "EVIDENCE_TASK_MISMATCH", t.request)
               \subseteq EvidenceSetIssues(plan, ev)
<1>1. (UNION {OfTask(ev, x) : x \in plan.tasks}) \subseteq EvidenceSetIssues(plan, ev)
  BY DEF EvidenceSetIssues, OfTask
<1>2. OfTask(ev, t) \subseteq UNION {OfTask(ev, x) : x \in plan.tasks}
  OBVIOUS
<1>3. OfTask(ev, t) \subseteq EvidenceSetIssues(plan, ev)
  BY <1>1, <1>2
<1> QED
  BY <1>3 DEF OfTask

LEMMA EvidenceAnswersTasks ==
  ASSUME NEW d, NEW p, NEW ev, Finalizable(d, p, ev)
  PROVE  /\ \A t \in Plan(d, p).tasks : \E i \in DOMAIN ev : ev[i].task = t
         /\ \A i \in DOMAIN ev : ev[i].task \in Plan(d, p).tasks
         /\ \A i, j \in DOMAIN ev : ev[i].task = ev[j].task => i = j
         /\ \A i \in DOMAIN ev : ev[i].authority = ev[i].task.authority
         /\ \A i, j \in DOMAIN ev :
              ev[i].authority = ev[j].authority /\ ev[i].id = ev[j].id => i = j
         /\ \A i \in DOMAIN ev : ev[i].result \in CheckResult
<1> DEFINE plan == Plan(d, p)
<1>1. /\ DOMAIN ev = 1..Len(ev) /\ Len(ev) \in Nat
      /\ \A i \in DOMAIN ev : ev[i] \in Attestations
  BY DEF Finalizable
<1>2. Range(ev) = {ev[i] : i \in DOMAIN ev}
  BY DEF Range
<1>3. EvidenceSetIssues(plan, ev) = {}
  BY DEF Finalizable, FinalizeIssues
<1>4. AttestationIssues(ev) = {}
  BY <1>3 DEF Finalizable, FinalizeIssues
<1>5. ASSUME NEW t \in plan.tasks
      PROVE  \E i \in DOMAIN ev : Submitted(ev, t.request) = {i} /\ ev[i].task = t
  <2> DEFINE submitted == Submitted(ev, t.request)
  <2>1. /\ When(submitted = {}, "EVIDENCE_MISSING", t.request) = {}
        /\ When(Cardinality(submitted) > 1, "EVIDENCE_DUPLICATE", t.request) = {}
        /\ When(\E i \in submitted : submitted = {i} /\ ev[i].task # t,
                "EVIDENCE_TASK_MISMATCH", t.request) = {}
    <3> DEFINE missing == When(submitted = {}, "EVIDENCE_MISSING", t.request)
               twice == When(Cardinality(submitted) > 1, "EVIDENCE_DUPLICATE", t.request)
               other == When(\E i \in submitted : submitted = {i} /\ ev[i].task # t,
                             "EVIDENCE_TASK_MISMATCH", t.request)
    <3>1. missing \cup twice \cup other \subseteq EvidenceSetIssues(plan, ev)
      BY <1>5, EachTaskIsJudged
    <3> HIDE DEF missing, twice, other
    <3>2. missing = {} /\ twice = {} /\ other = {}
      BY <1>3, <3>1
    <3> QED
      BY <3>2 DEF missing, twice, other
  <2>2. /\ submitted # {} /\ ~ (Cardinality(submitted) > 1)
        /\ ~ (\E i \in submitted : submitted = {i} /\ ev[i].task # t)
    BY <2>1, RaisedNone
  <2>3. submitted \subseteq DOMAIN ev
    BY DEF Submitted
  <2>4. IsFiniteSet(DOMAIN ev)
    <3>1. 1 \in Int /\ Len(ev) \in Int
      BY <1>1
    <3>2. IsFiniteSet(1..Len(ev))
      BY <3>1, FS_Interval
    <3> QED
      BY <1>1, <3>2
  <2>5. IsFiniteSet(submitted) /\ Cardinality(submitted) \in Nat
    BY <2>3, <2>4, FS_Subset, FS_CardinalityType
  <2>6. Cardinality(submitted) # 0
    BY <2>2, <2>5, FS_EmptySet
  <2>7. Cardinality(submitted) = 1
    BY <2>2, <2>5, <2>6
  <2>8. PICK i : submitted = {i}
    BY <2>5, <2>7, FS_Singleton
  <2> QED
    BY <2>2, <2>3, <2>8
<1>6. ASSUME NEW i \in DOMAIN ev
      PROVE  ev[i].task \in plan.tasks
  <2>1. {<<"EVIDENCE_EXTRA", e.task.request>> :
           e \in {x \in Range(ev) : x.task.request \notin {t.request : t \in plan.tasks}}} = {}
    BY <1>3 DEF EvidenceSetIssues
  <2>2. ev[i] \in Range(ev)
    BY <1>2, <1>6
  <2>3. ev[i].task.request \in {t.request : t \in plan.tasks}
    BY <2>1, <2>2
  <2>4. PICK t \in plan.tasks : ev[i].task.request = t.request
    BY <2>3
  <2>5. i \in Submitted(ev, t.request)
    BY <1>6, <2>4 DEF Submitted
  <2>6. ev[i].task = t
    BY <1>5, <2>5
  <2> QED
    BY <2>6
<1>7. ASSUME NEW i \in DOMAIN ev, NEW j \in DOMAIN ev, ev[i].task = ev[j].task
      PROVE  i = j
  <2>1. PICK k \in DOMAIN ev : Submitted(ev, ev[i].task.request) = {k}
    BY <1>5, <1>6
  <2>2. i \in Submitted(ev, ev[i].task.request) /\ j \in Submitted(ev, ev[i].task.request)
    BY <1>7 DEF Submitted
  <2> QED
    BY <2>1, <2>2
<1>8. \A i \in DOMAIN ev : ev[i].authority = ev[i].task.authority
  <2>1. {<<"EVIDENCE_AUTHORITY_MISMATCH", e.task.request>> :
           e \in {x \in Range(ev) : x.authority # x.task.authority}} = {}
    BY <1>4 DEF AttestationIssues
  <2> QED
    BY <1>2, <2>1
<1>9. ASSUME NEW i \in DOMAIN ev, NEW j \in DOMAIN ev,
             ev[i].authority = ev[j].authority, ev[i].id = ev[j].id
      PROVE  i = j
  <2>1. When(\E k \in DOMAIN ev \ {i} : ev[k].authority = ev[i].authority /\ ev[k].id = ev[i].id,
             "ATTESTATION_REF_COLLISION", ev[i].id) = {}
    BY <1>4 DEF AttestationIssues
  <2>2. ~ (\E k \in DOMAIN ev \ {i} : ev[k].authority = ev[i].authority /\ ev[k].id = ev[i].id)
    BY <2>1, RaisedNone
  <2> QED
    BY <1>9, <2>2
<1>10. \A i \in DOMAIN ev : ev[i].result \in CheckResult
  BY <1>1, AttestedParts, CallerAssumption DEF Attestations
<1> QED
  BY <1>5, <1>6, <1>7, <1>8, <1>9, <1>10

(* Each answer, the rule its task is about, and each rule, its answer.     *)
LEMMA AnswersMeetRules ==
  ASSUME NEW d, NEW p, NEW ev, Finalizable(d, p, ev)
  PROVE  /\ \A i \in DOMAIN ev : \E r \in d.rules : TaskOf(d, p, ev[i].task, r)
         /\ \A r \in d.rules : \E i \in DOMAIN ev : TaskOf(d, p, ev[i].task, r)
         /\ \A i, j \in DOMAIN ev : \A r \in d.rules :
              TaskOf(d, p, ev[i].task, r) /\ TaskOf(d, p, ev[j].task, r) => i = j
<1>1. Planned(d, p)
  BY DEF Finalizable
<1>2. \A i \in DOMAIN ev : \E r \in d.rules : TaskOf(d, p, ev[i].task, r)
  BY <1>1, EvidenceAnswersTasks, TasksOfRules
<1>3. \A r \in d.rules : \E i \in DOMAIN ev : TaskOf(d, p, ev[i].task, r)
  <2> SUFFICES ASSUME NEW r \in d.rules
               PROVE  \E i \in DOMAIN ev : TaskOf(d, p, ev[i].task, r)
    OBVIOUS
  <2>1. PICK t \in Plan(d, p).tasks : TaskOf(d, p, t, r)
    BY <1>1, TasksOfRules
  <2>2. PICK i \in DOMAIN ev : ev[i].task = t
    BY EvidenceAnswersTasks
  <2> QED
    BY <2>1, <2>2
<1>4. ASSUME NEW i \in DOMAIN ev, NEW j \in DOMAIN ev, NEW r \in d.rules,
             TaskOf(d, p, ev[i].task, r), TaskOf(d, p, ev[j].task, r)
      PROVE  i = j
  <2>1. ev[i].task.request = ev[j].task.request
    BY <1>4 DEF TaskOf
  <2>2. ev[i].task = ev[j].task
    BY <1>1, <2>1, EvidenceAnswersTasks, TasksOfRules
  <2> QED
    BY <2>2, EvidenceAnswersTasks
<1> QED
  BY <1>2, <1>3, <1>4

-----------------------------------------------------------------------------
(* The package that is finalized.  Every record of it comes of one source  *)
(* of the draft, and no source makes two.                                  *)
LEMMA FinalizedParts ==
  ASSUME NEW d, NEW p, NEW ev
  PROVE  LET pkg == Finalized(Plan(d, p), ev)
         IN  /\ pkg.header_fits
             /\ pkg.atoms = {PlannedAtom(p, a) : a \in d.atoms}
             /\ pkg.rules = {PlannedRule(p, r) : r \in d.rules}
             /\ pkg.certificates = {Certificate(ev[i]) : i \in DOMAIN ev}
             /\ pkg.faces = {} /\ pkg.closures = {} /\ pkg.contraries = {}
             /\ pkg.challenges = {} /\ pkg.discharges = {}
             /\ pkg.base.live = {} /\ pkg.base.excluded = {} /\ pkg.base.open = {}
<1>1. Range(ev) = {ev[i] : i \in DOMAIN ev}
  BY DEF Range
<1>2. {Certificate(e) : e \in Range(ev)} = {Certificate(ev[i]) : i \in DOMAIN ev}
  BY <1>1
<1> QED
  BY <1>2 DEF Finalized, Plan

LEMMA PlannedAtomParts ==
  ASSUME NEW p, NEW a
  PROVE  /\ PlannedAtom(p, a).ref = Target(p, DraftSource("ATOM", a.ref))
         /\ PlannedAtom(p, a).predicate = a.predicate
         /\ ~ PlannedAtom(p, a).primitive
  BY DEF PlannedAtom

LEMMA PlannedRuleParts ==
  ASSUME NEW p, NEW r
  PROVE  /\ PlannedRule(p, r).ref = Target(p, DraftSource("RULE", r.ref))
         /\ PlannedRule(p, r).head = Target(p, DraftSource("ATOM", r.head))
         /\ PlannedRule(p, r).positive =
              {Target(p, DraftSource("ATOM", a)) : a \in r.positive}
         /\ PlannedRule(p, r).certificate =
              Target(p, DraftSource("EVIDENCE_REQUEST", r.request))
         /\ PlannedRule(p, r).negative = {} /\ PlannedRule(p, r).faces = {}
  BY DEF PlannedRule

LEMMA AnswerCertificateParts ==
  ASSUME NEW e
  PROVE  /\ Certificate(e).ref = e.task.subject_rule.certificate
         /\ Certificate(e).subject = e.task.subject_rule.ref
         /\ Certificate(e).checker = e.task.checker
         /\ Certificate(e).result = e.result
  BY DEF Certificate

(* The rule a planned certificate is about, and who gave it.               *)
LEMMA CertificateOfAnswer ==
  ASSUME NEW d, NEW p, NEW e, NEW r, TaskOf(d, p, e.task, r)
  PROVE  /\ Certificate(e).ref = Target(p, DraftSource("EVIDENCE_REQUEST", r.request))
         /\ Certificate(e).subject = Target(p, DraftSource("RULE", r.ref))
         /\ Certificate(e).checker = e.task.checker
<1>1. e.task.subject_rule = PlannedRule(p, r)
  BY DEF TaskOf
<1>2. /\ PlannedRule(p, r).certificate = Target(p, DraftSource("EVIDENCE_REQUEST", r.request))
      /\ PlannedRule(p, r).ref = Target(p, DraftSource("RULE", r.ref))
  BY PlannedRuleParts
<1>3. /\ Certificate(e).ref = e.task.subject_rule.certificate
      /\ Certificate(e).subject = e.task.subject_rule.ref
      /\ Certificate(e).checker = e.task.checker
  BY AnswerCertificateParts
<1> QED
  BY <1>1, <1>2, <1>3

LEMMA LinkedSources ==
  ASSUME NEW d \in Drafts, NEW r \in d.rules
  PROVE  /\ DraftSource("RULE", r.ref) \in SourcesOf(d)
         /\ DraftSource("EVIDENCE_REQUEST", r.request) \in SourcesOf(d)
         /\ DraftSource("ATOM", r.head) \in SourcesOf(d)
         /\ \A a \in r.positive : DraftSource("ATOM", a) \in SourcesOf(d)
<1>1. ExtractedDraft(d)
  BY DraftIsLinked
<1>2. \E q \in d.requests : q.ref = r.request
  BY <1>1 DEF ExtractedDraft
<1>3. /\ r.head \in RefsOf(d.atoms) /\ \A a \in r.positive : a \in RefsOf(d.atoms)
  BY <1>1 DEF ExtractedDraft
<1> QED
  BY <1>2, <1>3, SourcesByKind DEF RefsOf

KindOfSource(s) == IF s[1] = "EVIDENCE_REQUEST" THEN "CERTIFICATE" ELSE s[1]

LEMMA RecordsHaveSources ==
  ASSUME NEW d, NEW p, NEW ev, Finalizable(d, p, ev),
         NEW kind \in RecordKind, NEW x \in Records(Finalized(Plan(d, p), ev), kind)
  PROVE  \E s \in SourcesOf(d) :
           /\ x.ref = Target(p, s) /\ KindOfSource(s) = kind
           /\ \A y \in Records(Finalized(Plan(d, p), ev), kind) : y.ref = x.ref => y = x
<1> DEFINE pkg == Finalized(Plan(d, p), ev)
<1>1. Planned(d, p) /\ d \in Drafts /\ ExtractedDraft(d)
  BY DraftIsLinked DEF Finalizable, Planned
<1>2. kind \in {"ATOM", "RULE", "CERTIFICATE"}
  BY RecordsByKind, FinalizedParts DEF RecordKind
<1>3. CASE kind = "ATOM"
  <2>1. Records(pkg, kind) = {PlannedAtom(p, a) : a \in d.atoms}
    BY <1>3, RecordsByKind, FinalizedParts
  <2>2. PICK a \in d.atoms : x = PlannedAtom(p, a)
    BY <2>1
  <2>3. DraftSource("ATOM", a.ref) \in SourcesOf(d) /\ x.ref = Target(p, DraftSource("ATOM", a.ref))
    BY <2>2, PlannedAtomParts, SourcesByKind
  <2>4. KindOfSource(DraftSource("ATOM", a.ref)) = kind
    BY <1>3 DEF KindOfSource, DraftSource
  <2>5. ASSUME NEW b \in d.atoms, PlannedAtom(p, b).ref = x.ref
        PROVE  PlannedAtom(p, b) = x
    <3>1. /\ DraftSource("ATOM", b.ref) \in SourcesOf(d)
          /\ Target(p, DraftSource("ATOM", b.ref)) = Target(p, DraftSource("ATOM", a.ref))
      BY <2>3, <2>5, PlannedAtomParts, SourcesByKind
    <3>2. DraftSource("ATOM", b.ref) = DraftSource("ATOM", a.ref)
      BY <1>1, <2>3, <3>1, TargetsNameRecords
    <3>3. a.ref = b.ref
      BY <3>2 DEF DraftSource
    <3>4. a = b
      BY <1>1, <3>3 DEF ExtractedDraft, UniqueRefs
    <3> QED
      BY <2>2, <3>4
  <2> QED
    BY <2>1, <2>3, <2>4, <2>5
<1>4. CASE kind = "RULE"
  <2>1. Records(pkg, kind) = {PlannedRule(p, r) : r \in d.rules}
    BY <1>4, RecordsByKind, FinalizedParts
  <2>2. PICK r \in d.rules : x = PlannedRule(p, r)
    BY <2>1
  <2>3. DraftSource("RULE", r.ref) \in SourcesOf(d) /\ x.ref = Target(p, DraftSource("RULE", r.ref))
    <3>1. PlannedRule(p, r).ref = Target(p, DraftSource("RULE", r.ref))
      BY PlannedRuleParts
    <3> QED
      BY <2>2, <3>1, SourcesByKind
  <2>4. KindOfSource(DraftSource("RULE", r.ref)) = kind
    BY <1>4 DEF KindOfSource, DraftSource
  <2>5. ASSUME NEW q \in d.rules, PlannedRule(p, q).ref = x.ref
        PROVE  PlannedRule(p, q) = x
    <3>1. /\ DraftSource("RULE", q.ref) \in SourcesOf(d)
          /\ Target(p, DraftSource("RULE", q.ref)) = Target(p, DraftSource("RULE", r.ref))
      <4>1. PlannedRule(p, q).ref = Target(p, DraftSource("RULE", q.ref))
        BY PlannedRuleParts
      <4> QED
        BY <2>3, <2>5, <4>1, SourcesByKind
    <3>2. DraftSource("RULE", q.ref) = DraftSource("RULE", r.ref)
      BY <1>1, <2>3, <3>1, TargetsNameRecords
    <3>3. r.ref = q.ref
      BY <3>2 DEF DraftSource
    <3>4. r = q
      BY <1>1, <3>3 DEF ExtractedDraft, UniqueRefs
    <3> QED
      BY <2>2, <3>4
  <2> QED
    BY <2>1, <2>3, <2>4, <2>5
<1>5. CASE kind = "CERTIFICATE"
  <2>1. Records(pkg, kind) = {Certificate(ev[i]) : i \in DOMAIN ev}
    BY <1>5, RecordsByKind, FinalizedParts
  <2>2. PICK i \in DOMAIN ev : x = Certificate(ev[i])
    BY <2>1
  <2>3. PICK r \in d.rules : TaskOf(d, p, ev[i].task, r)
    BY AnswersMeetRules
  <2> DEFINE s == DraftSource("EVIDENCE_REQUEST", r.request)
  <2>4. s \in SourcesOf(d) /\ x.ref = Target(p, s)
    <3>1. Certificate(ev[i]).ref = Target(p, DraftSource("EVIDENCE_REQUEST", r.request))
      <4>1. PICK e : e = ev[i]
        OBVIOUS
      <4>2. TaskOf(d, p, e.task, r)
        BY <2>3, <4>1
      <4>3. Certificate(e).ref = Target(p, DraftSource("EVIDENCE_REQUEST", r.request))
        BY <4>2, CertificateOfAnswer
      <4> QED
        BY <4>1, <4>3
    <3>2. s \in SourcesOf(d)
      BY <1>1, LinkedSources
    <3>3. x.ref = Target(p, s)
      BY <2>2, <3>1
    <3> QED
      BY <3>2, <3>3
  <2>5. KindOfSource(s) = kind
    BY <1>5 DEF KindOfSource, DraftSource
  <2>6. ASSUME NEW j \in DOMAIN ev, Certificate(ev[j]).ref = x.ref
        PROVE  Certificate(ev[j]) = x
    <3>1. PICK q \in d.rules : TaskOf(d, p, ev[j].task, q)
      BY AnswersMeetRules
    <3> DEFINE t == DraftSource("EVIDENCE_REQUEST", q.request)
    <3>2. t \in SourcesOf(d) /\ Target(p, t) = Target(p, s)
      <4>1. Certificate(ev[j]).ref = Target(p, DraftSource("EVIDENCE_REQUEST", q.request))
        BY <3>1, CertificateOfAnswer
      <4> QED
        BY <1>1, <2>4, <2>6, <4>1, LinkedSources
    <3> HIDE DEF t, s
    <3>3. t = s
      BY <1>1, <2>4, <3>2, TargetsNameRecords
    <3>4. q.request = r.request
      BY <3>3 DEF DraftSource, t, s
    <3>5. q = r
      BY <1>1, <3>4, TasksOfRules
    <3>6. i = j
      BY <2>3, <3>1, <3>5, AnswersMeetRules
    <3> QED
      BY <2>2, <3>6
  <2> QED
    BY <2>1, <2>4, <2>5, <2>6
<1> QED
  BY <1>2, <1>3, <1>4, <1>5

LEMMA FinalizedNames ==
  ASSUME NEW d, NEW p, NEW ev, Finalizable(d, p, ev)
  PROVE  LET pkg == Finalized(Plan(d, p), ev)
         IN  /\ DuplicateRefs(pkg) = {}
             /\ Recorded(pkg) \subseteq Ref \ (MalformedRef \cup ReservedRef)
<1> DEFINE pkg == Finalized(Plan(d, p), ev)
<1>1. Planned(d, p)
  BY DEF Finalizable
<1>2. ASSUME NEW ref \in Recorded(pkg)
      PROVE  Unique(pkg, ref) /\ ref \in Ref \ (MalformedRef \cup ReservedRef)
  <2>1. PICK kind \in RecordKind : \E x \in Records(pkg, kind) : x.ref = ref
    BY <1>2 DEF Recorded
  <2>2. PICK x \in Records(pkg, kind) : x.ref = ref
    BY <2>1
  <2>3. PICK s \in SourcesOf(d) :
          /\ x.ref = Target(p, s) /\ KindOfSource(s) = kind
          /\ \A y \in Records(pkg, kind) : y.ref = x.ref => y = x
    BY RecordsHaveSources
  <2>4. ASSUME NEW other \in RecordKind, NEW y \in Records(pkg, other), y.ref = ref
        PROVE  other = kind /\ y = x
    <3>1. PICK t \in SourcesOf(d) : y.ref = Target(p, t) /\ KindOfSource(t) = other
      BY RecordsHaveSources
    <3>2. s = t
      BY <1>1, <2>2, <2>3, <2>4, <3>1, TargetsNameRecords
    <3> QED
      BY <2>2, <2>3, <2>4, <3>1, <3>2
  <2>5. <<kind, x>> \in Bucket(pkg, ref)
    BY <2>2 DEF Bucket
  <2>6. \A e \in Bucket(pkg, ref) : e = <<kind, x>>
    BY <2>4 DEF Bucket
  <2>7. Unique(pkg, ref)
    BY <2>5, <2>6 DEF Unique
  <2> QED
    BY <1>1, <2>2, <2>3, <2>7, TargetsNameRecords
<1> QED
  BY <1>2 DEF DuplicateRefs

(* Whatever one record of the package says of another, it is there.        *)
LEMMA FinalizedLookup ==
  ASSUME NEW d, NEW p, NEW ev, Finalizable(d, p, ev), NEW kind \in RecordKind,
         NEW x \in Records(Finalized(Plan(d, p), ev), kind)
  PROVE  LET pkg == Finalized(Plan(d, p), ev)
         IN  /\ Bucket(pkg, x.ref) = {<<kind, x>>}
             /\ \A kinds : kind \in kinds =>
                  /\ Lookup(pkg, x.ref, kinds) = {x} /\ Resolve(pkg, x.ref, kinds) = {x}
                  /\ \A at : ReferenceIssues(pkg, at, x.ref, kinds) = {}
<1> DEFINE pkg == Finalized(Plan(d, p), ev)
<1>1. DuplicateRefs(pkg) = {} /\ Recorded(pkg) \subseteq Ref \ (MalformedRef \cup ReservedRef)
  BY FinalizedNames
<1>2. x \in Records(pkg, kind)
  OBVIOUS
<1>3. x.ref \notin MalformedRef
  BY <1>1, <1>2 DEF Recorded
<1>4. Bucket(pkg, x.ref) = {<<kind, x>>} /\ Unique(pkg, x.ref)
  BY <1>1, <1>2, FiledAlone
<1>5. ASSUME NEW kinds, kind \in kinds
      PROVE  Lookup(pkg, x.ref, kinds) = {x}
  BY <1>1, <1>2, <1>5, LookupOfRecord
<1>6. ASSUME NEW kinds, kind \in kinds
      PROVE  /\ Resolve(pkg, x.ref, kinds) = {x}
             /\ \A at : ReferenceIssues(pkg, at, x.ref, kinds) = {}
  BY <1>3, <1>4, <1>5, <1>6 DEF Resolve, ReferenceIssues, When
<1> HIDE DEF pkg
<1>7. /\ Bucket(pkg, x.ref) = {<<kind, x>>}
      /\ \A kinds : kind \in kinds =>
           /\ Lookup(pkg, x.ref, kinds) = {x} /\ Resolve(pkg, x.ref, kinds) = {x}
           /\ \A at : ReferenceIssues(pkg, at, x.ref, kinds) = {}
  BY <1>4, <1>5, <1>6
<1> QED
  BY <1>7 DEF pkg

LEMMA FinalizedIdentity ==
  ASSUME NEW d, NEW p, NEW ev, Finalizable(d, p, ev)
  PROVE  IdentityIssues(Finalized(Plan(d, p), ev)) = {}
<1> DEFINE pkg == Finalized(Plan(d, p), ev)
<1>1. DuplicateRefs(pkg) = {} /\ Recorded(pkg) \subseteq Ref \ (MalformedRef \cup ReservedRef)
  BY FinalizedNames
<1>2. pkg.header_fits
  BY FinalizedParts
<1> HIDE DEF pkg
<1>3. IdentityIssues(pkg) = {}
  BY <1>1, <1>2 DEF IdentityIssues, When
<1> QED
  BY <1>3 DEF pkg

LEMMA FinalizedAtoms ==
  ASSUME NEW d, NEW p, NEW ev, NEW a \in Finalized(Plan(d, p), ev).atoms,
         NEW i \in AtomIssues(Finalized(Plan(d, p), ev), a)
  PROVE  i[1] \in {"UNKNOWN_PREDICATE", "PREDICATE_FORM"}
<1>1. ~ a.primitive
  BY FinalizedParts, PlannedAtomParts
<1> QED
  BY <1>1 DEF AtomIssues, When

(* The records a planned rule names.                                       *)
LEMMA FinalizedLinks ==
  ASSUME NEW d, NEW p, NEW ev, Finalizable(d, p, ev), NEW r \in d.rules
  PROVE  LET pkg == Finalized(Plan(d, p), ev)
             planned == PlannedRule(p, r)
         IN  /\ planned \in pkg.rules
             /\ \E a \in d.atoms : a.ref = r.head /\ PlannedAtom(p, a).ref = planned.head
             /\ \A b \in planned.positive : \E a \in pkg.atoms : a.ref = b
             /\ \E i \in DOMAIN ev : /\ TaskOf(d, p, ev[i].task, r)
                                     /\ Certificate(ev[i]).ref = planned.certificate
                                     /\ Certificate(ev[i]).subject = planned.ref
<1> DEFINE pkg == Finalized(Plan(d, p), ev)
           planned == PlannedRule(p, r)
<1>1. ExtractedDraft(d)
  BY DraftIsLinked DEF Finalizable, Planned
<1>2. planned \in pkg.rules
  BY FinalizedParts
<1>3. \E a \in d.atoms : a.ref = r.head /\ PlannedAtom(p, a).ref = planned.head
  <2>1. PICK a \in d.atoms : a.ref = r.head
    BY <1>1 DEF ExtractedDraft, RefsOf
  <2>2. PlannedAtom(p, a).ref = Target(p, DraftSource("ATOM", r.head))
    BY <2>1, PlannedAtomParts
  <2>3. planned.head = Target(p, DraftSource("ATOM", r.head))
    BY PlannedRuleParts
  <2> QED
    BY <2>1, <2>2, <2>3
<1>4. ASSUME NEW b \in planned.positive
      PROVE  \E a \in pkg.atoms : a.ref = b
  <2>1. planned.positive = {Target(p, DraftSource("ATOM", c)) : c \in r.positive}
    BY PlannedRuleParts
  <2>2. PICK c \in r.positive : b = Target(p, DraftSource("ATOM", c))
    BY <1>4, <2>1
  <2>3. PICK a \in d.atoms : a.ref = c
    BY <1>1 DEF ExtractedDraft, RefsOf
  <2>4. PlannedAtom(p, a).ref = b
    BY <2>2, <2>3, PlannedAtomParts
  <2>5. PlannedAtom(p, a) \in pkg.atoms
    BY FinalizedParts
  <2> QED
    BY <2>4, <2>5
<1>5. \E i \in DOMAIN ev : /\ TaskOf(d, p, ev[i].task, r)
                           /\ Certificate(ev[i]).ref = planned.certificate
                           /\ Certificate(ev[i]).subject = planned.ref
  <2>1. PICK i \in DOMAIN ev : TaskOf(d, p, ev[i].task, r)
    BY AnswersMeetRules
  <2>2. ev[i].task.subject_rule = planned
    BY <2>1 DEF TaskOf
  <2>3. PICK e : e = ev[i]
    OBVIOUS
  <2>4. Certificate(e).ref = planned.certificate /\ Certificate(e).subject = planned.ref
    BY <2>2, <2>3, AnswerCertificateParts
  <2> QED
    BY <2>1, <2>3, <2>4
<1> HIDE DEF pkg, planned
<1>6. /\ planned \in pkg.rules
      /\ \E a \in d.atoms : a.ref = r.head /\ PlannedAtom(p, a).ref = planned.head
      /\ \A b \in planned.positive : \E a \in pkg.atoms : a.ref = b
      /\ \E i \in DOMAIN ev : /\ TaskOf(d, p, ev[i].task, r)
                              /\ Certificate(ev[i]).ref = planned.certificate
                              /\ Certificate(ev[i]).subject = planned.ref
  BY <1>2, <1>3, <1>4, <1>5
<1> QED
  BY <1>6 DEF pkg, planned

LEMMA FinalizedRules ==
  ASSUME NEW d, NEW p, NEW ev, Finalizable(d, p, ev),
         NEW x \in Finalized(Plan(d, p), ev).rules
  PROVE  RuleIssues(Finalized(Plan(d, p), ev), x) = {}
<1> DEFINE pkg == Finalized(Plan(d, p), ev)
<1>0. /\ Records(pkg, "ATOM") = pkg.atoms /\ Records(pkg, "RULE") = pkg.rules
      /\ Records(pkg, "CERTIFICATE") = pkg.certificates
      /\ {"ATOM", "RULE", "CERTIFICATE"} \subseteq RecordKind
  BY RecordsByKind DEF RecordKind
<1>1. PICK r \in d.rules : x = PlannedRule(p, r)
  BY FinalizedParts
<1>2. HeadIssues(pkg, x) = {}
  <2>1. PICK a \in d.atoms : PlannedAtom(p, a).ref = x.head
    BY <1>1, FinalizedLinks
  <2>2. PICK h : h = PlannedAtom(p, a)
    OBVIOUS
  <2>3. h \in Records(pkg, "ATOM") /\ h.ref = x.head /\ ~ h.primitive
    BY <1>0, <2>1, <2>2, FinalizedParts, PlannedAtomParts
  <2>4. Resolve(pkg, h.ref, {"ATOM"}) = {h} /\ ReferenceIssues(pkg, x.ref, h.ref, {"ATOM"}) = {}
    BY <1>0, <2>3, FinalizedLookup
  <2> HIDE DEF pkg
  <2> QED
    BY <2>3, <2>4 DEF HeadIssues, When
<1>3. ASSUME NEW b \in x.positive
      PROVE  ReferenceIssues(pkg, x.ref, b, {"ATOM"}) = {}
  <2>1. PICK a \in pkg.atoms : a.ref = b
    BY <1>1, <1>3, FinalizedLinks
  <2>2. a \in Records(pkg, "ATOM")
    BY <1>0, <2>1
  <2> QED
    BY <1>0, <2>1, <2>2, FinalizedLookup
<1>4. CertificateLinkIssues(pkg, x.ref, x.certificate) = {}
  <2>1. PICK i \in DOMAIN ev : /\ Certificate(ev[i]).ref = x.certificate
                               /\ Certificate(ev[i]).subject = x.ref
    BY <1>1, FinalizedLinks
  <2>2. PICK k : k = Certificate(ev[i])
    OBVIOUS
  <2>3. k \in Records(pkg, "CERTIFICATE") /\ k.ref = x.certificate /\ k.subject = x.ref
    BY <1>0, <2>1, <2>2, FinalizedParts
  <2>4. /\ Resolve(pkg, k.ref, {"CERTIFICATE"}) = {k}
        /\ ReferenceIssues(pkg, x.ref, k.ref, {"CERTIFICATE"}) = {}
    BY <1>0, <2>3, FinalizedLookup
  <2> HIDE DEF pkg
  <2> QED
    BY <2>3, <2>4 DEF CertificateLinkIssues, When
<1>5. x.negative = {} /\ x.faces = {}
  BY <1>1, PlannedRuleParts
<1> HIDE DEF pkg
<1>6. /\ UNION {ReferenceIssues(pkg, x.ref, a, {"ATOM"}) : a \in x.positive} = {}
      /\ UNION {ReferenceIssues(pkg, x.ref, n.atom, {"ATOM"})
                  \cup ReferenceIssues(pkg, x.ref, n.closure, {"CLOSURE"}) : n \in x.negative} = {}
      /\ UNION {ReferenceIssues(pkg, x.ref, f, {"FACE"}) : f \in x.faces} = {}
      /\ When(\E f \in x.faces : \E face \in Resolve(pkg, f, {"FACE"}) : face.owner_rule # x.ref,
              "FACE_OWNER_MISMATCH", x.ref) = {}
  BY <1>3, <1>5 DEF When
<1>7. RuleIssues(pkg, x) = {}
  BY <1>2, <1>4, <1>6 DEF RuleIssues
<1> QED
  BY <1>7 DEF pkg

LEMMA FinalizedCertificates ==
  ASSUME NEW d, NEW p, NEW ev, Finalizable(d, p, ev),
         NEW k \in Finalized(Plan(d, p), ev).certificates,
         NEW i \in CertificateIssues(Finalized(Plan(d, p), ev), k)
  PROVE  i[1] = "CHECKER_PAYLOAD"
<1> DEFINE pkg == Finalized(Plan(d, p), ev)
<1>0. /\ Records(pkg, "ATOM") = pkg.atoms /\ Records(pkg, "RULE") = pkg.rules
      /\ {"ATOM", "RULE", "CERTIFICATE"} \subseteq RecordKind
      /\ ExtractedDraft(d)
  BY RecordsByKind, DraftIsLinked DEF RecordKind, Finalizable, Planned
<1>1. PICK j \in DOMAIN ev : k = Certificate(ev[j])
  BY FinalizedParts
<1>2. PICK e : e = ev[j]
  OBVIOUS
<1>3. PICK r \in d.rules : TaskOf(d, p, e.task, r)
  BY <1>2, AnswersMeetRules
<1>4. PICK x : x = PlannedRule(p, r)
  OBVIOUS
<1>5. x \in Records(pkg, "RULE")
  BY <1>0, <1>4, FinalizedLinks
<1>6. /\ k.ref = x.certificate /\ k.subject = x.ref /\ k.checker = e.task.checker
      /\ KnownChecker(k.checker)
      /\ CheckerMayCertify(TheRecord(d.atoms, r.head).predicate, k.checker)
  <2>1. e.task.subject_rule = x
    BY <1>3, <1>4 DEF TaskOf
  <2>2. k = Certificate(e)
    BY <1>1, <1>2
  <2>3. k.ref = x.certificate /\ k.subject = x.ref /\ k.checker = e.task.checker
    BY <2>1, <2>2, AnswerCertificateParts
  <2> QED
    BY <1>3, <2>3 DEF TaskOf
<1>7. /\ Bucket(pkg, x.ref) = {<<"RULE", x>>}
      /\ ReferenceIssues(pkg, k.ref, x.ref, RecordKind) = {}
  BY <1>0, <1>5, FinalizedLookup
<1>8. ASSUME NEW rule \in PredicatesForSubject(pkg, "RULE", x)
      PROVE  k.checker \in rule.checkers
  <2>1. PICK a \in d.atoms : a.ref = r.head /\ PlannedAtom(p, a).ref = x.head
    BY <1>4, FinalizedLinks
  <2>2. PICK h : h = PlannedAtom(p, a)
    OBVIOUS
  <2>3. h \in Records(pkg, "ATOM") /\ h.ref = x.head /\ h.predicate = a.predicate
    BY <1>0, <2>1, <2>2, FinalizedParts, PlannedAtomParts
  <2>4. Lookup(pkg, x.head, {"ATOM"}) = {h}
    BY <1>0, <2>3, FinalizedLookup
  <2>5. TheRecord(d.atoms, r.head) = a
    BY <1>0, <2>1, RecordOfReference DEF ExtractedDraft
  <2> HIDE DEF pkg
  <2>6. PredicatesForSubject(pkg, "RULE", x) = PredicatesOf({h})
    <3>1. PredicatesForSubject(pkg, "RULE", x) = PredicatesForTarget(pkg, "RULE", x)
      BY DEF PredicatesForSubject
    <3>2. AtomsBehind(pkg, "RULE", x) = {h}
      BY <2>4 DEF AtomsBehind
    <3> QED
      BY <3>1, <3>2 DEF PredicatesForTarget
  <2>7. KnownPredicate(a.predicate) /\ rule = Registry.predicates[a.predicate]
    BY <1>8, <2>3, <2>6 DEF PredicatesOf
  <2> QED
    BY <1>6, <2>5, <2>7 DEF CheckerMayCertify
<1> HIDE DEF pkg
<1>9. i \in CertificateIssues(pkg, k)
  BY DEF pkg
<1> DEFINE permitted == Registry.checkers[k.checker].subject_kinds
           subjects == {s \in Bucket(pkg, k.subject) : s[2] \in Resolve(pkg, k.subject, {s[1]})}
<1>10. \A s \in subjects : s = <<"RULE", x>>
  BY <1>6, <1>7
<1>11. "RULE" \in permitted
  BY <1>6 DEF CheckerMayCertify
<1>12. /\ When(\E s \in subjects : s[1] \notin permitted, "CHECKER_NOT_PERMITTED", k.ref) = {}
       /\ When(\E s \in subjects : /\ s[1] \in {"RULE", "CHALLENGE", "DISCHARGE"}
                                   /\ s[2].certificate # k.ref,
               "CERTIFICATE_SUBJECT_MISMATCH", k.ref) = {}
       /\ When(\E s \in subjects : \E rule \in PredicatesForSubject(pkg, s[1], s[2]) :
                 k.checker \notin rule.checkers,
               "CHECKER_NOT_PERMITTED", k.ref) = {}
  <2> HIDE DEF subjects, permitted
  <2>1. ~ \E s \in subjects : s[1] \notin permitted
    BY <1>10, <1>11
  <2>2. ~ \E s \in subjects : /\ s[1] \in {"RULE", "CHALLENGE", "DISCHARGE"}
                              /\ s[2].certificate # k.ref
    BY <1>6, <1>10
  <2>3. ~ \E s \in subjects : \E rule \in PredicatesForSubject(pkg, s[1], s[2]) :
            k.checker \notin rule.checkers
    BY <1>8, <1>10
  <2> QED
    BY <2>1, <2>2, <2>3 DEF When
<1>13. i \in When(~ k.details_fit, "CHECKER_PAYLOAD", k.ref)
  BY <1>6, <1>7, <1>9, <1>12 DEF CertificateIssues
<1> QED
  BY <1>13 DEF When

ContentCodes == {"UNKNOWN_PREDICATE", "PREDICATE_FORM", "CHECKER_PAYLOAD"}

(* All that the validator can find of a bound package.                     *)
LEMMA FinalizedFindings ==
  ASSUME NEW d, NEW p, NEW ev, Finalizable(d, p, ev), NEW m \in Methods,
         NEW i \in Findings(Finalized(Plan(d, p), ev), m)
  PROVE  i[1] \in ContentCodes
<1> DEFINE pkg == Finalized(Plan(d, p), ev)
<1>0. /\ pkg.faces = {} /\ pkg.closures = {} /\ pkg.contraries = {}
      /\ pkg.challenges = {} /\ pkg.discharges = {}
      /\ pkg.base.live = {} /\ pkg.base.excluded = {} /\ pkg.base.open = {}
  BY FinalizedParts
<1>1. IdentityIssues(pkg) = {}
  BY FinalizedIdentity
<1>2. \A a \in pkg.atoms : \A x \in AtomIssues(pkg, a) : x[1] \in ContentCodes
  BY FinalizedAtoms DEF ContentCodes
<1>3. \A r \in pkg.rules : RuleIssues(pkg, r) = {}
  BY FinalizedRules
<1>4. \A k \in pkg.certificates : \A x \in CertificateIssues(pkg, k) : x[1] \in ContentCodes
  BY FinalizedCertificates DEF ContentCodes
<1>5. i \in Findings(pkg, m)
  OBVIOUS
<1> HIDE DEF pkg
<1>6. CASE m = "identity"
  BY <1>1, <1>5, <1>6 DEF Findings
<1>7. CASE m = "atoms"
  BY <1>2, <1>5, <1>7 DEF Findings
<1>8. CASE m = "rules"
  BY <1>0, <1>3, <1>5, <1>8 DEF Findings
<1>9. CASE m = "certificates"
  BY <1>0, <1>4, <1>5, <1>9 DEF Findings
<1>10. CASE m = "contraries"
  BY <1>0, <1>5, <1>10 DEF Findings
<1>11. CASE m = "challenges"
  BY <1>0, <1>5, <1>11 DEF Findings
<1>12. CASE m = "base"
  BY <1>0, <1>5, <1>12 DEF Findings, BaseIssues, BaseOverlap
<1> QED
  BY <1>6, <1>7, <1>8, <1>9, <1>10, <1>11, <1>12 DEF Methods

(* It is such as the constructors of its records make it.                  *)
LEMMA FinalizedConstructed ==
  ASSUME NEW d, NEW p, NEW ev, Finalizable(d, p, ev)
  PROVE  Constructed(Finalized(Plan(d, p), ev))
<1> DEFINE pkg == Finalized(Plan(d, p), ev)
<1>1. Recorded(pkg) \subseteq Ref
  BY FinalizedNames
<1>2. pkg.closures = {} /\ pkg.certificates = {Certificate(ev[i]) : i \in DOMAIN ev}
  BY FinalizedParts
<1>3. ASSUME NEW i \in DOMAIN ev
      PROVE  Certificate(ev[i]).result \in CheckResult
  <2>1. Certificate(ev[i]).result = ev[i].result
    BY AnswerCertificateParts
  <2> QED
    BY <1>3, <2>1, EvidenceAnswersTasks
<1> HIDE DEF pkg
<1>4. Constructed(pkg)
  BY <1>1, <1>2, <1>3 DEF Constructed
<1> QED
  BY <1>4 DEF pkg

-----------------------------------------------------------------------------
(* What holds of the caller's state.                                       *)
Unbegun ==
  /\ phase = "unbound" /\ issues = {} /\ stage = "preflight" /\ builder = EmptyBuilder
  /\ NotBegun

Bound(d, p) ==
  /\ Finalizable(d, p, evidence)
  /\ bound = {Plan(d, p)}
  /\ package = Finalized(Plan(d, p), evidence)

Binding ==
  /\ \A plan \in plans : \E d, p : Planned(d, p) /\ plan = Plan(d, p)
  /\ evidence \in Seq(Attestations)
  /\ bound = {} => Unbegun
  /\ bound # {} => Piping /\ \E d, p : Bound(d, p)

LEMMA PackageStays ==
  ASSUME [PipelineNext]_PipelineVars
  PROVE  package' = package
<1>1. CASE Admit
  <2>1. CASE Validate
    BY <2>1 DEF Validate, ValidateHeaderAndIdentity, ValidateAtoms, ValidateRulesAndFaces,
       ValidateCertificatesAndClosures, ValidateContraries, ValidateChallengesAndDischarges,
       ValidateBase, Method, Accept, Refuse
  <2>2. CASE Compile
    BY <2>2 DEF Compile, Preflight, CompileSourceAtoms, CompileCertificates, CompileClosures,
       CompileFaces, CompileContraries, CompileRules, CompileChallenges, CompileDischarges, Build,
       Function, validateVars
  <2> QED
    BY <1>1, <2>1, <2>2 DEF Admit, CompileNext
<1> QED
  BY <1>1 DEF PipelineNext, Evaluate, Rest, PipelineVars, validateVars

LEMMA BoundIsPiping ==
  ASSUME Constructed(package), phase = "identity", issues = {}, stage = "preflight",
         builder = EmptyBuilder, NotBegun
  PROVE  Piping
<1>1. Reported
  BY DEF Reported, Passed
<1>2. Ran["preflight"] = {} /\ "preflight" \in DOMAIN Ran
  BY DEF Ran
<1>3. Compiling
  BY <1>1, <1>2, GathersNothing DEF Compiling, HasContraries
<1>4. pc # "raised"
  BY DEF NotBegun
<1> QED
  BY <1>3, <1>4, NotBegunCore DEF Piping

LEMMA BindingStarts == BindingInit => Binding
<1>1. <<>> \in Seq(Attestations)
  OBVIOUS
<1> QED
  BY <1>1 DEF BindingInit, Binding, Unbegun, NotBegun

LEMMA RemovalKeepsSequence ==
  ASSUME NEW S, NEW s \in Seq(S), NEW i \in DOMAIN s
  PROVE  RemoveAt(s, i) \in Seq(S)
<1>1. SubSeq(s, 1, i-1) \in Seq(S) /\ SubSeq(s, i+1, Len(s)) \in Seq(S)
  OBVIOUS
<1> QED
  BY <1>1 DEF RemoveAt

LEMMA BindingStep ==
  ASSUME Binding, [BindingNext]_<<bindingVars, PipelineVars>>
  PROVE  Binding'
<1>1. ASSUME NEW d \in Drafts, NEW p \in Policies, PlanDraftBinding(d, p)
      PROVE  Binding'
  <2>1. /\ bound = {} /\ bound' = {} /\ evidence' = evidence
        /\ plans' = plans \cup {Plan(d, p)} /\ Planned(d, p)
    BY <1>1 DEF PlanDraftBinding, Planned
  <2>2. Unbegun'
    BY <1>1, <2>1 DEF PlanDraftBinding, Binding, Unbegun, NotBegun, PipelineVars, validateVars,
       compileVars, evaluateVars
  <2> QED
    BY <2>1, <2>2 DEF Binding
<1>2. ASSUME NEW plan \in plans, NEW task \in plan.tasks, NEW a \in Answers, Collect(task, a)
      PROVE  Binding'
  <2>1. /\ bound = {} /\ bound' = {} /\ plans' = plans
        /\ evidence' = Append(evidence, Attested(task, a))
    BY <1>2 DEF Collect
  <2>2. Attested(task, a) \in Attestations
    BY <1>2 DEF Binding, Attestations, Planned
  <2>3. evidence' \in Seq(Attestations)
    BY <2>1, <2>2 DEF Binding
  <2>4. Unbegun'
    BY <1>2, <2>1 DEF Collect, Binding, Unbegun, NotBegun, PipelineVars, validateVars,
       compileVars, evaluateVars
  <2> QED
    BY <2>1, <2>3, <2>4 DEF Binding
<1>3. ASSUME NEW i \in DOMAIN evidence, Discard(i)
      PROVE  Binding'
  <2>1. bound = {} /\ bound' = {} /\ plans' = plans /\ evidence' = RemoveAt(evidence, i)
    BY <1>3 DEF Discard
  <2>2. evidence' \in Seq(Attestations)
    BY <2>1, RemovalKeepsSequence DEF Binding
  <2>3. Unbegun'
    BY <1>3, <2>1 DEF Discard, Binding, Unbegun, NotBegun, PipelineVars, validateVars,
       compileVars, evaluateVars
  <2> QED
    BY <2>1, <2>2, <2>3 DEF Binding
<1>4. ASSUME NEW plan \in plans, FinalizeDraftBinding(plan)
      PROVE  Binding'
  <2>1. /\ bound = {} /\ bound' = {plan} /\ package' = Finalized(plan, evidence)
        /\ FinalizeIssues(plan, evidence) = {} /\ plans' = plans /\ evidence' = evidence
        /\ phase' = "identity" /\ issues' = issues
    BY <1>4 DEF FinalizeDraftBinding
  <2>2. PICK d, p : Planned(d, p) /\ plan = Plan(d, p)
    BY <1>4 DEF Binding
  <2>3. Finalizable(d, p, evidence)
    BY <2>1, <2>2 DEF Finalizable, Binding
  <2>4. Constructed(package')
    BY <2>1, <2>2, <2>3, FinalizedConstructed
  <2>5. /\ issues' = {} /\ stage' = "preflight" /\ builder' = EmptyBuilder /\ NotBegun'
    BY <1>4, <2>1 DEF FinalizeDraftBinding, Binding, Unbegun, NotBegun, compileVars, evaluateVars
  <2>6. Constructed(package)'
    BY <2>4 DEF Constructed, Recorded, Records, Collection
  <2>7. (Constructed(package) /\ phase = "identity" /\ issues = {} /\ stage = "preflight"
           /\ builder = EmptyBuilder /\ NotBegun => Piping)'
    BY BoundIsPiping, PTL
  <2>8. Piping'
    BY <2>1, <2>5, <2>6, <2>7
  <2>9. Bound(d, p)'
    BY <2>1, <2>2, <2>3 DEF Bound
  <2>10. bound' # {}
    BY <2>1
  <2> QED
    BY <2>1, <2>8, <2>9, <2>10 DEF Binding
<1>5. ASSUME bound # {}, PipelineNext, UNCHANGED bindingVars
      PROVE  Binding'
  <2>1. package' = package /\ Piping'
    BY <1>5, PackageStays, PipingStep DEF Binding
  <2>2. plans' = plans /\ evidence' = evidence /\ bound' = bound
    BY <1>5 DEF bindingVars
  <2>3. \E d, p : Bound(d, p)'
    BY <1>5, <2>1, <2>2 DEF Binding, Bound
  <2> QED
    BY <1>5, <2>1, <2>2, <2>3 DEF Binding
<1>6. ASSUME UNCHANGED <<bindingVars, PipelineVars>>
      PROVE  Binding'
  <2>1. plans' = plans /\ evidence' = evidence /\ bound' = bound /\ UNCHANGED PipelineVars
    BY <1>6 DEF bindingVars
  <2>2. CASE bound = {}
    <3>1. Unbegun'
      BY <2>1, <2>2 DEF Binding, Unbegun, NotBegun, PipelineVars, validateVars, compileVars,
         evaluateVars
    <3> QED
      BY <2>1, <2>2, <3>1 DEF Binding
  <2>3. CASE bound # {}
    <3>1. package' = package /\ Piping'
      BY <2>1, <2>3, PackageStays, PipingStep DEF Binding
    <3>2. \E d, p : Bound(d, p)'
      BY <2>1, <2>3, <3>1 DEF Binding, Bound
    <3> QED
      BY <2>1, <2>3, <3>1, <3>2 DEF Binding
  <2> QED
    BY <2>2, <2>3
<1> QED
  BY <1>1, <1>2, <1>3, <1>4, <1>5, <1>6 DEF BindingNext

LEMMA BindingInvariance == BindingSpec => []Binding
<1>1. Binding /\ [BindingNext]_<<bindingVars, PipelineVars>> => Binding'
  BY BindingStep
<1> QED
  BY <1>1, BindingStarts, PTL DEF BindingSpec

-----------------------------------------------------------------------------
(* What admission can find, and whose word the certificates carry.         *)
LEMMA ContentOnly == Binding => BoundPackagesFailOnContentOnly
<1> SUFFICES ASSUME Binding, bound # {}, NEW i \in issues
             PROVE  i[1] \in ContentCodes
  BY DEF BoundPackagesFailOnContentOnly, ContentCodes
<1>1. PICK d, p : Bound(d, p)
  BY DEF Binding
<1>2. phase \in DOMAIN Passed /\ issues = UNION {Findings(package, m) : m \in Passed[phase]}
  BY DEF Binding, Piping, Compiling, Reported
<1>3. \A at \in DOMAIN Passed : Passed[at] \subseteq Methods
  BY DEF Passed, Methods
<1>4. PICK m \in Methods : i \in Findings(package, m)
  BY <1>2, <1>3
<1> QED
  BY <1>1, <1>4, FinalizedFindings DEF Bound

(* Whatever the draft and the policy, a bound package can only be refused  *)
(* for its content (BoundPackagesFailOnContentOnly): plan_draft_binding    *)
(* and finalize_draft_binding leave validate_package nothing else to find. *)
THEOREM BindingIsAdmissible == BindingSpec => []BoundPackagesFailOnContentOnly
  BY BindingInvariance, ContentOnly, PTL

(* The certificate of a rule is the answer to the rule's own task.         *)
LEMMA CertificateOfRule ==
  ASSUME NEW d, NEW p, NEW ev, Finalizable(d, p, ev), NEW r \in d.rules,
         NEW k \in Finalized(Plan(d, p), ev).certificates,
         k.ref = PlannedRule(p, r).certificate
  PROVE  \E i \in DOMAIN ev : TaskOf(d, p, ev[i].task, r) /\ k = Certificate(ev[i])
<1> DEFINE pkg == Finalized(Plan(d, p), ev)
<1>1. PICK i \in DOMAIN ev : /\ TaskOf(d, p, ev[i].task, r)
                             /\ Certificate(ev[i]).ref = PlannedRule(p, r).certificate
  BY FinalizedLinks
<1>2. /\ Records(pkg, "CERTIFICATE") = pkg.certificates /\ "CERTIFICATE" \in RecordKind
      /\ pkg.certificates = {Certificate(ev[j]) : j \in DOMAIN ev}
      /\ DuplicateRefs(pkg) = {}
  BY RecordsByKind, FinalizedParts, FinalizedNames DEF RecordKind
<1> HIDE DEF pkg
<1>3. PICK c : c = Certificate(ev[i])
  OBVIOUS
<1>4. /\ c \in Records(pkg, "CERTIFICATE") /\ c.ref = k.ref
  BY <1>1, <1>2, <1>3
<1>5. k \in Records(pkg, "CERTIFICATE")
  BY <1>2 DEF pkg
<1>6. k = c
  BY <1>2, <1>4, <1>5, OneRecordPerRef
<1> QED
  BY <1>1, <1>3, <1>6

LEMMA CertificatesAnswer == Binding => CertificatesAnswerTheirTask
<1> SUFFICES ASSUME Binding, NEW plan \in bound, NEW x \in package.rules,
                    NEW k \in package.certificates, k.ref = x.certificate
             PROVE  \E task \in plan.tasks, e \in Range(evidence) :
                      /\ task.subject_rule = x
                      /\ e.task = task /\ e.authority = task.authority
                      /\ k.result = e.result /\ k.subject = x.ref /\ k.checker = task.checker
  BY DEF CertificatesAnswerTheirTask
<1>1. PICK d, p : Bound(d, p)
  BY DEF Binding
<1>2. /\ Finalizable(d, p, evidence) /\ plan = Plan(d, p)
      /\ package = Finalized(Plan(d, p), evidence)
  BY <1>1 DEF Bound
<1>3. PICK r \in d.rules : x = PlannedRule(p, r)
  BY <1>2, FinalizedParts
<1>4. PICK i \in DOMAIN evidence : /\ TaskOf(d, p, evidence[i].task, r)
                                   /\ k = Certificate(evidence[i])
  BY <1>2, <1>3, CertificateOfRule
<1>5. PICK e : e = evidence[i]
  OBVIOUS
<1>6. e \in Range(evidence)
  BY <1>5 DEF Range
<1>7. e.task \in plan.tasks /\ e.authority = e.task.authority
  BY <1>2, <1>5, EvidenceAnswersTasks
<1>8. e.task.subject_rule = x
  BY <1>3, <1>4, <1>5 DEF TaskOf
<1>9. k.result = e.result /\ k.subject = x.ref /\ k.checker = e.task.checker
  BY <1>4, <1>5, <1>8, AnswerCertificateParts
<1> QED
  BY <1>6, <1>7, <1>8, <1>9

(* However answers are lost, repeated, delayed or misdirected, the         *)
(* certificate of each rule is the word of the expected authority on the   *)
(* very task planned for it (CertificatesAnswerTheirTask).                 *)
THEOREM CertificatesAreAnswers == BindingSpec => []CertificatesAnswerTheirTask
  BY BindingInvariance, CertificatesAnswer, PTL

-----------------------------------------------------------------------------
(* Counting: answers, rules, certificates and identities are one to one.   *)
LEMMA CountedByAnswers ==
  ASSUME NEW n \in Nat, NEW S, NEW f \in [1..n -> S],
         \A i, j \in 1..n : f[i] = f[j] => i = j, \A s \in S : \E i \in 1..n : f[i] = s
  PROVE  Cardinality(S) = n
<1>1. f \in Injection(1..n, S) /\ f \in Surjection(1..n, S)
  BY DEF Injection, IsInjective, Surjection
<1>2. ExistsBijection(1..n, S)
  BY <1>1 DEF ExistsBijection, Bijection
<1>3. IsFiniteSet(1..n) /\ Cardinality(1..n) = n
  BY FS_Interval
<1> QED
  BY <1>2, <1>3, FS_Bijection

LEMMA AnswersUsedOnce == Binding => EveryAnswerIsUsedOnce
<1> SUFFICES ASSUME Binding, bound # {}
             PROVE  /\ Len(evidence) = Cardinality(package.rules)
                    /\ Cardinality(package.certificates) = Cardinality(package.rules)
                    /\ Cardinality({<<e.authority, e.id>> : e \in Range(evidence)}) = Len(evidence)
  BY DEF EveryAnswerIsUsedOnce
<1> DEFINE n == Len(evidence)
<1>1. PICK d, p : Bound(d, p)
  BY DEF Binding
<1>2. /\ Finalizable(d, p, evidence) /\ Planned(d, p)
      /\ package = Finalized(Plan(d, p), evidence)
      /\ n \in Nat /\ DOMAIN evidence = 1..n
  BY <1>1 DEF Bound, Finalizable, Binding
<1>3. /\ package.rules = {PlannedRule(p, r) : r \in d.rules}
      /\ package.certificates = {Certificate(evidence[i]) : i \in DOMAIN evidence}
  BY <1>2, FinalizedParts
<1>4. \A i \in DOMAIN evidence : \E r \in d.rules :
        TaskOf(d, p, evidence[i].task, r) /\ evidence[i].task.subject_rule = PlannedRule(p, r)
  BY <1>2, AnswersMeetRules DEF TaskOf
<1>5. ASSUME NEW r \in d.rules, NEW s \in d.rules, PlannedRule(p, r) = PlannedRule(p, s)
      PROVE  r = s
  <2>1. Target(p, DraftSource("RULE", r.ref)) = Target(p, DraftSource("RULE", s.ref))
    BY <1>5, PlannedRuleParts
  <2>2. DraftSource("RULE", r.ref) = DraftSource("RULE", s.ref)
    BY <1>2, <2>1, SourcesByKind, TargetsNameRecords
  <2>3. r.ref = s.ref
    BY <2>2 DEF DraftSource
  <2>4. ExtractedDraft(d)
    BY <1>2, DraftIsLinked DEF Planned
  <2> QED
    BY <2>3, <2>4 DEF ExtractedDraft, UniqueRefs
<1>6. ASSUME NEW i \in 1..n, NEW j \in 1..n,
             evidence[i].task.subject_rule = evidence[j].task.subject_rule
      PROVE  i = j
  BY <1>2, <1>4, <1>5, <1>6, AnswersMeetRules
<1>7. Cardinality(package.rules) = n
  <2> DEFINE f == [i \in 1..n |-> evidence[i].task.subject_rule]
  <2>1. f \in [1..n -> package.rules]
    BY <1>2, <1>3, <1>4
  <2>2. \A x \in package.rules : \E i \in 1..n : f[i] = x
    <3> SUFFICES ASSUME NEW r \in d.rules
                 PROVE  \E i \in 1..n : f[i] = PlannedRule(p, r)
      BY <1>3
    <3>1. PICK i \in DOMAIN evidence : TaskOf(d, p, evidence[i].task, r)
      BY <1>2, AnswersMeetRules
    <3>2. evidence[i].task.subject_rule = PlannedRule(p, r)
      BY <3>1 DEF TaskOf
    <3> QED
      BY <1>2, <3>2
  <2>3. \A i, j \in 1..n : f[i] = f[j] => i = j
    BY <1>6
  <2> HIDE DEF f, n
  <2> QED
    BY <1>2, <2>1, <2>2, <2>3, CountedByAnswers
<1>8. Cardinality(package.certificates) = n
  <2>0. \A e, r : TaskOf(d, p, e.task, r) =>
          Certificate(e).subject = Target(p, DraftSource("RULE", r.ref))
    BY CertificateOfAnswer
  <2> DEFINE f == [i \in 1..n |-> Certificate(evidence[i])]
  <2>1. f \in [1..n -> package.certificates]
    BY <1>2, <1>3
  <2>2. \A x \in package.certificates : \E i \in 1..n : f[i] = x
    BY <1>2, <1>3
  <2>3. ASSUME NEW i \in 1..n, NEW j \in 1..n, f[i] = f[j]
        PROVE  i = j
    <3>1. PICK c, x : c = evidence[i] /\ x = evidence[j]
      OBVIOUS
    <3>2. Certificate(c) = Certificate(x)
      BY <2>3, <3>1
    <3>3. PICK r \in d.rules : TaskOf(d, p, c.task, r)
      BY <1>2, <1>4, <3>1
    <3>4. PICK q \in d.rules : TaskOf(d, p, x.task, q)
      BY <1>2, <1>4, <3>1
    <3>5. Target(p, DraftSource("RULE", r.ref)) = Target(p, DraftSource("RULE", q.ref))
      BY <2>0, <3>2, <3>3, <3>4
    <3>6. DraftSource("RULE", r.ref) = DraftSource("RULE", q.ref)
      BY <1>2, <3>5, SourcesByKind, TargetsNameRecords
    <3>7. r.ref = q.ref
      BY <3>6 DEF DraftSource
    <3>8. r = q
      BY <1>2, <3>7, DraftIsLinked DEF Planned, ExtractedDraft, UniqueRefs
    <3> QED
      BY <1>2, <3>1, <3>3, <3>4, <3>8, AnswersMeetRules
  <2>4. \A i, j \in 1..n : f[i] = f[j] => i = j
    BY <2>3
  <2> HIDE DEF f, n
  <2> QED
    BY <1>2, <2>1, <2>2, <2>4, CountedByAnswers
<1>9. Cardinality({<<e.authority, e.id>> : e \in Range(evidence)}) = n
  <2> DEFINE f == [i \in 1..n |-> <<evidence[i].authority, evidence[i].id>>]
             S == {<<e.authority, e.id>> : e \in Range(evidence)}
  <2>1. Range(evidence) = {evidence[i] : i \in 1..n}
    BY <1>2 DEF Range
  <2>2. f \in [1..n -> S]
    BY <2>1
  <2>3. \A x \in S : \E i \in 1..n : f[i] = x
    BY <2>1
  <2>4. \A i, j \in 1..n : f[i] = f[j] => i = j
    <3>1. \A i, j \in DOMAIN evidence :
            evidence[i].authority = evidence[j].authority /\ evidence[i].id = evidence[j].id => i = j
      BY <1>2, EvidenceAnswersTasks
    <3> QED
      BY <1>2, <3>1
  <2> HIDE DEF f, S, n
  <2>5. Cardinality(S) = n
    BY <1>2, <2>2, <2>3, <2>4, CountedByAnswers
  <2> QED
    BY <2>5 DEF S
<1> QED
  BY <1>7, <1>8, <1>9

(* The binder never chooses: the answers submitted, the rules, their       *)
(* certificates and the attestations' identities are equally many          *)
(* (EveryAnswerIsUsedOnce).                                                *)
THEOREM AnswersAreNotChosen == BindingSpec => []EveryAnswerIsUsedOnce
  BY BindingInvariance, AnswersUsedOnce, PTL

-----------------------------------------------------------------------------
(* The way back from a target to the one source that was given it.         *)
LEMMA OriginFound ==
  ASSUME NEW d, NEW p, Planned(d, p), NEW s \in SourcesOf(d)
  PROVE  OriginOf(Plan(d, p), KindOfSource(s), Target(p, s)) = {s}
<1>1. /\ Plan(d, p).origins = {Origin(p, t) : t \in SourcesOf(d)}
      /\ \A t : /\ Origin(p, t).kind = KindOfSource(t)
                /\ Origin(p, t).target = Target(p, t) /\ Origin(p, t).source = t
  BY DEF Plan, Origin, KindOfSource
<1>2. \A t \in SourcesOf(d) : Target(p, t) = Target(p, s) => t = s
  BY TargetsNameRecords
<1>3. ASSUME NEW o \in Plan(d, p).origins, o.target = Target(p, s)
      PROVE  o.source = s
  <2>1. PICK t \in SourcesOf(d) : o = Origin(p, t)
    BY <1>1
  <2> QED
    BY <1>1, <1>2, <1>3, <2>1
<1>4. /\ Origin(p, s) \in Plan(d, p).origins
      /\ Origin(p, s).kind = KindOfSource(s) /\ Origin(p, s).target = Target(p, s)
      /\ Origin(p, s).source = s
  BY <1>1
<1> DEFINE found == {x \in Plan(d, p).origins : x.kind = KindOfSource(s) /\ x.target = Target(p, s)}
<1>5. Origin(p, s) \in found /\ \A o \in found : o.source = s
  BY <1>3, <1>4
<1>6. OriginOf(Plan(d, p), KindOfSource(s), Target(p, s)) = {o.source : o \in found}
  BY DEF OriginOf
<1> HIDE DEF found
<1> QED
  BY <1>4, <1>5, <1>6

LEMMA OriginsByKind ==
  ASSUME NEW d, NEW p, Planned(d, p), NEW ref
  PROVE  /\ DraftSource("ATOM", ref) \in SourcesOf(d) =>
              OriginOf(Plan(d, p), "ATOM", Target(p, DraftSource("ATOM", ref)))
                = {DraftSource("ATOM", ref)}
         /\ DraftSource("RULE", ref) \in SourcesOf(d) =>
              OriginOf(Plan(d, p), "RULE", Target(p, DraftSource("RULE", ref)))
                = {DraftSource("RULE", ref)}
         /\ DraftSource("EVIDENCE_REQUEST", ref) \in SourcesOf(d) =>
              OriginOf(Plan(d, p), "CERTIFICATE", Target(p, DraftSource("EVIDENCE_REQUEST", ref)))
                = {DraftSource("EVIDENCE_REQUEST", ref)}
<1>1. /\ KindOfSource(DraftSource("ATOM", ref)) = "ATOM"
      /\ KindOfSource(DraftSource("RULE", ref)) = "RULE"
      /\ KindOfSource(DraftSource("EVIDENCE_REQUEST", ref)) = "CERTIFICATE"
  BY DEF KindOfSource, DraftSource
<1>2. \A s \in SourcesOf(d) : OriginOf(Plan(d, p), KindOfSource(s), Target(p, s)) = {s}
  BY OriginFound
<1> QED
  BY <1>1, <1>2

DraftedRule(r) ==
  [ref |-> {DraftSource("RULE", r.ref)}, head |-> {DraftSource("ATOM", r.head)},
   positive |-> {{DraftSource("ATOM", a)} : a \in r.positive},
   request |-> {DraftSource("EVIDENCE_REQUEST", r.request)}]

LEMMA RulesAsDrafted ==
  ASSUME NEW d, NEW p, Planned(d, p), NEW r \in d.rules
  PROVE  RuleAsDrafted(Plan(d, p), PlannedRule(p, r)) = DraftedRule(r)
<1> DEFINE plan == Plan(d, p)
           x == PlannedRule(p, r)
<1>1. /\ DraftSource("RULE", r.ref) \in SourcesOf(d)
      /\ DraftSource("EVIDENCE_REQUEST", r.request) \in SourcesOf(d)
      /\ DraftSource("ATOM", r.head) \in SourcesOf(d)
      /\ \A a \in r.positive : DraftSource("ATOM", a) \in SourcesOf(d)
  BY LinkedSources DEF Planned
<1>2. OriginOf(plan, "RULE", x.ref) = {DraftSource("RULE", r.ref)}
  <2>1. x.ref = Target(p, DraftSource("RULE", r.ref))
    BY PlannedRuleParts
  <2> QED
    BY <1>1, <2>1, OriginsByKind
<1>3. OriginOf(plan, "ATOM", x.head) = {DraftSource("ATOM", r.head)}
  <2>1. x.head = Target(p, DraftSource("ATOM", r.head))
    BY PlannedRuleParts
  <2> QED
    BY <1>1, <2>1, OriginsByKind
<1>4. OriginOf(plan, "CERTIFICATE", x.certificate) = {DraftSource("EVIDENCE_REQUEST", r.request)}
  <2>1. x.certificate = Target(p, DraftSource("EVIDENCE_REQUEST", r.request))
    BY PlannedRuleParts
  <2> QED
    BY <1>1, <2>1, OriginsByKind
<1>5. {OriginOf(plan, "ATOM", a) : a \in x.positive} =
        {{DraftSource("ATOM", a)} : a \in r.positive}
  <2>1. x.positive = {Target(p, DraftSource("ATOM", a)) : a \in r.positive}
    BY PlannedRuleParts
  <2>2. \A a \in r.positive :
          OriginOf(plan, "ATOM", Target(p, DraftSource("ATOM", a))) = {DraftSource("ATOM", a)}
    BY <1>1, OriginsByKind
  <2> HIDE DEF plan, x
  <2> QED
    BY <2>1, <2>2
<1> HIDE DEF plan, x
<1>6. RuleAsDrafted(plan, x) = DraftedRule(r)
  BY <1>2, <1>3, <1>4, <1>5 DEF RuleAsDrafted, DraftedRule
<1> QED
  BY <1>6 DEF plan, x

LEMMA OriginsRecover == Binding => OriginsRecoverTheDraft
<1> SUFFICES ASSUME Binding, NEW plan \in bound
             PROVE  \E draft \in Drafts :
                      /\ {RuleAsDrafted(plan, x) : x \in package.rules} =
                           {DraftedRule(r) : r \in draft.rules}
                      /\ UNION {OriginOf(plan, "ATOM", a.ref) : a \in package.atoms} =
                           {DraftSource("ATOM", a.ref) : a \in draft.atoms}
                      /\ {t.payload : t \in plan.tasks} \subseteq {draft.payload}
  BY DEF OriginsRecoverTheDraft, DraftedRule
<1>1. PICK d, p : Bound(d, p)
  BY DEF Binding
<1>2. /\ Planned(d, p) /\ plan = Plan(d, p) /\ d \in Drafts
      /\ package = Finalized(Plan(d, p), evidence)
  BY <1>1 DEF Bound, Finalizable, Planned
<1>3. /\ package.rules = {PlannedRule(p, r) : r \in d.rules}
      /\ package.atoms = {PlannedAtom(p, a) : a \in d.atoms}
  BY <1>2, FinalizedParts
<1>4. {RuleAsDrafted(plan, x) : x \in package.rules} = {DraftedRule(r) : r \in d.rules}
  <2>1. \A r \in d.rules : RuleAsDrafted(plan, PlannedRule(p, r)) = DraftedRule(r)
    BY <1>2, RulesAsDrafted
  <2> QED
    BY <1>3, <2>1
<1>5. UNION {OriginOf(plan, "ATOM", x.ref) : x \in package.atoms} =
        {DraftSource("ATOM", a.ref) : a \in d.atoms}
  <2>1. \A a \in d.atoms :
          OriginOf(plan, "ATOM", PlannedAtom(p, a).ref) = {DraftSource("ATOM", a.ref)}
    <3> SUFFICES ASSUME NEW a \in d.atoms
                 PROVE  OriginOf(plan, "ATOM", PlannedAtom(p, a).ref) = {DraftSource("ATOM", a.ref)}
      OBVIOUS
    <3>1. PlannedAtom(p, a).ref = Target(p, DraftSource("ATOM", a.ref))
      BY PlannedAtomParts
    <3>2. DraftSource("ATOM", a.ref) \in SourcesOf(d)
      BY SourcesByKind
    <3> QED
      BY <1>2, <3>1, <3>2, OriginsByKind
  <2> QED
    BY <1>3, <2>1
<1>6. {t.payload : t \in plan.tasks} \subseteq {d.payload}
  BY <1>2, TasksOfRules
<1> QED
  BY <1>2, <1>4, <1>5, <1>6

(* origin_for of a bound package leads back to one extracted draft, record *)
(* by record and link by link (OriginsRecoverTheDraft).                    *)
THEOREM OriginsLeadBack == BindingSpec => []OriginsRecoverTheDraft
  BY BindingInvariance, OriginsRecover, PTL

-----------------------------------------------------------------------------
(* What makes an atom of a bound package live.  Nothing is in the base and *)
(* nothing challenges, so only a rule of the package can conclude it.      *)
LEMMA LiveNeedsARule ==
  ASSUME Settled, NEW a \in program.atoms, Concluded(package, a), a \in live
  PROVE  \E g \in RulesFor(a) : \A b \in g.positive : b \in live
<1>1. Value(a) = "LIVE"
  BY DEF Value
<1>2. Value(a) = Some({All(Premises(g)) : g \in RulesFor(a)})
  BY ConcludedIsSome
<1>3. "LIVE" \in {All(Premises(g)) : g \in RulesFor(a)}
  BY <1>1, <1>2, KleeneInverts
<1>4. PICK g \in RulesFor(a) : All(Premises(g)) = "LIVE"
  BY <1>3
<1>5. \A v \in Premises(g) : v # "EXCLUDED" /\ v # "SUSPENDED"
  BY <1>4, KleeneInverts
<1>6. \A b \in g.positive : Value(b) # "EXCLUDED" /\ Value(b) # "SUSPENDED"
  BY <1>5 DEF Premises
<1>7. \A b : b \notin live => Value(b) \in {"EXCLUDED", "SUSPENDED"}
  BY DEF Value
<1> QED
  BY <1>6, <1>7

LEMMA LiveAtomHasALiveRule ==
  ASSUME Settled, package.challenges = {}, package.discharges = {}, package.faces = {},
         NEW a \in package.atoms, ~ a.primitive, <<"source-atom", a.ref>> \in live
  PROVE  \E r \in package.rules :
           /\ r.head = a.ref
           /\ \A b \in r.positive : <<"source-atom", b>> \in live
           /\ <<"cert-valid", r.certificate>> \in live
<1>1. /\ Compilable(package) /\ Constructed(package) /\ live \subseteq program.atoms
      /\ DuplicateRefs(package) = {}
  BY SettledMeans, AdmittedMeans DEF Compilable
<1>2. PICK g \in RulesFor(<<"source-atom", a.ref>>) : \A b \in g.positive : b \in live
  <2>1. PICK x : x = <<"source-atom", a.ref>>
    OBVIOUS
  <2>2. Concluded(package, x) /\ x \in program.atoms /\ x \in live
    BY <1>1, <2>1 DEF Concluded
  <2> QED
    BY <2>1, <2>2, LiveNeedsARule
<1>3. g \in program.rules /\ g.head = <<"source-atom", a.ref>>
  BY <1>2 DEF RulesFor
<1>4. PICK r \in package.rules : g \in {RuleCase(r), HeadBridge(r)}
  BY <1>3, RulesTell
<1>5. g = HeadBridge(r) /\ r.head = a.ref
  <2>1. RuleCase(r).head = <<"live-case", r.ref>> /\ HeadBridge(r).head = <<"source-atom", r.head>>
    BY HeadsTell
  <2>2. <<"live-case", r.ref>>[1] = "live-case" /\ <<"source-atom", a.ref>>[1] = "source-atom"
    OBVIOUS
  <2>3. g # RuleCase(r)
    BY <1>3, <2>1, <2>2
  <2>4. g = HeadBridge(r)
    BY <1>4, <2>3
  <2>5. <<"source-atom", r.head>> = <<"source-atom", a.ref>>
    BY <1>3, <2>1, <2>4
  <2> QED
    BY <2>4, <2>5
<1>6. Case(r) \in live
  BY <1>2, <1>5, CaseParts
<1>7. PICK h \in RulesFor(Case(r)) : \A b \in h.positive : b \in live
  <2>1. Concluded(package, Case(r))
    BY DEF Concluded, Case
  <2> QED
    BY <1>1, <1>6, <2>1, LiveNeedsARule
<1>8. h = RuleCase(r)
  <2>1. h \in program.rules /\ h.head = <<"live-case", r.ref>>
    BY <1>7 DEF RulesFor, Case
  <2>2. PICK s \in package.rules : h \in {RuleCase(s), HeadBridge(s)}
    BY <2>1, RulesTell
  <2>3. RuleCase(s).head = <<"live-case", s.ref>> /\ HeadBridge(s).head = <<"source-atom", s.head>>
    BY HeadsTell
  <2>4. <<"live-case", r.ref>>[1] = "live-case" /\ <<"source-atom", s.head>>[1] = "source-atom"
    OBVIOUS
  <2>5. h = RuleCase(s)
    BY <2>1, <2>2, <2>3, <2>4
  <2>6. <<"live-case", r.ref>> = <<"live-case", s.ref>>
    BY <2>1, <2>3, <2>5
  <2>7. s.ref = r.ref
    BY <2>6
  <2>8. s \in Records(package, "RULE") /\ r \in Records(package, "RULE") /\ "RULE" \in RecordKind
    BY RecordsByKind DEF RecordKind
  <2>9. s = r
    BY <1>1, <2>7, <2>8, OneRecordPerRef
  <2> QED
    BY <2>5, <2>9
<1>9. Gates(r) \cup Before(r) \subseteq live
  BY <1>7, <1>8, CaseParts
<1>10. <<"cert-valid", r.certificate>> \in live
  BY <1>9 DEF Gates
<1>11. \A b \in r.positive : <<"source-atom", b>> \in live
  BY <1>9 DEF Before, SourceAtoms
<1> QED
  BY <1>5, <1>10, <1>11

LEMMA LiveAttested == Binding => LiveAtomsAreAttested
<1> SUFFICES ASSUME Binding, Evaluated, NEW plan \in bound, NEW a \in package.atoms,
                    <<"source-atom", a.ref>> \in live
             PROVE  \E task \in plan.tasks, e \in Range(evidence) :
                      /\ task.subject_rule.head = a.ref
                      /\ \A b \in task.subject_rule.positive : <<"source-atom", b>> \in live
                      /\ e.task = task /\ e.authority = task.authority /\ e.result = "PASS"
  BY DEF LiveAtomsAreAttested
<1>1. PICK d, p : Bound(d, p)
  BY DEF Binding
<1>2. /\ Finalizable(d, p, evidence) /\ Settled /\ plan = Plan(d, p)
      /\ package = Finalized(Plan(d, p), evidence)
  BY <1>1 DEF Bound, Binding, Settled
<1>3. /\ package.challenges = {} /\ package.discharges = {} /\ package.faces = {}
      /\ ~ a.primitive
  BY <1>2, FinalizedParts, PlannedAtomParts
<1>4. PICK x \in package.rules :
        /\ x.head = a.ref
        /\ \A b \in x.positive : <<"source-atom", b>> \in live
        /\ <<"cert-valid", x.certificate>> \in live
  BY <1>2, <1>3, LiveAtomHasALiveRule
<1>5. PICK k : Points(package, x.certificate, "CERTIFICATE", k)
  BY <1>2, SettledMeans, RuleLinks DEF Compilable
<1>6. k \in package.certificates /\ k.ref = x.certificate
  BY <1>5, RecordsByKind DEF Points
<1>7. k.result = "PASS"
  <2>1. SaysCertificate(x.certificate) = "LIVE"
    <3>1. Value(<<"cert-valid", x.certificate>>) = "LIVE"
      BY <1>4 DEF Value
    <3> QED
      BY <1>2, <1>5, <3>1, CertificateValue
  <2>2. RecordOf(package.certificates, x.certificate) = k
    <3>1. \A y, z \in package.certificates : y.ref = z.ref => y = z
      BY <1>2, SettledMeans, AdmittedMeans, RefsDiffer DEF Compilable
    <3> QED
      BY <1>6, <3>1, RecordFound
  <2>3. k.result \in {"PASS", "FAIL", "OPEN"}
    BY <1>2, <1>6, SettledMeans DEF Compilable, Constructed, CheckResult
  <2> QED
    BY <2>1, <2>2, <2>3 DEF SaysCertificate
<1>8. PICK task \in plan.tasks, e \in Range(evidence) :
        /\ task.subject_rule = x
        /\ e.task = task /\ e.authority = task.authority /\ k.result = e.result
  BY <1>6, CertificatesAnswer DEF CertificatesAnswerTheirTask
<1> QED
  BY <1>4, <1>7, <1>8

(* From a model's text alone nothing is ever live: a live atom of a bound  *)
(* package follows, by one of its rules, from live premises and the PASS   *)
(* of the authority expected for that rule (LiveAtomsAreAttested).         *)
THEOREM LiveAtomsHaveAttestations == BindingSpec => []LiveAtomsAreAttested
  BY BindingInvariance, LiveAttested, PTL
==============================================================================
