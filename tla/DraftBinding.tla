---------------------------- MODULE DraftBinding ----------------------------
(***************************************************************************)
(* plan_draft_binding and finalize_draft_binding of binding/: an extracted *)
(* draft is given the names a policy owns, each of its evidence requests   *)
(* becomes a task, and one attestation per task makes it a package.        *)
(*                                                                         *)
(* Both are pure functions of their arguments and are operators here; what *)
(* they raise is a set of issues as in PffValidate.  A draft is what       *)
(* DraftExtract makes of a response, named by its payload digest; an       *)
(* authority and an attestation are named by their id and version.  A      *)
(* policy's bindings are functions, since its constructor refuses a source *)
(* bound twice, and its other identifiers are not empty.                   *)
(***************************************************************************)
EXTENDS PffRegistry, Naturals, Sequences, FiniteSetsExt

CONSTANTS
  BadIdRef, BadVersionRef,  \* the references the binder refuses as targets
  RegistryId,               \* the one registry of the catalog,
  RegistryVersion,          \* its version
  CheckerVersion,           \* and those of its checker contracts
  MaxVersion,               \* _MAX_VERSION
  MaxFinalEvidence,         \* _MAX_FINAL_EVIDENCE
  FittingForm               \* the predicates, with the arguments, frame and grade
                            \* that the registry lets their atoms have

ASSUME BindingAssumption ==
  /\ MalformedRef \subseteq BadIdRef \cup BadVersionRef
  /\ CheckerVersion \in [DOMAIN Registry.checkers -> Nat \ {0}]
  /\ RegistryVersion \in Nat \ {0}

-----------------------------------------------------------------------------
(* Draft records may share a reference if their kinds differ.              *)

DraftSource(kind, ref) == <<kind, ref>>

SourcesOf(draft) ==
  {DraftSource("ATOM", a.ref) : a \in draft.atoms}
    \cup {DraftSource("RULE", r.ref) : r \in draft.rules}
    \cup {DraftSource("EVIDENCE_REQUEST", q.ref) : q \in draft.requests}

RecordSources(draft) == {s \in SourcesOf(draft) : s[1] # "EVIDENCE_REQUEST"}

RequestRefs(draft) == {q.ref : q \in draft.requests}

TheRecord(records, ref) == CHOOSE r \in records : r.ref = ref

-----------------------------------------------------------------------------
(* The gates of plan_draft_binding.                                        *)

SourceGate(draft, policy) ==
  When(draft.payload # policy.payload, "SOURCE_PAYLOAD_MISMATCH", NoRef)

(* The policy binds the records and requests of the draft, and no others.  *)
CoverageGate(draft, policy) ==
  LET records == DOMAIN policy.records
      requests == DOMAIN policy.evidence
  IN  {<<"RECORD_BINDING_MISSING", s>> : s \in RecordSources(draft) \ records}
        \cup {<<"RECORD_BINDING_EXTRA", s>> : s \in records \ RecordSources(draft)}
        \cup {<<"EVIDENCE_BINDING_MISSING", q>> : q \in RequestRefs(draft) \ requests}
        \cup {<<"EVIDENCE_BINDING_EXTRA", q>> : q \in requests \ RequestRefs(draft)}

Target(policy, source) ==
  IF source[1] = "EVIDENCE_REQUEST"
  THEN policy.evidence[source[2]].certificate
  ELSE policy.records[source]

TargetIsFree(draft, policy, s) ==
  \A t \in SourcesOf(draft) \ {s} : Target(policy, t) # Target(policy, s)

IdentityGateOfKind(draft, policy) ==
  LET at(s) == Target(policy, s)
      rival(s, t) == s # t /\ s[1] = t[1] /\ at(s) = at(t)
  IN  UNION {When(at(s) \in BadIdRef, "TARGET_INVALID_ID", at(s))
               \cup When(at(s) \in ReservedRef \ BadIdRef, "TARGET_RESERVED_ID", at(s))
               \cup When(at(s) \in BadVersionRef, "TARGET_INVALID_VERSION", at(s))
               \cup When(\E t \in SourcesOf(draft) : rival(s, t), "TARGET_REF_COLLISION", at(s)) :
               s \in SourcesOf(draft)}

(* Every target may name a record, and no two sources share one.           *)
IdentityGate(draft, policy) ==
  LET at(s) == Target(policy, s)
  IN  UNION {When(at(s) \in BadIdRef, "TARGET_INVALID_ID", at(s))
               \cup When(at(s) \in ReservedRef \ BadIdRef, "TARGET_RESERVED_ID", at(s))
               \cup When(at(s) \in BadVersionRef, "TARGET_INVALID_VERSION", at(s))
               \cup When(~ TargetIsFree(draft, policy, s), "TARGET_REF_COLLISION", at(s)) :
               s \in SourcesOf(draft)}

RegistryGate(policy) ==
  IF policy.registry # RegistryId
  THEN {<<"UNKNOWN_REGISTRY", NoRef>>}
  ELSE IF RegistryVersion > MaxVersion
  THEN {<<"REGISTRY_VERSION_UNSUPPORTED", NoRef>>}
  ELSE When(policy.registry_version # RegistryVersion, "REGISTRY_VERSION_MISMATCH", NoRef)

HeadPredicate(draft, rule) == TheRecord(draft.atoms, rule.head).predicate

(* The routed checker must be one the registry lets certify rules for the  *)
(* head's predicate; a head of an unknown predicate is an issue by itself. *)
CheckerMayCertify(predicate, checker) ==
  /\ KnownPredicate(predicate) => checker \in Registry.predicates[predicate].checkers
  /\ "RULE" \in Registry.checkers[checker].subject_kinds
  /\ "CERTIFICATE" \in Registry.checkers[checker].uses

CheckerRouteIssues(predicate, route, at) ==
  IF ~ KnownChecker(route.checker)
  THEN {<<"CHECKER_UNKNOWN", at>>}
  ELSE IF CheckerVersion[route.checker] > MaxVersion
  THEN {<<"CHECKER_VERSION_UNSUPPORTED", at>>}
  ELSE IF route.checker_version # CheckerVersion[route.checker]
  THEN {<<"CHECKER_VERSION_MISMATCH", at>>}
  ELSE When(~ CheckerMayCertify(predicate, route.checker), "CHECKER_NOT_PERMITTED", at)

RoutingGate(draft, policy) ==
  UNION {LET predicate == HeadPredicate(draft, TheRecord(draft.rules, q.subject))
         IN  When(~ KnownPredicate(predicate), "HEAD_PREDICATE_UNKNOWN", q.ref)
               \cup CheckerRouteIssues(predicate, policy.evidence[q.ref], q.ref) :
           q \in draft.requests}

(* A gate with an issue raises before the next gate is reached.            *)
PlanIssues(draft, policy) ==
  IF SourceGate(draft, policy) # {} THEN SourceGate(draft, policy)
  ELSE IF CoverageGate(draft, policy) # {} THEN CoverageGate(draft, policy)
  ELSE IF IdentityGate(draft, policy) # {} THEN IdentityGate(draft, policy)
  ELSE IF RegistryGate(policy) # {} THEN RegistryGate(policy)
  ELSE RoutingGate(draft, policy)

-----------------------------------------------------------------------------
(* What plan_draft_binding builds when every gate is passed.               *)

PlannedAtom(policy, atom) ==
  [ref |-> Target(policy, DraftSource("ATOM", atom.ref)), predicate |-> atom.predicate,
   primitive |-> FALSE, form_fits |-> <<atom.predicate, atom.form>> \in FittingForm]

PlannedRuleByNumber(policy, rule) ==
  [ref |-> Target(policy, DraftSource("RULE", rule.ref)),
   head |-> Target(policy, DraftSource("ATOM", rule.head)),
   positive |-> {Target(policy, DraftSource("ATOM", a)) : a \in rule.positive},
   certificate |-> Target(policy, DraftSource("EVIDENCE_REQUEST", rule.ref)),
   negative |-> {}, faces |-> {}]

PlannedRule(policy, rule) ==
  [ref |-> Target(policy, DraftSource("RULE", rule.ref)),
   head |-> Target(policy, DraftSource("ATOM", rule.head)),
   positive |-> {Target(policy, DraftSource("ATOM", a)) : a \in rule.positive},
   certificate |-> Target(policy, DraftSource("EVIDENCE_REQUEST", rule.request)),
   negative |-> {}, faces |-> {}]

(* The task asked of an authority carries the whole planned rule.          *)
EvidenceTask(draft, policy, request) ==
  LET route == policy.evidence[request.ref]
  IN  [payload |-> draft.payload, policy |-> policy.id, policy_version |-> policy.version,
       subject_rule |-> PlannedRule(policy, TheRecord(draft.rules, request.subject)),
       request |-> request.ref, checker |-> route.checker,
       checker_version |-> route.checker_version, authority |-> route.authority,
       package |-> policy.package, registry |-> policy.registry,
       registry_version |-> policy.registry_version]

Origin(policy, source) ==
  [kind |-> IF source[1] = "EVIDENCE_REQUEST" THEN "CERTIFICATE" ELSE source[1],
   target |-> Target(policy, source), source |-> source]

Plan(draft, policy) ==
  [atoms |-> {PlannedAtom(policy, a) : a \in draft.atoms},
   rules |-> {PlannedRule(policy, r) : r \in draft.rules},
   tasks |-> {EvidenceTask(draft, policy, q) : q \in draft.requests},
   origins |-> {Origin(policy, s) : s \in SourcesOf(draft)}]

-----------------------------------------------------------------------------
(* finalize_draft_binding: evidence is the tuple of attestations submitted.*)

Submitted(evidence, request) ==
  {i \in DOMAIN evidence : evidence[i].task.request = request}

EvidenceSetIssuesByRequest(plan, evidence) ==
  (UNION {LET submitted == Submitted(evidence, task.request)
         IN  When(submitted = {}, "EVIDENCE_MISSING", task.request)
               \cup When(Cardinality(submitted) > 1, "EVIDENCE_DUPLICATE", task.request) :
           task \in plan.tasks})
    \cup {<<"EVIDENCE_EXTRA", e.task.request>> :
            e \in {x \in Range(evidence) : x.task.request \notin {t.request : t \in plan.tasks}}}

(* One attestation for each request, made for exactly the planned task.    *)
EvidenceSetIssues(plan, evidence) ==
  (UNION {LET submitted == Submitted(evidence, task.request)
         IN  When(submitted = {}, "EVIDENCE_MISSING", task.request)
               \cup When(Cardinality(submitted) > 1, "EVIDENCE_DUPLICATE", task.request)
               \cup When(\E i \in submitted : submitted = {i} /\ evidence[i].task # task,
                         "EVIDENCE_TASK_MISMATCH", task.request) :
           task \in plan.tasks})
    \cup {<<"EVIDENCE_EXTRA", e.task.request>> :
            e \in {x \in Range(evidence) : x.task.request \notin {t.request : t \in plan.tasks}}}

AttestationIssuesOfAnyAuthority(evidence) ==
  UNION {When(\E j \in DOMAIN evidence \ {i} :
                /\ evidence[j].authority = evidence[i].authority
                /\ evidence[j].id = evidence[i].id,
              "ATTESTATION_REF_COLLISION", evidence[i].id) : i \in DOMAIN evidence}

AttestationIssuesWithoutCollision(evidence) ==
  {<<"EVIDENCE_AUTHORITY_MISMATCH", e.task.request>> :
     e \in {x \in Range(evidence) : x.authority # x.task.authority}}

(* Each by the authority the task expects, under an identity of its own.   *)
AttestationIssues(evidence) ==
  {<<"EVIDENCE_AUTHORITY_MISMATCH", e.task.request>> :
     e \in {x \in Range(evidence) : x.authority # x.task.authority}}
    \cup UNION {When(\E j \in DOMAIN evidence \ {i} :
                       /\ evidence[j].authority = evidence[i].authority
                       /\ evidence[j].id = evidence[i].id,
                     "ATTESTATION_REF_COLLISION", evidence[i].id) : i \in DOMAIN evidence}

(* Once the first set is empty, the evidence is one attestation per task,  *)
(* which is what the code hands to the second.                             *)
FinalizeIssues(plan, evidence) ==
  IF Len(evidence) > MaxFinalEvidence
  THEN {<<"FINAL_EVIDENCE_LIMIT", NoRef>>}
  ELSE IF EvidenceSetIssues(plan, evidence) # {}
  THEN EvidenceSetIssues(plan, evidence)
  ELSE AttestationIssues(evidence)

Certificate(attestation) ==
  [ref |-> attestation.task.subject_rule.certificate, checker |-> attestation.task.checker,
   subject |-> attestation.task.subject_rule.ref, result |-> attestation.result,
   details_fit |-> attestation.details_fit]

Finalized(plan, evidence) ==
  [header_fits |-> TRUE, atoms |-> plan.atoms, rules |-> plan.rules, faces |-> {},
   certificates |-> {Certificate(e) : e \in Range(evidence)}, closures |-> {},
   contraries |-> {}, challenges |-> {}, discharges |-> {},
   base |-> [live |-> {}, excluded |-> {}, open |-> {}]]
=============================================================================
