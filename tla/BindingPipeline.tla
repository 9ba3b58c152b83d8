--------------------------- MODULE BindingPipeline ---------------------------
(***************************************************************************)
(* From captured responses to statuses: a caller extracts the drafts they  *)
(* hold, plans bindings, hands the tasks to authorities, collects what     *)
(* comes back, finalizes one of its plans, and puts the bound package      *)
(* through the pipeline of PffPipeline.                                    *)
(*                                                                         *)
(* How tasks and attestations travel is the caller's business: an answer   *)
(* may be lost, come twice, come late, be for another plan, come from      *)
(* another authority or reuse another answer's identity.                   *)
(***************************************************************************)
EXTENDS PffPipeline, DraftBinding, DraftExtract

CONSTANTS
  Captures,     \* what was captured of a provider's responses
  Policies,     \* the policies the caller owns
  Answers,      \* what an authority may answer: all of an attestation but its task
  MaxPlans,     \* bounds: plans the caller holds,
  MaxEvidence   \* and attestations it submits

\* What the constructors of policies and attestations see to: a target is a
\* RecordRef, and a result is of an enumeration.
ASSUME CallerAssumption ==
  /\ \A p \in Policies :
       /\ \A s \in DOMAIN p.records : p.records[s] \in Ref
       /\ \A q \in DOMAIN p.evidence : p.evidence[q].certificate \in Ref
  /\ \A a \in Answers : a.result \in CheckResult

\* The drafts extract_draft returns; of the other captures it raises.
Drafts == {ExtractDraft(e) : e \in {x \in Captures : ExtractIssues(x) = {}}}

VARIABLES
  plans,      \* the plans made
  evidence,   \* the attestations collected, in the order they came
  bound       \* the plan finalized, if any: a set of at most one

bindingVars == <<plans, evidence, bound>>

NoPackage == "no package"

BindingInit ==
  /\ plans = {} /\ evidence = <<>> /\ bound = {}
  /\ phase = "unbound" /\ package = NoPackage /\ issues = {}
  /\ stage = "preflight"
  /\ builder = EmptyBuilder /\ deferred = {} /\ program = NoProgram
  /\ pc = "construct"
  /\ live = {} /\ excluded = {} /\ next_live = {} /\ unfounded = {} /\ suspended = {}
  /\ error = Evaluator!NoError

(* A call that raises leaves nothing behind; only one that returns is a    *)
(* step.                                                                   *)
PlanDraftBinding(draft, policy) ==
  /\ bound = {}
  /\ Cardinality(plans) < MaxPlans
  /\ PlanIssues(draft, policy) = {}
  /\ plans' = plans \cup {Plan(draft, policy)}
  /\ UNCHANGED <<evidence, bound, PipelineVars>>

Attested(task, answer) ==
  [task |-> task, authority |-> answer.authority, id |-> answer.id,
   result |-> answer.result, details_fit |-> answer.details_fit]

Collect(task, answer) ==
  /\ bound = {}
  /\ Len(evidence) < MaxEvidence
  /\ evidence' = Append(evidence, Attested(task, answer))
  /\ UNCHANGED <<plans, bound, PipelineVars>>

(* A refused caller, or any other, may drop an answer and try again.       *)
Discard(i) ==
  /\ bound = {}
  /\ evidence' = RemoveAt(evidence, i)
  /\ UNCHANGED <<plans, bound, PipelineVars>>

FinalizeDraftBinding(plan) ==
  /\ bound = {}
  /\ FinalizeIssues(plan, evidence) = {}
  /\ bound' = {plan}
  /\ package' = Finalized(plan, evidence)
  /\ phase' = "identity"
  /\ UNCHANGED <<plans, evidence, issues, compileVars, evaluateVars>>

BindingNext ==
  \/ \E d \in Drafts, p \in Policies : PlanDraftBinding(d, p)
  \/ \E plan \in plans : \E task \in plan.tasks : \E a \in Answers : Collect(task, a)
  \/ \E i \in DOMAIN evidence : Discard(i)
  \/ \E plan \in plans : FinalizeDraftBinding(plan)
  \/ bound # {} /\ PipelineNext /\ UNCHANGED bindingVars

BindingSpec == BindingInit /\ [][BindingNext]_<<bindingVars, PipelineVars>>

-----------------------------------------------------------------------------
(* The binder's gates and the validator's phases agree on what a package   *)
(* may be: a bound package can only be refused for a predicate no rule     *)
(* concludes, the form of an atom, or the details an authority supplied.   *)
(* Names, references, ownership and checker routes are always right.       *)
BoundPackagesFailOnContentOnly ==
  bound # {} =>
    \A i \in issues : i[1] \in {"UNKNOWN_PREDICATE", "PREDICATE_FORM", "CHECKER_PAYLOAD"}

(* Each certificate of a bound package carries the result of an answer to  *)
(* the very task planned for its rule, given by the authority the plan     *)
(* expects: never one made for an earlier plan or another draft.           *)
CertificatesAnswerTheirTask ==
  \A plan \in bound :
    \A r \in package.rules : \A k \in package.certificates :
      k.ref = r.certificate =>
        \E task \in plan.tasks, e \in Range(evidence) :
          /\ task.subject_rule = r
          /\ e.task = task /\ e.authority = task.authority
          /\ k.result = e.result /\ k.subject = r.ref /\ k.checker = task.checker

(* The binder never chooses among answers: each one submitted is the       *)
(* certificate of a rule of its own, and no two share an identity.         *)
EveryAnswerIsUsedOnce ==
  bound # {} =>
    /\ Len(evidence) = Cardinality(package.rules)
    /\ Cardinality(package.certificates) = Cardinality(package.rules)
    /\ Cardinality({<<e.authority, e.id>> : e \in Range(evidence)}) = Len(evidence)

(* origin_for leads from every record of a bound package back to one draft *)
(* record, and the links between package records are those between the     *)
(* draft records: the package is a draft renamed.                          *)
OriginOf(plan, kind, ref) ==
  {o.source : o \in {x \in plan.origins : x.kind = kind /\ x.target = ref}}

RuleAsDrafted(plan, r) ==
  [ref |-> OriginOf(plan, "RULE", r.ref), head |-> OriginOf(plan, "ATOM", r.head),
   positive |-> {OriginOf(plan, "ATOM", a) : a \in r.positive},
   request |-> OriginOf(plan, "CERTIFICATE", r.certificate)]

OriginsRecoverTheDraft ==
  \A plan \in bound :
    \E draft \in Drafts :
      /\ {RuleAsDrafted(plan, r) : r \in package.rules} =
           {[ref |-> {DraftSource("RULE", r.ref)}, head |-> {DraftSource("ATOM", r.head)},
             positive |-> {{DraftSource("ATOM", a)} : a \in r.positive},
             request |-> {DraftSource("EVIDENCE_REQUEST", r.request)}] : r \in draft.rules}
      /\ UNION {OriginOf(plan, "ATOM", a.ref) : a \in package.atoms} =
           {DraftSource("ATOM", a.ref) : a \in draft.atoms}
      /\ {t.payload : t \in plan.tasks} \subseteq {draft.payload}

(* No text of a draft makes an atom live: a live atom is the head of a     *)
(* rule whose premises are live and which the expected authority passed.   *)
LiveAtomsAreAttested ==
  Evaluated =>
    \A plan \in bound, a \in package.atoms :
      <<"source-atom", a.ref>> \in live =>
        \E task \in plan.tasks, e \in Range(evidence) :
          /\ task.subject_rule.head = a.ref
          /\ \A b \in task.subject_rule.positive : <<"source-atom", b>> \in live
          /\ e.task = task /\ e.authority = task.authority /\ e.result = "PASS"
=============================================================================
