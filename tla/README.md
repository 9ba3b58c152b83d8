# Poietics in TLA+

Poietics asks a language model, captures what it answers, turns the answer into
a package of claims, admits the package against a registry of predicates and
checkers, compiles it to a ground program, and evaluates the program to three
statuses (live, excluded, suspended).  This directory models that path in TLA+
from the first network call on, checks it with TLC on small instances, and
proves with TLAPS what each of these stages guarantees for every instance.

Contents: [the system](#1-the-system) ·
[the modules](#2-modules-and-the-code-they-stand-for) ·
[abstractions](#3-abstractions) · [runs](#4-runs) ·
[proofs](#5-proofs) · [disagreement with the docs](#6-a-disagreement-with-the-docs) ·
[not modelled](#7-what-is-not-modelled) · [plan](#8-plan)

## 1. The system

Every stage is a function in one thread: it takes immutable values, and returns
a value or raises.  Nothing is stored.  The state worth modelling is therefore
the state *inside* the long computations, the state *between* calls, which is
the caller's (which plans exist, which evidence has arrived), and, in the one
stage that waits for somebody else, the objects that can change under it.

    OllamaGenerateRequest --generate_ollama (HTTP transport)--> GenerationEnvelope
    GenerationEnvelope --extract_draft--> ExtractedDraft
        ExtractedDraft + DraftBindingPolicy --plan_draft_binding--> BindingPlan (tasks)
        BindingPlan + EvidenceAttestations  --finalize_draft_binding--> Package
            Package --validate_package--> ValidatedPackage
                --compile_package--> GroundProgram --evaluate--> Evaluation

| Component | State it keeps | Operations | What is hard | What makes it correct |
|---|---|---|---|---|
| ground evaluator (`ground/`) | the live and excluded sets of the round, the next live set, the shrinking unfounded set | `GroundProgram` construction, `evaluate`, `greatest_unfounded` | two nested loops; unfoundedness is computed from the new live and the old excluded set; loops of any length; a collision noticed only in a late round | the result is the well-founded partition; exclusions stay justified; a collision is always the base's fault; open atoms never make a status flip; it ends |
| package records (`pff/model.py`) | immutable records | construction, record iteration | eight kinds share one name space | a reference finds at most one record |
| predicate registry (`pff/registry.py`) | immutable policies | construction (coherence), lookups | core challenge targets may be narrowed, not widened | everything the validator asks has one answer |
| local checkers (`pff/local_checkers.py`) | none | recompute a closure from the package | result compared only if nothing else is wrong with the closure | no untrue result of a code-owned selector is admitted |
| admission (`pff/validate.py`) | buckets by reference, the issues found | one method per record kind, then the verdict | checks are skipped where a reference does not resolve, and count on another issue being raised | no fault hides another; an admitted package satisfies what the compiler asserts |
| compiler (`pff/compile.py`) | the builder: atoms, rules, base parts, origins | preflight, one function per record kind, build | assertions that must never fail; gates whose absence is established by an inquiry | admitted packages compile and evaluate, and statuses mean what the records say |
| draft binding (`binding/`) | none; plan and bound package are values | `plan_draft_binding`, `finalize_draft_binding` | evidence is missing, repeated, late, for another plan, by another authority | a certificate is the answer to its own task; the package is the draft renamed |
| draft extraction (`generation/extract.py`) | none | `extract_draft` | gates that each assume the one before; marker scan; two-way linkage | one block or none; rules and requests one to one |
| generation capture (`generation/model.py`) | immutable records | `capture_generation`, the draft records | the lineage of attempts is checked here and by the adapter | an envelope says whose answer it is, and to what |
| Ollama exchange (`generation/ollama.py`, `ollama_http.py`) | one call: the copies of the request, the connection, what was read | `generate_ollama`, the HTTP transport | objects others may change while the call waits; failure of any network call; the body limit; a body cut short | what is captured is what was asked and all that was answered; one question at most; everything opened is closed |

Interactions are plain calls, except one: `generate_ollama` calls a transport
it is given, and the transport waits for a server.  Between planning and finalizing a binding there is an unbounded
pause in which other plans are made and authorities answer in any order.

`PROJECT.json` lists under `hazards` where the code is exposed to what, with
the properties that would catch it.

## 2. Modules and the code they stand for

    GroundProgram <- WellFoundedModel <- WellFoundedIteration
                                      <- GroundEvaluate      (refines WellFoundedIteration)
    PffPackage <- PffRegistry <- PffValidate <- PffCompile <- PffPipeline
                              <- DraftBinding              <- BindingPipeline
    JsonValue <- GenerationCapture <- DraftExtract (with DraftText) <- DraftSession <- DraftGrammar
                                                   <- OllamaExchange (with OllamaHttp)
                                                   <- BindingPipeline
    JsonDepth
    PffCompile, PffPipeline --INSTANCE--> GroundProgram, GroundEvaluate
    OllamaExchange --INSTANCE--> GenerationAttempt  (which it refines)

The composition is whole: `OllamaExchange` ends in an envelope that meets the
gates of `extract_draft` on content, `DraftSession` goes from an envelope to a
draft, and `BindingPipeline` from a captured response by way of draft, plan,
evidence and package to the statuses.

| Module | Code | State and actions |
|---|---|---|
| `GroundProgram` | `ground/model.py`, rule predicates of `ground/evaluate.py` | operators: the constructor's faults, when a rule is enabled, blocked or supports its head |
| `WellFoundedModel` | none: the yardstick | the well-founded partition as an alternating fixed point of least models, with no iteration |
| `WellFoundedIteration` | what `evaluate` promises | any enabled heads become live, any unfounded set becomes excluded, in any order |
| `GroundEvaluate` | `ground/evaluate.py` | `evaluate`'s variables and a program counter; one action per loop step: `Derive` is the top of a round, `Shrink` a pass of `greatest_unfounded`, `Commit` and `Finish` the two ends of a round, `Reject` and `RaiseCollision` the errors |
| `PffPackage`, `PffRegistry` | `pff/model.py`, `pff/local_checkers.py`, `pff/registry.py` | operators: lookup by reference, selectors and the recomputed result, what a registry may say |
| `PffValidate` | `pff/validate.py` | the candidate, the phase, the issues; one action per `validate_` method and one for each verdict |
| `PffCompile` | `pff/compile.py` | the builder, the deferred issues, the program; preflight, one action per `_compile_` function, build |
| `PffPipeline` | the three calls in a row, as a caller makes them (no code of the repository does) | composition of the above, and the meaning of the records in strong Kleene logic to compare with |
| `DraftBinding` | `binding/plan.py`, `binding/finalize.py`, `binding/model.py` | operators: the five planning gates in order, what a plan contains, the two sets of finalization issues, the package |
| `BindingPipeline` | the caller between the calls | plans made for extracted drafts, evidence collected; plan, collect, discard, finalize, then the pipeline |
| `GenerationCapture` | `generation/model.py` | operators: the lineage and metadata an envelope accepts, and the envelope |
| `DraftText` | `_delimited_payload`, `_version_value` of `generation/extract.py` | operators: the block between the markers, by position; a version, by its text |
| `JsonValue` | the decoders of `extract.py` and `ollama.py` | operators: a parsed text with every pair kept; depth, surrogates, repeated keys |
| `JsonDepth` | `_depth_exceeded`, `_exceeds_json_depth` | the local variables of both scanners; one action reads a character into both |
| `DraftExtract` | `generation/extract.py` | operators: one per gate and per kind of record, and the draft |
| `DraftSession` | the caller of capture and extraction | the envelope, the outcome; capture, replace a content or a digest, extract |
| `DraftGrammar` | none: the yardstick | the texts of pff-draft/0.1 by what each object holds and by how records refer to each other, without gates or their order |
| `GenerationAttempt` | what `generate_ollama` promises | one question at most, one answer to it, one outcome that is a failure or that question with that answer |
| `OllamaHttp` | `generation/ollama_http.py` | the transport's variables, what is open, what left; one action per network call, with each way it ends, and one per close |
| `OllamaExchange` | `generation/ollama.py` | the caller's request, the adapter's copy, the outcome; check, copy in two steps, the transport, judge and capture; others replace the request, the transport's request and the key |

The `MC` modules hold the instances: `MCGroundPrograms` (all small programs),
`MCPffPackages` (one complete package and its neighbours), `MCDraftDocuments`
(the rows of a draft), `MCDraftText` (all short texts), `MCDraftSession`
(documents and framings), `MCOllamaExchange` (requests, keys and answers),
`MCBindingPipeline` (responses, policies, answers).

A definition that stands just before the one it resembles and is used nowhere
is that definition with a slip such as a programmer might make.  For every
checked property `PROJECT.json` names a slip that TLC refutes it with, so each
property is known to depend on the code.

## 3. Abstractions

* **References** (an id and a version) are opaque.  What a spelling can be
  wrong about is membership in a set: malformed, reserved, refused by the
  binder.  Ground references are pairs of a role and the owner's reference; the
  code spells such pairs injectively.
* **Policies on text** (argument types, frames, grades, payload hashes, detail
  fields, boundaries) are one Boolean, "the policy accepts it", free in each
  record.  Where the code reports several codes for one such policy, the model
  reports one.
* **Records of a kind form a set**, so listing one and the same record twice is
  not represented; two different records under one reference are.
* **Order** of tuples (rules sorted by id, issues sorted by path) is left out:
  nothing downstream depends on it.  An issue is a code and the record at
  fault; texts and paths are left out.
* **Registry**: taken to be in the catalog during admission, and coherent,
  which is what its constructor enforces (`CoherentRegistry`, an assumption TLC
  evaluates).  `depends_on_version` and the metadata of records are left out.
* **Calls that raise** leave nothing behind, so in `BindingPipeline` only a
  planning or finalizing call that returns is a step.
* **Python type checks** (`type(x) is not ...`) are left out everywhere.
* **Texts** are sequences of tokens, each standing for a run of bytes; what a
  token must keep is where markers and newlines are, and whether it is UTF-8.
  Lengths are counted in tokens, so the limits of the model are small numbers.
  `JsonDepth` alone reads characters, in the five classes the scanners tell
  apart.
* **JSON**: `json.loads` is a function from the texts that are JSON to what
  they parse to (`Document`), an input.  An object keeps every pair; that one
  pair came twice is noted beside them.  A text that is not JSON is refused
  whatever its depth; which of two codes it gets is not modelled.
* **A digest** is its content, marked: no collision.
* **Network calls** return, raise what the transport expects (`OSError`, a
  timeout among them, or `HTTPException`), or raise anything else, such as
  `KeyboardInterrupt`.  A request whose call fails has left or not.
  Reading the status may raise as the other calls do.  That `read` returns bytes,
  and no more than it was asked for, is http.client's contract: the transport's
  check of both is left out.
  What a server sends is a status and the body up to where it closed.  Closing
  may fail; what it raises is dropped if it is an `Exception`.
* **Who changes what**: a frozen dataclass can be changed with
  `object.__setattr__`, as the repository's tests do.  The caller's request
  and the transport's key may be replaced between any two steps, the
  transport's request once the transport runs.  The reads that copy the
  caller's request are cut once, between the attempt with its parent and the
  other fields: with one cut, parts of two requests already come together in
  one copy, and the lineage check spans the cut.

## 4. Runs

Runs check for deadlock wherever more can always happen or the specification
says with a stuttering disjunct that the call has returned.  Where a session
just ends (`text_scans`, `json_depth`, `extraction`, `exchange`) they do not.

| Run | Instance | Question |
|---|---|---|
| `ground_two_atoms` | all programs over 2 atoms, ≤ 2 rules, any body, ≤ 2 base statuses, and programs with each constructor fault | safety, progress and termination of every call; refinement of the open-ended iteration |
| `ground_three_atoms` | 3 atoms, ≤ 4 rules of one literal, ≤ 1 base status | chains and loops of length three: several shrinking passes and several rounds are needed |
| `schedules` | 3 atoms, ≤ 3 rules of one literal | every order and batch of inferences ends in one partition |
| `validate_fault_pairs` | the complete package with every pair of some seventy faults | does a check skipped because of one fault let another through? Pairs are the point: one fault is what unit tests cover |
| `pipeline_meanings` | the complete package with every three of its listed changes of meaning | does what is admitted compile and evaluate, and mean what the records say? |
| `pipeline_answers` | at most one change | is every package answered? |
| `text_scans` | all texts of ≤ 8 tokens; all integers of ≤ 4 digits, around the limit 213 | is a block found exactly where a reader of lines finds one? is a version accepted exactly when its value is in range? |
| `json_depth` | the code's limit of 64, ≤ 4 backslashes in a row, texts of any length | do the two scanners ever differ? |
| `extraction` | some 6 000 documents (a good one with one or two records changed, every linkage of ≤ 3 rules and requests, wrong wholes), twenty framings; the prompt, the response or the digest of either replaced, any of them or none | does every draft link one to one, and does the extractor accept exactly the documents of the grammar? |
| `exchange` | requests good and bad, local and cloud, with and without parent; no key, a good and a bad one; answers complete, cut short, overlong, malformed, refusing | what can be captured, what leaves, what stays open, and does the call end? |
| `binding_pipeline` | 9 responses, 6 of them with a draft, good, edited and wrong policies, ≤ 2 plans, ≤ 3 attestations | can evidence reach the wrong certificate? can a bound package be refused for anything but content? |
| `supplied_closure_scope` | as `validate_fault_pairs` | expected violation, see section 6 |

*Why the bounds are enough.*  A body with two literals, or a loop through two
atoms, already separates each condition of a rule; three atoms and four rules
make the loops run more than once, and the theorems of section 5 cover the
rest.  The complete package has each kind of record and each kind of link, so a
pair of faults meets at every link.  Two plans and three attestations allow an
answer to be stale, missing, doubled, foreign and under a reused identity while
a two-rule plan is complete; a third plan adds no new relation between an
answer and a task.  `MaxFinalEvidence` is 2 so that the limit is reached.
Eight tokens hold two markers of either kind with text between, before and
after them, and every overlap.  Three digits can differ from the limit's first
in any place.  Some answers are a complete JSON text carried by white space to
the body limit and beyond it, so that a cut at the limit would leave a complete
text.  One exchange is
enough: `generate_ollama` keeps nothing between calls.

*Fairness.*  `WF(Next)` in the ground modules' `FairSpec` and in
`FairPipelineSpec` says that a plain call in one thread goes on as long as it
can.  In `OllamaExchange`, `WF(Step)` says in addition that each network call
returns or raises: connect, send and read stop after `timeout_seconds` without
progress, and what is read is bounded.  One thing escapes this: http.client
skips any number of `100 Continue` answers without returning to the transport,
so a server that sends nothing else forever keeps the call alive.  No fairness
is assumed of the server or of those who replace fields, and no liveness is
claimed for the binding session: authorities may never answer.

*What the properties say* stands before each of them in the modules.  The ones
that tie the stages together are:

* `LocalClosuresAreTruthful`, `OwnershipIsMutual`, `ReferencesFindOneRecord`:
  what admission guarantees although every one of its checks is conditional.  The
  last speaks of every place of a record that holds a reference: of rules (head,
  certificate, premises, closures, faces), faces, certificates (subject),
  closures (members, and the references the selector compares where its contract
  supports it), contraries, challenges (with their contrary and problem-face
  atoms), discharges and the base.  References inside the details of a
  certificate are part of the Boolean `details_fit`;
* `CompilerNeverAsserts`, `EvaluationNeverRaises`: an admitted package never
  reaches an assertion of the compiler or a collision in the evaluator;
* `GatesFollowTheProfile`, `SourceAtomsMeanThePackage`,
  `ClearFaceHasNoUnansweredBlocker`: the statuses mean what the records say;
* `BoundPackagesFailOnContentOnly`: the binder's gates and the validator agree;
* `CertificatesAnswerTheirTask`, `LiveAtomsAreAttested`: from a captured
  response to a live atom there is no way around the expected authority's PASS
  for this plan;
* `ImplementsAttempt`: what is captured is one question that left, and the
  answer to it, whoever changes what meanwhile.  Of the key it sees whether one
  went along, not which: one key replaced by another is not told apart;
* `AcceptedAnswersAreKept`: what the adapter accepts, `capture_generation` and
  the content gates of `extract_draft` accept.  It is about the response only:
  a prompt longer than the extractor's limit can be sent and captured, and its
  envelope is then refused by `extract_draft`;
* `ExtractedDraftsAreLinked`: the linkage gate looks at the requests only, and
  still every rule has its own;
* `ScannersAgree`: one rule, two implementations.  The code never gives both the
  same text (one scans an HTTP body, the other a payload inside it), so this says
  of either that it reads escapes as the other does, not that one stage accepts
  what the other accepted.

## 5. Proofs

**The evaluator.**  Checked by `tlapm` for every set of atoms and rule ids and
every set of programs; the only assumption is that the programs are well typed
(`ProgramsAssumption`: what `__post_init__` has normalized).  No finiteness is
needed.

`WellFoundedModelProofs` holds the algebra: least models are closed and
monotone, the estimates are antitone, the live set is a fixed point, what a
grounded partition infers is in the well-founded partition
(`GroundedSound`), a grounded partition from which nothing can be inferred is
the well-founded one (`StuckIsComplete`), and resolving open atoms extends it
(`ResolutionExtends`).  `FoldingAgrees` says when a program may be read at the
level of some of its atoms (`Folds`): what leads from these atoms to one of them
runs through a case, the rest of the case is a verdict, LIVE, EXCLUDED or open, that
says of the case no more and no less than the program does, and the reading has one
rule for each case, with an undecided premise where the verdict is open.  The
two have the same partition of the atoms they share, by comparing each one's
estimates with the other's (`OverLifts`, `OverFolds`) and showing that the live
set of one is closed under what the other infers (`ReadingIsSound`,
`ReadingIsComplete`).

`WellFoundedIterationProofs`: every schedule of the open-ended iteration is
sound at each step and ends in the same partition (`EveryPrefixSound`,
`EverySchedule`).

`GroundEvaluateProofs`, about the code's loops:

* `Core` holds of every program a call may be given: live and excluded are
  disjoint; each evaluator-made exclusion is blocked *under the current sets*;
  in the shrinking loop, `next_live` is live plus the enabled heads and the
  candidates contain every unfounded set; the partition so far is grounded
  (`GroundedInv`).  Blockedness is what makes it inductive: the unfounded set
  was computed from `next_live` but the old excluded set, and a blocked rule
  stays blocked as the sets grow (`BlockedGrows`) and is never enabled
  (`BlockedNotEnabled`), so no excluded head is derived later.  `Inv` adds
  `TypeOK`, which needs the program to be one of `Programs`; `Core` does not,
  so the pipeline uses it for the programs the compiler makes.
* From it: `TypeCorrect`, `CollisionBlamesBase`, `ExclusionsJustified`,
  `StatusesAdvance`, `GreatestUnfounded`.
* `GroundedInv` with the algebra gives `EvaluationCorrect`, `RaisesCorrectly`
  and `OpenNeverFlips`.
* `Refinement`: every step of `evaluate` is a step of the open-ended iteration
  or a stutter.

**Packages** (`PffPipelineProofs`), for every registry, every set of references
and every set of candidates.  Assumed: the registry is coherent
(`CoherentRegistry`: what `PredicateRegistry` checks when it is made), and
records have references and results of the right type (`PackagesAssumption`:
what their constructors check).

* *Admission.*  `Reported` says that the issues are at any time what the methods
  passed so far report of the package, all of it and nothing else.  An accepted
  package is therefore one no method objects to (`AcceptedIsAdmitted`), and the
  rest is about a single package.  Every method skips checks where a reference
  does not resolve and counts on another method's issue; `LinkFinds`,
  `RuleLinks`, `FaceLinks`, `ChallengeLinks`, `DischargeLinks` and
  `CertificateLinks` show link by link that this issue is raised.  From them
  `AdmissionResolves` and `AdmissionOwnsMutually`; with
  `LocalClosureIsRecomputed` (no guard in front of the comparison lets an
  untrue result by) `AdmissionIsTruthful`; with the registry's coherence
  (`NoMismatchAsks`) `AdmissionScopesInquiries`.
* *Compilation.*  `Compiling` says that the builder holds at any time exactly what
  the functions run so far emit (`Gathers`), of a package that was admitted and
  that preflight let pass (`Compilable`).  What each function emits is given by owner
  (`EmissionsSound`, `RulesLead`): an artifact's role and owner tell the
  function that emitted it, so no two functions emit the same one, an atom is
  given a status or concluded but not both (`GivenOrConcluded`), and a rule's
  atoms come from its own or an earlier function.  `NothingAsserts` and
  `BuildAccepts` are the builder's and the constructor's assertions;
  `CompilationIsTotal`, `CompilationIsOrdered` and `BaseIsNotDerived` follow.
* *Evaluation.*  `Piping` adds the evaluator's own invariant: before `evaluate`
  starts its variables are fresh, afterwards `EP!Core` holds of the compiled
  program (`EP` is an instance of `GroundEvaluateProofs`).  `NoneRaises`: a
  collision would be on an atom that has a base status and is concluded, so
  `EvaluationIsTotal`.
* *Meanings.*  When the evaluation is over, an atom without a base status has the
  strong Kleene disjunction of its rules' bodies (`HeadIsSome`), whatever
  loops there are, for what is neither live nor unfounded is neither derivable
  nor without support.  The rules for each gate atom are known
  (`RulesForGates`), and gates stand on certificates and closures, which have
  base statuses: `CertificateValue`, `ClosureValue`, `DischargeValue`,
  `DischargedValue`, `OpenChallengeValue`, `ClearValue`, one on the other, give
  `GatesAreTheProfile`.  `ClearFacesAreAnswered` combines it with the truth
  of the blocker inquiry.  `SourceAtomsAreDirect` reads the program at the level
  of the package's own atoms: each rule by way of its case, whose gates say
  whether it applies (`ApplicableIsGates`, `CaseValue`), each rebut by way of its
  open challenge.  `ReadingsBridge` is what the compiler owes: nothing else
  leads to one of these atoms (`RulesForOwn`).  `FoldingAgrees` does the rest,
  loops included.

**Bindings** (`BindingPipelineProofs`), for every set of captured responses, of
policies and of answers, on top of the two above.  Assumed in addition:
the targets of a policy are references and an answer's result is of the
enumeration (`CallerAssumption`: `RecordBinding` and `EvidenceAttestation`
check it).  `Binding` is the invariant: until a plan is bound the pipeline has not begun,
and from then on `package` is what `Finalize` makes of one draft, one plan and
the evidence, all past their gates, while `Piping` holds.  No plan made before
and no evidence given for another plan matters any more; what must be shown is
that the gates let only such evidence by:

* `TargetsNameRecords`: a plan gives every source of the draft a target of its
  own, never a reserved or malformed one; `TasksOfRules`: each rule has one task,
  and each task one rule, because extraction linked rules and requests
  (`ExtractionLinks`).
* `EvidenceAnswersTasks`: the gates for missing, doubled, foreign and misdirected
  evidence together make answers and tasks one to one, `AnswersMeetRules`
  answers and rules.  Hence `CertificatesAreAnswers`, and by counting
  `AnswersAreNotChosen`.
* `RecordsHaveSources`, `FinalizedNames`, `FinalizedLookup`: a reference of the
  package finds the record of its source; `OriginFound` is the way back, hence
  `OriginsLeadBack`.
* `FinalizedFindings` goes through all methods of the validator and leaves the
  three codes of `BindingIsAdmissible`.
* `LiveAtomHasALiveRule`: a live atom of a compiled package without a base has a
  rule with a live certificate and live premises, hence
  `LiveAtomsHaveAttestations`.

**The exchange** (`OllamaExchangeProofs`), for every set of requests, keys,
answers and encodings and every limit.  Assumed: limits are natural numbers; a
request names one of the two endpoints (`RequestsAssumption`); bodies are
sequences of bytes with a status (`OllamaHttpAssumption`); a scalar text has an
encoding in UTF-8, no longer than the JSON string it was read from
(`Utf8Assumption`); and the adapter's body limit is within the extractor's
response limit (`LimitAssumption`: the two constants are equal).  The invariant has
five parts, one for each thing that must be remembered over a step:

* `Closing`: what is open at each stage, and from where an exception escapes;
* `Copying`: the transport's request is made of the copy, and what the
  transport holds is that request, with a key if and only if it goes to the
  cloud;
* `Asking`: at most one request leaves, not before its step, and it asks what
  the copy says; no answer comes before;
* `Reading`: when nothing failed, status and body are what the read limit lets
  through of the answer;
* `Deciding`: nothing is decided before the last step, and nothing overlong is
  captured.

From `Closing` follows `OpenedIsClosed`; from `Reading`, that a captured body is
all of what was served (`WholeBody`, `Judgement`), and so
`OverlongIsNeverCaptured`; from all of it, that every step of the exchange is a
step of `GenerationAttempt` or a stutter (`ExchangesAreAttempts`).  The step
that needs all of it is the capture: the question is taken from the copy, and
the abstract one from what left.

`Keeping` adds that the copy has passed the request check since it was made and
that what was decided is kept.  `AcceptedAnswersAreNotLost` then needs that the
fields `_shape_issues` reads are values the JSON checks have looked at.  The
values of a text are defined level by level (`Layers`), so this needs an
induction over the levels (`LayersExist` and `TopLayers` of `TextScanProofs`,
`FieldIsScalar`).

**Extraction** (`DraftExtractProofs`), for every set of documents: an envelope
without issues has a linked draft (`ExtractionLinks`), so every draft of a
session is (`SessionsYieldLinkedDrafts`).  The argument the code leaves
implicit: a rule's request exists (reference gate), it has one user (linkage
gate), so this rule is that user and the request asks about it.

The reverse, and what else a text must be, is `ExtractionIsAlwaysExact`: what
becomes a draft is exactly what `DraftGrammar` describes, and the draft has a
record for each of the text.  Assumed: the parser gives lists that are
sequences and integers without leading zeros (`DocumentAssumption`); contents
are sequences (`DraftSessionAssumption`); the field names and the schema are
plain text and the depth limit is at least the grammar's five levels
(`DraftGrammarAssumption`: the limit is 64).  Each gate is compared with the
part of the grammar it stands for:

* *Any JSON text.*  The values of a text that is not too deep are closed under
  looking into them (`ComponentsAreClosed`), so what the gates on characters and
  on keys say of the values holds wherever a later gate looks
  (`DocumentsAreClosed`).  The other way, a text of the grammar passes these
  three gates, since the grammar says for each of five levels what may stand
  there, and the last holds nothing (`TiersAreClean`, `DraftTextsAreParsed`).
* *Values and records* (`TextGates` to `ShapeGates`).  Issues are collected, and
  a gate on a field looks at it only if it is there; that all are there is the
  field gate's part.  The order of digits in `VersionGate` is that of integers
  by the section on text below.
* *References.*  The code compares identities by value, the grammar by text;
  without leading zeros they agree (`DigitsOfValue`, `SameIdentity`).
  `_record_collection` compares only records that have an identity, which all
  have when none is refused (`RepeatedGate`).
* *Links.*  The gates say that each request has one user, which it asks
  about, and that nothing dangles.  The grammar asks for a bijection of rules and
  requests; `LinksAreBijections` makes one from the other.
* `RootGates` puts these together and `ExtractGates` adds the capture and block
  gates.  `SessionInv`, the inductive invariant of a session, keeps that a
  replaced prompt, response or digest leaves an envelope well formed, and that the
  outcome is that of the envelope; whether the contents still have their digests is
  left to the first gate.

**Text** (`TextScanProofs`).  The depth scanners, for every limit: both are typed,
and agree, because the adapter's flag is the parity of the extractor's count
while inside a string.  Versions, for every integer and every greatest version:
the value of a text is followed a digit at a time (`PrefixValues`), what is ahead
stays ahead whatever digits follow (`AheadStaysAhead`), so texts of one length
are ordered as their values are (`TextOrderIsNumeric`, `NotAfterIsAtMost`) and one
that is longer, without a leading zero, is greater (`LongerIsGreater`):
`VersionsAreDecidedByText`.

Blocks, for every response (`BlockIsAlwaysTheLinesBetween`).  The lines are folded a
token at a time (`PrefixLines`), and they tile the text: each starts behind the
newline that ends the one before it (`LinesTile`, by induction over the prefixes), and
a line starts wherever a newline has just been (`LineAfterNewline`).  A marker
found by its position is therefore a line of one token (`OpenersAreLines`,
`ClosersAreLines`), and positions and line numbers go in step, so one set has a
single member exactly when the other has (`SinglesMatch`).  The payload is what joining the
lines between gives (`JoinedSpan`), and the markers stand in order exactly when
there is such a line (`LineBetween`): markers that share their newline have none.

Only model-checked: liveness (`EveryExchangeEnds`, `EveryPackageIsAnswered` and
the evaluator's `Terminates`), which is beyond the prover.

*Induction.*  The induction theorems of the library take an operator, which the
provers cannot instantiate; `WFMin` takes a set, and with
`NatLessThanWellFounded` gives `NatFromZero` and `LeastNatural`.  These show that a
recursive function exists (`LayersExist`, `FoldExists`) and what it computes; a fold
is expanded to the function it recurs by (`Unfold`).

*Parentheses.*  `tlapm` reads `UNION A \cup B` as `UNION (A \cup B)`
and SANY reads it as `(UNION A) \cup B`, so the modules write the parentheses.

## 6. A disagreement with the docs

`src/README.md:108` says that blocker and discharge closures retain their exact
owner scope.  The validator reports a scope that names another record only when
that record is of a kind the field may name in the core profile
(`validate.py:671`, `1108`), and otherwise counts on a reference issue.  A
supplied closure contract may allow the field further kinds; then no issue is
raised, and a PASS closure about another record guards the face.  Run
`supplied_closure_scope` finds such a package; for code-owned contracts the
statement holds (`LocalInquiriesAskTheirOwner`).

## 7. What is not modelled

* Of extraction: the pointers and details of issues, and the depth of a text
  that is not JSON.
* Of capture: the public parameters, and the checks of text in `AttemptRef`;
  an attempt is one that was constructed.
* Of the exchange: how the request body spells strings, the headers that do not
  depend on the request, and transports other than the HTTP one.  A custom
  transport can raise or return anything; the adapter treats what it returns
  as it treats the HTTP transport's.
* Construction errors of registry and package records, hashing, the spelling of
  generated references, and the diagnostics' text and order.  They are checks
  of one value against a type or a constant, with no state between them.
* `__init__` modules re-export only.

## 8. Plan

Done, in this order: the evaluator with its yardstick, refinement and proofs;
admission, compilation and the pipeline; draft binding and its session;
extraction with its text scans and depth scanners; the exchange with its
refinement and proofs; the binding session on captured responses; the proofs
about packages, about bindings, about texts and about extraction.  Every safety
property the passing runs check is now a theorem as well.  What could be added:
the construction errors of registry and package records, and the code a text
that is not JSON is refused with.
