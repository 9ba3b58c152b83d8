----------------------------- MODULE PffPipeline -----------------------------
(***************************************************************************)
(* The path of one package: validate_package, compile_package and evaluate *)
(* (GroundEvaluate, step by step), with the statuses the evaluation gives  *)
(* compared with what the records of the package say.                      *)
(***************************************************************************)
EXTENDS PffCompile

VARIABLES
  pc, live, excluded, next_live, unfounded, suspended, error  \* of GroundEvaluate

evaluateVars == <<pc, live, excluded, next_live, unfounded, suspended, error>>

Evaluator ==
  INSTANCE GroundEvaluate WITH Atom <- AtomRole \X Ref, RuleId <- RuleRole \X Ref,
                               Programs <- {}

PipelineInit ==
  /\ CompileInit
  /\ pc = "construct"
  /\ live = {} /\ excluded = {} /\ next_live = {} /\ unfounded = {} /\ suspended = {}
  /\ error = Evaluator!NoError

Admit == CompileNext /\ UNCHANGED evaluateVars

(* Only a Compilation carries a program to evaluate.                       *)
Evaluate ==
  /\ stage = "compiled"
  /\ Evaluator!Next
  /\ UNCHANGED <<validateVars, stage, builder, deferred>>

PackageAnswered ==
  phase = "refused" \/ stage \in {"deferred", "asserted"} \/ Evaluator!Terminated

Rest ==
  /\ PackageAnswered
  /\ UNCHANGED <<validateVars, compileVars, evaluateVars>>

PipelineNext ==
  \/ Admit
  \/ Evaluate
  \/ Rest

PipelineVars == <<validateVars, compileVars, evaluateVars>>

PipelineSpec == PipelineInit /\ [][PipelineNext]_PipelineVars

(* Three plain calls, one after the other, in one thread.                  *)
FairPipelineSpec == PipelineSpec /\ WF_PipelineVars(PipelineNext)

-----------------------------------------------------------------------------
(* What the records say, in strong Kleene logic and without any rule: the  *)
(* semantic table of the challenge profile, for any number of challenges   *)
(* and discharges.                                                         *)

All(values) ==
  IF "EXCLUDED" \in values THEN "EXCLUDED"
  ELSE IF "SUSPENDED" \in values THEN "SUSPENDED" ELSE "LIVE"

Some(values) ==
  IF "LIVE" \in values THEN "LIVE"
  ELSE IF "SUSPENDED" \in values THEN "SUSPENDED" ELSE "EXCLUDED"

Not(value) ==
  [LIVE |-> "EXCLUDED", EXCLUDED |-> "LIVE", SUSPENDED |-> "SUSPENDED"][value]

RecordOf(collection, ref) == CHOOSE r \in collection : r.ref = ref

SaysCertificate(ref) ==
  [PASS |-> "LIVE", FAIL |-> "EXCLUDED", OPEN |-> "SUSPENDED"][
    RecordOf(package.certificates, ref).result]

SaysClosure(ref) ==
  [PASS |-> "LIVE", FAIL |-> "SUSPENDED", OPEN |-> "SUSPENDED"][
    RecordOf(package.closures, ref).result]

SaysDischarge(d) ==
  IF Compatible(RecordOf(package.challenges, d.challenge).kind, d.kind)
  THEN SaysCertificate(d.certificate) ELSE "EXCLUDED"

SaysDischarged(c) ==
  Some({SaysDischarge(d) : d \in {x \in package.discharges : x.challenge = c.ref}})

SaysOpenChallenge(c) ==
  All({SaysCertificate(c.certificate), SaysClosure(c.discharge_closure),
       Not(SaysDischarged(c))})

Blockers(f) ==
  {c \in package.challenges : c.kind # "rebut" /\ c.target = f.ref}

SaysClear(f) ==
  All({SaysClosure(f.blocker_closure),
       Not(Some({SaysOpenChallenge(c) : c \in Blockers(f)}))})

SaysApplicable(r) ==
  All({SaysCertificate(r.certificate)}
        \cup {SaysClear(RecordOf(package.faces, f)) : f \in r.faces}
        \cup {SaysClosure(n.closure) : n \in r.negative})

Status(role, ref) ==
  CASE <<role, ref>> \in live -> "LIVE"
    [] <<role, ref>> \in excluded -> "EXCLUDED"
    [] <<role, ref>> \in suspended -> "SUSPENDED"

Evaluated == stage = "compiled" /\ pc = "done"

(* The program the package means at the level of its own atoms: each rule  *)
(* and each rebut applies, does not, or hangs on something undecided.      *)
Undecided == <<"source-atom", NoRef>>

DirectRule(ref, head, positive, negative, says) ==
  [id |-> <<"rule-case", ref>>, head |-> <<"source-atom", head>>,
   positive |-> SourceAtoms(positive) \cup IF says = "SUSPENDED" THEN {Undecided} ELSE {},
   negative |-> SourceAtoms(negative)]

DirectProgram ==
  [atoms |-> SourceAtoms({a.ref : a \in package.atoms}) \cup {Undecided},
   rules |->
     {DirectRule(r.ref, r.head, r.positive, {n.atom : n \in r.negative}, SaysApplicable(r)) :
        r \in {x \in package.rules : SaysApplicable(x) # "EXCLUDED"}}
     \cup
     {DirectRule(c.ref, c.contrary_atom, {}, {}, SaysOpenChallenge(c)) :
        c \in {x \in package.challenges :
                 x.kind = "rebut" /\ SaysOpenChallenge(x) # "EXCLUDED"}},
   base_live |-> SourceAtoms(package.base.live),
   base_excluded |-> SourceAtoms(package.base.excluded),
   protected_open |-> SourceAtoms(package.base.open) \cup {Undecided}]

-----------------------------------------------------------------------------
(* An admitted and compiled package always evaluates: GroundProgram's      *)
(* constructor accepts it and no derived status contradicts its base.      *)
EvaluationNeverRaises == pc # "raised"

(* The gate atoms of faces, challenges and discharges get the statuses the *)
(* profile's table gives them, whatever the rules of the package do.       *)
GatesFollowTheProfile ==
  Evaluated =>
    /\ \A d \in package.discharges : Status("discharge-case", d.ref) = SaysDischarge(d)
    /\ \A c \in package.challenges :
         /\ Status("discharged", c.ref) = SaysDischarged(c)
         /\ Status("open-challenge", c.ref) = SaysOpenChallenge(c)
    /\ \A f \in package.faces : Status("clear", f.ref) = SaysClear(f)

(* The statuses of the package's own atoms are the well-founded partition  *)
(* of its rules with their gates read off, in particular through loops and *)
(* rebuts; generated atoms add nothing and a rebut leaves its target be.   *)
SourceAtomsMeanThePackage ==
  Evaluated =>
    /\ live \cap DirectProgram.atoms = Evaluator!WellFoundedLive(DirectProgram)
    /\ excluded \cap DirectProgram.atoms = Evaluator!WellFoundedExcluded(DirectProgram)

(* A face is clear only after an inquiry that listed every blocking        *)
(* challenge to it, and each of those failed or has a fitting discharge.   *)
(* The admission of the inquiry, its compilation and the evaluation must   *)
(* all be right for this.                                                  *)
ClearFaceHasNoUnansweredBlocker ==
  Evaluated =>
    \A f \in {x \in package.faces : <<"clear", x.ref>> \in live} :
      /\ \A q \in package.closures :
           (q.ref = f.blocker_closure /\ Registry.checkers[q.checker].local) =>
             {c.ref : c \in Blockers(f)} \subseteq q.members
      /\ \A c \in Blockers(f) :
           \/ SaysCertificate(c.certificate) = "EXCLUDED"
           \/ \E d \in package.discharges :
                /\ d.challenge = c.ref
                /\ Compatible(c.kind, d.kind)
                /\ SaysCertificate(d.certificate) = "LIVE"

(* Every package is answered: refused, deferred or evaluated.              *)
EveryPackageIsAnswered ==
  <>(phase = "refused" \/ stage = "deferred" \/ (stage = "compiled" /\ pc = "done"))
=============================================================================
