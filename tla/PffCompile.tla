----------------------------- MODULE PffCompile -----------------------------
(***************************************************************************)
(* compile_package of pff/compile.py, after validate_package has accepted  *)
(* the package: one action for the challenge preflight, one per _compile_  *)
(* function and one for build.                                             *)
(*                                                                         *)
(* A ground atom or rule reference is the pair of a role and the owning    *)
(* record's reference.  The code spells the pair as text; the spelling is  *)
(* injective and never ends like a source atom's, so pairs lose nothing.   *)
(***************************************************************************)
EXTENDS PffValidate

VARIABLES
  stage,     \* the function that runs next, or how the compilation ended
  builder,   \* the _CompilationBuilder
  deferred,  \* the issues of the PackageCompilationError raised
  program    \* the GroundProgram built

compileVars == <<stage, builder, deferred, program>>

AtomRole ==
  {"source-atom", "cert-valid", "cert-failed", "cert-open", "closure-ready",
   "closure-failed", "closure-open", "face", "has-open-challenge", "clear",
   "live-case", "challenge-case", "discharged", "open-challenge", "type-match",
   "discharge-case"}

RuleRole ==
  {"rule-case", "head-bridge", "clear-face", "challenge-case-rule",
   "discharge-case-rule", "discharged-bridge", "open-challenge-rule",
   "rebut-effect", "face-block-effect"}

Ground == INSTANCE GroundProgram WITH Atom <- AtomRole \X Ref, RuleId <- RuleRole \X Ref

-----------------------------------------------------------------------------
(* The challenges the compiler has no effect for.                          *)

FaceBlockingKinds ==
  {"undercut", "wound", "localisation_gap", "recovery_gap", "closure_gap"}

RuleTargetBlockingKinds == {"undercut", "wound"}

DeferredKinds == {"revoke", "currentness_gap", "defect"}

(* The first code that applies: kind first, then target.                   *)
DeferredCode(c) ==
  CASE c.kind = "revoke" -> "REVOCATION_SELECTION_UNSUPPORTED"
    [] c.kind = "currentness_gap" -> "CURRENTNESS_TARGET_UNSUPPORTED"
    [] c.kind = "defect" -> "PROBLEM_FACE_LIFECYCLE_UNSUPPORTED"
    [] c.kind \notin {"rebut"} \cup FaceBlockingKinds \cup DeferredKinds ->
         "CHALLENGE_EFFECT_UNSUPPORTED"
    [] c.kind \in RuleTargetBlockingKinds /\ c.target_kind = "RULE" ->
         "RULE_TARGET_BLOCKING_UNSUPPORTED"
    [] OTHER -> "NONE"

RuleTargetsPass(p) ==
  {<<DeferredCode(c), c.ref>> :
     c \in {x \in p.challenges : x.kind \notin {"rebut"} \cup FaceBlockingKinds}}

ChallengeFaults(p) ==
  {<<DeferredCode(c), c.ref>> : c \in {x \in p.challenges : DeferredCode(x) # "NONE"}}

-----------------------------------------------------------------------------
(* What one record adds to the ground program: atoms and rules it owns,    *)
(* and base statuses of its own atoms.  kind is the owner's, for origins.  *)

Owned(roles, ref) == {<<role, ref>> : role \in roles}

GroundRule(role, ref, head, positive, negative) ==
  [id |-> <<role, ref>>, head |-> head, positive |-> positive, negative |-> negative]

Emission(kind, atoms, rules, live, excluded, open) ==
  [kind |-> kind, atoms |-> atoms, rules |-> rules,
   live |-> live, excluded |-> excluded, open |-> open]

Emitted(kind, emissions) ==
  Emission(kind,
           UNION {e.atoms : e \in emissions}, UNION {e.rules : e \in emissions},
           UNION {e.live : e \in emissions}, UNION {e.excluded : e \in emissions},
           UNION {e.open : e \in emissions})

SourceAtoms(refs) == {<<"source-atom", ref>> : ref \in refs}

SourceAtomEmission(p) ==
  Emission("ATOM", SourceAtoms({a.ref : a \in p.atoms}), {},
           SourceAtoms(p.base.live), SourceAtoms(p.base.excluded), SourceAtoms(p.base.open))

(* A failed certificate shows its case does not hold.                      *)
CertificateEmission(k) ==
  Emission("CERTIFICATE", Owned({"cert-valid", "cert-failed", "cert-open"}, k.ref), {},
    CASE k.result = "PASS" -> {<<"cert-valid", k.ref>>}
      [] k.result = "FAIL" -> {<<"cert-failed", k.ref>>}
      [] k.result = "OPEN" -> {<<"cert-open", k.ref>>},
    IF k.result = "FAIL" THEN {<<"cert-valid", k.ref>>} ELSE {},
    IF k.result = "OPEN" THEN {<<"cert-valid", k.ref>>} ELSE {})

ClosureFailureExcludes(c) ==
  Emission("CLOSURE", Owned({"closure-ready", "closure-failed", "closure-open"}, c.ref), {},
    CASE c.result = "PASS" -> {<<"closure-ready", c.ref>>}
      [] c.result = "FAIL" -> {<<"closure-failed", c.ref>>}
      [] c.result = "OPEN" -> {<<"closure-open", c.ref>>},
    IF c.result = "FAIL" THEN {<<"closure-ready", c.ref>>} ELSE {},
    IF c.result = "OPEN" THEN {<<"closure-ready", c.ref>>} ELSE {})

(* A failed closure shows nothing about what it asked: it stays open.      *)
ClosureEmission(c) ==
  Emission("CLOSURE", Owned({"closure-ready", "closure-failed", "closure-open"}, c.ref), {},
    CASE c.result = "PASS" -> {<<"closure-ready", c.ref>>}
      [] c.result = "FAIL" -> {<<"closure-failed", c.ref>>}
      [] c.result = "OPEN" -> {<<"closure-open", c.ref>>},
    {},
    IF c.result = "PASS" THEN {} ELSE {<<"closure-ready", c.ref>>})

ClearWithoutInquiry(f) ==
  GroundRule("clear-face", f.ref, <<"clear", f.ref>>,
             {<<"face", f.ref>>}, {<<"has-open-challenge", f.ref>>})

ClearFace(f) ==
  GroundRule("clear-face", f.ref, <<"clear", f.ref>>,
             {<<"face", f.ref>>, <<"closure-ready", f.blocker_closure>>},
             {<<"has-open-challenge", f.ref>>})

FaceEmission(f) ==
  Emission("FACE", Owned({"face", "has-open-challenge", "clear"}, f.ref), {ClearFace(f)},
           {<<"face", f.ref>>}, {}, {})

RuleCaseWithUnclosedNegatives(r) ==
  GroundRule("rule-case", r.ref, <<"live-case", r.ref>>,
             {<<"cert-valid", r.certificate>>} \cup SourceAtoms(r.positive)
               \cup {<<"clear", f>> : f \in r.faces},
             SourceAtoms({n.atom : n \in r.negative}))

(* The rule's own conditions and, for each negative literal, that the      *)
(* inquiry into its absence is ready.                                      *)
RuleCase(r) ==
  GroundRule("rule-case", r.ref, <<"live-case", r.ref>>,
             {<<"cert-valid", r.certificate>>} \cup SourceAtoms(r.positive)
               \cup {<<"clear", f>> : f \in r.faces}
               \cup {<<"closure-ready", n.closure>> : n \in r.negative},
             SourceAtoms({n.atom : n \in r.negative}))

RuleEmission(r) ==
  Emission("RULE", {<<"live-case", r.ref>>},
           {RuleCase(r),
            GroundRule("head-bridge", r.ref, <<"source-atom", r.head>>,
                       {<<"live-case", r.ref>>}, {})},
           {}, {}, {})

(* A rebut derives its contrary atom; a blocking challenge stains the face.*)
EffectRule(c) ==
  IF c.kind = "rebut"
  THEN GroundRule("rebut-effect", c.ref, <<"source-atom", c.contrary_atom>>,
                  {<<"open-challenge", c.ref>>}, {})
  ELSE GroundRule("face-block-effect", c.ref, <<"has-open-challenge", c.target>>,
                  {<<"open-challenge", c.ref>>}, {})

ChallengeEmission(c) ==
  Emission("CHALLENGE", Owned({"challenge-case", "discharged", "open-challenge"}, c.ref),
           {GroundRule("challenge-case-rule", c.ref, <<"challenge-case", c.ref>>,
                       {<<"cert-valid", c.certificate>>}, {}),
            GroundRule("open-challenge-rule", c.ref, <<"open-challenge", c.ref>>,
                       {<<"challenge-case", c.ref>>,
                        <<"closure-ready", c.discharge_closure>>},
                       {<<"discharged", c.ref>>}),
            EffectRule(c)},
           {}, {}, {})

Challenged(p, d) == CHOOSE c \in Lookup(p, d.challenge, {"CHALLENGE"}) : TRUE

DischargeEmission(p, d) ==
  LET matches == Compatible(Challenged(p, d).kind, d.kind)
      match == {<<"type-match", d.ref>>}
  IN  Emission("DISCHARGE", Owned({"type-match", "discharge-case"}, d.ref),
               {GroundRule("discharge-case-rule", d.ref, <<"discharge-case", d.ref>>,
                           {<<"cert-valid", d.certificate>>, <<"type-match", d.ref>>}, {}),
                GroundRule("discharged-bridge", d.ref, <<"discharged", d.challenge>>,
                           {<<"discharge-case", d.ref>>}, {})},
               IF matches THEN match ELSE {}, IF matches THEN {} ELSE match, {})

-----------------------------------------------------------------------------
(* _CompilationBuilder                                                     *)

EmptyBuilder ==
  [atoms |-> {}, rules |-> {}, origins |-> {},
   live |-> {}, excluded |-> {}, open |-> {}, contraries |-> {}]

OriginsOf(e) ==
  {[artifact |-> "atom", ref |-> a, source |-> <<e.kind, a[2]>>] : a \in e.atoms}
    \cup {[artifact |-> "rule", ref |-> r.id, source |-> <<e.kind, r.id[2]>>] : r \in e.rules}

Absorb(b, e) ==
  [b EXCEPT !.atoms = @ \cup e.atoms, !.rules = @ \cup e.rules,
            !.origins = @ \cup OriginsOf(e), !.live = @ \cup e.live,
            !.excluded = @ \cup e.excluded, !.open = @ \cup e.open]

(* The assertions of add_atom, add_rule and _place.                        *)
AtomIdentityCollision(b, e) ==
  \E old \in b.origins \cup OriginsOf(e), new \in OriginsOf(e) :
     old.artifact = new.artifact /\ old.ref = new.ref /\ old # new

RuleIdentityCollision(b, e) ==
  \E new \in e.rules :
     \/ \E old \in b.rules : old.id = new.id
     \/ \E other \in e.rules : other.id = new.id /\ other # new

PlacedOutsideUniverse(b, e) ==
  ~ (e.live \cup e.excluded \cup e.open \subseteq b.atoms \cup e.atoms)

OverlappingPartitions(b, e) ==
  LET after == Absorb(b, e)
  IN  \/ after.live \cap after.excluded # {}
      \/ after.live \cap after.open # {}
      \/ after.excluded \cap after.open # {}

Asserts(b, e) ==
  \/ AtomIdentityCollision(b, e)
  \/ RuleIdentityCollision(b, e)
  \/ PlacedOutsideUniverse(b, e)
  \/ OverlappingPartitions(b, e)

ProgramOf(b) ==
  [atoms |-> b.atoms, rules |-> b.rules,
   base_live |-> b.live, base_excluded |-> b.excluded, protected_open |-> b.open]

NoProgram == ProgramOf(EmptyBuilder)

(* Compilation.__post_init__: one origin for each artifact, and no other.  *)
OriginsCoverArtifacts(b) ==
  /\ {<<o.artifact, o.ref>> : o \in b.origins} =
       {<<"atom", a>> : a \in b.atoms} \cup {<<"rule", r.id>> : r \in b.rules}
  /\ \A o, q \in b.origins : o.artifact = q.artifact /\ o.ref = q.ref => o = q

ContrariesAreGround(b) == \A pair \in b.contraries : pair \subseteq b.atoms

-----------------------------------------------------------------------------
CompileInit ==
  /\ ValidateInit
  /\ stage = "preflight"
  /\ builder = EmptyBuilder
  /\ deferred = {}
  /\ program = NoProgram

(* Deferred effects are reported before any builder exists.                *)
Preflight ==
  /\ phase = "accepted" /\ stage = "preflight"
  /\ deferred' = ChallengeFaults(package)
  /\ stage' = IF deferred' = {} THEN "atoms" ELSE "deferred"
  /\ UNCHANGED <<validateVars, builder, program>>

(* A failed assertion ends the compilation.                                *)
Function(at, next, emission) ==
  /\ stage = at
  /\ builder' = Absorb(builder, emission)
  /\ stage' = IF Asserts(builder, emission) THEN "asserted" ELSE next
  /\ UNCHANGED <<validateVars, deferred, program>>

CompileSourceAtoms == Function("atoms", "certificates", SourceAtomEmission(package))

CompileCertificates ==
  Function("certificates", "closures",
           Emitted("CERTIFICATE", {CertificateEmission(k) : k \in package.certificates}))

CompileClosures ==
  Function("closures", "faces",
           Emitted("CLOSURE", {ClosureEmission(c) : c \in package.closures}))

CompileFaces ==
  Function("faces", "contraries",
           Emitted("FACE", {FaceEmission(f) : f \in package.faces}))

CompileContraries ==
  /\ stage = "contraries"
  /\ builder' = [builder EXCEPT !.contraries =
                   {SourceAtoms({x.left, x.right}) : x \in package.contraries}]
  /\ stage' = "rules"
  /\ UNCHANGED <<validateVars, deferred, program>>

CompileRules ==
  Function("rules", "challenges",
           Emitted("RULE", {RuleEmission(r) : r \in package.rules}))

CompileChallenges ==
  Function("challenges", "discharges",
           Emitted("CHALLENGE", {ChallengeEmission(c) : c \in package.challenges}))

CompileDischarges ==
  Function("discharges", "build",
           Emitted("DISCHARGE", {DischargeEmission(package, d) : d \in package.discharges}))

(* build: the constructors of GroundProgram and Compilation may object.    *)
Build ==
  /\ stage = "build"
  /\ program' = ProgramOf(builder)
  /\ stage' = IF /\ Ground!WellFormed(ProgramOf(builder))
                 /\ OriginsCoverArtifacts(builder)
                 /\ ContrariesAreGround(builder)
              THEN "compiled" ELSE "asserted"
  /\ UNCHANGED <<validateVars, builder, deferred>>

Compile ==
  \/ Preflight
  \/ CompileSourceAtoms
  \/ CompileCertificates
  \/ CompileClosures
  \/ CompileFaces
  \/ CompileContraries
  \/ CompileRules
  \/ CompileChallenges
  \/ CompileDischarges
  \/ Build

CompileNext ==
  \/ Validate /\ UNCHANGED compileVars
  \/ Compile

CompileSpec == CompileInit /\ [][CompileNext]_<<validateVars, compileVars>>

-----------------------------------------------------------------------------
(* Compilation is total on admitted packages: none of the builder's and    *)
(* constructors' assertions can fail, whatever validate_package let        *)
(* through, unless a challenge's effect is deferred.                       *)
CompilerNeverAsserts == stage # "asserted"

(* While it is built, the program only refers to atoms it has: no record   *)
(* is compiled before one it leans on, and no link of an admitted package  *)
(* leads to an atom nobody emits.                                          *)
RulesStayInUniverse ==
  \A r \in builder.rules : {r.head} \cup r.positive \cup r.negative \subseteq builder.atoms

(* An atom has a base status or rules, never both, so evaluation can never *)
(* contradict what certificates, discharges and the package's base say.    *)
BaseStatusesAreNotDerived ==
  {r.head : r \in builder.rules}
    \cap (builder.live \cup builder.excluded \cup builder.open) = {}
=============================================================================
