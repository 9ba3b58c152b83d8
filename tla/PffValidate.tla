----------------------------- MODULE PffValidate -----------------------------
(***************************************************************************)
(* validate_package of pff/validate.py.  Each record is judged by an       *)
(* operator that returns its issues, as pairs of a code and the record at  *)
(* fault; _Validator.run calls one validate_ method after another, one     *)
(* action each, and seals the package only if none of them found anything. *)
(*                                                                         *)
(* The registry named in the header is taken to be in the catalog: without *)
(* it the methods skip most checks, and the package is refused anyway.     *)
(***************************************************************************)
EXTENDS PffRegistry

CONSTANT Packages   \* the candidate packages

\* What the constructors of the records see to: every record has a RecordRef,
\* and the results of certificates and closures are of an enumeration.
ASSUME PackagesAssumption ==
  \A p \in Packages :
    /\ Recorded(p) \subseteq Ref
    /\ \A x \in p.certificates \cup p.closures : x.result \in CheckResult

VARIABLES
  package,   \* the argument of validate_package
  phase,     \* the method that runs next, or "accepted" or "refused"
  issues     \* the issues found so far

validateVars == <<package, phase, issues>>

-----------------------------------------------------------------------------
(* validate_header_and_identity                                            *)

IdentityIssuesWithoutDuplicates(p) ==
  When(~ p.header_fits, "HEADER", NoRef)
    \cup {<<"INVALID_REFERENCE", ref>> : ref \in Recorded(p) \cap MalformedRef}
    \cup {<<"RESERVED_ID", ref>> : ref \in Recorded(p) \cap ReservedRef}

IdentityIssues(p) ==
  When(~ p.header_fits, "HEADER", NoRef)
    \cup {<<"INVALID_REFERENCE", ref>> : ref \in Recorded(p) \cap MalformedRef}
    \cup {<<"RESERVED_ID", ref>> : ref \in Recorded(p) \cap ReservedRef}
    \cup {<<"DUPLICATE_RECORD", ref>> : ref \in DuplicateRefs(p)}

(* validate_atoms: arity, argument types, frame and grade are form_fits.   *)
AtomIssues(p, a) ==
  IF ~ KnownPredicate(a.predicate)
  THEN {<<"UNKNOWN_PREDICATE", a.ref>>}
  ELSE When(~ a.form_fits, "PREDICATE_FORM", a.ref)
         \cup When(a.primitive /\ ~ Registry.predicates[a.predicate].primitive_allowed,
                   "PRIMITIVE_FORBIDDEN", a.ref)

-----------------------------------------------------------------------------
(* The predicates that govern a record: its own, its head's, its owner's   *)
(* head's, its target's; none when a link on the way does not resolve.     *)

AtomsBehind(p, kind, r) ==
  CASE kind = "ATOM" -> {r}
    [] kind = "RULE" -> Lookup(p, r.head, {"ATOM"})
    [] kind = "FACE" ->
         UNION {Lookup(p, o.head, {"ATOM"}) : o \in Lookup(p, r.owner_rule, {"RULE"})}
    [] OTHER -> {}

PredicatesOf(atoms) ==
  {Registry.predicates[a.predicate] : a \in {x \in atoms : KnownPredicate(x.predicate)}}

PredicatesForTarget(p, kind, r) == PredicatesOf(AtomsBehind(p, kind, r))

PredicatesForChallenge(p, c) ==
  UNION {PredicatesForTarget(p, c.target_kind, t) :
           t \in Lookup(p, c.target, {c.target_kind})}

PredicatesForSubject(p, kind, r) ==
  CASE kind = "CHALLENGE" -> PredicatesForChallenge(p, r)
    [] kind = "DISCHARGE" ->
         UNION {PredicatesForChallenge(p, c) : c \in Lookup(p, r.challenge, {"CHALLENGE"})}
    [] OTHER -> PredicatesForTarget(p, kind, r)

-----------------------------------------------------------------------------
(* _selector_is_locally_supported: role checks are made only on a selector *)
(* that has no issue of its own coming.                                    *)
SelectorIsLocallySupported(p, closure) ==
  /\ KnownChecker(closure.checker)
  /\ LET contract == Registry.checkers[closure.checker]
         selector == closure.selector
     IN  /\ SelectorSupported(contract, selector)
         /\ \A f \in ReferenceFields(contract, selector) :
              Lookup(p, selector.where[f],
                     contract.selector_fields[<<selector.record_type, f>>]) # {}

RoleMismatchAllowingNarrower(p, closure, owner, record_type, field, nameable) ==
  /\ SelectorIsLocallySupported(p, closure)
  /\ \/ closure.selector.record_type # record_type
     \/ field \notin DOMAIN closure.selector.where
     \/ closure.selector.where[field] \notin Ref
     \/ /\ closure.selector.where[field] # owner
        /\ Lookup(p, closure.selector.where[field], nameable) # {}

(* A role closure must select exactly the records that point at its owner  *)
(* through field.  Another referent is a mismatch only if it is of a kind  *)
(* that field could name; otherwise the code counts on a reference issue.  *)
RoleMismatch(p, closure, owner, record_type, field, nameable) ==
  /\ SelectorIsLocallySupported(p, closure)
  /\ \/ closure.selector.record_type # record_type
     \/ DOMAIN closure.selector.where # {field}
     \/ closure.selector.where[field] \notin Ref
     \/ /\ closure.selector.where[field] # owner
        /\ Lookup(p, closure.selector.where[field], nameable) # {}

-----------------------------------------------------------------------------
(* validate_rules_and_faces                                                *)

CertificateLinkUnchecked(p, at, certificate) ==
  ReferenceIssues(p, at, certificate, {"CERTIFICATE"})

(* The certificate a record names must name the record as its subject.     *)
CertificateLinkIssues(p, at, certificate) ==
  ReferenceIssues(p, at, certificate, {"CERTIFICATE"})
    \cup When(\E k \in Resolve(p, certificate, {"CERTIFICATE"}) : k.subject # at,
              "CERTIFICATE_SUBJECT_MISMATCH", at)

HeadIssuesAllowingPrimitive(p, r) ==
  ReferenceIssues(p, r.ref, r.head, {"ATOM"})

HeadIssues(p, r) ==
  ReferenceIssues(p, r.ref, r.head, {"ATOM"})
    \cup When(\E a \in Resolve(p, r.head, {"ATOM"}) : a.primitive,
              "PRIMITIVE_HAS_DERIVATION", r.ref)

RuleIssues(p, r) ==
  HeadIssues(p, r)
    \cup (UNION {ReferenceIssues(p, r.ref, a, {"ATOM"}) : a \in r.positive})
    \cup (UNION {ReferenceIssues(p, r.ref, n.atom, {"ATOM"})
                  \cup ReferenceIssues(p, r.ref, n.closure, {"CLOSURE"}) : n \in r.negative})
    \cup CertificateLinkIssues(p, r.ref, r.certificate)
    \cup (UNION {ReferenceIssues(p, r.ref, f, {"FACE"}) : f \in r.faces})
    \cup When(\E f \in r.faces : \E face \in Resolve(p, f, {"FACE"}) : face.owner_rule # r.ref,
              "FACE_OWNER_MISMATCH", r.ref)

FaceKindIssues(p, f) ==
  IF f.kind \notin Registry.face_kinds
  THEN {<<"UNKNOWN_FACE_KIND", f.ref>>}
  ELSE When(\E o \in Resolve(p, f.owner_rule, {"RULE"}) :
              \E d \in PredicatesForTarget(p, "RULE", o) : f.kind \notin d.face_kinds,
            "FACE_KIND_FORBIDDEN", f.ref)

FaceIssues(p, f) ==
  ReferenceIssues(p, f.ref, f.owner_rule, {"RULE"})
    \cup ReferenceIssues(p, f.ref, f.blocker_closure, {"CLOSURE"})
    \cup When(\E c \in Resolve(p, f.blocker_closure, {"CLOSURE"}) :
                RoleMismatch(p, c, f.ref, "CHALLENGE", "target", {"ATOM", "RULE", "FACE"}),
              "CLOSURE_ROLE_MISMATCH", f.ref)
    \cup When(\E o \in Resolve(p, f.owner_rule, {"RULE"}) : f.ref \notin o.faces,
              "FACE_OWNER_MISMATCH", f.ref)
    \cup FaceKindIssues(p, f)

-----------------------------------------------------------------------------
(* validate_certificates_and_closures: details_fit stands for the payload  *)
(* hash, the detail fields and the records those name.                     *)

CertificateIssues(p, k) ==
  ReferenceIssues(p, k.ref, k.subject, RecordKind)
    \cup
      IF ~ KnownChecker(k.checker)
      THEN {<<"UNKNOWN_CHECKER", k.ref>>}
      ELSE LET permitted == Registry.checkers[k.checker].subject_kinds
               subjects == {e \in Bucket(p, k.subject) :
                              e[2] \in Resolve(p, k.subject, {e[1]})}
           IN  When(\E s \in subjects : s[1] \notin permitted,
                    "CHECKER_NOT_PERMITTED", k.ref)
                 \cup When(~ k.details_fit, "CHECKER_PAYLOAD", k.ref)
                 \cup When(\E s \in subjects : /\ s[1] \in {"RULE", "CHALLENGE", "DISCHARGE"}
                                               /\ s[2].certificate # k.ref,
                           "CERTIFICATE_SUBJECT_MISMATCH", k.ref)
                 \cup When(\E s \in subjects : \E d \in PredicatesForSubject(p, s[1], s[2]) :
                             k.checker \notin d.checkers,
                           "CHECKER_NOT_PERMITTED", k.ref)

(* Whether the checker may judge the closure, and whether its selector is  *)
(* one the contract supports; an unsupported selector may only be OPEN.    *)
ClosureCheckerIssues(p, c) ==
  IF ~ KnownChecker(c.checker)
  THEN {<<"UNKNOWN_CHECKER", c.ref>>}
  ELSE LET contract == Registry.checkers[c.checker]
       IN  IF "CLOSURE" \notin contract.uses
           THEN {<<"CHECKER_NOT_PERMITTED", c.ref>>}
           ELSE IF ~ SelectorSupported(contract, c.selector)
           THEN When(c.result # "OPEN",
                     IF c.selector.record_type \in contract.selector_kinds
                     THEN "CHECKER_PAYLOAD" ELSE "CHECKER_NOT_PERMITTED",
                     c.ref)
           ELSE UNION {ReferenceIssues(p, c.ref, c.selector.where[f],
                         contract.selector_fields[<<c.selector.record_type, f>>]) :
                         f \in ReferenceFields(contract, c.selector)}

MemberIssues(p, c) ==
  UNION {ReferenceIssues(p, c.ref, m, {c.selector.record_type}) : m \in c.members}

(* The frame policy of a closure checker; no other contract has one.       *)
ClosureFrameRefused(c) ==
  /\ KnownChecker(c.checker)
  /\ "CLOSURE" \in Registry.checkers[c.checker].uses
  /\ ~ c.frame_fits

(* The recomputed result is compared only where nothing else is wrong with *)
(* the closure: selector, its references, members, cut, frame, and no      *)
(* duplicate reference anywhere in the package.                            *)
ResultIsComparable(p, c) ==
  /\ KnownChecker(c.checker)
  /\ LET contract == Registry.checkers[c.checker]
     IN  /\ contract.local
         /\ SelectorSupported(contract, c.selector)
         /\ \A f \in ReferenceFields(contract, c.selector) :
              Resolve(p, c.selector.where[f],
                      contract.selector_fields[<<c.selector.record_type, f>>]) # {}
  /\ \A m \in c.members : Resolve(p, m, {c.selector.record_type}) # {}
  /\ c.cut_fits
  /\ ~ ClosureFrameRefused(c)
  /\ DuplicateRefs(p) = {}

ClosureIssues(p, c) ==
  ClosureCheckerIssues(p, c)
    \cup When(~ c.cut_fits, "CLOSURE_CUT_MISMATCH", c.ref)
    \cup When(ClosureFrameRefused(c), "CLOSURE_FRAME_MISMATCH", c.ref)
    \cup MemberIssues(p, c)
    \cup When(ResultIsComparable(p, c) /\ c.result # MaterialisedResult(p, c),
              "CLOSURE_RESULT_MISMATCH", c.ref)

-----------------------------------------------------------------------------
(* validate_contraries: both predicates must allow contraries, and the     *)
(* boundary and comparison keys of the two endpoints must agree.           *)
ContraryIssues(p, x) ==
  ReferenceIssues(p, x.ref, x.left, {"ATOM"})
    \cup ReferenceIssues(p, x.ref, x.right, {"ATOM"})
    \cup LET left == PredicatesOf(Resolve(p, x.left, {"ATOM"}))
             right == PredicatesOf(Resolve(p, x.right, {"ATOM"}))
         IN  IF left = {} \/ right = {}
             THEN {}
             ELSE IF \E d \in left \cup right : d.contrary_forbidden
             THEN {<<"CONTRARY_FORBIDDEN", x.ref>>}
             ELSE When(~ x.boundary_fits, "CONTRARY_BOUNDARY_MISMATCH", x.ref)

-----------------------------------------------------------------------------
(* validate_challenges_and_discharges                                      *)

AllowedTargetsUnnarrowed(c) == GeneralTargets

AllowedTargets(c) ==
  IF c.kind \in Registry.challenge_kinds
  THEN Registry.targets[c.kind].kinds
  ELSE GeneralTargets

(* The target must be of an allowed kind, resolve to it, and be a face of  *)
(* the kind the challenge is about when it is about one.                   *)
TargetIssues(p, c) ==
  IF c.target_kind \notin AllowedTargets(c)
  THEN {<<"CHALLENGE_TARGET_KIND", c.ref>>}
  ELSE ReferenceIssues(p, c.ref, c.target, {c.target_kind})
         \cup When(/\ c.kind \in Registry.challenge_kinds
                   /\ Registry.targets[c.kind].face_kind # AnyFaceKind
                   /\ \E f \in Resolve(p, c.target, {c.target_kind}) :
                        c.target_kind = "FACE" /\ f.kind # Registry.targets[c.kind].face_kind,
                  "CHALLENGE_TARGET_FACE_KIND", c.ref)

(* What the effect of a challenge needs beyond its target.                 *)
EffectIssues(p, c) ==
  (IF c.contrary_atom = NoRef
   THEN When(c.kind = "rebut", "REBUT_CONTRARY_REQUIRED", c.ref)
   ELSE ReferenceIssues(p, c.ref, c.contrary_atom, {"ATOM"})
          \cup When(/\ c.kind = "rebut" /\ c.kind \in Registry.challenge_kinds
                    /\ \E a \in Resolve(p, c.contrary_atom, {"ATOM"}) : a.primitive,
                    "PRIMITIVE_EFFECT_HEAD", c.ref))
    \cup
  (IF c.problem_face_atom = NoRef
   THEN When(c.kind = "defect", "DEFECT_PROBLEM_FACE_REQUIRED", c.ref)
   ELSE ReferenceIssues(p, c.ref, c.problem_face_atom, {"ATOM"}))

ChallengeIssues(p, c) ==
  When(c.kind \notin Registry.challenge_kinds, "UNKNOWN_CHALLENGE_KIND", c.ref)
    \cup TargetIssues(p, c)
    \cup CertificateLinkIssues(p, c.ref, c.certificate)
    \cup ReferenceIssues(p, c.ref, c.discharge_closure, {"CLOSURE"})
    \cup When(\E q \in Resolve(p, c.discharge_closure, {"CLOSURE"}) :
                RoleMismatch(p, q, c.ref, "DISCHARGE", "challenge", {"CHALLENGE"}),
              "CLOSURE_ROLE_MISMATCH", c.ref)
    \cup EffectIssues(p, c)
    \cup When(/\ c.kind \in Registry.challenge_kinds
              /\ c.target_kind \in AllowedTargets(c)
              /\ \E t \in Resolve(p, c.target, {c.target_kind}) :
                   \E d \in PredicatesForTarget(p, c.target_kind, t) :
                     c.kind \notin d.challenge_kinds,
              "CHALLENGE_FORBIDDEN", c.ref)

(* A known discharge kind that does not fit its challenge is no issue.     *)
DischargeIssues(p, d) ==
  ReferenceIssues(p, d.ref, d.challenge, {"CHALLENGE"})
    \cup CertificateLinkIssues(p, d.ref, d.certificate)
    \cup When(d.kind \notin Registry.discharge_kinds, "UNKNOWN_DISCHARGE_KIND", d.ref)

(* validate_base: primitives only, and each in at most one part.           *)
BaseOverlapOfSettled(p) == p.base.live \cap p.base.excluded

BaseOverlap(p) ==
  (p.base.live \cap p.base.excluded)
    \cup (p.base.live \cap p.base.open)
    \cup (p.base.excluded \cap p.base.open)

BaseMemberIssuesOfAnyAtom(p, ref) ==
  ReferenceIssues(p, NoRef, ref, {"ATOM"})

BaseMemberIssues(p, ref) ==
  ReferenceIssues(p, NoRef, ref, {"ATOM"})
    \cup When(\E a \in Resolve(p, ref, {"ATOM"}) : ~ a.primitive, "BASE_NONPRIMITIVE", ref)

BaseIssues(p) ==
  (UNION {BaseMemberIssues(p, ref) :
           ref \in p.base.live \cup p.base.excluded \cup p.base.open})
    \cup {<<"BASE_OVERLAP", ref>> : ref \in BaseOverlap(p)}

-----------------------------------------------------------------------------
(* _Validator.run                                                          *)

ValidateInit ==
  /\ package \in Packages
  /\ phase = "identity"
  /\ issues = {}

Method(at, next, found) ==
  /\ phase = at
  /\ issues' = issues \cup found
  /\ phase' = next
  /\ UNCHANGED package

ValidateHeaderAndIdentity == Method("identity", "atoms", IdentityIssues(package))

ValidateAtoms ==
  Method("atoms", "rules", UNION {AtomIssues(package, a) : a \in package.atoms})

ValidateRulesAndFaces ==
  Method("rules", "certificates",
         (UNION {RuleIssues(package, r) : r \in package.rules})
           \cup UNION {FaceIssues(package, f) : f \in package.faces})

ValidateCertificatesAndClosures ==
  Method("certificates", "contraries",
         (UNION {CertificateIssues(package, k) : k \in package.certificates})
           \cup UNION {ClosureIssues(package, c) : c \in package.closures})

ValidateContraries ==
  Method("contraries", "challenges",
         UNION {ContraryIssues(package, x) : x \in package.contraries})

ValidateChallengesAndDischarges ==
  Method("challenges", "base",
         (UNION {ChallengeIssues(package, c) : c \in package.challenges})
           \cup UNION {DischargeIssues(package, d) : d \in package.discharges})

ValidateBase == Method("base", "verdict", BaseIssues(package))

Accept ==
  /\ phase = "verdict" /\ issues = {}
  /\ phase' = "accepted"
  /\ UNCHANGED <<package, issues>>

Refuse ==
  /\ phase = "verdict" /\ issues # {}
  /\ phase' = "refused"
  /\ UNCHANGED <<package, issues>>

Validate ==
  \/ ValidateHeaderAndIdentity
  \/ ValidateAtoms
  \/ ValidateRulesAndFaces
  \/ ValidateCertificatesAndClosures
  \/ ValidateContraries
  \/ ValidateChallengesAndDischarges
  \/ ValidateBase
  \/ Accept
  \/ Refuse

Answered == phase \in {"accepted", "refused"} /\ UNCHANGED validateVars

ValidateSpec == ValidateInit /\ [][Validate \/ Answered]_validateVars

-----------------------------------------------------------------------------
(* Admission leaves no result of the code-owned selector to trust: every   *)
(* PASS lists exactly the records selected, every FAIL does not, and OPEN  *)
(* stands only for a selector nobody evaluates.  The comparison is skipped *)
(* where the closure has another fault, so this says that each skip is     *)
(* matched by an issue.                                                    *)
LocalClosuresAreTruthful ==
  phase = "accepted" =>
    \A c \in {x \in package.closures : Registry.checkers[x.checker].local} :
      CASE c.result = "PASS" -> c.members = Selected(package, c.selector)
        [] c.result = "FAIL" -> c.members # Selected(package, c.selector)
        [] c.result = "OPEN" -> ~ SelectorSupported(Registry.checkers[c.checker], c.selector)

(* In an accepted package rules, challenges and discharges own one         *)
(* certificate each and no other certificate judges them, and a rule lists *)
(* exactly the faces that name it, although each direction of both links   *)
(* is checked in a different method.                                       *)
OwnershipIsMutual ==
  phase = "accepted" =>
    /\ \A o \in package.rules \cup package.challenges \cup package.discharges :
         {k.ref : k \in {x \in package.certificates : x.subject = o.ref}} = {o.certificate}
    /\ \A r \in package.rules :
         r.faces = {f.ref : f \in {x \in package.faces : x.owner_rule = r.ref}}

(* The closure that guards a face asks for all challenges to that face and *)
(* for nothing else, and that of a challenge for all its discharges, when  *)
(* the checker is the code-owned one and the answer is not OPEN.           *)
Asks(closure, record_type, field, owner) ==
  /\ closure.selector.record_type = record_type
  /\ DOMAIN closure.selector.where = {field}
  /\ closure.selector.where[field] = owner

InquiriesAskTheirOwner(closures) ==
  /\ \A f \in package.faces : \A c \in closures :
       f.blocker_closure = c.ref => Asks(c, "CHALLENGE", "target", f.ref)
  /\ \A h \in package.challenges : \A c \in closures :
       h.discharge_closure = c.ref => Asks(c, "DISCHARGE", "challenge", h.ref)

LocalInquiriesAskTheirOwner ==
  phase = "accepted" =>
    InquiriesAskTheirOwner({c \in package.closures :
                              c.result # "OPEN" /\ Registry.checkers[c.checker].local})

(* README.md says that blocker and discharge closures retain their exact   *)
(* owner scope, whoever evaluates them.  A supplied contract may let the   *)
(* scoping field name other kinds of record, and then no issue is raised.  *)
EveryInquiryAsksItsOwner ==
  phase = "accepted" =>
    InquiriesAskTheirOwner({c \in package.closures : c.result # "OPEN"})

(* In an accepted package every reference finds exactly one record, of a   *)
(* kind its place calls for: a duplicated reference, on which a lookup     *)
(* silently finds nothing, never gets through.  The references a selector  *)
(* compares are followed where its contract supports the selector; of any  *)
(* other the answer can only be OPEN.  Those inside the details of a       *)
(* certificate are part of details_fit.                                    *)
Finds(ref, kinds) == \E r \in Lookup(package, ref, kinds) : Lookup(package, ref, kinds) = {r}

FindsIfGiven(ref, kinds) == ref # NoRef => Finds(ref, kinds)

SelectorFinds(contract, selector) ==
  SelectorSupported(contract, selector) =>
    \A f \in ReferenceFields(contract, selector) :
       Finds(selector.where[f], contract.selector_fields[<<selector.record_type, f>>])

ReferencesFindOneRecord ==
  phase = "accepted" =>
    /\ \A r \in package.rules :
         /\ Finds(r.head, {"ATOM"}) /\ Finds(r.certificate, {"CERTIFICATE"})
         /\ \A a \in r.positive : Finds(a, {"ATOM"})
         /\ \A n \in r.negative : Finds(n.atom, {"ATOM"}) /\ Finds(n.closure, {"CLOSURE"})
         /\ \A f \in r.faces : Finds(f, {"FACE"})
    /\ \A f \in package.faces :
         Finds(f.owner_rule, {"RULE"}) /\ Finds(f.blocker_closure, {"CLOSURE"})
    /\ \A k \in package.certificates : Finds(k.subject, RecordKind)
    /\ \A c \in package.closures :
         /\ SelectorFinds(Registry.checkers[c.checker], c.selector)
         /\ \A m \in c.members : Finds(m, {c.selector.record_type})
    /\ \A x \in package.contraries : Finds(x.left, {"ATOM"}) /\ Finds(x.right, {"ATOM"})
    /\ \A c \in package.challenges :
         /\ Finds(c.target, {c.target_kind}) /\ Finds(c.certificate, {"CERTIFICATE"})
         /\ Finds(c.discharge_closure, {"CLOSURE"})
         /\ FindsIfGiven(c.contrary_atom, {"ATOM"})
         /\ FindsIfGiven(c.problem_face_atom, {"ATOM"})
    /\ \A d \in package.discharges :
         Finds(d.challenge, {"CHALLENGE"}) /\ Finds(d.certificate, {"CERTIFICATE"})
    /\ \A ref \in package.base.live \cup package.base.excluded \cup package.base.open :
         Finds(ref, {"ATOM"})
=============================================================================
