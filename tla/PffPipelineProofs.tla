--------------------------- MODULE PffPipelineProofs ---------------------------
(***************************************************************************)
(* For every registry, every set of references and every set of candidate  *)
(* packages: what a package that validate_package accepts looks like, that *)
(* compile_package never trips over one, that its evaluation never raises, *)
(* and that the statuses of its gates are what its records say.            *)
(***************************************************************************)
EXTENDS PffPipeline, TLAPS

-----------------------------------------------------------------------------
(* Lookups.                                                                *)

LEMMA EmptyCup ==
  ASSUME NEW a, NEW b, a \cup b = {}
  PROVE  a = {} /\ b = {}
  OBVIOUS

LEMMA RaisedNone ==
  ASSUME NEW condition, NEW code, NEW at, When(condition, code, at) = {}
  PROVE  ~ condition
  BY DEF When

LEMMA RecordsByKind ==
  ASSUME NEW p
  PROVE  /\ Records(p, "ATOM") = p.atoms /\ Records(p, "RULE") = p.rules
         /\ Records(p, "FACE") = p.faces /\ Records(p, "CERTIFICATE") = p.certificates
         /\ Records(p, "CLOSURE") = p.closures /\ Records(p, "CONTRARY") = p.contraries
         /\ Records(p, "CHALLENGE") = p.challenges /\ Records(p, "DISCHARGE") = p.discharges
  BY DEF Records, Collection

(* Without duplicates, a record is all there is under its reference.       *)
LEMMA FiledAlone ==
  ASSUME NEW p, DuplicateRefs(p) = {}, NEW k \in RecordKind, NEW r \in Records(p, k)
  PROVE  Bucket(p, r.ref) = {<<k, r>>} /\ Unique(p, r.ref)
<1>1. r.ref \in Recorded(p)
  BY DEF Recorded
<1>2. Unique(p, r.ref)
  BY <1>1 DEF DuplicateRefs
<1>3. <<k, r>> \in Bucket(p, r.ref)
  BY DEF Bucket
<1>4. PICK e \in Bucket(p, r.ref) : Bucket(p, r.ref) = {e}
  BY <1>2 DEF Unique
<1>5. e = <<k, r>>
  BY <1>3, <1>4
<1> QED
  BY <1>2, <1>4, <1>5

LEMMA LookupOfRecord ==
  ASSUME NEW p, DuplicateRefs(p) = {}, NEW k \in RecordKind, NEW r \in Records(p, k),
         NEW kinds, k \in kinds
  PROVE  Lookup(p, r.ref, kinds) = {r}
<1>1. Bucket(p, r.ref) = {<<k, r>>} /\ Unique(p, r.ref)
  BY FiledAlone
<1>2. {x \in Bucket(p, r.ref) : Unique(p, r.ref) /\ x[1] \in kinds} = {<<k, r>>}
  BY <1>1
<1>3. r \in Lookup(p, r.ref, kinds)
  <2>1. <<k, r>>[2] = r
    OBVIOUS
  <2> QED
    BY <1>2, <2>1 DEF Lookup
<1>4. \A s \in Lookup(p, r.ref, kinds) : s = r
  BY <1>2 DEF Lookup
<1> QED
  BY <1>3, <1>4

(* A record found is in the collection of one of the kinds asked for.      *)
LEMMA LookupFinds ==
  ASSUME NEW p, NEW ref, NEW kinds, NEW r \in Lookup(p, ref, kinds)
  PROVE  \E k \in kinds \cap RecordKind : r \in Records(p, k) /\ r.ref = ref
  BY DEF Lookup, Bucket

(* Two records of a package are told apart by their references.            *)
LEMMA OneRecordPerRef ==
  ASSUME NEW p, DuplicateRefs(p) = {},
         NEW k \in RecordKind, NEW r \in Records(p, k),
         NEW l \in RecordKind, NEW s \in Records(p, l), r.ref = s.ref
  PROVE  k = l /\ r = s
<1>1. Bucket(p, r.ref) = {<<k, r>>}
  BY FiledAlone
<1>2. Bucket(p, s.ref) = {<<l, s>>}
  BY FiledAlone
<1>3. <<k, r>> = <<l, s>>
  BY <1>1, <1>2
<1> QED
  BY <1>3

(* A link without an issue finds one record, of an expected kind.          *)
LEMMA LinkFinds ==
  ASSUME NEW p, DuplicateRefs(p) = {}, NEW at, NEW ref, NEW kinds,
         ReferenceIssues(p, at, ref, kinds) = {}
  PROVE  \E k \in kinds \cap RecordKind : \E r \in Records(p, k) :
            /\ r.ref = ref
            /\ Lookup(p, ref, kinds) = {r} /\ Resolve(p, ref, kinds) = {r}
<1>1. ref \notin MalformedRef
  BY DEF ReferenceIssues
<1>2. /\ When(Bucket(p, ref) = {}, "UNRESOLVED_REFERENCE", at) = {}
      /\ When(Unique(p, ref) /\ Lookup(p, ref, kinds) = {}, "REFERENCE_KIND_MISMATCH", at) = {}
  BY <1>1 DEF ReferenceIssues
<1>3. Bucket(p, ref) # {}
  BY <1>2 DEF When
<1>4. PICK l \in RecordKind : \E s \in Records(p, l) : s.ref = ref
  BY <1>3 DEF Bucket
<1>5. Unique(p, ref)
  BY <1>4, FiledAlone
<1>6. Lookup(p, ref, kinds) # {}
  BY <1>2, <1>5 DEF When
<1>7. PICK r \in Lookup(p, ref, kinds) : TRUE
  BY <1>6
<1>8. PICK k \in kinds \cap RecordKind : r \in Records(p, k) /\ r.ref = ref
  BY <1>7, LookupFinds
<1>9. Lookup(p, ref, kinds) = {r}
  BY <1>8, LookupOfRecord
<1> QED
  BY <1>1, <1>8, <1>9 DEF Resolve

(* Points: ref finds the record r of a kind, and nothing else.             *)
Links(p, ref, kind) == \E at : ReferenceIssues(p, at, ref, {kind}) = {}

Points(p, ref, kind, r) ==
  /\ r \in Records(p, kind) /\ r.ref = ref
  /\ Lookup(p, ref, {kind}) = {r} /\ Resolve(p, ref, {kind}) = {r}

LEMMA LinkPoints ==
  ASSUME NEW p, DuplicateRefs(p) = {}, NEW ref, NEW kind, Links(p, ref, kind)
  PROVE  \E r : Points(p, ref, kind, r)
<1>1. PICK at : ReferenceIssues(p, at, ref, {kind}) = {}
  BY DEF Links
<1>2. PICK kinds : kinds = {kind}
  OBVIOUS
<1>3. ReferenceIssues(p, at, ref, kinds) = {}
  BY <1>1, <1>2
<1>4. \E k \in kinds \cap RecordKind : \E r \in Records(p, k) :
        r.ref = ref /\ Lookup(p, ref, kinds) = {r} /\ Resolve(p, ref, kinds) = {r}
  BY <1>3, LinkFinds
<1>5. \E r \in Records(p, kind) :
        r.ref = ref /\ Lookup(p, ref, kinds) = {r} /\ Resolve(p, ref, kinds) = {r}
  BY <1>2, <1>4
<1> QED
  BY <1>2, <1>5 DEF Points

-----------------------------------------------------------------------------
(* Admission.  The issues are at any time all that the methods passed so   *)
(* far have to say of the package, and nothing else.                       *)

Methods ==
  {"identity", "atoms", "rules", "certificates", "contraries", "challenges", "base"}

Findings(p, method) ==
  CASE method = "identity" -> IdentityIssues(p)
    [] method = "atoms" -> UNION {AtomIssues(p, a) : a \in p.atoms}
    [] method = "rules" -> (UNION {RuleIssues(p, r) : r \in p.rules})
         \cup (UNION {FaceIssues(p, f) : f \in p.faces})
    [] method = "certificates" -> (UNION {CertificateIssues(p, k) : k \in p.certificates})
         \cup (UNION {ClosureIssues(p, c) : c \in p.closures})
    [] method = "contraries" -> UNION {ContraryIssues(p, x) : x \in p.contraries}
    [] method = "challenges" -> (UNION {ChallengeIssues(p, c) : c \in p.challenges})
         \cup (UNION {DischargeIssues(p, d) : d \in p.discharges})
    [] method = "base" -> BaseIssues(p)

Passed ==
  [identity |-> {}, atoms |-> {"identity"}, rules |-> {"identity", "atoms"},
   certificates |-> {"identity", "atoms", "rules"},
   contraries |-> {"identity", "atoms", "rules", "certificates"},
   challenges |-> {"identity", "atoms", "rules", "certificates", "contraries"},
   base |-> Methods \ {"base"},
   verdict |-> Methods, accepted |-> Methods, refused |-> Methods]

Reported ==
  /\ phase \in DOMAIN Passed
  /\ issues = UNION {Findings(package, m) : m \in Passed[phase]}
  /\ phase = "accepted" => issues = {}

Admitted(p) == \A m \in Methods : Findings(p, m) = {}

LEMMA MethodReports ==
  ASSUME Reported, NEW at \in DOMAIN Passed, NEW next \in DOMAIN Passed,
         Passed[next] = Passed[at] \cup {at}, next # "accepted",
         Method(at, next, Findings(package, at))
  PROVE  Reported'
<1>1. /\ phase = at /\ phase' = next /\ package' = package
      /\ issues' = issues \cup Findings(package, at)
  BY DEF Method
<1>2. issues' = UNION {Findings(package, m) : m \in Passed[next]}
  BY <1>1 DEF Reported
<1> QED
  BY <1>1, <1>2 DEF Reported

LEMMA ReportedInit == ValidateInit => Reported
  BY DEF ValidateInit, Reported, Passed

LEMMA ReportedStep ==
  ASSUME Reported, [Validate \/ Answered]_validateVars
  PROVE  Reported'
<1>1. CASE ValidateHeaderAndIdentity
  <2>1. Findings(package, "identity") = IdentityIssues(package)
    BY DEF Findings
  <2>2. Passed["atoms"] = Passed["identity"] \cup {"identity"}
    BY DEF Passed
  <2> QED
    BY <1>1, <2>1, <2>2, MethodReports DEF ValidateHeaderAndIdentity, Passed
<1>2. CASE ValidateAtoms
  <2>1. Findings(package, "atoms") = UNION {AtomIssues(package, a) : a \in package.atoms}
    BY DEF Findings
  <2>2. Passed["rules"] = Passed["atoms"] \cup {"atoms"}
    BY DEF Passed
  <2> QED
    BY <1>2, <2>1, <2>2, MethodReports DEF ValidateAtoms, Passed
<1>3. CASE ValidateRulesAndFaces
  <2>1. Findings(package, "rules") = (UNION {RuleIssues(package, r) : r \in package.rules})
                                    \cup (UNION {FaceIssues(package, f) : f \in package.faces})
    BY DEF Findings
  <2>2. Passed["certificates"] = Passed["rules"] \cup {"rules"}
    BY DEF Passed
  <2> QED
    BY <1>3, <2>1, <2>2, MethodReports DEF ValidateRulesAndFaces, Passed
<1>4. CASE ValidateCertificatesAndClosures
  <2>1. Findings(package, "certificates") = (UNION {CertificateIssues(package, k) : k \in package.certificates})
                                    \cup (UNION {ClosureIssues(package, c) : c \in package.closures})
    BY DEF Findings
  <2>2. Passed["contraries"] = Passed["certificates"] \cup {"certificates"}
    BY DEF Passed
  <2> QED
    BY <1>4, <2>1, <2>2, MethodReports DEF ValidateCertificatesAndClosures, Passed
<1>5. CASE ValidateContraries
  <2>1. Findings(package, "contraries") =
          UNION {ContraryIssues(package, x) : x \in package.contraries}
    BY DEF Findings
  <2>2. Passed["challenges"] = Passed["contraries"] \cup {"contraries"}
    BY DEF Passed
  <2> QED
    BY <1>5, <2>1, <2>2, MethodReports DEF ValidateContraries, Passed
<1>6. CASE ValidateChallengesAndDischarges
  <2>1. Findings(package, "challenges") = (UNION {ChallengeIssues(package, c) : c \in package.challenges})
                                    \cup (UNION {DischargeIssues(package, d) : d \in package.discharges})
    BY DEF Findings
  <2>2. Passed["base"] = Passed["challenges"] \cup {"challenges"}
    BY DEF Passed, Methods
  <2> QED
    BY <1>6, <2>1, <2>2, MethodReports DEF ValidateChallengesAndDischarges, Passed
<1>7. CASE ValidateBase
  <2>1. Findings(package, "base") = BaseIssues(package)
    BY DEF Findings
  <2>2. Passed["verdict"] = Passed["base"] \cup {"base"}
    BY DEF Passed, Methods
  <2> QED
    BY <1>7, <2>1, <2>2, MethodReports DEF ValidateBase, Passed
<1>8. CASE Accept \/ Refuse
  <2>1. /\ Passed["verdict"] = Methods
        /\ Passed["accepted"] = Methods /\ Passed["refused"] = Methods
    BY DEF Passed
  <2> QED
    BY <1>8, <2>1 DEF Accept, Refuse, Reported, Passed
<1>9. CASE UNCHANGED validateVars
  BY <1>9 DEF validateVars, Reported
<1> QED
  BY <1>1, <1>2, <1>3, <1>4, <1>5, <1>6, <1>7, <1>8, <1>9 DEF Validate, Answered

LEMMA AcceptedIsAdmitted ==
  ASSUME Reported, phase = "accepted"
  PROVE  Admitted(package)
<1>1. Passed["accepted"] = Methods
  BY DEF Passed
<1> QED
  BY <1>1 DEF Reported, Admitted

(* The methods, taken apart again.                                         *)
LEMMA AdmittedMeans ==
  ASSUME NEW p, Admitted(p)
  PROVE  /\ IdentityIssues(p) = {} /\ DuplicateRefs(p) = {}
         /\ \A a \in p.atoms : AtomIssues(p, a) = {}
         /\ \A r \in p.rules : RuleIssues(p, r) = {}
         /\ \A f \in p.faces : FaceIssues(p, f) = {}
         /\ \A k \in p.certificates : CertificateIssues(p, k) = {}
         /\ \A c \in p.closures : ClosureIssues(p, c) = {}
         /\ \A x \in p.contraries : ContraryIssues(p, x) = {}
         /\ \A c \in p.challenges : ChallengeIssues(p, c) = {}
         /\ \A d \in p.discharges : DischargeIssues(p, d) = {}
         /\ BaseIssues(p) = {}
<1>1. IdentityIssues(p) = {} /\ BaseIssues(p) = {}
  BY DEF Admitted, Methods, Findings
<1>2. DuplicateRefs(p) = {}
  BY <1>1 DEF IdentityIssues
<1>3. \A a \in p.atoms : AtomIssues(p, a) = {}
  <2>1. Findings(p, "atoms") = {}
    BY DEF Admitted, Methods
  <2> QED
    BY <2>1 DEF Findings
<1>4. /\ \A r \in p.rules : RuleIssues(p, r) = {}
      /\ \A f \in p.faces : FaceIssues(p, f) = {}
  BY DEF Admitted, Methods, Findings
<1>5. /\ \A k \in p.certificates : CertificateIssues(p, k) = {}
      /\ \A c \in p.closures : ClosureIssues(p, c) = {}
  BY DEF Admitted, Methods, Findings
<1>6. \A x \in p.contraries : ContraryIssues(p, x) = {}
  <2>1. Findings(p, "contraries") = {}
    BY DEF Admitted, Methods
  <2> QED
    BY <2>1 DEF Findings
<1>7. /\ \A c \in p.challenges : ChallengeIssues(p, c) = {}
      /\ \A d \in p.discharges : DischargeIssues(p, d) = {}
  BY DEF Admitted, Methods, Findings
<1> QED
  BY <1>1, <1>2, <1>3, <1>4, <1>5, <1>6, <1>7

(* The links of the records of an admitted package.                        *)
LEMMA RuleLinks ==
  ASSUME NEW p, Admitted(p), NEW r \in p.rules
  PROVE  /\ \E a : Points(p, r.head, "ATOM", a) /\ ~ a.primitive
         /\ \A b \in r.positive : \E a : Points(p, b, "ATOM", a)
         /\ \A n \in r.negative : \E a : Points(p, n.atom, "ATOM", a)
         /\ \A n \in r.negative : \E c : Points(p, n.closure, "CLOSURE", c)
         /\ \E k : Points(p, r.certificate, "CERTIFICATE", k) /\ k.subject = r.ref
         /\ \A f \in r.faces : \E face : Points(p, f, "FACE", face) /\ face.owner_rule = r.ref
<1>1. RuleIssues(p, r) = {} /\ DuplicateRefs(p) = {}
  BY AdmittedMeans
<1>2. /\ HeadIssues(p, r) = {}
      /\ CertificateLinkIssues(p, r.ref, r.certificate) = {}
      /\ When(\E f \in r.faces : \E face \in Resolve(p, f, {"FACE"}) : face.owner_rule # r.ref,
              "FACE_OWNER_MISMATCH", r.ref) = {}
  BY <1>1 DEF RuleIssues
<1>3. \E a : Points(p, r.head, "ATOM", a) /\ ~ a.primitive
  <2>1. /\ Links(p, r.head, "ATOM")
        /\ \A a \in Resolve(p, r.head, {"ATOM"}) : ~ a.primitive
    BY <1>2, RaisedNone DEF HeadIssues, Links
  <2>2. PICK a : Points(p, r.head, "ATOM", a)
    BY <1>1, <2>1, LinkPoints
  <2> QED
    BY <2>1, <2>2 DEF Points
<1>4. \A b \in r.positive : \E a : Points(p, b, "ATOM", a)
  <2>1. \A a \in r.positive : ReferenceIssues(p, r.ref, a, {"ATOM"}) = {}
    BY <1>1 DEF RuleIssues
  <2> QED
    BY <1>1, <2>1, LinkPoints DEF Links
<1>5. ASSUME NEW n \in r.negative
      PROVE  Links(p, n.atom, "ATOM") /\ Links(p, n.closure, "CLOSURE")
  <2>1. UNION {ReferenceIssues(p, r.ref, m.atom, {"ATOM"})
                 \cup ReferenceIssues(p, r.ref, m.closure, {"CLOSURE"}) : m \in r.negative} = {}
    BY <1>1 DEF RuleIssues
  <2>2. ReferenceIssues(p, r.ref, n.atom, {"ATOM"})
          \cup ReferenceIssues(p, r.ref, n.closure, {"CLOSURE"}) = {}
    BY <2>1
  <2> QED
    BY <2>2 DEF Links
<1>6. \E k : Points(p, r.certificate, "CERTIFICATE", k) /\ k.subject = r.ref
  <2>1. /\ Links(p, r.certificate, "CERTIFICATE")
        /\ \A k \in Resolve(p, r.certificate, {"CERTIFICATE"}) : k.subject = r.ref
    BY <1>2, RaisedNone DEF CertificateLinkIssues, Links
  <2>2. PICK k : Points(p, r.certificate, "CERTIFICATE", k)
    BY <1>1, <2>1, LinkPoints
  <2> QED
    BY <2>1, <2>2 DEF Points
<1>7. ASSUME NEW f \in r.faces
      PROVE  \E face : Points(p, f, "FACE", face) /\ face.owner_rule = r.ref
  <2>1. ReferenceIssues(p, r.ref, f, {"FACE"}) = {}
    BY <1>1 DEF RuleIssues
  <2>2. \A face \in Resolve(p, f, {"FACE"}) : face.owner_rule = r.ref
    BY <1>2, RaisedNone
  <2>3. PICK face : Points(p, f, "FACE", face)
    BY <1>1, <2>1, LinkPoints DEF Links
  <2> QED
    BY <2>2, <2>3 DEF Points
<1> QED
  BY <1>1, <1>3, <1>4, <1>5, <1>6, <1>7, LinkPoints

LEMMA FaceLinks ==
  ASSUME NEW p, Admitted(p), NEW f \in p.faces
  PROVE  /\ \E o : Points(p, f.owner_rule, "RULE", o) /\ f.ref \in o.faces
         /\ \E c : /\ Points(p, f.blocker_closure, "CLOSURE", c)
                   /\ ~ RoleMismatch(p, c, f.ref, "CHALLENGE", "target",
                                     {"ATOM", "RULE", "FACE"})
<1>1. FaceIssues(p, f) = {} /\ DuplicateRefs(p) = {}
  BY AdmittedMeans
<1>2. /\ ReferenceIssues(p, f.ref, f.owner_rule, {"RULE"}) = {}
      /\ ReferenceIssues(p, f.ref, f.blocker_closure, {"CLOSURE"}) = {}
      /\ When(\E c \in Resolve(p, f.blocker_closure, {"CLOSURE"}) :
                RoleMismatch(p, c, f.ref, "CHALLENGE", "target", {"ATOM", "RULE", "FACE"}),
              "CLOSURE_ROLE_MISMATCH", f.ref) = {}
      /\ When(\E o \in Resolve(p, f.owner_rule, {"RULE"}) : f.ref \notin o.faces,
              "FACE_OWNER_MISMATCH", f.ref) = {}
  BY <1>1 DEF FaceIssues
<1>3. PICK o : Points(p, f.owner_rule, "RULE", o)
  BY <1>1, <1>2, LinkPoints DEF Links
<1>4. PICK c : Points(p, f.blocker_closure, "CLOSURE", c)
  BY <1>1, <1>2, LinkPoints DEF Links
<1>5. f.ref \in o.faces
  BY <1>2, <1>3, RaisedNone DEF Points
<1>6. ~ RoleMismatch(p, c, f.ref, "CHALLENGE", "target", {"ATOM", "RULE", "FACE"})
  BY <1>2, <1>4, RaisedNone DEF Points
<1> QED
  BY <1>3, <1>4, <1>5, <1>6

LEMMA ChallengeLinks ==
  ASSUME NEW p, Admitted(p), NEW c \in p.challenges
  PROVE  /\ c.kind \in Registry.challenge_kinds
         /\ c.target_kind \in Registry.targets[c.kind].kinds
         /\ \E t : Points(p, c.target, c.target_kind, t)
         /\ \E k : Points(p, c.certificate, "CERTIFICATE", k) /\ k.subject = c.ref
         /\ \E q : /\ Points(p, c.discharge_closure, "CLOSURE", q)
                   /\ ~ RoleMismatch(p, q, c.ref, "DISCHARGE", "challenge", {"CHALLENGE"})
         /\ c.kind = "rebut" => \E a : Points(p, c.contrary_atom, "ATOM", a) /\ ~ a.primitive
<1>1. ChallengeIssues(p, c) = {} /\ DuplicateRefs(p) = {}
  BY AdmittedMeans
<1>2. /\ When(c.kind \notin Registry.challenge_kinds, "UNKNOWN_CHALLENGE_KIND", c.ref) = {}
      /\ TargetIssues(p, c) = {}
      /\ CertificateLinkIssues(p, c.ref, c.certificate) = {}
      /\ ReferenceIssues(p, c.ref, c.discharge_closure, {"CLOSURE"}) = {}
      /\ When(\E q \in Resolve(p, c.discharge_closure, {"CLOSURE"}) :
                RoleMismatch(p, q, c.ref, "DISCHARGE", "challenge", {"CHALLENGE"}),
              "CLOSURE_ROLE_MISMATCH", c.ref) = {}
      /\ EffectIssues(p, c) = {}
  BY <1>1 DEF ChallengeIssues
<1>3. c.kind \in Registry.challenge_kinds
  BY <1>2, RaisedNone
<1>4. /\ c.target_kind \in Registry.targets[c.kind].kinds
      /\ \E t : Points(p, c.target, c.target_kind, t)
  <2>1. /\ c.target_kind \in Registry.targets[c.kind].kinds
        /\ ReferenceIssues(p, c.ref, c.target, {c.target_kind}) = {}
    BY <1>2, <1>3 DEF TargetIssues, AllowedTargets
  <2> QED
    BY <1>1, <2>1, LinkPoints DEF Links
<1>5. \E k : Points(p, c.certificate, "CERTIFICATE", k) /\ k.subject = c.ref
  <2>1. /\ Links(p, c.certificate, "CERTIFICATE")
        /\ \A k \in Resolve(p, c.certificate, {"CERTIFICATE"}) : k.subject = c.ref
    BY <1>2, RaisedNone DEF CertificateLinkIssues, Links
  <2>2. PICK k : Points(p, c.certificate, "CERTIFICATE", k)
    BY <1>1, <2>1, LinkPoints
  <2> QED
    BY <2>1, <2>2 DEF Points
<1>6. \E q : /\ Points(p, c.discharge_closure, "CLOSURE", q)
             /\ ~ RoleMismatch(p, q, c.ref, "DISCHARGE", "challenge", {"CHALLENGE"})
  <2>1. PICK q : Points(p, c.discharge_closure, "CLOSURE", q)
    BY <1>1, <1>2, LinkPoints DEF Links
  <2> QED
    BY <1>2, <2>1, RaisedNone DEF Points
<1>7. ASSUME c.kind = "rebut"
      PROVE  \E a : Points(p, c.contrary_atom, "ATOM", a) /\ ~ a.primitive
  <2>1. c.contrary_atom # NoRef
    BY <1>2, <1>7 DEF EffectIssues, When
  <2>2. /\ ReferenceIssues(p, c.ref, c.contrary_atom, {"ATOM"}) = {}
        /\ When(/\ c.kind = "rebut" /\ c.kind \in Registry.challenge_kinds
                /\ \E a \in Resolve(p, c.contrary_atom, {"ATOM"}) : a.primitive,
                "PRIMITIVE_EFFECT_HEAD", c.ref) = {}
    BY <1>2, <2>1 DEF EffectIssues
  <2>3. PICK a : Points(p, c.contrary_atom, "ATOM", a)
    BY <1>1, <2>2, LinkPoints DEF Links
  <2>4. \A x \in Resolve(p, c.contrary_atom, {"ATOM"}) : ~ x.primitive
    BY <1>3, <1>7, <2>2, RaisedNone
  <2> QED
    BY <2>3, <2>4 DEF Points
<1> QED
  BY <1>3, <1>4, <1>5, <1>6, <1>7

LEMMA DischargeLinks ==
  ASSUME NEW p, Admitted(p), NEW d \in p.discharges
  PROVE  /\ \E c : Points(p, d.challenge, "CHALLENGE", c)
         /\ \E k : Points(p, d.certificate, "CERTIFICATE", k) /\ k.subject = d.ref
<1>1. DischargeIssues(p, d) = {} /\ DuplicateRefs(p) = {}
  BY AdmittedMeans
<1>2. /\ ReferenceIssues(p, d.ref, d.challenge, {"CHALLENGE"}) = {}
      /\ CertificateLinkIssues(p, d.ref, d.certificate) = {}
  BY <1>1 DEF DischargeIssues
<1>3. /\ Links(p, d.certificate, "CERTIFICATE")
      /\ \A k \in Resolve(p, d.certificate, {"CERTIFICATE"}) : k.subject = d.ref
  BY <1>2, RaisedNone DEF CertificateLinkIssues, Links
<1>4. PICK k : Points(p, d.certificate, "CERTIFICATE", k)
  BY <1>1, <1>3, LinkPoints
<1> QED
  BY <1>1, <1>2, <1>3, <1>4, LinkPoints DEF Links, Points

(* The converse direction of a certificate's link to its subject.          *)
LEMMA CertificateLinks ==
  ASSUME NEW p, Admitted(p), NEW k \in p.certificates,
         NEW kind \in {"RULE", "CHALLENGE", "DISCHARGE"}, NEW o \in Records(p, kind),
         k.subject = o.ref
  PROVE  o.certificate = k.ref
<1>1. CertificateIssues(p, k) = {} /\ DuplicateRefs(p) = {}
  BY AdmittedMeans
<1> DEFINE subjects == {e \in Bucket(p, k.subject) : e[2] \in Resolve(p, k.subject, {e[1]})}
<1>2. /\ ReferenceIssues(p, k.ref, k.subject, RecordKind) = {}
      /\ When(\E s \in subjects : /\ s[1] \in {"RULE", "CHALLENGE", "DISCHARGE"}
                                  /\ s[2].certificate # k.ref,
              "CERTIFICATE_SUBJECT_MISMATCH", k.ref) = {}
  BY <1>1 DEF CertificateIssues
<1>3. kind \in RecordKind
  BY DEF RecordKind
<1>4. <<kind, o>> \in subjects
  <2>1. Bucket(p, k.subject) = {<<kind, o>>}
    BY <1>1, <1>3, FiledAlone
  <2>2. Lookup(p, k.subject, {kind}) = {o}
    BY <1>1, <1>3, LookupOfRecord
  <2>3. k.subject \notin MalformedRef
    BY <1>2 DEF ReferenceIssues
  <2> QED
    BY <2>1, <2>2, <2>3 DEF Resolve
<1>5. ~ (\E s \in subjects : /\ s[1] \in {"RULE", "CHALLENGE", "DISCHARGE"}
                             /\ s[2].certificate # k.ref)
  BY <1>2, RaisedNone
<1> QED
  BY <1>4, <1>5

(* A link without an issue finds its record, whatever kinds it allows.     *)
LEMMA LinkIsFound ==
  ASSUME DuplicateRefs(package) = {}, NEW at, NEW ref, NEW kinds,
         ReferenceIssues(package, at, ref, kinds) = {}
  PROVE  Finds(ref, kinds)
<1>1. PICK k \in kinds \cap RecordKind : \E r \in Records(package, k) :
         Lookup(package, ref, kinds) = {r}
  BY LinkFinds
<1> QED
  BY <1>1 DEF Finds

(* The references a closure of an admitted package lists or selects by.    *)
LEMMA ClosureFinds ==
  ASSUME Admitted(package), NEW c \in package.closures
  PROVE  /\ SelectorFinds(Registry.checkers[c.checker], c.selector)
         /\ \A m \in c.members : Finds(m, {c.selector.record_type})
<1>1. ClosureIssues(package, c) = {} /\ DuplicateRefs(package) = {}
  BY AdmittedMeans
<1>2. ClosureCheckerIssues(package, c) = {} /\ MemberIssues(package, c) = {}
  BY <1>1 DEF ClosureIssues
<1>3. \A m \in c.members : ReferenceIssues(package, c.ref, m, {c.selector.record_type}) = {}
  BY <1>2 DEF MemberIssues
<1> DEFINE contract == Registry.checkers[c.checker]
           kindsOf(f) == contract.selector_fields[<<c.selector.record_type, f>>]
<1>4. ASSUME SelectorSupported(contract, c.selector),
             NEW f \in ReferenceFields(contract, c.selector)
      PROVE  Finds(c.selector.where[f], kindsOf(f))
  <2>1. KnownChecker(c.checker) /\ "CLOSURE" \in contract.uses
    BY <1>2 DEF ClosureCheckerIssues
  <2>2. UNION {ReferenceIssues(package, c.ref, c.selector.where[g], kindsOf(g)) :
                 g \in ReferenceFields(contract, c.selector)} = {}
    BY <1>2, <1>4, <2>1 DEF ClosureCheckerIssues
  <2>3. ReferenceIssues(package, c.ref, c.selector.where[f], kindsOf(f)) = {}
    BY <1>4, <2>2
  <2> QED
    BY <1>1, <2>3, LinkIsFound
<1> QED
  BY <1>1, <1>3, <1>4, LinkIsFound DEF SelectorFinds

(* ReferencesFindOneRecord, of any admitted package.                       *)
LEMMA AdmittedFindsOne ==
  ASSUME Admitted(package)
  PROVE  ReferencesFindOneRecord
<1>1. \A ref, kind, r : Points(package, ref, kind, r) => Finds(ref, {kind})
  BY DEF Points, Finds
<1>2. DuplicateRefs(package) = {}
  BY AdmittedMeans
<1>3. ASSUME NEW r \in package.rules
      PROVE  /\ Finds(r.head, {"ATOM"}) /\ Finds(r.certificate, {"CERTIFICATE"})
             /\ \A a \in r.positive : Finds(a, {"ATOM"})
             /\ \A n \in r.negative : Finds(n.atom, {"ATOM"}) /\ Finds(n.closure, {"CLOSURE"})
             /\ \A f \in r.faces : Finds(f, {"FACE"})
  BY <1>1, RuleLinks
<1>4. ASSUME NEW f \in package.faces
      PROVE  Finds(f.owner_rule, {"RULE"}) /\ Finds(f.blocker_closure, {"CLOSURE"})
  BY <1>1, FaceLinks
<1>5. ASSUME NEW k \in package.certificates
      PROVE  Finds(k.subject, RecordKind)
  <2>1. CertificateIssues(package, k) = {}
    BY AdmittedMeans
  <2>2. ReferenceIssues(package, k.ref, k.subject, RecordKind) = {}
    BY <2>1 DEF CertificateIssues
  <2> QED
    BY <1>2, <2>2, LinkIsFound
<1>6. ASSUME NEW c \in package.closures
      PROVE  /\ SelectorFinds(Registry.checkers[c.checker], c.selector)
             /\ \A m \in c.members : Finds(m, {c.selector.record_type})
  BY ClosureFinds
<1>7. ASSUME NEW x \in package.contraries
      PROVE  Finds(x.left, {"ATOM"}) /\ Finds(x.right, {"ATOM"})
  <2>1. ContraryIssues(package, x) = {}
    BY AdmittedMeans
  <2>2. /\ ReferenceIssues(package, x.ref, x.left, {"ATOM"}) = {}
        /\ ReferenceIssues(package, x.ref, x.right, {"ATOM"}) = {}
    BY <2>1 DEF ContraryIssues
  <2> QED
    BY <1>2, <2>2, LinkIsFound
<1>8. ASSUME NEW c \in package.challenges
      PROVE  /\ Finds(c.target, {c.target_kind}) /\ Finds(c.certificate, {"CERTIFICATE"})
             /\ Finds(c.discharge_closure, {"CLOSURE"})
             /\ FindsIfGiven(c.contrary_atom, {"ATOM"})
             /\ FindsIfGiven(c.problem_face_atom, {"ATOM"})
  <2>1. /\ Finds(c.target, {c.target_kind}) /\ Finds(c.certificate, {"CERTIFICATE"})
        /\ Finds(c.discharge_closure, {"CLOSURE"})
    BY <1>1, ChallengeLinks
  <2>2. ChallengeIssues(package, c) = {}
    BY AdmittedMeans
  <2>3. EffectIssues(package, c) = {}
    BY <2>2 DEF ChallengeIssues
  <2>4. c.contrary_atom # NoRef =>
          ReferenceIssues(package, c.ref, c.contrary_atom, {"ATOM"}) = {}
    BY <2>3 DEF EffectIssues
  <2>5. c.problem_face_atom # NoRef =>
          ReferenceIssues(package, c.ref, c.problem_face_atom, {"ATOM"}) = {}
    BY <2>3 DEF EffectIssues
  <2> QED
    BY <1>2, <2>1, <2>4, <2>5, LinkIsFound DEF FindsIfGiven
<1>9. ASSUME NEW d \in package.discharges
      PROVE  Finds(d.challenge, {"CHALLENGE"}) /\ Finds(d.certificate, {"CERTIFICATE"})
  BY <1>1, DischargeLinks
<1>10. ASSUME NEW ref \in package.base.live \cup package.base.excluded \cup package.base.open
       PROVE  Finds(ref, {"ATOM"})
  <2>1. BaseMemberIssues(package, ref) = {}
    BY AdmittedMeans DEF BaseIssues
  <2>2. ReferenceIssues(package, NoRef, ref, {"ATOM"}) = {}
    BY <2>1 DEF BaseMemberIssues
  <2> QED
    BY <1>2, <2>2, LinkIsFound
<1> QED
  BY <1>3, <1>4, <1>5, <1>6, <1>7, <1>8, <1>9, <1>10 DEF ReferencesFindOneRecord

(* OwnershipIsMutual, of any admitted package.                             *)
LEMMA AdmittedOwnsMutually ==
  ASSUME Admitted(package)
  PROVE  OwnershipIsMutual
<1>1. DuplicateRefs(package) = {}
  BY AdmittedMeans
<1>2. ASSUME NEW kind \in {"RULE", "CHALLENGE", "DISCHARGE"}, NEW o \in Records(package, kind)
      PROVE  {k.ref : k \in {x \in package.certificates : x.subject = o.ref}} = {o.certificate}
  <2>1. \/ o \in package.rules
        \/ o \in package.challenges
        \/ o \in package.discharges
    BY RecordsByKind
  <2>2. PICK k : Points(package, o.certificate, "CERTIFICATE", k) /\ k.subject = o.ref
    BY <2>1, RuleLinks, ChallengeLinks, DischargeLinks
  <2>3. k \in package.certificates /\ k.ref = o.certificate /\ k.subject = o.ref
    BY <2>2, RecordsByKind DEF Points
  <2>4. \A x \in package.certificates : x.subject = o.ref => x.ref = o.certificate
    BY CertificateLinks
  <2> QED
    BY <2>3, <2>4
<1>3. \A o \in package.rules \cup package.challenges \cup package.discharges :
         {k.ref : k \in {x \in package.certificates : x.subject = o.ref}} = {o.certificate}
  BY <1>2, RecordsByKind
<1>4. ASSUME NEW r \in package.rules
      PROVE  r.faces = {f.ref : f \in {x \in package.faces : x.owner_rule = r.ref}}
  <2>1. ASSUME NEW f \in r.faces
        PROVE  \E face \in package.faces : face.owner_rule = r.ref /\ face.ref = f
    BY RuleLinks, RecordsByKind DEF Points
  <2>2. ASSUME NEW face \in package.faces, face.owner_rule = r.ref
        PROVE  face.ref \in r.faces
    <3>1. PICK o : Points(package, face.owner_rule, "RULE", o) /\ face.ref \in o.faces
      BY FaceLinks
    <3>2. o \in package.rules /\ o.ref = r.ref
      BY <2>2, <3>1, RecordsByKind DEF Points
    <3>3. o = r
      BY <1>1, <3>2, OneRecordPerRef, RecordsByKind DEF RecordKind
    <3> QED
      BY <3>1, <3>3
  <2> QED
    BY <2>1, <2>2
<1> QED
  BY <1>3, <1>4 DEF OwnershipIsMutual

(* A closure of an admitted package with an answer of the code-owned       *)
(* selector: the selector is supported, whatever it refers to exists, and  *)
(* the answer is the recomputed one.                                       *)
LEMMA LocalClosureIsRecomputed ==
  ASSUME NEW p, Admitted(p), NEW c \in p.closures, Registry.checkers[c.checker].local
  PROVE  /\ KnownChecker(c.checker)
         /\ SelectorSupported(Registry.checkers[c.checker], c.selector) =>
              /\ c.result = MaterialisedResult(p, c)
              /\ \A f \in ReferenceFields(Registry.checkers[c.checker], c.selector) :
                   Lookup(p, c.selector.where[f],
                          Registry.checkers[c.checker].selector_fields[
                            <<c.selector.record_type, f>>]) # {}
         /\ ~ SelectorSupported(Registry.checkers[c.checker], c.selector) => c.result = "OPEN"
<1>1. ClosureIssues(p, c) = {} /\ DuplicateRefs(p) = {}
  BY AdmittedMeans
<1> DEFINE contract == Registry.checkers[c.checker]
<1>2. /\ ClosureCheckerIssues(p, c) = {}
      /\ When(~ c.cut_fits, "CLOSURE_CUT_MISMATCH", c.ref) = {}
      /\ When(ClosureFrameRefused(c), "CLOSURE_FRAME_MISMATCH", c.ref) = {}
      /\ MemberIssues(p, c) = {}
      /\ When(ResultIsComparable(p, c) /\ c.result # MaterialisedResult(p, c),
              "CLOSURE_RESULT_MISMATCH", c.ref) = {}
  BY <1>1 DEF ClosureIssues
<1>3. KnownChecker(c.checker) /\ "CLOSURE" \in contract.uses
  BY <1>2 DEF ClosureCheckerIssues
<1>4. ASSUME ~ SelectorSupported(contract, c.selector)
      PROVE  c.result = "OPEN"
  BY <1>2, <1>3, <1>4 DEF ClosureCheckerIssues, When
<1>5. ASSUME SelectorSupported(contract, c.selector),
             NEW f \in ReferenceFields(contract, c.selector)
      PROVE  LET kinds == contract.selector_fields[<<c.selector.record_type, f>>]
             IN  /\ Lookup(p, c.selector.where[f], kinds) # {}
                 /\ Resolve(p, c.selector.where[f], kinds) # {}
  <2> DEFINE kinds == contract.selector_fields[<<c.selector.record_type, f>>]
  <2>1. UNION {ReferenceIssues(p, c.ref, c.selector.where[g],
                 contract.selector_fields[<<c.selector.record_type, g>>]) :
                 g \in ReferenceFields(contract, c.selector)} = {}
    BY <1>2, <1>3, <1>5 DEF ClosureCheckerIssues
  <2>2. ReferenceIssues(p, c.ref, c.selector.where[f], kinds) = {}
    BY <2>1
  <2> QED
    BY <1>1, <2>2, LinkFinds
<1>6. ASSUME NEW m \in c.members
      PROVE  Resolve(p, m, {c.selector.record_type}) # {}
  <2>1. Links(p, m, c.selector.record_type)
    BY <1>2 DEF MemberIssues, Links
  <2>2. PICK r : Points(p, m, c.selector.record_type, r)
    BY <1>1, <2>1, LinkPoints
  <2> QED
    BY <2>2 DEF Points
<1>7. ASSUME SelectorSupported(contract, c.selector)
      PROVE  c.result = MaterialisedResult(p, c)
  <2>1. c.cut_fits /\ ~ ClosureFrameRefused(c)
    BY <1>2, RaisedNone
  <2>2. ResultIsComparable(p, c)
    BY <1>1, <1>3, <1>5, <1>6, <1>7, <2>1 DEF ResultIsComparable
  <2> QED
    BY <1>2, <2>2, RaisedNone
<1> QED
  BY <1>3, <1>4, <1>5, <1>7

(* LocalClosuresAreTruthful, of any admitted package.                      *)
LEMMA AdmittedIsTruthful ==
  ASSUME Admitted(package)
  PROVE  LocalClosuresAreTruthful
<1> SUFFICES ASSUME NEW c \in package.closures, Registry.checkers[c.checker].local
             PROVE  CASE c.result = "PASS" -> c.members = Selected(package, c.selector)
                      [] c.result = "FAIL" -> c.members # Selected(package, c.selector)
                      [] c.result = "OPEN" ->
                           ~ SelectorSupported(Registry.checkers[c.checker], c.selector)
  BY DEF LocalClosuresAreTruthful
<1>1. CASE SelectorSupported(Registry.checkers[c.checker], c.selector)
  BY <1>1, LocalClosureIsRecomputed DEF MaterialisedResult
<1>2. CASE ~ SelectorSupported(Registry.checkers[c.checker], c.selector)
  BY <1>2, LocalClosureIsRecomputed
<1> QED
  BY <1>1, <1>2

(* A role closure whose mismatch check was made and found nothing asks its *)
(* owner: the registry's coherence keeps the kinds the contract lets the   *)
(* scoping field name within those the mismatch check looks among.         *)
LEMMA NoMismatchAsks ==
  ASSUME NEW p, Admitted(p), NEW c \in p.closures, Registry.checkers[c.checker].local,
         c.result # "OPEN",
         NEW record_type \in RecordKind, NEW field \in DOMAIN MaterialisedFields[record_type],
         NEW owner, NEW nameable, MaterialisedFields[record_type][field] = nameable,
         ~ RoleMismatch(p, c, owner, record_type, field, nameable)
  PROVE  Asks(c, record_type, field, owner)
<1> DEFINE contract == Registry.checkers[c.checker]
           kinds == contract.selector_fields[<<record_type, field>>]
<1>1. /\ KnownChecker(c.checker) /\ SelectorSupported(contract, c.selector)
      /\ \A f \in ReferenceFields(contract, c.selector) :
           Lookup(p, c.selector.where[f],
                  contract.selector_fields[<<c.selector.record_type, f>>]) # {}
  BY LocalClosureIsRecomputed
<1>2. SelectorIsLocallySupported(p, c)
  BY <1>1 DEF SelectorIsLocallySupported
<1>3. /\ c.selector.record_type = record_type
      /\ DOMAIN c.selector.where = {field}
      /\ c.selector.where[field] \in Ref
      /\ \/ c.selector.where[field] = owner
         \/ Lookup(p, c.selector.where[field], nameable) = {}
  BY <1>2 DEF RoleMismatch
<1>4. /\ <<record_type, field>> \in DOMAIN contract.selector_fields
      /\ kinds # {}
  BY <1>1, <1>3 DEF SelectorSupported, ShapeSupported
<1>5. kinds \subseteq nameable
  <2>1. CoherentChecker(contract)
    BY <1>1, RegistryAssumption DEF CoherentRegistry, KnownChecker
  <2> QED
    BY <1>4, <2>1 DEF CoherentChecker
<1>6. Lookup(p, c.selector.where[field], kinds) # {}
  BY <1>1, <1>3, <1>4 DEF ReferenceFields
<1>7. Lookup(p, c.selector.where[field], nameable) # {}
  BY <1>5, <1>6 DEF Lookup
<1> QED
  BY <1>3, <1>7 DEF Asks

(* LocalInquiriesAskTheirOwner, of any admitted package.                   *)
LEMMA AdmittedAsksOwners ==
  ASSUME Admitted(package)
  PROVE  LocalInquiriesAskTheirOwner
<1>1. DuplicateRefs(package) = {}
  BY AdmittedMeans
<1>2. ASSUME NEW f \in package.faces, NEW c \in package.closures,
             c.result # "OPEN", Registry.checkers[c.checker].local, f.blocker_closure = c.ref
      PROVE  Asks(c, "CHALLENGE", "target", f.ref)
  <2>1. PICK q : /\ Points(package, f.blocker_closure, "CLOSURE", q)
                 /\ ~ RoleMismatch(package, q, f.ref, "CHALLENGE", "target",
                                   {"ATOM", "RULE", "FACE"})
    BY FaceLinks
  <2>2. q = c
    BY <1>1, <1>2, <2>1, OneRecordPerRef, RecordsByKind DEF Points, RecordKind
  <2>3. /\ "CHALLENGE" \in RecordKind
        /\ "target" \in DOMAIN MaterialisedFields["CHALLENGE"]
        /\ MaterialisedFields["CHALLENGE"]["target"] = {"ATOM", "RULE", "FACE"}
    BY DEF RecordKind, MaterialisedFields
  <2> QED
    BY <1>2, <2>1, <2>2, <2>3, NoMismatchAsks
<1>3. ASSUME NEW h \in package.challenges, NEW c \in package.closures,
             c.result # "OPEN", Registry.checkers[c.checker].local, h.discharge_closure = c.ref
      PROVE  Asks(c, "DISCHARGE", "challenge", h.ref)
  <2>1. PICK q : /\ Points(package, h.discharge_closure, "CLOSURE", q)
                 /\ ~ RoleMismatch(package, q, h.ref, "DISCHARGE", "challenge", {"CHALLENGE"})
    BY ChallengeLinks
  <2>2. q = c
    BY <1>1, <1>3, <2>1, OneRecordPerRef, RecordsByKind DEF Points, RecordKind
  <2>3. /\ "DISCHARGE" \in RecordKind
        /\ "challenge" \in DOMAIN MaterialisedFields["DISCHARGE"]
        /\ MaterialisedFields["DISCHARGE"]["challenge"] = {"CHALLENGE"}
    BY DEF RecordKind, MaterialisedFields
  <2> QED
    BY <1>3, <2>1, <2>2, <2>3, NoMismatchAsks
<1> QED
  BY <1>2, <1>3 DEF LocalInquiriesAskTheirOwner, InquiriesAskTheirOwner

LEMMA IssuesAreReported == ValidateSpec => []Reported
<1>1. Reported /\ [Validate \/ Answered]_validateVars => Reported'
  BY ReportedStep
<1> QED
  BY <1>1, ReportedInit, PTL DEF ValidateSpec

(* Every reference of an accepted package finds one record of a kind its   *)
(* place calls for: the links of rules, faces, challenges and discharges,  *)
(* the subjects of certificates, the sides of contraries, the members of   *)
(* closures and of the base, and what supported selectors compare.         *)
THEOREM AdmissionResolves == ValidateSpec => []ReferencesFindOneRecord
<1>1. Reported => ReferencesFindOneRecord
  BY AcceptedIsAdmitted, AdmittedFindsOne DEF ReferencesFindOneRecord
<1> QED
  BY <1>1, IssuesAreReported, PTL

(* Certificates and their subjects, rules and their faces own each other   *)
(* mutually in an accepted package.                                        *)
THEOREM AdmissionOwnsMutually == ValidateSpec => []OwnershipIsMutual
<1>1. Reported => OwnershipIsMutual
  BY AcceptedIsAdmitted, AdmittedOwnsMutually DEF OwnershipIsMutual
<1> QED
  BY <1>1, IssuesAreReported, PTL

(* What an accepted package says a code-owned inquiry found is what the    *)
(* inquiry finds in the package.                                           *)
THEOREM AdmissionIsTruthful == ValidateSpec => []LocalClosuresAreTruthful
<1>1. Reported => LocalClosuresAreTruthful
  BY AcceptedIsAdmitted, AdmittedIsTruthful DEF LocalClosuresAreTruthful
<1> QED
  BY <1>1, IssuesAreReported, PTL

(* A code-owned inquiry that guards a face or a challenge of an accepted   *)
(* package asks for all challenges, or discharges, of its owner.           *)
THEOREM AdmissionScopesInquiries == ValidateSpec => []LocalInquiriesAskTheirOwner
<1>1. Reported => LocalInquiriesAskTheirOwner
  BY AcceptedIsAdmitted, AdmittedAsksOwners DEF LocalInquiriesAskTheirOwner
<1> QED
  BY <1>1, IssuesAreReported, PTL

-----------------------------------------------------------------------------
(* Compilation.  What each function adds, and which functions have run.    *)

Functions == {"atoms", "certificates", "closures", "faces", "rules", "challenges", "discharges"}

EmissionAt(p, f) ==
  CASE f = "atoms" -> SourceAtomEmission(p)
    [] f = "certificates" ->
         Emitted("CERTIFICATE", {CertificateEmission(k) : k \in p.certificates})
    [] f = "closures" -> Emitted("CLOSURE", {ClosureEmission(c) : c \in p.closures})
    [] f = "faces" -> Emitted("FACE", {FaceEmission(x) : x \in p.faces})
    [] f = "rules" -> Emitted("RULE", {RuleEmission(r) : r \in p.rules})
    [] f = "challenges" -> Emitted("CHALLENGE", {ChallengeEmission(c) : c \in p.challenges})
    [] f = "discharges" -> Emitted("DISCHARGE", {DischargeEmission(p, d) : d \in p.discharges})

KindAt ==
  [atoms |-> "ATOM", certificates |-> "CERTIFICATE", closures |-> "CLOSURE", faces |-> "FACE",
   rules |-> "RULE", challenges |-> "CHALLENGE", discharges |-> "DISCHARGE"]

Ran ==
  [preflight |-> {}, deferred |-> {}, atoms |-> {}, certificates |-> {"atoms"},
   closures |-> {"atoms", "certificates"}, faces |-> {"atoms", "certificates", "closures"},
   contraries |-> {"atoms", "certificates", "closures", "faces"},
   rules |-> {"atoms", "certificates", "closures", "faces"},
   challenges |-> {"atoms", "certificates", "closures", "faces", "rules"},
   discharges |-> Functions \ {"discharges"},
   build |-> Functions, compiled |-> Functions]

(* The role of an atom or a rule tells the kind of its owner.              *)
AtomOwner(a) ==
  CASE a[1] = "source-atom" -> "ATOM"
    [] a[1] \in {"cert-valid", "cert-failed", "cert-open"} -> "CERTIFICATE"
    [] a[1] \in {"closure-ready", "closure-failed", "closure-open"} -> "CLOSURE"
    [] a[1] \in {"face", "has-open-challenge", "clear"} -> "FACE"
    [] a[1] = "live-case" -> "RULE"
    [] a[1] \in {"challenge-case", "discharged", "open-challenge"} -> "CHALLENGE"
    [] a[1] \in {"type-match", "discharge-case"} -> "DISCHARGE"

RuleOwner(id) ==
  CASE id[1] = "clear-face" -> "FACE"
    [] id[1] \in {"rule-case", "head-bridge"} -> "RULE"
    [] id[1] \in {"challenge-case-rule", "open-challenge-rule", "rebut-effect",
                  "face-block-effect"} -> "CHALLENGE"
    [] id[1] \in {"discharge-case-rule", "discharged-bridge"} -> "DISCHARGE"

(* A base status is given to atoms of some roles only, and rules conclude  *)
(* atoms of others; among the package's own atoms the primitive ones are   *)
(* given a status and the others concluded.                                *)
GivenRoles ==
  {"cert-valid", "cert-failed", "cert-open", "closure-ready", "closure-failed",
   "closure-open", "face", "type-match"}

Given(p, a) ==
  \/ a[1] \in GivenRoles
  \/ \E x \in p.atoms : x.primitive /\ a = <<"source-atom", x.ref>>

Concluded(p, a) ==
  \/ a[1] \in {"clear", "live-case", "challenge-case", "open-challenge", "has-open-challenge",
               "discharge-case", "discharged"}
  \/ \E x \in p.atoms : ~ x.primitive /\ a = <<"source-atom", x.ref>>

(* What the constructors see to, and a package the compiler works on.      *)
Constructed(p) ==
  /\ Recorded(p) \subseteq Ref
  /\ \A x \in p.certificates \cup p.closures : x.result \in CheckResult

Compilable(p) == Admitted(p) /\ Constructed(p) /\ ChallengeFaults(p) = {}

(* What one function adds is well formed in itself.                        *)
OwnsItsArtifacts(e) ==
  /\ \A a \in e.atoms : AtomOwner(a) = e.kind
  /\ \A r \in e.rules : RuleOwner(r.id) = e.kind
  /\ \A r, s \in e.rules : r.id = s.id => r = s

PlacesItsAtoms(p, e) ==
  /\ e.live \cup e.excluded \cup e.open \subseteq e.atoms
  /\ e.live \cap e.excluded = {} /\ e.live \cap e.open = {} /\ e.excluded \cap e.open = {}
  /\ \A a \in e.live \cup e.excluded \cup e.open : Given(p, a)

LEMMA GivenOrConcluded ==
  ASSUME NEW p, DuplicateRefs(p) = {}, NEW a, Given(p, a), Concluded(p, a)
  PROVE  FALSE
<1>1. CASE a[1] \in GivenRoles
  <2>1. \A ref : <<"source-atom", ref>>[1] = "source-atom"
    OBVIOUS
  <2> QED
    BY <1>1, <2>1 DEF Concluded, GivenRoles
<1>2. ASSUME NEW x \in p.atoms, x.primitive, a = <<"source-atom", x.ref>>
      PROVE  FALSE
  <2>1. a[1] = "source-atom"
    BY <1>2
  <2>2. PICK y \in p.atoms : ~ y.primitive /\ a = <<"source-atom", y.ref>>
    BY <2>1 DEF Concluded
  <2>3. x.ref = y.ref
    BY <1>2, <2>2
  <2> QED
    BY <1>2, <2>2, <2>3, OneRecordPerRef, RecordsByKind DEF RecordKind
<1> QED
  BY <1>1, <1>2 DEF Given

LEMMA EmittedParts ==
  ASSUME NEW kind, NEW emissions
  PROVE  LET e == Emitted(kind, emissions)
         IN  /\ e.kind = kind
             /\ e.atoms = UNION {x.atoms : x \in emissions}
             /\ e.rules = UNION {x.rules : x \in emissions}
             /\ e.live = UNION {x.live : x \in emissions}
             /\ e.excluded = UNION {x.excluded : x \in emissions}
             /\ e.open = UNION {x.open : x \in emissions}
  BY DEF Emitted, Emission

(* The records of a kind in a package differ in their references.          *)
LEMMA RefsDiffer ==
  ASSUME NEW p, DuplicateRefs(p) = {}
  PROVE  /\ \A x, y \in p.atoms : x.ref = y.ref => x = y
         /\ \A x, y \in p.certificates : x.ref = y.ref => x = y
         /\ \A x, y \in p.closures : x.ref = y.ref => x = y
         /\ \A x, y \in p.faces : x.ref = y.ref => x = y
         /\ \A x, y \in p.rules : x.ref = y.ref => x = y
         /\ \A x, y \in p.challenges : x.ref = y.ref => x = y
         /\ \A x, y \in p.discharges : x.ref = y.ref => x = y
<1>1. \A k \in RecordKind : \A x, y \in Records(p, k) : x.ref = y.ref => x = y
  BY OneRecordPerRef
<1> QED
  BY <1>1, RecordsByKind DEF RecordKind

LEMMA SourceAtomsSound ==
  ASSUME NEW p, Admitted(p)
  PROVE  OwnsItsArtifacts(SourceAtomEmission(p)) /\ PlacesItsAtoms(p, SourceAtomEmission(p))
<1> DEFINE e == SourceAtomEmission(p)
           given == p.base.live \cup p.base.excluded \cup p.base.open
<1>1. /\ e.kind = "ATOM" /\ e.atoms = SourceAtoms({a.ref : a \in p.atoms}) /\ e.rules = {}
      /\ e.live = SourceAtoms(p.base.live) /\ e.excluded = SourceAtoms(p.base.excluded)
      /\ e.open = SourceAtoms(p.base.open)
  BY DEF SourceAtomEmission, Emission
<1>2. OwnsItsArtifacts(e)
  <2>1. \A a \in e.atoms : AtomOwner(a) = "ATOM"
    BY <1>1 DEF SourceAtoms, AtomOwner
  <2> QED
    BY <1>1, <2>1 DEF OwnsItsArtifacts
<1>3. BaseIssues(p) = {} /\ DuplicateRefs(p) = {}
  BY AdmittedMeans
<1>4. /\ \A ref \in given : BaseMemberIssues(p, ref) = {}
      /\ BaseOverlap(p) = {}
  BY <1>3 DEF BaseIssues
<1>5. ASSUME NEW ref \in given
      PROVE  \E x \in p.atoms : x.primitive /\ x.ref = ref
  <2>1. /\ Links(p, ref, "ATOM")
        /\ When(\E a \in Resolve(p, ref, {"ATOM"}) : ~ a.primitive, "BASE_NONPRIMITIVE", ref) = {}
    BY <1>4 DEF BaseMemberIssues, Links
  <2>2. PICK x : Points(p, ref, "ATOM", x)
    BY <1>3, <2>1, LinkPoints
  <2>3. \A a \in Resolve(p, ref, {"ATOM"}) : a.primitive
    BY <2>1, RaisedNone
  <2> QED
    BY <2>2, <2>3, RecordsByKind DEF Points
<1>6. \A a \in SourceAtoms(given) : Given(p, a) /\ a \in e.atoms
  BY <1>1, <1>5 DEF SourceAtoms, Given
<1>7. e.live \cup e.excluded \cup e.open \subseteq SourceAtoms(given)
  BY <1>1 DEF SourceAtoms
<1>8. /\ p.base.live \cap p.base.excluded = {} /\ p.base.live \cap p.base.open = {}
      /\ p.base.excluded \cap p.base.open = {}
  BY <1>4 DEF BaseOverlap
<1>9. /\ e.live \cap e.excluded = {} /\ e.live \cap e.open = {} /\ e.excluded \cap e.open = {}
  BY <1>1, <1>8 DEF SourceAtoms
<1> QED
  BY <1>2, <1>6, <1>7, <1>9 DEF PlacesItsAtoms

(* Emissions of different records put together.                            *)
Keeps(e, kind, ref) ==
  /\ e.kind = kind /\ OwnsItsArtifacts(e)
  /\ \A a \in e.atoms : a[2] = ref
  /\ \A r \in e.rules : r.id[2] = ref

Joins(e, X, em) ==
  /\ \A a : a \in e.atoms <=> \E x \in X : a \in em[x].atoms
  /\ \A r : r \in e.rules <=> \E x \in X : r \in em[x].rules
  /\ \A a : a \in e.live <=> \E x \in X : a \in em[x].live
  /\ \A a : a \in e.excluded <=> \E x \in X : a \in em[x].excluded
  /\ \A a : a \in e.open <=> \E x \in X : a \in em[x].open

LEMMA EmittedJoins ==
  ASSUME NEW kind, NEW X, NEW em
  PROVE  /\ Emitted(kind, {em[x] : x \in X}).kind = kind
         /\ Joins(Emitted(kind, {em[x] : x \in X}), X, em)
<1> DEFINE all == {em[x] : x \in X}
           e == Emitted(kind, all)
<1>1. /\ e.kind = kind
      /\ e.atoms = UNION {x.atoms : x \in all} /\ e.rules = UNION {x.rules : x \in all}
      /\ e.live = UNION {x.live : x \in all} /\ e.excluded = UNION {x.excluded : x \in all}
      /\ e.open = UNION {x.open : x \in all}
  BY EmittedParts
<1> HIDE DEF e
<1>2. Joins(e, X, em)
  BY <1>1 DEF Joins
<1> QED
  BY <1>1, <1>2 DEF e

LEMMA JoinedSound ==
  ASSUME NEW p, NEW kind, NEW X, NEW em, NEW e, e.kind = kind, Joins(e, X, em),
         \A x, y \in X : x.ref = y.ref => x = y,
         \A x \in X : Keeps(em[x], kind, x.ref) /\ PlacesItsAtoms(p, em[x])
  PROVE  OwnsItsArtifacts(e) /\ PlacesItsAtoms(p, e)
<1>1. OwnsItsArtifacts(e)
  <2>1. \A a \in e.atoms : AtomOwner(a) = e.kind
    BY DEF Joins, Keeps, OwnsItsArtifacts
  <2>2. \A r \in e.rules : RuleOwner(r.id) = e.kind
    BY DEF Joins, Keeps, OwnsItsArtifacts
  <2>3. ASSUME NEW r \in e.rules, NEW s \in e.rules, r.id = s.id
        PROVE  r = s
    <3>1. PICK x \in X : r \in em[x].rules
      BY DEF Joins
    <3>2. PICK y \in X : s \in em[y].rules
      BY DEF Joins
    <3>3. x = y
      BY <2>3, <3>1, <3>2 DEF Keeps
    <3> QED
      BY <2>3, <3>1, <3>2, <3>3 DEF Keeps, OwnsItsArtifacts
  <2> QED
    BY <2>1, <2>2, <2>3 DEF OwnsItsArtifacts
<1>2. /\ e.live \cup e.excluded \cup e.open \subseteq e.atoms
      /\ \A a \in e.live \cup e.excluded \cup e.open : Given(p, a)
  BY DEF Joins, PlacesItsAtoms
<1>3. \A x, y \in X : em[x].atoms \cap em[y].atoms # {} => x = y
  BY DEF Keeps
<1>4. \A x \in X : /\ em[x].live \cup em[x].excluded \cup em[x].open \subseteq em[x].atoms
                   /\ em[x].live \cap em[x].excluded = {} /\ em[x].live \cap em[x].open = {}
                   /\ em[x].excluded \cap em[x].open = {}
  BY DEF PlacesItsAtoms
<1>5. e.live \cap e.excluded = {} /\ e.live \cap e.open = {} /\ e.excluded \cap e.open = {}
  BY <1>3, <1>4 DEF Joins
<1> QED
  BY <1>1, <1>2, <1>5 DEF PlacesItsAtoms

-----------------------------------------------------------------------------
(* What one record of a kind adds, function by function.                   *)
CertificateEmissions(p) == [k \in p.certificates |-> CertificateEmission(k)]
ClosureEmissions(p) == [c \in p.closures |-> ClosureEmission(c)]
FaceEmissions(p) == [f \in p.faces |-> FaceEmission(f)]
RuleEmissions(p) == [r \in p.rules |-> RuleEmission(r)]
ChallengeEmissions(p) == [c \in p.challenges |-> ChallengeEmission(c)]
DischargeEmissions(p) == [d \in p.discharges |-> DischargeEmission(p, d)]

LEMMA EmissionsJoin ==
  ASSUME NEW p
  PROVE  /\ Joins(EmissionAt(p, "certificates"), p.certificates, CertificateEmissions(p))
         /\ Joins(EmissionAt(p, "closures"), p.closures, ClosureEmissions(p))
         /\ Joins(EmissionAt(p, "faces"), p.faces, FaceEmissions(p))
         /\ Joins(EmissionAt(p, "rules"), p.rules, RuleEmissions(p))
         /\ Joins(EmissionAt(p, "challenges"), p.challenges, ChallengeEmissions(p))
         /\ Joins(EmissionAt(p, "discharges"), p.discharges, DischargeEmissions(p))
         /\ \A f \in Functions : EmissionAt(p, f).kind = KindAt[f]
<1>1. EmissionAt(p, "atoms").kind = "ATOM"
  BY DEF EmissionAt, SourceAtomEmission, Emission
<1>2. /\ EmissionAt(p, "certificates").kind = "CERTIFICATE"
      /\ Joins(EmissionAt(p, "certificates"), p.certificates, CertificateEmissions(p))
  <2>1. EmissionAt(p, "certificates") =
          Emitted("CERTIFICATE", {CertificateEmissions(p)[k] : k \in p.certificates})
    BY DEF EmissionAt, CertificateEmissions
  <2> QED
    BY <2>1, EmittedJoins
<1>3. /\ EmissionAt(p, "closures").kind = "CLOSURE"
      /\ Joins(EmissionAt(p, "closures"), p.closures, ClosureEmissions(p))
  <2>1. EmissionAt(p, "closures") =
          Emitted("CLOSURE", {ClosureEmissions(p)[c] : c \in p.closures})
    BY DEF EmissionAt, ClosureEmissions
  <2> QED
    BY <2>1, EmittedJoins
<1>4. /\ EmissionAt(p, "faces").kind = "FACE"
      /\ Joins(EmissionAt(p, "faces"), p.faces, FaceEmissions(p))
  <2>1. EmissionAt(p, "faces") =
          Emitted("FACE", {FaceEmissions(p)[f] : f \in p.faces})
    BY DEF EmissionAt, FaceEmissions
  <2> QED
    BY <2>1, EmittedJoins
<1>5. /\ EmissionAt(p, "rules").kind = "RULE"
      /\ Joins(EmissionAt(p, "rules"), p.rules, RuleEmissions(p))
  <2>1. EmissionAt(p, "rules") =
          Emitted("RULE", {RuleEmissions(p)[r] : r \in p.rules})
    BY DEF EmissionAt, RuleEmissions
  <2> QED
    BY <2>1, EmittedJoins
<1>6. /\ EmissionAt(p, "challenges").kind = "CHALLENGE"
      /\ Joins(EmissionAt(p, "challenges"), p.challenges, ChallengeEmissions(p))
  <2>1. EmissionAt(p, "challenges") =
          Emitted("CHALLENGE", {ChallengeEmissions(p)[c] : c \in p.challenges})
    BY DEF EmissionAt, ChallengeEmissions
  <2> QED
    BY <2>1, EmittedJoins
<1>7. /\ EmissionAt(p, "discharges").kind = "DISCHARGE"
      /\ Joins(EmissionAt(p, "discharges"), p.discharges, DischargeEmissions(p))
  <2>1. EmissionAt(p, "discharges") =
          Emitted("DISCHARGE", {DischargeEmissions(p)[d] : d \in p.discharges})
    BY DEF EmissionAt, DischargeEmissions
  <2> QED
    BY <2>1, EmittedJoins
<1> QED
  BY <1>1, <1>2, <1>3, <1>4, <1>5, <1>6, <1>7 DEF Functions, KindAt

LEMMA CertificateParts ==
  ASSUME NEW p, Constructed(p), NEW k \in p.certificates
  PROVE  LET x == CertificateEmissions(p)[k]
         IN  /\ x.atoms = {<<"cert-valid", k.ref>>, <<"cert-failed", k.ref>>,
                           <<"cert-open", k.ref>>}
             /\ x.rules = {}
             /\ <<"cert-valid", k.ref>> \in x.live <=> k.result = "PASS"
             /\ <<"cert-valid", k.ref>> \in x.excluded <=> k.result = "FAIL"
             /\ <<"cert-valid", k.ref>> \in x.open <=> k.result = "OPEN"
             /\ Keeps(x, "CERTIFICATE", k.ref) /\ PlacesItsAtoms(p, x)
<1> DEFINE x == CertificateEmission(k)
<1>1. CertificateEmissions(p)[k] = x
  BY DEF CertificateEmissions
<1>2. /\ x.kind = "CERTIFICATE" /\ x.rules = {}
      /\ x.atoms = {<<"cert-valid", k.ref>>, <<"cert-failed", k.ref>>, <<"cert-open", k.ref>>}
  BY DEF CertificateEmission, Emission, Owned
<1>3. \A a \in x.atoms : AtomOwner(a) = "CERTIFICATE" /\ Given(p, a) /\ a[2] = k.ref
  BY <1>2 DEF AtomOwner, Given, GivenRoles
<1>4. k.result \in {"PASS", "FAIL", "OPEN"}
  BY DEF Constructed, CheckResult
<1>5. /\ x.live \cup x.excluded \cup x.open \subseteq x.atoms
      /\ x.live \cap x.excluded = {} /\ x.live \cap x.open = {} /\ x.excluded \cap x.open = {}
      /\ <<"cert-valid", k.ref>> \in x.live <=> k.result = "PASS"
      /\ <<"cert-valid", k.ref>> \in x.excluded <=> k.result = "FAIL"
      /\ <<"cert-valid", k.ref>> \in x.open <=> k.result = "OPEN"
  BY <1>2, <1>4 DEF CertificateEmission, Emission
<1> QED
  BY <1>1, <1>2, <1>3, <1>5 DEF OwnsItsArtifacts, PlacesItsAtoms, Keeps

LEMMA ClosureParts ==
  ASSUME NEW p, Constructed(p), NEW c \in p.closures
  PROVE  LET x == ClosureEmissions(p)[c]
         IN  /\ x.atoms = {<<"closure-ready", c.ref>>, <<"closure-failed", c.ref>>,
                           <<"closure-open", c.ref>>}
             /\ x.rules = {} /\ x.excluded = {}
             /\ <<"closure-ready", c.ref>> \in x.live <=> c.result = "PASS"
             /\ <<"closure-ready", c.ref>> \in x.open <=> c.result # "PASS"
             /\ Keeps(x, "CLOSURE", c.ref) /\ PlacesItsAtoms(p, x)
<1> DEFINE x == ClosureEmission(c)
<1>1. ClosureEmissions(p)[c] = x
  BY DEF ClosureEmissions
<1>2. /\ x.kind = "CLOSURE" /\ x.rules = {} /\ x.excluded = {}
      /\ x.atoms = {<<"closure-ready", c.ref>>, <<"closure-failed", c.ref>>,
                    <<"closure-open", c.ref>>}
  BY DEF ClosureEmission, Emission, Owned
<1>3. \A a \in x.atoms : AtomOwner(a) = "CLOSURE" /\ Given(p, a) /\ a[2] = c.ref
  BY <1>2 DEF AtomOwner, Given, GivenRoles
<1>4. c.result \in {"PASS", "FAIL", "OPEN"}
  BY DEF Constructed, CheckResult
<1>5. /\ x.live \cup x.open \subseteq x.atoms /\ x.live \cap x.open = {}
      /\ <<"closure-ready", c.ref>> \in x.live <=> c.result = "PASS"
      /\ <<"closure-ready", c.ref>> \in x.open <=> c.result # "PASS"
  BY <1>2, <1>4 DEF ClosureEmission, Emission
<1> QED
  BY <1>1, <1>2, <1>3, <1>5 DEF OwnsItsArtifacts, PlacesItsAtoms, Keeps

LEMMA FaceParts ==
  ASSUME NEW p, NEW f \in p.faces
  PROVE  LET x == FaceEmissions(p)[f]
         IN  /\ x.atoms = {<<"face", f.ref>>, <<"has-open-challenge", f.ref>>,
                           <<"clear", f.ref>>}
             /\ x.rules = {ClearFace(f)}
             /\ x.live = {<<"face", f.ref>>} /\ x.excluded = {} /\ x.open = {}
             /\ Keeps(x, "FACE", f.ref) /\ PlacesItsAtoms(p, x)
<1> DEFINE x == FaceEmission(f)
<1>1. FaceEmissions(p)[f] = x
  BY DEF FaceEmissions
<1>2. /\ x.kind = "FACE" /\ x.rules = {ClearFace(f)}
      /\ x.atoms = {<<"face", f.ref>>, <<"has-open-challenge", f.ref>>, <<"clear", f.ref>>}
      /\ x.live = {<<"face", f.ref>>} /\ x.excluded = {} /\ x.open = {}
  BY DEF FaceEmission, Emission, Owned
<1>3. \A a \in x.atoms : AtomOwner(a) = "FACE" /\ a[2] = f.ref
  BY <1>2 DEF AtomOwner
<1>4. x.live \subseteq x.atoms /\ \A a \in x.live : Given(p, a)
  BY <1>2 DEF Given, GivenRoles
<1>5. ClearFace(f).id = <<"clear-face", f.ref>>
  BY DEF ClearFace, GroundRule
<1>6. RuleOwner(ClearFace(f).id) = "FACE" /\ ClearFace(f).id[2] = f.ref
  BY <1>5 DEF RuleOwner
<1> QED
  BY <1>1, <1>2, <1>3, <1>4, <1>6 DEF OwnsItsArtifacts, PlacesItsAtoms, Keeps

HeadBridge(r) ==
  GroundRule("head-bridge", r.ref, <<"source-atom", r.head>>, {<<"live-case", r.ref>>}, {})

LEMMA RuleParts ==
  ASSUME NEW p, NEW r \in p.rules
  PROVE  LET x == RuleEmissions(p)[r]
         IN  /\ x.atoms = {<<"live-case", r.ref>>}
             /\ x.rules = {RuleCase(r), HeadBridge(r)}
             /\ x.live = {} /\ x.excluded = {} /\ x.open = {}
             /\ Keeps(x, "RULE", r.ref) /\ PlacesItsAtoms(p, x)
<1> DEFINE x == RuleEmission(r)
<1>1. RuleEmissions(p)[r] = x
  BY DEF RuleEmissions
<1>2. /\ x.kind = "RULE" /\ x.rules = {RuleCase(r), HeadBridge(r)}
      /\ x.atoms = {<<"live-case", r.ref>>}
      /\ x.live = {} /\ x.excluded = {} /\ x.open = {}
  BY DEF RuleEmission, Emission, HeadBridge
<1>3. \A a \in x.atoms : AtomOwner(a) = "RULE" /\ a[2] = r.ref
  BY <1>2 DEF AtomOwner
<1>4. /\ RuleCase(r).id = <<"rule-case", r.ref>>
      /\ HeadBridge(r).id = <<"head-bridge", r.ref>>
  BY DEF RuleCase, HeadBridge, GroundRule
<1>5. \A g \in x.rules : RuleOwner(g.id) = "RULE" /\ g.id[2] = r.ref
  BY <1>2, <1>4 DEF RuleOwner
<1>6. \A g, h \in x.rules : g.id = h.id => g = h
  BY <1>2, <1>4
<1> QED
  BY <1>1, <1>2, <1>3, <1>5, <1>6 DEF OwnsItsArtifacts, PlacesItsAtoms, Keeps

CaseRule(c) ==
  GroundRule("challenge-case-rule", c.ref, <<"challenge-case", c.ref>>,
             {<<"cert-valid", c.certificate>>}, {})

OpenRule(c) ==
  GroundRule("open-challenge-rule", c.ref, <<"open-challenge", c.ref>>,
             {<<"challenge-case", c.ref>>, <<"closure-ready", c.discharge_closure>>},
             {<<"discharged", c.ref>>})

LEMMA ChallengeParts ==
  ASSUME NEW p, NEW c \in p.challenges
  PROVE  LET x == ChallengeEmissions(p)[c]
         IN  /\ x.atoms = {<<"challenge-case", c.ref>>, <<"discharged", c.ref>>,
                           <<"open-challenge", c.ref>>}
             /\ x.rules = {CaseRule(c), OpenRule(c), EffectRule(c)}
             /\ x.live = {} /\ x.excluded = {} /\ x.open = {}
             /\ Keeps(x, "CHALLENGE", c.ref) /\ PlacesItsAtoms(p, x)
<1> DEFINE x == ChallengeEmission(c)
<1>1. ChallengeEmissions(p)[c] = x
  BY DEF ChallengeEmissions
<1>2. /\ x.kind = "CHALLENGE" /\ x.rules = {CaseRule(c), OpenRule(c), EffectRule(c)}
      /\ x.atoms = {<<"challenge-case", c.ref>>, <<"discharged", c.ref>>,
                    <<"open-challenge", c.ref>>}
      /\ x.live = {} /\ x.excluded = {} /\ x.open = {}
  BY DEF ChallengeEmission, Emission, Owned, CaseRule, OpenRule
<1>3. \A a \in x.atoms : AtomOwner(a) = "CHALLENGE" /\ a[2] = c.ref
  BY <1>2 DEF AtomOwner
<1>4. /\ CaseRule(c).id = <<"challenge-case-rule", c.ref>>
      /\ OpenRule(c).id = <<"open-challenge-rule", c.ref>>
      /\ \/ EffectRule(c).id = <<"rebut-effect", c.ref>>
         \/ EffectRule(c).id = <<"face-block-effect", c.ref>>
  BY DEF CaseRule, OpenRule, EffectRule, GroundRule
<1>5. \A g \in x.rules : RuleOwner(g.id) = "CHALLENGE" /\ g.id[2] = c.ref
  BY <1>2, <1>4 DEF RuleOwner
<1>6. \A g, h \in x.rules : g.id = h.id => g = h
  BY <1>2, <1>4
<1> QED
  BY <1>1, <1>2, <1>3, <1>5, <1>6 DEF OwnsItsArtifacts, PlacesItsAtoms, Keeps

DischargeCase(d) ==
  GroundRule("discharge-case-rule", d.ref, <<"discharge-case", d.ref>>,
             {<<"cert-valid", d.certificate>>, <<"type-match", d.ref>>}, {})

DischargedBridge(d) ==
  GroundRule("discharged-bridge", d.ref, <<"discharged", d.challenge>>,
             {<<"discharge-case", d.ref>>}, {})

LEMMA DischargeParts ==
  ASSUME NEW p, NEW d \in p.discharges
  PROVE  LET x == DischargeEmissions(p)[d]
             matches == Compatible(Challenged(p, d).kind, d.kind)
         IN  /\ x.atoms = {<<"type-match", d.ref>>, <<"discharge-case", d.ref>>}
             /\ x.rules = {DischargeCase(d), DischargedBridge(d)}
             /\ x.live = IF matches THEN {<<"type-match", d.ref>>} ELSE {}
             /\ x.excluded = IF matches THEN {} ELSE {<<"type-match", d.ref>>}
             /\ x.open = {}
             /\ Keeps(x, "DISCHARGE", d.ref) /\ PlacesItsAtoms(p, x)
<1> DEFINE x == DischargeEmission(p, d)
           matches == Compatible(Challenged(p, d).kind, d.kind)
<1>1. DischargeEmissions(p)[d] = x
  BY DEF DischargeEmissions
<1>2. /\ x.kind = "DISCHARGE" /\ x.rules = {DischargeCase(d), DischargedBridge(d)}
      /\ x.atoms = {<<"type-match", d.ref>>, <<"discharge-case", d.ref>>}
      /\ x.live = IF matches THEN {<<"type-match", d.ref>>} ELSE {}
      /\ x.excluded = IF matches THEN {} ELSE {<<"type-match", d.ref>>}
      /\ x.open = {}
  BY DEF DischargeEmission, Emission, Owned, DischargeCase, DischargedBridge
<1>3. \A a \in x.atoms : AtomOwner(a) = "DISCHARGE" /\ a[2] = d.ref
  BY <1>2 DEF AtomOwner
<1>4. Given(p, <<"type-match", d.ref>>)
  BY DEF Given, GivenRoles
<1>5. /\ DischargeCase(d).id = <<"discharge-case-rule", d.ref>>
      /\ DischargedBridge(d).id = <<"discharged-bridge", d.ref>>
  BY DEF DischargeCase, DischargedBridge, GroundRule
<1>6. \A g \in x.rules : RuleOwner(g.id) = "DISCHARGE" /\ g.id[2] = d.ref
  BY <1>2, <1>5 DEF RuleOwner
<1>7. \A g, h \in x.rules : g.id = h.id => g = h
  BY <1>2, <1>5
<1>8. PlacesItsAtoms(p, x)
  BY <1>2, <1>4 DEF PlacesItsAtoms
<1> QED
  BY <1>1, <1>2, <1>3, <1>6, <1>7, <1>8 DEF OwnsItsArtifacts, Keeps

LEMMA EmissionsSound ==
  ASSUME NEW p, Admitted(p), Constructed(p), NEW f \in Functions
  PROVE  OwnsItsArtifacts(EmissionAt(p, f)) /\ PlacesItsAtoms(p, EmissionAt(p, f))
<1>1. DuplicateRefs(p) = {}
  BY AdmittedMeans
<1>2. \A g \in Functions : EmissionAt(p, g).kind = KindAt[g]
  BY EmissionsJoin
<1>3. CASE f = "atoms"
  BY <1>3, SourceAtomsSound DEF EmissionAt
<1>4. CASE f = "certificates"
  <2>1. EmissionAt(p, f).kind = "CERTIFICATE"
    BY <1>2, <1>4 DEF KindAt
  <2>2. Joins(EmissionAt(p, f), p.certificates, CertificateEmissions(p))
    BY <1>4, EmissionsJoin
  <2>3. \A x, y \in p.certificates : x.ref = y.ref => x = y
    BY <1>1, RefsDiffer
  <2>4. \A x \in p.certificates : /\ Keeps(CertificateEmissions(p)[x], "CERTIFICATE", x.ref)
                              /\ PlacesItsAtoms(p, CertificateEmissions(p)[x])
    BY CertificateParts
  <2> QED
    BY <2>1, <2>2, <2>3, <2>4, JoinedSound
<1>5. CASE f = "closures"
  <2>1. EmissionAt(p, f).kind = "CLOSURE"
    BY <1>2, <1>5 DEF KindAt
  <2>2. Joins(EmissionAt(p, f), p.closures, ClosureEmissions(p))
    BY <1>5, EmissionsJoin
  <2>3. \A x, y \in p.closures : x.ref = y.ref => x = y
    BY <1>1, RefsDiffer
  <2>4. \A x \in p.closures : /\ Keeps(ClosureEmissions(p)[x], "CLOSURE", x.ref)
                              /\ PlacesItsAtoms(p, ClosureEmissions(p)[x])
    BY ClosureParts
  <2> QED
    BY <2>1, <2>2, <2>3, <2>4, JoinedSound
<1>6. CASE f = "faces"
  <2>1. EmissionAt(p, f).kind = "FACE"
    BY <1>2, <1>6 DEF KindAt
  <2>2. Joins(EmissionAt(p, f), p.faces, FaceEmissions(p))
    BY <1>6, EmissionsJoin
  <2>3. \A x, y \in p.faces : x.ref = y.ref => x = y
    BY <1>1, RefsDiffer
  <2>4. \A x \in p.faces : /\ Keeps(FaceEmissions(p)[x], "FACE", x.ref)
                              /\ PlacesItsAtoms(p, FaceEmissions(p)[x])
    BY FaceParts
  <2> QED
    BY <2>1, <2>2, <2>3, <2>4, JoinedSound
<1>7. CASE f = "rules"
  <2>1. EmissionAt(p, f).kind = "RULE"
    BY <1>2, <1>7 DEF KindAt
  <2>2. Joins(EmissionAt(p, f), p.rules, RuleEmissions(p))
    BY <1>7, EmissionsJoin
  <2>3. \A x, y \in p.rules : x.ref = y.ref => x = y
    BY <1>1, RefsDiffer
  <2>4. \A x \in p.rules : /\ Keeps(RuleEmissions(p)[x], "RULE", x.ref)
                              /\ PlacesItsAtoms(p, RuleEmissions(p)[x])
    BY RuleParts
  <2> QED
    BY <2>1, <2>2, <2>3, <2>4, JoinedSound
<1>8. CASE f = "challenges"
  <2>1. EmissionAt(p, f).kind = "CHALLENGE"
    BY <1>2, <1>8 DEF KindAt
  <2>2. Joins(EmissionAt(p, f), p.challenges, ChallengeEmissions(p))
    BY <1>8, EmissionsJoin
  <2>3. \A x, y \in p.challenges : x.ref = y.ref => x = y
    BY <1>1, RefsDiffer
  <2>4. \A x \in p.challenges : /\ Keeps(ChallengeEmissions(p)[x], "CHALLENGE", x.ref)
                              /\ PlacesItsAtoms(p, ChallengeEmissions(p)[x])
    BY ChallengeParts
  <2> QED
    BY <2>1, <2>2, <2>3, <2>4, JoinedSound
<1>9. CASE f = "discharges"
  <2>1. EmissionAt(p, f).kind = "DISCHARGE"
    BY <1>2, <1>9 DEF KindAt
  <2>2. Joins(EmissionAt(p, f), p.discharges, DischargeEmissions(p))
    BY <1>9, EmissionsJoin
  <2>3. \A x, y \in p.discharges : x.ref = y.ref => x = y
    BY <1>1, RefsDiffer
  <2>4. \A x \in p.discharges : /\ Keeps(DischargeEmissions(p)[x], "DISCHARGE", x.ref)
                              /\ PlacesItsAtoms(p, DischargeEmissions(p)[x])
    BY DischargeParts
  <2> QED
    BY <2>1, <2>2, <2>3, <2>4, JoinedSound
<1> QED
  BY <1>3, <1>4, <1>5, <1>6, <1>7, <1>8, <1>9 DEF Functions

-----------------------------------------------------------------------------
(* Where the rules lead.                                                   *)
RuleAtoms(g) == {g.head} \cup g.positive \cup g.negative

Universe(p, functions) == UNION {EmissionAt(p, f).atoms : f \in functions}

LEMMA AtomsEmitted ==
  ASSUME NEW p, Constructed(p)
  PROVE  /\ \A a \in p.atoms : <<"source-atom", a.ref>> \in EmissionAt(p, "atoms").atoms
         /\ \A k \in p.certificates :
              <<"cert-valid", k.ref>> \in EmissionAt(p, "certificates").atoms
         /\ \A c \in p.closures :
              <<"closure-ready", c.ref>> \in EmissionAt(p, "closures").atoms
         /\ \A f \in p.faces :
              {<<"face", f.ref>>, <<"has-open-challenge", f.ref>>, <<"clear", f.ref>>}
                \subseteq EmissionAt(p, "faces").atoms
         /\ \A r \in p.rules : <<"live-case", r.ref>> \in EmissionAt(p, "rules").atoms
         /\ \A c \in p.challenges :
              {<<"challenge-case", c.ref>>, <<"discharged", c.ref>>, <<"open-challenge", c.ref>>}
                \subseteq EmissionAt(p, "challenges").atoms
         /\ \A d \in p.discharges :
              {<<"type-match", d.ref>>, <<"discharge-case", d.ref>>}
                \subseteq EmissionAt(p, "discharges").atoms
<1>1. \A a \in p.atoms : <<"source-atom", a.ref>> \in EmissionAt(p, "atoms").atoms
  BY DEF EmissionAt, SourceAtomEmission, Emission, SourceAtoms
<1>2. ASSUME NEW k \in p.certificates
      PROVE  <<"cert-valid", k.ref>> \in EmissionAt(p, "certificates").atoms
  <2>1. <<"cert-valid", k.ref>> \in CertificateEmissions(p)[k].atoms
    BY CertificateParts
  <2> QED
    BY <2>1, EmissionsJoin DEF Joins
<1>3. ASSUME NEW c \in p.closures
      PROVE  <<"closure-ready", c.ref>> \in EmissionAt(p, "closures").atoms
  <2>1. <<"closure-ready", c.ref>> \in ClosureEmissions(p)[c].atoms
    BY ClosureParts
  <2> QED
    BY <2>1, EmissionsJoin DEF Joins
<1>4. ASSUME NEW f \in p.faces
      PROVE  {<<"face", f.ref>>, <<"has-open-challenge", f.ref>>, <<"clear", f.ref>>}
               \subseteq EmissionAt(p, "faces").atoms
  <2>1. FaceEmissions(p)[f].atoms =
          {<<"face", f.ref>>, <<"has-open-challenge", f.ref>>, <<"clear", f.ref>>}
    BY FaceParts
  <2> QED
    BY <2>1, EmissionsJoin DEF Joins
<1>5. ASSUME NEW r \in p.rules
      PROVE  <<"live-case", r.ref>> \in EmissionAt(p, "rules").atoms
  <2>1. <<"live-case", r.ref>> \in RuleEmissions(p)[r].atoms
    BY RuleParts
  <2> QED
    BY <2>1, EmissionsJoin DEF Joins
<1>6. ASSUME NEW c \in p.challenges
      PROVE  {<<"challenge-case", c.ref>>, <<"discharged", c.ref>>, <<"open-challenge", c.ref>>}
               \subseteq EmissionAt(p, "challenges").atoms
  <2>1. ChallengeEmissions(p)[c].atoms =
          {<<"challenge-case", c.ref>>, <<"discharged", c.ref>>, <<"open-challenge", c.ref>>}
    BY ChallengeParts
  <2> QED
    BY <2>1, EmissionsJoin DEF Joins
<1>7. ASSUME NEW d \in p.discharges
      PROVE  {<<"type-match", d.ref>>, <<"discharge-case", d.ref>>}
               \subseteq EmissionAt(p, "discharges").atoms
  <2>1. DischargeEmissions(p)[d].atoms = {<<"type-match", d.ref>>, <<"discharge-case", d.ref>>}
    BY DischargeParts
  <2> QED
    BY <2>1, EmissionsJoin DEF Joins
<1> QED
  BY <1>1, <1>2, <1>3, <1>4, <1>5, <1>6, <1>7

(* A link leads to the atoms of the record it finds.                       *)
LEMMA LinksLead ==
  ASSUME NEW p, Constructed(p), NEW functions
  PROVE  /\ "atoms" \in functions =>
              \A ref, a : Points(p, ref, "ATOM", a) =>
                <<"source-atom", ref>> \in Universe(p, functions)
         /\ "certificates" \in functions =>
              \A ref, k : Points(p, ref, "CERTIFICATE", k) =>
                <<"cert-valid", ref>> \in Universe(p, functions)
         /\ "closures" \in functions =>
              \A ref, c : Points(p, ref, "CLOSURE", c) =>
                <<"closure-ready", ref>> \in Universe(p, functions)
         /\ "faces" \in functions =>
              \A ref, f : Points(p, ref, "FACE", f) =>
                /\ <<"clear", ref>> \in Universe(p, functions)
                /\ <<"has-open-challenge", ref>> \in Universe(p, functions)
         /\ "challenges" \in functions =>
              \A ref, c : Points(p, ref, "CHALLENGE", c) =>
                <<"discharged", ref>> \in Universe(p, functions)
<1>1. \A f \in functions : EmissionAt(p, f).atoms \subseteq Universe(p, functions)
  BY DEF Universe
<1>2. \A ref, a : Points(p, ref, "ATOM", a) => a \in p.atoms /\ a.ref = ref
  BY RecordsByKind DEF Points
<1>3. \A ref, k : Points(p, ref, "CERTIFICATE", k) => k \in p.certificates /\ k.ref = ref
  BY RecordsByKind DEF Points
<1>4. \A ref, c : Points(p, ref, "CLOSURE", c) => c \in p.closures /\ c.ref = ref
  BY RecordsByKind DEF Points
<1>5. \A ref, f : Points(p, ref, "FACE", f) => f \in p.faces /\ f.ref = ref
  BY RecordsByKind DEF Points
<1>6. \A ref, c : Points(p, ref, "CHALLENGE", c) => c \in p.challenges /\ c.ref = ref
  BY RecordsByKind DEF Points
<1>7. ASSUME "atoms" \in functions, NEW ref, NEW a, Points(p, ref, "ATOM", a)
      PROVE  <<"source-atom", ref>> \in Universe(p, functions)
  <2>1. <<"source-atom", a.ref>> \in EmissionAt(p, "atoms").atoms
    BY <1>2, <1>7, AtomsEmitted
  <2> QED
    BY <1>1, <1>2, <1>7, <2>1
<1>8. ASSUME "certificates" \in functions, NEW ref, NEW k, Points(p, ref, "CERTIFICATE", k)
      PROVE  <<"cert-valid", ref>> \in Universe(p, functions)
  <2>1. <<"cert-valid", k.ref>> \in EmissionAt(p, "certificates").atoms
    BY <1>3, <1>8, AtomsEmitted
  <2> QED
    BY <1>1, <1>3, <1>8, <2>1
<1>9. ASSUME "closures" \in functions, NEW ref, NEW c, Points(p, ref, "CLOSURE", c)
      PROVE  <<"closure-ready", ref>> \in Universe(p, functions)
  <2>1. <<"closure-ready", c.ref>> \in EmissionAt(p, "closures").atoms
    BY <1>4, <1>9, AtomsEmitted
  <2> QED
    BY <1>1, <1>4, <1>9, <2>1
<1>10. ASSUME "faces" \in functions, NEW ref, NEW f, Points(p, ref, "FACE", f)
       PROVE  /\ <<"clear", ref>> \in Universe(p, functions)
              /\ <<"has-open-challenge", ref>> \in Universe(p, functions)
  <2>1. {<<"face", f.ref>>, <<"has-open-challenge", f.ref>>, <<"clear", f.ref>>}
          \subseteq EmissionAt(p, "faces").atoms
    BY <1>5, <1>10, AtomsEmitted
  <2> QED
    BY <1>1, <1>5, <1>10, <2>1
<1>11. ASSUME "challenges" \in functions, NEW ref, NEW c, Points(p, ref, "CHALLENGE", c)
       PROVE  <<"discharged", ref>> \in Universe(p, functions)
  <2>1. {<<"challenge-case", c.ref>>, <<"discharged", c.ref>>, <<"open-challenge", c.ref>>}
          \subseteq EmissionAt(p, "challenges").atoms
    BY <1>6, <1>11, AtomsEmitted
  <2> QED
    BY <1>1, <1>6, <1>11, <2>1
<1> QED
  BY <1>7, <1>8, <1>9, <1>10, <1>11

(* A challenge that is compiled is a rebut or is aimed at a face: what the *)
(* compiler defers and what the registry lets a challenge aim at leave     *)
(* nothing else.                                                           *)
LEMMA ChallengeAims ==
  ASSUME NEW p, Compilable(p), NEW c \in p.challenges, c.kind # "rebut"
  PROVE  c.kind \in FaceBlockingKinds /\ \E f : Points(p, c.target, "FACE", f)
<1>1. /\ c.kind \in Registry.challenge_kinds
      /\ c.target_kind \in Registry.targets[c.kind].kinds
      /\ \E t : Points(p, c.target, c.target_kind, t)
  BY ChallengeLinks DEF Compilable
<1>2. DeferredCode(c) = "NONE"
  BY DEF Compilable, ChallengeFaults
<1>3. c.kind \in FaceBlockingKinds
  <2>1. c.kind \notin {"revoke", "currentness_gap", "defect"}
    BY <1>2 DEF DeferredCode
  <2> QED
    BY <1>2, <2>1 DEF DeferredCode, DeferredKinds
<1>4. ~ (c.kind \in RuleTargetBlockingKinds /\ c.target_kind = "RULE")
  BY <1>2, <1>3 DEF DeferredCode, FaceBlockingKinds, DeferredKinds
<1>5. c.kind \in DOMAIN Registry.targets
  BY <1>1, RegistryAssumption DEF CoherentRegistry
<1>6. c.target_kind \in CoreTargets[c.kind].kinds
  <2>1. c.kind \in DOMAIN CoreTargets
    BY <1>3 DEF FaceBlockingKinds, CoreTargets
  <2> QED
    BY <1>1, <1>5, <2>1, RegistryAssumption DEF CoherentRegistry, WithinCoreTargets
<1>7. c.target_kind = "FACE"
  <2>1. /\ CoreTargets["undercut"].kinds = {"RULE", "FACE"}
        /\ CoreTargets["wound"].kinds = {"RULE", "FACE"}
        /\ CoreTargets["localisation_gap"].kinds = {"FACE"}
        /\ CoreTargets["recovery_gap"].kinds = {"FACE"}
        /\ CoreTargets["closure_gap"].kinds = {"FACE"}
    BY DEF CoreTargets, BlockingTargets
  <2> QED
    BY <1>3, <1>4, <1>6, <2>1 DEF FaceBlockingKinds, RuleTargetBlockingKinds
<1> QED
  BY <1>1, <1>3, <1>7

LEMMA ClearFaceLeads ==
  ASSUME NEW p, Compilable(p), NEW f \in p.faces
  PROVE  /\ RuleAtoms(ClearFace(f)) \subseteq Universe(p, {"closures", "faces"})
         /\ Concluded(p, ClearFace(f).head)
<1>1. /\ ClearFace(f).head = <<"clear", f.ref>>
      /\ ClearFace(f).positive = {<<"face", f.ref>>, <<"closure-ready", f.blocker_closure>>}
      /\ ClearFace(f).negative = {<<"has-open-challenge", f.ref>>}
  BY DEF ClearFace, GroundRule
<1> DEFINE all == Universe(p, {"closures", "faces"})
<1>2. <<"closure-ready", f.blocker_closure>> \in all
  <2>1. PICK c : Points(p, f.blocker_closure, "CLOSURE", c)
    BY FaceLinks DEF Compilable
  <2> QED
    BY <2>1, LinksLead DEF Compilable
<1>3. {<<"face", f.ref>>, <<"has-open-challenge", f.ref>>, <<"clear", f.ref>>} \subseteq all
  BY AtomsEmitted DEF Universe, Compilable
<1>4. Concluded(p, <<"clear", f.ref>>)
  BY DEF Concluded
<1> QED
  BY <1>1, <1>2, <1>3, <1>4 DEF RuleAtoms

LEMMA HeadsConcluded ==
  ASSUME NEW p, NEW ref, \E a : Points(p, ref, "ATOM", a) /\ ~ a.primitive
  PROVE  Concluded(p, <<"source-atom", ref>>)
  BY RecordsByKind DEF Points, Concluded

LEMMA RuleCaseLeads ==
  ASSUME NEW p, Compilable(p), NEW r \in p.rules
  PROVE  /\ RuleAtoms(RuleCase(r)) \cup RuleAtoms(HeadBridge(r))
              \subseteq Universe(p, {"atoms", "certificates", "closures", "faces", "rules"})
         /\ Concluded(p, RuleCase(r).head) /\ Concluded(p, HeadBridge(r).head)
<1> DEFINE all == Universe(p, {"atoms", "certificates", "closures", "faces", "rules"})
<1>1. /\ RuleCase(r).head = <<"live-case", r.ref>>
      /\ RuleCase(r).positive =
           {<<"cert-valid", r.certificate>>} \cup SourceAtoms(r.positive)
             \cup {<<"clear", f>> : f \in r.faces}
             \cup {<<"closure-ready", n.closure>> : n \in r.negative}
      /\ RuleCase(r).negative = SourceAtoms({n.atom : n \in r.negative})
      /\ HeadBridge(r).head = <<"source-atom", r.head>>
      /\ HeadBridge(r).positive = {<<"live-case", r.ref>>} /\ HeadBridge(r).negative = {}
  BY DEF RuleCase, HeadBridge, GroundRule
<1>2. \A ref, a : Points(p, ref, "ATOM", a) => <<"source-atom", ref>> \in all
  BY LinksLead DEF Compilable
<1>3. \A ref, k : Points(p, ref, "CERTIFICATE", k) => <<"cert-valid", ref>> \in all
  BY LinksLead DEF Compilable
<1>4. \A ref, c : Points(p, ref, "CLOSURE", c) => <<"closure-ready", ref>> \in all
  BY LinksLead DEF Compilable
<1>5. \A ref, f : Points(p, ref, "FACE", f) => <<"clear", ref>> \in all
  BY LinksLead DEF Compilable
<1>6. <<"live-case", r.ref>> \in all
  BY AtomsEmitted DEF Universe, Compilable
<1>7. /\ \E a : Points(p, r.head, "ATOM", a) /\ ~ a.primitive
      /\ \A b \in r.positive : \E a : Points(p, b, "ATOM", a)
      /\ \A n \in r.negative : \E a : Points(p, n.atom, "ATOM", a)
      /\ \A n \in r.negative : \E c : Points(p, n.closure, "CLOSURE", c)
      /\ \E k : Points(p, r.certificate, "CERTIFICATE", k)
      /\ \A f \in r.faces : \E face : Points(p, f, "FACE", face)
  BY RuleLinks DEF Compilable
<1> HIDE DEF all
<1>8. RuleCase(r).positive \subseteq all
  BY <1>1, <1>2, <1>3, <1>4, <1>5, <1>7 DEF SourceAtoms
<1>9. RuleCase(r).negative \subseteq all
  BY <1>1, <1>2, <1>7 DEF SourceAtoms
<1>10. RuleAtoms(RuleCase(r)) \cup RuleAtoms(HeadBridge(r)) \subseteq all
  BY <1>1, <1>2, <1>6, <1>7, <1>8, <1>9 DEF RuleAtoms
<1>11. Concluded(p, <<"live-case", r.ref>>)
  BY DEF Concluded
<1> QED
  BY <1>1, <1>7, <1>10, <1>11, HeadsConcluded DEF all

LEMMA ChallengeRulesLead ==
  ASSUME NEW p, Compilable(p), NEW c \in p.challenges,
         NEW g \in {CaseRule(c), OpenRule(c), EffectRule(c)}
  PROVE  /\ RuleAtoms(g) \subseteq
              Universe(p, {"atoms", "certificates", "closures", "faces", "challenges"})
         /\ Concluded(p, g.head)
<1> DEFINE all == Universe(p, {"atoms", "certificates", "closures", "faces", "challenges"})
<1>1. {<<"challenge-case", c.ref>>, <<"discharged", c.ref>>, <<"open-challenge", c.ref>>}
        \subseteq all
  BY AtomsEmitted DEF Universe, Compilable
<1>2. <<"cert-valid", c.certificate>> \in all
  <2>1. PICK k : Points(p, c.certificate, "CERTIFICATE", k)
    BY ChallengeLinks DEF Compilable
  <2> QED
    BY <2>1, LinksLead DEF Compilable
<1>3. <<"closure-ready", c.discharge_closure>> \in all
  <2>1. PICK q : Points(p, c.discharge_closure, "CLOSURE", q)
    BY ChallengeLinks DEF Compilable
  <2> QED
    BY <2>1, LinksLead DEF Compilable
<1>4. CASE g = CaseRule(c)
  <2>1. /\ g.head = <<"challenge-case", c.ref>> /\ g.negative = {}
        /\ g.positive = {<<"cert-valid", c.certificate>>}
    BY <1>4 DEF CaseRule, GroundRule
  <2> QED
    BY <1>1, <1>2, <2>1 DEF RuleAtoms, Concluded
<1>5. CASE g = OpenRule(c)
  <2>1. /\ g.head = <<"open-challenge", c.ref>>
        /\ g.positive = {<<"challenge-case", c.ref>>, <<"closure-ready", c.discharge_closure>>}
        /\ g.negative = {<<"discharged", c.ref>>}
    BY <1>5 DEF OpenRule, GroundRule
  <2> QED
    BY <1>1, <1>3, <2>1 DEF RuleAtoms, Concluded
<1>6. CASE g = EffectRule(c) /\ c.kind = "rebut"
  <2>1. /\ g.head = <<"source-atom", c.contrary_atom>> /\ g.negative = {}
        /\ g.positive = {<<"open-challenge", c.ref>>}
    BY <1>6 DEF EffectRule, GroundRule
  <2>2. PICK a : Points(p, c.contrary_atom, "ATOM", a) /\ ~ a.primitive
    BY <1>6, ChallengeLinks DEF Compilable
  <2>3. g.head \in all
    BY <2>1, <2>2, LinksLead DEF Compilable
  <2>4. Concluded(p, g.head)
    BY <2>1, <2>2, HeadsConcluded
  <2> QED
    BY <1>1, <2>1, <2>3, <2>4 DEF RuleAtoms
<1>7. CASE g = EffectRule(c) /\ c.kind # "rebut"
  <2>1. /\ g.head = <<"has-open-challenge", c.target>> /\ g.negative = {}
        /\ g.positive = {<<"open-challenge", c.ref>>}
    BY <1>7 DEF EffectRule, GroundRule
  <2>2. PICK f : Points(p, c.target, "FACE", f)
    BY <1>7, ChallengeAims
  <2>3. <<"has-open-challenge", c.target>> \in all
    BY <2>2, LinksLead DEF Compilable
  <2> QED
    BY <1>1, <2>1, <2>3 DEF RuleAtoms, Concluded
<1> QED
  BY <1>4, <1>5, <1>6, <1>7

LEMMA DischargeRulesLead ==
  ASSUME NEW p, Compilable(p), NEW d \in p.discharges,
         NEW g \in {DischargeCase(d), DischargedBridge(d)}
  PROVE  /\ RuleAtoms(g) \subseteq Universe(p, {"certificates", "challenges", "discharges"})
         /\ Concluded(p, g.head)
<1> DEFINE all == Universe(p, {"certificates", "challenges", "discharges"})
<1>1. {<<"type-match", d.ref>>, <<"discharge-case", d.ref>>} \subseteq all
  BY AtomsEmitted DEF Universe, Compilable
<1>2. <<"cert-valid", d.certificate>> \in all
  <2>1. PICK k : Points(p, d.certificate, "CERTIFICATE", k)
    BY DischargeLinks DEF Compilable
  <2> QED
    BY <2>1, LinksLead DEF Compilable
<1>3. <<"discharged", d.challenge>> \in all
  <2>1. PICK c : Points(p, d.challenge, "CHALLENGE", c)
    BY DischargeLinks DEF Compilable
  <2> QED
    BY <2>1, LinksLead DEF Compilable
<1>4. CASE g = DischargeCase(d)
  <2>1. /\ g.head = <<"discharge-case", d.ref>> /\ g.negative = {}
        /\ g.positive = {<<"cert-valid", d.certificate>>, <<"type-match", d.ref>>}
    BY <1>4 DEF DischargeCase, GroundRule
  <2> QED
    BY <1>1, <1>2, <2>1 DEF RuleAtoms, Concluded
<1>5. CASE g = DischargedBridge(d)
  <2>1. /\ g.head = <<"discharged", d.challenge>> /\ g.negative = {}
        /\ g.positive = {<<"discharge-case", d.ref>>}
    BY <1>5 DEF DischargedBridge, GroundRule
  <2> QED
    BY <1>1, <1>3, <2>1 DEF RuleAtoms, Concluded
<1> QED
  BY <1>4, <1>5

(* No function emits a rule before the atoms it is about.                  *)
LEMMA RulesLead ==
  ASSUME NEW p, Compilable(p), NEW f \in Functions, NEW g \in EmissionAt(p, f).rules
  PROVE  /\ RuleAtoms(g) \subseteq Universe(p, Ran[f] \cup {f})
         /\ Concluded(p, g.head)
<1>1. CASE f = "atoms"
  BY <1>1 DEF EmissionAt, SourceAtomEmission, Emission
<1>2. CASE f = "certificates"
  <2>1. \A k \in p.certificates : CertificateEmissions(p)[k].rules = {}
    BY CertificateParts DEF Compilable
  <2> QED
    BY <1>2, <2>1, EmissionsJoin DEF Joins
<1>3. CASE f = "closures"
  <2>1. \A c \in p.closures : ClosureEmissions(p)[c].rules = {}
    BY ClosureParts DEF Compilable
  <2> QED
    BY <1>3, <2>1, EmissionsJoin DEF Joins
<1>4. CASE f = "faces"
  <2>1. PICK x \in p.faces : g = ClearFace(x)
    BY <1>4, EmissionsJoin, FaceParts DEF Joins
  <2>2. {"closures", "faces"} \subseteq Ran[f] \cup {f}
    BY <1>4 DEF Ran
  <2> QED
    BY <2>1, <2>2, ClearFaceLeads DEF Universe
<1>5. CASE f = "rules"
  <2>1. PICK x \in p.rules : g \in {RuleCase(x), HeadBridge(x)}
    BY <1>5, EmissionsJoin, RuleParts DEF Joins
  <2>2. {"atoms", "certificates", "closures", "faces", "rules"} \subseteq Ran[f] \cup {f}
    BY <1>5 DEF Ran
  <2> QED
    BY <2>1, <2>2, RuleCaseLeads DEF Universe
<1>6. CASE f = "challenges"
  <2>1. PICK x \in p.challenges : g \in {CaseRule(x), OpenRule(x), EffectRule(x)}
    BY <1>6, EmissionsJoin, ChallengeParts DEF Joins
  <2>2. {"atoms", "certificates", "closures", "faces", "challenges"} \subseteq Ran[f] \cup {f}
    BY <1>6 DEF Ran
  <2> QED
    BY <2>1, <2>2, ChallengeRulesLead DEF Universe
<1>7. CASE f = "discharges"
  <2> DEFINE rules(x) == {DischargeCase(x), DischargedBridge(x)}
  <2>0. \A x \in p.discharges : DischargeEmissions(p)[x].rules = rules(x)
    BY DischargeParts
  <2>1. PICK x \in p.discharges : g \in rules(x)
    BY <1>7, <2>0, EmissionsJoin DEF Joins
  <2>2. {"certificates", "challenges", "discharges"} \subseteq Ran[f] \cup {f}
    BY <1>7 DEF Ran, Functions
  <2> QED
    BY <2>1, <2>2, DischargeRulesLead DEF Universe
<1> QED
  BY <1>1, <1>2, <1>3, <1>4, <1>5, <1>6, <1>7 DEF Functions

-----------------------------------------------------------------------------
(* The builder after some of the functions.                                *)
Gathers(b, p, functions) ==
  /\ DOMAIN b = DOMAIN EmptyBuilder
  /\ b.atoms = Universe(p, functions)
  /\ b.rules = UNION {EmissionAt(p, f).rules : f \in functions}
  /\ b.origins = UNION {OriginsOf(EmissionAt(p, f)) : f \in functions}
  /\ b.live = UNION {EmissionAt(p, f).live : f \in functions}
  /\ b.excluded = UNION {EmissionAt(p, f).excluded : f \in functions}
  /\ b.open = UNION {EmissionAt(p, f).open : f \in functions}

SourceOf(artifact, ref) ==
  IF artifact = "atom" THEN <<AtomOwner(ref), ref[2]>> ELSE <<RuleOwner(ref), ref[2]>>

LEMMA OriginsTell ==
  ASSUME NEW e, OwnsItsArtifacts(e), NEW o \in OriginsOf(e)
  PROVE  /\ o = [artifact |-> o.artifact, ref |-> o.ref, source |-> SourceOf(o.artifact, o.ref)]
         /\ \/ o.artifact = "atom" /\ o.ref \in e.atoms
            \/ o.artifact = "rule" /\ \E r \in e.rules : o.ref = r.id
<1>1. ASSUME NEW a \in e.atoms, o = [artifact |-> "atom", ref |-> a, source |-> <<e.kind, a[2]>>]
      PROVE  /\ o = [artifact |-> o.artifact, ref |-> o.ref, source |-> SourceOf(o.artifact, o.ref)]
             /\ o.artifact = "atom" /\ o.ref \in e.atoms
  BY <1>1 DEF OwnsItsArtifacts, SourceOf
<1>2. ASSUME NEW r \in e.rules,
             o = [artifact |-> "rule", ref |-> r.id, source |-> <<e.kind, r.id[2]>>]
      PROVE  /\ o = [artifact |-> o.artifact, ref |-> o.ref, source |-> SourceOf(o.artifact, o.ref)]
             /\ o.artifact = "rule" /\ o.ref = r.id
  BY <1>2 DEF OwnsItsArtifacts, SourceOf
<1>3. \/ \E a \in e.atoms : o = [artifact |-> "atom", ref |-> a, source |-> <<e.kind, a[2]>>]
      \/ \E r \in e.rules :
           o = [artifact |-> "rule", ref |-> r.id, source |-> <<e.kind, r.id[2]>>]
  BY DEF OriginsOf
<1> QED
  BY <1>1, <1>2, <1>3

LEMMA KindsDiffer ==
  ASSUME NEW f \in Functions, NEW g \in Functions, KindAt[f] = KindAt[g]
  PROVE  f = g
  BY DEF Functions, KindAt

(* Two functions have no atom and no rule in common.                       *)
LEMMA FunctionsDiffer ==
  ASSUME NEW p, Admitted(p), Constructed(p), NEW f \in Functions, NEW g \in Functions
  PROVE  /\ EmissionAt(p, f).atoms \cap EmissionAt(p, g).atoms # {} => f = g
         /\ \A r \in EmissionAt(p, f).rules, s \in EmissionAt(p, g).rules :
              r.id = s.id => f = g /\ r = s
<1>1. /\ EmissionAt(p, f).kind = KindAt[f] /\ OwnsItsArtifacts(EmissionAt(p, f))
      /\ EmissionAt(p, g).kind = KindAt[g] /\ OwnsItsArtifacts(EmissionAt(p, g))
  BY EmissionsJoin, EmissionsSound
<1>2. KindAt[f] = KindAt[g] => f = g
  BY KindsDiffer
<1> QED
  BY <1>1, <1>2 DEF OwnsItsArtifacts

LEMMA GatheredSound ==
  ASSUME NEW p, Compilable(p), NEW functions \in SUBSET Functions,
         NEW b, Gathers(b, p, functions)
  PROVE  /\ \A o, q \in b.origins : o.artifact = q.artifact /\ o.ref = q.ref => o = q
         /\ \A g, h \in b.rules : g.id = h.id => g = h
         /\ b.live \cup b.excluded \cup b.open \subseteq b.atoms
         /\ b.live \cap b.excluded = {} /\ b.live \cap b.open = {}
         /\ b.excluded \cap b.open = {}
         /\ \A a \in b.live \cup b.excluded \cup b.open : Given(p, a)
         /\ \A g \in b.rules : Concluded(p, g.head)
<1>1. \A f \in functions : /\ OwnsItsArtifacts(EmissionAt(p, f))
                           /\ PlacesItsAtoms(p, EmissionAt(p, f))
  BY EmissionsSound DEF Compilable
<1>2. \A f, g \in functions : EmissionAt(p, f).atoms \cap EmissionAt(p, g).atoms # {} => f = g
  BY FunctionsDiffer DEF Compilable
<1>3. \A o, q \in b.origins : o.artifact = q.artifact /\ o.ref = q.ref => o = q
  <2>1. \A o \in b.origins :
          o = [artifact |-> o.artifact, ref |-> o.ref, source |-> SourceOf(o.artifact, o.ref)]
    BY <1>1, OriginsTell DEF Gathers
  <2> QED
    BY <2>1
<1>4. ASSUME NEW g \in b.rules, NEW h \in b.rules, g.id = h.id
      PROVE  g = h
  <2>1. PICK f \in functions : g \in EmissionAt(p, f).rules
    BY DEF Gathers
  <2>2. PICK k \in functions : h \in EmissionAt(p, k).rules
    BY DEF Gathers
  <2> QED
    BY <1>4, <2>1, <2>2, FunctionsDiffer DEF Compilable
<1>5. /\ b.live \cup b.excluded \cup b.open \subseteq b.atoms
      /\ \A a \in b.live \cup b.excluded \cup b.open : Given(p, a)
  BY <1>1 DEF Gathers, PlacesItsAtoms, Universe
<1>6. b.live \cap b.excluded = {} /\ b.live \cap b.open = {} /\ b.excluded \cap b.open = {}
  <2>1. \A f \in functions :
          LET e == EmissionAt(p, f)
          IN  /\ e.live \subseteq e.atoms /\ e.excluded \subseteq e.atoms
              /\ e.open \subseteq e.atoms
              /\ e.live \cap e.excluded = {} /\ e.live \cap e.open = {}
              /\ e.excluded \cap e.open = {}
    BY <1>1 DEF PlacesItsAtoms
  <2> QED
    BY <1>2, <2>1 DEF Gathers
<1>7. \A g \in b.rules : Concluded(p, g.head)
  BY RulesLead DEF Gathers
<1> QED
  BY <1>3, <1>4, <1>5, <1>6, <1>7

LEMMA AbsorbAdds ==
  ASSUME NEW b, DOMAIN b = DOMAIN EmptyBuilder, NEW e
  PROVE  LET after == Absorb(b, e)
         IN  /\ DOMAIN after = DOMAIN EmptyBuilder
             /\ after.atoms = b.atoms \cup e.atoms /\ after.rules = b.rules \cup e.rules
             /\ after.origins = b.origins \cup OriginsOf(e)
             /\ after.live = b.live \cup e.live /\ after.excluded = b.excluded \cup e.excluded
             /\ after.open = b.open \cup e.open
             /\ after.contraries = b.contraries
  BY DEF Absorb, EmptyBuilder

LEMMA AbsorbGathers ==
  ASSUME NEW p, NEW functions, NEW f, NEW b, Gathers(b, p, functions)
  PROVE  /\ Gathers(Absorb(b, EmissionAt(p, f)), p, functions \cup {f})
         /\ Absorb(b, EmissionAt(p, f)).contraries = b.contraries
<1> DEFINE e == EmissionAt(p, f)
           after == Absorb(b, e)
<1>1. /\ DOMAIN after = DOMAIN EmptyBuilder
      /\ after.atoms = b.atoms \cup e.atoms /\ after.rules = b.rules \cup e.rules
      /\ after.origins = b.origins \cup OriginsOf(e)
      /\ after.live = b.live \cup e.live /\ after.excluded = b.excluded \cup e.excluded
      /\ after.open = b.open \cup e.open
      /\ after.contraries = b.contraries
  BY AbsorbAdds DEF Gathers
<1>2. /\ b.atoms \cup e.atoms = Universe(p, functions \cup {f})
      /\ b.rules \cup e.rules = UNION {EmissionAt(p, g).rules : g \in functions \cup {f}}
      /\ b.origins \cup OriginsOf(e) =
           UNION {OriginsOf(EmissionAt(p, g)) : g \in functions \cup {f}}
      /\ b.live \cup e.live = UNION {EmissionAt(p, g).live : g \in functions \cup {f}}
      /\ b.excluded \cup e.excluded =
           UNION {EmissionAt(p, g).excluded : g \in functions \cup {f}}
      /\ b.open \cup e.open = UNION {EmissionAt(p, g).open : g \in functions \cup {f}}
  BY DEF Gathers, Universe
<1> HIDE DEF after
<1>3. Gathers(after, p, functions \cup {f})
  BY <1>1, <1>2 DEF Gathers
<1> QED
  BY <1>1, <1>3 DEF after

(* None of the builder's assertions fails on what a function adds.         *)
LEMMA NothingAsserts ==
  ASSUME NEW p, Compilable(p), NEW functions \in SUBSET Functions,
         NEW f \in Functions \ functions, NEW b, Gathers(b, p, functions)
  PROVE  ~ Asserts(b, EmissionAt(p, f))
<1> DEFINE e == EmissionAt(p, f)
           after == Absorb(b, e)
<1>1. Gathers(after, p, functions \cup {f})
  BY AbsorbGathers
<1>2. functions \cup {f} \in SUBSET Functions
  OBVIOUS
<1>3. /\ \A o, q \in after.origins : o.artifact = q.artifact /\ o.ref = q.ref => o = q
      /\ after.live \cap after.excluded = {} /\ after.live \cap after.open = {}
      /\ after.excluded \cap after.open = {}
  BY <1>1, <1>2, GatheredSound
<1>4. ~ AtomIdentityCollision(b, e)
  <2>1. after.origins = b.origins \cup OriginsOf(e)
    BY AbsorbAdds DEF Gathers
  <2> QED
    BY <1>3, <2>1 DEF AtomIdentityCollision
<1>5. ~ RuleIdentityCollision(b, e)
  <2>1. ASSUME NEW old \in b.rules, NEW new \in e.rules, old.id = new.id
        PROVE  FALSE
    <3>1. PICK g \in functions : old \in EmissionAt(p, g).rules
      BY DEF Gathers
    <3> QED
      BY <2>1, <3>1, FunctionsDiffer DEF Compilable
  <2>2. \A r, s \in e.rules : r.id = s.id => r = s
    BY FunctionsDiffer DEF Compilable
  <2> QED
    BY <2>1, <2>2 DEF RuleIdentityCollision
<1>6. ~ PlacedOutsideUniverse(b, e)
  <2>1. e.live \cup e.excluded \cup e.open \subseteq e.atoms
    BY EmissionsSound DEF Compilable, PlacesItsAtoms
  <2> QED
    BY <2>1 DEF PlacedOutsideUniverse
<1>7. ~ OverlappingPartitions(b, e)
  BY <1>3 DEF OverlappingPartitions
<1> QED
  BY <1>4, <1>5, <1>6, <1>7 DEF Asserts

(* When all functions have run, build has nothing to object to.            *)
CompiledContraries(p) == {SourceAtoms({x.left, x.right}) : x \in p.contraries}

LEMMA ContrariesLead ==
  ASSUME NEW p, Admitted(p), Constructed(p), NEW x \in p.contraries
  PROVE  SourceAtoms({x.left, x.right}) \subseteq Universe(p, Functions)
<1>1. ContraryIssues(p, x) = {} /\ DuplicateRefs(p) = {}
  BY AdmittedMeans
<1>2. Links(p, x.left, "ATOM") /\ Links(p, x.right, "ATOM")
  BY <1>1 DEF ContraryIssues, Links
<1>3. PICK a : Points(p, x.left, "ATOM", a)
  BY <1>1, <1>2, LinkPoints
<1>4. PICK b : Points(p, x.right, "ATOM", b)
  BY <1>1, <1>2, LinkPoints
<1>5. "atoms" \in Functions
  BY DEF Functions
<1>6. /\ <<"source-atom", x.left>> \in Universe(p, Functions)
      /\ <<"source-atom", x.right>> \in Universe(p, Functions)
  BY <1>3, <1>4, <1>5, LinksLead
<1> QED
  BY <1>6 DEF SourceAtoms

LEMMA BuildAccepts ==
  ASSUME NEW p, Compilable(p), NEW b, Gathers(b, p, Functions),
         b.contraries = CompiledContraries(p)
  PROVE  /\ Ground!WellFormed(ProgramOf(b))
         /\ OriginsCoverArtifacts(b)
         /\ ContrariesAreGround(b)
<1> DEFINE g == ProgramOf(b)
<1>1. /\ \A o, q \in b.origins : o.artifact = q.artifact /\ o.ref = q.ref => o = q
      /\ \A r, s \in b.rules : r.id = s.id => r = s
      /\ b.live \cup b.excluded \cup b.open \subseteq b.atoms
      /\ b.live \cap b.excluded = {} /\ b.live \cap b.open = {} /\ b.excluded \cap b.open = {}
  BY GatheredSound
<1>2. \A r \in b.rules : RuleAtoms(r) \subseteq b.atoms
  <2>1. ASSUME NEW f \in Functions, NEW r \in EmissionAt(p, f).rules
        PROVE  RuleAtoms(r) \subseteq Universe(p, Functions)
    <3>1. Ran[f] \cup {f} \subseteq Functions
      BY DEF Ran, Functions
    <3> QED
      BY <3>1, RulesLead DEF Universe
  <2> QED
    BY <2>1 DEF Gathers
<1>3. Ground!WellFormed(g)
  <2>1. /\ g.atoms = b.atoms /\ g.rules = b.rules /\ g.base_live = b.live
        /\ g.base_excluded = b.excluded /\ g.protected_open = b.open
    BY DEF ProgramOf
  <2>2. Ground!DuplicateRuleIds(g) = {}
    BY <1>1, <2>1 DEF Ground!DuplicateRuleIds
  <2>3. Ground!UnknownAtoms(g) = {}
    BY <1>1, <1>2, <2>1 DEF Ground!UnknownAtoms, Ground!Referenced, RuleAtoms
  <2>4. Ground!BaseCollision(g) = {} /\ Ground!OpenCollision(g) = {}
    BY <1>1, <2>1 DEF Ground!BaseCollision, Ground!OpenCollision
  <2> QED
    BY <2>2, <2>3, <2>4 DEF Ground!WellFormed
<1>4. OriginsCoverArtifacts(b)
  <2>1. ASSUME NEW o \in b.origins
        PROVE  \/ \E a \in b.atoms : <<o.artifact, o.ref>> = <<"atom", a>>
               \/ \E r \in b.rules : <<o.artifact, o.ref>> = <<"rule", r.id>>
    <3>1. PICK f \in Functions : o \in OriginsOf(EmissionAt(p, f))
      BY DEF Gathers
    <3>2. OwnsItsArtifacts(EmissionAt(p, f))
      BY EmissionsSound DEF Compilable
    <3>3. \/ o.artifact = "atom" /\ o.ref \in EmissionAt(p, f).atoms
          \/ o.artifact = "rule" /\ \E r \in EmissionAt(p, f).rules : o.ref = r.id
      BY <3>1, <3>2, OriginsTell
    <3> QED
      BY <3>3 DEF Gathers, Universe
  <2>2. ASSUME NEW a \in b.atoms
        PROVE  \E o \in b.origins : o.artifact = "atom" /\ o.ref = a
    <3>1. PICK f \in Functions : a \in EmissionAt(p, f).atoms
      BY DEF Gathers, Universe
    <3>2. [artifact |-> "atom", ref |-> a, source |-> <<EmissionAt(p, f).kind, a[2]>>]
            \in OriginsOf(EmissionAt(p, f))
      BY <3>1 DEF OriginsOf
    <3> QED
      BY <3>2 DEF Gathers
  <2>3. ASSUME NEW r \in b.rules
        PROVE  \E o \in b.origins : o.artifact = "rule" /\ o.ref = r.id
    <3>1. PICK f \in Functions : r \in EmissionAt(p, f).rules
      BY DEF Gathers
    <3>2. [artifact |-> "rule", ref |-> r.id, source |-> <<EmissionAt(p, f).kind, r.id[2]>>]
            \in OriginsOf(EmissionAt(p, f))
      BY <3>1 DEF OriginsOf
    <3> QED
      BY <3>2 DEF Gathers
  <2>4. {<<o.artifact, o.ref>> : o \in b.origins} =
          {<<"atom", a>> : a \in b.atoms} \cup {<<"rule", r.id>> : r \in b.rules}
    BY <2>1, <2>2, <2>3
  <2> QED
    BY <1>1, <2>4 DEF OriginsCoverArtifacts
<1>5. ContrariesAreGround(b)
  <2>1. b.atoms = Universe(p, Functions)
    BY DEF Gathers
  <2>2. \A x \in p.contraries : SourceAtoms({x.left, x.right}) \subseteq b.atoms
    BY <2>1, ContrariesLead DEF Compilable
  <2> QED
    BY <2>2 DEF ContrariesAreGround, CompiledContraries
<1> QED
  BY <1>3, <1>4, <1>5

-----------------------------------------------------------------------------
(* compile_package.                                                        *)
HasContraries == {"rules", "challenges", "discharges", "build", "compiled"}

Compiling ==
  /\ Reported
  /\ Constructed(package)
  /\ stage \in DOMAIN Ran
  /\ stage # "preflight" => phase = "accepted"
  /\ stage \notin {"preflight", "deferred"} => Compilable(package)
  /\ Gathers(builder, package, Ran[stage])
  /\ builder.contraries = IF stage \in HasContraries THEN CompiledContraries(package) ELSE {}
  /\ stage = "compiled" => program = ProgramOf(builder) /\ Ground!WellFormed(program)

LEMMA GathersNothing ==
  ASSUME NEW p
  PROVE  Gathers(EmptyBuilder, p, {}) /\ EmptyBuilder.contraries = {}
<1>1. /\ EmptyBuilder.atoms = {} /\ EmptyBuilder.rules = {} /\ EmptyBuilder.origins = {}
      /\ EmptyBuilder.live = {} /\ EmptyBuilder.excluded = {} /\ EmptyBuilder.open = {}
      /\ EmptyBuilder.contraries = {}
  BY DEF EmptyBuilder
<1> QED
  BY <1>1 DEF Gathers, Universe

LEMMA CompilingInit == CompileInit => Compiling
<1> SUFFICES ASSUME CompileInit
             PROVE  Compiling
  OBVIOUS
<1>1. Reported
  BY ReportedInit DEF CompileInit
<1>2. Constructed(package)
  BY PackagesAssumption DEF CompileInit, ValidateInit, Constructed
<1>3. Ran["preflight"] = {} /\ "preflight" \in DOMAIN Ran
  BY DEF Ran
<1> QED
  BY <1>1, <1>2, <1>3, GathersNothing DEF CompileInit, Compiling, HasContraries

(* One function of the compiler.                                           *)
LEMMA FunctionRuns ==
  ASSUME Compiling, NEW f \in Functions, NEW next \in DOMAIN Ran,
         f \notin Ran[f], Ran[f] \subseteq Functions, Ran[next] = Ran[f] \cup {f},
         next \notin {"preflight", "deferred", "compiled"},
         f \in HasContraries <=> next \in HasContraries,
         Function(f, next, EmissionAt(package, f))
  PROVE  Compiling'
<1>1. /\ stage = f /\ builder' = Absorb(builder, EmissionAt(package, f))
      /\ package' = package /\ phase' = phase /\ issues' = issues
      /\ stage' = IF Asserts(builder, EmissionAt(package, f)) THEN "asserted" ELSE next
  BY DEF Function, validateVars
<1>2. Compilable(package) /\ Gathers(builder, package, Ran[f]) /\ phase = "accepted"
  <2>1. f \notin {"preflight", "deferred"}
    BY DEF Functions
  <2> QED
    BY <1>1, <2>1 DEF Compiling
<1>3. ~ Asserts(builder, EmissionAt(package, f))
  BY <1>2, NothingAsserts
<1>4. /\ Gathers(builder', package, Ran[next])
      /\ builder'.contraries = builder.contraries
  BY <1>1, <1>2, AbsorbGathers
<1>5. Reported'
  BY <1>1 DEF Compiling, Reported
<1>6. stage' = next
  BY <1>1, <1>3
<1> QED
  BY <1>1, <1>2, <1>4, <1>5, <1>6 DEF Compiling

LEMMA ValidateKeeps ==
  ASSUME Compiling, Validate, UNCHANGED compileVars
  PROVE  Compiling'
<1>1. Reported'
  BY ReportedStep DEF Compiling
<1>2. phase # "accepted" /\ package' = package
  BY DEF Validate, ValidateHeaderAndIdentity, ValidateAtoms, ValidateRulesAndFaces,
     ValidateCertificatesAndClosures, ValidateContraries, ValidateChallengesAndDischarges,
     ValidateBase, Accept, Refuse, Method
<1>3. stage = "preflight"
  BY <1>2 DEF Compiling
<1> QED
  BY <1>1, <1>2, <1>3 DEF Compiling, compileVars

LEMMA CompilingStep ==
  ASSUME Compiling, CompileNext
  PROVE  Compiling'
<1>1. CASE Validate /\ UNCHANGED compileVars
  BY <1>1, ValidateKeeps
<1>2. CASE Preflight
  <2>1. /\ Reported' /\ package' = package /\ phase' = "accepted" /\ phase = "accepted"
        /\ stage = "preflight" /\ builder' = builder
    BY <1>2 DEF Preflight, validateVars, Compiling, Reported
  <2>2. Admitted(package)
    BY <2>1, AcceptedIsAdmitted DEF Compiling
  <2>3. /\ stage' \in {"atoms", "deferred"}
        /\ stage' = "atoms" => Compilable(package)
    BY <1>2, <2>2 DEF Preflight, Compiling, Compilable
  <2>4. /\ Ran["preflight"] = {} /\ Ran["atoms"] = {} /\ Ran["deferred"] = {}
        /\ {"atoms", "deferred"} \subseteq DOMAIN Ran
    BY DEF Ran
  <2> QED
    BY <2>1, <2>3, <2>4 DEF Compiling, HasContraries
<1>3. CASE CompileSourceAtoms
  <2>1. EmissionAt(package, "atoms") = SourceAtomEmission(package)
    BY DEF EmissionAt
  <2> QED
    BY <1>3, <2>1, FunctionRuns DEF CompileSourceAtoms, Functions, Ran, HasContraries
<1>4. CASE CompileCertificates
  <2>1. EmissionAt(package, "certificates") =
          Emitted("CERTIFICATE", {CertificateEmission(k) : k \in package.certificates})
    BY DEF EmissionAt
  <2> QED
    BY <1>4, <2>1, FunctionRuns DEF CompileCertificates, Functions, Ran, HasContraries
<1>5. CASE CompileClosures
  <2>1. EmissionAt(package, "closures") =
          Emitted("CLOSURE", {ClosureEmission(c) : c \in package.closures})
    BY DEF EmissionAt
  <2> QED
    BY <1>5, <2>1, FunctionRuns DEF CompileClosures, Functions, Ran, HasContraries
<1>6. CASE CompileFaces
  <2>1. EmissionAt(package, "faces") = Emitted("FACE", {FaceEmission(f) : f \in package.faces})
    BY DEF EmissionAt
  <2> QED
    BY <1>6, <2>1, FunctionRuns DEF CompileFaces, Functions, Ran, HasContraries
<1>7. CASE CompileContraries
  <2>1. /\ Reported' /\ package' = package /\ phase' = phase
        /\ stage = "contraries" /\ stage' = "rules"
    BY <1>7 DEF CompileContraries, validateVars, Compiling, Reported
  <2>2. /\ DOMAIN builder' = DOMAIN builder /\ builder'.atoms = builder.atoms
        /\ builder'.rules = builder.rules /\ builder'.origins = builder.origins
        /\ builder'.live = builder.live /\ builder'.excluded = builder.excluded
        /\ builder'.open = builder.open
    BY <1>7 DEF CompileContraries
  <2>3. builder'.contraries = CompiledContraries(package)
    BY <1>7 DEF CompileContraries, CompiledContraries, Compiling, Gathers, EmptyBuilder
  <2>4. Ran["rules"] = Ran["contraries"] /\ "rules" \in DOMAIN Ran
    BY DEF Ran
  <2>5. Gathers(builder', package, Ran["rules"])
    BY <2>1, <2>2, <2>4 DEF Compiling, Gathers
  <2> QED
    BY <2>1, <2>3, <2>4, <2>5 DEF Compiling, HasContraries
<1>8. CASE CompileRules
  <2>1. EmissionAt(package, "rules") = Emitted("RULE", {RuleEmission(r) : r \in package.rules})
    BY DEF EmissionAt
  <2> QED
    BY <1>8, <2>1, FunctionRuns DEF CompileRules, Functions, Ran, HasContraries
<1>9. CASE CompileChallenges
  <2>1. EmissionAt(package, "challenges") =
          Emitted("CHALLENGE", {ChallengeEmission(c) : c \in package.challenges})
    BY DEF EmissionAt
  <2> QED
    BY <1>9, <2>1, FunctionRuns DEF CompileChallenges, Functions, Ran, HasContraries
<1>10. CASE CompileDischarges
  <2>1. EmissionAt(package, "discharges") =
          Emitted("DISCHARGE", {DischargeEmission(package, d) : d \in package.discharges})
    BY DEF EmissionAt
  <2> QED
    BY <1>10, <2>1, FunctionRuns DEF CompileDischarges, Functions, Ran, HasContraries
<1>11. CASE Build
  <2>1. /\ Reported' /\ package' = package /\ phase' = phase /\ stage = "build"
        /\ builder' = builder /\ program' = ProgramOf(builder)
    BY <1>11 DEF Build, validateVars, Compiling, Reported
  <2>2. /\ Ran["build"] = Functions /\ Ran["compiled"] = Functions
        /\ "compiled" \in DOMAIN Ran
    BY DEF Ran
  <2>3. /\ Compilable(package) /\ Gathers(builder, package, Functions)
        /\ builder.contraries = CompiledContraries(package)
    BY <2>1, <2>2 DEF Compiling, HasContraries
  <2>4. stage' = "compiled" /\ Ground!WellFormed(program')
    BY <1>11, <2>1, <2>3, BuildAccepts DEF Build
  <2> QED
    BY <2>1, <2>2, <2>3, <2>4 DEF Compiling, HasContraries
<1> QED
  BY <1>1, <1>2, <1>3, <1>4, <1>5, <1>6, <1>7, <1>8, <1>9, <1>10, <1>11
  DEF CompileNext, Compile

-----------------------------------------------------------------------------
(* The call of evaluate that follows.                                      *)
EP == INSTANCE GroundEvaluateProofs
        WITH Atom <- AtomRole \X Ref, RuleId <- RuleRole \X Ref, Programs <- {}

(* The operators of the evaluator are those of its proofs.                 *)
LEMMA SameProgramOperators ==
  ASSUME NEW g, NEW l, NEW e, NEW u
  PROVE  /\ EP!WellFormed(g) <=> Ground!WellFormed(g)
         /\ Evaluator!WellFormed(g) <=> Ground!WellFormed(g)
         /\ Evaluator!EnabledHeads(g, l, e) = EP!EnabledHeads(g, l, e)
         /\ Evaluator!EnabledRules(g, l, e) = EP!EnabledRules(g, l, e)
         /\ Evaluator!ExternallySupported(g, u, l, e) = EP!ExternallySupported(g, u, l, e)
<1>1. EP!WellFormed(g) <=> Ground!WellFormed(g)
  BY DEF EP!WellFormed, EP!DuplicateRuleIds, EP!UnknownAtoms, EP!Referenced,
     EP!BaseCollision, EP!OpenCollision, Ground!WellFormed, Ground!DuplicateRuleIds,
     Ground!UnknownAtoms, Ground!Referenced, Ground!BaseCollision, Ground!OpenCollision
<1>2. Evaluator!WellFormed(g) <=> Ground!WellFormed(g)
  BY DEF Evaluator!WellFormed, Evaluator!DuplicateRuleIds, Evaluator!UnknownAtoms,
     Evaluator!Referenced, Evaluator!BaseCollision, Evaluator!OpenCollision,
     Ground!WellFormed, Ground!DuplicateRuleIds, Ground!UnknownAtoms, Ground!Referenced,
     Ground!BaseCollision, Ground!OpenCollision
<1>3. /\ Evaluator!EnabledHeads(g, l, e) = EP!EnabledHeads(g, l, e)
      /\ Evaluator!EnabledRules(g, l, e) = EP!EnabledRules(g, l, e)
  BY DEF Evaluator!EnabledHeads, Evaluator!EnabledRules, Evaluator!DefinitelyEnabled,
     EP!EnabledHeads, EP!EnabledRules, EP!DefinitelyEnabled
<1>4. Evaluator!ExternallySupported(g, u, l, e) = EP!ExternallySupported(g, u, l, e)
  BY DEF Evaluator!ExternallySupported, Evaluator!SupportsFromOutside, Evaluator!Blocked,
     EP!ExternallySupported, EP!SupportsFromOutside, EP!Blocked
<1> QED
  BY <1>1, <1>2, <1>3, <1>4

LEMMA EvaluatorSteps == Evaluator!Next => EP!Next
<1> SUFFICES ASSUME Evaluator!Next
             PROVE  EP!Next
  OBVIOUS
<1>1. /\ Evaluator!Collision = EP!Collision /\ Evaluator!Supported = EP!Supported
      /\ Evaluator!RoundIsStable <=> EP!RoundIsStable
  BY SameProgramOperators
  DEF Evaluator!Collision, EP!Collision, Evaluator!Supported, EP!Supported,
      Evaluator!RoundIsStable, EP!RoundIsStable
<1>2. CASE Evaluator!Reject
  BY <1>2 DEF Evaluator!Reject, EP!Next, EP!Reject, Evaluator!ErrorOf, EP!ErrorOf,
     EP!DuplicateRuleIds, EP!UnknownAtoms, EP!Referenced,
     EP!BaseCollision, EP!OpenCollision, Evaluator!DuplicateRuleIds, Evaluator!UnknownAtoms,
     Evaluator!Referenced, Evaluator!BaseCollision, Evaluator!OpenCollision
<1>3. CASE Evaluator!Start
  BY <1>3, SameProgramOperators DEF Evaluator!Start, EP!Next, EP!Start
<1>4. CASE Evaluator!Derive
  BY <1>1, <1>4, SameProgramOperators DEF Evaluator!Derive, EP!Next, EP!Derive
<1>5. CASE Evaluator!RaiseCollision
  BY <1>1, <1>5, SameProgramOperators
  DEF Evaluator!RaiseCollision, EP!Next, EP!RaiseCollision, Evaluator!ErrorOf, EP!ErrorOf
<1>6. CASE Evaluator!Shrink
  BY <1>1, <1>6 DEF Evaluator!Shrink, EP!Next, EP!Shrink
<1>7. CASE Evaluator!Commit
  BY <1>1, <1>7 DEF Evaluator!Commit, EP!Next, EP!Commit
<1>8. CASE Evaluator!Finish
  BY <1>1, <1>8 DEF Evaluator!Finish, EP!Next, EP!Finish
<1>9. CASE Evaluator!Returned
  BY <1>9 DEF Evaluator!Returned, Evaluator!Terminated, Evaluator!vars, EP!Next, EP!Returned,
     EP!Terminated, EP!vars
<1> QED
  BY <1>2, <1>3, <1>4, <1>5, <1>6, <1>7, <1>8, <1>9 DEF Evaluator!Next

(* What the compiler's invariant says of what is evaluated.                *)
LEMMA CompilingProperties ==
  ASSUME Compiling
  PROVE  CompilerNeverAsserts /\ RulesStayInUniverse /\ BaseStatusesAreNotDerived
<1>1. CompilerNeverAsserts
  BY DEF CompilerNeverAsserts, Compiling, Ran
<1>2. CASE Ran[stage] = {}
  <2>1. /\ builder.rules = {}
    BY <1>2 DEF Compiling, Gathers
  <2> QED
    BY <1>1, <2>1 DEF RulesStayInUniverse, BaseStatusesAreNotDerived
<1>3. CASE Ran[stage] # {}
  <2>1. /\ Compilable(package) /\ Gathers(builder, package, Ran[stage])
        /\ Ran[stage] \subseteq Functions
    <3>1. Ran["preflight"] = {} /\ Ran["deferred"] = {}
      BY DEF Ran
    <3>2. \A s \in DOMAIN Ran : Ran[s] \subseteq Functions
      BY DEF Ran, Functions
    <3> QED
      BY <1>3, <3>1, <3>2 DEF Compiling
  <2>2. \A f \in Ran[stage] : Ran[f] \subseteq Ran[stage]
    <3>1. \A s \in DOMAIN Ran : \A f \in Ran[s] : Ran[f] \subseteq Ran[s]
      BY DEF Ran, Functions
    <3> QED
      BY <3>1 DEF Compiling
  <2>3. \A r \in builder.rules : RuleAtoms(r) \subseteq builder.atoms
    <3>1. ASSUME NEW f \in Ran[stage], NEW r \in EmissionAt(package, f).rules
          PROVE  RuleAtoms(r) \subseteq Universe(package, Ran[stage])
      <4>1. Ran[f] \cup {f} \subseteq Ran[stage]
        BY <2>2
      <4> QED
        BY <2>1, <4>1, RulesLead DEF Universe
    <3> QED
      BY <2>1, <3>1 DEF Gathers
  <2>4. /\ \A a \in builder.live \cup builder.excluded \cup builder.open : Given(package, a)
        /\ \A r \in builder.rules : Concluded(package, r.head)
    BY <2>1, GatheredSound
  <2>5. DuplicateRefs(package) = {}
    BY <2>1, AdmittedMeans DEF Compilable
  <2>6. BaseStatusesAreNotDerived
    BY <2>4, <2>5, GivenOrConcluded DEF BaseStatusesAreNotDerived
  <2> QED
    BY <1>1, <2>3, <2>6 DEF RulesStayInUniverse, RuleAtoms
<1> QED
  BY <1>2, <1>3

(* While a package is on its way to an evaluation that has not begun.      *)
NotBegun ==
  /\ pc = "construct"
  /\ live = {} /\ excluded = {} /\ next_live = {} /\ unfounded = {} /\ suspended = {}

Piping ==
  /\ Compiling
  /\ EP!Core
  /\ stage # "compiled" => NotBegun
  /\ pc # "raised"

LEMMA NotBegunCore == NotBegun => EP!Core
  BY DEF NotBegun, EP!Core, EP!AtomsInv, EP!AcceptedInv, EP!Evaluating, EP!NewInv, EP!RoundInv,
     EP!GreatestInv, EP!SupportInv, EP!SettledInv, EP!GroundedInv, EP!ExclusionsStayJustified

LEMMA PipingInit == PipelineInit => Piping
  BY CompilingInit, NotBegunCore DEF PipelineInit, Piping, NotBegun

LEMMA EvaluateKeeps ==
  ASSUME Compiling, program' = program,
         UNCHANGED <<validateVars, stage, builder, deferred>>
  PROVE  Compiling'
<1>1. /\ package' = package /\ phase' = phase /\ issues' = issues
      /\ stage' = stage /\ builder' = builder
  BY DEF validateVars
<1> QED
  BY <1>1 DEF Compiling, Reported

LEMMA NoneRaises ==
  ASSUME Piping, stage = "compiled", EP!Next
  PROVE  pc' # "raised"
<1>1. /\ Ground!WellFormed(program) /\ program = ProgramOf(builder)
  BY DEF Piping, Compiling
<1>2. ~ EP!Reject
  BY <1>1, SameProgramOperators DEF EP!Reject, EP!WellFormed
<1>3. ~ EP!RaiseCollision
  <2>1. SUFFICES ASSUME EP!RaiseCollision
                 PROVE  FALSE
    OBVIOUS
  <2>2. EP!Collision \subseteq program.base_excluded
    BY <2>1, EP!CollisionInBase DEF EP!RaiseCollision, Piping
  <2>3. PICK a \in EP!Collision : TRUE
    BY <2>1 DEF EP!RaiseCollision
  <2>4. \E r \in program.rules : a = r.head
    BY <2>3 DEF EP!Collision, EP!EnabledHeads, EP!EnabledRules
  <2>5. program.rules = builder.rules /\ program.base_excluded = builder.excluded
    BY <1>1 DEF ProgramOf
  <2>6. BaseStatusesAreNotDerived
    BY CompilingProperties DEF Piping
  <2> QED
    BY <2>2, <2>3, <2>4, <2>5, <2>6 DEF BaseStatusesAreNotDerived
<1> QED
  BY <1>2, <1>3 DEF EP!Next, EP!Start, EP!Derive, EP!Shrink, EP!Commit, EP!Finish, EP!Returned,
     EP!vars, Piping

LEMMA PipingStep ==
  ASSUME Piping, [PipelineNext]_PipelineVars
  PROVE  Piping'
<1>1. CASE Admit
  <2>1. Compiling'
    BY <1>1, CompilingStep DEF Admit, Piping
  <2>2. CASE stage = "compiled"
    <3>1. ~ Compile
      BY <2>2 DEF Compile, Preflight, CompileSourceAtoms, CompileCertificates, CompileClosures,
         CompileFaces, CompileContraries, CompileRules, CompileChallenges, CompileDischarges,
         Build, Function
    <3>2. UNCHANGED compileVars
      BY <1>1, <3>1 DEF Admit, CompileNext
    <3>3. UNCHANGED EP!vars
      BY <1>1, <3>2 DEF Admit, evaluateVars, compileVars, EP!vars
    <3>4. EP!Core'
      BY <3>3, EP!NextCore DEF Piping
    <3> QED
      BY <2>1, <2>2, <3>2, <3>3, <3>4 DEF Piping, compileVars, EP!vars
  <2>3. CASE stage # "compiled"
    <3>1. NotBegun'
      BY <1>1, <2>3 DEF Admit, evaluateVars, Piping, NotBegun
    <3>2. EP!Core'
      BY <3>1 DEF NotBegun, EP!Core, EP!AtomsInv, EP!AcceptedInv, EP!Evaluating, EP!NewInv,
         EP!RoundInv, EP!GreatestInv, EP!SupportInv, EP!SettledInv, EP!GroundedInv, EP!ExclusionsStayJustified
    <3> QED
      BY <2>1, <3>1, <3>2 DEF Piping, NotBegun
  <2> QED
    BY <2>2, <2>3
<1>2. CASE Evaluate
  <2>1. EP!Next /\ stage = "compiled" /\ stage' = "compiled"
    BY <1>2, EvaluatorSteps DEF Evaluate
  <2>2. program' = program
    BY <2>1 DEF EP!Next, EP!Reject, EP!Start, EP!Derive, EP!RaiseCollision, EP!Shrink,
       EP!Commit, EP!Finish, EP!Returned, EP!vars
  <2>3. Compiling'
    BY <1>2, <2>2, EvaluateKeeps DEF Evaluate, Piping
  <2>4. EP!Core'
    BY <2>1, EP!NextCore DEF Piping
  <2>5. pc' # "raised"
    BY <2>1, NoneRaises
  <2> QED
    BY <2>1, <2>3, <2>4, <2>5 DEF Piping
<1>3. CASE UNCHANGED PipelineVars
  <2>1. UNCHANGED EP!vars /\ UNCHANGED <<validateVars, stage, builder, deferred>>
    BY <1>3 DEF PipelineVars, compileVars, evaluateVars, EP!vars
  <2>2. program' = program
    BY <2>1 DEF EP!vars
  <2>3. Compiling'
    BY <2>1, <2>2, EvaluateKeeps DEF Piping
  <2>4. EP!Core'
    BY <2>1, EP!NextCore DEF Piping
  <2> QED
    BY <2>1, <2>3, <2>4 DEF Piping, NotBegun, EP!vars
<1> QED
  BY <1>1, <1>2, <1>3 DEF PipelineNext, Rest, PipelineVars

LEMMA PipelineInvariance == PipelineSpec => []Piping
<1>1. Piping /\ [PipelineNext]_PipelineVars => Piping'
  BY PipingStep
<1> QED
  BY <1>1, PipingInit, PTL DEF PipelineSpec

(* compile_package never runs into an assertion of its builder or of a     *)
(* constructor, whatever package was admitted (CompilerNeverAsserts).      *)
THEOREM CompilationIsTotal == PipelineSpec => []CompilerNeverAsserts
  BY PipelineInvariance, CompilingProperties, PTL DEF Piping

(* At every point of compile_package the rules emitted so far refer to     *)
(* atoms that have been emitted too: the order of the _compile_ functions  *)
(* suffices, and no link of an admitted package leads to an atom nobody    *)
(* emits (RulesStayInUniverse).                                            *)
THEOREM CompilationIsOrdered == PipelineSpec => []RulesStayInUniverse
  BY PipelineInvariance, CompilingProperties, PTL DEF Piping

(* At every point of compile_package no rule concludes an atom with a base *)
(* status, so what certificates, closures and the package's base say is    *)
(* never contradicted by the evaluation (BaseStatusesAreNotDerived).       *)
THEOREM BaseIsNotDerived == PipelineSpec => []BaseStatusesAreNotDerived
  BY PipelineInvariance, CompilingProperties, PTL DEF Piping

(* evaluate never raises on the program of an admitted package: the        *)
(* constructor accepts it, and no derived status contradicts its base      *)
(* (EvaluationNeverRaises).                                                *)
THEOREM EvaluationIsTotal == PipelineSpec => []EvaluationNeverRaises
  BY PipelineInvariance, PTL DEF Piping, EvaluationNeverRaises

-----------------------------------------------------------------------------
(* What the evaluation returned, atom by atom.                             *)
Value(a) ==
  IF a \in live THEN "LIVE" ELSE IF a \in excluded THEN "EXCLUDED" ELSE "SUSPENDED"

BodyValue(g) ==
  IF EP!Blocked(g, live, excluded) THEN "EXCLUDED"
  ELSE IF EP!DefinitelyEnabled(g, live, excluded) THEN "LIVE" ELSE "SUSPENDED"

Premises(g) == {Value(a) : a \in g.positive} \cup {Not(Value(a)) : a \in g.negative}

RulesFor(a) == {g \in program.rules : g.head = a}

Settled == Piping /\ Evaluated

LEMMA SettledMeans ==
  ASSUME Settled
  PROVE  /\ Compilable(package) /\ Gathers(builder, package, Functions)
         /\ program.atoms = builder.atoms /\ program.rules = builder.rules
         /\ program.base_live = builder.live /\ program.base_excluded = builder.excluded
         /\ program.protected_open = builder.open
         /\ Ground!WellFormed(program)
         /\ live \cap excluded = {}
         /\ live \cup excluded \subseteq program.atoms
         /\ suspended = program.atoms \ (live \cup excluded)
         /\ program.base_live \subseteq live /\ program.base_excluded \subseteq excluded
         /\ program.protected_open \cap excluded = {}
<1>1. Compiling /\ EP!Core /\ stage = "compiled" /\ pc = "done"
  BY DEF Settled, Piping, Evaluated
<1>2. Ran["compiled"] = Functions
  BY DEF Ran
<1>3. /\ Compilable(package) /\ Gathers(builder, package, Functions)
      /\ program = ProgramOf(builder) /\ Ground!WellFormed(program)
  BY <1>1, <1>2 DEF Compiling
<1>4. /\ program.atoms = builder.atoms /\ program.rules = builder.rules
      /\ program.base_live = builder.live /\ program.base_excluded = builder.excluded
      /\ program.protected_open = builder.open
  BY <1>3 DEF ProgramOf
<1> QED
  BY <1>1, <1>3, <1>4 DEF EP!Core, EP!AtomsInv, EP!Evaluating, EP!SupportInv, EP!SettledInv,
     EP!ExclusionsStayJustified

(* A premise is satisfied, refuted or undecided as the rule needs it.      *)
LEMMA BodyIsAll ==
  ASSUME Settled, NEW g
  PROVE  BodyValue(g) = All(Premises(g))
<1>1. live \cap excluded = {}
  BY SettledMeans
<1>2. /\ \A a : Value(a) \in {"LIVE", "EXCLUDED", "SUSPENDED"}
      /\ \A a : Value(a) = "LIVE" <=> a \in live
      /\ \A a : Value(a) = "EXCLUDED" <=> a \in excluded
  BY <1>1 DEF Value
<1>3. Not("LIVE") = "EXCLUDED" /\ Not("EXCLUDED") = "LIVE" /\ Not("SUSPENDED") = "SUSPENDED"
  BY DEF Not
<1>4. "EXCLUDED" \in Premises(g) <=> EP!Blocked(g, live, excluded)
  BY <1>2, <1>3 DEF Premises, EP!Blocked
<1>5. \A v \in Premises(g) : v \in {"LIVE", "EXCLUDED", "SUSPENDED"}
  BY <1>2, <1>3 DEF Premises
<1>6. (\A v \in Premises(g) : v = "LIVE") <=> EP!DefinitelyEnabled(g, live, excluded)
  BY <1>2, <1>3 DEF Premises, EP!DefinitelyEnabled
<1> QED
  BY <1>4, <1>5, <1>6 DEF BodyValue, All

(* An atom without a base status is as its rules are taken together.       *)
LEMMA HeadIsSome ==
  ASSUME Settled, NEW a \in program.atoms,
         a \notin program.base_live \cup program.base_excluded \cup program.protected_open
  PROVE  Value(a) = Some({BodyValue(g) : g \in RulesFor(a)})
<1> DEFINE values == {BodyValue(g) : g \in RulesFor(a)}
<1>1. EP!Core /\ pc = "done" /\ live \cap excluded = {}
  BY SettledMeans DEF Settled, Piping, Evaluated
<1>2. a \in live <=> "LIVE" \in values
  <2>1. a \in live => \E g \in RulesFor(a) : EP!DefinitelyEnabled(g, live, excluded)
    BY <1>1 DEF EP!Core, EP!SupportInv, EP!Evaluating, EP!EnabledHeads, EP!EnabledRules, RulesFor
  <2>2. (\E g \in RulesFor(a) : EP!DefinitelyEnabled(g, live, excluded)) => a \in live
    BY <1>1 DEF EP!Core, EP!SettledInv, EP!EnabledHeads, EP!EnabledRules, RulesFor
  <2>3. \A g : BodyValue(g) = "LIVE" <=> EP!DefinitelyEnabled(g, live, excluded)
    BY <1>1, EP!BlockedNotEnabled DEF BodyValue
  <2> QED
    BY <2>1, <2>2, <2>3
<1>3. a \in excluded <=> \A v \in values : v = "EXCLUDED"
  <2>1. a \in excluded => \A g \in RulesFor(a) : EP!Blocked(g, live, excluded)
    BY <1>1 DEF EP!Core, EP!ExclusionsStayJustified, RulesFor
  <2>2. ASSUME \A g \in RulesFor(a) : EP!Blocked(g, live, excluded)
        PROVE  a \in excluded
    <3>1. a \notin live
      BY <1>1, <1>2, <2>2 DEF BodyValue
    <3>2. PICK u : u = {a}
      OBVIOUS
    <3>3. EP!ExternallySupported(program, u, live, excluded) = {}
      BY <2>2, <3>2 DEF EP!ExternallySupported, EP!SupportsFromOutside, RulesFor
    <3>4. u \in SUBSET (program.atoms \ (program.protected_open \cup live))
      BY <3>1, <3>2
    <3>5. u \subseteq excluded
      BY <1>1, <3>3, <3>4 DEF EP!Core, EP!SettledInv
    <3> QED
      BY <3>2, <3>5
  <2>3. \A g : BodyValue(g) = "EXCLUDED" <=> EP!Blocked(g, live, excluded)
    BY DEF BodyValue
  <2> QED
    BY <2>1, <2>2, <2>3
<1>4. \A v \in values : v \in {"LIVE", "EXCLUDED", "SUSPENDED"}
  BY DEF BodyValue
<1> HIDE DEF values
<1>5. Value(a) = Some(values)
  BY <1>2, <1>3, <1>4 DEF Value, Some
<1> QED
  BY <1>5 DEF values

(* An atom no rule concludes has its base status, or else does not hold.   *)
LEMMA GivenKeeps ==
  ASSUME Settled, NEW a \in program.atoms, RulesFor(a) = {}
  PROVE  /\ a \in live <=> a \in program.base_live
         /\ a \in excluded <=> a \notin program.base_live \cup program.protected_open
<1>1. EP!Core /\ pc = "done" /\ live \cap excluded = {}
  BY SettledMeans DEF Settled, Piping, Evaluated
<1>2. /\ program.base_live \subseteq live /\ program.base_excluded \subseteq excluded
      /\ program.protected_open \cap excluded = {}
  BY SettledMeans
<1>3. a \in live => a \in program.base_live
  BY <1>1 DEF EP!Core, EP!SupportInv, EP!Evaluating, EP!EnabledHeads, EP!EnabledRules, RulesFor
<1>4. ASSUME a \notin program.base_live \cup program.protected_open
      PROVE  a \in excluded
  <2>1. PICK u : u = {a}
    OBVIOUS
  <2>2. EP!ExternallySupported(program, u, live, excluded) = {}
    BY <2>1 DEF EP!ExternallySupported, RulesFor
  <2>3. u \in SUBSET (program.atoms \ (program.protected_open \cup live))
    BY <1>3, <1>4, <2>1
  <2>4. u \subseteq excluded
    BY <1>1, <2>2, <2>3 DEF EP!Core, EP!SettledInv
  <2> QED
    BY <2>1, <2>4
<1> QED
  BY <1>1, <1>2, <1>3, <1>4

(* The rules of a compiled program, by what they conclude.                 *)
LEMMA RulesTell ==
  ASSUME Settled
  PROVE  \A g : g \in program.rules <=>
           \/ \E f \in package.faces : g = ClearFace(f)
           \/ \E r \in package.rules : g \in {RuleCase(r), HeadBridge(r)}
           \/ \E c \in package.challenges : g \in {CaseRule(c), OpenRule(c), EffectRule(c)}
           \/ \E d \in package.discharges : g = DischargeCase(d) \/ g = DischargedBridge(d)
<1> DEFINE at(f) == EmissionAt(package, f).rules
<1>1. /\ program.rules = UNION {EmissionAt(package, f).rules : f \in Functions}
      /\ Compilable(package)
  BY SettledMeans DEF Gathers
<1>2. \A g : g \in at("faces") <=> \E f \in package.faces : g = ClearFace(f)
  BY EmissionsJoin, FaceParts DEF Joins
<1>3. \A g : g \in at("rules") <=> \E r \in package.rules : g \in {RuleCase(r), HeadBridge(r)}
  BY EmissionsJoin, RuleParts DEF Joins
<1>4. \A g : g \in at("challenges") <=>
        \E c \in package.challenges : g \in {CaseRule(c), OpenRule(c), EffectRule(c)}
  BY EmissionsJoin, ChallengeParts DEF Joins
<1>5. \A g : g \in at("discharges") <=>
        \E d \in package.discharges : g = DischargeCase(d) \/ g = DischargedBridge(d)
  <2>1. \A d \in package.discharges :
          DischargeEmissions(package)[d].rules = {DischargeCase(d), DischargedBridge(d)}
    BY DischargeParts
  <2> QED
    BY <2>1, EmissionsJoin DEF Joins
<1>6. at("atoms") = {} /\ at("certificates") = {} /\ at("closures") = {}
  <2>1. at("atoms") = {}
    BY DEF EmissionAt, SourceAtomEmission, Emission
  <2>2. \A k \in package.certificates : CertificateEmissions(package)[k].rules = {}
    BY <1>1, CertificateParts DEF Compilable
  <2>3. \A c \in package.closures : ClosureEmissions(package)[c].rules = {}
    BY <1>1, ClosureParts DEF Compilable
  <2> QED
    BY <2>1, <2>2, <2>3, EmissionsJoin DEF Joins
<1> HIDE DEF at
<1>7. \A g : g \in program.rules <=> \E f \in Functions : g \in at(f)
  BY <1>1 DEF at
<1> QED
  BY <1>2, <1>3, <1>4, <1>5, <1>6, <1>7 DEF Functions

LEMMA HeadsTell ==
  /\ \A f : ClearFace(f).head = <<"clear", f.ref>>
  /\ \A r : RuleCase(r).head = <<"live-case", r.ref>>
  /\ \A r : HeadBridge(r).head = <<"source-atom", r.head>>
  /\ \A c : CaseRule(c).head = <<"challenge-case", c.ref>>
  /\ \A c : OpenRule(c).head = <<"open-challenge", c.ref>>
  /\ \A c : c.kind = "rebut" => EffectRule(c).head = <<"source-atom", c.contrary_atom>>
  /\ \A c : c.kind # "rebut" => EffectRule(c).head = <<"has-open-challenge", c.target>>
  /\ \A d : DischargeCase(d).head = <<"discharge-case", d.ref>>
  /\ \A d : DischargedBridge(d).head = <<"discharged", d.challenge>>
  BY DEF ClearFace, RuleCase, HeadBridge, CaseRule, OpenRule, EffectRule, DischargeCase,
     DischargedBridge, GroundRule

(* A compiled rule's conclusion tells what it was compiled from.           *)
LEMMA RulesByRole ==
  ASSUME Settled, NEW g \in program.rules
  PROVE  /\ g.head[1] = "clear" =>
              \E f \in package.faces : g = ClearFace(f) /\ g.head[2] = f.ref
         /\ g.head[1] = "has-open-challenge" =>
              \E c \in package.challenges :
                 c.kind # "rebut" /\ g = EffectRule(c) /\ g.head[2] = c.target
         /\ g.head[1] = "challenge-case" =>
              \E c \in package.challenges : g = CaseRule(c) /\ g.head[2] = c.ref
         /\ g.head[1] = "open-challenge" =>
              \E c \in package.challenges : g = OpenRule(c) /\ g.head[2] = c.ref
         /\ g.head[1] = "discharged" =>
              \E d \in package.discharges : g = DischargedBridge(d) /\ g.head[2] = d.challenge
         /\ g.head[1] = "discharge-case" =>
              \E d \in package.discharges : g = DischargeCase(d) /\ g.head[2] = d.ref
         /\ g.head[1] \notin GivenRoles
<1> USE DEF GivenRoles
<1>1. ASSUME NEW f \in package.faces, g = ClearFace(f)
      PROVE  g.head[1] = "clear" /\ g.head[2] = f.ref
  <2>1. g.head = <<"clear", f.ref>>
    BY <1>1, HeadsTell
  <2> QED
    BY <2>1
<1>2. ASSUME NEW r \in package.rules, g \in {RuleCase(r), HeadBridge(r)}
      PROVE  g.head[1] \in {"live-case", "source-atom"}
  <2>1. g.head = <<"live-case", r.ref>> \/ g.head = <<"source-atom", r.head>>
    BY <1>2, HeadsTell
  <2> QED
    BY <2>1
<1>3. ASSUME NEW c \in package.challenges, g = CaseRule(c)
      PROVE  g.head[1] = "challenge-case" /\ g.head[2] = c.ref
  <2>1. g.head = <<"challenge-case", c.ref>>
    BY <1>3, HeadsTell
  <2> QED
    BY <2>1
<1>4. ASSUME NEW c \in package.challenges, g = OpenRule(c)
      PROVE  g.head[1] = "open-challenge" /\ g.head[2] = c.ref
  <2>1. g.head = <<"open-challenge", c.ref>>
    BY <1>4, HeadsTell
  <2> QED
    BY <2>1
<1>5. ASSUME NEW c \in package.challenges, g = EffectRule(c), c.kind = "rebut"
      PROVE  g.head[1] = "source-atom"
  <2>1. g.head = <<"source-atom", c.contrary_atom>>
    BY <1>5, HeadsTell
  <2> QED
    BY <2>1
<1>6. ASSUME NEW c \in package.challenges, g = EffectRule(c), c.kind # "rebut"
      PROVE  g.head[1] = "has-open-challenge" /\ g.head[2] = c.target
  <2>1. g.head = <<"has-open-challenge", c.target>>
    BY <1>6, HeadsTell
  <2> QED
    BY <2>1
<1>7. ASSUME NEW d \in package.discharges, g = DischargeCase(d)
      PROVE  g.head[1] = "discharge-case" /\ g.head[2] = d.ref
  <2>1. g.head = <<"discharge-case", d.ref>>
    BY <1>7, HeadsTell
  <2> QED
    BY <2>1
<1>8. ASSUME NEW d \in package.discharges, g = DischargedBridge(d)
      PROVE  g.head[1] = "discharged" /\ g.head[2] = d.challenge
  <2>1. g.head = <<"discharged", d.challenge>>
    BY <1>8, HeadsTell
  <2> QED
    BY <2>1
<1>9. \/ \E f \in package.faces : g = ClearFace(f)
      \/ \E r \in package.rules : g \in {RuleCase(r), HeadBridge(r)}
      \/ \E c \in package.challenges : g \in {CaseRule(c), OpenRule(c), EffectRule(c)}
      \/ \E d \in package.discharges : g = DischargeCase(d) \/ g = DischargedBridge(d)
  BY RulesTell
<1> QED
  BY <1>1, <1>2, <1>3, <1>4, <1>5, <1>6, <1>7, <1>8, <1>9

(* The rules for each gate atom.                                           *)
LEMMA RulesForGates ==
  ASSUME Settled
  PROVE  /\ \A f \in package.faces :
              /\ RulesFor(<<"clear", f.ref>>) = {ClearFace(f)}
              /\ RulesFor(<<"has-open-challenge", f.ref>>) = {EffectRule(c) : c \in Blockers(f)}
         /\ \A c \in package.challenges :
              /\ RulesFor(<<"challenge-case", c.ref>>) = {CaseRule(c)}
              /\ RulesFor(<<"open-challenge", c.ref>>) = {OpenRule(c)}
              /\ RulesFor(<<"discharged", c.ref>>) =
                   {DischargedBridge(d) : d \in {x \in package.discharges : x.challenge = c.ref}}
         /\ \A d \in package.discharges :
              RulesFor(<<"discharge-case", d.ref>>) = {DischargeCase(d)}
         /\ \A a : a[1] \in GivenRoles => RulesFor(a) = {}
<1> DEFINE p == package
<1>1. DuplicateRefs(p) = {}
  BY SettledMeans, AdmittedMeans DEF Compilable
<1>2. /\ \A x, y \in p.faces : x.ref = y.ref => x = y
      /\ \A x, y \in p.challenges : x.ref = y.ref => x = y
      /\ \A x, y \in p.discharges : x.ref = y.ref => x = y
  BY <1>1, RefsDiffer
<1>3. ASSUME NEW f \in p.faces
      PROVE  RulesFor(<<"clear", f.ref>>) = {ClearFace(f)}
  <2>1. ASSUME NEW g \in RulesFor(<<"clear", f.ref>>)
        PROVE  g = ClearFace(f)
    <3>1. g \in program.rules /\ g.head = <<"clear", f.ref>>
      BY DEF RulesFor
    <3>2. PICK x \in p.faces : g = ClearFace(x) /\ x.ref = f.ref
      BY <3>1, RulesByRole
    <3> QED
      BY <1>2, <3>2
  <2>2. ClearFace(f) \in RulesFor(<<"clear", f.ref>>)
    BY RulesTell, HeadsTell DEF RulesFor
  <2> QED
    BY <2>1, <2>2
<1>4. ASSUME NEW f \in p.faces
      PROVE  RulesFor(<<"has-open-challenge", f.ref>>) = {EffectRule(c) : c \in Blockers(f)}
  <2>1. ASSUME NEW g \in RulesFor(<<"has-open-challenge", f.ref>>)
        PROVE  \E c \in Blockers(f) : g = EffectRule(c)
    <3>1. g \in program.rules /\ g.head = <<"has-open-challenge", f.ref>>
      BY DEF RulesFor
    <3>2. PICK c \in p.challenges : g = EffectRule(c) /\ c.kind # "rebut" /\ c.target = f.ref
      BY <3>1, RulesByRole
    <3> QED
      BY <3>2 DEF Blockers
  <2>2. ASSUME NEW c \in Blockers(f)
        PROVE  EffectRule(c) \in RulesFor(<<"has-open-challenge", f.ref>>)
    BY RulesTell, HeadsTell DEF RulesFor, Blockers
  <2> QED
    BY <2>1, <2>2
<1>5. ASSUME NEW c \in p.challenges
      PROVE  /\ RulesFor(<<"challenge-case", c.ref>>) = {CaseRule(c)}
             /\ RulesFor(<<"open-challenge", c.ref>>) = {OpenRule(c)}
  <2>1. ASSUME NEW g \in RulesFor(<<"challenge-case", c.ref>>)
        PROVE  g = CaseRule(c)
    <3>1. g \in program.rules /\ g.head = <<"challenge-case", c.ref>>
      BY DEF RulesFor
    <3>2. PICK x \in p.challenges : g = CaseRule(x) /\ x.ref = c.ref
      BY <3>1, RulesByRole
    <3> QED
      BY <1>2, <3>2
  <2>2. ASSUME NEW g \in RulesFor(<<"open-challenge", c.ref>>)
        PROVE  g = OpenRule(c)
    <3>1. g \in program.rules /\ g.head = <<"open-challenge", c.ref>>
      BY DEF RulesFor
    <3>2. PICK x \in p.challenges : g = OpenRule(x) /\ x.ref = c.ref
      BY <3>1, RulesByRole
    <3> QED
      BY <1>2, <3>2
  <2>3. /\ CaseRule(c) \in RulesFor(<<"challenge-case", c.ref>>)
        /\ OpenRule(c) \in RulesFor(<<"open-challenge", c.ref>>)
    BY RulesTell, HeadsTell DEF RulesFor
  <2> QED
    BY <2>1, <2>2, <2>3
<1>6. ASSUME NEW c \in p.challenges
      PROVE  RulesFor(<<"discharged", c.ref>>) =
               {DischargedBridge(d) : d \in {x \in p.discharges : x.challenge = c.ref}}
  <2>1. ASSUME NEW g \in RulesFor(<<"discharged", c.ref>>)
        PROVE  \E d \in p.discharges : d.challenge = c.ref /\ g = DischargedBridge(d)
    <3>1. g \in program.rules /\ g.head = <<"discharged", c.ref>>
      BY DEF RulesFor
    <3>2. PICK d \in p.discharges : g = DischargedBridge(d) /\ d.challenge = c.ref
      BY <3>1, RulesByRole
    <3> QED
      BY <3>2
  <2>2. ASSUME NEW d \in p.discharges, d.challenge = c.ref
        PROVE  DischargedBridge(d) \in RulesFor(<<"discharged", c.ref>>)
    BY <2>2, RulesTell, HeadsTell DEF RulesFor
  <2> QED
    BY <2>1, <2>2
<1>7. ASSUME NEW d \in p.discharges
      PROVE  RulesFor(<<"discharge-case", d.ref>>) = {DischargeCase(d)}
  <2>1. ASSUME NEW g \in RulesFor(<<"discharge-case", d.ref>>)
        PROVE  g = DischargeCase(d)
    <3>1. g \in program.rules /\ g.head = <<"discharge-case", d.ref>>
      BY DEF RulesFor
    <3>2. PICK x \in p.discharges : g = DischargeCase(x) /\ x.ref = d.ref
      BY <3>1, RulesByRole
    <3> QED
      BY <1>2, <3>2
  <2>2. DischargeCase(d) \in RulesFor(<<"discharge-case", d.ref>>)
    BY RulesTell, HeadsTell DEF RulesFor
  <2> QED
    BY <2>1, <2>2
<1>8. ASSUME NEW a, a[1] \in GivenRoles, NEW g \in RulesFor(a)
      PROVE  FALSE
  BY <1>8, RulesByRole DEF RulesFor
<1> QED
  BY <1>3, <1>4, <1>5, <1>6, <1>7, <1>8

(* A record found by its reference.                                        *)
LEMMA RecordFound ==
  ASSUME NEW X, \A x, y \in X : x.ref = y.ref => x = y, NEW x \in X
  PROVE  RecordOf(X, x.ref) = x
  BY DEF RecordOf

(* What certificates, closures and discharges are given.                   *)
LEMMA CertificateValue ==
  ASSUME Settled, NEW ref, NEW k, Points(package, ref, "CERTIFICATE", k)
  PROVE  Value(<<"cert-valid", ref>>) = SaysCertificate(ref)
<1> DEFINE p == package
           a == <<"cert-valid", ref>>
<1>1. /\ Compilable(p) /\ Gathers(builder, p, Functions) /\ Constructed(p) /\ DuplicateRefs(p) = {}
  BY SettledMeans, AdmittedMeans DEF Compilable
<1>2. k \in p.certificates /\ k.ref = ref
  BY RecordsByKind DEF Points
<1>3. RecordOf(p.certificates, ref) = k
  BY <1>1, <1>2, RefsDiffer, RecordFound
<1>4. k.result \in {"PASS", "FAIL", "OPEN"}
  BY <1>1, <1>2 DEF Constructed, CheckResult
<1>5. /\ a \in CertificateEmissions(p)[k].live <=> k.result = "PASS"
      /\ a \in CertificateEmissions(p)[k].excluded <=> k.result = "FAIL"
      /\ a \in CertificateEmissions(p)[k].open <=> k.result = "OPEN"
      /\ a \in CertificateEmissions(p)[k].atoms
  BY <1>1, <1>2, CertificateParts
<1>6. /\ k.result = "PASS" => a \in program.base_live
      /\ k.result = "FAIL" => a \in program.base_excluded
      /\ k.result = "OPEN" => a \in program.protected_open
      /\ a \in program.atoms
  <2>1. LET e == EmissionAt(p, "certificates")
        IN  /\ k.result = "PASS" => a \in e.live
            /\ k.result = "FAIL" => a \in e.excluded
            /\ k.result = "OPEN" => a \in e.open
            /\ a \in e.atoms
    BY <1>2, <1>5, EmissionsJoin DEF Joins
  <2>2. "certificates" \in Functions
    BY DEF Functions
  <2> QED
    BY <1>1, <2>1, <2>2, SettledMeans DEF Gathers, Universe
<1>7. RulesFor(a) = {}
  <2>1. a[1] \in GivenRoles
    BY DEF GivenRoles
  <2> QED
    BY <2>1, RulesForGates
<1>8. /\ a \in live <=> a \in program.base_live
      /\ a \in excluded <=> a \notin program.base_live \cup program.protected_open
  BY <1>6, <1>7, GivenKeeps
<1>9. /\ program.base_live \cap program.base_excluded = {}
      /\ program.base_live \cap program.protected_open = {}
      /\ program.base_excluded \cap program.protected_open = {}
  BY SettledMeans DEF Ground!WellFormed, Ground!BaseCollision, Ground!OpenCollision
<1>10. SaysCertificate(ref) =
         [PASS |-> "LIVE", FAIL |-> "EXCLUDED", OPEN |-> "SUSPENDED"][k.result]
  BY <1>3 DEF SaysCertificate
<1> HIDE DEF a
<1>11. /\ k.result = "PASS" => a \in live
       /\ k.result = "FAIL" => a \notin live /\ a \in excluded
       /\ k.result = "OPEN" => a \notin live /\ a \notin excluded
  BY <1>6, <1>8, <1>9
<1>12. Value(a) = SaysCertificate(ref)
  BY <1>4, <1>10, <1>11 DEF Value
<1> QED
  BY <1>12 DEF a

LEMMA ClosureValue ==
  ASSUME Settled, NEW ref, NEW c, Points(package, ref, "CLOSURE", c)
  PROVE  Value(<<"closure-ready", ref>>) = SaysClosure(ref)
<1> DEFINE p == package
           a == <<"closure-ready", ref>>
<1>1. /\ Compilable(p) /\ Gathers(builder, p, Functions) /\ Constructed(p) /\ DuplicateRefs(p) = {}
  BY SettledMeans, AdmittedMeans DEF Compilable
<1>2. c \in p.closures /\ c.ref = ref
  BY RecordsByKind DEF Points
<1>3. RecordOf(p.closures, ref) = c
  BY <1>1, <1>2, RefsDiffer, RecordFound
<1>4. c.result \in {"PASS", "FAIL", "OPEN"}
  BY <1>1, <1>2 DEF Constructed, CheckResult
<1>5. /\ a \in ClosureEmissions(p)[c].live <=> c.result = "PASS"
      /\ a \in ClosureEmissions(p)[c].open <=> c.result # "PASS"
      /\ a \in ClosureEmissions(p)[c].atoms
  BY <1>1, <1>2, ClosureParts
<1>6. /\ c.result = "PASS" => a \in program.base_live
      /\ c.result # "PASS" => a \in program.protected_open
      /\ a \in program.atoms
  <2>1. LET e == EmissionAt(p, "closures")
        IN  /\ c.result = "PASS" => a \in e.live
            /\ c.result # "PASS" => a \in e.open
            /\ a \in e.atoms
    BY <1>2, <1>5, EmissionsJoin DEF Joins
  <2>2. "closures" \in Functions
    BY DEF Functions
  <2> QED
    BY <1>1, <2>1, <2>2, SettledMeans DEF Gathers, Universe
<1>7. RulesFor(a) = {}
  <2>1. a[1] \in GivenRoles
    BY DEF GivenRoles
  <2> QED
    BY <2>1, RulesForGates
<1>8. /\ a \in live <=> a \in program.base_live
      /\ a \in excluded <=> a \notin program.base_live \cup program.protected_open
  BY <1>6, <1>7, GivenKeeps
<1>9. program.base_live \cap program.protected_open = {}
  BY SettledMeans DEF Ground!WellFormed, Ground!BaseCollision, Ground!OpenCollision
<1>10. SaysClosure(ref) =
         [PASS |-> "LIVE", FAIL |-> "SUSPENDED", OPEN |-> "SUSPENDED"][c.result]
  BY <1>3 DEF SaysClosure
<1> QED
  BY <1>4, <1>6, <1>8, <1>9, <1>10 DEF Value

Truth == {"LIVE", "EXCLUDED", "SUSPENDED"}

LEMMA Kleene ==
  /\ \A values : All(values) \in Truth /\ Some(values) \in Truth
  /\ \A v \in Truth : All({v}) = v /\ Some({v}) = v
  /\ \A values : All(values \cup {"LIVE"}) = All(values)
  /\ \A a : Value(a) \in Truth
  BY DEF Truth, All, Some, Value

LEMMA ConcludedIsSome ==
  ASSUME Settled, NEW a \in program.atoms, Concluded(package, a)
  PROVE  Value(a) = Some({All(Premises(g)) : g \in RulesFor(a)})
<1>1. Compilable(package) /\ Gathers(builder, package, Functions) /\ DuplicateRefs(package) = {}
  BY SettledMeans, AdmittedMeans DEF Compilable
<1>2. Functions \in SUBSET Functions
  OBVIOUS
<1>3. \A x \in builder.live \cup builder.excluded \cup builder.open : Given(package, x)
  BY <1>1, <1>2, GatheredSound
<1>4. a \notin program.base_live \cup program.base_excluded \cup program.protected_open
  BY <1>1, <1>3, SettledMeans, GivenOrConcluded
<1>5. Value(a) = Some({BodyValue(g) : g \in RulesFor(a)})
  BY <1>4, HeadIsSome
<1>6. \A g : BodyValue(g) = All(Premises(g))
  BY BodyIsAll
<1> QED
  BY <1>5, <1>6

LEMMA ConcludedByOne ==
  ASSUME Settled, NEW a \in program.atoms, Concluded(package, a), NEW g, RulesFor(a) = {g}
  PROVE  Value(a) = All(Premises(g))
<1>1. Value(a) = Some({All(Premises(h)) : h \in RulesFor(a)})
  BY ConcludedIsSome
<1>2. {All(Premises(h)) : h \in RulesFor(a)} = {All(Premises(g))}
  OBVIOUS
<1> QED
  BY <1>1, <1>2, Kleene

LEMMA GateAtoms ==
  ASSUME Settled
  PROVE  /\ \A f \in package.faces :
              /\ <<"face", f.ref>> \in program.atoms
              /\ <<"has-open-challenge", f.ref>> \in program.atoms
              /\ <<"clear", f.ref>> \in program.atoms
         /\ \A c \in package.challenges :
              /\ <<"challenge-case", c.ref>> \in program.atoms
              /\ <<"discharged", c.ref>> \in program.atoms
              /\ <<"open-challenge", c.ref>> \in program.atoms
         /\ \A d \in package.discharges :
              /\ <<"type-match", d.ref>> \in program.atoms
              /\ <<"discharge-case", d.ref>> \in program.atoms
<1>1. Compilable(package) /\ program.atoms = Universe(package, Functions)
  BY SettledMeans DEF Gathers
<1>2. \A f \in {"faces", "challenges", "discharges"} :
        EmissionAt(package, f).atoms \subseteq program.atoms
  BY <1>1 DEF Universe, Functions
<1> QED
  BY <1>1, <1>2, AtomsEmitted DEF Compilable

LEMMA MatchValue ==
  ASSUME Settled, NEW d \in package.discharges
  PROVE  Value(<<"type-match", d.ref>>) =
           IF Compatible(RecordOf(package.challenges, d.challenge).kind, d.kind)
           THEN "LIVE" ELSE "EXCLUDED"
<1> DEFINE p == package
           a == <<"type-match", d.ref>>
           matches == Compatible(Challenged(p, d).kind, d.kind)
<1>1. /\ Compilable(p) /\ Gathers(builder, p, Functions) /\ DuplicateRefs(p) = {}
      /\ Admitted(p)
  BY SettledMeans, AdmittedMeans DEF Compilable
<1>2. PICK c : Points(p, d.challenge, "CHALLENGE", c)
  BY <1>1, DischargeLinks
<1>3. c \in p.challenges /\ c.ref = d.challenge /\ Lookup(p, d.challenge, {"CHALLENGE"}) = {c}
  BY <1>2, RecordsByKind DEF Points
<1>4. Challenged(p, d) = c
  BY <1>3 DEF Challenged
<1>5. RecordOf(p.challenges, d.challenge) = c
  BY <1>1, <1>3, RefsDiffer, RecordFound
<1>6. /\ matches => a \in DischargeEmissions(p)[d].live
      /\ ~ matches => a \in DischargeEmissions(p)[d].excluded
  <2>1. /\ DischargeEmissions(p)[d].live = IF matches THEN {a} ELSE {}
        /\ DischargeEmissions(p)[d].excluded = IF matches THEN {} ELSE {a}
    BY DischargeParts
  <2> QED
    BY <2>1
<1>7. /\ matches => a \in program.base_live
      /\ ~ matches => a \in program.base_excluded
  <2>1. /\ matches => a \in EmissionAt(p, "discharges").live
        /\ ~ matches => a \in EmissionAt(p, "discharges").excluded
    BY <1>6, EmissionsJoin DEF Joins
  <2>2. "discharges" \in Functions
    BY DEF Functions
  <2> QED
    BY <1>1, <2>1, <2>2, SettledMeans DEF Gathers
<1>8. /\ program.base_live \subseteq live /\ program.base_excluded \subseteq excluded
      /\ live \cap excluded = {}
  BY SettledMeans
<1> HIDE DEF a
<1>9. Value(a) = IF matches THEN "LIVE" ELSE "EXCLUDED"
  BY <1>7, <1>8 DEF Value
<1> QED
  BY <1>4, <1>5, <1>9 DEF a

LEMMA DischargeValue ==
  ASSUME Settled, NEW d \in package.discharges
  PROVE  Value(<<"discharge-case", d.ref>>) = SaysDischarge(d)
<1> DEFINE p == package
           k == <<"cert-valid", d.certificate>>
           m == <<"type-match", d.ref>>
           a == <<"discharge-case", d.ref>>
<1>1. Value(k) = SaysCertificate(d.certificate)
  <2>1. PICK x : Points(p, d.certificate, "CERTIFICATE", x)
    BY SettledMeans, DischargeLinks DEF Compilable
  <2> QED
    BY <2>1, CertificateValue
<1>2. Value(m) = IF Compatible(RecordOf(p.challenges, d.challenge).kind, d.kind)
                 THEN "LIVE" ELSE "EXCLUDED"
  BY MatchValue
<1>3. a \in program.atoms /\ RulesFor(a) = {DischargeCase(d)}
  BY GateAtoms, RulesForGates
<1>4. Concluded(p, a)
  BY DEF Concluded
<1>5. Value(a) = All(Premises(DischargeCase(d)))
  BY <1>3, <1>4, ConcludedByOne
<1>6. Premises(DischargeCase(d)) = {Value(k), Value(m)}
  <2>1. DischargeCase(d).positive = {k, m} /\ DischargeCase(d).negative = {}
    BY DEF DischargeCase, GroundRule
  <2> QED
    BY <2>1 DEF Premises
<1> HIDE DEF a, k, m
<1>7. Value(a) = SaysDischarge(d)
  BY <1>1, <1>2, <1>5, <1>6, Kleene DEF SaysDischarge, All, Truth
<1> QED
  BY <1>7 DEF a

LEMMA DischargedValue ==
  ASSUME Settled, NEW c \in package.challenges
  PROVE  Value(<<"discharged", c.ref>>) = SaysDischarged(c)
<1> DEFINE p == package
           a == <<"discharged", c.ref>>
           answers == {x \in p.discharges : x.challenge = c.ref}
<1>1. a \in program.atoms /\ RulesFor(a) = {DischargedBridge(d) : d \in answers}
  BY GateAtoms, RulesForGates
<1>2. Concluded(p, a)
  BY DEF Concluded
<1>3. Value(a) = Some({All(Premises(g)) : g \in RulesFor(a)})
  BY <1>1, <1>2, ConcludedIsSome
<1>4. ASSUME NEW d \in answers
      PROVE  All(Premises(DischargedBridge(d))) = SaysDischarge(d)
  <2>1. /\ DischargedBridge(d).positive = {<<"discharge-case", d.ref>>}
        /\ DischargedBridge(d).negative = {}
    BY DEF DischargedBridge, GroundRule
  <2>2. Premises(DischargedBridge(d)) = {Value(<<"discharge-case", d.ref>>)}
    BY <2>1 DEF Premises
  <2> QED
    BY <2>2, DischargeValue, Kleene
<1>5. {All(Premises(g)) : g \in RulesFor(a)} = {SaysDischarge(d) : d \in answers}
  BY <1>1, <1>4
<1> QED
  BY <1>3, <1>5 DEF SaysDischarged

LEMMA OpenChallengeValue ==
  ASSUME Settled, NEW c \in package.challenges
  PROVE  Value(<<"open-challenge", c.ref>>) = SaysOpenChallenge(c)
<1> DEFINE p == package
           k == <<"cert-valid", c.certificate>>
           q == <<"closure-ready", c.discharge_closure>>
           case == <<"challenge-case", c.ref>>
           over == <<"discharged", c.ref>>
           a == <<"open-challenge", c.ref>>
<1>1. Value(k) = SaysCertificate(c.certificate)
  <2>1. PICK x : Points(p, c.certificate, "CERTIFICATE", x)
    BY SettledMeans, ChallengeLinks DEF Compilable
  <2> QED
    BY <2>1, CertificateValue
<1>2. Value(q) = SaysClosure(c.discharge_closure)
  <2>1. PICK x : Points(p, c.discharge_closure, "CLOSURE", x)
    BY SettledMeans, ChallengeLinks DEF Compilable
  <2> QED
    BY <2>1, ClosureValue
<1>3. Value(case) = Value(k)
  <2>1. case \in program.atoms /\ RulesFor(case) = {CaseRule(c)}
    BY GateAtoms, RulesForGates
  <2>2. Concluded(p, case)
    BY DEF Concluded
  <2>3. CaseRule(c).positive = {k} /\ CaseRule(c).negative = {}
    BY DEF CaseRule, GroundRule
  <2>4. Premises(CaseRule(c)) = {Value(k)}
    BY <2>3 DEF Premises
  <2> QED
    BY <2>1, <2>2, <2>4, ConcludedByOne, Kleene
<1>4. a \in program.atoms /\ RulesFor(a) = {OpenRule(c)}
  BY GateAtoms, RulesForGates
<1>5. Concluded(p, a)
  BY DEF Concluded
<1>6. Premises(OpenRule(c)) = {Value(case), Value(q), Not(Value(over))}
  <2>1. OpenRule(c).positive = {case, q} /\ OpenRule(c).negative = {over}
    BY DEF OpenRule, GroundRule
  <2> QED
    BY <2>1 DEF Premises
<1>7. Value(a) = All(Premises(OpenRule(c)))
  BY <1>4, <1>5, ConcludedByOne
<1>8. Value(over) = SaysDischarged(c)
  BY DischargedValue
<1> HIDE DEF a, k, q, case, over
<1>9. Value(a) = SaysOpenChallenge(c)
  BY <1>1, <1>2, <1>3, <1>6, <1>7, <1>8 DEF SaysOpenChallenge
<1> QED
  BY <1>9 DEF a

LEMMA ClearValue ==
  ASSUME Settled, NEW f \in package.faces
  PROVE  Value(<<"clear", f.ref>>) = SaysClear(f)
<1> DEFINE p == package
           q == <<"closure-ready", f.blocker_closure>>
           face == <<"face", f.ref>>
           has == <<"has-open-challenge", f.ref>>
           a == <<"clear", f.ref>>
<1>1. Value(q) = SaysClosure(f.blocker_closure)
  <2>1. PICK x : Points(p, f.blocker_closure, "CLOSURE", x)
    BY SettledMeans, FaceLinks DEF Compilable
  <2> QED
    BY <2>1, ClosureValue
<1>2. Value(face) = "LIVE"
  <2>1. face \in FaceEmissions(p)[f].live
    BY FaceParts
  <2>2. face \in EmissionAt(p, "faces").live
    BY <2>1, EmissionsJoin DEF Joins
  <2>3. "faces" \in Functions
    BY DEF Functions
  <2>4. face \in program.base_live
    BY <2>2, <2>3, SettledMeans DEF Gathers
  <2> QED
    BY <2>4, SettledMeans DEF Value
<1>3. Value(has) = Some({SaysOpenChallenge(c) : c \in Blockers(f)})
  <2>1. has \in program.atoms /\ RulesFor(has) = {EffectRule(c) : c \in Blockers(f)}
    BY GateAtoms, RulesForGates
  <2>2. Concluded(p, has)
    BY DEF Concluded
  <2>3. Value(has) = Some({All(Premises(g)) : g \in RulesFor(has)})
    BY <2>1, <2>2, ConcludedIsSome
  <2>4. ASSUME NEW c \in Blockers(f)
        PROVE  All(Premises(EffectRule(c))) = SaysOpenChallenge(c)
    <3>1. c \in package.challenges /\ c.kind # "rebut"
      BY DEF Blockers
    <3>2. EffectRule(c).positive = {<<"open-challenge", c.ref>>} /\ EffectRule(c).negative = {}
      BY <3>1 DEF EffectRule, GroundRule
    <3>3. Premises(EffectRule(c)) = {Value(<<"open-challenge", c.ref>>)}
      BY <3>2 DEF Premises
    <3> QED
      BY <3>1, <3>3, OpenChallengeValue, Kleene
  <2>5. {All(Premises(g)) : g \in RulesFor(has)} = {SaysOpenChallenge(c) : c \in Blockers(f)}
    BY <2>1, <2>4
  <2> QED
    BY <2>3, <2>5
<1>4. a \in program.atoms /\ RulesFor(a) = {ClearFace(f)}
  BY GateAtoms, RulesForGates
<1>5. Concluded(p, a)
  BY DEF Concluded
<1>6. Premises(ClearFace(f)) = {Value(q), Not(Value(has))} \cup {Value(face)}
  <2>1. ClearFace(f).positive = {face, q} /\ ClearFace(f).negative = {has}
    BY DEF ClearFace, GroundRule
  <2> QED
    BY <2>1 DEF Premises
<1>7. Value(a) = All(Premises(ClearFace(f)))
  BY <1>4, <1>5, ConcludedByOne
<1> HIDE DEF a, q, face, has
<1>8. Value(a) = All({Value(q), Not(Value(has))})
  BY <1>2, <1>6, <1>7, Kleene
<1>9. Value(a) = SaysClear(f)
  BY <1>1, <1>3, <1>8 DEF SaysClear
<1> QED
  BY <1>9 DEF a

LEMMA StatusIsValue ==
  ASSUME Settled, NEW role, NEW ref, <<role, ref>> \in program.atoms
  PROVE  Status(role, ref) = Value(<<role, ref>>)
<1>1. /\ suspended = program.atoms \ (live \cup excluded)
      /\ live \cap excluded = {}
  BY SettledMeans
<1> DEFINE a == <<role, ref>>
<1>2. Status(role, ref) = CASE a \in live -> "LIVE"
                            [] a \in excluded -> "EXCLUDED"
                            [] a \in suspended -> "SUSPENDED"
  BY DEF Status
<1> HIDE DEF a
<1>3. a \in program.atoms
  BY DEF a
<1>4. Status(role, ref) = Value(a)
  BY <1>1, <1>2, <1>3 DEF Value
<1> QED
  BY <1>4 DEF a

LEMMA GatesFollow == Piping => GatesFollowTheProfile
<1> SUFFICES ASSUME Settled
             PROVE  /\ \A d \in package.discharges :
                         Status("discharge-case", d.ref) = SaysDischarge(d)
                    /\ \A c \in package.challenges :
                         /\ Status("discharged", c.ref) = SaysDischarged(c)
                         /\ Status("open-challenge", c.ref) = SaysOpenChallenge(c)
                    /\ \A f \in package.faces : Status("clear", f.ref) = SaysClear(f)
  BY DEF GatesFollowTheProfile, Settled
<1>1. \A d \in package.discharges : Status("discharge-case", d.ref) = SaysDischarge(d)
  BY GateAtoms, StatusIsValue, DischargeValue
<1>2. \A c \in package.challenges : Status("discharged", c.ref) = SaysDischarged(c)
  BY GateAtoms, StatusIsValue, DischargedValue
<1>3. \A c \in package.challenges : Status("open-challenge", c.ref) = SaysOpenChallenge(c)
  BY GateAtoms, StatusIsValue, OpenChallengeValue
<1>4. \A f \in package.faces : Status("clear", f.ref) = SaysClear(f)
  BY GateAtoms, StatusIsValue, ClearValue
<1> QED
  BY <1>1, <1>2, <1>3, <1>4

(* The status evaluate gives to each discharge-case, discharged, open-     *)
(* challenge and clear atom is the value strong Kleene logic gives to the  *)
(* records of the admitted package, whatever its rules do                  *)
(* (GatesFollowTheProfile).                                                *)
THEOREM GatesAreTheProfile == PipelineSpec => []GatesFollowTheProfile
  BY PipelineInvariance, GatesFollow, PTL

LEMMA KleeneInverts ==
  /\ \A values : All(values) = "LIVE" => \A v \in values : v # "EXCLUDED" /\ v # "SUSPENDED"
  /\ \A values : All(values) = "EXCLUDED" => "EXCLUDED" \in values
  /\ \A values : Some(values) = "EXCLUDED" => \A v \in values : v # "LIVE" /\ v # "SUSPENDED"
  /\ \A values : Some(values) = "LIVE" => "LIVE" \in values
  /\ \A v \in Truth : Not(v) = "LIVE" => v = "EXCLUDED"
  /\ \A v \in Truth : Not(v) = "EXCLUDED" => v = "LIVE"
  /\ \A v \in Truth : Not(v) \in Truth
  BY DEF All, Some, Not, Truth

LEMMA ClearIsAsked ==
  ASSUME Settled, NEW f \in package.faces, <<"clear", f.ref>> \in live
  PROVE  /\ SaysClosure(f.blocker_closure) = "LIVE"
         /\ \A c \in Blockers(f) : SaysOpenChallenge(c) = "EXCLUDED"
<1> DEFINE blocked == Some({SaysOpenChallenge(c) : c \in Blockers(f)})
           values == {SaysClosure(f.blocker_closure), Not(blocked)}
<1>1. All(values) = "LIVE"
  BY ClearValue DEF Value, SaysClear
<1>2. \A v \in values : v # "EXCLUDED" /\ v # "SUSPENDED"
  BY <1>1, KleeneInverts
<1>3. blocked \in Truth /\ Not(blocked) \in Truth
  BY Kleene, KleeneInverts
<1>4. Not(blocked) = "LIVE"
  BY <1>2, <1>3 DEF Truth
<1>5. blocked = "EXCLUDED"
  BY <1>3, <1>4, KleeneInverts
<1>6. \A c \in Blockers(f) : SaysOpenChallenge(c) # "LIVE" /\ SaysOpenChallenge(c) # "SUSPENDED"
  BY <1>5, KleeneInverts
<1>7. \A c : SaysOpenChallenge(c) \in Truth
  BY Kleene DEF SaysOpenChallenge
<1>8. SaysClosure(f.blocker_closure) \in Truth
  <2>1. PICK q : Points(package, f.blocker_closure, "CLOSURE", q)
    BY SettledMeans, FaceLinks DEF Compilable
  <2> QED
    BY <2>1, ClosureValue, Kleene
<1> QED
  BY <1>2, <1>6, <1>7, <1>8 DEF Truth

(* A challenge that is closed failed or has been discharged.               *)
LEMMA ClosedChallengeIsAnswered ==
  ASSUME Settled, NEW c \in package.challenges, SaysOpenChallenge(c) = "EXCLUDED"
  PROVE  \/ SaysCertificate(c.certificate) = "EXCLUDED"
         \/ \E d \in package.discharges :
              /\ d.challenge = c.ref
              /\ Compatible(c.kind, d.kind)
              /\ SaysCertificate(d.certificate) = "LIVE"
<1> DEFINE p == package
           said == {SaysDischarge(d) : d \in {x \in p.discharges : x.challenge = c.ref}}
<1>1. "EXCLUDED" \in {SaysCertificate(c.certificate), SaysClosure(c.discharge_closure),
                      Not(SaysDischarged(c))}
  BY KleeneInverts DEF SaysOpenChallenge
<1>2. SaysClosure(c.discharge_closure) # "EXCLUDED"
  <2>1. PICK q : Points(p, c.discharge_closure, "CLOSURE", q)
    BY SettledMeans, ChallengeLinks DEF Compilable
  <2>2. q \in p.closures /\ q.ref = c.discharge_closure
    BY <2>1, RecordsByKind DEF Points
  <2>3. RecordOf(p.closures, c.discharge_closure) = q
    <3>1. \A x, y \in p.closures : x.ref = y.ref => x = y
      BY SettledMeans, AdmittedMeans, RefsDiffer DEF Compilable
    <3> QED
      BY <2>2, <3>1, RecordFound
  <2>4. q.result \in {"PASS", "FAIL", "OPEN"}
    BY <2>2, SettledMeans DEF Compilable, Constructed, CheckResult
  <2> QED
    BY <2>3, <2>4 DEF SaysClosure
<1>3. CASE Not(SaysDischarged(c)) = "EXCLUDED"
  <2>1. SaysDischarged(c) = "LIVE"
    BY <1>3, Kleene, KleeneInverts DEF SaysDischarged
  <2>2. "LIVE" \in said
    BY <2>1, KleeneInverts DEF SaysDischarged
  <2>3. PICK d \in p.discharges : d.challenge = c.ref /\ SaysDischarge(d) = "LIVE"
    BY <2>2
  <2>4. RecordOf(p.challenges, d.challenge) = c
    <3>1. \A x, y \in p.challenges : x.ref = y.ref => x = y
      BY SettledMeans, AdmittedMeans, RefsDiffer DEF Compilable
    <3> QED
      BY <2>3, <3>1, RecordFound
  <2> QED
    BY <2>3, <2>4 DEF SaysDischarge
<1> QED
  BY <1>1, <1>2, <1>3

LEMMA ClearFaceAnswered == Piping => ClearFaceHasNoUnansweredBlocker
<1> SUFFICES ASSUME Settled, NEW f \in package.faces, <<"clear", f.ref>> \in live
             PROVE  /\ \A q \in package.closures :
                         (q.ref = f.blocker_closure /\ Registry.checkers[q.checker].local) =>
                           {c.ref : c \in Blockers(f)} \subseteq q.members
                    /\ \A c \in Blockers(f) :
                         \/ SaysCertificate(c.certificate) = "EXCLUDED"
                         \/ \E d \in package.discharges :
                              /\ d.challenge = c.ref
                              /\ Compatible(c.kind, d.kind)
                              /\ SaysCertificate(d.certificate) = "LIVE"
  BY DEF ClearFaceHasNoUnansweredBlocker, Settled
<1>1. /\ SaysClosure(f.blocker_closure) = "LIVE"
      /\ \A c \in Blockers(f) : SaysOpenChallenge(c) = "EXCLUDED"
  BY ClearIsAsked
<1>2. /\ Admitted(package) /\ Constructed(package) /\ DuplicateRefs(package) = {}
      /\ phase = "accepted"
  BY SettledMeans, AdmittedMeans DEF Compilable, Settled, Piping, Compiling, Evaluated
<1>3. ASSUME NEW q \in package.closures, q.ref = f.blocker_closure,
             Registry.checkers[q.checker].local
      PROVE  {c.ref : c \in Blockers(f)} \subseteq q.members
  <2>1. RecordOf(package.closures, f.blocker_closure) = q
    BY <1>2, <1>3, RefsDiffer, RecordFound
  <2>2. q.result \in {"PASS", "FAIL", "OPEN"}
    BY <1>2 DEF Constructed, CheckResult
  <2>3. q.result = "PASS"
    BY <1>1, <2>1, <2>2 DEF SaysClosure
  <2>4. q.members = Selected(package, q.selector)
    BY <1>2, <1>3, <2>3, AdmittedIsTruthful DEF LocalClosuresAreTruthful
  <2>5. Asks(q, "CHALLENGE", "target", f.ref)
    BY <1>2, <1>3, <2>3, AdmittedAsksOwners
    DEF LocalInquiriesAskTheirOwner, InquiriesAskTheirOwner
  <2>6. Selected(package, q.selector) =
          {c.ref : c \in {x \in package.challenges : x["target"] = f.ref}}
    BY <2>5, RecordsByKind DEF Selected, Asks
  <2> QED
    BY <2>4, <2>6 DEF Blockers
<1>4. Blockers(f) \subseteq package.challenges
  BY DEF Blockers
<1> QED
  BY <1>1, <1>3, <1>4, ClosedChallengeIsAnswered

(* A clear face has an inquiry that listed all its blocking challenges,    *)
(* and each of those failed or has a discharge that applies                *)
(* (ClearFaceHasNoUnansweredBlocker).                                      *)
THEOREM ClearFacesAreAnswered == PipelineSpec => []ClearFaceHasNoUnansweredBlocker
  BY PipelineInvariance, ClearFaceAnswered, PTL

-----------------------------------------------------------------------------
(* What the package's own atoms mean.  Between a rule of the package and   *)
(* the head it concludes the compiler puts the rule's case; gates only     *)
(* tell whether a case, or a rebut, applies.                               *)
Own == SourceAtoms({a.ref : a \in package.atoms})

Case(r) == <<"live-case", r.ref>>

Gates(r) ==
  {<<"cert-valid", r.certificate>>}
    \cup {<<"clear", f>> : f \in r.faces}
    \cup {<<"closure-ready", n.closure>> : n \in r.negative}

Before(r) == SourceAtoms(r.positive)

Unless(r) == SourceAtoms({n.atom : n \in r.negative})

LEMMA CaseParts ==
  ASSUME NEW r
  PROVE  /\ RuleCase(r).head = Case(r) /\ RuleCase(r).positive = Gates(r) \cup Before(r)
         /\ RuleCase(r).negative = Unless(r)
         /\ HeadBridge(r).head = <<"source-atom", r.head>>
         /\ HeadBridge(r).positive = {Case(r)} /\ HeadBridge(r).negative = {}
<1>1. /\ RuleCase(r).head = Case(r)
      /\ RuleCase(r).positive =
           {<<"cert-valid", r.certificate>>} \cup SourceAtoms(r.positive)
             \cup {<<"clear", f>> : f \in r.faces}
             \cup {<<"closure-ready", n.closure>> : n \in r.negative}
      /\ RuleCase(r).negative = Unless(r)
      /\ HeadBridge(r).head = <<"source-atom", r.head>>
      /\ HeadBridge(r).positive = {Case(r)} /\ HeadBridge(r).negative = {}
  BY DEF RuleCase, HeadBridge, GroundRule, Case, Unless
<1> QED
  BY <1>1 DEF Gates, Before

-----------------------------------------------------------------------------
(* The program read at the level of the package's own atoms: each rule of  *)
(* the package by way of its case, each rebut by way of its open challenge.*)

(* The package's own atoms are atoms of the program; the undecided one of  *)
(* the direct program is not.                                              *)
LEMMA OwnTell ==
  ASSUME Settled
  PROVE  /\ Own \subseteq program.atoms
         /\ Undecided \notin program.atoms
         /\ \A a \in Own : a[1] = "source-atom"
<1>1. Compilable(package) /\ program.atoms = Universe(package, Functions)
  BY SettledMeans DEF Gathers
<1>2. Own = EmissionAt(package, "atoms").atoms
  BY DEF EmissionAt, SourceAtomEmission, Emission, Own
<1>3. Own \subseteq program.atoms
  BY <1>1, <1>2 DEF Universe, Functions
<1>4. \A a \in Own : a[1] = "source-atom"
  BY DEF Own, SourceAtoms
<1>5. Undecided \notin program.atoms
  <2>1. SUFFICES ASSUME NEW f \in Functions, Undecided \in EmissionAt(package, f).atoms
                 PROVE  FALSE
    BY <1>1 DEF Universe
  <2>2. OwnsItsArtifacts(EmissionAt(package, f)) /\ EmissionAt(package, f).kind = KindAt[f]
    BY <1>1, EmissionsSound, EmissionsJoin DEF Compilable
  <2>3. AtomOwner(Undecided) = "ATOM"
    BY DEF AtomOwner, Undecided
  <2>4. KindAt[f] = "ATOM"
    BY <2>1, <2>2, <2>3 DEF OwnsItsArtifacts
  <2>5. f = "atoms"
    BY <2>4 DEF Functions, KindAt
  <2>6. PICK a \in package.atoms : Undecided = <<"source-atom", a.ref>>
    BY <1>2, <2>1, <2>5 DEF Own, SourceAtoms
  <2>7. a.ref = NoRef
    BY <2>6 DEF Undecided
  <2>8. a.ref \in Recorded(package)
    BY RecordsByKind DEF Recorded, RecordKind
  <2> QED
    BY <1>1, <2>7, <2>8, RefAssumption DEF Compilable, Constructed
<1> QED
  BY <1>3, <1>4, <1>5

(* Only the package's own atoms are source atoms of the program.           *)
LEMMA OwnEmission ==
  ASSUME Settled
  PROVE  /\ EmissionAt(package, "atoms").atoms = Own
         /\ \A f \in Functions : \A a \in EmissionAt(package, f).atoms :
              a[1] = "source-atom" => f = "atoms"
<1>1. Compilable(package)
  BY SettledMeans
<1>2. EmissionAt(package, "atoms").atoms = Own
  BY DEF EmissionAt, SourceAtomEmission, Emission, Own
<1>3. ASSUME NEW f \in Functions, NEW a \in EmissionAt(package, f).atoms, a[1] = "source-atom"
      PROVE  f = "atoms"
  <2>1. OwnsItsArtifacts(EmissionAt(package, f)) /\ EmissionAt(package, f).kind = KindAt[f]
    BY <1>1, EmissionsSound, EmissionsJoin DEF Compilable
  <2>2. KindAt[f] = "ATOM"
    BY <1>3, <2>1 DEF OwnsItsArtifacts, AtomOwner
  <2> QED
    BY <2>2 DEF Functions, KindAt
<1> QED
  BY <1>2, <1>3

(* The base of the program is, on these atoms, the base of the package.    *)
LEMMA OwnBase ==
  ASSUME Settled
  PROVE  /\ program.base_live \cap Own = SourceAtoms(package.base.live)
         /\ program.base_excluded \cap Own = SourceAtoms(package.base.excluded)
         /\ program.protected_open \cap Own = SourceAtoms(package.base.open)
<1> DEFINE e == EmissionAt(package, "atoms")
<1>1. /\ Compilable(package) /\ Gathers(builder, package, Functions)
      /\ program.base_live = UNION {EmissionAt(package, f).live : f \in Functions}
      /\ program.base_excluded = UNION {EmissionAt(package, f).excluded : f \in Functions}
      /\ program.protected_open = UNION {EmissionAt(package, f).open : f \in Functions}
  BY SettledMeans DEF Gathers
<1>2. /\ e.live = SourceAtoms(package.base.live)
      /\ e.excluded = SourceAtoms(package.base.excluded)
      /\ e.open = SourceAtoms(package.base.open)
  BY DEF EmissionAt, SourceAtomEmission, Emission
<1>3. \A f \in Functions : PlacesItsAtoms(package, EmissionAt(package, f))
  BY <1>1, EmissionsSound, EmissionsJoin DEF Compilable
<1>4. "atoms" \in Functions
  BY DEF Functions
<1>5. e.live \cup e.excluded \cup e.open \subseteq Own
  BY <1>3, <1>4, OwnEmission DEF PlacesItsAtoms
<1>6. ASSUME NEW f \in Functions, NEW a \in Own,
             a \in EmissionAt(package, f).live \cup EmissionAt(package, f).excluded
                     \cup EmissionAt(package, f).open
      PROVE  f = "atoms"
  <2>1. a[1] = "source-atom"
    BY OwnTell
  <2>2. a \in EmissionAt(package, f).atoms
    BY <1>3, <1>6 DEF PlacesItsAtoms
  <2> QED
    BY <2>1, <2>2, OwnEmission
<1>7. \A a : a \in program.base_live \cap Own <=> a \in e.live
  BY <1>1, <1>4, <1>5, <1>6
<1>8. \A a : a \in program.base_excluded \cap Own <=> a \in e.excluded
  BY <1>1, <1>4, <1>5, <1>6
<1>9. \A a : a \in program.protected_open \cap Own <=> a \in e.open
  BY <1>1, <1>4, <1>5, <1>6
<1> QED
  BY <1>2, <1>7, <1>8, <1>9

(* A link to an atom leads to one of the package's own.                    *)
LEMMA OwnLinks ==
  ASSUME NEW ref, NEW a, Points(package, ref, "ATOM", a)
  PROVE  <<"source-atom", ref>> \in Own
<1>1. a \in package.atoms /\ a.ref = ref
  BY RecordsByKind DEF Points
<1> QED
  BY <1>1 DEF Own, SourceAtoms

(* What rules conclude has no base status.                                 *)
LEMMA ConcludedIsNotGiven ==
  ASSUME Settled, NEW a, Concluded(package, a)
  PROVE  a \notin program.base_live \cup program.base_excluded \cup program.protected_open
<1>1. Compilable(package) /\ Gathers(builder, package, Functions) /\ DuplicateRefs(package) = {}
  BY SettledMeans, AdmittedMeans DEF Compilable
<1>2. Functions \in SUBSET Functions
  OBVIOUS
<1>3. \A x \in builder.live \cup builder.excluded \cup builder.open : Given(package, x)
  BY <1>1, <1>2, GatheredSound
<1> QED
  BY <1>1, <1>3, SettledMeans, GivenOrConcluded

LEMMA HeadRoles ==
  /\ \A f : ClearFace(f).head[1] = "clear"
  /\ \A r : RuleCase(r).head[1] = "live-case" /\ HeadBridge(r).head[1] = "source-atom"
  /\ \A c : CaseRule(c).head[1] = "challenge-case" /\ OpenRule(c).head[1] = "open-challenge"
  /\ \A c : c.kind # "rebut" => EffectRule(c).head[1] = "has-open-challenge"
  /\ \A c : c.kind = "rebut" => EffectRule(c).head[1] = "source-atom"
  /\ \A d : DischargeCase(d).head[1] = "discharge-case"
  /\ \A d : DischargedBridge(d).head[1] = "discharged"
  BY DEF ClearFace, RuleCase, HeadBridge, CaseRule, OpenRule, EffectRule, DischargeCase,
     DischargedBridge, GroundRule

LEMMA RulesForCase ==
  ASSUME Settled, NEW r \in package.rules
  PROVE  RulesFor(Case(r)) = {RuleCase(r)}
<1>1. DuplicateRefs(package) = {}
  BY SettledMeans, AdmittedMeans DEF Compilable
<1>2. \A x, y \in package.rules : x.ref = y.ref => x = y
  BY <1>1, RefsDiffer
<1>3. ASSUME NEW g \in RulesFor(Case(r))
      PROVE  g = RuleCase(r)
  <2>1. g \in program.rules /\ g.head = <<"live-case", r.ref>>
    BY DEF RulesFor, Case
  <2>2. g.head[1] = "live-case" /\ g.head[2] = r.ref
    BY <2>1
  <2>3. \/ \E f \in package.faces : g = ClearFace(f)
        \/ \E s \in package.rules : g \in {RuleCase(s), HeadBridge(s)}
        \/ \E c \in package.challenges : g \in {CaseRule(c), OpenRule(c), EffectRule(c)}
        \/ \E d \in package.discharges : g = DischargeCase(d) \/ g = DischargedBridge(d)
    BY <2>1, RulesTell
  <2>4. \A x : g # ClearFace(x) /\ g # HeadBridge(x) /\ g # CaseRule(x) /\ g # OpenRule(x)
               /\ g # EffectRule(x) /\ g # DischargeCase(x) /\ g # DischargedBridge(x)
    BY <2>2, HeadRoles
  <2>5. PICK s \in package.rules : g = RuleCase(s)
    BY <2>3, <2>4
  <2>6. g.head = <<"live-case", s.ref>>
    BY <2>5, HeadsTell
  <2>7. s.ref = r.ref
    BY <2>2, <2>6
  <2> QED
    BY <1>2, <2>5, <2>7
<1>4. RuleCase(r) \in RulesFor(Case(r))
  BY RulesTell, HeadsTell DEF RulesFor, Case
<1> QED
  BY <1>3, <1>4

(* What concludes one of the package's own atoms.                          *)
LEMMA RulesForOwn ==
  ASSUME Settled, NEW g \in program.rules, g.head \in Own
  PROVE  \/ \E r \in package.rules : g = HeadBridge(r)
         \/ \E c \in package.challenges : c.kind = "rebut" /\ g = EffectRule(c)
<1>1. g.head[1] = "source-atom"
  BY OwnTell
<1>2. \/ \E f \in package.faces : g = ClearFace(f)
      \/ \E s \in package.rules : g \in {RuleCase(s), HeadBridge(s)}
      \/ \E c \in package.challenges : g \in {CaseRule(c), OpenRule(c), EffectRule(c)}
      \/ \E d \in package.discharges : g = DischargeCase(d) \/ g = DischargedBridge(d)
  BY RulesTell
<1>3. \A x : g # ClearFace(x) /\ g # RuleCase(x) /\ g # CaseRule(x) /\ g # OpenRule(x)
             /\ g # DischargeCase(x) /\ g # DischargedBridge(x)
  BY <1>1, HeadRoles
<1>4. \A c : g = EffectRule(c) => c.kind = "rebut"
  BY <1>1, HeadRoles
<1> QED
  BY <1>2, <1>3, <1>4

-----------------------------------------------------------------------------
(* Whether a rule applies is what its gates say.                           *)
LEMMA ApplicableIsGates ==
  ASSUME Settled, NEW r \in package.rules
  PROVE  SaysApplicable(r) = All({Value(a) : a \in Gates(r)})
<1> DEFINE certificate == <<"cert-valid", r.certificate>>
<1>1. Compilable(package) /\ DuplicateRefs(package) = {}
  BY SettledMeans, AdmittedMeans DEF Compilable
<1>2. Value(certificate) = SaysCertificate(r.certificate)
  <2>1. PICK k : Points(package, r.certificate, "CERTIFICATE", k)
    BY <1>1, RuleLinks DEF Compilable
  <2> QED
    BY <2>1, CertificateValue
<1>3. ASSUME NEW f \in r.faces
      PROVE  Value(<<"clear", f>>) = SaysClear(RecordOf(package.faces, f))
  <2>1. PICK face : Points(package, f, "FACE", face)
    BY <1>1, RuleLinks DEF Compilable
  <2>2. face \in package.faces /\ face.ref = f
    BY <2>1, RecordsByKind DEF Points
  <2>3. RecordOf(package.faces, face.ref) = face
    BY <1>1, <2>2, RefsDiffer, RecordFound
  <2>4. Value(<<"clear", face.ref>>) = SaysClear(face)
    BY <2>2, ClearValue
  <2> QED
    BY <2>2, <2>3, <2>4
<1>4. ASSUME NEW n \in r.negative
      PROVE  Value(<<"closure-ready", n.closure>>) = SaysClosure(n.closure)
  <2>1. PICK c : Points(package, n.closure, "CLOSURE", c)
    BY <1>1, RuleLinks DEF Compilable
  <2> QED
    BY <2>1, ClosureValue
<1>5. {Value(a) : a \in Gates(r)} =
        {SaysCertificate(r.certificate)}
          \cup {SaysClear(RecordOf(package.faces, f)) : f \in r.faces}
          \cup {SaysClosure(n.closure) : n \in r.negative}
  <2>1. \A a : a \in Gates(r) <=> \/ a = certificate
                                  \/ \E f \in r.faces : a = <<"clear", f>>
                                  \/ \E n \in r.negative : a = <<"closure-ready", n.closure>>
    BY DEF Gates
  <2>2. {Value(a) : a \in Gates(r)} =
          {Value(certificate)} \cup {Value(<<"clear", f>>) : f \in r.faces}
            \cup {Value(<<"closure-ready", n.closure>>) : n \in r.negative}
    <3> HIDE DEF certificate
    <3> QED
      BY <2>1
  <2> QED
    BY <1>2, <1>3, <1>4, <2>2
<1> QED
  BY <1>5 DEF SaysApplicable

(* The value of a case: its gates, what it stands on and what it excludes. *)
LEMMA CaseValue ==
  ASSUME Settled, NEW r \in package.rules
  PROVE  /\ Case(r) \in live <=>
              SaysApplicable(r) = "LIVE" /\ Before(r) \subseteq live /\ Unless(r) \subseteq excluded
         /\ Case(r) \notin excluded =>
              SaysApplicable(r) # "EXCLUDED" /\ Unless(r) \cap live = {}
         /\ SaysApplicable(r) # "EXCLUDED" => Gates(r) \cap excluded = {}
         /\ SaysApplicable(r) \in EP!Truths
<1> DEFINE g == RuleCase(r)
           gates == {Value(a) : a \in Gates(r)}
<1>1. Case(r) \in program.atoms
  <2>1. Compilable(package) /\ program.atoms = Universe(package, Functions)
    BY SettledMeans DEF Gathers
  <2>2. Case(r) \in EmissionAt(package, "rules").atoms
    BY <2>1, AtomsEmitted DEF Case, Compilable
  <2> QED
    BY <2>1, <2>2 DEF Universe, Functions
<1>2. Concluded(package, Case(r))
  BY DEF Concluded, Case
<1>3. Value(Case(r)) = All(Premises(g))
  BY <1>1, <1>2, RulesForCase, ConcludedByOne
<1>4. live \cap excluded = {}
  BY SettledMeans
<1>5. /\ \A a : Value(a) \in {"LIVE", "EXCLUDED", "SUSPENDED"}
      /\ \A a : Value(a) = "LIVE" <=> a \in live
      /\ \A a : Value(a) = "EXCLUDED" <=> a \in excluded
  BY <1>4 DEF Value
<1>6. SaysApplicable(r) = All(gates)
  BY ApplicableIsGates
<1>7. g.positive = Gates(r) \cup Before(r) /\ g.negative = Unless(r)
  BY CaseParts
<1>8. BodyValue(g) = All(Premises(g))
  BY BodyIsAll
<1>9. /\ All(gates) = "LIVE" <=> Gates(r) \subseteq live
      /\ All(gates) # "EXCLUDED" <=> Gates(r) \cap excluded = {}
      /\ All(gates) \in {"LIVE", "EXCLUDED", "SUSPENDED"}
  BY <1>5 DEF All
<1>10. /\ BodyValue(g) = "EXCLUDED" <=> EP!Blocked(g, live, excluded)
       /\ BodyValue(g) = "LIVE" <=> EP!DefinitelyEnabled(g, live, excluded)
  BY <1>4, EP!BlockedNotEnabled DEF BodyValue
<1> HIDE DEF g, gates
<1>11. /\ Case(r) \in live <=> EP!DefinitelyEnabled(g, live, excluded)
       /\ Case(r) \in excluded <=> EP!Blocked(g, live, excluded)
  BY <1>3, <1>5, <1>8, <1>10
<1>12. /\ EP!DefinitelyEnabled(g, live, excluded) <=>
            /\ Gates(r) \subseteq live /\ Before(r) \subseteq live
            /\ Unless(r) \subseteq excluded
       /\ ~ EP!Blocked(g, live, excluded) =>
            Gates(r) \cap excluded = {} /\ Unless(r) \cap live = {}
  BY <1>7 DEF EP!DefinitelyEnabled, EP!Blocked
<1> QED
  BY <1>6, <1>9, <1>11, <1>12 DEF EP!Truths

-----------------------------------------------------------------------------
(* What leads to the package's own atoms, read at their level: the case of *)
(* a rule, and the open challenge of a rebut, which stands on gates alone. *)
RuleReading(r) ==
  [head |-> <<"source-atom", r.head>>, case |-> Case(r), before |-> Before(r),
   unless |-> Unless(r), says |-> SaysApplicable(r)]

RebutReading(c) ==
  [head |-> <<"source-atom", c.contrary_atom>>, case |-> <<"open-challenge", c.ref>>,
   before |-> {}, unless |-> {}, says |-> SaysOpenChallenge(c)]

Rebuts == {c \in package.challenges : c.kind = "rebut"}

Readings == {RuleReading(r) : r \in package.rules} \cup {RebutReading(c) : c \in Rebuts}

RuleAsRead(r) ==
  DirectRule(r.ref, r.head, r.positive, {n.atom : n \in r.negative}, SaysApplicable(r))

RebutAsRead(c) == DirectRule(c.ref, c.contrary_atom, {}, {}, SaysOpenChallenge(c))

LEMMA DirectParts ==
  /\ DirectProgram.atoms = Own \cup {Undecided}
  /\ DirectProgram.base_live = SourceAtoms(package.base.live)
  /\ DirectProgram.base_excluded = SourceAtoms(package.base.excluded)
  /\ DirectProgram.protected_open = SourceAtoms(package.base.open) \cup {Undecided}
  /\ \A g : g \in DirectProgram.rules <=>
       \/ \E r \in package.rules : SaysApplicable(r) # "EXCLUDED" /\ g = RuleAsRead(r)
       \/ \E c \in Rebuts : SaysOpenChallenge(c) # "EXCLUDED" /\ g = RebutAsRead(c)
<1>1. DirectProgram.rules =
        {RuleAsRead(r) : r \in {x \in package.rules : SaysApplicable(x) # "EXCLUDED"}}
          \cup {RebutAsRead(c) :
                  c \in {x \in package.challenges :
                           x.kind = "rebut" /\ SaysOpenChallenge(x) # "EXCLUDED"}}
  BY DEF DirectProgram, RuleAsRead, RebutAsRead
<1>2. \A g : g \in DirectProgram.rules <=>
        \/ \E r \in package.rules : SaysApplicable(r) # "EXCLUDED" /\ g = RuleAsRead(r)
        \/ \E c \in Rebuts : SaysOpenChallenge(c) # "EXCLUDED" /\ g = RebutAsRead(c)
  BY <1>1 DEF Rebuts
<1>3. /\ DirectProgram.atoms = Own \cup {Undecided}
      /\ DirectProgram.base_live = SourceAtoms(package.base.live)
      /\ DirectProgram.base_excluded = SourceAtoms(package.base.excluded)
      /\ DirectProgram.protected_open = SourceAtoms(package.base.open) \cup {Undecided}
  BY DEF DirectProgram, Own
<1> QED
  BY <1>2, <1>3

LEMMA RuleReadingParts ==
  ASSUME NEW r, r \in package.rules, SaysApplicable(r) # "EXCLUDED"
  PROVE  EP!Reads(DirectProgram, RuleAsRead(r), RuleReading(r), Undecided)
<1>1. RuleAsRead(r) \in DirectProgram.rules
  BY DirectParts
<1>2. /\ RuleAsRead(r).head = <<"source-atom", r.head>>
      /\ RuleAsRead(r).negative = Unless(r)
      /\ RuleAsRead(r).positive =
           Before(r) \cup IF SaysApplicable(r) = "SUSPENDED" THEN {Undecided} ELSE {}
  BY DEF RuleAsRead, DirectRule, Before, Unless
<1>3. /\ RuleReading(r).head = <<"source-atom", r.head>> /\ RuleReading(r).before = Before(r)
      /\ RuleReading(r).unless = Unless(r) /\ RuleReading(r).says = SaysApplicable(r)
  BY DEF RuleReading
<1> QED
  BY <1>1, <1>2, <1>3 DEF EP!Reads

LEMMA RebutReadingParts ==
  ASSUME NEW c, c \in Rebuts, SaysOpenChallenge(c) # "EXCLUDED"
  PROVE  EP!Reads(DirectProgram, RebutAsRead(c), RebutReading(c), Undecided)
<1>1. RebutAsRead(c) \in DirectProgram.rules
  BY DirectParts
<1>2. /\ RebutAsRead(c).head = <<"source-atom", c.contrary_atom>>
      /\ RebutAsRead(c).negative = {}
      /\ RebutAsRead(c).positive =
           IF SaysOpenChallenge(c) = "SUSPENDED" THEN {Undecided} ELSE {}
  BY DEF RebutAsRead, DirectRule, SourceAtoms
<1>3. /\ RebutReading(c).head = <<"source-atom", c.contrary_atom>> /\ RebutReading(c).before = {}
      /\ RebutReading(c).unless = {} /\ RebutReading(c).says = SaysOpenChallenge(c)
  BY DEF RebutReading
<1> QED
  BY <1>1, <1>2, <1>3 DEF EP!Reads

(* The atoms of the readings are the package's own.                        *)
LEMMA ReadingAtoms ==
  ASSUME Settled
  PROVE  /\ \A r \in package.rules :
              /\ <<"source-atom", r.head>> \in Own \ program.base_excluded
              /\ Before(r) \subseteq Own /\ Unless(r) \subseteq Own
         /\ \A c \in Rebuts : <<"source-atom", c.contrary_atom>> \in Own \ program.base_excluded
<1>1. Compilable(package) /\ Admitted(package)
  BY SettledMeans DEF Compilable
<1>2. ASSUME NEW ref, \E a : Points(package, ref, "ATOM", a) /\ ~ a.primitive
      PROVE  <<"source-atom", ref>> \in Own \ program.base_excluded
  <2>1. Concluded(package, <<"source-atom", ref>>)
    BY <1>2, HeadsConcluded
  <2> QED
    BY <1>2, <2>1, OwnLinks, ConcludedIsNotGiven
<1>3. ASSUME NEW r \in package.rules
      PROVE  /\ <<"source-atom", r.head>> \in Own \ program.base_excluded
             /\ Before(r) \subseteq Own /\ Unless(r) \subseteq Own
  <2>1. /\ \E a : Points(package, r.head, "ATOM", a) /\ ~ a.primitive
        /\ \A b \in r.positive : \E a : Points(package, b, "ATOM", a)
        /\ \A n \in r.negative : \E a : Points(package, n.atom, "ATOM", a)
    BY <1>1, RuleLinks
  <2>2. Before(r) \subseteq Own
    BY <2>1, OwnLinks DEF Before, SourceAtoms
  <2>3. Unless(r) \subseteq Own
    BY <2>1, OwnLinks DEF Unless, SourceAtoms
  <2> QED
    BY <1>2, <2>1, <2>2, <2>3
<1>4. ASSUME NEW c \in Rebuts
      PROVE  <<"source-atom", c.contrary_atom>> \in Own \ program.base_excluded
  <2>1. \E a : Points(package, c.contrary_atom, "ATOM", a) /\ ~ a.primitive
    BY <1>1, ChallengeLinks DEF Rebuts
  <2> QED
    BY <1>2, <2>1
<1> QED
  BY <1>3, <1>4

LEMMA DirectRestricts ==
  ASSUME Settled
  PROVE  EP!Restricts(program, DirectProgram, Own, Undecided, Readings)
<1>1. Own \subseteq program.atoms /\ Undecided \notin program.atoms
  BY OwnTell
<1>2. /\ DirectProgram.atoms = Own \cup {Undecided}
      /\ DirectProgram.base_live = program.base_live \cap Own
      /\ DirectProgram.base_excluded = program.base_excluded \cap Own
      /\ DirectProgram.protected_open = (program.protected_open \cap Own) \cup {Undecided}
  BY OwnBase, DirectParts
<1>3. ASSUME NEW g \in DirectProgram.rules
      PROVE  \E i \in Readings : EP!Reads(DirectProgram, g, i, Undecided)
  <2>1. ASSUME NEW r \in package.rules, SaysApplicable(r) # "EXCLUDED", g = RuleAsRead(r)
        PROVE  \E i \in Readings : EP!Reads(DirectProgram, g, i, Undecided)
    BY <2>1, RuleReadingParts DEF Readings
  <2>2. ASSUME NEW c \in Rebuts, SaysOpenChallenge(c) # "EXCLUDED", g = RebutAsRead(c)
        PROVE  \E i \in Readings : EP!Reads(DirectProgram, g, i, Undecided)
    BY <2>2, RebutReadingParts DEF Readings
  <2> QED
    BY <2>1, <2>2, DirectParts
<1>4. ASSUME NEW i \in Readings, i.says # "EXCLUDED"
      PROVE  \E g \in DirectProgram.rules : EP!Reads(DirectProgram, g, i, Undecided)
  <2>1. ASSUME NEW r \in package.rules, i = RuleReading(r)
        PROVE  \E g \in DirectProgram.rules : EP!Reads(DirectProgram, g, i, Undecided)
    <3>1. SaysApplicable(r) # "EXCLUDED"
      BY <1>4, <2>1 DEF RuleReading
    <3> QED
      BY <2>1, <3>1, RuleReadingParts, DirectParts
  <2>2. ASSUME NEW c \in Rebuts, i = RebutReading(c)
        PROVE  \E g \in DirectProgram.rules : EP!Reads(DirectProgram, g, i, Undecided)
    <3>1. SaysOpenChallenge(c) # "EXCLUDED"
      BY <1>4, <2>2 DEF RebutReading
    <3> QED
      BY <2>2, <3>1, RebutReadingParts, DirectParts
  <2> QED
    BY <2>1, <2>2 DEF Readings
<1> QED
  BY <1>1, <1>2, <1>3, <1>4 DEF EP!Restricts

LEMMA ReadingsBridge ==
  ASSUME Settled
  PROVE  EP!Bridges(program, Own, Readings)
<1>1. \A a \in Own : a[1] = "source-atom"
  BY OwnTell
<1>2. ASSUME NEW r \in package.rules
      PROVE  EP!Bridged(program, Own, RuleReading(r))
  <2>1. /\ RuleReading(r).head = <<"source-atom", r.head>> /\ RuleReading(r).before = Before(r)
        /\ RuleReading(r).unless = Unless(r) /\ RuleReading(r).case = Case(r)
    BY DEF RuleReading
  <2>2. Case(r) \in program.atoms
    <3>1. Compilable(package) /\ program.atoms = Universe(package, Functions)
      BY SettledMeans DEF Gathers
    <3>2. Case(r) \in EmissionAt(package, "rules").atoms
      BY <3>1, AtomsEmitted DEF Case, Compilable
    <3> QED
      BY <3>1, <3>2 DEF Universe, Functions
  <2>3. Case(r) \notin Own
    BY <1>1 DEF Case
  <2>4. Concluded(package, Case(r))
    BY DEF Concluded, Case
  <2>5. Case(r) \notin program.base_live \cup program.protected_open
    BY <2>4, ConcludedIsNotGiven
  <2>6. HeadBridge(r) \in program.rules
    BY RulesTell
  <2>7. \A g \in program.rules : g.head = Case(r) => g = RuleCase(r)
    BY RulesForCase DEF RulesFor
  <2>8. \A g \in program.rules :
          g.head = Case(r) => Before(r) \subseteq g.positive /\ Unless(r) \subseteq g.negative
    BY <2>7, CaseParts
  <2>9. /\ HeadBridge(r).head = <<"source-atom", r.head>>
        /\ HeadBridge(r).positive = {Case(r)} /\ HeadBridge(r).negative = {}
    BY CaseParts
  <2> QED
    BY <2>1, <2>2, <2>3, <2>5, <2>6, <2>8, <2>9, ReadingAtoms DEF EP!Bridged
<1>3. ASSUME NEW c \in Rebuts
      PROVE  EP!Bridged(program, Own, RebutReading(c))
  <2> DEFINE a == <<"open-challenge", c.ref>>
  <2>1. /\ RebutReading(c).head = <<"source-atom", c.contrary_atom>>
        /\ RebutReading(c).before = {} /\ RebutReading(c).unless = {}
        /\ RebutReading(c).case = a
    BY DEF RebutReading
  <2>2. c \in package.challenges /\ c.kind = "rebut"
    BY DEF Rebuts
  <2>3. a \in program.atoms
    BY <2>2, GateAtoms
  <2>4. a \notin Own
    BY <1>1
  <2>5. Concluded(package, a)
    BY DEF Concluded
  <2>6. a \notin program.base_live \cup program.protected_open
    BY <2>5, ConcludedIsNotGiven
  <2>7. EffectRule(c) \in program.rules
    BY <2>2, RulesTell
  <2>8. /\ EffectRule(c).head = <<"source-atom", c.contrary_atom>>
        /\ EffectRule(c).positive = {a} /\ EffectRule(c).negative = {}
    BY <2>2 DEF EffectRule, GroundRule
  <2> HIDE DEF a
  <2> QED
    BY <2>1, <2>3, <2>4, <2>6, <2>7, <2>8, ReadingAtoms DEF EP!Bridged
<1>4. ASSUME NEW g \in program.rules, g.head \in Own
      PROVE  \E i \in Readings : g.head = i.head /\ g.positive = {i.case}
  <2>1. ASSUME NEW r \in package.rules, g = HeadBridge(r)
        PROVE  \E i \in Readings : g.head = i.head /\ g.positive = {i.case}
    <3>1. RuleReading(r).head = <<"source-atom", r.head>> /\ RuleReading(r).case = Case(r)
      BY DEF RuleReading
    <3> QED
      BY <2>1, <3>1, CaseParts DEF Readings
  <2>2. ASSUME NEW c \in package.challenges, c.kind = "rebut", g = EffectRule(c)
        PROVE  \E i \in Readings : g.head = i.head /\ g.positive = {i.case}
    <3>1. /\ RebutReading(c).head = <<"source-atom", c.contrary_atom>>
          /\ RebutReading(c).case = <<"open-challenge", c.ref>>
      BY DEF RebutReading
    <3>2. /\ g.head = <<"source-atom", c.contrary_atom>>
          /\ g.positive = {<<"open-challenge", c.ref>>}
      BY <2>2 DEF EffectRule, GroundRule
    <3>3. RebutReading(c) \in Readings
      BY <2>2 DEF Readings, Rebuts
    <3> QED
      BY <3>1, <3>2, <3>3
  <2> QED
    BY <1>4, <2>1, <2>2, RulesForOwn
<1>5. \A i \in Readings : (\E r \in package.rules : i = RuleReading(r))
                           \/ (\E c \in Rebuts : i = RebutReading(c))
  BY DEF Readings
<1> QED
  BY <1>2, <1>3, <1>4, <1>5 DEF EP!Bridges

-----------------------------------------------------------------------------
(* The direct program, and that the two agree.                             *)

LEMMA EvaluatedIsWellFounded ==
  ASSUME Settled
  PROVE  /\ EP!WellFormed(program)
         /\ EP!WellFoundedLive(program) = live /\ EP!WellFoundedExcluded(program) = excluded
         /\ live \subseteq program.atoms /\ live \cap excluded = {}
         /\ EP!OverEstimate(program, live) = program.atoms \ excluded
<1>1. EP!Core /\ pc = "done"
  BY DEF Settled, Piping, Evaluated
<1>2. live = EP!WellFoundedLive(program) /\ excluded = EP!WellFoundedExcluded(program)
  BY <1>1, EP!SettledIsWellFounded
<1>3. EP!WellFormed(program)
  BY SettledMeans, SameProgramOperators
<1>4. EP!OverEstimate(program, live) \subseteq program.atoms
  BY <1>3, EP!EstimatesClosed
<1> QED
  BY <1>2, <1>3, <1>4, SettledMeans DEF EP!WellFoundedExcluded

(* What is not excluded may hold, however little is assumed.               *)
LEMMA NotExcludedMayHold ==
  ASSUME Settled, NEW s \in SUBSET live, NEW a \in program.atoms, a \notin excluded
  PROVE  a \in EP!OverEstimate(program, s)
<1>1. a \in EP!OverEstimate(program, live)
  BY EvaluatedIsWellFounded
<1>2. EP!OverEstimate(program, live) \subseteq EP!OverEstimate(program, s)
  BY EP!EstimatesAntitone
<1> QED
  BY <1>1, <1>2

LEMMA RuleReadingTells ==
  ASSUME Settled, NEW r \in package.rules
  PROVE  EP!Tells(program, RuleReading(r))
<1> DEFINE g == RuleCase(r)
<1>1. /\ RuleReading(r).case = Case(r) /\ RuleReading(r).before = Before(r)
      /\ RuleReading(r).unless = Unless(r) /\ RuleReading(r).says = SaysApplicable(r)
  BY DEF RuleReading
<1>2. /\ EP!WellFormed(program)
      /\ EP!WellFoundedLive(program) = live /\ EP!WellFoundedExcluded(program) = excluded
  BY EvaluatedIsWellFounded
<1>3. g \in program.rules /\ g.head = Case(r)
  BY RulesTell, CaseParts
<1>4. g.positive = Gates(r) \cup Before(r) /\ g.negative = Unless(r)
  BY CaseParts
<1>5. g.head \notin program.base_excluded
  <2>1. Concluded(package, Case(r))
    BY DEF Concluded, Case
  <2> QED
    BY <1>3, <2>1, ConcludedIsNotGiven
<1>6. Gates(r) \subseteq program.atoms
  BY <1>2, <1>3, <1>4, EP!NamesAreAtoms
<1> HIDE DEF g
<1>7. ASSUME NEW s \in SUBSET live, SaysApplicable(r) # "EXCLUDED", Unless(r) \cap s = {},
             Before(r) \subseteq EP!OverEstimate(program, s)
      PROVE  Case(r) \in EP!OverEstimate(program, s)
  <2>1. Gates(r) \cap excluded = {}
    BY <1>7, CaseValue
  <2>2. Gates(r) \subseteq EP!OverEstimate(program, s)
    BY <1>6, <2>1, NotExcludedMayHold
  <2>3. g \in EP!Reduct(program, s)
    BY <1>3, <1>4, <1>5, <1>7 DEF EP!Reduct
  <2>4. g.positive \subseteq EP!OverEstimate(program, s)
    BY <1>4, <1>7, <2>2
  <2>5. g.head \in EP!OverEstimate(program, s)
    BY <1>2, <2>3, <2>4, EP!EstimatesClosed
  <2> QED
    BY <1>3, <2>5
<1> QED
  BY <1>1, <1>2, <1>7, CaseValue DEF EP!Tells

LEMMA RebutReadingTells ==
  ASSUME Settled, NEW c \in Rebuts
  PROVE  EP!Tells(program, RebutReading(c))
<1> DEFINE a == <<"open-challenge", c.ref>>
<1>1. /\ RebutReading(c).case = a /\ RebutReading(c).before = {}
      /\ RebutReading(c).unless = {} /\ RebutReading(c).says = SaysOpenChallenge(c)
  BY DEF RebutReading
<1>2. EP!WellFoundedLive(program) = live /\ EP!WellFoundedExcluded(program) = excluded
  BY EvaluatedIsWellFounded
<1>3. c \in package.challenges
  BY DEF Rebuts
<1>4. a \in program.atoms /\ Value(a) = SaysOpenChallenge(c)
  BY <1>3, GateAtoms, OpenChallengeValue
<1> HIDE DEF a
<1>5. /\ Value(a) \in EP!Truths
      /\ Value(a) = "LIVE" <=> a \in live
      /\ Value(a) = "EXCLUDED" <=> a \in excluded
  BY SettledMeans DEF Value, EP!Truths
<1>6. \A s \in SUBSET live : a \notin excluded => a \in EP!OverEstimate(program, s)
  BY <1>4, NotExcludedMayHold
<1> QED
  BY <1>1, <1>2, <1>4, <1>5, <1>6 DEF EP!Tells

(* The direct program has one rule for each of its ids.                    *)
LEMMA DirectIdsDiffer ==
  ASSUME Settled
  PROVE  EP!DuplicateRuleIds(DirectProgram) = {}
<1>1. DuplicateRefs(package) = {}
  BY SettledMeans, AdmittedMeans DEF Compilable
<1>2. \A x, y \in package.rules : x.ref = y.ref => x = y
  BY <1>1, RefsDiffer
<1>3. \A x, y \in Rebuts : x.ref = y.ref => x = y
  BY <1>1, RefsDiffer DEF Rebuts
<1>4. ASSUME NEW x \in package.rules, NEW y \in Rebuts
      PROVE  x.ref # y.ref
  <2>1. x \in Records(package, "RULE") /\ y \in Records(package, "CHALLENGE")
    BY RecordsByKind DEF Rebuts
  <2>2. Bucket(package, x.ref) = {<<"RULE", x>>}
    BY <1>1, <2>1, FiledAlone DEF RecordKind
  <2>3. Bucket(package, y.ref) = {<<"CHALLENGE", y>>}
    BY <1>1, <2>1, FiledAlone DEF RecordKind
  <2>4. <<"RULE", x>> # <<"CHALLENGE", y>>
    OBVIOUS
  <2> QED
    BY <2>2, <2>3, <2>4
<1>5. /\ \A r : RuleAsRead(r).id = <<"rule-case", r.ref>>
      /\ \A c : RebutAsRead(c).id = <<"rule-case", c.ref>>
  BY DEF RuleAsRead, RebutAsRead, DirectRule
<1>6. ASSUME NEW g \in DirectProgram.rules, NEW h \in DirectProgram.rules, g.id = h.id
      PROVE  g = h
  <2>0. g.id = h.id
    BY <1>6
  <2>1. /\ \/ \E r \in package.rules : g = RuleAsRead(r)
           \/ \E c \in Rebuts : g = RebutAsRead(c)
        /\ \/ \E r \in package.rules : h = RuleAsRead(r)
           \/ \E c \in Rebuts : h = RebutAsRead(c)
    BY DirectParts
  <2>2. ASSUME NEW x \in package.rules, NEW y \in package.rules,
               g = RuleAsRead(x), h = RuleAsRead(y)
        PROVE  g = h
    <3>1. g.id = <<"rule-case", x.ref>> /\ h.id = <<"rule-case", y.ref>>
      BY <1>5, <2>2
    <3>2. <<"rule-case", x.ref>> = <<"rule-case", y.ref>>
      BY <2>0, <3>1
    <3>3. x.ref = y.ref
      BY <3>2
    <3> QED
      BY <1>2, <2>2, <3>3
  <2>3. ASSUME NEW x \in Rebuts, NEW y \in Rebuts, g = RebutAsRead(x), h = RebutAsRead(y)
        PROVE  g = h
    <3>1. g.id = <<"rule-case", x.ref>> /\ h.id = <<"rule-case", y.ref>>
      BY <1>5, <2>3
    <3>2. <<"rule-case", x.ref>> = <<"rule-case", y.ref>>
      BY <2>0, <3>1
    <3>3. x.ref = y.ref
      BY <3>2
    <3> QED
      BY <1>3, <2>3, <3>3
  <2>4. ASSUME NEW x \in package.rules, NEW y \in Rebuts, g = RuleAsRead(x), h = RebutAsRead(y)
        PROVE  FALSE
    <3>1. g.id = <<"rule-case", x.ref>> /\ h.id = <<"rule-case", y.ref>>
      BY <1>5, <2>4
    <3>2. <<"rule-case", x.ref>> = <<"rule-case", y.ref>>
      BY <2>0, <3>1
    <3>3. x.ref = y.ref
      BY <3>2
    <3> QED
      BY <1>4, <2>4, <3>3
  <2>5. ASSUME NEW x \in Rebuts, NEW y \in package.rules, g = RebutAsRead(x), h = RuleAsRead(y)
        PROVE  FALSE
    <3>1. g.id = <<"rule-case", x.ref>> /\ h.id = <<"rule-case", y.ref>>
      BY <1>5, <2>5
    <3>2. <<"rule-case", x.ref>> = <<"rule-case", y.ref>>
      BY <2>0, <3>1
    <3>3. x.ref = y.ref
      BY <3>2
    <3> QED
      BY <1>4, <2>5, <3>3
  <2> QED
    BY <2>1, <2>2, <2>3, <2>4, <2>5
<1> QED
  BY <1>6 DEF EP!DuplicateRuleIds

LEMMA DirectIsWellFormed ==
  ASSUME Settled
  PROVE  EP!WellFormed(DirectProgram)
<1> DEFINE d == DirectProgram
<1>1. /\ Own \subseteq program.atoms /\ Undecided \notin program.atoms
      /\ d.atoms = Own \cup {Undecided}
      /\ d.base_live = program.base_live \cap Own
      /\ d.base_excluded = program.base_excluded \cap Own
      /\ d.protected_open = (program.protected_open \cap Own) \cup {Undecided}
      /\ \A g \in d.rules : \E i \in Readings : EP!Reads(d, g, i, Undecided)
  BY DirectRestricts DEF EP!Restricts
<1>2. \A i \in Readings : i.head \in Own /\ i.before \subseteq Own /\ i.unless \subseteq Own
  BY ReadingsBridge DEF EP!Bridges, EP!Bridged
<1>3. /\ program.base_live \cap program.base_excluded = {}
      /\ program.protected_open \cap (program.base_live \cup program.base_excluded) = {}
  BY EvaluatedIsWellFounded, EP!NamesAreAtoms
<1>4. \A g \in d.rules : {g.head} \cup g.positive \cup g.negative \subseteq d.atoms
  BY <1>1, <1>2 DEF EP!Reads
<1> HIDE DEF d
<1>5. EP!UnknownAtoms(d) = {}
  BY <1>1, <1>4 DEF EP!UnknownAtoms, EP!Referenced
<1>6. EP!BaseCollision(d) = {} /\ EP!OpenCollision(d) = {}
  BY <1>1, <1>3 DEF EP!BaseCollision, EP!OpenCollision
<1>7. EP!DuplicateRuleIds(d) = {}
  BY DirectIdsDiffer DEF d
<1>8. EP!WellFormed(d)
  BY <1>5, <1>6, <1>7 DEF EP!WellFormed
<1> QED
  BY <1>8 DEF d

(* The yardstick of the property is that of the evaluator's proofs.        *)
LEMMA SameYardstick ==
  ASSUME NEW g
  PROVE  /\ Evaluator!WellFoundedLive(g) = EP!WellFoundedLive(g)
         /\ Evaluator!WellFoundedExcluded(g) = EP!WellFoundedExcluded(g)
<1>1. \A s : Evaluator!Reduct(g, s) = EP!Reduct(g, s)
  BY DEF Evaluator!Reduct, EP!Reduct
<1>2. \A a, f, r : Evaluator!LeastClosed(a, f, r) = EP!LeastClosed(a, f, r)
  BY DEF Evaluator!LeastClosed, EP!LeastClosed
<1>3. \A s : /\ Evaluator!UnderEstimate(g, s) = EP!UnderEstimate(g, s)
             /\ Evaluator!OverEstimate(g, s) = EP!OverEstimate(g, s)
  BY <1>1, <1>2 DEF Evaluator!UnderEstimate, EP!UnderEstimate, Evaluator!OverEstimate,
     EP!OverEstimate
<1>4. Evaluator!WellFoundedLive(g) = EP!WellFoundedLive(g)
  BY <1>3 DEF Evaluator!WellFoundedLive, EP!WellFoundedLive
<1> QED
  BY <1>3, <1>4 DEF Evaluator!WellFoundedExcluded, EP!WellFoundedExcluded

LEMMA SourceAtomsAgree == Piping => SourceAtomsMeanThePackage
<1> SUFFICES ASSUME Settled
             PROVE  /\ live \cap DirectProgram.atoms = Evaluator!WellFoundedLive(DirectProgram)
                    /\ excluded \cap DirectProgram.atoms =
                         Evaluator!WellFoundedExcluded(DirectProgram)
  BY DEF SourceAtomsMeanThePackage, Settled
<1>1. \A i \in Readings : EP!Tells(program, i)
  BY RuleReadingTells, RebutReadingTells DEF Readings
<1>2. EP!Folds(program, DirectProgram, Own, Undecided, Readings)
  BY <1>1, EvaluatedIsWellFounded, DirectIsWellFormed, DirectRestricts, ReadingsBridge
  DEF EP!Folds
<1>3. /\ EP!WellFoundedLive(program) \cap DirectProgram.atoms =
           EP!WellFoundedLive(DirectProgram)
      /\ EP!WellFoundedExcluded(program) \cap DirectProgram.atoms =
           EP!WellFoundedExcluded(DirectProgram)
  BY <1>2, EP!FoldingAgrees
<1> QED
  BY <1>3, EvaluatedIsWellFounded, SameYardstick

(* The statuses of the package's own atoms are the well-founded partition  *)
(* of its rules and rebuts taken directly, each applying, not applying or  *)
(* undecided as its certificate, faces and inquiries say: neither cases    *)
(* nor gates nor anything else the compiler adds changes what the package  *)
(* means (SourceAtomsMeanThePackage).                                      *)
THEOREM SourceAtomsAreDirect == PipelineSpec => []SourceAtomsMeanThePackage
  BY PipelineInvariance, SourceAtomsAgree, PTL
=============================================================================
