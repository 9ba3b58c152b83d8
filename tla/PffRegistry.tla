----------------------------- MODULE PffRegistry -----------------------------
(***************************************************************************)
(* The predicate registry a package is validated against, as far as        *)
(* admission and compilation read it, with the v0.1 vocabulary and the     *)
(* coherence PredicateRegistry.__post_init__ enforces.                     *)
(***************************************************************************)
EXTENDS PffPackage

CONSTANT Registry

AnyFaceKind == "any face kind"

BlockingTargets == {"RULE", "FACE"}

GeneralTargets == {"ATOM", "RULE", "FACE"}

(* PFF_V01_CHALLENGE_TARGETS: what each core challenge may be aimed at.    *)
CoreTargets ==
  LET aimed(kinds, face_kind) == [kinds |-> kinds, face_kind |-> face_kind]
  IN  [rebut |-> aimed(GeneralTargets, AnyFaceKind),
       defect |-> aimed(GeneralTargets, AnyFaceKind),
       undercut |-> aimed(BlockingTargets, AnyFaceKind),
       wound |-> aimed(BlockingTargets, AnyFaceKind),
       revoke |-> aimed(BlockingTargets, AnyFaceKind),
       currentness_gap |-> aimed(BlockingTargets, AnyFaceKind),
       localisation_gap |-> aimed({"FACE"}, "localisation"),
       recovery_gap |-> aimed({"FACE"}, "recovery"),
       closure_gap |-> aimed({"FACE"}, "closure")]

(* _MATERIALISED_SELECTOR_FIELDS: the fields the code-owned selector can   *)
(* compare, each with the kinds a reference in it may name; {} for text.   *)
(* Only fields that PffPackage's records carry are listed.                 *)
MaterialisedFields ==
  [ATOM |-> [predicate |-> {}, primitive |-> {}],
   RULE |-> [head |-> {"ATOM"}, certificate |-> {"CERTIFICATE"}],
   FACE |-> [owner_rule |-> {"RULE"}, kind |-> {}, blocker_closure |-> {"CLOSURE"}],
   CERTIFICATE |-> [checker |-> {}, subject |-> RecordKind],
   CLOSURE |-> [checker |-> {}],
   CONTRARY |-> [left |-> {"ATOM"}, right |-> {"ATOM"}],
   CHALLENGE |-> [kind |-> {}, target |-> {"ATOM", "RULE", "FACE"},
                  certificate |-> {"CERTIFICATE"},
                  discharge_closure |-> {"CLOSURE"},
                  contrary_atom |-> {"ATOM"}, problem_face_atom |-> {"ATOM"}],
   DISCHARGE |-> [challenge |-> {"CHALLENGE"}, kind |-> {},
                  certificate |-> {"CERTIFICATE"}]]

(* A checker contract: what it may be used for, whether its closure result *)
(* is recomputed here ("local") or supplied, and the selector fields it    *)
(* accepts, each with the kinds a reference in it may name; {} for text.   *)
CoherentChecker(c) ==
  /\ c.uses # {} /\ c.uses \subseteq {"CERTIFICATE", "CLOSURE"}
  /\ c.subject_kinds \subseteq RecordKind
  /\ c.selector_kinds \subseteq RecordKind
  /\ "CERTIFICATE" \in c.uses <=> c.subject_kinds # {}
  /\ "CLOSURE" \notin c.uses => c.selector_kinds = {}
  /\ \A f \in DOMAIN c.selector_fields : f[1] \in c.selector_kinds
  /\ c.local =>
       /\ c.uses = {"CLOSURE"}
       /\ \A f \in DOMAIN c.selector_fields :
            /\ f[2] \in DOMAIN MaterialisedFields[f[1]]
            /\ c.selector_fields[f] = {} <=> MaterialisedFields[f[1]][f[2]] = {}
            /\ c.selector_fields[f] \subseteq MaterialisedFields[f[1]][f[2]]

(* A registry may narrow the targets of a core challenge, never widen them.*)
WithinCoreTargets(targets) ==
  \A k \in DOMAIN targets \cap DOMAIN CoreTargets :
     /\ targets[k].kinds \subseteq CoreTargets[k].kinds
     /\ targets[k].face_kind = CoreTargets[k].face_kind

CoherentPredicate(r, d) ==
  /\ \A id \in d.checkers :
       id \in DOMAIN r.checkers /\ "CERTIFICATE" \in r.checkers[id].uses
  /\ d.face_kinds \subseteq r.face_kinds
  /\ d.challenge_kinds \subseteq r.challenge_kinds

CoherentRegistry(r) ==
  /\ DOMAIN r.targets = r.challenge_kinds
  /\ DOMAIN r.compatible = r.challenge_kinds
  /\ \A k \in r.challenge_kinds :
       /\ r.compatible[k] \subseteq r.discharge_kinds
       /\ r.targets[k].kinds # {} /\ r.targets[k].kinds \subseteq GeneralTargets
       /\ r.targets[k].face_kind # AnyFaceKind =>
            r.targets[k].kinds = {"FACE"} /\ r.targets[k].face_kind \in r.face_kinds
  /\ WithinCoreTargets(r.targets)
  /\ \A id \in DOMAIN r.checkers : CoherentChecker(r.checkers[id])
  /\ \A id \in DOMAIN r.predicates : CoherentPredicate(r, r.predicates[id])

ASSUME RegistryAssumption == CoherentRegistry(Registry)

-----------------------------------------------------------------------------
KnownPredicate(id) == id \in DOMAIN Registry.predicates

KnownChecker(id) == id \in DOMAIN Registry.checkers

(* accepts_selector_shape, for a record type the contract supports.        *)
ShapeSupported(contract, selector) ==
  /\ selector.record_type \in contract.selector_kinds
  /\ \A f \in DOMAIN selector.where :
       /\ <<selector.record_type, f>> \in DOMAIN contract.selector_fields
       /\ contract.selector_fields[<<selector.record_type, f>>] # {}
            <=> selector.where[f] \in Ref

(* The fields of a supported selector that hold references.                *)
ReferenceFields(contract, selector) ==
  {f \in DOMAIN selector.where :
     contract.selector_fields[<<selector.record_type, f>>] # {}}

(* What the code-owned evaluation itself insists on.                       *)
LocallyEvaluable(selector) ==
  \A f \in DOMAIN selector.where :
     /\ f \in DOMAIN MaterialisedFields[selector.record_type]
     /\ MaterialisedFields[selector.record_type][f] # {}
          <=> selector.where[f] \in Ref

SelectorSupported(contract, selector) ==
  /\ ShapeSupported(contract, selector)
  /\ contract.local => LocallyEvaluable(selector)

(* is_discharge_compatible of the registry.                                *)
Compatible(challenge_kind, discharge_kind) ==
  discharge_kind \in Registry.compatible[challenge_kind]
=============================================================================
