----------------------------- MODULE PffPackage -----------------------------
(***************************************************************************)
(* A PFF package as pff/model.py holds it, and how the validator looks     *)
(* records up in it.                                                       *)
(*                                                                         *)
(* A RecordRef (id and version) is one opaque value; what its spelling can *)
(* be wrong about is which of two sets it is in.  Text that only has to    *)
(* satisfy a registry policy (predicate arguments, frames, grades, payload *)
(* hashes, checker details, boundaries) is a Boolean, "the policy accepts  *)
(* it".  Records of one kind form a set: listing one record twice is not   *)
(* represented, two different records under one reference are.             *)
(***************************************************************************)

CONSTANTS
  Ref,           \* the record references in play
  NoRef,         \* None, for an optional reference
  MalformedRef,  \* those with an empty id or a version below one
  ReservedRef    \* those whose id starts with the compiler's prefix

ASSUME RefAssumption ==
  MalformedRef \subseteq Ref /\ ReservedRef \subseteq Ref /\ NoRef \notin Ref

RecordKind ==
  {"ATOM", "RULE", "FACE", "CERTIFICATE", "CLOSURE", "CONTRARY", "CHALLENGE",
   "DISCHARGE"}

CheckResult == {"PASS", "FAIL", "OPEN"}

Collection ==
  [ATOM |-> "atoms", RULE |-> "rules", FACE |-> "faces",
   CERTIFICATE |-> "certificates", CLOSURE |-> "closures",
   CONTRARY |-> "contraries", CHALLENGE |-> "challenges",
   DISCHARGE |-> "discharges"]

Records(p, kind) == p[Collection[kind]]

-----------------------------------------------------------------------------
(* The validator files every record under its reference, whatever its kind.*)

Bucket(p, ref) ==
  UNION {{<<k, r>> : r \in {x \in Records(p, k) : x.ref = ref}} : k \in RecordKind}

Recorded(p) == UNION {{r.ref : r \in Records(p, k)} : k \in RecordKind}

Unique(p, ref) == \E e \in Bucket(p, ref) : Bucket(p, ref) = {e}

DuplicateRefs(p) == {ref \in Recorded(p) : ~ Unique(p, ref)}

(* The record ref names if it names exactly one, of an expected kind: a    *)
(* set of at most one record.  A duplicated reference finds nothing.       *)
Lookup(p, ref, kinds) ==
  {e[2] : e \in {x \in Bucket(p, ref) : Unique(p, ref) /\ x[1] \in kinds}}

(* A lookup that reports; a malformed reference is not followed.           *)
Resolve(p, ref, kinds) == IF ref \in MalformedRef THEN {} ELSE Lookup(p, ref, kinds)

When(condition, code, at) == IF condition THEN {<<code, at>>} ELSE {}

(* The issue a failed lookup raises.  A duplicated reference raises none   *)
(* here: the identity phase has reported it.                               *)
ReferenceIssues(p, at, ref, kinds) ==
  IF ref \in MalformedRef
  THEN {<<"INVALID_REFERENCE", at>>}
  ELSE When(Bucket(p, ref) = {}, "UNRESOLVED_REFERENCE", at)
         \cup When(Unique(p, ref) /\ Lookup(p, ref, kinds) = {},
                   "REFERENCE_KIND_MISMATCH", at)

-----------------------------------------------------------------------------
(* The records a closure's selector selects, and what the code-owned       *)
(* contract recomputes from them.                                          *)

Selected(p, selector) ==
  {r.ref : r \in {x \in Records(p, selector.record_type) :
                    \A f \in DOMAIN selector.where : x[f] = selector.where[f]}}

ResultIgnoresExtraMembers(p, closure) ==
  IF Selected(p, closure.selector) \subseteq closure.members THEN "PASS" ELSE "FAIL"

MaterialisedResult(p, closure) ==
  IF Selected(p, closure.selector) = closure.members THEN "PASS" ELSE "FAIL"
=============================================================================
