---------------------------- MODULE MCPffPackages ----------------------------
(***************************************************************************)
(* One small complete package and its neighbourhood: a guarded rule for b, *)
(* a rule for c that needs b shown absent, an undercut of the guarding     *)
(* face with a repair, and a rebut of b in favour of c.  A neighbour       *)
(* differs from it in at most MaxDeviations listed deviations.             *)
(***************************************************************************)
EXTENDS Naturals, Sequences, SequencesExt

CONSTANT MaxDeviations

MCNoRef == "none"

MCMalformedRef == {"malformed"}

MCReservedRef == {"reserved"}

MCRef ==
  {"a", "b", "c", "r1", "r2", "f", "q", "n", "s", "sg", "k1", "k2", "kh", "kg", "kd",
   "h", "g", "d", "d2", "kd2", "x", "missing"} \cup MCMalformedRef \cup MCReservedRef

-----------------------------------------------------------------------------
(* A registry in which everything the skeleton does is allowed.            *)

AllFields ==
  [f \in {<<"CHALLENGE", "target">>, <<"CHALLENGE", "kind">>, <<"DISCHARGE", "challenge">>,
          <<"RULE", "head">>} |->
     CASE f[2] = "target" -> {"ATOM", "RULE", "FACE"}
       [] f[2] = "kind" -> {}
       [] f[2] = "challenge" -> {"CHALLENGE"}
       [] f[2] = "head" -> {"ATOM"}]

CertificateChecker(subjects) ==
  [uses |-> {"CERTIFICATE"}, local |-> FALSE, subject_kinds |-> subjects,
   selector_kinds |-> {}, selector_fields |-> [f \in {} |-> {}]]

ClosureChecker(local, fields) ==
  [uses |-> {"CLOSURE"}, local |-> local, subject_kinds |-> {},
   selector_kinds |-> {"CHALLENGE", "DISCHARGE", "RULE"}, selector_fields |-> fields]

Core(kinds, face_kind) == [kinds |-> kinds, face_kind |-> face_kind]

MCRegistry ==
  [predicates |->
     [free |-> [primitive_allowed |-> TRUE, face_kinds |-> {"frame", "closure"},
                challenge_kinds |-> {"rebut", "undercut", "closure_gap", "defect", "revoke",
                                     "novel"},
                checkers |-> {"witness"}, contrary_forbidden |-> FALSE],
      closed |-> [primitive_allowed |-> FALSE, face_kinds |-> {}, challenge_kinds |-> {},
                  checkers |-> {}, contrary_forbidden |-> TRUE]],
   checkers |->
     [witness |-> CertificateChecker({"RULE", "CHALLENGE", "DISCHARGE"}),
      materialised |-> ClosureChecker(TRUE, AllFields),
      supplied |-> ClosureChecker(FALSE, [AllFields EXCEPT ![<<"CHALLENGE", "target">>] =
                                            {"ATOM", "RULE", "FACE", "CLOSURE"}])],
   face_kinds |-> {"frame", "closure"},
   challenge_kinds |-> {"rebut", "undercut", "closure_gap", "defect", "revoke", "novel"},
   discharge_kinds |-> {"repair", "passed_local_closure"},
   targets |-> [rebut |-> Core({"ATOM", "RULE", "FACE"}, "any face kind"),
                undercut |-> Core({"RULE", "FACE"}, "any face kind"),
                closure_gap |-> Core({"FACE"}, "closure"),
                defect |-> Core({"ATOM", "RULE", "FACE"}, "any face kind"),
                revoke |-> Core({"RULE", "FACE"}, "any face kind"),
                novel |-> Core({"ATOM", "FACE"}, "any face kind")],
   compatible |-> [rebut |-> {}, undercut |-> {"repair"},
                   closure_gap |-> {"passed_local_closure"}, defect |-> {}, revoke |-> {},
                   novel |-> {"repair"}]]

-----------------------------------------------------------------------------
AtomRecord(ref, primitive) ==
  [ref |-> ref, predicate |-> "free", primitive |-> primitive, form_fits |-> TRUE]

RuleRecord(ref, head, positive, negative, faces, certificate) ==
  [ref |-> ref, head |-> head, positive |-> positive, negative |-> negative,
   faces |-> faces, certificate |-> certificate]

CertificateRecord(ref, subject) ==
  [ref |-> ref, checker |-> "witness", subject |-> subject, result |-> "PASS",
   details_fit |-> TRUE]

ClosureRecord(ref, record_type, where, members) ==
  [ref |-> ref, checker |-> "materialised", result |-> "PASS",
   selector |-> [record_type |-> record_type, where |-> where], members |-> members,
   cut_fits |-> TRUE, frame_fits |-> TRUE]

ChallengeRecord(ref, kind, target_kind, target, certificate, closure, contrary_atom) ==
  [ref |-> ref, kind |-> kind, target_kind |-> target_kind, target |-> target,
   certificate |-> certificate, discharge_closure |-> closure,
   contrary_atom |-> contrary_atom, problem_face_atom |-> "none"]

DischargeRecord(ref, challenge, certificate) ==
  [ref |-> ref, challenge |-> challenge, kind |-> "repair", certificate |-> certificate]

ContraryRecord(ref) ==
  [ref |-> ref, left |-> "b", right |-> "c", boundary_fits |-> TRUE]

Skeleton ==
  [header_fits |-> TRUE,
   atoms |-> {AtomRecord("a", TRUE), AtomRecord("b", FALSE), AtomRecord("c", FALSE)},
   rules |-> {RuleRecord("r1", "b", {"a"}, {}, {"f"}, "k1"),
              RuleRecord("r2", "c", {}, {[atom |-> "b", closure |-> "n"]}, {}, "k2")},
   faces |-> {[ref |-> "f", owner_rule |-> "r1", kind |-> "frame", blocker_closure |-> "q"]},
   certificates |-> {CertificateRecord("k1", "r1"), CertificateRecord("k2", "r2"),
                     CertificateRecord("kh", "h"), CertificateRecord("kg", "g"),
                     CertificateRecord("kd", "d")},
   closures |-> {ClosureRecord("q", "CHALLENGE", [target |-> "f"], {"h"}),
                 ClosureRecord("n", "RULE", [head |-> "b"], {"r1"}),
                 ClosureRecord("s", "DISCHARGE", [challenge |-> "h"], {"d"}),
                 ClosureRecord("sg", "DISCHARGE", [challenge |-> "g"], {})},
   contraries |-> {ContraryRecord("x")},
   challenges |-> {ChallengeRecord("h", "undercut", "FACE", "f", "kh", "s", "none"),
                   ChallengeRecord("g", "rebut", "ATOM", "b", "kg", "sg", "c")},
   discharges |-> {DischargeRecord("d", "h", "kd")},
   base |-> [live |-> {"a"}, excluded |-> {}, open |-> {}]]

-----------------------------------------------------------------------------
(* A deviation turns a package into a slightly different one.              *)

Change(in, ref, field, value) ==
  [how |-> "change", in |-> in, ref |-> ref, field |-> field, value |-> value]

Drop(in, ref) == [how |-> "drop", in |-> in, ref |-> ref]

Add(in, record) == [how |-> "add", in |-> in, record |-> record]

Header == [how |-> "header"]

Base(part, refs) == [how |-> "base", part |-> part, refs |-> refs]

Deviated(p, d) ==
  CASE d.how = "change" ->
         [p EXCEPT ![d.in] = {IF r.ref = d.ref THEN [r EXCEPT ![d.field] = d.value] ELSE r :
                                r \in @}]
    [] d.how = "drop" -> [p EXCEPT ![d.in] = {r \in @ : r.ref # d.ref}]
    [] d.how = "add" -> [p EXCEPT ![d.in] = @ \cup {d.record}]
    [] d.how = "header" -> [p EXCEPT !.header_fits = FALSE]
    [] d.how = "base" -> [p EXCEPT !.base[d.part] = d.refs]

Selects(record_type, where) == [record_type |-> record_type, where |-> where]

(* What a package may say; a few of these, or of their pairs, are refused. *)
Meanings ==
  <<<<Change("certificates", "k1", "result", "FAIL")>>,
    <<Change("certificates", "k2", "result", "OPEN")>>,
    <<Change("certificates", "kh", "result", "FAIL")>>,
    <<Change("certificates", "kh", "result", "OPEN")>>,
    <<Change("certificates", "kg", "result", "OPEN")>>,
    <<Change("certificates", "kd", "result", "FAIL")>>,
    <<Change("certificates", "kd", "result", "OPEN")>>,
    <<Change("closures", "q", "result", "FAIL"), Change("closures", "q", "members", {})>>,
    <<Change("closures", "s", "result", "FAIL"), Change("closures", "s", "members", {})>>,
    <<Change("closures", "n", "result", "OPEN"),
      Change("closures", "n", "selector", Selects("RULE", [future |-> "opaque"]))>>,
    <<Change("closures", "q", "checker", "supplied"), Change("closures", "q", "members", {})>>,
    <<Change("challenges", "h", "kind", "novel")>>,
    <<Change("challenges", "h", "target_kind", "RULE"), Change("challenges", "h", "target", "r1"),
      Change("closures", "q", "members", {})>>,
    <<Change("challenges", "g", "target_kind", "FACE"), Change("challenges", "g", "target", "f"),
      Change("closures", "q", "members", {"h", "g"})>>,
    <<Change("discharges", "d", "kind", "passed_local_closure")>>,
    <<Drop("discharges", "d"), Drop("certificates", "kd"), Change("closures", "s", "members", {})>>,
    <<Add("discharges", DischargeRecord("d2", "h", "kd2")),
      Add("certificates", [CertificateRecord("kd2", "d2") EXCEPT !.result = "OPEN"]),
      Change("closures", "s", "members", {"d", "d2"})>>,
    <<Change("rules", "r1", "positive", {"a", "c"})>>,
    <<Change("rules", "r1", "negative", {[atom |-> "c", closure |-> "n"]})>>,
    <<Change("rules", "r2", "head", "a")>>,
    <<Change("challenges", "h", "target_kind", "ATOM"), Change("challenges", "h", "target", "b"),
      Change("closures", "q", "members", {})>>,
    <<Base("live", {"a", "b"})>>,
    <<Base("live", {})>>,
    <<Base("open", {"a"})>>,
    <<Base("excluded", {"a"})>>>>

(* What is wrong in most packages that say it.                             *)
Faults ==
  <<Header,
    Base("live", {"missing"}), Base("live", {"b"}), Base("open", {"a"}),
    Base("excluded", {"a", "f"}),
    Change("atoms", "a", "predicate", "unknown"), Change("atoms", "a", "predicate", "closed"),
    Change("atoms", "b", "form_fits", FALSE), Change("atoms", "b", "primitive", TRUE),
    Change("atoms", "c", "ref", "reserved"), Change("atoms", "c", "ref", "malformed"),
    Change("atoms", "c", "ref", "d"), Change("atoms", "b", "predicate", "closed"),
    Change("rules", "r1", "head", "c"), Change("rules", "r1", "certificate", "k2"),
    Change("rules", "r1", "positive", {"f"}), Change("rules", "r2", "faces", {"f"}),
    Change("rules", "r2", "negative", {[atom |-> "q", closure |-> "b"]}),
    Change("rules", "r2", "certificate", "k1"), Drop("rules", "r1"),
    Change("rules", "r2", "ref", "r1"),
    Change("faces", "f", "owner_rule", "r2"), Change("faces", "f", "kind", "closure"),
    Change("faces", "f", "kind", "unheard"), Change("faces", "f", "blocker_closure", "s"),
    Change("faces", "f", "blocker_closure", "missing"),
    Change("certificates", "k1", "subject", "r2"), Change("certificates", "k1", "checker", "materialised"),
    Change("certificates", "k2", "subject", "b"), Change("certificates", "k2", "checker", "unknown"),
    Change("certificates", "kh", "details_fit", FALSE), Drop("certificates", "k1"),
    Change("certificates", "kd", "subject", "malformed"),
    Change("closures", "q", "result", "FAIL"), Change("closures", "q", "result", "OPEN"),
    Change("closures", "q", "members", {}), Change("closures", "q", "members", {"h", "g"}),
    Change("closures", "q", "members", {"h", "d"}),
    Change("closures", "q", "cut_fits", FALSE), Change("closures", "q", "frame_fits", FALSE),
    Change("closures", "q", "checker", "supplied"), Change("closures", "q", "checker", "witness"),
    Change("closures", "q", "checker", "unknown"),
    Change("closures", "q", "selector", Selects("CHALLENGE", [target |-> "f", kind |-> "undercut"])),
    Change("closures", "q", "selector", Selects("CHALLENGE", [target |-> "b"])),
    Change("closures", "q", "selector", Selects("CHALLENGE", [target |-> "s"])),
    Change("closures", "q", "selector", Selects("CHALLENGE", [target |-> "missing"])),
    Change("closures", "q", "selector", Selects("CHALLENGE", [bogus |-> "text"])),
    Change("closures", "q", "selector", Selects("CHALLENGE", [target |-> "text"])),
    Change("closures", "q", "selector", Selects("ATOM", [target |-> "f"])),
    Change("closures", "s", "selector", Selects("DISCHARGE", [challenge |-> "g"])),
    Change("closures", "sg", "selector", Selects("DISCHARGE", [challenge |-> "h"])),
    Change("closures", "s", "ref", "q"),
    Change("contraries", "x", "left", "r1"), Change("contraries", "x", "boundary_fits", FALSE),
    Change("challenges", "h", "kind", "unheard"), Change("challenges", "h", "kind", "closure_gap"),
    Change("challenges", "h", "kind", "defect"), Change("challenges", "h", "target_kind", "ATOM"),
    Change("challenges", "h", "target", "missing"), Change("challenges", "h", "target", "b"),
    Change("challenges", "g", "kind", "undercut"), Change("challenges", "g", "contrary_atom", "none"),
    Change("challenges", "g", "contrary_atom", "a"), Change("challenges", "g", "contrary_atom", "r1"),
    Change("challenges", "g", "discharge_closure", "s"),
    Change("challenges", "h", "problem_face_atom", "c"),
    Change("discharges", "d", "challenge", "g"), Change("discharges", "d", "challenge", "f"),
    Change("discharges", "d", "kind", "unheard"), Change("discharges", "d", "certificate", "kh"),
    Drop("discharges", "d"),
    Add("contraries", ContraryRecord("f")), Add("contraries", ContraryRecord("s")),
    Add("atoms", AtomRecord("q", TRUE))>>

(* Up to MaxDeviations entries of a list of changes, in its order.         *)
Picks(deviations) ==
  {f \in [1 .. MaxDeviations -> 0 .. Len(deviations)] :
     \A i \in 1 .. MaxDeviations - 1 : f[i] < f[i + 1] \/ f[i] = 0}

Neighbour(deviations, choice) ==
  LET apply(p, i) == IF i = 0 THEN p ELSE FoldLeft(Deviated, p, deviations[i])
  IN  FoldLeft(apply, Skeleton, choice)

Neighbourhood(deviations) == {Neighbour(deviations, f) : f \in Picks(deviations)}

MeaningfulPackages == Neighbourhood(Meanings)

FaultyPackages == Neighbourhood([i \in DOMAIN Faults |-> <<Faults[i]>>])
=============================================================================
