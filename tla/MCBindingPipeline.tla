-------------------------- MODULE MCBindingPipeline --------------------------
(***************************************************************************)
(* Nine responses, six of which hold drafts, the policies that bind them,  *)
(* and what is wrong with most policies.  Draft records of different kinds *)
(* share references, and the rules of draft "two" use each other's numbers *)
(* for their requests.                                                     *)
(***************************************************************************)
EXTENDS BindingPipeline, MCDraftDocuments

MCMaxVersionText == <<1>>

MCNoRef == "none"

MCRef == {"a", "b", "r1", "r2", "k1", "k2", "malformed", "reserved", "huge"}

Certifier(subjects) ==
  [uses |-> {"CERTIFICATE"}, local |-> FALSE, subject_kinds |-> subjects,
   selector_kinds |-> {}, selector_fields |-> [f \in {} |-> {}]]

Predicate(checkers) ==
  [primitive_allowed |-> TRUE, face_kinds |-> {}, challenge_kinds |-> {},
   checkers |-> checkers, contrary_forbidden |-> FALSE]

MCRegistry ==
  [predicates |-> [claim |-> Predicate({"witness", "referee", "future"}),
                   axiom |-> Predicate({})],
   checkers |-> [witness |-> Certifier({"RULE", "CHALLENGE"}),
                 future |-> Certifier({"RULE"}),
                 referee |-> Certifier({"CHALLENGE"}),
                 materialised |->
                   [uses |-> {"CLOSURE"}, local |-> TRUE, subject_kinds |-> {},
                    selector_kinds |-> {}, selector_fields |-> [f \in {} |-> {}]]],
   face_kinds |-> {}, challenge_kinds |-> {}, discharge_kinds |-> {},
   targets |-> [k \in {} |-> k], compatible |-> [k \in {} |-> k]]

MCCheckerVersion == [c \in DOMAIN MCRegistry.checkers |-> IF c = "future" THEN 9 ELSE 1]

-----------------------------------------------------------------------------
ClaimAtom(id, predicate, frame) == Row(AtomRow(id, predicate, frame))

OneRule(head_predicate, loose_predicate, loose_frame) ==
  RootRow(<<ClaimAtom("1", head_predicate, "here"), ClaimAtom("2", loose_predicate, loose_frame)>>,
          <<Row(RuleRow("1", "1", <<>>, "1"))>>, <<Row(RequestRow("1", "1"))>>)

TwoRules ==
  RootRow(<<ClaimAtom("1", "claim", "here"), ClaimAtom("2", "claim", "here")>>,
          <<Row(RuleRow("1", "1", <<RefTo("2")>>, "2")), Row(RuleRow("2", "2", <<>>, "1"))>>,
          <<Row(RequestRow("1", "2")), Row(RequestRow("2", "1"))>>)

\* Three more are refused: two rules share a request, a request asks about
\* another rule than uses it, and an atom says that it is live.
SharedRequest ==
  [TwoRules EXCEPT !.rules =
     List(<<Row(RuleRow("1", "1", <<RefTo("2")>>, "1")), Row(RuleRow("2", "2", <<>>, "1"))>>)]

CrossedRequests ==
  [TwoRules EXCEPT !.evidence_requests =
     List(<<Row(RequestRow("1", "1")), Row(RequestRow("2", "2"))>>)]

SaysLive ==
  [TwoRules EXCEPT !.atoms =
     List(<<ClaimAtom("1", "claim", "here"),
            Row(AtomRow("2", "claim", "here") @@ [live |-> Boolean(TRUE)])>>)]

MCTexts ==
  [one |-> OneRule("claim", "axiom", "here"), odd |-> OneRule("claim", "unheard", "here"),
   bent |-> OneRule("claim", "claim", "elsewhere"), wild |-> OneRule("unheard", "claim", "here"),
   closed |-> OneRule("axiom", "claim", "here"), two |-> TwoRules,
   shared |-> SharedRequest, crossed |-> CrossedRequests, lively |-> SaysLive]

MCDocument == [p \in {<<name>> : name \in DOMAIN MCTexts} |-> Row(MCTexts[p[1]])]

MCFittingForm ==
  {"claim", "axiom"} \X {<<List(<<String("x"), String("")>>), String("here"), Null>>}

MCCaptures ==
  {CaptureGeneration(
     [attempt |-> <<"session", 1>>, relation |-> "INITIAL", parent |-> NoParent,
      provider_id |-> "provider", requested_model |-> "model", reported_model |-> NoText,
      prompt_template |-> "template", finish_reason |-> NoText,
      prompt |-> <<>>, raw_response |-> OpenMarker \o p \o CloseMarker]) :
     p \in DOMAIN MCDocument}

First(id) == <<id, 1>>

-----------------------------------------------------------------------------
Route(certificate, checker, authority) ==
  [certificate |-> certificate, checker |-> checker, checker_version |-> 1,
   authority |-> authority]

OneRulePolicy(payload) ==
  [id |-> "policy", version |-> 1, payload |-> Digest(<<payload>>), package |-> "package",
   registry |-> "registry", registry_version |-> 1,
   records |-> (<<"ATOM", First("1")>> :> "a" @@ <<"ATOM", First("2")>> :> "b"
                  @@ <<"RULE", First("1")>> :> "r1"),
   evidence |-> (First("1") :> Route("k1", "witness", "alice"))]

TwoRulesPolicy ==
  [OneRulePolicy("two") EXCEPT
     !.records = @ @@ (<<"RULE", First("2")>> :> "r2"),
     !.evidence = @ @@ (First("2") :> Route("k2", "witness", "alice"))]

(* Another version, with another authority, and an edit that forgot to     *)
(* count the version up.                                                   *)
NextVersion ==
  [TwoRulesPolicy EXCEPT !.version = 2, !.evidence[First("2")].authority = "bob"]

SilentEdit ==
  [TwoRulesPolicy EXCEPT !.evidence[First("1")].certificate = "k2", !.evidence[First("2")].certificate = "k1"]

RoutedBy(checker) == [TwoRulesPolicy EXCEPT !.evidence[First("2")].checker = checker]

Routed(source, target) == [TwoRulesPolicy EXCEPT !.records[source] = target]

WrongPolicies ==
  {[OneRulePolicy("one") EXCEPT !.payload = Digest(<<"two">>)],
   [TwoRulesPolicy EXCEPT !.payload = Digest(<<"one">>)],
   [TwoRulesPolicy EXCEPT !.evidence = [r \in {First("1")} |-> @[r]]],
   [TwoRulesPolicy EXCEPT !.registry = "elsewhere"],
   [TwoRulesPolicy EXCEPT !.registry_version = 2],
   [TwoRulesPolicy EXCEPT !.evidence[First("2")].checker_version = 2],
   [TwoRulesPolicy EXCEPT !.evidence[First("2")].certificate = "r1"],
   [TwoRulesPolicy EXCEPT !.evidence[First("2")].certificate = "k1"]}
    \cup {RoutedBy(c) : c \in {"future", "referee", "materialised", "hearsay"}}
    \cup {Routed(<<"ATOM", First("2")>>, t) : t \in {"a", "r1", "malformed", "reserved", "huge"}}

MCPolicies ==
  {OneRulePolicy(payload) : payload \in {"one", "odd", "bent", "wild", "closed"}}
    \cup {TwoRulesPolicy, NextVersion, SilentEdit}
    \cup WrongPolicies

-----------------------------------------------------------------------------
Answer(authority, id, result, details_fit) ==
  [authority |-> authority, id |-> id, result |-> result, details_fit |-> details_fit]

MCAnswers ==
  {Answer("alice", 1, "PASS", TRUE), Answer("alice", 2, "PASS", TRUE),
   Answer("alice", 2, "FAIL", TRUE), Answer("bob", 1, "PASS", TRUE),
   Answer("alice", 1, "OPEN", FALSE)}
=============================================================================
