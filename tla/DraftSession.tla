---------------------------- MODULE DraftSession ----------------------------
(***************************************************************************)
(* A caller captures a response and extracts its draft.  An envelope is    *)
(* frozen only as Python freezes it: between the two calls the prompt, the *)
(* response or the digest of either may be replaced, which is what the     *)
(* first gate is for.                                                      *)
(***************************************************************************)
EXTENDS DraftExtract

CONSTANTS
  Exchanges,  \* the prompts a caller may have sent, each with a response
  Tampers     \* <<part, data>>: what may take the place of the prompt or of the
              \* response, or be what its digest is of

ASSUME DraftSessionAssumption ==
  /\ \A x \in Exchanges : x[1] \in Seq(Range(x[1])) /\ x[2] \in Seq(Range(x[2]))
  /\ \A t \in Tampers : t[1] \in {"prompt", "raw_response"} /\ t[2] \in Seq(Range(t[2]))

VARIABLES
  envelope,  \* what was captured of a prompt and its response
  outcome    \* what extract_draft raised and what it returned

vars == <<envelope, outcome>>

Nothing == <<>>
NotYet == [issues |-> {"not extracted"}, drafts |-> {}]

Init == envelope = Nothing /\ outcome = NotYet

Facts(prompt, response) ==
  [attempt |-> <<"session", 1>>, relation |-> "INITIAL", parent |-> NoParent,
   provider_id |-> "provider", requested_model |-> "model", reported_model |-> NoText,
   prompt_template |-> "template", finish_reason |-> NoText,
   prompt |-> prompt, raw_response |-> response]

Capture ==
  /\ envelope = Nothing
  /\ \E x \in Exchanges :
       /\ Capturable(Facts(x[1], x[2]))
       /\ envelope' = CaptureGeneration(Facts(x[1], x[2]))
  /\ UNCHANGED outcome

ReplaceData(part, data) ==
  /\ envelope # Nothing /\ outcome = NotYet
  /\ envelope' = [envelope EXCEPT ![part].data = data]
  /\ UNCHANGED outcome

ReplaceDigest(part, data) ==
  /\ envelope # Nothing /\ outcome = NotYet
  /\ envelope' = [envelope EXCEPT ![part].sha256 = Digest(data)]
  /\ UNCHANGED outcome

Extract ==
  /\ envelope # Nothing /\ outcome = NotYet
  /\ LET found == ExtractIssues(envelope)
     IN  outcome' = [issues |-> found,
                     drafts |-> IF found = {} THEN {ExtractDraft(envelope)} ELSE {}]
  /\ UNCHANGED envelope

Next ==
  \/ Capture
  \/ \E t \in Tampers : ReplaceData(t[1], t[2]) \/ ReplaceDigest(t[1], t[2])
  \/ Extract

Spec == Init /\ [][Next]_vars

-----------------------------------------------------------------------------
(* Whatever the response said, the records of a draft that comes out of    *)
(* extract_draft name existing records of the right kinds, and each rule   *)
(* has one evidence request that asks about that rule, although the        *)
(* linkage gate looks at the requests only.                                *)
ExtractedDraftsAreLinked == \A d \in outcome.drafts : ExtractedDraft(d)

=============================================================================
