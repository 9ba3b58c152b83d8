-------------------------- MODULE GenerationCapture --------------------------
(***************************************************************************)
(* The records of generation/model.py: an attempt, what was captured of    *)
(* it, and the envelope capture_generation makes.  Each constructor checks *)
(* its fields; what a caller may still get wrong is the lineage of the     *)
(* attempt and the text of its metadata.                                   *)
(*                                                                         *)
(* An attempt is <<session, sequence>>, as AttemptRef accepts them.  A     *)
(* digest is the content it is of, marked: no two contents share one.      *)
(* The public parameters, the adapter's name and version and the profile   *)
(* are the same in every envelope the repository makes and are left out.   *)
(***************************************************************************)
EXTENDS JsonValue

CONSTANTS
  NoParent,    \* the parent of an initial attempt
  NoText,      \* an optional text that is absent
  LongMetadata  \* texts over _METADATA_BYTES

Digest(data) == <<"sha256", data>>

CapturedContent(data) == [data |-> data, sha256 |-> Digest(data)]

\* An initial attempt has no parent; any other names an earlier attempt of
\* its own session.
LineageFits(attempt, relation, parent) ==
  IF relation = "INITIAL" THEN parent = NoParent
  ELSE parent # NoParent /\ parent[1] = attempt[1] /\ parent[2] < attempt[2]

MetadataFits(text) == text # "" /\ text \notin LongMetadata \cup NonScalarText

OptionalMetadataFits(text) == text = NoText \/ MetadataFits(text)

\* What GenerationEnvelope, and so capture_generation, accepts.
Capturable(facts) ==
  /\ LineageFits(facts.attempt, facts.relation, facts.parent)
  /\ MetadataFits(facts.requested_model)
  /\ MetadataFits(facts.prompt_template)
  /\ OptionalMetadataFits(facts.reported_model)
  /\ OptionalMetadataFits(facts.finish_reason)

CaptureGeneration(facts) ==
  [attempt |-> facts.attempt, relation |-> facts.relation, parent |-> facts.parent,
   provider_id |-> facts.provider_id,
   requested_model |-> facts.requested_model, reported_model |-> facts.reported_model,
   prompt_template |-> facts.prompt_template, finish_reason |-> facts.finish_reason,
   prompt |-> CapturedContent(facts.prompt),
   raw_response |-> CapturedContent(facts.raw_response)]

=============================================================================
