--------------------------- MODULE OllamaExchange ---------------------------
(***************************************************************************)
(* generate_ollama over OllamaHttpTransport: a request is checked, copied, *)
(* sent once, and its answer is refused or captured.                       *)
(*                                                                         *)
(* The caller's request is an object others may hold: its fields may be    *)
(* replaced at any time, also between two of the reads that copy it, which *)
(* are cut here between the attempt with its parent and the other fields.  *)
(***************************************************************************)
EXTENDS OllamaHttp, DraftExtract

CONSTANTS
  Requests,    \* the requests a caller may make, and may turn one into
  Utf8         \* the encoding of each text a response field may hold

Endpoints == {"LOCAL", "CLOUD"}

ASSUME RequestsAssumption ==
  \A r \in Requests :
    /\ DOMAIN r = {"endpoint", "attempt", "relation", "parent", "model", "prompt_template", "prompt"}
    /\ r.endpoint \in Endpoints

\* A scalar text has an encoding in UTF-8, no longer than its JSON string.
ASSUME Utf8Assumption ==
  \A b \in JsonText : \A v \in Components(Document[b]) :
    v.kind = "string" /\ v.text \notin NonScalarText =>
      /\ v.text \in DOMAIN Utf8 /\ Len(Utf8[v.text]) <= Len(b)
      /\ \A i \in DOMAIN Utf8[v.text] : Utf8[v.text][i] # BadByte

\* _RESPONSE_BODY_BYTE_LIMIT and _RAW_RESPONSE_BYTES, which are equal.
ASSUME LimitAssumption == MaxBodyBytes <= MaxResponseBytes

VARIABLES
  request,   \* the caller's OllamaGenerateRequest
  source,    \* the adapter's copy of it
  outcome    \* what generate_ollama raised or returned

adapterVars == <<request, source, outcome>>

vars == <<adapterVars, transportVars>>

NoOutcome == <<"none">>
Raised(codes) == <<"raised", codes>>
CapturedEnvelope(envelope) == <<"captured", envelope>>

Init ==
  /\ stage = "validate" /\ request \in Requests /\ source = None /\ outcome = NoOutcome
  /\ TransportInit

-----------------------------------------------------------------------------
(* Before the exchange.                                                    *)

\* _validate_generate_request
RequestFits(r) ==
  /\ LineageFits(r.attempt, r.relation, r.parent)
  /\ MetadataFits(r.model) /\ MetadataFits(r.prompt_template)
  /\ \A i \in DOMAIN r.prompt : r.prompt[i] # BadByte

ValidateRequest ==
  /\ stage = "validate"
  /\ IF RequestFits(request)
     THEN stage' = "snapshot attempt" /\ UNCHANGED outcome
     ELSE stage' = "done" /\ outcome' = Raised({"invalid request"})
  /\ UNCHANGED <<request, source, objects, held, reading, ending, network>>

SnapshotAttempt ==
  /\ stage = "snapshot attempt"
  /\ source' = [attempt |-> request.attempt, parent |-> request.parent]
  /\ stage' = "snapshot rest"
  /\ UNCHANGED <<request, outcome, objects, held, reading, ending, network>>

TransportRequestOf(copy) ==
  [url |-> copy.endpoint, body |-> [model |-> copy.model, prompt |-> copy.prompt]]

SnapshotUnchecked(copy) == TRUE

\* The constructor of the copy checks it as the first step did the request.
SnapshotFits(copy) == RequestFits(copy)

SnapshotRest ==
  /\ stage = "snapshot rest"
  /\ LET copy == [request EXCEPT !.attempt = source.attempt, !.parent = source.parent]
     IN  IF SnapshotFits(copy)
         THEN /\ source' = copy
              /\ outgoing' = TransportRequestOf(copy)
              /\ stage' = "snapshot transport"
              /\ UNCHANGED outcome
         ELSE /\ stage' = "done"
              /\ outcome' = Raised({"invalid request"})
              /\ UNCHANGED <<source, outgoing>>
  /\ UNCHANGED <<request, credential, held, reading, ending, network>>

-----------------------------------------------------------------------------
(* After it.                                                               *)

OptionalReasonFits(root) ==
  "done_reason" \in Keys(root) =>
    LET reason == Field(root, "done_reason")
    IN  reason = Null \/ (reason.kind = "string" /\ MetadataFits(reason.text))

ReplyFieldFits(root, field, Fits(_)) == field \in Keys(root) => Fits(Field(root, field))

ModelFits(v) == v.kind = "string" /\ v.text # "" /\ v.text \notin LongMetadata
TextFits(v) == v.kind = "string"
DoneFits(v) == v.kind = "boolean"

\* _shape_issues
ReplyShapeIssues(root) ==
  RaisedIf(~ {"model", "response", "done"} \subseteq Keys(root), "RESPONSE_FIELD_MISSING")
    \cup RaisedIf(~ /\ ReplyFieldFits(root, "model", ModelFits)
                    /\ ReplyFieldFits(root, "response", TextFits)
                    /\ ReplyFieldFits(root, "done", DoneFits)
                    /\ OptionalReasonFits(root), "RESPONSE_SHAPE")

ReplyErrorIssues(root) ==
  LET error == Field(root, "error")
  IN  IF error.kind = "string" /\ error.text # "" THEN {"PROVIDER_ERROR"} ELSE {"RESPONSE_SHAPE"}

ReplyRootIssues(root) ==
  IF TooDeep(root) \/ HasNonScalarString(root) THEN {"RESPONSE_JSON_INVALID"}
  ELSE IF HasDuplicateKey(root) THEN {"RESPONSE_JSON_DUPLICATE_KEY"}
  ELSE IF root.kind # "object" THEN {"RESPONSE_ROOT_TYPE"}
  ELSE IF "error" \in Keys(root) THEN ReplyErrorIssues(root)
  ELSE LET shape == ReplyShapeIssues(root)
       IN  IF shape # {} THEN shape
           ELSE RaisedIf(~ Field(root, "done").value, "RESPONSE_INCOMPLETE")

ReplyIssues ==
  IF status # 200 THEN {"HTTP_STATUS"}
  ELSE IF Len(body) > MaxBodyBytes THEN {"RESPONSE_BODY_LIMIT"}
  ELSE IF \E i \in DOMAIN body : body[i] = BadByte THEN {"RESPONSE_UTF8"}
  ELSE IF body \notin JsonText THEN {"RESPONSE_JSON_INVALID"}
  ELSE ReplyRootIssues(Document[body])

Optional(root, field) ==
  IF field \in Keys(root) /\ Field(root, field) # Null THEN Field(root, field).text ELSE NoText

ProviderOf(endpoint) == IF endpoint = "LOCAL" THEN "ollama-local" ELSE "ollama-cloud"

FactsOf(r, root) ==
  [attempt |-> r.attempt, relation |-> r.relation, parent |-> r.parent,
   provider_id |-> ProviderOf(r.endpoint), requested_model |-> r.model,
   reported_model |-> Field(root, "model").text,
   prompt_template |-> r.prompt_template, finish_reason |-> Optional(root, "done_reason"),
   prompt |-> r.prompt, raw_response |-> Utf8[Field(root, "response").text]]

\* Whose facts are captured: those of the copy, not of the caller's object.
CapturedFactsOfRequest == FactsOf(request, Document[body])

CapturedFacts == FactsOf(source, Document[body])

JudgeReply ==
  /\ stage = "return"
  /\ stage' = "done"
  /\ LET issues == ReplyIssues
     IN  outcome' =
           IF escaping # "nothing" THEN Raised({escaping})
           ELSE IF transport_failed THEN Raised({"transport"})
           ELSE IF issues # {} THEN Raised(issues)
           ELSE IF ~ Capturable(CapturedFacts) THEN Raised({"capture"})
           ELSE CapturedEnvelope(CaptureGeneration(CapturedFacts))
  /\ UNCHANGED <<request, source, objects, held, reading, ending, network>>

-----------------------------------------------------------------------------

AdapterStep == ValidateRequest \/ SnapshotAttempt \/ SnapshotRest \/ JudgeReply

Step == AdapterStep \/ (TransportStep /\ UNCHANGED adapterVars)

ReplaceRequest ==
  /\ request' \in Requests
  /\ UNCHANGED <<source, outcome, transportVars>>

\* Once the transport has read it, its request is in other hands too: a
\* connection factory may call back.
ReplaceOutgoing ==
  /\ held # None
  /\ \E r \in Requests : outgoing' = TransportRequestOf(r)
  /\ UNCHANGED <<adapterVars, stage, credential, held, reading, ending, network>>

Others ==
  \/ ReplaceRequest \/ ReplaceOutgoing
  \/ (Serve \/ ReplaceCredential) /\ UNCHANGED adapterVars

Next == Step \/ (stage # "done" /\ Others)

Spec == Init /\ [][Next]_vars

\* A call into http.client returns or raises: the timeout is one of each socket
\* operation, which gives up after timeout_seconds without progress, and what a
\* call reads is bounded.  Assumed away is a server that sends 100 Continue
\* without end, which http.client keeps skipping.
FairSpec == Spec /\ WF_vars(Step)

-----------------------------------------------------------------------------
HasCaptured == outcome[1] = "captured"

QuestionOf(r) ==
  [url |-> r.endpoint, model |-> r.model, prompt |-> r.prompt,
   with_key |-> IsCloud(r.endpoint)]

\* What an answer says, if it is a complete one.
NoAnswer == <<"no answer">>

AnswerOf(answer) ==
  IF answer.status = 200 /\ answer.body \in JsonText /\ ReplyRootIssues(Document[answer.body]) = {}
  THEN LET root == Document[answer.body]
       IN  <<Field(root, "model").text, Utf8[Field(root, "response").text],
             Optional(root, "done_reason")>>
  ELSE NoAnswer

Says == [a \in Served |-> AnswerOf(a)]

Questions == {QuestionOf(r) : r \in Requests}
Answers == {Says[a] : a \in Served}

AskedAs(w) ==
  [url |-> w.url, model |-> w.body.model, prompt |-> w.body.prompt, with_key |-> w.key # NoKey]

CapturedQuestion(e) ==
  LET endpoint == CHOOSE u \in Endpoints : ProviderOf(u) = e.provider_id
  IN  [url |-> endpoint, model |-> e.requested_model, prompt |-> e.prompt.data,
       with_key |-> IsCloud(endpoint)]

CapturedAnswer(e) == <<e.reported_model, e.raw_response.data, e.finish_reason>>

Asked == [i \in DOMAIN wire |-> AskedAs(wire[i])]

Answered == IF served = None THEN <<>> ELSE <<Says[served]>>

Decided ==
  IF outcome[1] = "none" THEN <<"pending">>
  ELSE IF outcome[1] = "raised" THEN <<"failed">>
  ELSE <<"captured", CapturedQuestion(outcome[2]), CapturedAnswer(outcome[2])>>

Attempt == INSTANCE GenerationAttempt WITH
  Question <- Questions, Answer <- Answers,
  asked <- Asked, answered <- Answered, outcome <- Decided

(* Whoever replaces what while the exchange runs, one question leaves at   *)
(* most once, with the key if and only if it goes to the cloud, and what   *)
(* is captured is that question and all of the answer the server gave to   *)
(* it, however it closed.                                                  *)
ImplementsAttempt == Attempt!Spec

(* When the transport's call is over, what it opened has been closed, with *)
(* one exception: something other than an Exception came out of closing    *)
(* the response.                                                           *)
OpenedIsClosed ==
  stage \in {"return", "done"} =>
    /\ response # "open"
    /\ connection = "open" => escaping = "closing response"

(* Nothing of a body that goes on beyond the adapter's limit is captured,  *)
(* although what comes before the limit may be a complete JSON text.       *)
OverlongIsNeverCaptured == HasCaptured => Len(served.body) <= MaxBodyBytes

(* An answer the adapter accepts is not lost any more: capture_generation  *)
(* never refuses what is left to it, and extract_draft finds the captured  *)
(* response unaltered, within its limit and in UTF-8.                      *)
AcceptedAnswersAreKept ==
  /\ outcome # Raised({"capture"})
  /\ HasCaptured =>
       LET e == outcome[2]
       IN  /\ DigestIssues(e) = {} /\ Utf8Issues(e) = {}
           /\ Len(e.raw_response.data) <= MaxResponseBytes

(* Every call of generate_ollama returns or raises, also when the server   *)
(* never answers and others never stop replacing what the call looks at.   *)
EveryExchangeEnds == <>(stage = "done")

=============================================================================
