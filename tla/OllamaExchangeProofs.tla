------------------------ MODULE OllamaExchangeProofs ------------------------
(***************************************************************************)
(* What holds of generate_ollama over the HTTP transport for any requests, *)
(* keys, answers and limits.                                               *)
(***************************************************************************)
EXTENDS OllamaExchange, TextScanProofs

-----------------------------------------------------------------------------
(* Closing.                                                                *)

Unopened == {"validate", "snapshot attempt", "snapshot rest", "snapshot transport", "connect"}

Closing ==
  /\ stage \in Unopened => response = "none" /\ connection = "none"
  /\ stage \in {"request", "get response"} => response = "none"
  /\ stage = "close connection" => response # "open"
  /\ OpenedIsClosed

LEMMA ClosingInit == ASSUME Init PROVE Closing
  BY DEF Init, TransportInit, Closing, Unopened, OpenedIsClosed

LEMMA ClosingStep ==
  ASSUME Closing, [Next]_vars
  PROVE  Closing'
<1> USE DEF Closing, Unopened, OpenedIsClosed, objects, network, reading, ending, adapterVars
<1>1. CASE ValidateRequest
  BY <1>1 DEF ValidateRequest
<1>2. CASE SnapshotAttempt
  BY <1>2 DEF SnapshotAttempt
<1>3. CASE SnapshotRest
  BY <1>3 DEF SnapshotRest
<1>4. CASE JudgeReply
  BY <1>4 DEF JudgeReply
<1>5. CASE TakeSnapshot
  BY <1>5 DEF TakeSnapshot
<1>6. CASE Connect
  BY <1>6 DEF Connect, Raises, Unwind
<1>7. CASE SendRequest
  BY <1>7 DEF SendRequest, Raises, Unwind
<1>8. CASE GetResponse
  BY <1>8 DEF GetResponse, Raises, Unwind
<1>9. CASE ReadStatus
  <2>1. stage' \in {"read body", "close response"}
    BY <1>9 DEF ReadStatus, Raises, Unwind
  <2>2. UNCHANGED <<connection, response>>
    BY <1>9 DEF ReadStatus
  <2> QED
    BY <2>1, <2>2
<1>10. CASE ReadBody
  BY <1>10 DEF ReadBody, Raises, Unwind
<1>11. CASE CloseResponse
  BY <1>11 DEF CloseResponse
<1>12. CASE CloseConnection
  BY <1>12 DEF CloseConnection
<1>13. CASE Others
  BY <1>13 DEF Others, ReplaceRequest, ReplaceOutgoing, Serve, ReplaceCredential, transportVars
<1>14. CASE UNCHANGED vars
  BY <1>14 DEF vars, transportVars
<1> QED
  BY <1>1, <1>2, <1>3, <1>4, <1>5, <1>6, <1>7, <1>8, <1>9, <1>10, <1>11, <1>12, <1>13, <1>14
  DEF Next, Step, AdapterStep, TransportStep

(* Whatever each network call returns or raises, and whoever replaces the  *)
(* request or the key, the transport closes what it opened unless closing  *)
(* the response raises more than an Exception (OllamaHttpTransport's       *)
(* finally clause).                                                        *)
THEOREM ExchangesCloseWhatTheyOpen == Spec => []OpenedIsClosed
<1>1. Init => Closing
  BY ClosingInit
<1>2. Closing /\ [Next]_vars => Closing'
  BY ClosingStep
<1>3. Closing => OpenedIsClosed
  BY DEF Closing
<1> QED
  BY <1>1, <1>2, <1>3, PTL DEF Spec

-----------------------------------------------------------------------------
(* Asking.                                                                 *)

Preparing == {"validate", "snapshot attempt", "snapshot rest"}

Calling ==
  {"snapshot transport", "connect", "request", "get response", "read status",
   "read body", "close response", "close connection", "return"}

\* The copy is a request's, and what the transport holds is the copy's.
Copying ==
  /\ request \in Requests
  /\ stage \in Calling =>
       source.endpoint \in Endpoints /\ QuestionOf(source) \in Questions
  /\ stage \in Preparing \cup {"snapshot transport"} => held = None
  /\ stage = "snapshot transport" => outgoing = TransportRequestOf(source)
  /\ stage \in {"connect", "request"} =>
       /\ held.url = source.endpoint
       /\ held.body = [model |-> source.model, prompt |-> source.prompt]
       /\ held.key # NoKey <=> IsCloud(source.endpoint)

LEMMA CopyingInit == ASSUME Init PROVE Copying
  BY DEF Init, TransportInit, Copying, Calling

LEMMA CopyingStep ==
  ASSUME Copying, [Next]_vars
  PROVE  Copying'
<1> USE DEF Copying, Calling, Preparing, objects, network, reading, ending, adapterVars
<1>1. CASE ValidateRequest
  BY <1>1 DEF ValidateRequest
<1>2. CASE SnapshotAttempt
  BY <1>2 DEF SnapshotAttempt
<1>3. CASE SnapshotRest
  <2> DEFINE copy == [request EXCEPT !.attempt = source.attempt, !.parent = source.parent]
  <2>1. /\ copy.endpoint = request.endpoint
        /\ copy.model = request.model /\ copy.prompt = request.prompt
    BY RequestsAssumption
  <2>2. copy.endpoint \in Endpoints
    BY <2>1, RequestsAssumption
  <2>3. QuestionOf(copy) \in Questions
    BY <2>1 DEF QuestionOf, Questions
  <2>4. CASE SnapshotFits(copy)
    <3>1. source' = copy /\ outgoing' = TransportRequestOf(copy) /\ stage' = "snapshot transport"
      BY <1>3, <2>4 DEF SnapshotRest
    <3>2. request' = request /\ held' = held /\ held = None
      BY <1>3 DEF SnapshotRest
    <3> QED
      BY <3>1, <3>2, <2>2, <2>3 DEF QuestionOf, Questions, TransportRequestOf
  <2>5. CASE ~ SnapshotFits(copy)
    BY <1>3, <2>5 DEF SnapshotRest
  <2> QED
    BY <2>4, <2>5
<1>4. CASE JudgeReply
  BY <1>4 DEF JudgeReply
<1>5. CASE TakeSnapshot /\ UNCHANGED adapterVars
  <2>1. /\ stage = "snapshot transport" /\ stage' \in {"connect", "return"}
        /\ UNCHANGED <<request, source>>
        /\ held' = [url |-> outgoing.url, body |-> outgoing.body,
                    key |-> IF IsCloud(outgoing.url) THEN credential ELSE NoKey]
        /\ stage' = "connect" => ~ (IsCloud(outgoing.url) /\ credential = NoKey)
    BY <1>5 DEF TakeSnapshot
  <2>2. /\ outgoing.url = source.endpoint
        /\ outgoing.body = [model |-> source.model, prompt |-> source.prompt]
    <3>1. outgoing = TransportRequestOf(source)
      BY <2>1
    <3> HIDE DEF Copying
    <3> QED
      BY <3>1 DEF TransportRequestOf
  <2>3. stage' = "connect" => (held'.key # NoKey <=> IsCloud(source.endpoint))
    BY <2>1, <2>2 DEF IsCloud
  <2> QED
    BY <2>1, <2>2, <2>3
<1>6. CASE Connect /\ UNCHANGED adapterVars
  BY <1>6 DEF Connect, Raises, Unwind
<1>7. CASE SendRequest /\ UNCHANGED adapterVars
  BY <1>7 DEF SendRequest, Raises, Unwind
<1>8. CASE GetResponse /\ UNCHANGED adapterVars
  BY <1>8 DEF GetResponse, Raises, Unwind
<1>9. CASE ReadStatus /\ UNCHANGED adapterVars
  <2>1. stage' \in {"read body", "close response"} /\ UNCHANGED <<request, source, held>>
    BY <1>9 DEF ReadStatus, Raises, Unwind
  <2> QED
    BY <1>9, <2>1 DEF ReadStatus
<1>10. CASE ReadBody /\ UNCHANGED adapterVars
  BY <1>10 DEF ReadBody, Raises, Unwind
<1>11. CASE CloseResponse /\ UNCHANGED adapterVars
  BY <1>11 DEF CloseResponse
<1>12. CASE CloseConnection /\ UNCHANGED adapterVars
  BY <1>12 DEF CloseConnection
<1>13. CASE Others
  BY <1>13 DEF Others, ReplaceRequest, ReplaceOutgoing, Serve, ReplaceCredential, transportVars
<1>14. CASE UNCHANGED vars
  BY <1>14 DEF vars, transportVars
<1> QED
  BY <1>1, <1>2, <1>3, <1>4, <1>5, <1>6, <1>7, <1>8, <1>9, <1>10, <1>11, <1>12, <1>13, <1>14
  DEF Next, Step, AdapterStep, TransportStep

Unsent == Preparing \cup {"snapshot transport", "connect", "request"}

\* At most one request leaves, and it asks what the copy says.
Asking ==
  /\ stage \in Unsent => wire = <<>>
  /\ stage \in Calling /\ wire # <<>> =>
       \E w : wire = <<w>> /\ AskedAs(w) = QuestionOf(source)
  /\ wire = <<>> => served = None
  /\ served = None \/ served \in Served

LEMMA AskingInit == ASSUME Init PROVE Asking
  BY DEF Init, TransportInit, Asking, Calling

LEMMA AppendToEmpty ==
  ASSUME NEW x
  PROVE  Append(<<>>, x) = <<x>>
  BY <<>> \in Seq({x}), AppendIsConcat, <<>> \o <<x>> = <<x>>

LEMMA DepartingAsks ==
  ASSUME Copying, stage = "request"
  PROVE  AskedAs(Departing) = QuestionOf(source)
<1>1. /\ held.url = source.endpoint
      /\ held.body = [model |-> source.model, prompt |-> source.prompt]
  BY DEF Copying
<1>2. (held.key # NoKey) = IsCloud(source.endpoint)
  BY DEF Copying, IsCloud
<1>3. AskedAs(Departing) = [url |-> held.url, model |-> held.body.model,
                            prompt |-> held.body.prompt, with_key |-> held.key # NoKey]
  BY DEF AskedAs, Departing
<1>4. held.body.model = source.model /\ held.body.prompt = source.prompt
  BY <1>1
<1> QED
  BY <1>1, <1>2, <1>3, <1>4 DEF QuestionOf

LEMMA AskingStep ==
  ASSUME Copying, Asking, [Next]_vars
  PROVE  Asking'
<1> USE DEF Asking, Unsent, Calling, Preparing, objects, network, reading, ending, adapterVars
<1>1. CASE ValidateRequest
  BY <1>1 DEF ValidateRequest
<1>2. CASE SnapshotAttempt
  BY <1>2 DEF SnapshotAttempt
<1>3. CASE SnapshotRest
  BY <1>3 DEF SnapshotRest
<1>4. CASE JudgeReply
  BY <1>4 DEF JudgeReply
<1>5. CASE TakeSnapshot /\ UNCHANGED adapterVars
  BY <1>5 DEF TakeSnapshot
<1>6. CASE Connect /\ UNCHANGED adapterVars
  BY <1>6 DEF Connect, Raises, Unwind
<1>7. CASE SendRequest /\ UNCHANGED adapterVars
  <2>1. stage = "request" /\ wire = <<>> /\ served = None
    BY <1>7 DEF SendRequest
  <2>2. AskedAs(Departing) = QuestionOf(source)
    BY <2>1, DepartingAsks
  <2>3. wire' = <<>> \/ wire' = <<Departing>>
    <3>1. wire' = wire \/ wire' = Append(wire, Departing)
      BY <1>7 DEF SendRequest
    <3> QED
      BY <2>1, <3>1, AppendToEmpty
  <2>4. stage' \in {"get response", "close response"} /\ UNCHANGED <<source, served>>
    BY <1>7 DEF SendRequest, Raises, Unwind
  <2>5. AskedAs(Departing) = QuestionOf(source)'
    BY <2>2, <2>4 DEF QuestionOf
  <2> QED
    BY <2>1, <2>3, <2>4, <2>5
<1>8. CASE GetResponse /\ UNCHANGED adapterVars
  BY <1>8 DEF GetResponse, Raises, Unwind
<1>9. CASE ReadStatus /\ UNCHANGED adapterVars
  <2>1. stage = "read status" /\ stage' \in {"read body", "close response"}
    BY <1>9 DEF ReadStatus, Raises, Unwind
  <2> QED
    BY <1>9, <2>1 DEF ReadStatus, QuestionOf
<1>10. CASE ReadBody /\ UNCHANGED adapterVars
  BY <1>10 DEF ReadBody, Raises, Unwind
<1>11. CASE CloseResponse /\ UNCHANGED adapterVars
  BY <1>11 DEF CloseResponse
<1>12. CASE CloseConnection /\ UNCHANGED adapterVars
  BY <1>12 DEF CloseConnection
<1>13. CASE Others
  BY <1>13 DEF Others, ReplaceRequest, ReplaceOutgoing, Serve, ReplaceCredential,
    transportVars, QuestionOf
<1>14. CASE UNCHANGED vars
  BY <1>14 DEF vars, transportVars
<1> QED
  BY <1>1, <1>2, <1>3, <1>4, <1>5, <1>6, <1>7, <1>8, <1>9, <1>10, <1>11, <1>12, <1>13, <1>14
  DEF Next, Step, AdapterStep, TransportStep

-----------------------------------------------------------------------------
(* Reading.                                                                *)

WhatIsRead == SubSeq(served.body, 1, Min({Len(served.body), ReadLimit}))

\* When nothing failed, the reply to judge is what the limit lets through of
\* the answer.
Reading ==
  /\ stage \in {"read status", "read body"} => served # None
  /\ stage = "read body" => status = served.status
  /\ stage \in {"close response", "close connection", "return"} =>
       \/ escaping # "nothing"
       \/ transport_failed = TRUE
       \/ served # None /\ status = served.status /\ body = WhatIsRead

LEMMA ReadingInit == ASSUME Init PROVE Reading
  BY DEF Init, Reading

LEMMA ReadingStep ==
  ASSUME Reading, [Next]_vars
  PROVE  Reading'
<1> USE DEF Reading, objects, network, reading, ending, adapterVars, WhatIsRead
<1>1. CASE ValidateRequest
  BY <1>1 DEF ValidateRequest
<1>2. CASE SnapshotAttempt
  BY <1>2 DEF SnapshotAttempt
<1>3. CASE SnapshotRest
  BY <1>3 DEF SnapshotRest
<1>4. CASE JudgeReply
  BY <1>4 DEF JudgeReply
<1>5. CASE TakeSnapshot /\ UNCHANGED adapterVars
  BY <1>5 DEF TakeSnapshot
<1>6. CASE Connect /\ UNCHANGED adapterVars
  BY <1>6 DEF Connect, Raises, Unwind
<1>7. CASE SendRequest /\ UNCHANGED adapterVars
  BY <1>7 DEF SendRequest, Raises, Unwind
<1>8. CASE GetResponse /\ UNCHANGED adapterVars
  BY <1>8 DEF GetResponse, Raises, Unwind
<1>9. CASE ReadStatus /\ UNCHANGED adapterVars
  <2>1. stage = "read status" /\ served' = served /\ body' = body /\ served # None
    BY <1>9 DEF ReadStatus
  <2>2. \/ stage' = "read body" /\ status' = served.status
        \/ stage' = "close response" /\ transport_failed' = TRUE
        \/ stage' = "close response" /\ escaping' = "call"
    BY <1>9 DEF ReadStatus, Raises, Unwind
  <2> QED
    BY <2>1, <2>2
<1>10. CASE ReadBody /\ UNCHANGED adapterVars
  BY <1>10 DEF ReadBody, Raises, Unwind
<1>11. CASE CloseResponse /\ UNCHANGED adapterVars
  BY <1>11 DEF CloseResponse
<1>12. CASE CloseConnection /\ UNCHANGED adapterVars
  BY <1>12 DEF CloseConnection
<1>13. CASE Others
  BY <1>13 DEF Others, ReplaceRequest, ReplaceOutgoing, Serve, ReplaceCredential,
    transportVars, QuestionOf
<1>14. CASE UNCHANGED vars
  BY <1>14 DEF vars, transportVars
<1> QED
  BY <1>1, <1>2, <1>3, <1>4, <1>5, <1>6, <1>7, <1>8, <1>9, <1>10, <1>11, <1>12, <1>13, <1>14
  DEF Next, Step, AdapterStep, TransportStep

LEMMA WholeBody ==
  ASSUME NEW b \in Seq(Byte), ~ (Len(SubSeq(b, 1, Min({Len(b), ReadLimit}))) > MaxBodyBytes)
  PROVE  /\ SubSeq(b, 1, Min({Len(b), ReadLimit})) = b
         /\ Len(b) <= MaxBodyBytes
<1> USE OllamaHttpAssumption
<1>1. CASE Len(b) <= ReadLimit
  <2>1. Min({Len(b), ReadLimit}) = Len(b)
    BY <1>1 DEF Min, ReadLimit
  <2> QED
    BY <2>1
<1>2. CASE ~ (Len(b) <= ReadLimit)
  <2>1. Min({Len(b), ReadLimit}) = MaxBodyBytes + 1
    BY <1>2 DEF Min, ReadLimit
  <2>2. Len(SubSeq(b, 1, MaxBodyBytes + 1)) = MaxBodyBytes + 1
    BY <1>2 DEF ReadLimit
  <2> QED
    BY <2>1, <2>2
<1> QED
  BY <1>1, <1>2

(* What JudgeReply captures is a whole answer.                             *)
LEMMA CapturedIsServed ==
  ASSUME Asking, Reading, stage = "return", escaping = "nothing", transport_failed # TRUE,
         ReplyIssues = {}
  PROVE  /\ served \in Served /\ served # None /\ wire # <<>>
         /\ body = served.body /\ Len(served.body) <= MaxBodyBytes
         /\ served.status = 200 /\ body \in JsonText /\ ReplyRootIssues(Document[body]) = {}
<1>1. served # None /\ status = served.status /\ body = WhatIsRead
  BY DEF Reading
<1>2. served \in Served /\ wire # <<>>
  BY <1>1 DEF Asking
<1>3. /\ status = 200 /\ ~ (Len(body) > MaxBodyBytes)
      /\ body \in JsonText /\ ReplyRootIssues(Document[body]) = {}
  BY DEF ReplyIssues
<1>4. served.body \in Seq(Byte)
  BY <1>2, OllamaHttpAssumption
<1>5. body = served.body /\ Len(served.body) <= MaxBodyBytes
  BY <1>1, <1>3, <1>4, WholeBody DEF WhatIsRead
<1> QED
  BY <1>1, <1>2, <1>3, <1>5

-----------------------------------------------------------------------------
(* Deciding, and the refinement.                                           *)

Deciding ==
  /\ stage # "done" => outcome = NoOutcome
  /\ OverlongIsNeverCaptured

Invariant == Closing /\ Copying /\ Asking /\ Reading /\ Deciding

LEMMA DecidingInit == ASSUME Init PROVE Deciding
  BY DEF Init, Deciding, OverlongIsNeverCaptured, HasCaptured, NoOutcome

(* How a call ends: it raised something, or captured all of an answer.     *)
LEMMA Judgement ==
  ASSUME JudgeReply
  PROVE  \/ \E codes : outcome' = Raised(codes)
         \/ /\ escaping = "nothing" /\ transport_failed # TRUE /\ ReplyIssues = {}
            /\ outcome' = CapturedEnvelope(CaptureGeneration(CapturedFacts))
  BY DEF JudgeReply

LEMMA DecidingStep ==
  ASSUME Asking, Reading, Deciding, [Next]_vars
  PROVE  Deciding'
<1> USE DEF Deciding, OverlongIsNeverCaptured, HasCaptured, objects, network, reading, ending,
            adapterVars
<1>1. CASE ValidateRequest
  <2>1. \/ stage' # "done" /\ outcome' = outcome
        \/ stage' = "done" /\ outcome' = Raised({"invalid request"})
    BY <1>1 DEF ValidateRequest
  <2>2. stage # "done" /\ outcome = NoOutcome
    BY <1>1 DEF ValidateRequest
  <2>3. NoOutcome[1] # "captured" /\ Raised({"invalid request"})[1] # "captured"
    BY DEF NoOutcome, Raised
  <2> HIDE DEF OverlongIsNeverCaptured
  <2>4. outcome'[1] # "captured"
    BY <2>1, <2>2, <2>3
  <2> QED
    BY <2>1, <2>2, <2>4 DEF OverlongIsNeverCaptured
<1>2. CASE SnapshotAttempt
  BY <1>2 DEF SnapshotAttempt
<1>3. CASE SnapshotRest
  <2>1. \/ stage' # "done" /\ outcome' = outcome
        \/ stage' = "done" /\ outcome' = Raised({"invalid request"})
    BY <1>3 DEF SnapshotRest
  <2>2. stage # "done" /\ outcome = NoOutcome
    BY <1>3 DEF SnapshotRest
  <2>3. NoOutcome[1] # "captured" /\ Raised({"invalid request"})[1] # "captured"
    BY DEF NoOutcome, Raised
  <2> HIDE DEF OverlongIsNeverCaptured
  <2>4. outcome'[1] # "captured"
    BY <2>1, <2>2, <2>3
  <2> QED
    BY <2>1, <2>2, <2>4 DEF OverlongIsNeverCaptured
<1>4. CASE JudgeReply
  <2>1. stage' = "done" /\ served' = served
    BY <1>4 DEF JudgeReply
  <2>2. ASSUME NEW codes, outcome' = Raised(codes)
        PROVE  outcome'[1] # "captured"
    BY <2>2 DEF Raised
  <2>3. CASE escaping = "nothing" /\ transport_failed # TRUE /\ ReplyIssues = {}
    <3>1. stage = "return"
      BY <1>4 DEF JudgeReply
    <3>2. Len(served.body) <= MaxBodyBytes
      BY <2>3, <3>1, CapturedIsServed
    <3> QED
      BY <2>1, <3>2
  <2> QED
    BY <1>4, <2>1, <2>2, <2>3, Judgement
<1>5. CASE TransportStep /\ UNCHANGED adapterVars
  <2>1. stage # "done" /\ outcome' = outcome
    BY <1>5 DEF TransportStep, TakeSnapshot, Connect, SendRequest, GetResponse, ReadStatus,
      ReadBody, CloseResponse, CloseConnection
  <2>2. outcome[1] # "captured"
    BY <2>1 DEF NoOutcome
  <2> QED
    BY <2>1, <2>2
<1>6. CASE stage # "done" /\ Others
  <2>1. outcome' = outcome
    BY <1>6 DEF Others, ReplaceRequest, ReplaceOutgoing, Serve, ReplaceCredential
  <2>2. outcome[1] # "captured"
    BY <1>6 DEF NoOutcome
  <2> QED
    BY <1>6, <2>1, <2>2
<1>7. CASE UNCHANGED vars
  BY <1>7 DEF vars, transportVars
<1> QED
  BY <1>1, <1>2, <1>3, <1>4, <1>5, <1>6, <1>7 DEF Next, Step, AdapterStep

LEMMA InvariantHolds == Spec => []Invariant
<1>1. Init => Invariant
  BY ClosingInit, CopyingInit, AskingInit, ReadingInit, DecidingInit DEF Invariant
<1>2. Invariant /\ [Next]_vars => Invariant'
  BY ClosingStep, CopyingStep, AskingStep, ReadingStep, DecidingStep DEF Invariant
<1> QED
  BY <1>1, <1>2, PTL DEF Spec

(* Nothing of a body beyond the limit is captured: the transport reads one *)
(* byte more than generate_ollama accepts.                                 *)
THEOREM OverlongAnswersAreRefused == Spec => []OverlongIsNeverCaptured
<1>1. Invariant => OverlongIsNeverCaptured
  BY DEF Invariant, Deciding
<1> QED
  BY <1>1, InvariantHolds, PTL

-----------------------------------------------------------------------------
(* The refinement.                                                         *)

LEMMA NothingAsked == ASSUME wire = <<>> PROVE Asked = <<>>
  BY DEF Asked

LEMMA OneAsked ==
  ASSUME NEW w, wire = <<w>>
  PROVE  Asked = <<AskedAs(w)>>
<1> HIDE DEF AskedAs
<1>1. DOMAIN wire = {1} /\ wire[1] = w
  OBVIOUS
<1>2. Asked = [i \in {1} |-> AskedAs(w)]
  BY <1>1 DEF Asked
<1>3. <<AskedAs(w)>> = [i \in {1} |-> AskedAs(w)]
  OBVIOUS
<1> QED
  BY <1>2, <1>3

LEMMA Stutters ==
  ASSUME UNCHANGED <<wire, served, outcome>>
  PROVE  UNCHANGED Attempt!vars
  BY DEF Attempt!vars, Asked, Answered, Decided

LEMMA Fails ==
  ASSUME Deciding, stage # "done", NEW codes, outcome' = Raised(codes),
         UNCHANGED <<wire, served>>
  PROVE  Attempt!Fail
<1>1. Decided = <<"pending">>
  BY DEF Deciding, Decided, NoOutcome
<1>2. Decided' = <<"failed">>
  BY DEF Decided, Raised
<1>3. Asked' = Asked /\ Answered' = Answered
  BY DEF Asked, Answered
<1> QED
  BY <1>1, <1>2, <1>3 DEF Attempt!Fail, Attempt!Pending, Attempt!Failed

LEMMA CopiedEndpoint ==
  ASSUME NEW u \in Endpoints
  PROVE  (CHOOSE v \in Endpoints : ProviderOf(v) = ProviderOf(u)) = u
  BY DEF Endpoints, ProviderOf

(* A call that captures what it asked, with all of the answer.             *)
LEMMA Captures ==
  ASSUME Invariant, JudgeReply,
         escaping = "nothing", transport_failed # TRUE, ReplyIssues = {},
         outcome' = CapturedEnvelope(CaptureGeneration(CapturedFacts))
  PROVE  Attempt!Capture
<1>1. stage = "return" /\ UNCHANGED <<wire, served>>
  BY DEF JudgeReply, network
<1>2. /\ served \in Served /\ served # None /\ wire # <<>>
      /\ body = served.body
      /\ served.status = 200 /\ body \in JsonText /\ ReplyRootIssues(Document[body]) = {}
  BY <1>1, CapturedIsServed DEF Invariant
<1>3. Decided = <<"pending">>
  BY <1>1 DEF Invariant, Deciding, Decided, NoOutcome
<1>4. Asked = <<QuestionOf(source)>>
  <2>1. PICK w : wire = <<w>> /\ AskedAs(w) = QuestionOf(source)
    BY <1>1, <1>2 DEF Invariant, Asking, Calling
  <2> QED
    BY <2>1, OneAsked
<1>5. Answered = <<AnswerOf(served)>>
  BY <1>2 DEF Answered, Says
<1> DEFINE envelope == CaptureGeneration(CapturedFacts)
           root == Document[body]
<1>6. AnswerOf(served) = <<Field(root, "model").text, Utf8[Field(root, "response").text],
                           Optional(root, "done_reason")>>
  BY <1>2 DEF AnswerOf
<1>7. CapturedAnswer(envelope) = AnswerOf(served)
  BY <1>6 DEF CapturedAnswer, CaptureGeneration, CapturedContent, CapturedFacts, FactsOf
<1>8. CapturedQuestion(envelope) = QuestionOf(source)
  <2>1. source.endpoint \in Endpoints
    BY <1>1 DEF Invariant, Copying, Calling
  <2>2. /\ envelope.provider_id = ProviderOf(source.endpoint)
        /\ envelope.requested_model = source.model /\ envelope.prompt.data = source.prompt
    BY DEF CaptureGeneration, CapturedContent, CapturedFacts, FactsOf
  <2>3. (CHOOSE u \in Endpoints : ProviderOf(u) = envelope.provider_id) = source.endpoint
    BY <2>1, <2>2, CopiedEndpoint
  <2> HIDE DEF envelope
  <2> QED
    BY <2>2, <2>3 DEF CapturedQuestion, QuestionOf
<1>9. Decided' = <<"captured", CapturedQuestion(envelope), CapturedAnswer(envelope)>>
  <2> HIDE DEF envelope
  <2>1. outcome' = <<"captured", envelope>>
    BY DEF CapturedEnvelope, envelope
  <2>2. outcome'[1] = "captured" /\ outcome'[2] = envelope
    BY <2>1
  <2> QED
    BY <2>2 DEF Decided, CapturedQuestion, CapturedAnswer, ProviderOf, IsCloud, Endpoints
<1>10. Asked' = Asked /\ Answered' = Answered
  BY <1>1 DEF Asked, Answered
<1> HIDE DEF envelope, root
<1> QED
  BY <1>3, <1>4, <1>5, <1>7, <1>8, <1>9, <1>10
  DEF Attempt!Capture, Attempt!Pending, Attempt!CapturedAs

LEMMA StepImplements ==
  ASSUME Invariant, [Next]_vars
  PROVE  [Attempt!Next]_(Attempt!vars)
<1> USE DEF objects, network, reading, ending, adapterVars
<1>1. CASE ValidateRequest
  <2>1. stage # "done" /\ UNCHANGED <<wire, served>>
        /\ (outcome' = outcome \/ outcome' = Raised({"invalid request"}))
    BY <1>1 DEF ValidateRequest
  <2> QED
    BY <2>1, Stutters, Fails DEF Attempt!Next, Invariant
<1>2. CASE SnapshotAttempt
  BY <1>2, Stutters DEF SnapshotAttempt
<1>3. CASE SnapshotRest
  <2>1. stage # "done" /\ UNCHANGED <<wire, served>>
        /\ (outcome' = outcome \/ outcome' = Raised({"invalid request"}))
    BY <1>3 DEF SnapshotRest
  <2> QED
    BY <2>1, Stutters, Fails DEF Attempt!Next, Invariant
<1>4. CASE JudgeReply
  <2>1. stage # "done" /\ UNCHANGED <<wire, served>>
    BY <1>4 DEF JudgeReply
  <2> QED
    BY <1>4, <2>1, Judgement, Fails, Captures DEF Attempt!Next, Invariant
<1>5. CASE SendRequest /\ UNCHANGED adapterVars
  <2>1. stage = "request" /\ wire = <<>> /\ served' = served /\ outcome' = outcome
        /\ (wire' = wire \/ wire' = Append(wire, Departing))
    BY <1>5 DEF SendRequest, Invariant, Asking, Unsent
  <2>2. CASE wire' = wire
    BY <2>1, <2>2, Stutters
  <2>3. CASE wire' = Append(wire, Departing)
    <3>1. wire' = <<Departing>>
      BY <2>1, <2>3, AppendToEmpty
    <3>2. Asked = <<>>
      BY <2>1, NothingAsked
    <3>3. Asked' = <<AskedAs(Departing)>>
      BY <3>1 DEF Asked, AskedAs
    <3>4. AskedAs(Departing) \in Questions
      BY <2>1, DepartingAsks DEF Invariant, Copying, Calling
    <3>5. Decided = <<"pending">>
      BY <2>1 DEF Invariant, Deciding, Decided, NoOutcome
    <3>6. Decided' = Decided /\ Answered' = Answered
      BY <2>1 DEF Decided, Answered
    <3> QED
      BY <3>2, <3>3, <3>4, <3>5, <3>6 DEF Attempt!Next, Attempt!Ask, Attempt!Pending
  <2> QED
    BY <2>1, <2>2, <2>3
<1>6. CASE /\ \/ TakeSnapshot \/ Connect \/ GetResponse \/ ReadStatus \/ ReadBody
              \/ CloseResponse \/ CloseConnection
           /\ UNCHANGED adapterVars
  BY <1>6, Stutters DEF TakeSnapshot, Connect, GetResponse, ReadStatus, ReadBody,
    CloseResponse, CloseConnection
<1>7. CASE Serve /\ UNCHANGED adapterVars
  <2>1. /\ wire # <<>> /\ served = None /\ served' \in Served
        /\ UNCHANGED <<wire, outcome>>
    BY <1>7 DEF Serve
  <2>3. Asked # <<>>
    BY <2>1 DEF Asked
  <2>4. Answered = <<>>
    BY <2>1 DEF Answered
  <2>5. served' # None
    BY <2>1, OllamaHttpAssumption DEF None
  <2>6. Answered' = <<Says[served']>> /\ Says[served'] \in Answers
    BY <2>1, <2>5 DEF Answered, Answers, Says
  <2>7. Asked' = Asked /\ Decided' = Decided
    BY <2>1 DEF Asked, Decided
  <2> QED
    BY <2>3, <2>4, <2>6, <2>7 DEF Attempt!Next, Attempt!Reply
<1>8. CASE ReplaceRequest \/ ReplaceOutgoing \/ (ReplaceCredential /\ UNCHANGED adapterVars)
  BY <1>8, Stutters DEF ReplaceRequest, ReplaceOutgoing, ReplaceCredential, transportVars
<1>9. CASE UNCHANGED vars
  BY <1>9, Stutters DEF vars, transportVars
<1> QED
  BY <1>1, <1>2, <1>3, <1>4, <1>5, <1>6, <1>7, <1>8, <1>9
  DEF Next, Step, AdapterStep, TransportStep, Others

(* generate_ollama over the HTTP transport is one attempt: at most one     *)
(* question leaves, and what is captured is that question, as it was       *)
(* copied, with all of the answer given to it.                             *)
THEOREM ExchangesAreAttempts == Spec => ImplementsAttempt
<1>1. Init => Attempt!Init
  <2> SUFFICES ASSUME Init PROVE Attempt!Init
    OBVIOUS
  <2>1. wire = <<>> /\ served = None /\ outcome = NoOutcome
    BY DEF Init, TransportInit
  <2>2. Asked = <<>> /\ Answered = <<>> /\ Decided = <<"pending">>
    BY <2>1, NothingAsked DEF Answered, Decided, NoOutcome
  <2> QED
    BY <2>2 DEF Attempt!Init, Attempt!Pending
<1>2. Invariant /\ [Next]_vars => [Attempt!Next]_(Attempt!vars)
  BY StepImplements
<1> QED
  BY <1>1, <1>2, InvariantHolds, PTL DEF Spec, ImplementsAttempt, Attempt!Spec

-----------------------------------------------------------------------------
(* A member of an object that is not too deep is one of the values of the  *)
(* text.                                                                   *)
LEMMA FieldIsWithin ==
  ASSUME NEW root, root.kind = "object", ~ TooDeep(root), NEW key \in Keys(root)
  PROVE  Field(root, key) \in Components(root)
<1>1. Container(root) /\ Within(root) = {m[2] : m \in root.members}
  BY DEF Container, Within
<1>2. \E m \in root.members : m[1] = key
  BY DEF Keys
<1>3. Field(root, key) \in Within(root)
  BY <1>1, <1>2 DEF Field
<1> QED
  BY <1>1, <1>3, TopLayers

(* A string in an accepted object is scalar.                               *)
LEMMA FieldIsScalar ==
  ASSUME NEW root, root.kind = "object", ~ TooDeep(root), ~ HasNonScalarString(root),
         NEW key \in Keys(root), Field(root, key).kind = "string"
  PROVE  Field(root, key).text \notin NonScalarText
<1>1. Field(root, key) \in Components(root)
  BY FieldIsWithin
<1> QED
  BY <1>1 DEF HasNonScalarString

LEMMA RaisedIfNone ==
  ASSUME NEW condition, NEW code, RaisedIf(condition, code) = {}
  PROVE  ~ condition
  BY DEF RaisedIf

(* What a complete reply holds.                                            *)
LEMMA CompleteReply ==
  ASSUME NEW root, ReplyRootIssues(root) = {}
  PROVE  /\ root.kind = "object" /\ ~ TooDeep(root) /\ ~ HasNonScalarString(root)
         /\ {"model", "response", "done"} \subseteq Keys(root)
         /\ ModelFits(Field(root, "model")) /\ TextFits(Field(root, "response"))
         /\ OptionalReasonFits(root)
<1>1. ~ TooDeep(root) /\ ~ HasNonScalarString(root)
  BY DEF ReplyRootIssues
<1>2. ~ HasDuplicateKey(root)
  BY <1>1 DEF ReplyRootIssues
<1>3. root.kind = "object"
  BY <1>1, <1>2 DEF ReplyRootIssues
<1>4. "error" \notin Keys(root)
  <2>1. ReplyErrorIssues(root) # {}
    BY DEF ReplyErrorIssues
  <2> QED
    BY <1>1, <1>2, <1>3, <2>1 DEF ReplyRootIssues
<1>5. ReplyShapeIssues(root) = {}
  BY <1>1, <1>2, <1>3, <1>4 DEF ReplyRootIssues
<1>6. {"model", "response", "done"} \subseteq Keys(root)
  BY <1>5 DEF ReplyShapeIssues, RaisedIf
<1>7. /\ ReplyFieldFits(root, "model", ModelFits)
      /\ ReplyFieldFits(root, "response", TextFits)
      /\ OptionalReasonFits(root)
  BY <1>5 DEF ReplyShapeIssues, RaisedIf
<1> QED
  BY <1>1, <1>3, <1>6, <1>7 DEF ReplyFieldFits

(* The codes of replies the adapter refuses are its own.                   *)
LEMMA RepliesBlameTheServer == "capture" \notin ReplyIssues
<1>1. ASSUME NEW root
      PROVE  "capture" \notin ReplyRootIssues(root)
  <2>1. "capture" \notin ReplyErrorIssues(root)
    BY DEF ReplyErrorIssues
  <2>2. "capture" \notin ReplyShapeIssues(root)
    BY DEF ReplyShapeIssues, RaisedIf
  <2> QED
    BY <2>1, <2>2 DEF ReplyRootIssues, RaisedIf
<1> QED
  BY <1>1 DEF ReplyIssues

(* What an accepted answer and an accepted request make is captured.       *)
LEMMA AnswersAreCapturable ==
  ASSUME NEW r, RequestFits(r), NEW root, ReplyRootIssues(root) = {}
  PROVE  Capturable(FactsOf(r, root))
<1> DEFINE facts == FactsOf(r, root)
<1>1. /\ LineageFits(r.attempt, r.relation, r.parent)
      /\ MetadataFits(r.model) /\ MetadataFits(r.prompt_template)
  BY DEF RequestFits
<1>2. /\ facts.attempt = r.attempt /\ facts.relation = r.relation /\ facts.parent = r.parent
      /\ facts.requested_model = r.model /\ facts.prompt_template = r.prompt_template
      /\ facts.reported_model = Field(root, "model").text
      /\ facts.finish_reason = Optional(root, "done_reason")
  BY DEF FactsOf
<1>3. /\ root.kind = "object" /\ ~ TooDeep(root) /\ ~ HasNonScalarString(root)
      /\ "model" \in Keys(root) /\ ModelFits(Field(root, "model")) /\ OptionalReasonFits(root)
  BY CompleteReply
<1>4. MetadataFits(facts.reported_model)
  <2>1. /\ Field(root, "model").kind = "string" /\ Field(root, "model").text # ""
        /\ Field(root, "model").text \notin LongMetadata
    BY <1>3 DEF ModelFits
  <2>2. Field(root, "model").text \notin NonScalarText
    BY <1>3, <2>1, FieldIsScalar
  <2> HIDE DEF facts
  <2> QED
    BY <1>2, <2>1, <2>2 DEF MetadataFits
<1>5. OptionalMetadataFits(facts.finish_reason)
  <2>1. CASE "done_reason" \in Keys(root) /\ Field(root, "done_reason") # Null
    <3>1. MetadataFits(Field(root, "done_reason").text)
      BY <1>3, <2>1 DEF OptionalReasonFits
    <3> HIDE DEF facts
    <3> QED
      BY <1>2, <2>1, <3>1 DEF Optional, OptionalMetadataFits
  <2>2. CASE ~ ("done_reason" \in Keys(root) /\ Field(root, "done_reason") # Null)
    <3> HIDE DEF facts
    <3> QED
      BY <1>2, <2>2 DEF Optional, OptionalMetadataFits
  <2> QED
    BY <2>1, <2>2
<1> HIDE DEF facts
<1>6. Capturable(facts)
  BY <1>1, <1>2, <1>4, <1>5 DEF Capturable, OptionalMetadataFits
<1> QED
  BY <1>6 DEF facts

(* And extract_draft finds in it what the server sent.                     *)
LEMMA CapturesAreWhole ==
  ASSUME NEW r, NEW b \in JsonText, Len(b) \in Nat, Len(b) <= MaxBodyBytes,
         ReplyRootIssues(Document[b]) = {}
  PROVE  LET e == CaptureGeneration(FactsOf(r, Document[b]))
         IN  /\ DigestIssues(e) = {} /\ Utf8Issues(e) = {}
             /\ Len(e.raw_response.data) <= MaxResponseBytes
<1> DEFINE root == Document[b]
           e == CaptureGeneration(FactsOf(r, root))
           text == Field(root, "response").text
<1>1. /\ e.prompt = CapturedContent(r.prompt)
      /\ e.raw_response = CapturedContent(Utf8[text])
  BY DEF CaptureGeneration, FactsOf
<1>2. /\ root.kind = "object" /\ ~ TooDeep(root) /\ ~ HasNonScalarString(root)
      /\ "response" \in Keys(root) /\ TextFits(Field(root, "response"))
  BY CompleteReply
<1>3. Field(root, "response").kind = "string"
  BY <1>2 DEF TextFits
<1>4. Field(root, "response") \in Components(root) /\ text \notin NonScalarText
  BY <1>2, <1>3, FieldIsWithin, FieldIsScalar
<1>5. /\ Len(Utf8[text]) <= Len(b)
      /\ \A i \in DOMAIN Utf8[text] : Utf8[text][i] # BadByte
  BY <1>3, <1>4, Utf8Assumption
<1> HIDE DEF e, root, text
<1>6. /\ e.prompt.sha256 = Digest(e.prompt.data)
      /\ e.raw_response.sha256 = Digest(e.raw_response.data)
      /\ e.raw_response.data = Utf8[text]
  BY <1>1 DEF CapturedContent
<1>7. DigestIssues(e) = {} /\ Utf8Issues(e) = {}
  BY <1>5, <1>6 DEF DigestIssues, Utf8Issues, RaisedIf
<1>8. Len(e.raw_response.data) <= MaxResponseBytes
  BY <1>5, <1>6, LimitAssumption, OllamaHttpAssumption, DraftExtractAssumption
<1> QED
  BY <1>7, <1>8 DEF e, root

-----------------------------------------------------------------------------
(* Answers are kept.                                                       *)

\* The copy passed the check it was made with, and nothing but a failure of
\* the transport escapes from it.
Fitting ==
  /\ stage \in Calling => RequestFits(source)
  /\ escaping \in {"nothing", "call", "closing response", "closing connection"}

LEMMA FittingStep ==
  ASSUME Fitting, [Next]_vars
  PROVE  Fitting'
<1> USE DEF Fitting, Calling, objects, network, reading, ending, adapterVars
<1>1. CASE ValidateRequest
  BY <1>1 DEF ValidateRequest
<1>2. CASE SnapshotAttempt
  BY <1>2 DEF SnapshotAttempt
<1>3. CASE SnapshotRest
  <2>1. \/ stage' = "done"
        \/ stage' = "snapshot transport" /\ RequestFits(source')
    BY <1>3 DEF SnapshotRest, SnapshotFits
  <2>2. escaping' = escaping
    BY <1>3 DEF SnapshotRest
  <2> QED
    BY <2>1, <2>2
<1>4. CASE JudgeReply
  BY <1>4 DEF JudgeReply
<1>5. CASE TakeSnapshot /\ UNCHANGED adapterVars
  BY <1>5 DEF TakeSnapshot
<1>6. CASE Connect /\ UNCHANGED adapterVars
  BY <1>6 DEF Connect, Raises, Unwind
<1>7. CASE SendRequest /\ UNCHANGED adapterVars
  BY <1>7 DEF SendRequest, Raises, Unwind
<1>8. CASE GetResponse /\ UNCHANGED adapterVars
  BY <1>8 DEF GetResponse, Raises, Unwind
<1>9. CASE ReadStatus /\ UNCHANGED adapterVars
  BY <1>9, ZenonT(30) DEF ReadStatus, Raises, Unwind
<1>10. CASE ReadBody /\ UNCHANGED adapterVars
  BY <1>10 DEF ReadBody, Raises, Unwind
<1>11. CASE CloseResponse /\ UNCHANGED adapterVars
  BY <1>11 DEF CloseResponse
<1>12. CASE CloseConnection /\ UNCHANGED adapterVars
  BY <1>12 DEF CloseConnection
<1>13. CASE Others
  BY <1>13 DEF Others, ReplaceRequest, ReplaceOutgoing, Serve, ReplaceCredential, transportVars
<1>14. CASE UNCHANGED vars
  BY <1>14 DEF vars, transportVars
<1> QED
  BY <1>1, <1>2, <1>3, <1>4, <1>5, <1>6, <1>7, <1>8, <1>9, <1>10, <1>11, <1>12, <1>13, <1>14
  DEF Next, Step, AdapterStep, TransportStep

\* What AcceptedAnswersAreKept says of an outcome.
Kept(o) ==
  /\ o # Raised({"capture"})
  /\ o[1] = "captured" =>
       /\ DigestIssues(o[2]) = {} /\ Utf8Issues(o[2]) = {}
       /\ Len(o[2].raw_response.data) <= MaxResponseBytes

LEMMA FailuresAreKept ==
  ASSUME NEW codes, "capture" \notin codes
  PROVE  Kept(Raised(codes))
<1>1. Raised(codes)[1] = "raised" /\ Raised(codes)[2] = codes
  BY DEF Raised
<1>2. Raised({"capture"})[2] = {"capture"}
  BY DEF Raised
<1>3. codes # {"capture"}
  OBVIOUS
<1> QED
  BY <1>1, <1>2, <1>3 DEF Kept

LEMMA JudgementKeeps ==
  ASSUME Asking, Reading, Fitting, JudgeReply
  PROVE  Kept(outcome')
<1>1. stage = "return"
  BY DEF JudgeReply
<1>2. CASE escaping # "nothing"
  <2>1. outcome' = Raised({escaping}) /\ "capture" \notin {escaping}
    BY <1>2 DEF JudgeReply, Fitting
  <2> QED
    BY <2>1, FailuresAreKept
<1>3. CASE escaping = "nothing" /\ transport_failed
  <2>1. outcome' = Raised({"transport"}) /\ "capture" \notin {"transport"}
    BY <1>3 DEF JudgeReply
  <2>2. \A codes : "capture" \notin codes => Kept(Raised(codes))
    BY FailuresAreKept
  <2> QED
    BY <2>1, <2>2
<1>4. CASE escaping = "nothing" /\ ~ transport_failed /\ ReplyIssues # {}
  <2>1. outcome' = Raised(ReplyIssues)
    BY <1>4 DEF JudgeReply
  <2> QED
    BY <2>1, FailuresAreKept, RepliesBlameTheServer
<1>5. CASE escaping = "nothing" /\ ~ transport_failed /\ ReplyIssues = {}
  <2>1. /\ served \in Served /\ body = served.body /\ Len(served.body) <= MaxBodyBytes
        /\ body \in JsonText /\ ReplyRootIssues(Document[body]) = {}
    BY <1>1, <1>5, CapturedIsServed
  <2>2. Capturable(CapturedFacts)
    <3>1. RequestFits(source)
      BY <1>1 DEF Fitting, Calling
    <3> QED
      BY <2>1, <3>1, AnswersAreCapturable DEF CapturedFacts
  <2> DEFINE e == CaptureGeneration(CapturedFacts)
  <2>3. outcome' = CapturedEnvelope(e)
    BY <1>5, <2>2 DEF JudgeReply
  <2>4. /\ DigestIssues(e) = {} /\ Utf8Issues(e) = {}
        /\ Len(e.raw_response.data) <= MaxResponseBytes
    <3>1. Len(body) \in Nat
      BY <2>1, OllamaHttpAssumption
    <3> QED
      BY <2>1, <3>1, CapturesAreWhole DEF CapturedFacts
  <2> HIDE DEF e
  <2>5. outcome'[1] = "captured" /\ outcome'[2] = e
    BY <2>3 DEF CapturedEnvelope
  <2>6. outcome' # Raised({"capture"})
    BY <2>5 DEF Raised
  <2> QED
    BY <2>4, <2>5, <2>6 DEF Kept
<1> QED
  BY <1>2, <1>3, <1>4, <1>5

Keeping == Fitting /\ AcceptedAnswersAreKept

LEMMA KeepingIsKept == AcceptedAnswersAreKept <=> Kept(outcome)
  BY DEF AcceptedAnswersAreKept, Kept, HasCaptured

LEMMA KeepingStep ==
  ASSUME Invariant, Keeping, [Next]_vars
  PROVE  Keeping'
<1>1. Fitting'
  BY FittingStep DEF Keeping
<1>2. Kept(outcome)
  BY KeepingIsKept DEF Keeping
<1>3. ASSUME JudgeReply
      PROVE  Kept(outcome')
  BY <1>3, JudgementKeeps DEF Invariant, Keeping
<1>4. ASSUME outcome' = Raised({"invalid request"})
      PROVE  Kept(outcome')
  <2>1. \A codes : "capture" \notin codes => Kept(Raised(codes))
    BY FailuresAreKept
  <2> QED
    BY <1>4, <2>1
<1>5. ASSUME outcome' = outcome
      PROVE  Kept(outcome')
  BY <1>2, <1>5
<1>6. JudgeReply \/ outcome' = Raised({"invalid request"}) \/ outcome' = outcome
  BY DEF Next, Step, AdapterStep, ValidateRequest, SnapshotAttempt, SnapshotRest, adapterVars,
    Others, ReplaceRequest, ReplaceOutgoing, vars
<1>7. Kept(outcome')
  BY <1>3, <1>4, <1>5, <1>6
<1>8. AcceptedAnswersAreKept'
  BY <1>7 DEF AcceptedAnswersAreKept, Kept, HasCaptured
<1> QED
  BY <1>1, <1>8 DEF Keeping

(* What generate_ollama accepts of an answer, capture_generation and the   *)
(* content gates of extract_draft accept, for every request, every JSON    *)
(* text and every failure: the check of the copy makes its lineage and     *)
(* metadata right, the decoder's limits leave only scalar texts within     *)
(* the extractor's (AcceptedAnswersAreKept).                               *)
THEOREM AcceptedAnswersAreNotLost == Spec => []AcceptedAnswersAreKept
<1>1. Init => Keeping
  <2> SUFFICES ASSUME Init
               PROVE  Keeping
    OBVIOUS
  <2>1. Fitting
    BY DEF Init, TransportInit, Fitting, Calling
  <2>2. outcome = <<"none">>
    BY DEF Init, NoOutcome
  <2>3. outcome[1] = "none" /\ Raised({"capture"})[1] = "raised"
    BY <2>2 DEF Raised
  <2>4. Kept(outcome)
    BY <2>3 DEF Kept
  <2> QED
    BY <2>1, <2>4, KeepingIsKept DEF Keeping
<1>2. Invariant /\ Keeping /\ [Next]_vars => Keeping'
  BY KeepingStep
<1>3. Keeping => AcceptedAnswersAreKept
  BY DEF Keeping
<1> QED
  BY <1>1, <1>2, <1>3, InvariantHolds, PTL DEF Spec
=============================================================================
