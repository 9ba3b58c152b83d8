----------------------------- MODULE OllamaHttp -----------------------------
(***************************************************************************)
(* OllamaHttpTransport.__call__: one request over one connection, nothing  *)
(* retried, everything opened closed again.                                *)
(*                                                                         *)
(* Each step is one call into http.client and what the code does with its  *)
(* result: the call returns; or raises what the transport expects, OSError *)
(* (a timeout is one) or HTTPException; or raises something else, which    *)
(* passes through the finally clause.  A request that fails may have left. *)
(* The request object and the credential belong to others, who may replace *)
(* their fields while the call runs.  A body is a sequence of tokens.      *)
(***************************************************************************)
EXTENDS Naturals, Sequences, FiniteSetsExt

CONSTANTS
  Credentials,   \* the keys a transport may be given
  NoKey, BadKey, \* no key, and a key _validate_cloud_api_key refuses
  MaxBodyBytes,  \* _RESPONSE_BODY_BYTE_LIMIT
  Byte,          \* the tokens of a body
  Served         \* what a server may answer: a status, and what it sends of
                 \* a body before it closes

ASSUME OllamaHttpAssumption ==
  /\ MaxBodyBytes \in Nat
  /\ Served \subseteq [status : Nat, body : Seq(Byte)]

VARIABLES
  stage,       \* the next step of the call in progress
  outgoing,    \* the OllamaTransportRequest: its url and its body
  credential,  \* the key of the transport
  held,        \* the transport's snapshot of both
  connection, response,  \* "none", "open" or "closed"
  status, body,          \* as read
  transport_failed,
  escaping,    \* where an exception the transport does not expect came from
  wire,        \* the requests that left
  served       \* the answer of the server, if any

objects == <<outgoing, credential>>
network == <<wire, served>>
reading == <<connection, response, status, body>>
ending == <<transport_failed, escaping>>
transportVars == <<stage, objects, held, reading, ending, network>>

None == <<>>

TransportInit ==
  /\ outgoing = None /\ credential \in Credentials /\ held = None
  /\ connection = "none" /\ response = "none" /\ status = 0 /\ body = <<>>
  /\ transport_failed = FALSE /\ escaping = "nothing"
  /\ wire = <<>> /\ served = None

IsCloud(url) == url = "CLOUD"

\* The finally clause, where every failure goes.
UnwindConnectionOnly == "close connection"

Unwind == "close response"

RaisesAndReconnects(kind) ==
  /\ stage' = IF stage = "connect" /\ kind = "expected" THEN "snapshot transport" ELSE Unwind
  /\ IF kind = "expected" THEN transport_failed' = (stage # "connect") /\ UNCHANGED escaping
     ELSE escaping' = "call" /\ UNCHANGED transport_failed

Raises(kind) ==
  /\ stage' = Unwind
  /\ IF kind = "expected" THEN transport_failed' = TRUE /\ UNCHANGED escaping
     ELSE escaping' = "call" /\ UNCHANGED transport_failed

Failure == {"expected", "unexpected"}

-----------------------------------------------------------------------------

\* The key and the request are read once and checked; a cloud request needs
\* a key, any other goes without.
TakeSnapshot ==
  /\ stage = "snapshot transport"
  /\ held' = [url |-> outgoing.url, body |-> outgoing.body,
              key |-> IF IsCloud(outgoing.url) THEN credential ELSE NoKey]
  /\ IF credential = BadKey
     THEN stage' = "return" /\ escaping' = "call" /\ UNCHANGED transport_failed
     ELSE IF IsCloud(outgoing.url) /\ credential = NoKey
     THEN stage' = "return" /\ transport_failed' = TRUE /\ UNCHANGED escaping
     ELSE stage' = "connect" /\ UNCHANGED ending
  /\ UNCHANGED <<objects, reading, network>>

Connect ==
  /\ stage = "connect"
  /\ \/ stage' = "request" /\ connection' = "open" /\ UNCHANGED ending
     \/ \E f \in Failure : Raises(f) /\ UNCHANGED connection
  /\ UNCHANGED <<objects, held, response, status, body, network>>

Departing == [url |-> held.url, body |-> held.body, key |-> held.key]

SendRequest ==
  /\ stage = "request"
  /\ \/ stage' = "get response" /\ wire' = Append(wire, Departing) /\ UNCHANGED ending
     \/ \E f \in Failure : Raises(f) /\ wire' \in {wire, Append(wire, Departing)}
  /\ UNCHANGED <<objects, held, reading, served>>

GetResponse ==
  /\ stage = "get response"
  /\ \/ /\ served # None
        /\ stage' = "read status" /\ response' = "open" /\ UNCHANGED ending
     \/ \E f \in Failure : Raises(f) /\ UNCHANGED response
  /\ UNCHANGED <<objects, held, connection, status, body, network>>

ReadStatus ==
  /\ stage = "read status"
  /\ \/ /\ status' = served.status
        /\ IF served.status \in 100 .. 599
           THEN stage' = "read body" /\ UNCHANGED ending
           ELSE Raises("expected")
     \/ \E f \in Failure : Raises(f) /\ UNCHANGED status
  /\ UNCHANGED <<objects, held, connection, response, body, network>>

ReadLimitOfAdapter == MaxBodyBytes

\* One byte more than the adapter accepts.
ReadLimit == MaxBodyBytes + 1

\* read(limit) returns what was sent, without a complaint when that is less
\* than was announced.  That it returns bytes, and no more than the limit, is
\* http.client's contract: the checks of both are left out.
ReadBody ==
  /\ stage = "read body"
  /\ \/ /\ body' = SubSeq(served.body, 1, Min({Len(served.body), ReadLimit}))
        /\ stage' = Unwind /\ UNCHANGED ending
     \/ \E f \in Failure : Raises(f) /\ UNCHANGED body
  /\ UNCHANGED <<objects, held, connection, response, status, network>>

\* close() is called once on what was opened; an Exception it raises is
\* dropped, anything else leaves the finally clause at once.
CloseResponse ==
  /\ stage = "close response"
  /\ response' = IF response = "open" THEN "closed" ELSE response
  /\ \/ stage' = "close connection" /\ UNCHANGED escaping
     \/ response = "open" /\ stage' = "return" /\ escaping' = "closing response"
  /\ UNCHANGED <<objects, held, connection, status, body, transport_failed, network>>

CloseConnection ==
  /\ stage = "close connection"
  /\ connection' = IF connection = "open" THEN "closed" ELSE connection
  /\ stage' = "return"
  /\ \/ UNCHANGED escaping
     \/ connection = "open" /\ escaping' = "closing connection"
  /\ UNCHANGED <<objects, held, response, status, body, transport_failed, network>>

TransportStep ==
  \/ TakeSnapshot \/ Connect \/ SendRequest \/ GetResponse \/ ReadStatus
  \/ ReadBody \/ CloseResponse \/ CloseConnection

-----------------------------------------------------------------------------
(* The others: the server, and who else holds the objects.                 *)

Serve ==
  /\ wire # <<>> /\ served = None
  /\ served' \in Served
  /\ UNCHANGED <<stage, objects, held, reading, ending, wire>>

ReplaceCredential ==
  /\ credential' \in Credentials
  /\ UNCHANGED <<stage, outgoing, held, reading, ending, network>>

=============================================================================
