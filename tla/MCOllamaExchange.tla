-------------------------- MODULE MCOllamaExchange --------------------------
(***************************************************************************)
(* Requests of both endpoints and of right and wrong lineage, and answers: *)
(* complete ones, refused ones of every kind, and complete JSON texts that *)
(* white space carries to the limit, and beyond it.                        *)
(***************************************************************************)
EXTENDS OllamaExchange

CONSTANTS Blank, Key

MCMaxVersionText == <<1>>

Request(endpoint, attempt, relation, parent, prompt) ==
  [endpoint |-> endpoint, attempt |-> attempt, relation |-> relation, parent |-> parent,
   model |-> "model", prompt_template |-> "template", prompt |-> prompt]

MCRequests ==
  {Request("LOCAL", <<"s", 2>>, "RETRY", <<"s", 1>>, <<"p">>),
   Request("CLOUD", <<"s", 1>>, "INITIAL", NoParent, <<"q">>),
   Request("CLOUD", <<"s", 2>>, "REPAIR", <<"t", 1>>, <<"q">>),
   Request("LOCAL", <<"s", 1>>, "INITIAL", NoParent, <<BadByte>>)}

MCCredentials == {NoKey, Key, BadKey}

Row(row) == Object({<<k, row[k]>> : k \in DOMAIN row}, {})

Reply(text) == [model |-> String("model"), response |-> String(text), done |-> Boolean(TRUE)]

With(row, field, value) ==
  Row([f \in DOMAIN row \cup {field} |-> IF f = field THEN value ELSE row[f]])

Without(row, field) == Row([f \in DOMAIN row \ {field} |-> row[f]])

MCDocument ==
  LET good == Row(Reply("text"))
  IN  [b \in {<<"good">>, <<"good", Blank>>, <<"good", Blank, Blank>>,
              <<"good", Blank, Blank, Blank>>} |-> good]
  @@ (<<"head", "tail">> :> Row(Reply("words")))
  @@ (<<"empty">> :> Row(Reply("")))
  @@ (<<"reason">> :> With(Reply("text"), "done_reason", String("stop")))
  @@ (<<"null reason">> :> With(Reply("text"), "done_reason", Null))
  @@ (<<"long reason">> :> With(Reply("text"), "done_reason", String("long")))
  @@ (<<"more">> :> With(Reply("text"), "context", List(<<Null>>)))
  @@ (<<"going on">> :> With(Reply("text"), "done", Boolean(FALSE)))
  @@ (<<"error">> :> With(Reply("text"), "error", String("busy")))
  @@ (<<"empty error">> :> Row([error |-> String("")]))
  @@ (<<"no done">> :> Without(Reply("text"), "done"))
  @@ (<<"no text">> :> With(Reply("text"), "response", Null))
  @@ (<<"long model">> :> With(Reply("text"), "model", String("long")))
  @@ (<<"twice">> :> Object({<<f, Reply("text")[f]>> : f \in DOMAIN Reply("text")}, {"done"}))
  @@ (<<"surrogate">> :> Row(Reply("lone")))
  @@ (<<"deep">> :> With(Reply("text"), "context", List(<<List(<<List(<<>>)>>)>>)))
  @@ (<<"list">> :> List(<<good>>))

MCUtf8 ==
  ("text" :> <<"t">>) @@ ("words" :> <<"w", "w">>) @@ ("" :> <<>>)
  @@ [text \in {"model", "stop", "long", "busy"} |-> <<"x">>]

\* Some texts arrive cut short, or with more after them.
Bodies ==
  DOMAIN MCDocument
    \cup {<<>>, <<BadByte>>, <<"head">>, <<"good", "good">>, <<"good", Blank, "good">>}

MCByte == UNION {Range(b) : b \in Bodies}

MCServed ==
  {[status |-> 200, body |-> b] : b \in Bodies}
    \cup {[status |-> s, body |-> <<"good">>] : s \in {404, 600}}

=============================================================================
