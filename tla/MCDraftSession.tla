--------------------------- MODULE MCDraftSession ---------------------------
(***************************************************************************)
(* Documents around one small draft: one record at a time is replaced by a *)
(* variant, in pairs of collections; all ways to link up to three rules    *)
(* with up to three requests; and variants of the whole text.              *)
(***************************************************************************)
EXTENDS DraftGrammar, MCDraftDocuments

MCMaxVersionText == <<2, 1>>

-----------------------------------------------------------------------------
(* What may stand in the place of a value, and of a record.                *)

WrongTexts == {String(""), String("long"), String("lone"), Null, List(<<>>), Number(<<1>>)}

WrongVersions ==
  {Number(<<0>>), Number(<<2, 2>>), Number(<<1, 0, 0>>), String("one"), Boolean(TRUE),
   Integer([negative |-> TRUE, digits |-> <<1>>])}

RefVariants ==
  {RefTo("b"), RefTo("r"), RefTo("q"), RefTo("nobody"), String("a"),
   Row([id |-> String("a")]), Object(Pairs([id |-> String("a"), version |-> Number(<<1>>)]), {"id"}),
   Row([id |-> String("a"), version |-> Number(<<1>>), kind |-> Null]),
   Row([id |-> String("a"), version |-> Number(<<1>>), status |-> Null]),
   Row([id |-> String("a"), version |-> Number(<<2>>)]),
   Row([id |-> String("reserved"), version |-> Number(<<1>>)])}

Replaced(row, field, values) == {Row([row EXCEPT ![field] = w]) : w \in values}

RowVariants(row) ==
  {Row(row), String("row"), Row([k \in DOMAIN row \ {"id"} |-> row[k]]),
   Row(row @@ [note |-> Null]), Row(row @@ [live |-> Boolean(TRUE)]),
   Object(Pairs(row), {"version"}), Object(Pairs(row) \cup {<<"id", Null>>}, {})}
    \cup Replaced(row, "id", WrongTexts \cup {String("a"), String("reserved")})
    \cup Replaced(row, "version", WrongVersions \cup {Number(<<2, 1>>), Number(<<9>>)})

HeadAtom == AtomRow("a", "claim", "here")
GoodAtom == AtomRow("b", "claim", "here")
GoodRule == RuleRow("r", "a", <<RefTo("b")>>, "q")
GoodRequest == RequestRow("q", "r")

AtomVariants ==
  RowVariants(GoodAtom)
    \cup Replaced(GoodAtom, "predicate", WrongTexts)
    \cup Replaced(GoodAtom, "frame", WrongTexts)
    \cup Replaced(GoodAtom, "grade", WrongTexts)
    \cup Replaced(GoodAtom, "args",
           {Null, List(<<>>), List(<<Null>>), List(<<List(<<List(<<>>)>>)>>),
            List([i \in 1 .. MaxMembers + 1 |-> String("x")])})

RuleVariants ==
  RowVariants(GoodRule)
    \cup Replaced(GoodRule, "head", RefVariants)
    \cup Replaced(GoodRule, "evidence_request", RefVariants)
    \cup Replaced(GoodRule, "positive",
           {Null, List(<<>>), List(<<RefTo("a"), RefTo("b")>>), List(<<RefTo("a"), RefTo("a")>>),
            List([i \in 1 .. MaxMembers + 1 |-> RefTo("a")])}
             \cup {List(<<v>>) : v \in RefVariants})

RequestVariants ==
  RowVariants(GoodRequest)
    \cup Replaced(GoodRequest, "kind", WrongTexts \cup {String("closure")})
    \cup Replaced(GoodRequest, "question", WrongTexts)
    \cup Replaced(GoodRequest, "subject", RefVariants)

MCRefs == <<"r", "s", "t">>
MCRequests == <<"q", "u", "w">>

(* A link is which request each rule uses and which rule each request asks *)
(* about.                                                                  *)
Links(m, n) == [1 .. m -> 1 .. n] \X [1 .. n -> 1 .. m]

Linked(uses, asks) ==
  RootRow(<<Row(HeadAtom)>>,
       [i \in DOMAIN uses |-> Row(RuleRow(MCRefs[i], "a", <<>>, MCRequests[uses[i]]))],
       [i \in DOMAIN asks |-> Row(RequestRow(MCRequests[i], MCRefs[asks[i]]))])

GoodRoot ==
  RootRow(<<Row(HeadAtom), Row(GoodAtom)>>, <<Row(GoodRule)>>, <<Row(GoodRequest)>>)

Wholes ==
  <<Row(GoodRoot), Row(RootRow(<<>>, <<>>, <<>>)), List(<<Row(GoodRoot)>>), String("draft"),
    Row(GoodRoot @@ [note |-> Null]), Row(GoodRoot @@ [base |-> Null]),
    Row(GoodRoot @@ [lone |-> Null]), Object(Pairs(GoodRoot), {"rules"}),
    Row([GoodRoot EXCEPT !.schema = Null]), Row([GoodRoot EXCEPT !.schema = String("pff/0.9")]),
    Row([GoodRoot EXCEPT !.atoms = Null]),
    Row([GoodRoot EXCEPT !.atoms = List([i \in 1 .. MaxMembers + 1 |-> Row(HeadAtom)])]),
    Row([GoodRoot EXCEPT !.evidence_requests = List(<<Row(GoodRequest), Row(GoodRequest)>>)]),
    Row([f \in DOMAIN GoodRoot \ {"schema"} |-> GoodRoot[f]]),
    Row([f \in DOMAIN GoodRoot \ {"atoms"} |-> GoodRoot[f]]),
    Row([f \in DOMAIN GoodRoot \ {"rules"} |-> GoodRoot[f]]),
    Row([f \in DOMAIN GoodRoot \ {"evidence_requests"} |-> GoodRoot[f]])>>

-----------------------------------------------------------------------------
(* A token of a response that stands for a JSON text names a variant of    *)
(* each collection, or a way of linking, or a variant of the whole.        *)

Listed(S) == FoldSet(LAMBDA x, listed : Append(listed, x), <<>>, S)

Atoms == Listed(AtomVariants)
Rules == Listed(RuleVariants)
Requests == Listed(RequestVariants)

Links3 == UNION {Links(m, n) : m, n \in 1 .. 3}

Named ==
  LET atoms == Atoms
      rules == Rules
      requests == Requests
      wholes == Wholes
      atom_rule == [a \in DOMAIN atoms, r \in DOMAIN rules |->
                      Row([GoodRoot EXCEPT !.atoms = List(<<Row(HeadAtom), atoms[a]>>),
                                           !.rules = List(<<rules[r]>>)])]
      rule_request == [r \in DOMAIN rules, q \in DOMAIN requests |->
                         Row([GoodRoot EXCEPT !.rules = List(<<rules[r]>>),
                                              !.evidence_requests = List(<<requests[q]>>)])]
  IN  [name \in {<<"atom-rule">> \o n : n \in DOMAIN atom_rule} |->
         atom_rule[name[2], name[3]]]
        @@ [name \in {<<"rule-request">> \o n : n \in DOMAIN rule_request} |->
              rule_request[name[2], name[3]]]
        @@ [name \in {<<"link">> \o l : l \in Links3} |-> Row(Linked(name[2], name[3]))]
        @@ [name \in {<<"whole", i>> : i \in DOMAIN wholes} |-> wholes[name[2]]]

CONSTANTS Prose, Blank  \* other text, and white space

Good == <<"whole", 1>>
Empty == <<"whole", 2>>

MCDocument ==
  LET named == Named
  IN  [p \in {<<name>> : name \in DOMAIN named} \cup {<<Blank, Good>>, <<Blank, Blank, Good>>} |->
         named[p[Len(p)]]]

Block(payload) == OpenMarker \o payload \o CloseMarker

Framings ==
  {<<>>, <<Good>>, OpenMarker \o <<Good>>, <<Good>> \o CloseMarker,
   CloseMarker \o <<Good>> \o OpenMarker, <<OpenText, Newline, CloseText>>,
   Block(<<>>), Block(<<Prose>>), Block(<<BadByte>>), Block(<<Good, Prose>>),
   <<BadByte, Newline>> \o Block(<<Good>>), <<Prose>> \o Block(<<Good>>),
   <<Prose, Newline>> \o Block(<<Good>>) \o <<Newline, Prose>>,
   Block(<<Good>>) \o <<Prose>>, Block(<<Good, Newline, Good>>),
   Block(<<Good>>) \o CloseMarker, OpenMarker \o Block(<<Good>>),
   Block(<<Blank, Good>>), Block(<<Blank, Blank, Good>>),
   <<Prose, Newline, Prose, Newline>> \o Block(<<Good>>)}

MCExchanges ==
  {<<<<Prose>>, Block(p)>> : p \in DOMAIN MCDocument} \cup ({<<Prose>>, <<Prose, Prose>>} \X Framings)

MCTampers == {<<"prompt", <<>>>>, <<"raw_response", Block(<<Good>>)>>}

=============================================================================
