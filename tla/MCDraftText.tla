---------------------------- MODULE MCDraftText ----------------------------
(* Every response of up to MaxTokens tokens and every JSON integer of up   *)
(* to MaxDigits digits, each grown one token or one digit at a time.       *)
EXTENDS DraftText

MCMaxVersionText == <<2, 1, 3>>

CONSTANTS Text, Digits, MaxTokens, MaxDigits

ASSUME MCDraftTextAssumption == Digits \subseteq 0 .. 9 /\ Text \notin {OpenText, CloseText, Newline}

VARIABLES data, number

textVars == <<data, number>>

NoNumber == [negative |-> FALSE, digits |-> <<>>]

TextInit == data = <<>> /\ number \in {NoNumber, [NoNumber EXCEPT !.negative = TRUE]}

Write(token) ==
  /\ number = NoNumber
  /\ Len(data) < MaxTokens
  /\ data' = Append(data, token)
  /\ UNCHANGED number

\* JSON has no leading zero.
WriteDigit(d) ==
  /\ data = <<>>
  /\ Len(number.digits) < MaxDigits /\ number.digits # <<0>>
  /\ number' = [number EXCEPT !.digits = Append(@, d)]
  /\ UNCHANGED data

TextNext ==
  \/ \E token \in {OpenText, CloseText, Newline, Text} : Write(token)
  \/ \E d \in Digits : WriteDigit(d)

TextSpec == TextInit /\ [][TextNext]_textVars

-----------------------------------------------------------------------------

\* The lines of a text, without their newlines.
Lines(text) ==
  FoldLeft(LAMBDA ls, t : IF t = Newline THEN Append(ls, <<>>)
                          ELSE [ls EXCEPT ![Len(ls)] = Append(@, t)],
           <<<<>>>>, text)

Joined(lines) ==
  FoldLeft(LAMBDA text, line : text \o <<Newline>> \o line, Head(lines), Tail(lines))

(* The block is the lines between the only opening line that has a line    *)
(* after it and the only closing line that has one before it, and there is *)
(* a block exactly when those two stand in that order with at least one    *)
(* line between them: _marker_positions and _delimited_payload, which work *)
(* on byte offsets, on markers that may share a newline, agree with that.  *)
BlockIsTheLinesBetween ==
  LET lines == Lines(data)
      opening == {i \in 1 .. Len(lines) - 1 : lines[i] = <<OpenText>>}
      closing == {i \in 2 .. Len(lines) : lines[i] = <<CloseText>>}
      blocks == {b \in opening \X closing :
                   opening = {b[1]} /\ closing = {b[2]} /\ b[1] + 1 < b[2]}
  IN  /\ BlockIssue(data) = {} <=> blocks # {}
      /\ \A b \in blocks : Payload(data) = Joined(SubSeq(lines, b[1] + 1, b[2] - 1))

(* A version is accepted exactly when its value lies in the range DraftRef *)
(* and the draft records require of it, although _version_value decides    *)
(* on the text, before any conversion.                                     *)
VersionTextIsRange ==
  number.digits # <<>> =>
    LET value == IntegerOf(number.digits)
    IN  VersionAccepted(number) <=>
          ~ number.negative /\ value >= 1 /\ value <= IntegerOf(MaxVersionText)

=============================================================================
