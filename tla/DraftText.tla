----------------------------- MODULE DraftText -----------------------------
(***************************************************************************)
(* The two places where extract_draft reads text by position: the markers  *)
(* around a draft block, and the digits of a version.                      *)
(*                                                                         *)
(* A response is a sequence of tokens, each standing for a run of bytes:   *)
(* the text of an opening or a closing marker, a newline, or other text.   *)
(* Two markers of the source can overlap in the newline they share and in  *)
(* nothing else, which is all the tokens have to keep.  A version is the   *)
(* JSON integer the parser leaves unconverted: a sign and its digits.      *)
(***************************************************************************)
EXTENDS Naturals, Sequences, FiniteSets, SequencesExt

CONSTANTS
  OpenText, CloseText, Newline,  \* tokens
  MaxVersionText                 \* _MAX_VERSION_TEXT, as a sequence of digits

ASSUME DraftTextAssumption ==
  /\ OpenText # CloseText /\ Newline \notin {OpenText, CloseText}
  /\ MaxVersionText \in Seq(0 .. 9) /\ MaxVersionText # <<>> /\ MaxVersionText[1] # 0

OpenMarker == <<OpenText, Newline>>
CloseMarker == <<Newline, CloseText>>

OccursAt(data, marker, i) ==
  /\ i + Len(marker) - 1 <= Len(data)
  /\ \A k \in 1 .. Len(marker) : data[i + k - 1] = marker[k]

\* An opening marker starts its line, a closing marker ends its line.
Openers(data) ==
  {i \in 1 .. Len(data) :
     OccursAt(data, OpenMarker, i) /\ (i = 1 \/ data[i - 1] = Newline)}

Closers(data) ==
  {i \in 1 .. Len(data) :
     LET after == i + Len(CloseMarker)
     IN  OccursAt(data, CloseMarker, i) /\ (after > Len(data) \/ data[after] = Newline)}

PayloadStart(data) == (CHOOSE i \in Openers(data) : TRUE) + Len(OpenMarker)
PayloadEnd(data) == CHOOSE i \in Closers(data) : TRUE

BlockIssueUnordered(data) ==
  IF Cardinality(Openers(data)) > 1 \/ Cardinality(Closers(data)) > 1
  THEN {"DRAFT_BLOCK_MULTIPLE"}
  ELSE IF Openers(data) = {} /\ Closers(data) = {} THEN {"DRAFT_BLOCK_MISSING"}
  ELSE IF Openers(data) = {} THEN {"DRAFT_BLOCK_ORDER"}
  ELSE IF Closers(data) = {} THEN {"DRAFT_BLOCK_UNTERMINATED"}
  ELSE IF PayloadEnd(data) < PayloadStart(data) - Len(OpenMarker) THEN {"DRAFT_BLOCK_ORDER"}
  ELSE {}

\* What _delimited_payload objects to: no code, or one.
BlockIssue(data) ==
  IF Cardinality(Openers(data)) > 1 \/ Cardinality(Closers(data)) > 1
  THEN {"DRAFT_BLOCK_MULTIPLE"}
  ELSE IF Openers(data) = {} /\ Closers(data) = {} THEN {"DRAFT_BLOCK_MISSING"}
  ELSE IF Openers(data) = {} THEN {"DRAFT_BLOCK_ORDER"}
  ELSE IF Closers(data) = {} THEN {"DRAFT_BLOCK_UNTERMINATED"}
  ELSE IF PayloadEnd(data) < PayloadStart(data) THEN {"DRAFT_BLOCK_ORDER"}
  ELSE {}

Payload(data) == SubSeq(data, PayloadStart(data), PayloadEnd(data) - 1)

-----------------------------------------------------------------------------

\* The order of two texts of one length.
TextAfter(text, other) ==
  \E i \in DOMAIN text :
    text[i] > other[i] /\ \A j \in 1 .. i - 1 : text[j] = other[j]

VersionAcceptedByLength(number) ==
  /\ ~ number.negative
  /\ number.digits # <<0>>
  /\ Len(number.digits) <= Len(MaxVersionText)

VersionAccepted(number) ==
  /\ ~ number.negative
  /\ number.digits # <<0>>
  /\ Len(number.digits) <= Len(MaxVersionText)
  /\ Len(number.digits) = Len(MaxVersionText) => ~ TextAfter(number.digits, MaxVersionText)

IntegerOf(digits) == FoldLeft(LAMBDA n, d : 10 * n + d, 0, digits)

=============================================================================
