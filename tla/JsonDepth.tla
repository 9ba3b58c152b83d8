----------------------------- MODULE JsonDepth -----------------------------
(***************************************************************************)
(* The nesting limit that guards json.loads is decided by a scan of the    *)
(* text, and the repository has two: _depth_exceeded of extract.py, which  *)
(* counts the backslashes before a quote, and _exceeds_json_depth of       *)
(* ollama.py, which remembers whether the last one escapes the next        *)
(* character.  The code gives them different texts: the second scans an    *)
(* HTTP body, the first the payload of a block in the response inside it.  *)
(* They are two implementations of one rule, so both are read against each *)
(* other here, on the same text and a character at a time.                 *)
(*                                                                         *)
(* The counts are unbounded in the code; the text is cut where a run of    *)
(* backslashes would exceed MaxBackslashes.                                *)
(***************************************************************************)
EXTENDS Naturals

CONSTANTS
  DepthLimit,     \* _JSON_DEPTH and _JSON_DEPTH_LIMIT
  MaxBackslashes  \* a bound of the model

ASSUME JsonDepthAssumption == DepthLimit \in Nat /\ MaxBackslashes \in Nat

Character == {"quote", "backslash", "open", "close", "other"}

VARIABLES
  extractor,  \* depth, in_string, backslashes and the result of _depth_exceeded
  adapter     \* depth, in_string, escaped and the result of _exceeds_json_depth

depthVars == <<extractor, adapter>>

CountingScan == [depth : Nat, in_string : BOOLEAN, backslashes : Nat, exceeded : BOOLEAN]

EscapingScan == [depth : Nat, in_string : BOOLEAN, escaped : BOOLEAN, exceeded : BOOLEAN]

(* The depth and the count of backslashes of either scan stay natural      *)
(* numbers on a text with more closing brackets than opening ones.         *)
DepthTypeOK == extractor \in CountingScan /\ adapter \in EscapingScan

DepthInit ==
  /\ extractor = [depth |-> 0, in_string |-> FALSE, backslashes |-> 0, exceeded |-> FALSE]
  /\ adapter = [depth |-> 0, in_string |-> FALSE, escaped |-> FALSE, exceeded |-> FALSE]

-----------------------------------------------------------------------------

OutsideUnguarded(scan, c) ==
  IF c = "quote" THEN [scan EXCEPT !.in_string = TRUE]
  ELSE IF c = "open"
  THEN IF scan.depth + 1 > DepthLimit
       THEN [scan EXCEPT !.depth = @ + 1, !.exceeded = TRUE]
       ELSE [scan EXCEPT !.depth = @ + 1]
  ELSE IF c = "close" THEN [scan EXCEPT !.depth = @ - 1]
  ELSE scan

\* Outside strings the two scans do the same.
Outside(scan, c) ==
  IF c = "quote" THEN [scan EXCEPT !.in_string = TRUE]
  ELSE IF c = "open"
  THEN IF scan.depth + 1 > DepthLimit
       THEN [scan EXCEPT !.depth = @ + 1, !.exceeded = TRUE]
       ELSE [scan EXCEPT !.depth = @ + 1]
  ELSE IF c = "close" /\ scan.depth > 0 THEN [scan EXCEPT !.depth = @ - 1]
  ELSE scan

CountingStep(scan, c) ==
  IF ~ scan.in_string THEN Outside(scan, c)
  ELSE IF c = "backslash" THEN [scan EXCEPT !.backslashes = @ + 1]
  ELSE [scan EXCEPT !.backslashes = 0,
                    !.in_string = ~ (c = "quote" /\ scan.backslashes % 2 = 0)]

EscapingStepWithoutReset(scan, c) ==
  IF ~ scan.in_string THEN Outside(scan, c)
  ELSE IF scan.escaped THEN [scan EXCEPT !.escaped = c # "quote"]
  ELSE [scan EXCEPT !.escaped = c = "backslash", !.in_string = c # "quote"]

EscapingStep(scan, c) ==
  IF ~ scan.in_string THEN Outside(scan, c)
  ELSE IF scan.escaped THEN [scan EXCEPT !.escaped = FALSE]
  ELSE [scan EXCEPT !.escaped = c = "backslash", !.in_string = c # "quote"]

\* A scan that has found the limit exceeded returns and reads no further.
Read(c) ==
  /\ ~ extractor.exceeded /\ ~ adapter.exceeded
  /\ c = "backslash" => extractor.backslashes < MaxBackslashes
  /\ extractor' = CountingStep(extractor, c)
  /\ adapter' = EscapingStep(adapter, c)

DepthNext == \E c \in Character : Read(c)

DepthSpec == DepthInit /\ [][DepthNext]_depthVars

-----------------------------------------------------------------------------

(* Given the same text, _depth_exceeded and _exceeds_json_depth give one   *)
(* verdict, and agree all along on where strings end: counting backslashes *)
(* and remembering the last one are the same rule.                         *)
ScannersAgree ==
  /\ extractor.exceeded <=> adapter.exceeded
  /\ extractor.in_string <=> adapter.in_string
  /\ extractor.depth = adapter.depth

=============================================================================
