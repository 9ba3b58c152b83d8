---------------------------- MODULE TextScanProofs ----------------------------
(***************************************************************************)
(* What is decided by scanning a text, for every text: the two depth       *)
(* scanners agree whatever the limit, the digits of a version say whether  *)
(* its value is in range, whatever the greatest version, and the positions *)
(* of the markers say which lines of a response are the draft block.       *)
(***************************************************************************)
EXTENDS JsonDepth, JsonValue, MCDraftText, SequenceTheorems, FiniteSetTheorems,
        WellFoundedInduction, TLAPS

-----------------------------------------------------------------------------
(* The depth scanners.                                                     *)

\* What the two scanners remember of a run of backslashes is one parity, and
\* nothing is remembered outside a string.
SameMemory ==
  /\ adapter.escaped <=> extractor.backslashes % 2 = 1
  /\ ~ extractor.in_string => extractor.backslashes = 0

ScanInv == DepthTypeOK /\ ScannersAgree /\ SameMemory

LEMMA Parity ==
  ASSUME NEW n \in Nat
  PROVE  /\ 0 % 2 = 0
         /\ n % 2 = 0 => (n + 1) % 2 = 1
         /\ n % 2 = 1 => (n + 1) % 2 = 0
         /\ n % 2 \in {0, 1}
  OBVIOUS

LEMMA ScanInit == DepthInit => ScanInv
  BY Parity DEF DepthInit, ScanInv, DepthTypeOK, CountingScan, EscapingScan, ScannersAgree, SameMemory

LEMMA ScanStep == ScanInv /\ [DepthNext]_depthVars => ScanInv'
<1> SUFFICES ASSUME ScanInv, [DepthNext]_depthVars PROVE ScanInv'
  OBVIOUS
<1> USE JsonDepthAssumption
<1>1. ASSUME NEW c \in Character, Read(c) PROVE ScanInv'
  <2>0. /\ DepthTypeOK /\ ScannersAgree /\ SameMemory
        /\ extractor' = CountingStep(extractor, c)
        /\ adapter' = EscapingStep(adapter, c)
    BY <1>1 DEF ScanInv, Read
  <2> DEFINE n == extractor.backslashes
  <2>n. n \in Nat /\ extractor.depth \in Nat /\ adapter.depth \in Nat
    BY <2>0 DEF DepthTypeOK, CountingScan, EscapingScan
  <2>t. extractor \in CountingScan /\ adapter \in EscapingScan
    BY <2>0 DEF DepthTypeOK
  <2>p. /\ 0 % 2 = 0 /\ n % 2 \in {0, 1}
        /\ n % 2 = 0 => (n + 1) % 2 = 1
        /\ n % 2 = 1 => (n + 1) % 2 = 0
    BY <2>n, Parity
  <2>1. CASE ~ extractor.in_string
    <3>1. /\ ~ adapter.in_string
          /\ extractor' = Outside(extractor, c) /\ adapter' = Outside(adapter, c)
      BY <2>0, <2>1 DEF ScannersAgree, DepthTypeOK, CountingScan, EscapingScan, CountingStep, EscapingStep
    <3>2. extractor.backslashes = 0 /\ ~ adapter.escaped
      BY <2>0, <2>1, <2>p DEF SameMemory, DepthTypeOK, CountingScan, EscapingScan
    <3>3. CASE c = "quote"
      <4>1. /\ extractor' = [extractor EXCEPT !.in_string = TRUE]
            /\ adapter' = [adapter EXCEPT !.in_string = TRUE]
        BY <3>1, <3>3 DEF Outside
      <4>t. DepthTypeOK'
        <5>1. extractor' \in CountingScan
          BY <2>n, <2>t, <4>1 DEF CountingScan
        <5>2. adapter' \in EscapingScan
          BY <2>n, <2>t, <4>1 DEF EscapingScan
        <5> QED
          BY <5>1, <5>2 DEF DepthTypeOK
      <4>a. ScannersAgree'
        BY <2>0, <2>p, <3>2, <4>1 DEF DepthTypeOK, CountingScan, EscapingScan, ScannersAgree
      <4>m. SameMemory'
        BY <2>0, <2>p, <3>2, <4>1 DEF DepthTypeOK, CountingScan, EscapingScan, ScannersAgree, SameMemory
      <4> QED
        BY <4>t, <4>a, <4>m DEF ScanInv
    <3>4. CASE c = "open"
      <4>1. \/ /\ extractor' = [extractor EXCEPT !.depth = extractor.depth + 1, !.exceeded = TRUE]
               /\ adapter' = [adapter EXCEPT !.depth = adapter.depth + 1, !.exceeded = TRUE]
            \/ /\ extractor' = [extractor EXCEPT !.depth = extractor.depth + 1]
               /\ adapter' = [adapter EXCEPT !.depth = adapter.depth + 1]
        <5>1. adapter.depth = extractor.depth
          BY <2>0 DEF ScannersAgree
        <5>2. CASE extractor.depth + 1 > DepthLimit
          BY <3>1, <3>4, <5>1, <5>2 DEF Outside
        <5>3. CASE ~ (extractor.depth + 1 > DepthLimit)
          BY <3>1, <3>4, <5>1, <5>3 DEF Outside
        <5> QED
          BY <5>2, <5>3
      <4>2. DepthTypeOK'
        <5>1. extractor' \in CountingScan
          <6>1. extractor.depth + 1 \in Nat
            BY <2>n
          <6>2. /\ [extractor EXCEPT !.depth = extractor.depth + 1, !.exceeded = TRUE] \in CountingScan
                /\ [extractor EXCEPT !.depth = extractor.depth + 1] \in CountingScan
            BY <2>t, <6>1 DEF CountingScan
          <6> QED
            BY <4>1, <6>2
        <5>2. adapter' \in EscapingScan
          <6>1. adapter.depth + 1 \in Nat
            BY <2>n
          <6>2. /\ [adapter EXCEPT !.depth = adapter.depth + 1, !.exceeded = TRUE] \in EscapingScan
                /\ [adapter EXCEPT !.depth = adapter.depth + 1] \in EscapingScan
            BY <2>t, <6>1 DEF EscapingScan
          <6> QED
            BY <4>1, <6>2
        <5> QED
          BY <5>1, <5>2 DEF DepthTypeOK
      <4>3. ScannersAgree'
        <5>1. CASE /\ extractor' = [extractor EXCEPT !.depth = extractor.depth + 1, !.exceeded = TRUE]
                   /\ adapter' = [adapter EXCEPT !.depth = adapter.depth + 1, !.exceeded = TRUE]
          BY <2>0, <2>t, <5>1 DEF CountingScan, EscapingScan, ScannersAgree
        <5>2. CASE /\ extractor' = [extractor EXCEPT !.depth = extractor.depth + 1]
                   /\ adapter' = [adapter EXCEPT !.depth = adapter.depth + 1]
          BY <2>0, <2>t, <5>2 DEF CountingScan, EscapingScan, ScannersAgree
        <5> QED
          BY <4>1, <5>1, <5>2
      <4>4. SameMemory'
        BY <2>0, <4>1 DEF DepthTypeOK, CountingScan, EscapingScan, SameMemory
      <4> QED
        BY <4>2, <4>3, <4>4 DEF ScanInv
    <3>5. CASE c \notin {"quote", "open"}
      <4>1. CASE c = "close" /\ extractor.depth > 0
        <5>1. /\ extractor' = [extractor EXCEPT !.depth = extractor.depth - 1]
              /\ adapter' = [adapter EXCEPT !.depth = adapter.depth - 1]
          BY <2>0, <3>1, <3>5, <4>1 DEF Outside, ScannersAgree
        <5>2. extractor.depth \in Nat /\ adapter.depth = extractor.depth
          BY <2>0 DEF DepthTypeOK, CountingScan, EscapingScan, ScannersAgree
        <5>3. extractor.depth - 1 \in Nat
          BY <5>2, <4>1
        <5>t. DepthTypeOK'
          <6>1. extractor' \in CountingScan
            BY <2>n, <2>t, <5>1, <5>2, <5>3 DEF CountingScan
          <6>2. adapter' \in EscapingScan
            BY <2>n, <2>t, <5>1, <5>2, <5>3 DEF EscapingScan
          <6> QED
            BY <6>1, <6>2 DEF DepthTypeOK
        <5>a. ScannersAgree'
          BY <2>0, <5>1, <5>2, <5>3 DEF DepthTypeOK, CountingScan, EscapingScan, ScannersAgree
        <5>m. SameMemory'
          BY <2>0, <5>1, <5>2, <5>3 DEF DepthTypeOK, CountingScan, EscapingScan, ScannersAgree, SameMemory
        <5> QED
          BY <5>t, <5>a, <5>m DEF ScanInv
      <4>2. CASE ~ (c = "close" /\ extractor.depth > 0)
        <5>1. extractor' = extractor /\ adapter' = adapter
          BY <2>0, <3>1, <3>5, <4>2 DEF Outside, ScannersAgree
        <5>t. DepthTypeOK'
          <6>1. extractor' \in CountingScan
            BY <2>n, <2>t, <5>1 DEF CountingScan
          <6>2. adapter' \in EscapingScan
            BY <2>n, <2>t, <5>1 DEF EscapingScan
          <6> QED
            BY <6>1, <6>2 DEF DepthTypeOK
        <5>a. ScannersAgree'
          BY <2>0, <5>1 DEF DepthTypeOK, CountingScan, EscapingScan, ScannersAgree
        <5>m. SameMemory'
          BY <2>0, <5>1 DEF DepthTypeOK, CountingScan, EscapingScan, ScannersAgree, SameMemory
        <5> QED
          BY <5>t, <5>a, <5>m DEF ScanInv
      <4> QED
        BY <4>1, <4>2
    <3> QED
      BY <3>3, <3>4, <3>5
  <2>2. CASE extractor.in_string /\ c = "backslash"
    <3>1. extractor' = [extractor EXCEPT !.backslashes = n + 1]
      BY <2>0, <2>2 DEF CountingStep
    <3>2. adapter.in_string
      BY <2>0, <2>2 DEF ScannersAgree
    <3>3. CASE adapter.escaped
      <4>1. adapter' = [adapter EXCEPT !.escaped = FALSE]
        BY <2>0, <3>2, <3>3 DEF EscapingStep
      <4>t. DepthTypeOK'
        <5>1. extractor' \in CountingScan
          BY <2>n, <2>t, <3>1, <4>1 DEF CountingScan
        <5>2. adapter' \in EscapingScan
          BY <2>n, <2>t, <3>1, <4>1 DEF EscapingScan
        <5> QED
          BY <5>1, <5>2 DEF DepthTypeOK
      <4>a. ScannersAgree'
        BY <2>0, <2>2, <2>n, <2>p, <3>1, <3>3, <4>1 DEF DepthTypeOK, CountingScan, EscapingScan, ScannersAgree
      <4>m. SameMemory'
        BY <2>0, <2>2, <2>n, <2>p, <3>1, <3>3, <4>1 DEF DepthTypeOK, CountingScan, EscapingScan, ScannersAgree, SameMemory
      <4> QED
        BY <4>t, <4>a, <4>m DEF ScanInv
    <3>4. CASE ~ adapter.escaped
      <4>1. adapter' = [adapter EXCEPT !.escaped = TRUE, !.in_string = TRUE]
        BY <2>0, <2>2, <3>2, <3>4 DEF EscapingStep
      <4>t. DepthTypeOK'
        <5>1. extractor' \in CountingScan
          BY <2>n, <2>t, <3>1, <4>1 DEF CountingScan
        <5>2. adapter' \in EscapingScan
          BY <2>n, <2>t, <3>1, <4>1 DEF EscapingScan
        <5> QED
          BY <5>1, <5>2 DEF DepthTypeOK
      <4>a. ScannersAgree'
        BY <2>0, <2>2, <2>n, <2>p, <3>1, <3>2, <3>4, <4>1 DEF DepthTypeOK, CountingScan, EscapingScan, ScannersAgree
      <4>m. SameMemory'
        BY <2>0, <2>2, <2>n, <2>p, <3>1, <3>2, <3>4, <4>1 DEF DepthTypeOK, CountingScan, EscapingScan, ScannersAgree, SameMemory
      <4> QED
        BY <4>t, <4>a, <4>m DEF ScanInv
    <3> QED
      BY <3>3, <3>4
  <2>3. CASE extractor.in_string /\ c # "backslash"
    <3>1. adapter.in_string
      BY <2>0, <2>3 DEF ScannersAgree
    <3>2. adapter.escaped <=> n % 2 # 0
      BY <2>0, <2>p DEF SameMemory, DepthTypeOK, CountingScan, EscapingScan
    <3>3. CASE c = "quote" /\ ~ adapter.escaped
      <4>1. extractor' = [extractor EXCEPT !.backslashes = 0, !.in_string = FALSE]
        BY <2>0, <2>3, <3>2, <3>3 DEF CountingStep
      <4>2. adapter' = [adapter EXCEPT !.escaped = FALSE, !.in_string = FALSE]
        BY <2>0, <2>3, <3>1, <3>3 DEF EscapingStep
      <4>t. DepthTypeOK'
        <5>1. extractor' \in CountingScan
          BY <2>n, <2>t, <4>1, <4>2 DEF CountingScan
        <5>2. adapter' \in EscapingScan
          BY <2>n, <2>t, <4>1, <4>2 DEF EscapingScan
        <5> QED
          BY <5>1, <5>2 DEF DepthTypeOK
      <4>a. ScannersAgree'
        BY <2>0, <2>p, <4>1, <4>2 DEF DepthTypeOK, CountingScan, EscapingScan, ScannersAgree
      <4>m. SameMemory'
        BY <2>0, <2>p, <4>1, <4>2 DEF DepthTypeOK, CountingScan, EscapingScan, ScannersAgree, SameMemory
      <4> QED
        BY <4>t, <4>a, <4>m DEF ScanInv
    <3>4. CASE ~ (c = "quote" /\ ~ adapter.escaped)
      <4>1. extractor' = [extractor EXCEPT !.backslashes = 0, !.in_string = TRUE]
        BY <2>0, <2>3, <3>2, <3>4 DEF CountingStep
      <4>2. \/ adapter' = [adapter EXCEPT !.escaped = FALSE]
            \/ adapter' = [adapter EXCEPT !.escaped = FALSE, !.in_string = TRUE]
        BY <2>0, <2>3, <3>1, <3>4 DEF EscapingStep
      <4>t. DepthTypeOK'
        <5>1. extractor' \in CountingScan
          BY <2>n, <2>t, <3>1, <4>1, <4>2 DEF CountingScan
        <5>2. adapter' \in EscapingScan
          BY <2>n, <2>t, <3>1, <4>1, <4>2 DEF EscapingScan
        <5> QED
          BY <5>1, <5>2 DEF DepthTypeOK
      <4>a. ScannersAgree'
        BY <2>0, <2>3, <2>p, <3>1, <4>1, <4>2 DEF DepthTypeOK, CountingScan, EscapingScan, ScannersAgree
      <4>3. extractor'.backslashes = 0
        BY <2>t, <4>1 DEF CountingScan
      <4>4. ~ adapter'.escaped
        BY <2>t, <4>2 DEF EscapingScan
      <4>m. SameMemory'
        BY <2>p, <4>3, <4>4 DEF SameMemory
      <4> QED
        BY <4>t, <4>a, <4>m DEF ScanInv
    <3> QED
      BY <3>3, <3>4
  <2> QED
    BY <2>1, <2>2, <2>3
<1>2. CASE UNCHANGED depthVars
  BY <1>2 DEF depthVars, ScanInv, DepthTypeOK, CountingScan, EscapingScan, ScannersAgree, SameMemory
<1> QED
  BY <1>1, <1>2 DEF DepthNext

(* The counts of either scan stay natural numbers: the closing brackets a  *)
(* text may have too many of are not counted by _depth_exceeded nor by     *)
(* _exceeds_json_depth.                                                    *)
THEOREM ScansAreTyped == DepthSpec => []DepthTypeOK
<1>1. ScanInv => DepthTypeOK
  BY DEF ScanInv
<1> QED
  BY ScanInit, ScanStep, <1>1, PTL DEF DepthSpec

(* _depth_exceeded and _exceeds_json_depth agree on every prefix of every  *)
(* text, on whether it is inside a string, on its depth and on the limit.  *)
THEOREM ScannersAlwaysAgree == DepthSpec => []ScannersAgree
<1>1. ScanInv => ScannersAgree
  BY DEF ScanInv
<1> QED
  BY ScanInit, ScanStep, <1>1, PTL DEF DepthSpec

-----------------------------------------------------------------------------
(* The values of a JSON text.                                              *)

(* Induction over the naturals, for sets.                                  *)
LEMMA NatFromZero ==
  ASSUME NEW S, 0 \in S, \A n \in Nat : n \in S => n + 1 \in S
  PROVE  Nat \subseteq S
<1>1. SUFFICES ASSUME Nat \ S # {}
               PROVE  FALSE
  OBVIOUS
<1>2. PICK x \in Nat \ S : \A y \in Nat \ S : ~ (<<y, x>> \in OpToRel(<, Nat))
  <2>1. Nat \ S \subseteq Nat
    OBVIOUS
  <2> QED
    BY <1>1, <2>1, NatLessThanWellFounded, WFMin
<1>3. x # 0 /\ x - 1 \in Nat
  OBVIOUS
<1>4. x - 1 \in Nat \ S
  <2>1. x - 1 \in S => (x - 1) + 1 \in S
    BY <1>3
  <2> QED
    BY <1>3, <2>1
<1>5. <<x - 1, x>> \in OpToRel(<, Nat)
  BY <1>3 DEF OpToRel
<1> QED
  BY <1>2, <1>4, <1>5

\* f is the layers of a text down to the k-th.
LayersTo(f, root, k) ==
  /\ f = [n \in 0 .. JsonDepthLimit |-> f[n]]
  /\ f[0] = {root}
  /\ \A n \in 1 .. JsonDepthLimit : n <= k => f[n] = UNION {Within(v) : v \in f[n - 1]}

LEMMA LayersExist ==
  ASSUME NEW root
  PROVE  \E f : LayersTo(f, root, JsonDepthLimit)
<1> DEFINE Reached == {k \in Nat : \E f : LayersTo(f, root, k)}
<1>1. JsonDepthLimit \in Nat
  BY JsonValueAssumption
<1>2. 0 \in Reached
  <2> DEFINE f == [n \in 0 .. JsonDepthLimit |-> {root}]
  <2>1. LayersTo(f, root, 0)
    BY <1>1 DEF LayersTo
  <2> QED
    BY <2>1
<1>3. ASSUME NEW k \in Nat, k \in Reached
      PROVE  k + 1 \in Reached
  <2>1. PICK f : LayersTo(f, root, k)
    BY <1>3
  <2> DEFINE g == [n \in 0 .. JsonDepthLimit |->
                     IF n = k + 1 THEN UNION {Within(v) : v \in f[k]} ELSE f[n]]
  <2>2. g = [n \in 0 .. JsonDepthLimit |-> g[n]]
    OBVIOUS
  <2>3. g[0] = {root}
    <3>1. 0 \in 0 .. JsonDepthLimit /\ 0 # k + 1
      BY <1>1
    <3>2. g[0] = f[0]
      BY <3>1
    <3> QED
      BY <2>1, <3>2 DEF LayersTo
  <2>4. ASSUME NEW n \in 1 .. JsonDepthLimit, n <= k + 1
        PROVE  g[n] = UNION {Within(v) : v \in g[n - 1]}
    <3>1. n - 1 \in 0 .. JsonDepthLimit /\ n - 1 # k + 1 /\ n \in 0 .. JsonDepthLimit
      BY <1>1, <2>4
    <3>2. g[n - 1] = f[n - 1]
      BY <3>1
    <3>3. CASE n = k + 1
      <4>1. g[n] = UNION {Within(v) : v \in f[k]} /\ n - 1 = k
        BY <3>1, <3>3
      <4> QED
        BY <3>2, <4>1
    <3>4. CASE n # k + 1
      <4>1. g[n] = f[n] /\ n <= k
        BY <2>4, <3>1, <3>4
      <4>2. f[n] = UNION {Within(v) : v \in f[n - 1]}
        BY <2>1, <4>1 DEF LayersTo
      <4> QED
        BY <3>2, <4>1, <4>2
    <3> QED
      BY <3>3, <3>4
  <2>5. LayersTo(g, root, k + 1)
    <3> HIDE DEF g
    <3> QED
      BY <2>2, <2>3, <2>4 DEF LayersTo
  <2> QED
    BY <2>5
<1>4. Nat \subseteq Reached
  <2> HIDE DEF Reached
  <2> QED
    BY <1>2, <1>3, NatFromZero
<1> QED
  BY <1>1, <1>4

LEMMA LayersAre ==
  ASSUME NEW root
  PROVE  LayersTo(Layers(root), root, JsonDepthLimit)
<1> DEFINE Body(f) == [n \in 0 .. JsonDepthLimit |->
             IF n = 0 THEN {root} ELSE UNION {Within(v) : v \in f[n - 1]}]
<1>1. Layers(root) = CHOOSE f : f = Body(f)
  BY DEF Layers
<1>2. PICK f : LayersTo(f, root, JsonDepthLimit)
  BY LayersExist
<1>3. f = Body(f)
  <2>1. ASSUME NEW n \in 0 .. JsonDepthLimit
        PROVE  f[n] = Body(f)[n]
    <3>1. CASE n = 0
      <4>1. Body(f)[n] = {root}
        BY <3>1
      <4> QED
        BY <1>2, <3>1, <4>1 DEF LayersTo
    <3>2. CASE n # 0
      <4>1. n \in 1 .. JsonDepthLimit /\ n <= JsonDepthLimit
        BY <3>2, JsonValueAssumption
      <4>2. f[n] = UNION {Within(v) : v \in f[n - 1]}
        BY <1>2, <4>1 DEF LayersTo
      <4>3. Body(f)[n] = UNION {Within(v) : v \in f[n - 1]}
        BY <3>2
      <4> QED
        BY <4>2, <4>3
    <3> QED
      BY <3>1, <3>2
  <2>2. f = [n \in 0 .. JsonDepthLimit |-> f[n]]
    BY <1>2 DEF LayersTo
  <2> QED
    BY <2>1, <2>2
<1>4. Layers(root) = Body(Layers(root))
  <2> HIDE DEF Body
  <2> QED
    BY <1>1, <1>3
<1> DEFINE layer == Layers(root)
<1>5. layer = Body(layer)
  BY <1>4
<1> HIDE DEF layer
<1>6. layer = [n \in 0 .. JsonDepthLimit |-> layer[n]]
  BY <1>5
<1>7. layer[0] = {root}
  <2>1. 0 \in 0 .. JsonDepthLimit
    BY JsonValueAssumption
  <2>2. Body(layer)[0] = {root}
    BY <2>1
  <2> HIDE DEF Body
  <2> QED
    BY <1>5, <2>2
<1>8. ASSUME NEW n \in 1 .. JsonDepthLimit
      PROVE  layer[n] = UNION {Within(v) : v \in layer[n - 1]}
  <2>1. n \in 0 .. JsonDepthLimit /\ n # 0
    BY JsonValueAssumption
  <2>2. Body(layer)[n] = UNION {Within(v) : v \in layer[n - 1]}
    BY <2>1
  <2> HIDE DEF Body
  <2> QED
    BY <1>5, <2>2
<1>9. LayersTo(layer, root, JsonDepthLimit)
  BY <1>6, <1>7, <1>8 DEF LayersTo
<1> QED
  BY <1>9 DEF layer

LEMMA TopLayers ==
  ASSUME NEW root, ~ TooDeep(root), Container(root)
  PROVE  /\ JsonDepthLimit >= 1
         /\ {root} \cup Within(root) \subseteq Components(root)
<1>1. LayersTo(Layers(root), root, JsonDepthLimit) /\ JsonDepthLimit \in Nat
  BY LayersAre, JsonValueAssumption
<1>2. Layers(root)[0] = {root}
  BY <1>1 DEF LayersTo
<1>3. JsonDepthLimit >= 1
  BY <1>1, <1>2 DEF TooDeep
<1>4. Layers(root)[1] = UNION {Within(v) : v \in Layers(root)[0]}
  <2>1. 1 \in 1 .. JsonDepthLimit /\ 1 <= JsonDepthLimit /\ 1 - 1 = 0
    BY <1>1, <1>3
  <2> QED
    BY <1>1, <2>1 DEF LayersTo
<1>5. Layers(root)[1] = Within(root)
  BY <1>2, <1>4
<1> QED
  BY <1>1, <1>2, <1>3, <1>5 DEF Components

-----------------------------------------------------------------------------
(* Folding a sequence, a member at a time.                                 *)

(* A set of naturals has a least member.                                   *)
LEMMA LeastNatural ==
  ASSUME NEW S, S \subseteq Nat, S # {}
  PROVE  \E n \in S : \A m \in S : n <= m
<1>1. PICK n \in S : \A m \in S : ~ (<<m, n>> \in OpToRel(<, Nat))
  BY NatLessThanWellFounded, WFMin
<1>2. ASSUME NEW m \in S
      PROVE  n <= m
  <2>1. m < n => <<m, n>> \in OpToRel(<, Nat)
    BY DEF OpToRel
  <2>2. n \in Nat /\ m \in Nat
    OBVIOUS
  <2>3. ~ (<<m, n>> \in OpToRel(<, Nat))
    BY <1>1
  <2>4. ~ (m < n)
    BY <2>1, <2>3
  <2> QED
    BY <2>2, <2>4
<1> QED
  BY <1>2

\* A function folds s up to its k-th member, by a step that is itself a
\* function: the provers can instantiate these lemmas for each fold.
Folded(f, s, k, base, step) ==
  /\ f = [x \in SUBSET DOMAIN s |-> f[x]]
  /\ \A x \in SUBSET DOMAIN s : x \subseteq 1 .. k =>
       f[x] = IF x = {} THEN base ELSE step[<<f[x \ {Max(x)}], s[Max(x)]>>]

LEMMA MaxOfRange ==
  ASSUME NEW k \in Nat, NEW x, x \subseteq 1 .. k + 1, k + 1 \in x
  PROVE  Max(x) = k + 1
<1>1. \A y \in x : y \in Nat /\ k + 1 >= y
  OBVIOUS
<1>2. \A m \in x : (\A y \in x : m >= y) => m = k + 1
  BY <1>1
<1>3. Max(x) \in x /\ \A y \in x : Max(x) >= y
  BY <1>1 DEF Max
<1> QED
  BY <1>2, <1>3

LEMMA FoldExtends ==
  ASSUME NEW s, NEW base, NEW step, NEW k \in Nat, NEW f, Folded(f, s, k, base, step)
  PROVE  \E g : Folded(g, s, k + 1, base, step)
<1> DEFINE g == [x \in SUBSET DOMAIN s |->
                   IF x \subseteq 1 .. k THEN f[x]
                   ELSE step[<<f[x \ {Max(x)}], s[Max(x)]>>]]
<1>1. g = [x \in SUBSET DOMAIN s |-> g[x]]
  OBVIOUS
<1>2. \A x \in SUBSET DOMAIN s : x \subseteq 1 .. k => g[x] = f[x]
  OBVIOUS
<1>3. \A x \in SUBSET DOMAIN s : ~ (x \subseteq 1 .. k) =>
        g[x] = step[<<f[x \ {Max(x)}], s[Max(x)]>>]
  OBVIOUS
<1> HIDE DEF g
<1>4. ASSUME NEW x \in SUBSET DOMAIN s, x \subseteq 1 .. k + 1
      PROVE  g[x] = IF x = {} THEN base ELSE step[<<g[x \ {Max(x)}], s[Max(x)]>>]
  <2> DEFINE y == x \ {Max(x)}
  <2>1. y \in SUBSET DOMAIN s
    OBVIOUS
  <2>2. y \subseteq 1 .. k
    <3>1. CASE k + 1 \in x
      <4>1. Max(x) = k + 1
        BY <1>4, <3>1, MaxOfRange
      <4> QED
        BY <1>4, <4>1
    <3>2. CASE k + 1 \notin x
      BY <1>4, <3>2
    <3> QED
      BY <3>1, <3>2
  <2>3. g[y] = f[y]
    BY <1>2, <2>1, <2>2
  <2>4. CASE x \subseteq 1 .. k
    <3>1. f[x] = IF x = {} THEN base ELSE step[<<f[y], s[Max(x)]>>]
      BY <2>4 DEF Folded
    <3>2. g[x] = f[x]
      BY <1>2, <2>4
    <3> HIDE DEF y
    <3>3. g[x] = IF x = {} THEN base ELSE step[<<g[y], s[Max(x)]>>]
      BY <2>3, <3>1, <3>2
    <3> QED
      BY <3>3 DEF y
  <2>5. CASE ~ (x \subseteq 1 .. k)
    <3>1. x # {}
      BY <2>5
    <3>2. g[x] = step[<<f[y], s[Max(x)]>>]
      BY <1>3, <2>5
    <3> HIDE DEF y
    <3>3. g[x] = step[<<g[y], s[Max(x)]>>]
      BY <2>3, <3>2
    <3> QED
      BY <3>1, <3>3 DEF y
  <2> QED
    BY <2>4, <2>5
<1> QED
  BY <1>1, <1>4 DEF Folded

LEMMA FoldExists ==
  ASSUME NEW s, NEW base, NEW step, NEW k \in Nat
  PROVE  \E f : Folded(f, s, k, base, step)
<1> DEFINE S == {n \in Nat : ~ \E f : Folded(f, s, n, base, step)}
<1>1. SUFFICES ASSUME S # {}
               PROVE  FALSE
  OBVIOUS
<1>2. PICK n \in S : \A m \in S : n <= m
  <2>1. S \subseteq Nat
    OBVIOUS
  <2> HIDE DEF S
  <2> QED
    BY <1>1, <2>1, LeastNatural
<1>3. \E f : Folded(f, s, 0, base, step)
  <2> DEFINE f == [x \in SUBSET DOMAIN s |-> base]
  <2>1. f = [x \in SUBSET DOMAIN s |-> f[x]] /\ \A x \in SUBSET DOMAIN s : f[x] = base
    OBVIOUS
  <2>2. \A x : x \subseteq 1 .. 0 => x = {}
    OBVIOUS
  <2> HIDE DEF f
  <2>3. Folded(f, s, 0, base, step)
    BY <2>1, <2>2 DEF Folded
  <2> QED
    BY <2>3
<1>4. n # 0 /\ n \in Nat
  BY <1>3
<1>5. n - 1 \in Nat /\ n - 1 \notin S
  BY <1>2, <1>4
<1>6. PICK f : Folded(f, s, n - 1, base, step)
  BY <1>5
<1>7. \E g : Folded(g, s, (n - 1) + 1, base, step)
  BY <1>5, <1>6, FoldExtends
<1> QED
  BY <1>4, <1>7

LEMMA MaxOfRanges ==
  ASSUME NEW n \in Nat, NEW x \in SUBSET (1 .. n), x # {}
  PROVE  Max(x) \in x /\ \A y \in x : y <= Max(x)
<1> DEFINE S == {k \in Nat : \A y \in x : y <= k}
<1>1. n \in S
  OBVIOUS
<1>2. PICK m \in S : \A k \in S : m <= k
  <2>1. S \subseteq Nat /\ S # {}
    BY <1>1
  <2> HIDE DEF S
  <2> QED
    BY <2>1, LeastNatural
<1>3. m \in Nat /\ \A y \in x : y <= m
  BY <1>2
<1>4. m \in x
  <2>1. SUFFICES ASSUME m \notin x
                 PROVE  FALSE
    OBVIOUS
  <2>2. \A y \in x : y \in Nat /\ y # m /\ y # 0
    BY <2>1
  <2>3. m # 0
    <3>1. PICK y \in x : TRUE
      OBVIOUS
    <3>2. y \in Nat /\ y # 0 /\ y <= m
      BY <1>3, <2>2
    <3> QED
      BY <1>3, <3>2
  <2>4. \A y \in x : y <= m - 1
    BY <1>3, <2>2
  <2>5. m - 1 \in S
    BY <1>3, <2>3, <2>4
  <2> QED
    BY <1>2, <1>3, <2>5
<1>5. \A y \in x : m >= y
  BY <1>3
<1>6. Max(x) \in x /\ \A y \in x : Max(x) >= y
  BY <1>4, <1>5 DEF Max
<1> QED
  BY <1>6

\* The type of a fold is that of its step.
LEMMA FoldTyped ==
  ASSUME NEW A, NEW B, NEW s \in Seq(B), NEW base \in A, NEW step \in [A \X B -> A]
  PROVE  \E f \in [SUBSET DOMAIN s -> A] : Folded(f, s, Len(s), base, step)
<1>0. Len(s) \in Nat /\ DOMAIN s = 1 .. Len(s)
  OBVIOUS
<1>1. PICK f : Folded(f, s, Len(s), base, step)
  BY <1>0, FoldExists
<1>2. f = [x \in SUBSET DOMAIN s |-> f[x]]
  BY <1>1 DEF Folded
<1>3. \A x \in SUBSET DOMAIN s :
        f[x] = IF x = {} THEN base ELSE step[<<f[x \ {Max(x)}], s[Max(x)]>>]
  BY <1>0, <1>1 DEF Folded
<1> DEFINE S == {k \in Nat : \E x \in SUBSET DOMAIN s : x \subseteq 1 .. k /\ f[x] \notin A}
<1>4. S = {}
  <2>1. SUFFICES ASSUME S # {}
                 PROVE  FALSE
    OBVIOUS
  <2>2. PICK n \in S : \A m \in S : n <= m
    <3>1. S \subseteq Nat
      OBVIOUS
    <3> HIDE DEF S
    <3> QED
      BY <2>1, <3>1, LeastNatural
  <2>3. PICK x \in SUBSET DOMAIN s : x \subseteq 1 .. n /\ f[x] \notin A
    BY <2>2
  <2>4. n \in Nat /\ x # {}
    BY <1>3, <2>3
  <2>5. n # 0
    BY <2>3, <2>4
  <2>6. Max(x) \in x /\ \A y \in x : y <= Max(x)
    BY <2>3, <2>4, MaxOfRanges
  <2> DEFINE y == x \ {Max(x)}
  <2>7. y \in SUBSET DOMAIN s /\ y \subseteq 1 .. n - 1
    <3>1. \A z \in x : z \in Nat /\ z <= n
      BY <2>3, <2>4
    <3> QED
      BY <2>3, <2>4, <2>6, <3>1
  <2>8. n - 1 \in Nat /\ n - 1 \notin S
    BY <2>2, <2>4, <2>5
  <2>9. f[y] \in A
    BY <2>7, <2>8
  <2>10. s[Max(x)] \in B
    BY <2>6, <1>0
  <2>11. f[x] = step[<<f[y], s[Max(x)]>>]
    BY <1>3, <2>4
  <2> QED
    BY <2>3, <2>9, <2>10, <2>11
<1>5. \A x \in SUBSET DOMAIN s : f[x] \in A
  BY <1>0, <1>4
<1>6. f \in [SUBSET DOMAIN s -> A]
  BY <1>2, <1>5
<1> QED
  BY <1>1, <1>6

-----------------------------------------------------------------------------
(* The value of a version's text, a digit at a time.                       *)

Unfold(s) == CHOOSE f : f = [x \in SUBSET DOMAIN s |->
               IF x = {} THEN 0 ELSE 10 * f[x \ {Max(x)}] + s[Max(x)]]

LEMMA UnfoldFolds ==
  ASSUME NEW s \in Seq(0 .. 9)
  PROVE  \A x \in SUBSET DOMAIN s :
           Unfold(s)[x] = IF x = {} THEN 0 ELSE 10 * Unfold(s)[x \ {Max(x)}] + s[Max(x)]
<1> DEFINE Body(f) == [x \in SUBSET DOMAIN s |->
             IF x = {} THEN 0 ELSE 10 * f[x \ {Max(x)}] + s[Max(x)]]
           step == [p \in Nat \X (0 .. 9) |-> 10 * p[1] + p[2]]
<1>0. Len(s) \in Nat /\ DOMAIN s = 1 .. Len(s)
  OBVIOUS
<1>1. 0 \in Nat
  OBVIOUS
<1>2. step \in [Nat \X (0 .. 9) -> Nat]
  <2>1. \A n \in Nat, d \in 0 .. 9 : 10 * n + d \in Nat
    OBVIOUS
  <2> QED
    BY <2>1
<1>3. \A n \in Nat, d \in 0 .. 9 : step[<<n, d>>] = 10 * n + d
  OBVIOUS
<1> HIDE DEF step
<1>4. PICK f \in [SUBSET DOMAIN s -> Nat] : Folded(f, s, Len(s), 0, step)
  BY <1>1, <1>2, FoldTyped
<1>5. f = Body(f)
  <2>1. ASSUME NEW x \in SUBSET DOMAIN s
        PROVE  f[x] = IF x = {} THEN 0 ELSE 10 * f[x \ {Max(x)}] + s[Max(x)]
    <3>1. f[x] = IF x = {} THEN 0 ELSE step[<<f[x \ {Max(x)}], s[Max(x)]>>]
      BY <1>0, <1>4 DEF Folded
    <3>2. CASE x # {}
      <4>1. Max(x) \in x
        BY <1>0, <3>2, MaxOfRanges
      <4>2. s[Max(x)] \in 0 .. 9
        BY <1>0, <4>1
      <4>3. f[x \ {Max(x)}] \in Nat
        BY <1>4
      <4>4. step[<<f[x \ {Max(x)}], s[Max(x)]>>] = 10 * f[x \ {Max(x)}] + s[Max(x)]
        BY <1>3, <4>2, <4>3
      <4> QED
        BY <3>1, <3>2, <4>4
    <3> QED
      BY <3>1, <3>2
  <2> QED
    BY <2>1
<1>6. Unfold(s) = CHOOSE g : g = Body(g)
  BY DEF Unfold
<1>7. Unfold(s) = Body(Unfold(s))
  <2> HIDE DEF Body
  <2> QED
    BY <1>5, <1>6
<1> DEFINE u == Unfold(s)
<1>8. u = Body(u)
  BY <1>7
<1> HIDE DEF u
<1>9. \A x \in SUBSET DOMAIN s :
        Body(u)[x] = IF x = {} THEN 0 ELSE 10 * u[x \ {Max(x)}] + s[Max(x)]
  OBVIOUS
<1> HIDE DEF Body
<1>10. \A x \in SUBSET DOMAIN s :
        u[x] = IF x = {} THEN 0 ELSE 10 * u[x \ {Max(x)}] + s[Max(x)]
  BY <1>8, <1>9
<1> QED
  BY <1>10 DEF u

\* The values of the first digits of s.
Values(s) == [k \in 0 .. Len(s) |-> Unfold(s)[1 .. k]]

LEMMA PrefixValues ==
  ASSUME NEW s \in Seq(0 .. 9)
  PROVE  /\ IntegerOf(s) = Values(s)[Len(s)]
         /\ Values(s)[0] = 0
         /\ \A k \in 0 .. Len(s) - 1 : Values(s)[k + 1] = 10 * Values(s)[k] + s[k + 1]
<1>1. Len(s) \in Nat /\ DOMAIN s = 1 .. Len(s)
  OBVIOUS
<1>2. \A x \in SUBSET DOMAIN s :
        Unfold(s)[x] = IF x = {} THEN 0 ELSE 10 * Unfold(s)[x \ {Max(x)}] + s[Max(x)]
  BY UnfoldFolds
<1>3. \A k \in 0 .. Len(s) : Values(s)[k] = Unfold(s)[1 .. k]
  BY DEF Values
<1>4. IntegerOf(s) = Unfold(s)[DOMAIN s]
  BY DEF IntegerOf, FoldLeft, MapThenFoldSet, Unfold
<1>5. Values(s)[0] = 0
  <2>1. 1 .. 0 = {} /\ {} \in SUBSET DOMAIN s /\ 0 \in 0 .. Len(s)
    BY <1>1
  <2>2. Unfold(s)[{}] = 0
    BY <1>2, <2>1
  <2> QED
    BY <1>3, <2>1, <2>2
<1>6. ASSUME NEW k \in 0 .. Len(s) - 1
      PROVE  Values(s)[k + 1] = 10 * Values(s)[k] + s[k + 1]
  <2> DEFINE x == 1 .. k + 1
  <2>1. /\ k \in Nat /\ k \in 0 .. Len(s) /\ k + 1 \in 0 .. Len(s)
        /\ x \in SUBSET DOMAIN s /\ k + 1 \in x /\ x \subseteq 1 .. k + 1
        /\ x \ {k + 1} = 1 .. k
    BY <1>1
  <2>2. Max(x) = k + 1
    BY <2>1, MaxOfRange
  <2>3. Unfold(s)[x] = 10 * Unfold(s)[x \ {Max(x)}] + s[Max(x)]
    <3>1. x # {}
      BY <2>1
    <3> HIDE DEF x
    <3> QED
      BY <1>2, <2>1, <3>1
  <2>4. Unfold(s)[x] = 10 * Unfold(s)[1 .. k] + s[k + 1]
    BY <2>1, <2>2, <2>3
  <2> QED
    BY <1>3, <2>1, <2>4
<1> QED
  BY <1>1, <1>3, <1>4, <1>5, <1>6

LEMMA EachDigit ==
  ASSUME NEW s \in Seq(0 .. 9), NEW j \in 1 .. Len(s)
  PROVE  s[j] \in 0 .. 9
  OBVIOUS

LEMMA NextDigit ==
  ASSUME NEW a \in Nat, NEW b \in Nat, NEW c \in 0 .. 9, NEW e \in 0 .. 9
  PROVE  /\ 10 * a + c \in Nat
         /\ a > b => 10 * a + c > 10 * b + e
         /\ c > e => 10 * a + c > 10 * a + e
  OBVIOUS

LEMMA PrefixesAreNatural ==
  ASSUME NEW s \in Seq(0 .. 9)
  PROVE  \A k \in 0 .. Len(s) : Values(s)[k] \in Nat
<1> DEFINE v == Values(s)
           S == {k \in 0 .. Len(s) : v[k] \notin Nat}
<1>1. SUFFICES ASSUME S # {}
               PROVE  FALSE
  OBVIOUS
<1>2. PICK n \in S : \A m \in S : n <= m
  <2>1. S \subseteq Nat
    OBVIOUS
  <2> HIDE DEF S
  <2> QED
    BY <1>1, <2>1, LeastNatural
<1>3. v[0] = 0 /\ \A k \in 0 .. Len(s) - 1 : v[k + 1] = 10 * v[k] + s[k + 1]
  BY PrefixValues
<1> HIDE DEF v
<1>4. n # 0 /\ n \in 0 .. Len(s) /\ v[n] \notin Nat /\ Len(s) \in Nat
  BY <1>3
<1>5. n - 1 \in 0 .. Len(s) - 1 /\ (n - 1) + 1 = n /\ n - 1 \in 0 .. Len(s)
  BY <1>4
<1>6. v[n - 1] \in Nat
  BY <1>2, <1>4, <1>5
<1>7. v[n] = 10 * v[n - 1] + s[n]
  BY <1>3, <1>5
<1>8. s[n] \in 0 .. 9
  BY <1>4
<1>9. 10 * v[n - 1] + s[n] \in Nat
  BY <1>6, <1>8, NextDigit
<1> QED
  BY <1>4, <1>7, <1>9

(* Once the value is ahead, no digits behind it make up for that: x is     *)
(* ahead of y from the d-th on, at places a distance apart.                *)
LEMMA AheadStaysAhead ==
  ASSUME NEW x \in Seq(0 .. 9), NEW y \in Seq(0 .. 9),
         NEW n \in Nat, NEW d \in Nat, n + d <= Len(x), n <= Len(y),
         NEW i \in 0 .. n, Values(x)[i + d] > Values(y)[i]
  PROVE  Values(x)[n + d] > Values(y)[n]
<1> DEFINE v == Values(x)
           w == Values(y)
           S == {k \in i .. n : ~ (v[k + d] > w[k])}
<1>1. /\ \A k \in 0 .. Len(x) - 1 : v[k + 1] = 10 * v[k] + x[k + 1]
      /\ \A k \in 0 .. Len(y) - 1 : w[k + 1] = 10 * w[k] + y[k + 1]
      /\ \A k \in 0 .. Len(x) : v[k] \in Nat
      /\ \A k \in 0 .. Len(y) : w[k] \in Nat
  BY PrefixValues, PrefixesAreNatural
<1> HIDE DEF v, w
<1>2. v[i + d] > w[i]
  BY DEF v, w
<1>3. SUFFICES ASSUME S # {}
               PROVE  FALSE
  <2>1. n \in i .. n /\ n \notin S => v[n + d] > w[n]
    OBVIOUS
  <2> HIDE DEF S
  <2> QED
    BY <2>1 DEF v, w
<1>4. PICK k \in S : \A m \in S : k <= m
  <2>1. S \subseteq Nat
    OBVIOUS
  <2> HIDE DEF S
  <2> QED
    BY <1>3, <2>1, LeastNatural
<1>5. k # i /\ k \in i .. n /\ ~ (v[k + d] > w[k])
  BY <1>2
<1>6. /\ k - 1 \in i .. n /\ k - 1 \in 0 .. Len(y) - 1 /\ (k - 1) + d \in 0 .. Len(x) - 1
      /\ (k - 1) + 1 = k /\ ((k - 1) + d) + 1 = k + d
      /\ k \in 1 .. Len(y) /\ k + d \in 1 .. Len(x)
      /\ k - 1 \in 0 .. Len(y) /\ (k - 1) + d \in 0 .. Len(x)
  BY <1>5
<1>7. v[(k - 1) + d] > w[k - 1]
  BY <1>4, <1>5, <1>6
<1>8. v[k + d] = 10 * v[(k - 1) + d] + x[k + d] /\ w[k] = 10 * w[k - 1] + y[k]
  BY <1>1, <1>6
<1>9. x[k + d] \in 0 .. 9 /\ y[k] \in 0 .. 9
  BY <1>6, EachDigit
<1>10. v[(k - 1) + d] \in Nat /\ w[k - 1] \in Nat
  BY <1>1, <1>6
<1>11. 10 * v[(k - 1) + d] + x[k + d] > 10 * w[k - 1] + y[k]
  BY <1>7, <1>9, <1>10, NextDigit
<1> QED
  BY <1>5, <1>8, <1>11

(* Texts that agree so far have one value so far.                          *)
LEMMA AgreeingSoFar ==
  ASSUME NEW x \in Seq(0 .. 9), NEW y \in Seq(0 .. 9), NEW n \in Nat,
         n <= Len(x), n <= Len(y), \A j \in 1 .. n : x[j] = y[j]
  PROVE  Values(x)[n] = Values(y)[n]
<1> DEFINE v == Values(x)
           w == Values(y)
           S == {k \in 0 .. n : v[k] # w[k]}
<1>1. /\ v[0] = 0 /\ \A k \in 0 .. Len(x) - 1 : v[k + 1] = 10 * v[k] + x[k + 1]
      /\ w[0] = 0 /\ \A k \in 0 .. Len(y) - 1 : w[k + 1] = 10 * w[k] + y[k + 1]
  BY PrefixValues
<1> HIDE DEF v, w
<1>2. SUFFICES ASSUME S # {}
               PROVE  FALSE
  <2>1. n \in 0 .. n /\ n \notin S => v[n] = w[n]
    OBVIOUS
  <2> HIDE DEF S
  <2> QED
    BY <2>1 DEF v, w
<1>3. PICK k \in S : \A m \in S : k <= m
  <2>1. S \subseteq Nat
    OBVIOUS
  <2> HIDE DEF S
  <2> QED
    BY <1>2, <2>1, LeastNatural
<1>4. k # 0 /\ k \in 0 .. n /\ v[k] # w[k]
  BY <1>1
<1>5. /\ k - 1 \in 0 .. n /\ k - 1 \in 0 .. Len(y) - 1 /\ k - 1 \in 0 .. Len(x) - 1
      /\ (k - 1) + 1 = k /\ k \in 1 .. n
  BY <1>4
<1>6. v[k - 1] = w[k - 1]
  BY <1>3, <1>4, <1>5
<1>7. v[k] = 10 * v[k - 1] + x[k] /\ w[k] = 10 * w[k - 1] + y[k]
  BY <1>1, <1>5
<1>8. x[k] = y[k]
  BY <1>5
<1> QED
  BY <1>4, <1>6, <1>7, <1>8

-----------------------------------------------------------------------------
(* Comparing texts and comparing values.                                   *)

LEMMA TextOrderIsNumeric ==
  ASSUME NEW x \in Seq(0 .. 9), NEW y \in Seq(0 .. 9), Len(x) = Len(y), TextAfter(x, y)
  PROVE  IntegerOf(x) > IntegerOf(y)
<1> DEFINE v == Values(x)
           w == Values(y)
<1>1. PICK i \in DOMAIN x : x[i] > y[i] /\ \A j \in 1 .. i - 1 : x[j] = y[j]
  BY DEF TextAfter
<1>2. /\ Len(x) \in Nat /\ i \in 1 .. Len(x) /\ i - 1 \in Nat /\ (i - 1) + 1 = i
      /\ i - 1 \in 0 .. Len(x) - 1 /\ i - 1 \in 0 .. Len(x) /\ i \in 0 .. Len(x)
      /\ x[i] \in 0 .. 9 /\ y[i] \in 0 .. 9
  OBVIOUS
<1>3. v[i - 1] = w[i - 1]
  <2>1. i - 1 <= Len(x) /\ i - 1 <= Len(y)
    BY <1>2
  <2> QED
    BY <1>1, <1>2, <2>1, AgreeingSoFar
<1>4. /\ v[i] = 10 * v[i - 1] + x[i] /\ w[i] = 10 * w[i - 1] + y[i]
      /\ w[i - 1] \in Nat
      /\ IntegerOf(x) = v[Len(x)] /\ IntegerOf(y) = w[Len(x)]
  BY <1>2, PrefixValues, PrefixesAreNatural
<1> HIDE DEF v, w
<1>5. v[i] > w[i]
  <2>1. 10 * w[i - 1] + x[i] > 10 * w[i - 1] + y[i]
    BY <1>1, <1>2, <1>4, NextDigit
  <2> QED
    BY <1>3, <1>4, <2>1
<1>6. i + 0 = i /\ Len(x) + 0 = Len(x) /\ 0 \in Nat
  BY <1>2
<1>7. Values(x)[i + 0] > Values(y)[i]
  BY <1>5, <1>6 DEF v, w
<1>8. Values(x)[Len(x) + 0] > Values(y)[Len(x)]
  <2>1. Len(x) + 0 <= Len(x) /\ Len(x) <= Len(y)
    BY <1>2
  <2> QED
    BY <1>2, <1>6, <1>7, <2>1, AheadStaysAhead
<1> QED
  BY <1>4, <1>6, <1>8 DEF v, w

LEMMA NotAfterIsAtMost ==
  ASSUME NEW x \in Seq(0 .. 9), NEW y \in Seq(0 .. 9), Len(x) = Len(y), ~ TextAfter(x, y)
  PROVE  IntegerOf(x) <= IntegerOf(y)
<1> DEFINE S == {i \in 1 .. Len(x) : x[i] # y[i]}
<1>1. Len(x) \in Nat /\ DOMAIN x = 1 .. Len(x) /\ DOMAIN y = 1 .. Len(x)
  OBVIOUS
<1>2. IntegerOf(x) \in Nat /\ IntegerOf(y) \in Nat
  BY <1>1, PrefixValues, PrefixesAreNatural
<1>3. CASE S = {}
  <2>1. \A j \in 1 .. Len(x) : x[j] = y[j]
    BY <1>3
  <2>2. Values(x)[Len(x)] = Values(y)[Len(x)]
    BY <1>1, <2>1, AgreeingSoFar
  <2>3. IntegerOf(x) = IntegerOf(y)
    BY <1>1, <2>2, PrefixValues
  <2> QED
    BY <1>2, <2>3
<1>4. CASE S # {}
  <2>1. PICK i \in S : \A m \in S : i <= m
    <3>1. S \subseteq Nat
      OBVIOUS
    <3> HIDE DEF S
    <3> QED
      BY <1>4, <3>1, LeastNatural
  <2>2. i \in DOMAIN x /\ i \in DOMAIN y /\ x[i] # y[i] /\ x[i] \in 0 .. 9 /\ y[i] \in 0 .. 9
    BY <1>1
  <2>3. \A j \in 1 .. i - 1 : x[j] = y[j]
    BY <1>1, <2>1
  <2>4. ~ (x[i] > y[i])
    BY <2>2, <2>3 DEF TextAfter
  <2>5. TextAfter(y, x)
    BY <2>2, <2>3, <2>4 DEF TextAfter
  <2>6. IntegerOf(y) > IntegerOf(x)
    BY <2>5, TextOrderIsNumeric
  <2> QED
    BY <1>2, <2>6
<1> QED
  BY <1>3, <1>4

LEMMA LeadingDigit ==
  ASSUME NEW x \in Seq(0 .. 9), x # <<>>, x[1] # 0, NEW k \in 1 .. Len(x)
  PROVE  Values(x)[k] >= 1
<1> DEFINE zeros == [j \in 1 .. k - 1 |-> 0]
<1>1. Len(x) \in Nat /\ k - 1 \in Nat /\ (k - 1) + 1 = k /\ 0 + 1 = 1 /\ 1 \in 1 .. Len(x)
  OBVIOUS
<1>2. zeros \in Seq(0 .. 9) /\ Len(zeros) = k - 1
  BY <1>1
<1> HIDE DEF zeros
<1>3. Values(x)[1] > 0
  <2>1. Values(x)[0 + 1] = 10 * Values(x)[0] + x[0 + 1] /\ Values(x)[0] = 0
    BY <1>1, PrefixValues
  <2>2. x[1] \in 0 .. 9
    BY <1>1
  <2> QED
    BY <1>1, <2>1, <2>2
<1>4. Values(zeros)[0] = 0
  BY <1>2, PrefixValues
<1>5. Values(x)[0 + 1] > Values(zeros)[0]
  BY <1>1, <1>3, <1>4
<1>6. Values(x)[(k - 1) + 1] > Values(zeros)[k - 1]
  <2>1. (k - 1) + 1 <= Len(x) /\ k - 1 <= Len(zeros) /\ 0 \in 0 .. k - 1 /\ 1 \in Nat
    BY <1>1, <1>2
  <2> QED
    BY <1>1, <1>2, <1>5, <2>1, AheadStaysAhead
<1>7. Values(zeros)[k - 1] \in Nat /\ Values(x)[k] \in Nat
  BY <1>1, <1>2, PrefixesAreNatural
<1> QED
  BY <1>1, <1>6, <1>7

LEMMA LongerIsGreater ==
  ASSUME NEW x \in Seq(0 .. 9), NEW y \in Seq(0 .. 9), Len(x) < Len(y), y[1] # 0
  PROVE  IntegerOf(y) > IntegerOf(x)
<1> DEFINE d == Len(y) - Len(x)
<1>1. /\ Len(x) \in Nat /\ Len(y) \in Nat /\ d \in 1 .. Len(y) /\ d \in Nat
      /\ Len(x) + d = Len(y) /\ 0 + d = d /\ y # <<>>
  OBVIOUS
<1> HIDE DEF d
<1>2. Values(y)[0 + d] > Values(x)[0]
  <2>1. Values(y)[d] >= 1
    BY <1>1, LeadingDigit
  <2>2. Values(x)[0] = 0 /\ Values(y)[d] \in Nat
    BY <1>1, PrefixValues, PrefixesAreNatural
  <2> QED
    BY <1>1, <2>1, <2>2
<1>3. Values(y)[Len(x) + d] > Values(x)[Len(x)]
  <2>1. Len(x) + d <= Len(y) /\ Len(x) <= Len(x) /\ 0 \in 0 .. Len(x)
    BY <1>1
  <2> QED
    BY <1>1, <1>2, <2>1, AheadStaysAhead
<1> QED
  BY <1>1, <1>3, PrefixValues

\* A JSON integer: its digits have no leading zero.
JsonInteger(n) ==
  /\ n \in [negative : BOOLEAN, digits : Seq(0 .. 9)]
  /\ n.digits # <<>> /\ n.digits[1] = 0 => n.digits = <<0>>

LEMMA VersionIsInRange ==
  ASSUME NEW n, JsonInteger(n), n.digits # <<>>
  PROVE  VersionAccepted(n) <=>
           /\ ~ n.negative /\ IntegerOf(n.digits) >= 1
           /\ IntegerOf(n.digits) <= IntegerOf(MaxVersionText)
<1> DEFINE x == n.digits
           y == MaxVersionText
<1>1. /\ x \in Seq(0 .. 9) /\ y \in Seq(0 .. 9) /\ Len(x) \in Nat /\ Len(y) \in Nat
      /\ x # <<>> /\ y # <<>> /\ y[1] # 0 /\ n.negative \in BOOLEAN
      /\ x[1] = 0 => x = <<0>>
  BY DraftTextAssumption DEF JsonInteger
<1> HIDE DEF x, y
<1>2. VersionAccepted(n) <=>
        /\ ~ n.negative /\ x # <<0>> /\ Len(x) <= Len(y)
        /\ Len(x) = Len(y) => ~ TextAfter(x, y)
  BY DEF VersionAccepted, x, y
<1>3. IntegerOf(x) \in Nat /\ IntegerOf(y) \in Nat
  BY SMTT(30), <1>1, PrefixValues, PrefixesAreNatural
<1>4. x # <<0>> <=> IntegerOf(x) >= 1
  <2>1. CASE x = <<0>>
    <3>1. Len(x) = 1 /\ x[1] = 0 /\ 0 \in 0 .. Len(x) - 1 /\ 0 + 1 = 1
      BY <2>1
    <3>2. IntegerOf(x) = Values(x)[1]
      BY <1>1, <3>1, PrefixValues
    <3>3. Values(x)[0 + 1] = 10 * Values(x)[0] + x[0 + 1] /\ Values(x)[0] = 0
      BY <1>1, <3>1, PrefixValues
    <3>4. IntegerOf(x) = 0
      BY <3>1, <3>2, <3>3
    <3> QED
      BY <2>1, <3>4
  <2>2. CASE x # <<0>>
    <3>1. x[1] # 0 /\ Len(x) \in 1 .. Len(x)
      BY <1>1, <2>2
    <3>2. Values(x)[Len(x)] >= 1
      BY <1>1, <3>1, LeadingDigit
    <3> QED
      BY <1>1, <2>2, <3>2, PrefixValues
  <2> QED
    BY <2>1, <2>2
<1>5. CASE Len(x) < Len(y)
  <2>1. IntegerOf(y) > IntegerOf(x)
    BY <1>1, <1>5, LongerIsGreater
  <2>2. IntegerOf(x) <= IntegerOf(y) /\ Len(x) <= Len(y) /\ Len(x) # Len(y)
    BY <1>1, <1>3, <1>5, <2>1
  <2> QED
    BY <1>2, <1>4, <2>2 DEF x, y
<1>6. CASE Len(x) = Len(y)
  <2>1. TextAfter(x, y) => IntegerOf(x) > IntegerOf(y)
    BY <1>1, <1>6, TextOrderIsNumeric
  <2>2. ~ TextAfter(x, y) => IntegerOf(x) <= IntegerOf(y)
    BY <1>1, <1>6, NotAfterIsAtMost
  <2>3. ~ TextAfter(x, y) <=> IntegerOf(x) <= IntegerOf(y)
    BY <1>3, <2>1, <2>2
  <2>4. Len(x) <= Len(y)
    BY <1>1, <1>6
  <2> QED
    BY <1>2, <1>4, <1>6, <2>3, <2>4 DEF x, y
<1>7. CASE Len(x) > Len(y)
  <2>1. x # <<0>> => IntegerOf(x) > IntegerOf(y)
    <3>1. x # <<0>> => x[1] # 0 /\ Len(y) < Len(x)
      BY <1>1, <1>7
    <3>2. x[1] # 0 /\ Len(y) < Len(x) => IntegerOf(x) > IntegerOf(y)
      BY <1>1, LongerIsGreater
    <3> QED
      BY <3>1, <3>2
  <2>2. x # <<0>> => ~ (IntegerOf(x) <= IntegerOf(y))
    BY <1>3, <2>1
  <2>3. ~ (Len(x) <= Len(y))
    BY <1>1, <1>7
  <2> QED
    BY <1>2, <1>4, <2>2, <2>3 DEF x, y
<1> QED
  BY <1>1, <1>5, <1>6, <1>7

(* A version is accepted exactly when its value is in range, for every     *)
(* integer and every greatest version: that texts of one length are        *)
(* ordered as their values are, and a longer one without a leading zero is *)
(* greater, is the argument that lets _version_value decide before any     *)
(* conversion (VersionTextIsRange).                                        *)
THEOREM VersionsAreDecidedByText == TextSpec => []VersionTextIsRange
<1>1. TextInit => JsonInteger(number)
  <2> SUFFICES ASSUME TextInit
               PROVE  JsonInteger(number)
    OBVIOUS
  <2>1. \/ number = [negative |-> FALSE, digits |-> <<>>]
        \/ number = [negative |-> TRUE, digits |-> <<>>]
    BY DEF TextInit, NoNumber
  <2>2. number.digits = <<>> /\ number \in [negative : BOOLEAN, digits : Seq(0 .. 9)]
    <3>1. \A b \in BOOLEAN :
            LET n == [negative |-> b, digits |-> <<>>]
            IN  n.digits = <<>> /\ n \in [negative : BOOLEAN, digits : Seq(0 .. 9)]
      OBVIOUS
    <3>2. \E b \in BOOLEAN : number = [negative |-> b, digits |-> <<>>]
      BY <2>1
    <3> QED
      BY <3>1, <3>2
  <2> QED
    BY <2>2 DEF JsonInteger
<1>2. JsonInteger(number) /\ [TextNext]_textVars => JsonInteger(number)'
  <2> SUFFICES ASSUME JsonInteger(number), [TextNext]_textVars
               PROVE  JsonInteger(number)'
    OBVIOUS
  <2>1. CASE number' = number
    BY <2>1 DEF JsonInteger
  <2>2. ASSUME NEW d \in Digits, WriteDigit(d)
        PROVE  JsonInteger(number)'
    <3> DEFINE x == number.digits
    <3>1. /\ number \in [negative : BOOLEAN, digits : Seq(0 .. 9)]
          /\ number' = [number EXCEPT !.digits = Append(x, d)] /\ x # <<0>>
          /\ d \in 0 .. 9 /\ x \in Seq(0 .. 9)
          /\ x # <<>> /\ x[1] = 0 => x = <<0>>
      BY <2>2, MCDraftTextAssumption DEF WriteDigit, JsonInteger
    <3>2. number'.digits = Append(x, d)
      BY <3>1
    <3>3. number' \in [negative : BOOLEAN, digits : Seq(0 .. 9)]
      <4>1. Append(x, d) \in Seq(0 .. 9)
        BY <3>1
      <4> QED
        BY <3>1, <4>1
    <3> HIDE DEF x
    <3>4. Append(x, d)[1] = 0 => Append(x, d) = <<0>>
      <4>1. CASE x = <<>>
        BY <4>1
      <4>2. CASE x # <<>>
        BY <3>1, <4>2
      <4> QED
        BY <4>1, <4>2
    <3> QED
      BY <3>2, <3>3, <3>4 DEF JsonInteger
  <2> QED
    BY <2>1, <2>2 DEF TextNext, textVars, Write
<1>3. JsonInteger(number) => VersionTextIsRange
  BY VersionIsInRange DEF VersionTextIsRange
<1> QED
  BY <1>1, <1>2, <1>3, PTL DEF TextSpec

-----------------------------------------------------------------------------
(* The lines of a text, a token at a time.                                 *)

LinesThen(ls, t) ==
  IF t = Newline THEN Append(ls, <<>>) ELSE [ls EXCEPT ![Len(ls)] = Append(@, t)]

LinesOf(T) == Seq(Seq(T)) \ {<<>>}

LEMMA LinesThenTyped ==
  ASSUME NEW T, NEW ls \in LinesOf(T), NEW t \in T
  PROVE  LinesThen(ls, t) \in LinesOf(T)
<1>1. ls \in Seq(Seq(T)) /\ ls # <<>> /\ Len(ls) \in Nat /\ Len(ls) \in 1 .. Len(ls)
  <2>1. ls \in Seq(Seq(T)) /\ ls # <<>>
    BY DEF LinesOf
  <2> QED
    BY <2>1, EmptySeq
<1>2. CASE t = Newline
  <2>1. <<>> \in Seq(T)
    OBVIOUS
  <2>2. Append(ls, <<>>) \in Seq(Seq(T)) /\ Append(ls, <<>>) # <<>>
    BY <1>1, <2>1, AppendProperties
  <2> QED
    BY <1>2, <2>2 DEF LinesThen, LinesOf
<1>3. CASE t # Newline
  <2>1. ls[Len(ls)] \in Seq(T)
    BY <1>1, ElementOfSeq
  <2>2. Append(ls[Len(ls)], t) \in Seq(T)
    BY <2>1
  <2> DEFINE next == [ls EXCEPT ![Len(ls)] = Append(ls[Len(ls)], t)]
  <2>3. next \in Seq(Seq(T)) /\ Len(next) = Len(ls)
    BY <1>1, <2>2, ExceptSeq
  <2>4. LinesThen(ls, t) = next
    BY <1>3 DEF LinesThen
  <2> HIDE DEF next
  <2>5. next # <<>>
    BY <1>1, <2>3
  <2> QED
    BY <2>3, <2>4, <2>5 DEF LinesOf
<1> QED
  BY <1>2, <1>3

UnfoldLines(s) == CHOOSE f : f = [x \in SUBSET DOMAIN s |->
                    IF x = {} THEN <<<<>>>> ELSE LinesThen(f[x \ {Max(x)}], s[Max(x)])]

LEMMA UnfoldLinesFolds ==
  ASSUME NEW T, NEW s \in Seq(T)
  PROVE  \A x \in SUBSET DOMAIN s :
           UnfoldLines(s)[x] = IF x = {} THEN <<<<>>>>
                               ELSE LinesThen(UnfoldLines(s)[x \ {Max(x)}], s[Max(x)])
<1> DEFINE Body(f) == [x \in SUBSET DOMAIN s |->
             IF x = {} THEN <<<<>>>> ELSE LinesThen(f[x \ {Max(x)}], s[Max(x)])]
           step == [p \in LinesOf(T) \X T |-> LinesThen(p[1], p[2])]
<1>0. Len(s) \in Nat /\ DOMAIN s = 1 .. Len(s)
  OBVIOUS
<1>1. <<<<>>>> \in LinesOf(T)
  <2>1. <<>> \in Seq(T)
    OBVIOUS
  <2>2. <<<<>>>> \in Seq(Seq(T)) /\ Len(<<<<>>>>) = 1
    BY <2>1
  <2> QED
    BY <2>2 DEF LinesOf
<1>2. step \in [LinesOf(T) \X T -> LinesOf(T)]
  BY LinesThenTyped
<1>3. \A ls \in LinesOf(T), t \in T : step[<<ls, t>>] = LinesThen(ls, t)
  OBVIOUS
<1> HIDE DEF step
<1>4. PICK f \in [SUBSET DOMAIN s -> LinesOf(T)] : Folded(f, s, Len(s), <<<<>>>>, step)
  BY <1>1, <1>2, FoldTyped
<1>5. f = Body(f)
  <2>1. ASSUME NEW x \in SUBSET DOMAIN s
        PROVE  f[x] = IF x = {} THEN <<<<>>>> ELSE LinesThen(f[x \ {Max(x)}], s[Max(x)])
    <3>1. f[x] = IF x = {} THEN <<<<>>>> ELSE step[<<f[x \ {Max(x)}], s[Max(x)]>>]
      BY <1>0, <1>4 DEF Folded
    <3>2. CASE x # {}
      <4>1. Max(x) \in x
        BY <1>0, <3>2, MaxOfRanges
      <4>2. s[Max(x)] \in T /\ f[x \ {Max(x)}] \in LinesOf(T)
        BY <1>0, <4>1
      <4> QED
        BY <1>3, <3>1, <3>2, <4>2
    <3> QED
      BY <3>1, <3>2
  <2> QED
    BY <2>1
<1>6. UnfoldLines(s) = CHOOSE g : g = Body(g)
  BY DEF UnfoldLines
<1>7. UnfoldLines(s) = Body(UnfoldLines(s))
  <2> HIDE DEF Body
  <2> QED
    BY <1>5, <1>6
<1> DEFINE u == UnfoldLines(s)
<1>8. u = Body(u)
  BY <1>7
<1> HIDE DEF u
<1>9. \A x \in SUBSET DOMAIN s :
        Body(u)[x] = IF x = {} THEN <<<<>>>> ELSE LinesThen(u[x \ {Max(x)}], s[Max(x)])
  OBVIOUS
<1> HIDE DEF Body
<1>10. \A x \in SUBSET DOMAIN s :
        u[x] = IF x = {} THEN <<<<>>>> ELSE LinesThen(u[x \ {Max(x)}], s[Max(x)])
  BY <1>8, <1>9
<1> QED
  BY <1>10 DEF u

\* The lines of the first tokens of s.
LinesSoFar(s) == [k \in 0 .. Len(s) |-> UnfoldLines(s)[1 .. k]]

LEMMA PrefixLines ==
  ASSUME NEW T, NEW s \in Seq(T)
  PROVE  /\ Lines(s) = LinesSoFar(s)[Len(s)]
         /\ LinesSoFar(s)[0] = <<<<>>>>
         /\ \A k \in 0 .. Len(s) - 1 :
              LinesSoFar(s)[k + 1] = LinesThen(LinesSoFar(s)[k], s[k + 1])
<1>1. Len(s) \in Nat /\ DOMAIN s = 1 .. Len(s)
  OBVIOUS
<1>2. \A x \in SUBSET DOMAIN s :
        UnfoldLines(s)[x] = IF x = {} THEN <<<<>>>>
                            ELSE LinesThen(UnfoldLines(s)[x \ {Max(x)}], s[Max(x)])
  BY UnfoldLinesFolds
<1>3. \A k \in 0 .. Len(s) : LinesSoFar(s)[k] = UnfoldLines(s)[1 .. k]
  BY DEF LinesSoFar
<1>4. Lines(s) = UnfoldLines(s)[DOMAIN s]
  BY DEF Lines, FoldLeft, MapThenFoldSet, UnfoldLines, LinesThen
<1>5. LinesSoFar(s)[0] = <<<<>>>>
  <2>1. 1 .. 0 = {} /\ {} \in SUBSET DOMAIN s /\ 0 \in 0 .. Len(s)
    BY <1>1
  <2>2. UnfoldLines(s)[{}] = <<<<>>>>
    BY <1>2, <2>1
  <2> QED
    BY <1>3, <2>1, <2>2
<1>6. ASSUME NEW k \in 0 .. Len(s) - 1
      PROVE  LinesSoFar(s)[k + 1] = LinesThen(LinesSoFar(s)[k], s[k + 1])
  <2> DEFINE x == 1 .. k + 1
  <2>1. /\ k \in Nat /\ k \in 0 .. Len(s) /\ k + 1 \in 0 .. Len(s)
        /\ x \in SUBSET DOMAIN s /\ k + 1 \in x /\ x \subseteq 1 .. k + 1
        /\ x \ {k + 1} = 1 .. k
    BY <1>1
  <2>2. Max(x) = k + 1
    BY <2>1, MaxOfRange
  <2>3. UnfoldLines(s)[x] = LinesThen(UnfoldLines(s)[x \ {Max(x)}], s[Max(x)])
    <3>1. x # {}
      BY <2>1
    <3> HIDE DEF x
    <3> QED
      BY <1>2, <2>1, <3>1
  <2>4. UnfoldLines(s)[x] = LinesThen(UnfoldLines(s)[1 .. k], s[k + 1])
    BY <2>1, <2>2, <2>3
  <2> QED
    BY <1>3, <2>1, <2>4
<1> QED
  BY <1>1, <1>3, <1>4, <1>5, <1>6

-----------------------------------------------------------------------------
(* Joining lines, a line at a time.                                        *)

WithLine(text, line) == text \o <<Newline>> \o line

UnfoldJoined(first, rest) == CHOOSE f : f = [x \in SUBSET DOMAIN rest |->
                    IF x = {} THEN first ELSE WithLine(f[x \ {Max(x)}], rest[Max(x)])]

JoinedSoFar(first, rest) == [k \in 0 .. Len(rest) |-> UnfoldJoined(first, rest)[1 .. k]]

Joining(u, first, rest) ==
  \A x \in SUBSET DOMAIN rest :
    u[x] = IF x = {} THEN first ELSE WithLine(u[x \ {Max(x)}], rest[Max(x)])

LEMMA UnfoldJoinedFolds ==
  ASSUME NEW T, Newline \in T, NEW first \in Seq(T), NEW rest \in Seq(Seq(T))
  PROVE  Joining(UnfoldJoined(first, rest), first, rest)
<1> DEFINE Body(f) == [x \in SUBSET DOMAIN rest |->
             IF x = {} THEN first ELSE WithLine(f[x \ {Max(x)}], rest[Max(x)])]
           step == [p \in Seq(T) \X Seq(T) |-> WithLine(p[1], p[2])]
<1>0. Len(rest) \in Nat /\ DOMAIN rest = 1 .. Len(rest)
  BY LenProperties
<1>2. step \in [Seq(T) \X Seq(T) -> Seq(T)]
  <2>1. ASSUME NEW a \in Seq(T), NEW b \in Seq(T)
        PROVE  WithLine(a, b) \in Seq(T)
    <3>1. <<Newline>> \in Seq(T)
      OBVIOUS
    <3>2. a \o <<Newline>> \in Seq(T)
      BY <3>1, ConcatProperties
    <3>3. (a \o <<Newline>>) \o b \in Seq(T)
      BY <3>2, ConcatProperties
    <3> QED
      BY <3>3 DEF WithLine
  <2> QED
    BY <2>1
<1>3. \A a \in Seq(T), b \in Seq(T) : step[<<a, b>>] = WithLine(a, b)
  OBVIOUS
<1> HIDE DEF step
<1>4. PICK f \in [SUBSET DOMAIN rest -> Seq(T)] : Folded(f, rest, Len(rest), first, step)
  BY <1>2, FoldTyped
<1>5. f = Body(f)
  <2>1. ASSUME NEW x \in SUBSET DOMAIN rest
        PROVE  f[x] = IF x = {} THEN first ELSE WithLine(f[x \ {Max(x)}], rest[Max(x)])
    <3>1. f[x] = IF x = {} THEN first ELSE step[<<f[x \ {Max(x)}], rest[Max(x)]>>]
      BY <1>0, <1>4 DEF Folded
    <3>2. CASE x # {}
      <4>1. Max(x) \in x
        BY <1>0, <3>2, MaxOfRanges
      <4>2. rest[Max(x)] \in Seq(T)
        <5>1. Max(x) \in 1 .. Len(rest)
          BY <1>0, <4>1
        <5> QED
          BY <5>1, ElementOfSeq
      <4>3. f[x \ {Max(x)}] \in Seq(T)
        BY <1>4
      <4> QED
        BY <1>3, <3>1, <3>2, <4>2, <4>3
    <3> QED
      BY <3>1, <3>2
  <2> QED
    BY <2>1
<1>6. UnfoldJoined(first, rest) = CHOOSE g : g = Body(g)
  BY DEF UnfoldJoined
<1>7. UnfoldJoined(first, rest) = Body(UnfoldJoined(first, rest))
  <2> HIDE DEF Body
  <2> QED
    BY <1>5, <1>6
<1> DEFINE u == UnfoldJoined(first, rest)
<1>8. u = Body(u)
  BY <1>7
<1> HIDE DEF u
<1>9. \A x \in SUBSET DOMAIN rest :
        Body(u)[x] = IF x = {} THEN first ELSE WithLine(u[x \ {Max(x)}], rest[Max(x)])
  OBVIOUS
<1> HIDE DEF Body
<1>10. \A x \in SUBSET DOMAIN rest :
        u[x] = IF x = {} THEN first ELSE WithLine(u[x \ {Max(x)}], rest[Max(x)])
  BY <1>8, <1>9
<1> QED
  BY <1>10 DEF u, Joining

JoinsEach(v, first, rest) ==
  /\ UnfoldJoined(first, rest)[DOMAIN rest] = v[Len(rest)]
  /\ v[0] = first
  /\ \A k \in 0 .. Len(rest) - 1 : v[k + 1] = WithLine(v[k], rest[k + 1])

LEMMA PrefixJoins ==
  ASSUME NEW T, Newline \in T, NEW first \in Seq(T), NEW rest \in Seq(Seq(T))
  PROVE  JoinsEach(JoinedSoFar(first, rest), first, rest)
<1>1. Len(rest) \in Nat /\ DOMAIN rest = 1 .. Len(rest)
  BY LenProperties
<1>2. \A x \in SUBSET DOMAIN rest :
        UnfoldJoined(first, rest)[x] =
          IF x = {} THEN first
          ELSE WithLine(UnfoldJoined(first, rest)[x \ {Max(x)}], rest[Max(x)])
  <2>0. Newline \in T
    OBVIOUS
  <2>1. Joining(UnfoldJoined(first, rest), first, rest)
    BY <2>0, UnfoldJoinedFolds
  <2> QED
    BY <2>1 DEF Joining
<1>3. \A k \in 0 .. Len(rest) : JoinedSoFar(first, rest)[k] = UnfoldJoined(first, rest)[1 .. k]
  BY DEF JoinedSoFar
<1>4. JoinedSoFar(first, rest)[0] = first
  <2>1. 1 .. 0 = {} /\ {} \in SUBSET DOMAIN rest /\ 0 \in 0 .. Len(rest)
    BY <1>1
  <2>2. UnfoldJoined(first, rest)[{}] = first
    BY <1>2, <2>1
  <2> QED
    BY <1>3, <2>1, <2>2
<1>5. ASSUME NEW k \in 0 .. Len(rest) - 1
      PROVE  JoinedSoFar(first, rest)[k + 1] = WithLine(JoinedSoFar(first, rest)[k], rest[k + 1])
  <2> DEFINE x == 1 .. k + 1
  <2>1. /\ k \in Nat /\ k \in 0 .. Len(rest) /\ k + 1 \in 0 .. Len(rest)
        /\ x \in SUBSET DOMAIN rest /\ k + 1 \in x /\ x \subseteq 1 .. k + 1
        /\ x \ {k + 1} = 1 .. k
    BY <1>1
  <2>2. Max(x) = k + 1
    BY <2>1, MaxOfRange
  <2>3. UnfoldJoined(first, rest)[x] = WithLine(UnfoldJoined(first, rest)[x \ {Max(x)}], rest[Max(x)])
    <3>1. x # {}
      BY <2>1
    <3> HIDE DEF x
    <3> QED
      BY <1>2, <2>1, <3>1
  <2>4. UnfoldJoined(first, rest)[x] = WithLine(UnfoldJoined(first, rest)[1 .. k], rest[k + 1])
    BY <2>1, <2>2, <2>3
  <2> QED
    BY <1>3, <2>1, <2>4
<1> QED
  BY <1>1, <1>3, <1>4, <1>5 DEF JoinsEach

LEMMA PrefixJoined ==
  ASSUME NEW T, Newline \in T, NEW ls \in Seq(Seq(T)), ls # <<>>
  PROVE  \E j : /\ Joined(ls) = j[Len(ls)]
                /\ j[1] = ls[1]
                /\ \A k \in 1 .. Len(ls) - 1 : j[k + 1] = WithLine(j[k], ls[k + 1])
<1>1. /\ Head(ls) \in Seq(T) /\ Tail(ls) \in Seq(Seq(T)) /\ Len(Tail(ls)) = Len(ls) - 1
      /\ \A i \in 1 .. Len(Tail(ls)) : Tail(ls)[i] = ls[i + 1]
  BY HeadTailProperties
<1>2. Len(ls) \in Nat /\ Len(ls) # 0 /\ Head(ls) = ls[1]
  BY EmptySeq
<1> DEFINE v == JoinedSoFar(Head(ls), Tail(ls))
           j == [k \in 1 .. Len(ls) |-> v[k - 1]]
<1>3. /\ UnfoldJoined(Head(ls), Tail(ls))[DOMAIN Tail(ls)] = v[Len(Tail(ls))]
      /\ v[0] = Head(ls)
      /\ \A k \in 0 .. Len(Tail(ls)) - 1 : v[k + 1] = WithLine(v[k], Tail(ls)[k + 1])
  <2>0. Newline \in T
    OBVIOUS
  <2>1. JoinsEach(v, Head(ls), Tail(ls))
    BY <1>1, <2>0, PrefixJoins
  <2> HIDE DEF v
  <2> QED
    BY <2>1 DEF JoinsEach
<1>4. Joined(ls) = UnfoldJoined(Head(ls), Tail(ls))[DOMAIN Tail(ls)]
  BY DEF Joined, FoldLeft, MapThenFoldSet, UnfoldJoined, WithLine
<1> HIDE DEF v
<1>5. Joined(ls) = j[Len(ls)] /\ j[1] = ls[1]
  BY <1>1, <1>2, <1>3, <1>4
<1>6. ASSUME NEW k \in 1 .. Len(ls) - 1
      PROVE  j[k + 1] = WithLine(j[k], ls[k + 1])
  <2>1. /\ k - 1 \in 0 .. Len(Tail(ls)) - 1 /\ (k - 1) + 1 = k /\ (k + 1) - 1 = k
        /\ k \in 1 .. Len(Tail(ls)) /\ k \in 1 .. Len(ls) /\ k + 1 \in 1 .. Len(ls)
    BY <1>1, <1>2
  <2>2. v[k] = WithLine(v[k - 1], Tail(ls)[k])
    BY <1>3, <2>1
  <2>3. Tail(ls)[k] = ls[k + 1]
    BY <1>1, <2>1
  <2>4. j[k] = v[k - 1] /\ j[k + 1] = v[k]
    BY <2>1
  <2> QED
    BY <2>2, <2>3, <2>4
<1> HIDE DEF j
<1> QED
  BY <1>5, <1>6

-----------------------------------------------------------------------------
(* Where the lines of a text stand in it.                                  *)

\* The lines ls are those of the first k tokens of s, the i-th from start[i].
LaidOut(ls, start, s, k) ==
  /\ start \in [1 .. Len(ls) -> Nat]
  /\ start[1] = 1
  /\ \A i \in 1 .. Len(ls) - 1 :
       start[i + 1] = start[i] + Len(ls[i]) + 1 /\ s[start[i + 1] - 1] = Newline
  /\ start[Len(ls)] + Len(ls[Len(ls)]) = k + 1
  /\ \A i \in 1 .. Len(ls) : \A j \in 1 .. Len(ls[i]) :
       ls[i][j] = s[start[i] + j - 1] /\ ls[i][j] # Newline

LEMMA LinesFacts ==
  ASSUME NEW T, NEW ls \in LinesOf(T)
  PROVE  /\ Len(ls) \in Nat /\ Len(ls) # 0 /\ Len(ls) \in 1 .. Len(ls)
         /\ ls \in Seq(Seq(T)) /\ ls # <<>>
         /\ \A i \in 1 .. Len(ls) : ls[i] \in Seq(T) /\ Len(ls[i]) \in Nat
<1>1. ls \in Seq(Seq(T)) /\ ls # <<>>
  BY DEF LinesOf
<1>2. Len(ls) \in Nat /\ Len(ls) # 0
  BY <1>1, EmptySeq
<1>3. ASSUME NEW i \in 1 .. Len(ls)
      PROVE  ls[i] \in Seq(T) /\ Len(ls[i]) \in Nat
  <2>1. ls[i] \in Seq(T)
    BY <1>1, ElementOfSeq
  <2> QED
    BY <2>1, LenProperties
<1> QED
  BY <1>1, <1>2, <1>3

LEMMA LineBegins ==
  ASSUME NEW T, NEW s \in Seq(T), NEW k \in 0 .. Len(s) - 1, s[k + 1] = Newline,
         NEW ls \in LinesOf(T), NEW start, LaidOut(ls, start, s, k)
  PROVE  \E next : LaidOut(Append(ls, <<>>), next, s, k + 1)
<1> DEFINE n == Len(ls)
           longer == Append(ls, <<>>)
           next == [i \in 1 .. n + 1 |-> IF i = n + 1 THEN k + 2 ELSE start[i]]
<1>1. /\ n \in Nat /\ n # 0 /\ ls \in Seq(Seq(T))
      /\ \A i \in 1 .. n : Len(ls[i]) \in Nat
  BY LinesFacts
<1>2. k \in Nat /\ Len(s) \in Nat /\ k + 2 \in Nat
  OBVIOUS
<1>3. /\ Len(longer) = n + 1 /\ longer[n + 1] = <<>> /\ Len(<<>>) = 0
      /\ \A i \in 1 .. n : longer[i] = ls[i]
  <2>1. <<>> \in Seq(T)
    OBVIOUS
  <2> QED
    BY <1>1, <2>1, AppendProperties
<1>4. /\ start \in [1 .. n -> Nat]
      /\ start[1] = 1
      /\ \A i \in 1 .. n - 1 :
           start[i + 1] = start[i] + Len(ls[i]) + 1 /\ s[start[i + 1] - 1] = Newline
      /\ start[n] + Len(ls[n]) = k + 1
      /\ \A i \in 1 .. n : \A j \in 1 .. Len(ls[i]) :
           ls[i][j] = s[start[i] + j - 1] /\ ls[i][j] # Newline
  BY DEF LaidOut
<1>5. /\ next[n + 1] = k + 2
      /\ \A i \in 1 .. n : next[i] = start[i]
      /\ next \in [1 .. n + 1 -> Nat]
  BY <1>1, <1>2, <1>4
<1> HIDE DEF n, longer, next
<1>6. next[1] = 1
  BY <1>1, <1>4, <1>5
<1>7. ASSUME NEW i \in 1 .. n
      PROVE  next[i + 1] = next[i] + Len(longer[i]) + 1 /\ s[next[i + 1] - 1] = Newline
  <2>1. CASE i = n
    <3>1. next[i + 1] = k + 2 /\ next[i] = start[n] /\ longer[i] = ls[n]
      BY <1>3, <1>5, <2>1
    <3>2. start[n] \in Nat /\ Len(ls[n]) \in Nat
      BY <1>1, <1>4, <2>1
    <3>3. (k + 2) - 1 = k + 1 /\ k + 2 = start[n] + Len(ls[n]) + 1
      BY <1>2, <1>4, <3>2
    <3> QED
      BY <3>1, <3>3
  <2>2. CASE i # n
    <3>1. i \in 1 .. n - 1 /\ i + 1 \in 1 .. n /\ i \in 1 .. n
      BY <1>1, <2>2
    <3> QED
      BY <1>3, <1>4, <1>5, <3>1
  <2> QED
    BY <2>1, <2>2
<1>8. next[n + 1] + Len(longer[n + 1]) = (k + 1) + 1
  BY <1>2, <1>3, <1>5
<1>9. ASSUME NEW i \in 1 .. n + 1, NEW j \in 1 .. Len(longer[i])
      PROVE  longer[i][j] = s[next[i] + j - 1] /\ longer[i][j] # Newline
  <2>1. CASE i = n + 1
    BY <1>3, <2>1
  <2>2. CASE i # n + 1
    <3>1. i \in 1 .. n
      BY <1>1, <2>2
    <3> QED
      BY <1>3, <1>4, <1>5, <3>1
  <2> QED
    BY <2>1, <2>2
<1>10. (n + 1) - 1 = n
  BY <1>1
<1>11. LaidOut(longer, next, s, k + 1)
  BY <1>3, <1>5, <1>6, <1>7, <1>8, <1>9, <1>10 DEF LaidOut
<1> QED
  BY <1>11 DEF longer

LEMMA LineGrows ==
  ASSUME NEW T, NEW s \in Seq(T), NEW k \in 0 .. Len(s) - 1, s[k + 1] # Newline,
         NEW ls \in LinesOf(T), NEW start, LaidOut(ls, start, s, k)
  PROVE  LaidOut([ls EXCEPT ![Len(ls)] = Append(@, s[k + 1])], start, s, k + 1)
<1> DEFINE n == Len(ls)
           t == s[k + 1]
           line == Append(ls[n], t)
           longer == [ls EXCEPT ![n] = line]
<1>1. /\ n \in Nat /\ n # 0 /\ n \in 1 .. n /\ ls \in Seq(Seq(T)) /\ ls[n] \in Seq(T)
      /\ \A i \in 1 .. n : Len(ls[i]) \in Nat
  BY LinesFacts
<1>2. k \in Nat /\ Len(s) \in Nat /\ k + 1 \in 1 .. Len(s) /\ t \in T
  OBVIOUS
<1>3. /\ line \in Seq(T) /\ Len(line) = Len(ls[n]) + 1 /\ line[Len(ls[n]) + 1] = t
      /\ \A i \in 1 .. Len(ls[n]) : line[i] = ls[n][i]
  <2> HIDE DEF t
  <2> QED
    BY <1>1, <1>2, AppendProperties
<1>4. /\ Len(longer) = n
      /\ \A i \in 1 .. n : longer[i] = IF i = n THEN line ELSE ls[i]
  <2> HIDE DEF line
  <2> QED
    BY <1>1, <1>3, ExceptSeq
<1>5. /\ start \in [1 .. n -> Nat]
      /\ start[1] = 1
      /\ \A i \in 1 .. n - 1 :
           start[i + 1] = start[i] + Len(ls[i]) + 1 /\ s[start[i + 1] - 1] = Newline
      /\ start[n] + Len(ls[n]) = k + 1
      /\ \A i \in 1 .. n : \A j \in 1 .. Len(ls[i]) :
           ls[i][j] = s[start[i] + j - 1] /\ ls[i][j] # Newline
  BY DEF LaidOut
<1>6. t = s[k + 1] /\ t # Newline
  OBVIOUS
<1>e. longer = [ls EXCEPT ![Len(ls)] = Append(@, s[k + 1])]
  OBVIOUS
<1> HIDE DEF n, t, line, longer
<1>7. ASSUME NEW i \in 1 .. n - 1
      PROVE  start[i + 1] = start[i] + Len(longer[i]) + 1 /\ s[start[i + 1] - 1] = Newline
  <2>1. i \in 1 .. n /\ i # n
    BY <1>1
  <2>2. longer[i] = ls[i]
    BY <1>4, <2>1
  <2> QED
    BY <1>5, <2>2
<1>8. start[n] + Len(longer[n]) = (k + 1) + 1
  <2>1. longer[n] = line
    BY <1>1, <1>4
  <2>2. start[n] \in Nat /\ Len(ls[n]) \in Nat
    BY <1>1, <1>5
  <2>3. start[n] + Len(ls[n]) = k + 1 /\ Len(longer[n]) = Len(ls[n]) + 1
    BY <1>3, <1>5, <2>1
  <2> DEFINE a == start[n]
             b == Len(ls[n])
             c == Len(longer[n])
  <2>4. a \in Nat /\ b \in Nat /\ k \in Nat /\ a + b = k + 1 /\ c = b + 1
    BY <1>2, <2>2, <2>3
  <2> HIDE DEF a, b, c
  <2>5. a + c = (k + 1) + 1
    BY <2>4
  <2> QED
    BY <2>5 DEF a, c
<1>9. ASSUME NEW i \in 1 .. n, NEW j \in 1 .. Len(longer[i])
      PROVE  longer[i][j] = s[start[i] + j - 1] /\ longer[i][j] # Newline
  <2>1. CASE i # n
    BY <1>4, <1>5, <2>1
  <2>2. CASE i = n
    <3>1. longer[i] = line
      BY <1>4, <2>2
    <3>2. Len(ls[n]) \in Nat /\ start[n] \in Nat
      BY <1>1, <1>5
    <3>3. CASE j = Len(ls[n]) + 1
      <4>1. start[n] + j - 1 = k + 1
        BY <1>5, <3>2, <3>3
      <4> QED
        BY <1>3, <1>6, <2>2, <3>1, <3>3, <4>1
    <3>4. CASE j # Len(ls[n]) + 1
      <4>1. j \in 1 .. Len(ls[n])
        BY <1>3, <3>1, <3>2, <3>4
      <4> QED
        BY <1>1, <1>3, <1>5, <2>2, <3>1, <4>1
    <3> QED
      BY <3>3, <3>4
  <2> QED
    BY <2>1, <2>2
<1>11. LaidOut(longer, start, s, k + 1)
  BY <1>4, <1>5, <1>7, <1>8, <1>9 DEF LaidOut
<1> QED
  BY <1>11, <1>e

(* Every text is laid out in its lines: the lines tile it, one newline     *)
(* between each and the next and none in any.                              *)
LEMMA LinesTile ==
  ASSUME NEW T, NEW s \in Seq(T)
  PROVE  Lines(s) \in LinesOf(T) /\ \E start : LaidOut(Lines(s), start, s, Len(s))
<1> DEFINE v == LinesSoFar(s)
           S == {k \in 0 .. Len(s) :
                   ~ (v[k] \in LinesOf(T) /\ \E start : LaidOut(v[k], start, s, k))}
<1>1. /\ Lines(s) = v[Len(s)] /\ v[0] = <<<<>>>>
      /\ \A k \in 0 .. Len(s) - 1 : v[k + 1] = LinesThen(v[k], s[k + 1])
  BY PrefixLines
<1>2. Len(s) \in Nat
  OBVIOUS
<1> HIDE DEF v
<1>3. SUFFICES ASSUME S # {}
               PROVE  FALSE
  <2>1. Len(s) \in 0 .. Len(s)
    BY <1>2
  <2>2. Len(s) \notin S => v[Len(s)] \in LinesOf(T) /\ \E start : LaidOut(v[Len(s)], start, s, Len(s))
    BY <2>1
  <2> HIDE DEF S
  <2> QED
    BY <1>1, <2>2
<1>4. PICK n \in S : \A m \in S : n <= m
  <2>1. S \subseteq Nat
    OBVIOUS
  <2> HIDE DEF S
  <2> QED
    BY <1>3, <2>1, LeastNatural
<1>5. v[0] \in LinesOf(T) /\ \E start : LaidOut(v[0], start, s, 0)
  <2>1. /\ <<<<>>>> \in Seq(Seq(T)) /\ Len(<<<<>>>>) = 1 /\ <<<<>>>>[1] = <<>>
        /\ Len(<<>>) = 0
    <3>1. <<>> \in Seq(T)
      OBVIOUS
    <3> QED
      BY <3>1
  <2>2. <<<<>>>> \in LinesOf(T)
    BY <2>1 DEF LinesOf
  <2> DEFINE start == [i \in 1 .. 1 |-> 1]
  <2>3. start \in [1 .. 1 -> Nat] /\ start[1] = 1
    OBVIOUS
  <2> HIDE DEF start
  <2>4. LaidOut(<<<<>>>>, start, s, 0)
    BY <2>1, <2>3 DEF LaidOut
  <2> QED
    BY <1>1, <2>2, <2>4
<1>6. n # 0 /\ n \in 0 .. Len(s)
  BY <1>5
<1>7. n - 1 \in 0 .. Len(s) - 1 /\ n - 1 \in 0 .. Len(s) /\ (n - 1) + 1 = n /\ ~ (n <= n - 1)
  BY <1>2, <1>6
<1>8. v[n - 1] \in LinesOf(T) /\ \E start : LaidOut(v[n - 1], start, s, n - 1)
  BY <1>4, <1>7
<1>9. PICK start : LaidOut(v[n - 1], start, s, n - 1)
  BY <1>8
<1>10. v[n] = LinesThen(v[n - 1], s[n])
  BY <1>1, <1>7
<1>11. s[n] \in T
  BY <1>2, <1>6
<1>12. v[n] \in LinesOf(T)
  BY <1>8, <1>10, <1>11, LinesThenTyped
<1>13. \E st : LaidOut(v[n], st, s, n)
  <2>1. CASE s[n] = Newline
    <3>1. \E st : LaidOut(Append(v[n - 1], <<>>), st, s, (n - 1) + 1)
      BY <1>7, <1>8, <1>9, <2>1, LineBegins
    <3>2. v[n] = Append(v[n - 1], <<>>)
      BY <1>10, <2>1 DEF LinesThen
    <3> QED
      BY <1>7, <3>1, <3>2
  <2>2. CASE s[n] # Newline
    <3> DEFINE longer == [v[n - 1] EXCEPT ![Len(v[n - 1])] = Append(@, s[n])]
    <3>1. LaidOut(longer, start, s, (n - 1) + 1)
      BY <1>7, <1>8, <1>9, <2>2, LineGrows
    <3>2. v[n] = longer
      BY <1>10, <2>2 DEF LinesThen
    <3> QED
      BY <1>7, <3>1, <3>2
  <2> QED
    BY <2>1, <2>2
<1> QED
  BY <1>4, <1>12, <1>13

LEMMA LineStarts ==
  ASSUME NEW T, NEW s \in Seq(T), NEW ls \in LinesOf(T), NEW start,
         LaidOut(ls, start, s, Len(s))
  PROVE  /\ \A i \in 1 .. Len(ls) : start[i] \in Nat /\ Len(ls[i]) \in Nat
         /\ start[1] = 1
         /\ \A i \in 1 .. Len(ls) - 1 :
              start[i + 1] = start[i] + Len(ls[i]) + 1 /\ s[start[i + 1] - 1] = Newline
         /\ start[Len(ls)] + Len(ls[Len(ls)]) = Len(s) + 1
         /\ \A i \in 1 .. Len(ls) : \A j \in 1 .. Len(ls[i]) :
              ls[i][j] = s[start[i] + j - 1] /\ ls[i][j] # Newline
  BY LinesFacts DEF LaidOut

LEMMA LineOrder ==
  ASSUME NEW T, NEW s \in Seq(T), NEW ls \in LinesOf(T), NEW start,
         LaidOut(ls, start, s, Len(s)),
         NEW i \in 1 .. Len(ls), NEW j \in 1 .. Len(ls), i < j
  PROVE  start[j] >= start[i] + Len(ls[i]) + 1
<1> DEFINE S == {k \in i + 1 .. Len(ls) : ~ (start[k] >= start[i] + Len(ls[i]) + 1)}
<1>1. Len(ls) \in Nat /\ i \in Nat /\ j \in Nat
  BY LinesFacts
<1>2. /\ \A k \in 1 .. Len(ls) : start[k] \in Nat /\ Len(ls[k]) \in Nat
      /\ \A k \in 1 .. Len(ls) - 1 : start[k + 1] = start[k] + Len(ls[k]) + 1
  BY LineStarts
<1>3. SUFFICES ASSUME S # {}
               PROVE  FALSE
  <2>1. j \in i + 1 .. Len(ls)
    BY <1>1
  <2> QED
    BY <2>1
<1>4. PICK n \in S : \A m \in S : n <= m
  <2>1. S \subseteq Nat
    BY <1>1
  <2> HIDE DEF S
  <2> QED
    BY <1>3, <2>1, LeastNatural
<1>5. n \in i + 1 .. Len(ls) /\ ~ (start[n] >= start[i] + Len(ls[i]) + 1)
  BY <1>4
<1>6. /\ n - 1 \in 1 .. Len(ls) - 1 /\ n - 1 \in 1 .. Len(ls) /\ (n - 1) + 1 = n
      /\ ~ (n <= n - 1)
  BY <1>1, <1>5
<1>7. start[n] = start[n - 1] + Len(ls[n - 1]) + 1
  BY <1>2, <1>6
<1>8. start[i] \in Nat /\ Len(ls[i]) \in Nat /\ start[n - 1] \in Nat /\ Len(ls[n - 1]) \in Nat
  BY <1>2, <1>6
<1>9. CASE n - 1 = i
  BY <1>5, <1>7, <1>8, <1>9
<1>10. CASE n - 1 # i
  <2>1. n - 1 \in i + 1 .. Len(ls)
    BY <1>1, <1>5, <1>10
  <2>2. start[n - 1] >= start[i] + Len(ls[i]) + 1
    BY <1>4, <1>6, <2>1
  <2> QED
    BY <1>5, <1>7, <1>8, <2>2
<1> QED
  BY <1>9, <1>10

(* A line starts wherever a newline has just been.                         *)
LEMMA LineAfterNewline ==
  ASSUME NEW T, NEW s \in Seq(T), NEW ls \in LinesOf(T), NEW start,
         LaidOut(ls, start, s, Len(s)),
         NEW p \in 1 .. Len(s) + 1, p = 1 \/ s[p - 1] = Newline
  PROVE  \E i \in 1 .. Len(ls) : start[i] = p
<1> DEFINE n == Len(ls)
           S == {i \in 1 .. n : start[i] > p}
<1>1. n \in Nat /\ n \in 1 .. n /\ Len(s) \in Nat /\ p \in Nat
  BY LinesFacts
<1>2. /\ \A i \in 1 .. n : start[i] \in Nat /\ Len(ls[i]) \in Nat
      /\ start[1] = 1
      /\ \A i \in 1 .. n - 1 : start[i + 1] = start[i] + Len(ls[i]) + 1
      /\ start[n] + Len(ls[n]) = Len(s) + 1
      /\ \A i \in 1 .. n : \A j \in 1 .. Len(ls[i]) :
           ls[i][j] = s[start[i] + j - 1] /\ ls[i][j] # Newline
  BY LineStarts
<1> HIDE DEF n
<1>3. \E i \in 1 .. n : start[i] <= p /\ p <= start[i] + Len(ls[i])
  <2>1. CASE S = {}
    <3>1. start[n] <= p
      <4>1. n \in 1 .. n /\ n \notin S
        BY <1>1, <2>1
      <4>2. start[n] \in Nat /\ ~ (start[n] > p)
        BY <1>2, <4>1
      <4> QED
        BY <1>1, <4>2
    <3>2. p <= start[n] + Len(ls[n])
      BY <1>1, <1>2
    <3> QED
      BY <1>1, <3>1, <3>2
  <2>2. CASE S # {}
    <3>1. PICK m \in S : \A k \in S : m <= k
      <4>1. S \subseteq Nat
        OBVIOUS
      <4> HIDE DEF S
      <4> QED
        BY <2>2, <4>1, LeastNatural
    <3>2. m # 1 /\ m \in 1 .. n /\ start[m] > p
      BY <1>1, <1>2, <3>1
    <3>3. /\ m - 1 \in 1 .. n - 1 /\ m - 1 \in 1 .. n /\ (m - 1) + 1 = m
          /\ ~ (m <= m - 1)
      BY <1>1, <3>2
    <3>4. ~ (start[m - 1] > p)
      BY <3>1, <3>3
    <3>5. start[m] = start[m - 1] + Len(ls[m - 1]) + 1
      BY <1>2, <3>3
    <3>6. start[m - 1] \in Nat /\ Len(ls[m - 1]) \in Nat
      BY <1>2, <3>3
    <3>7. start[m - 1] <= p /\ p <= start[m - 1] + Len(ls[m - 1])
      BY <1>1, <3>2, <3>4, <3>5, <3>6
    <3> QED
      BY <3>3, <3>7
  <2> QED
    BY <2>1, <2>2
<1>4. PICK i \in 1 .. n : start[i] <= p /\ p <= start[i] + Len(ls[i])
  BY <1>3
<1>5. start[i] = p
  <2>1. SUFFICES ASSUME start[i] # p
                 PROVE  FALSE
    OBVIOUS
  <2>2. start[i] \in Nat /\ Len(ls[i]) \in Nat
    BY <1>2
  <2>0. start[i] # 0
    <3>1. CASE i = 1
      BY <1>2, <3>1
    <3>2. CASE i # 1
      <4>1. i - 1 \in 1 .. n - 1 /\ i - 1 \in 1 .. n /\ (i - 1) + 1 = i
        BY <1>1, <3>2
      <4>2. start[i] = start[i - 1] + Len(ls[i - 1]) + 1
        BY <1>2, <4>1
      <4>3. start[i - 1] \in Nat /\ Len(ls[i - 1]) \in Nat
        BY <1>2, <4>1
      <4> QED
        BY <4>2, <4>3
    <3> QED
      BY <3>1, <3>2
  <2>3. p - start[i] \in 1 .. Len(ls[i]) /\ start[i] + (p - start[i]) - 1 = p - 1 /\ p # 1
    BY <1>1, <1>4, <2>0, <2>1, <2>2
  <2>4. ls[i][p - start[i]] = s[p - 1] /\ ls[i][p - start[i]] # Newline
    BY <1>2, <2>3
  <2> QED
    BY <2>3, <2>4
<1> QED
  BY <1>5 DEF n

LEMMA LineFits ==
  ASSUME NEW T, NEW s \in Seq(T), NEW ls \in LinesOf(T), NEW start,
         LaidOut(ls, start, s, Len(s)), NEW i \in 1 .. Len(ls)
  PROVE  /\ start[i] >= 1
         /\ i # 1 => start[i] >= 2 /\ s[start[i] - 1] = Newline
         /\ start[i] + Len(ls[i]) <= Len(s) + 1
         /\ i # Len(ls) => start[i] + Len(ls[i]) <= Len(s) /\ s[start[i] + Len(ls[i])] = Newline
         /\ i = Len(ls) => start[i] + Len(ls[i]) = Len(s) + 1
<1> DEFINE n == Len(ls)
<1>1. n \in Nat /\ Len(s) \in Nat /\ i \in 1 .. n /\ n \in 1 .. n
  BY LinesFacts
<1>2. /\ \A k \in 1 .. n : start[k] \in Nat /\ Len(ls[k]) \in Nat
      /\ start[1] = 1
      /\ \A k \in 1 .. n - 1 :
           start[k + 1] = start[k] + Len(ls[k]) + 1 /\ s[start[k + 1] - 1] = Newline
      /\ start[n] + Len(ls[n]) = Len(s) + 1
      /\ \A k \in 1 .. n : \A j \in 1 .. Len(ls[k]) :
           ls[k][j] = s[start[k] + j - 1] /\ ls[k][j] # Newline
  BY LineStarts
<1>3. start[i] >= 1 /\ (i # 1 => start[i] >= 2 /\ s[start[i] - 1] = Newline)
  <2> HIDE DEF n
  <2>1. CASE i = 1
    BY <1>2, <2>1
  <2>2. CASE i # 1
    <3>1. i - 1 \in 1 .. n - 1 /\ i - 1 \in 1 .. n /\ (i - 1) + 1 = i
      BY <1>1, <2>2
    <3>2. start[i] = start[i - 1] + Len(ls[i - 1]) + 1 /\ s[start[i] - 1] = Newline
      BY <1>2, <3>1
    <3>3. start[i - 1] \in Nat /\ Len(ls[i - 1]) \in Nat /\ start[i] \in Nat
      BY <1>1, <1>2, <3>1
    <3>4. start[i - 1] >= 1
      <4>1. CASE i - 1 = 1
        BY <1>2, <4>1
      <4>2. CASE i - 1 # 1
        <5>1. 1 < i - 1 /\ 1 \in 1 .. Len(ls) /\ i - 1 \in 1 .. Len(ls)
          BY <1>1, <3>1, <4>2 DEF n
        <5>2. start[i - 1] >= start[1] + Len(ls[1]) + 1
          BY <5>1, LineOrder
        <5>3. Len(ls[1]) \in Nat
          BY <1>2, <5>1 DEF n
        <5> QED
          BY <1>2, <3>3, <5>2, <5>3
      <4> QED
        BY <4>1, <4>2
    <3> QED
      BY <2>2, <3>2, <3>3, <3>4
  <2> QED
    BY <2>1, <2>2
<1>4. CASE i = n
  BY <1>1, <1>2, <1>3, <1>4
<1>5. CASE i # n
  <2>1. i < n /\ i \in 1 .. n - 1 /\ i + 1 \in 1 .. n
    BY <1>1, <1>5
  <2>2. start[n] >= start[i] + Len(ls[i]) + 1
    BY <1>1, <2>1, LineOrder
  <2> HIDE DEF n
  <2>3. /\ start[n] \in Nat /\ Len(ls[n]) \in Nat /\ start[i] \in Nat /\ Len(ls[i]) \in Nat
        /\ start[n] + Len(ls[n]) = Len(s) + 1
    BY <1>1, <1>2
  <2>4. start[i] + Len(ls[i]) <= Len(s)
    BY <1>1, <2>2, <2>3
  <2>5. start[i + 1] = start[i] + Len(ls[i]) + 1 /\ s[start[i + 1] - 1] = Newline
    BY <1>2, <2>1
  <2>6. start[i + 1] - 1 = start[i] + Len(ls[i])
    BY <2>3, <2>5
  <2>7. start[i] + Len(ls[i]) <= Len(s) + 1
    BY <1>1, <2>3, <2>4
  <2> QED
    BY <1>3, <1>5, <2>4, <2>5, <2>6, <2>7 DEF n
<1> QED
  BY <1>4, <1>5
LEMMA JustOne ==
  ASSUME NEW n \in Nat, n # 0, ~ (n >= 2)
  PROVE  n = 1
  OBVIOUS

(* A line of one token is that token between two newlines, or the ends.    *)
LEMMA LineOfOne ==
  ASSUME NEW T, NEW s \in Seq(T), NEW ls \in LinesOf(T), NEW start,
         LaidOut(ls, start, s, Len(s)),
         NEW i \in 1 .. Len(ls), NEW t \in T, t # Newline
  PROVE  ls[i] = <<t>> <=>
           /\ start[i] <= Len(s) /\ s[start[i]] = t
           /\ start[i] + 1 > Len(s) \/ s[start[i] + 1] = Newline
<1> DEFINE n == Len(ls)
<1>1. n \in Nat /\ Len(s) \in Nat /\ ls[i] \in Seq(T) /\ i \in 1 .. n
  BY LinesFacts
<1>2. /\ \A k \in 1 .. n : start[k] \in Nat /\ Len(ls[k]) \in Nat
      /\ \A k \in 1 .. n : \A j \in 1 .. Len(ls[k]) :
           ls[k][j] = s[start[k] + j - 1] /\ ls[k][j] # Newline
  <2>1. /\ \A k \in 1 .. n : start[k] \in Nat /\ Len(ls[k]) \in Nat
        /\ \A k \in 1 .. n : \A j \in 1 .. Len(ls[k]) :
             ls[k][j] = s[start[k] + j - 1] /\ ls[k][j] # Newline
    BY LineStarts
  <2> QED
    BY <2>1
<1> HIDE DEF n
<1>3. start[i] \in Nat /\ Len(ls[i]) \in Nat
  BY <1>1, <1>2
<1>4. \/ i = n /\ start[i] + Len(ls[i]) = Len(s) + 1
      \/ i # n /\ s[start[i] + Len(ls[i])] = Newline /\ start[i] + Len(ls[i]) <= Len(s)
  BY LineFits DEF n
<1>5. ASSUME ls[i] = <<t>>
      PROVE  /\ start[i] <= Len(s) /\ s[start[i]] = t
             /\ start[i] + 1 > Len(s) \/ s[start[i] + 1] = Newline
  <2>1. Len(ls[i]) = 1 /\ ls[i][1] = t
    BY <1>5
  <2>2. 1 \in 1 .. Len(ls[i]) /\ start[i] + 1 - 1 = start[i]
    BY <1>3, <2>1
  <2>3. s[start[i]] = t
    BY <1>1, <1>2, <2>1, <2>2
  <2> QED
    BY <1>1, <1>3, <1>4, <2>1, <2>3
<1>6. ASSUME start[i] <= Len(s), s[start[i]] = t,
             start[i] + 1 > Len(s) \/ s[start[i] + 1] = Newline
      PROVE  ls[i] = <<t>>
  <2>1. Len(ls[i]) # 0
    BY <1>1, <1>3, <1>4, <1>6
  <2>2. ls[i][1] = t
    <3>1. 1 \in 1 .. Len(ls[i]) /\ start[i] + 1 - 1 = start[i]
      BY <1>3, <2>1
    <3> QED
      BY <1>1, <1>2, <1>6, <3>1
  <2>3. ~ (Len(ls[i]) >= 2)
    <3>1. SUFFICES ASSUME Len(ls[i]) >= 2
                   PROVE  FALSE
      OBVIOUS
    <3>2. 2 \in 1 .. Len(ls[i]) /\ start[i] + 2 - 1 = start[i] + 1
      BY <1>3, <3>1
    <3>3. s[start[i] + 1] # Newline
      BY <1>1, <1>2, <3>2
    <3>4. ~ (start[i] + 1 > Len(s))
      BY <1>1, <1>3, <1>4, <3>1
    <3> QED
      BY <1>6, <3>3, <3>4
  <2>4. Len(ls[i]) = 1
    BY <1>3, <2>1, <2>3, JustOne
  <2> QED
    BY <1>1, <2>2, <2>4
<1> QED
  BY <1>5, <1>6

-----------------------------------------------------------------------------
(* Markers are lines.                                                      *)

LEMMA MarkerAt ==
  ASSUME NEW s, Len(s) \in Nat, NEW a, NEW b, NEW p \in Nat
  PROVE  OccursAt(s, <<a, b>>, p) <=> p + 1 <= Len(s) /\ s[p] = a /\ s[p + 1] = b
<1>1. /\ Len(<<a, b>>) = 2 /\ p + 2 - 1 = p + 1 /\ p + 1 - 1 = p
      /\ <<a, b>>[1] = a /\ <<a, b>>[2] = b
  OBVIOUS
<1>2. \A k : k \in 1 .. 2 <=> k = 1 \/ k = 2
  OBVIOUS
<1> QED
  BY <1>1, <1>2 DEF OccursAt

OpeningLines(ls) == {i \in 1 .. Len(ls) - 1 : ls[i] = <<OpenText>>}
ClosingLines(ls) == {i \in 2 .. Len(ls) : ls[i] = <<CloseText>>}

LEMMA OpenersAreLines ==
  ASSUME NEW T, NEW s \in Seq(T), OpenText \in T, NEW ls \in LinesOf(T), NEW start,
         LaidOut(ls, start, s, Len(s)), NEW p
  PROVE  p \in Openers(s) <=> \E i \in OpeningLines(ls) : p = start[i]
<1>0. OpenText \in T /\ OpenText # Newline
  BY DraftTextAssumption
<1>1. Len(s) \in Nat /\ Len(ls) \in Nat /\ \A i \in 1 .. Len(ls) : start[i] \in Nat /\ Len(ls[i]) \in Nat
  BY LinesFacts, LineStarts
<1>2. \A q \in Nat : OccursAt(s, OpenMarker, q) <=> q + 1 <= Len(s) /\ s[q] = OpenText /\ s[q + 1] = Newline
  BY <1>1, MarkerAt DEF OpenMarker
<1>3. ASSUME p \in Openers(s)
      PROVE  \E i \in OpeningLines(ls) : p = start[i]
  <2>1. p \in 1 .. Len(s) /\ p \in Nat /\ OccursAt(s, OpenMarker, p) /\ (p = 1 \/ s[p - 1] = Newline)
    BY <1>3 DEF Openers
  <2>2. p + 1 <= Len(s) /\ s[p] = OpenText /\ s[p + 1] = Newline
    BY <1>2, <2>1
  <2>3. p \in 1 .. Len(s) + 1
    BY <1>1, <2>1
  <2>4. PICK i \in 1 .. Len(ls) : start[i] = p
    BY <2>1, <2>3, LineAfterNewline
  <2>5. start[i] <= Len(s) /\ s[start[i]] = OpenText /\ (start[i] + 1 > Len(s) \/ s[start[i] + 1] = Newline)
    BY <1>1, <2>1, <2>2, <2>4
  <2>6. ls[i] = <<OpenText>>
    BY <1>0, <2>5, LineOfOne
  <2>7. Len(ls[i]) = 1
    BY <2>6
  <2>8. i # Len(ls)
    <3>1. i = Len(ls) => start[i] + Len(ls[i]) = Len(s) + 1
      BY LineFits
    <3> QED
      BY <1>1, <2>1, <2>2, <2>4, <2>7, <3>1
  <2>9. i \in 1 .. Len(ls) - 1
    BY <1>1, <2>8
  <2> QED
    BY <2>4, <2>6, <2>9 DEF OpeningLines
<1>4. ASSUME NEW i \in OpeningLines(ls)
      PROVE  start[i] \in Openers(s)
  <2>1. i \in 1 .. Len(ls) - 1 /\ i \in 1 .. Len(ls) /\ i # Len(ls) /\ ls[i] = <<OpenText>>
    BY <1>1 DEF OpeningLines
  <2>2. Len(ls[i]) = 1
    BY <2>1
  <2>3. start[i] <= Len(s) /\ s[start[i]] = OpenText
    BY <1>0, <2>1, LineOfOne
  <2>4. /\ start[i] >= 1
        /\ i # 1 => start[i] >= 2 /\ s[start[i] - 1] = Newline
        /\ start[i] + Len(ls[i]) <= Len(s) /\ s[start[i] + Len(ls[i])] = Newline
    <3>1. /\ start[i] >= 1
          /\ i # 1 => start[i] >= 2 /\ s[start[i] - 1] = Newline
          /\ i # Len(ls) => start[i] + Len(ls[i]) <= Len(s) /\ s[start[i] + Len(ls[i])] = Newline
      <4>1. i \in 1 .. Len(ls)
        BY <2>1
      <4> QED
        BY <4>1, LineFits
    <3> QED
      BY <2>1, <3>1
  <2>5. OccursAt(s, OpenMarker, start[i])
    BY <1>1, <1>2, <2>1, <2>2, <2>3, <2>4
  <2>6. start[i] \in 1 .. Len(s)
    BY <1>1, <2>1, <2>3, <2>4
  <2>7. start[i] = 1 \/ s[start[i] - 1] = Newline
    <3>1. start[1] = 1
      BY LineStarts
    <3> QED
      BY <2>4, <3>1
  <2> QED
    BY <2>5, <2>6, <2>7 DEF Openers
<1> QED
  BY <1>3, <1>4

LEMMA ClosersAreLines ==
  ASSUME NEW T, NEW s \in Seq(T), CloseText \in T, NEW ls \in LinesOf(T), NEW start,
         LaidOut(ls, start, s, Len(s)), NEW p
  PROVE  p \in Closers(s) <=> \E i \in ClosingLines(ls) : p = start[i] - 1
<1>0. CloseText \in T /\ CloseText # Newline
  BY DraftTextAssumption
<1>1. Len(s) \in Nat /\ Len(ls) \in Nat /\ \A i \in 1 .. Len(ls) : start[i] \in Nat /\ Len(ls[i]) \in Nat
  BY LinesFacts, LineStarts
<1>2. \A q \in Nat : OccursAt(s, CloseMarker, q) <=> q + 1 <= Len(s) /\ s[q] = Newline /\ s[q + 1] = CloseText
  BY <1>1, MarkerAt DEF CloseMarker
<1>m. Len(CloseMarker) = 2
  BY DEF CloseMarker
<1>3. ASSUME p \in Closers(s)
      PROVE  \E i \in ClosingLines(ls) : p = start[i] - 1
  <2>1. /\ p \in 1 .. Len(s) /\ p \in Nat /\ OccursAt(s, CloseMarker, p)
        /\ p + 2 > Len(s) \/ s[p + 2] = Newline
    BY <1>3, <1>m DEF Closers
  <2>2. p + 1 <= Len(s) /\ s[p] = Newline /\ s[p + 1] = CloseText
    BY <1>2, <2>1
  <2>3. p + 1 \in 1 .. Len(s) + 1 /\ (p + 1) - 1 = p /\ (p + 1) + 1 = p + 2
    BY <1>1, <2>1, <2>2
  <2>4. PICK i \in 1 .. Len(ls) : start[i] = p + 1
    <3>1. s[(p + 1) - 1] = Newline
      BY <2>2, <2>3
    <3> QED
      BY <2>3, <3>1, LineAfterNewline
  <2>5. start[i] <= Len(s) /\ s[start[i]] = CloseText /\ (start[i] + 1 > Len(s) \/ s[start[i] + 1] = Newline)
    BY <1>1, <2>1, <2>2, <2>3, <2>4
  <2>6. ls[i] = <<CloseText>>
    BY <1>0, <2>5, LineOfOne
  <2>7. i # 1
    <3>1. start[1] = 1
      BY LineStarts
    <3> QED
      BY <2>1, <2>4, <3>1
  <2>8. i \in 2 .. Len(ls)
    BY <1>1, <2>7
  <2>9. start[i] - 1 = p
    BY <2>3, <2>4
  <2> QED
    BY <2>6, <2>8, <2>9 DEF ClosingLines
<1>4. ASSUME NEW i \in ClosingLines(ls)
      PROVE  start[i] - 1 \in Closers(s)
  <2>1. i \in 2 .. Len(ls) /\ i \in 1 .. Len(ls) /\ i # 1 /\ ls[i] = <<CloseText>>
    BY <1>1 DEF ClosingLines
  <2>2. /\ start[i] <= Len(s) /\ s[start[i]] = CloseText
        /\ start[i] + 1 > Len(s) \/ s[start[i] + 1] = Newline
    BY <1>0, <2>1, LineOfOne
  <2>3. start[i] >= 2 /\ s[start[i] - 1] = Newline
    BY <2>1, LineFits
  <2> DEFINE q == start[i] - 1
  <2>4. /\ start[i] = q + 1 /\ q \in Nat /\ q \in 1 .. Len(s) /\ q + 1 <= Len(s)
        /\ start[i] + 1 = q + 2
    BY <1>1, <2>1, <2>2, <2>3, SMTT(30)
  <2>5. s[q] = Newline
    BY <2>3
  <2> HIDE DEF q
  <2>6. OccursAt(s, CloseMarker, q)
    BY <1>2, <2>2, <2>4, <2>5
  <2>7. q + 2 > Len(s) \/ s[q + 2] = Newline
    BY <2>2, <2>4
  <2>8. q \in Closers(s)
    BY <1>m, <2>4, <2>6, <2>7 DEF Closers
  <2> QED
    BY <2>8 DEF q
<1> QED
  BY <1>3, <1>4

(* Two sets in step with each other are singletons together.               *)
InStep(P, I, f) ==
  /\ \A p : p \in P <=> \E i \in I : p = f[i]
  /\ \A i, j \in I : f[i] = f[j] => i = j

SingleTogether(P, I, f) ==
  /\ \A i \in I : P = {f[i]} <=> I = {i}
  /\ \A p : P = {p} => \E i \in I : p = f[i] /\ I = {i}

LEMMA SinglesMatch ==
  ASSUME NEW P, NEW I, NEW f, InStep(P, I, f)
  PROVE  SingleTogether(P, I, f)
<1>0. /\ \A p : p \in P <=> \E i \in I : p = f[i]
      /\ \A i, j \in I : f[i] = f[j] => i = j
  BY DEF InStep
<1>1. ASSUME NEW i \in I, P = {f[i]}
      PROVE  I = {i}
  <2>1. \A j \in I : f[j] \in P
    BY <1>0
  <2>2. \A j \in I : f[j] = f[i]
    BY <1>1, <2>1
  <2>3. \A j \in I : j = i
    BY <1>0, <2>2
  <2> QED
    BY <2>3
<1>2. ASSUME NEW i \in I, I = {i}
      PROVE  P = {f[i]}
  <2>1. \A p : p \in P <=> p = f[i]
    BY <1>0, <1>2
  <2> QED
    BY <2>1
<1>3. ASSUME NEW p, P = {p}
      PROVE  \E i \in I : p = f[i] /\ I = {i}
  <2>1. p \in P
    BY <1>3
  <2>2. PICK i \in I : p = f[i]
    BY <1>0, <2>1
  <2>3. P = {f[i]}
    BY <1>3, <2>2
  <2>4. I = {i}
    BY <1>1, <2>3
  <2> QED
    BY <2>2, <2>4
<1> QED
  BY <1>1, <1>2, <1>3 DEF SingleTogether

LEMMA AtMostOne ==
  ASSUME NEW n \in Nat, NEW S \in SUBSET (1 .. n)
  PROVE  ~ (Cardinality(S) > 1) /\ S # {} <=> \E a \in 1 .. n : S = {a}
<1>1. IsFiniteSet(1 .. n)
  <2>1. 1 \in Int /\ n \in Int
    OBVIOUS
  <2> QED
    BY <2>1, FS_Interval
<1>2. IsFiniteSet(S)
  BY <1>1, FS_Subset
<1>3. Cardinality(S) \in Nat /\ (Cardinality(S) = 0 <=> S = {})
  BY <1>2, FS_CardinalityType, FS_EmptySet
<1>4. Cardinality(S) = 1 <=> \E a : S = {a}
  BY <1>2, FS_Singleton
<1>5. ASSUME NEW a, S = {a}
      PROVE  a \in 1 .. n
  BY <1>5
<1> DEFINE c == Cardinality(S)
<1>6. ~ (c > 1) /\ c # 0 <=> c = 1
  <2>1. c \in Nat
    BY <1>3
  <2> HIDE DEF c
  <2> QED
    BY <2>1
<1> QED
  BY <1>3, <1>4, <1>5, <1>6

(* The codes of _delimited_payload leave one case without any.             *)
LEMMA BlockFound ==
  ASSUME NEW T, NEW s \in Seq(T)
  PROVE  BlockIssue(s) = {} <=>
           \E a, b \in 1 .. Len(s) : Openers(s) = {a} /\ Closers(s) = {b} /\ b >= a + 2
<1>1. Len(s) \in Nat /\ Openers(s) \in SUBSET (1 .. Len(s)) /\ Closers(s) \in SUBSET (1 .. Len(s))
  BY DEF Openers, Closers
<1>2. /\ ~ (Cardinality(Openers(s)) > 1) /\ Openers(s) # {} <=> \E a \in 1 .. Len(s) : Openers(s) = {a}
      /\ ~ (Cardinality(Closers(s)) > 1) /\ Closers(s) # {} <=> \E b \in 1 .. Len(s) : Closers(s) = {b}
  BY <1>1, AtMostOne
<1>3. BlockIssue(s) = {} <=>
        /\ ~ (Cardinality(Openers(s)) > 1) /\ Openers(s) # {}
        /\ ~ (Cardinality(Closers(s)) > 1) /\ Closers(s) # {}
        /\ ~ (PayloadEnd(s) < PayloadStart(s))
  BY DEF BlockIssue
<1>4. ASSUME NEW a \in 1 .. Len(s), NEW b \in 1 .. Len(s), Openers(s) = {a}, Closers(s) = {b}
      PROVE  ~ (PayloadEnd(s) < PayloadStart(s)) <=> b >= a + 2
  <2>1. Len(OpenMarker) = 2
    BY DEF OpenMarker
  <2>2. PayloadStart(s) = a + 2 /\ PayloadEnd(s) = b
    BY <1>4, <2>1 DEF PayloadStart, PayloadEnd
  <2> QED
    BY <1>1, <2>2
<1> QED
  BY <1>2, <1>3, <1>4

-----------------------------------------------------------------------------
(* The text between two markers is the lines between them.                 *)

LEMMA LineSpan ==
  ASSUME NEW T, NEW s \in Seq(T), NEW line \in Seq(T), NEW a \in Nat, a >= 1,
         a + Len(line) <= Len(s) + 1,
         \A i \in 1 .. Len(line) : line[i] = s[a + i - 1]
  PROVE  line = SubSeq(s, a, a + Len(line) - 1)
<1> DEFINE n == Len(line)
           e == a + n - 1
<1>1. n \in Nat /\ Len(s) \in Nat /\ a \in Int /\ e \in Int
  BY LenProperties
<1>2. \A i \in a .. e : s[i] \in T
  <2>1. ASSUME NEW i \in a .. e
        PROVE  s[i] \in T
    <3>1. i \in 1 .. Len(s)
      BY <1>1
    <3> QED
      BY <3>1, ElementOfSeq
  <2> QED
    BY <2>1
<1>3. /\ SubSeq(s, a, e) \in Seq(T)
      /\ Len(SubSeq(s, a, e)) = IF a <= e THEN e - a + 1 ELSE 0
      /\ \A i \in 1 .. e - a + 1 : SubSeq(s, a, e)[i] = s[a + i - 1]
  <2> HIDE DEF e
  <2> QED
    BY <1>1, <1>2, SubSeqProperties
<1>4. e - a + 1 = n /\ (a <= e <=> n # 0)
  BY <1>1
<1>5. Len(line) = Len(SubSeq(s, a, e)) /\ \A i \in 1 .. Len(line) : line[i] = SubSeq(s, a, e)[i]
  BY <1>3, <1>4
<1> HIDE DEF e
<1>6. line = SubSeq(s, a, e)
  BY <1>3, <1>5, SeqEqual
<1> QED
  BY <1>6 DEF e

LEMMA JoinsSpan ==
  ASSUME NEW T, NEW s \in Seq(T), Newline \in T, NEW line \in Seq(T),
         NEW a \in 1 .. Len(s) + 1, NEW e \in a - 1 .. Len(s) - 1, s[e + 1] = Newline,
         e + 1 + Len(line) <= Len(s),
         \A i \in 1 .. Len(line) : line[i] = s[e + 1 + i]
  PROVE  WithLine(SubSeq(s, a, e), line) = SubSeq(s, a, e + 1 + Len(line))
<1> DEFINE n == Len(line)
<1>1. n \in Nat /\ Len(s) \in Nat /\ a \in Nat /\ e \in Nat
  BY LenProperties
<1>2. line = SubSeq(s, (e + 1) + 1, e + 1 + n)
  <2>1. /\ e + 2 \in Nat /\ e + 2 >= 1 /\ (e + 2) + Len(line) <= Len(s) + 1
        /\ (e + 2) + Len(line) - 1 = e + 1 + n /\ (e + 1) + 1 = e + 2
    BY <1>1
  <2>2. \A i \in 1 .. Len(line) : line[i] = s[(e + 2) + i - 1]
    <3>1. \A i \in 1 .. Len(line) : (e + 2) + i - 1 = e + 1 + i
      BY <1>1
    <3> QED
      BY <3>1
  <2>3. line = SubSeq(s, e + 2, (e + 2) + Len(line) - 1)
    BY <2>1, <2>2, LineSpan
  <2> QED
    BY <2>1, <2>3
<1>3. <<Newline>> = SubSeq(s, e + 1, e + 1)
  <2>1. <<Newline>> \in Seq(T) /\ Len(<<Newline>>) = 1 /\ <<Newline>>[1] = Newline
    OBVIOUS
  <2>2. e + 1 \in Nat /\ e + 1 >= 1 /\ (e + 1) + 1 <= Len(s) + 1 /\ (e + 1) + 1 - 1 = e + 1
    BY <1>1
  <2> DEFINE nl == <<Newline>>
  <2> HIDE DEF nl
  <2>3. nl \in Seq(T) /\ Len(nl) = 1 /\ nl[1] = Newline
    BY <2>1 DEF nl
  <2>4. (e + 1) + Len(nl) <= Len(s) + 1 /\ \A i \in 1 .. Len(nl) : nl[i] = s[(e + 1) + i - 1]
    <3>1. \A i \in 1 .. Len(nl) : i = 1
      BY <2>3
    <3> QED
      BY <2>2, <2>3, <3>1
  <2>5. nl = SubSeq(s, e + 1, (e + 1) + Len(nl) - 1)
    BY <2>2, <2>3, <2>4, LineSpan
  <2> QED
    BY <2>2, <2>3, <2>5 DEF nl
<1>4. SubSeq(s, a, e) \o SubSeq(s, e + 1, e + 1) = SubSeq(s, a, e + 1)
  <2>1. a \in 1 .. Len(s) + 1 /\ e \in a - 1 .. Len(s) /\ e + 1 \in e .. Len(s)
    BY <1>1
  <2> QED
    BY <2>1, ConcatAdjacentSubSeq
<1>5. SubSeq(s, a, e + 1) \o SubSeq(s, (e + 1) + 1, e + 1 + n) = SubSeq(s, a, e + 1 + n)
  <2>1. a \in 1 .. Len(s) + 1 /\ e + 1 \in a - 1 .. Len(s) /\ e + 1 + n \in e + 1 .. Len(s)
    BY <1>1
  <2> HIDE DEF n
  <2> QED
    BY <2>1, ConcatAdjacentSubSeq
<1> HIDE DEF n
<1>6. WithLine(SubSeq(s, a, e), line) = (SubSeq(s, a, e) \o <<Newline>>) \o line
  BY DEF WithLine
<1>7. WithLine(SubSeq(s, a, e), line) = SubSeq(s, a, e + 1 + n)
  BY <1>2, <1>3, <1>4, <1>5, <1>6
<1> QED
  BY <1>7 DEF n

(* Joining the lines from m to n gives back the text they were split from. *)
LEMMA JoinedSpan ==
  ASSUME NEW T, Newline \in T, NEW s \in Seq(T), NEW ls \in LinesOf(T), NEW start,
         LaidOut(ls, start, s, Len(s)),
         NEW m \in 1 .. Len(ls), NEW n \in m .. Len(ls)
  PROVE  Joined(SubSeq(ls, m, n)) = SubSeq(s, start[m], start[n] + Len(ls[n]) - 1)
<1>0. Newline \in T
  OBVIOUS
<1>1. /\ Len(s) \in Nat /\ Len(ls) \in Nat /\ m \in Nat /\ n \in Nat /\ m \in Int /\ n \in Int
      /\ m <= n /\ n \in 1 .. Len(ls)
      /\ \A i \in 1 .. Len(ls) : ls[i] \in Seq(T) /\ Len(ls[i]) \in Nat
  BY LinesFacts
<1>2. /\ \A i \in 1 .. Len(ls) : start[i] \in Nat /\ Len(ls[i]) \in Nat
      /\ start[1] = 1
      /\ \A i \in 1 .. Len(ls) - 1 :
           start[i + 1] = start[i] + Len(ls[i]) + 1 /\ s[start[i + 1] - 1] = Newline
      /\ start[Len(ls)] + Len(ls[Len(ls)]) = Len(s) + 1
      /\ \A i \in 1 .. Len(ls) : \A k \in 1 .. Len(ls[i]) :
           ls[i][k] = s[start[i] + k - 1] /\ ls[i][k] # Newline
  BY SMTT(30), LineStarts
<1>3. \A i \in 1 .. Len(ls) : start[i] >= 1 /\ start[i] + Len(ls[i]) <= Len(s) + 1
  BY LineFits
<1> DEFINE part == SubSeq(ls, m, n)
<1>4. /\ part \in Seq(Seq(T)) /\ Len(part) = n - m + 1 /\ part # <<>>
      /\ \A i \in 1 .. n - m + 1 : part[i] = ls[m + i - 1]
  <2>1. \A i \in m .. n : ls[i] \in Seq(T)
    BY <1>1
  <2>2. /\ part \in Seq(Seq(T))
        /\ Len(part) = IF m <= n THEN n - m + 1 ELSE 0
        /\ \A i \in 1 .. n - m + 1 : part[i] = ls[m + i - 1]
    BY <1>1, <2>1, SubSeqProperties
  <2>3. Len(part) = n - m + 1
    BY <1>1, <2>2
  <2>4. part # <<>>
    <3> HIDE DEF part
    <3> QED
      BY <1>1, <2>2, <2>3, EmptySeq
  <2> QED
    BY <2>2, <2>3, <2>4
<1> HIDE DEF part
<1>5. PICK j : /\ Joined(part) = j[Len(part)]
               /\ j[1] = part[1]
               /\ \A k \in 1 .. Len(part) - 1 : j[k + 1] = WithLine(j[k], part[k + 1])
  BY <1>0, <1>4, PrefixJoined
<1> DEFINE end(i) == start[i] + Len(ls[i]) - 1
           S == {i \in m .. n : j[i - m + 1] # SubSeq(s, start[m], end(i))}
<1>6. SUFFICES ASSUME S # {}
               PROVE  FALSE
  <2>1. n \in m .. n /\ Len(part) = n - m + 1
    BY <1>1, <1>4
  <2>2. n \notin S => j[n - m + 1] = SubSeq(s, start[m], end(n))
    BY <2>1
  <2> QED
    BY <1>5, <2>1, <2>2 DEF part
<1>7. PICK i \in S : \A k \in S : i <= k
  <2>1. S \subseteq Nat
    BY <1>1
  <2> HIDE DEF S
  <2> QED
    BY <1>6, <2>1, LeastNatural
<1>8. i \in m .. n /\ i \in 1 .. Len(ls) /\ i \in Nat /\ j[i - m + 1] # SubSeq(s, start[m], end(i))
  BY <1>1, <1>7
<1>9. CASE i = m
  <2>1. j[i - m + 1] = ls[m]
    <3>1. i - m + 1 = 1 /\ 1 \in 1 .. n - m + 1 /\ m + 1 - 1 = m
      BY <1>1, <1>9
    <3> QED
      BY <1>4, <1>5, <3>1
  <2>2. ls[m] = SubSeq(s, start[m], start[m] + Len(ls[m]) - 1)
    <3>1. /\ ls[m] \in Seq(T) /\ start[m] \in Nat /\ start[m] >= 1
          /\ start[m] + Len(ls[m]) <= Len(s) + 1
          /\ \A k \in 1 .. Len(ls[m]) : ls[m][k] = s[start[m] + k - 1]
      BY <1>1, <1>2, <1>3
    <3> QED
      BY <3>1, LineSpan, ZenonT(30)
  <2> QED
    BY <1>8, <1>9, <2>1, <2>2
<1>10. CASE i # m
  <2> DEFINE h == i - 1
             e == end(h)
             k == h - m + 1
  <2>1. /\ h \in m .. n /\ h \in 1 .. Len(ls) - 1 /\ h \in 1 .. Len(ls) /\ h + 1 = i /\ ~ (i <= h)
        /\ k \in 1 .. n - m /\ k + 1 = i - m + 1 /\ k + 1 \in 1 .. n - m + 1 /\ m + (k + 1) - 1 = i
        /\ (n - m + 1) - 1 = n - m
    BY <1>1, <1>8, <1>10
  <2>2. j[k] = SubSeq(s, start[m], e)
    BY <1>7, <2>1
  <2>3. j[k + 1] = WithLine(j[k], ls[i])
    <3> HIDE DEF h, k
    <3>1. j[k + 1] = WithLine(j[k], part[k + 1])
      BY <1>4, <1>5, <2>1
    <3>2. part[k + 1] = ls[i]
      BY <1>4, <2>1
    <3> QED
      BY <3>1, <3>2
  <2>4. /\ start[i] = start[h] + Len(ls[h]) + 1 /\ s[start[i] - 1] = Newline
        /\ start[h] \in Nat /\ Len(ls[h]) \in Nat /\ start[h] >= 1
        /\ start[i] \in Nat /\ Len(ls[i]) \in Nat /\ start[i] + Len(ls[i]) <= Len(s) + 1
        /\ start[m] \in Nat /\ start[m] >= 1
    <3> HIDE DEF h
    <3>1. start[h + 1] = start[h] + Len(ls[h]) + 1 /\ s[start[h + 1] - 1] = Newline
      BY <1>2, <2>1
    <3> QED
      BY <1>2, <1>3, <1>8, <2>1, <3>1
  <2>5. start[m] <= start[h]
    <3> HIDE DEF h
    <3>1. CASE m = h
      BY <2>4, <3>1
    <3>2. CASE m # h
      <4>1. m < h
        BY <1>1, <2>1, <3>2
      <4>2. start[h] >= start[m] + Len(ls[m]) + 1
        BY <2>1, <4>1, LineOrder
      <4>3. Len(ls[m]) \in Nat
        BY <1>2
      <4> QED
        <5> DEFINE a == start[m]
                   b == Len(ls[m])
                   c == start[h]
        <5>1. a \in Nat /\ b \in Nat /\ c \in Nat /\ c >= a + b + 1
          BY <2>4, <4>2, <4>3
        <5> HIDE DEF a, b, c
        <5>2. a <= c
          BY <5>1
        <5> QED
          BY <5>2 DEF a, c
    <3> QED
      BY <3>1, <3>2
  <2>6. /\ start[i] = e + 2 /\ start[i] - 1 = e + 1 /\ e \in Int
        /\ start[m] \in 1 .. Len(s) + 1 /\ e \in start[m] - 1 .. Len(s) - 1
        /\ e + 1 + Len(ls[i]) <= Len(s) /\ end(i) = e + 1 + Len(ls[i])
    <3> HIDE DEF h
    <3> DEFINE total == Len(s)
               first == start[m]
               hs == start[h]
               hn == Len(ls[h])
               is == start[i]
               in == Len(ls[i])
               x == hs + hn - 1
    <3>1. /\ total \in Nat /\ first \in Nat /\ hs \in Nat /\ hn \in Nat /\ is \in Nat /\ in \in Nat
          /\ first >= 1 /\ first <= hs /\ is = hs + hn + 1 /\ is + in <= total + 1
      BY <1>1, <2>4, <2>5
    <3>2. e = x /\ end(i) = is + in - 1
      OBVIOUS
    <3> HIDE DEF e, end, total, first, hs, hn, is, in
    <3>3. /\ is = x + 2 /\ is - 1 = x + 1 /\ x \in Int
          /\ first \in 1 .. total + 1 /\ x \in first - 1 .. total - 1
          /\ x + 1 + in <= total /\ is + in - 1 = x + 1 + in
      BY <3>1
    <3> HIDE DEF x
    <3> QED
      BY <3>2, <3>3 DEF total, first, is, in
  <2> HIDE DEF e
  <2>7. s[e + 1] = Newline
    BY <2>4, <2>6
  <2>8. \A q \in 1 .. Len(ls[i]) : ls[i][q] = s[e + 1 + q]
    <3>1. ASSUME NEW q \in 1 .. Len(ls[i])
          PROVE  ls[i][q] = s[e + 1 + q]
      <4>1. start[i] + q - 1 = e + 1 + q
        BY <2>4, <2>6
      <4>2. ls[i][q] = s[start[i] + q - 1]
        BY <1>2, <1>8
      <4> QED
        BY <4>1, <4>2
    <3> QED
      BY <3>1
  <2>9. ls[i] \in Seq(T)
    BY <1>1, <1>8
  <2>10. WithLine(SubSeq(s, start[m], e), ls[i]) = SubSeq(s, start[m], e + 1 + Len(ls[i]))
    BY <1>0, <2>6, <2>7, <2>8, <2>9, JoinsSpan
  <2>11. j[i - m + 1] = SubSeq(s, start[m], end(i))
    BY <2>1, <2>2, <2>3, <2>6, <2>10
  <2> QED
    BY <1>8, <2>11
<1> QED
  BY <1>9, <1>10

(* The markers are in order exactly when a line stands between theirs.     *)
LEMMA LineBetween ==
  ASSUME NEW T, NEW s \in Seq(T), NEW ls \in LinesOf(T), NEW start,
         LaidOut(ls, start, s, Len(s)),
         NEW o \in OpeningLines(ls), NEW c \in ClosingLines(ls)
  PROVE  /\ start[c] - 1 >= start[o] + 2 <=> o + 1 < c
         /\ start[o + 1] = start[o] + 2
         /\ start[c] - 2 = start[c - 1] + Len(ls[c - 1]) - 1
<1>0. /\ Len(ls) \in Nat /\ o \in 1 .. Len(ls) - 1 /\ o \in 1 .. Len(ls) /\ o \in Nat /\ o + 1 \in 1 .. Len(ls)
      /\ c \in 2 .. Len(ls) /\ c \in 1 .. Len(ls) /\ c \in Nat
      /\ c - 1 \in 1 .. Len(ls) - 1 /\ c - 1 \in 1 .. Len(ls) /\ (c - 1) + 1 = c
      /\ ls[o] = <<OpenText>> /\ ls[c] = <<CloseText>>
  BY LinesFacts DEF OpeningLines, ClosingLines
<1>1. Len(ls[o]) = 1
  BY <1>0
<1>2. /\ \A i \in 1 .. Len(ls) : start[i] \in Nat /\ Len(ls[i]) \in Nat
      /\ start[1] = 1
      /\ \A i \in 1 .. Len(ls) - 1 :
           start[i + 1] = start[i] + Len(ls[i]) + 1 /\ s[start[i + 1] - 1] = Newline
      /\ start[Len(ls)] + Len(ls[Len(ls)]) = Len(s) + 1
      /\ \A i \in 1 .. Len(ls) : \A k \in 1 .. Len(ls[i]) :
           ls[i][k] = s[start[i] + k - 1] /\ ls[i][k] # Newline
  BY LinesFacts DEF LaidOut
<1>3. start[o + 1] = start[o] + 2 /\ start[o] \in Nat /\ start[o + 1] \in Nat
  <2>1. start[o + 1] = start[o] + Len(ls[o]) + 1 /\ start[o] \in Nat /\ start[o + 1] \in Nat
    BY <1>0, <1>2
  <2> QED
    BY <1>1, <2>1
<1>4. /\ start[c] = start[c - 1] + Len(ls[c - 1]) + 1
      /\ start[c] \in Nat /\ start[c - 1] \in Nat /\ Len(ls[c - 1]) \in Nat
  BY <1>0, <1>2
<1>5. start[c] - 2 = start[c - 1] + Len(ls[c - 1]) - 1
  BY SMTT(30), <1>4
<1>6. ASSUME o + 1 < c
      PROVE  start[c] - 1 >= start[o] + 2
  <2>1. start[c] >= start[o + 1] + Len(ls[o + 1]) + 1
    BY <1>0, <1>6, LineOrder
  <2>2. Len(ls[o + 1]) \in Nat
    BY <1>0, <1>2
  <2> QED
    BY SMTT(30), <1>3, <1>4, <2>1, <2>2
<1>7. ASSUME ~ (o + 1 < c)
      PROVE  ~ (start[c] - 1 >= start[o] + 2)
  <2>1. CASE c = o + 1
    BY <1>3, <2>1
  <2>2. CASE c = o
    BY <1>3, <2>2
  <2>3. CASE c < o
    <3>1. start[o] >= start[c] + Len(ls[c]) + 1
      BY <1>0, <2>3, LineOrder
    <3>2. Len(ls[c]) \in Nat
      BY <1>0, <1>2
    <3> QED
      BY <1>3, <1>4, <3>1, <3>2
  <2> QED
    BY <1>0, <1>7, <2>1, <2>2, <2>3
<1> QED
  BY <1>3, <1>5, <1>6, <1>7

\* Two lines that start at one place are one.
LEMMA StartsDiffer ==
  ASSUME NEW T, NEW s \in Seq(T), NEW ls \in LinesOf(T), NEW start,
         LaidOut(ls, start, s, Len(s)),
         NEW i \in 1 .. Len(ls), NEW j \in 1 .. Len(ls), start[i] = start[j]
  PROVE  i = j
<1>1. /\ Len(ls) \in Nat /\ i \in Nat /\ j \in Nat
      /\ \A k \in 1 .. Len(ls) : start[k] \in Nat /\ Len(ls[k]) \in Nat
  BY LinesFacts, LineStarts
<1>2. i < j => start[j] >= start[i] + Len(ls[i]) + 1
  BY LineOrder
<1>3. j < i => start[i] >= start[j] + Len(ls[j]) + 1
  BY LineOrder
<1>4. start[i] \in Nat /\ Len(ls[i]) \in Nat /\ Len(ls[j]) \in Nat
  BY <1>1
<1> QED
  BY <1>1, <1>2, <1>3, <1>4

\* Where the newline before a closing line stands.
Preceding(ls, start) == [i \in ClosingLines(ls) |-> start[i] - 1]

LEMMA MarkersOfBlock ==
  ASSUME NEW T, NEW s \in Seq(T), OpenText \in T, CloseText \in T,
         NEW ls \in LinesOf(T), NEW start, LaidOut(ls, start, s, Len(s))
  PROVE  /\ SingleTogether(Openers(s), OpeningLines(ls), start)
         /\ SingleTogether(Closers(s), ClosingLines(ls), Preceding(ls, start))
<1>0. OpenText \in T /\ CloseText \in T
  OBVIOUS
<1>1. /\ Len(ls) \in Nat /\ \A i \in 1 .. Len(ls) : start[i] \in Nat
      /\ OpeningLines(ls) \subseteq 1 .. Len(ls) /\ ClosingLines(ls) \subseteq 1 .. Len(ls)
  BY LinesFacts, LineStarts DEF OpeningLines, ClosingLines
<1>2. \A i, j \in 1 .. Len(ls) : start[i] = start[j] => i = j
  BY StartsDiffer
<1> DEFINE P == Openers(s)
           Q == Closers(s)
           I == OpeningLines(ls)
           J == ClosingLines(ls)
           before == Preceding(ls, start)
<1>3. \A p : p \in P <=> \E i \in I : p = start[i]
  BY <1>0, OpenersAreLines
<1>4. \A p : p \in Q <=> \E i \in J : p = start[i] - 1
  BY <1>0, ClosersAreLines
<1>5. \A i \in J : before[i] = start[i] - 1
  BY DEF Preceding
<1>6. I \subseteq 1 .. Len(ls) /\ J \subseteq 1 .. Len(ls)
  BY <1>1
<1> HIDE DEF P, Q, I, J, before
<1>7. \A i, j \in I : start[i] = start[j] => i = j
  BY <1>2, <1>6
<1>8. \A p : p \in Q <=> \E i \in J : p = before[i]
  BY <1>4, <1>5
<1>9. \A i, j \in J : before[i] = before[j] => i = j
  <2>1. ASSUME NEW i \in J, NEW j \in J, before[i] = before[j]
        PROVE  i = j
    <3>1. start[i] - 1 = start[j] - 1
      BY <1>5, <2>1
    <3>2. start[i] \in Nat /\ start[j] \in Nat
      BY <1>1, <1>6
    <3>3. start[i] = start[j]
      BY <3>1, <3>2
    <3> QED
      BY <1>2, <1>6, <3>3
  <2> QED
    BY <2>1
<1>10. InStep(P, I, start) /\ InStep(Q, J, before)
  BY <1>3, <1>7, <1>8, <1>9 DEF InStep
<1>11. SingleTogether(P, I, start) /\ SingleTogether(Q, J, before)
  BY <1>10, SinglesMatch
<1> QED
  BY <1>11 DEF P, Q, I, J, before

(* What the lines say of a block, for every text.                          *)
LEMMA BlockOfLines ==
  ASSUME NEW T, NEW s \in Seq(T), OpenText \in T, CloseText \in T, Newline \in T,
         NEW ls, ls = Lines(s)
  PROVE  /\ BlockIssue(s) = {} <=>
              \E o \in OpeningLines(ls), c \in ClosingLines(ls) :
                OpeningLines(ls) = {o} /\ ClosingLines(ls) = {c} /\ o + 1 < c
         /\ \A o \in OpeningLines(ls), c \in ClosingLines(ls) :
              OpeningLines(ls) = {o} /\ ClosingLines(ls) = {c} /\ o + 1 < c =>
                Payload(s) = Joined(SubSeq(ls, o + 1, c - 1))
<1>0. OpenText \in T /\ CloseText \in T /\ Newline \in T
  OBVIOUS
<1>1. ls \in LinesOf(T) /\ \E start : LaidOut(ls, start, s, Len(s))
  BY LinesTile
<1>2. PICK start : LaidOut(ls, start, s, Len(s))
  BY <1>1
<1>3. /\ \A o \in OpeningLines(ls) : Openers(s) = {start[o]} <=> OpeningLines(ls) = {o}
      /\ \A p : Openers(s) = {p} => \E o \in OpeningLines(ls) : p = start[o] /\ OpeningLines(ls) = {o}
      /\ \A c \in ClosingLines(ls) : Closers(s) = {start[c] - 1} <=> ClosingLines(ls) = {c}
      /\ \A p : Closers(s) = {p} => \E c \in ClosingLines(ls) : p = start[c] - 1 /\ ClosingLines(ls) = {c}
  <2>1. /\ SingleTogether(Openers(s), OpeningLines(ls), start)
        /\ SingleTogether(Closers(s), ClosingLines(ls), Preceding(ls, start))
    BY <1>0, <1>1, <1>2, MarkersOfBlock
  <2>2. \A c \in ClosingLines(ls) : Preceding(ls, start)[c] = start[c] - 1
    BY DEF Preceding
  <2>3. \A c \in ClosingLines(ls) : Closers(s) = {start[c] - 1} <=> ClosingLines(ls) = {c}
    <3>1. ASSUME NEW c \in ClosingLines(ls)
          PROVE  Closers(s) = {start[c] - 1} <=> ClosingLines(ls) = {c}
      <4>1. Closers(s) = {Preceding(ls, start)[c]} <=> ClosingLines(ls) = {c}
        BY <2>1 DEF SingleTogether
      <4>2. Preceding(ls, start)[c] = start[c] - 1
        BY <2>2
      <4> QED
        BY <4>1, <4>2
    <3> QED
      BY <3>1
  <2>4. ASSUME NEW p, Closers(s) = {p}
        PROVE  \E c \in ClosingLines(ls) : p = start[c] - 1 /\ ClosingLines(ls) = {c}
    <3>1. PICK c \in ClosingLines(ls) : p = Preceding(ls, start)[c] /\ ClosingLines(ls) = {c}
      BY <2>1, <2>4 DEF SingleTogether
    <3> QED
      BY <2>2, <3>1
  <2>5. /\ \A o \in OpeningLines(ls) : Openers(s) = {start[o]} <=> OpeningLines(ls) = {o}
        /\ \A p : Openers(s) = {p} => \E o \in OpeningLines(ls) : p = start[o] /\ OpeningLines(ls) = {o}
    BY <2>1 DEF SingleTogether
  <2> QED
    BY <2>3, <2>4, <2>5
<1>4. \A o \in OpeningLines(ls), c \in ClosingLines(ls) :
        /\ start[c] - 1 >= start[o] + 2 <=> o + 1 < c
        /\ start[o + 1] = start[o] + 2
        /\ start[c] - 2 = start[c - 1] + Len(ls[c - 1]) - 1
  BY <1>1, <1>2, LineBetween
<1>5. /\ Openers(s) \subseteq 1 .. Len(s) /\ Closers(s) \subseteq 1 .. Len(s)
      /\ OpeningLines(ls) \subseteq 1 .. Len(ls) - 1 /\ ClosingLines(ls) \subseteq 2 .. Len(ls)
  BY DEF Openers, Closers, OpeningLines, ClosingLines
<1>6. BlockIssue(s) = {} <=>
        \E a, b \in 1 .. Len(s) : Openers(s) = {a} /\ Closers(s) = {b} /\ b >= a + 2
  BY BlockFound
<1>7. ASSUME NEW a \in 1 .. Len(s), NEW b \in 1 .. Len(s),
             Openers(s) = {a}, Closers(s) = {b}, b >= a + 2
      PROVE  \E o \in OpeningLines(ls), c \in ClosingLines(ls) :
               OpeningLines(ls) = {o} /\ ClosingLines(ls) = {c} /\ o + 1 < c
  <2>1. PICK o \in OpeningLines(ls) : a = start[o] /\ OpeningLines(ls) = {o}
    BY <1>3, <1>7
  <2>2. PICK c \in ClosingLines(ls) : b = start[c] - 1 /\ ClosingLines(ls) = {c}
    BY <1>3, <1>7
  <2>3. start[c] - 1 >= start[o] + 2
    BY <1>7, <2>1, <2>2
  <2>4. o + 1 < c
    BY <1>4, <2>3
  <2> QED
    BY <2>1, <2>2, <2>4
<1>8. ASSUME NEW o \in OpeningLines(ls), NEW c \in ClosingLines(ls),
             OpeningLines(ls) = {o}, ClosingLines(ls) = {c}, o + 1 < c
      PROVE  /\ \E a, b \in 1 .. Len(s) : Openers(s) = {a} /\ Closers(s) = {b} /\ b >= a + 2
             /\ Payload(s) = Joined(SubSeq(ls, o + 1, c - 1))
  <2> DEFINE a == start[o]
             b == start[c] - 1
  <2>1. Openers(s) = {a}
    BY <1>3, <1>8
  <2>2. Closers(s) = {b}
    BY <1>3, <1>8
  <2>3. b >= a + 2
    BY <1>4, <1>8
  <2>4. start[o + 1] = a + 2 /\ start[c] - 2 = start[c - 1] + Len(ls[c - 1]) - 1
    BY <1>4
  <2>5. /\ o + 1 \in 1 .. Len(ls) /\ c - 1 \in o + 1 .. Len(ls)
        /\ start[c] \in Nat /\ start[c] - 2 = b - 1
    <3>1. /\ Len(ls) \in Nat /\ o \in 1 .. Len(ls) - 1 /\ c \in 2 .. Len(ls) /\ c \in 1 .. Len(ls)
      BY <1>1, <1>5, LinesFacts
    <3>2. start[c] \in Nat
      BY <1>1, <1>2, <3>1, LineStarts
    <3> QED
      BY <1>8, <3>1, <3>2
  <2> HIDE DEF a, b
  <2>6. a \in 1 .. Len(s) /\ b \in 1 .. Len(s)
    BY <1>5, <2>1, <2>2
  <2>7. PayloadStart(s) = a + 2 /\ PayloadEnd(s) = b
    <3>1. Len(OpenMarker) = 2
      BY DEF OpenMarker
    <3> QED
      BY <2>1, <2>2, <3>1 DEF PayloadStart, PayloadEnd
  <2>8. Payload(s) = SubSeq(s, start[o + 1], start[c - 1] + Len(ls[c - 1]) - 1)
    BY <2>4, <2>5, <2>7 DEF Payload
  <2>9. Joined(SubSeq(ls, o + 1, c - 1)) = SubSeq(s, start[o + 1], start[c - 1] + Len(ls[c - 1]) - 1)
    BY <1>0, <1>1, <1>2, <2>5, JoinedSpan
  <2> QED
    BY <2>1, <2>2, <2>3, <2>6, <2>8, <2>9
<1> QED
  BY <1>6, <1>7, <1>8

ResponseTokens == {OpenText, CloseText, Newline, Text}

LEMMA BlockHolds ==
  ASSUME data \in Seq(ResponseTokens)
  PROVE  BlockIsTheLinesBetween
<1> DEFINE T == ResponseTokens
           ls == Lines(data)
           opening == OpeningLines(ls)
           closing == ClosingLines(ls)
           blocks == {b \in opening \X closing :
                        opening = {b[1]} /\ closing = {b[2]} /\ b[1] + 1 < b[2]}
<1>1. OpenText \in T /\ CloseText \in T /\ Newline \in T
  BY DEF ResponseTokens
<1>2. /\ BlockIssue(data) = {} <=>
           \E o \in opening, c \in closing : opening = {o} /\ closing = {c} /\ o + 1 < c
      /\ \A o \in opening, c \in closing :
           opening = {o} /\ closing = {c} /\ o + 1 < c =>
             Payload(data) = Joined(SubSeq(ls, o + 1, c - 1))
  <2> HIDE DEF T, ls
  <2>1. data \in Seq(T) /\ ls = Lines(data)
    BY DEF T, ls
  <2> QED
    BY <1>1, <2>1, BlockOfLines
<1>3. opening = {i \in 1 .. Len(ls) - 1 : ls[i] = <<OpenText>>}
  BY DEF OpeningLines
<1>4. closing = {i \in 2 .. Len(ls) : ls[i] = <<CloseText>>}
  BY DEF ClosingLines
<1> HIDE DEF opening, closing, ls
<1>5. BlockIssue(data) = {} <=> blocks # {}
  <2>1. ASSUME NEW o \in opening, NEW c \in closing, opening = {o}, closing = {c}, o + 1 < c
        PROVE  blocks # {}
    <3>1. <<o, c>> \in blocks
      BY <2>1
    <3> QED
      BY <3>1
  <2>2. ASSUME NEW b \in blocks
        PROVE  \E o \in opening, c \in closing : opening = {o} /\ closing = {c} /\ o + 1 < c
    OBVIOUS
  <2> QED
    BY <1>2, <2>1, <2>2
<1>6. \A b \in blocks : Payload(data) = Joined(SubSeq(ls, b[1] + 1, b[2] - 1))
  BY <1>2
<1>7. LET bs == {b \in opening \X closing :
                   opening = {b[1]} /\ closing = {b[2]} /\ b[1] + 1 < b[2]}
      IN  /\ BlockIssue(data) = {} <=> bs # {}
          /\ \A b \in bs : Payload(data) = Joined(SubSeq(ls, b[1] + 1, b[2] - 1))
  BY <1>5, <1>6
<1> QED
  BY <1>3, <1>4, <1>7 DEF BlockIsTheLinesBetween, ls

(* _marker_positions and _delimited_payload find a block by byte offsets   *)
(* exactly where the lines of the response show one, and the payload they  *)
(* cut out is the lines between the two markers: for every response.       *)
THEOREM BlockIsAlwaysTheLinesBetween == TextSpec => []BlockIsTheLinesBetween
<1> DEFINE Inv == data \in Seq(ResponseTokens)
<1>1. TextInit => Inv
  BY DEF TextInit
<1>2. Inv /\ [TextNext]_textVars => Inv'
  BY DEF TextNext, Write, WriteDigit, textVars, ResponseTokens
<1>3. Inv => BlockIsTheLinesBetween
  BY BlockHolds
<1> HIDE DEF Inv
<1> QED
  BY <1>1, <1>2, <1>3, PTL DEF TextSpec

===============================================================================
