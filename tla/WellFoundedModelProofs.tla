----------------------- MODULE WellFoundedModelProofs -----------------------
(***************************************************************************)
(* Facts about the reference partition, for every program: the laws of     *)
(* least models, what a partial result must satisfy to be part of the      *)
(* partition, that an inference keeps it, that a partial result which      *)
(* admits no inference is the whole partition, and when a program may be   *)
(* read at the level of some of its atoms.                                 *)
(***************************************************************************)
EXTENDS WellFoundedModel, TLAPS

Prefixed(p) ==
  {s \in SUBSET p.atoms : UnderEstimate(p, OverEstimate(p, s)) \subseteq s}

\* What follows from the base when exactly the excluded atoms are false.
Derivable(p, e) ==
  LeastClosed(p.atoms, p.base_live,
              {r \in p.rules : r.negative \subseteq e
                                 /\ r.head \notin p.base_excluded})

(* A partial result that belongs to every candidate for the partition.     *)
Grounded(p, l, e) ==
  /\ p.base_live \subseteq l /\ l \subseteq p.atoms
  /\ p.base_excluded \subseteq e /\ e \subseteq p.atoms
  /\ l \cap e = {}
  /\ l \subseteq Derivable(p, e)
  /\ \A s \in Prefixed(p) :
       /\ l \subseteq UnderEstimate(p, OverEstimate(p, s))
       /\ e \cap OverEstimate(p, s) = {}

-----------------------------------------------------------------------------
(* A least model is contained in every closed set.                         *)
LEMMA LeastBelow ==
  ASSUME NEW atoms, NEW facts, NEW rules, NEW m \in SUBSET atoms,
         facts \subseteq m,
         \A r \in rules : r.positive \subseteq m => r.head \in m
  PROVE  LeastClosed(atoms, facts, rules) \subseteq m
  BY DEF LeastClosed

(* A least model is closed itself.                                         *)
LEMMA LeastIsClosed ==
  ASSUME NEW atoms, NEW facts, NEW rules, facts \subseteq atoms,
         \A r \in rules : r.head \in atoms
  PROVE  /\ LeastClosed(atoms, facts, rules) \subseteq atoms
         /\ facts \subseteq LeastClosed(atoms, facts, rules)
         /\ \A r \in rules :
              r.positive \subseteq LeastClosed(atoms, facts, rules) =>
                r.head \in LeastClosed(atoms, facts, rules)
  BY DEF LeastClosed

(* More facts and more rules have more consequences.                       *)
LEMMA LeastMonotone ==
  ASSUME NEW atoms, NEW f1, NEW f2, NEW r1, NEW r2,
         f1 \subseteq f2, r1 \subseteq r2
  PROVE  LeastClosed(atoms, f1, r1) \subseteq LeastClosed(atoms, f2, r2)
  BY DEF LeastClosed

(* Every name in a well-formed program is one of its atoms.                *)
LEMMA NamesAreAtoms ==
  ASSUME NEW p, WellFormed(p)
  PROVE  /\ p.base_live \subseteq p.atoms
         /\ p.base_excluded \subseteq p.atoms
         /\ p.protected_open \subseteq p.atoms
         /\ p.base_live \cap p.base_excluded = {}
         /\ p.protected_open \cap (p.base_live \cup p.base_excluded) = {}
         /\ \A r \in p.rules : /\ r.head \in p.atoms
                               /\ r.positive \subseteq p.atoms
                               /\ r.negative \subseteq p.atoms
  BY DEF WellFormed, UnknownAtoms, Referenced, BaseCollision, OpenCollision

(* The two estimates, as the closed sets they are.                         *)
LEMMA EstimatesClosed ==
  ASSUME NEW p, WellFormed(p), NEW s
  PROVE  /\ UnderEstimate(p, s) \subseteq p.atoms
         /\ p.base_live \subseteq UnderEstimate(p, s)
         /\ \A r \in Reduct(p, s) :
              r.positive \subseteq UnderEstimate(p, s) => r.head \in UnderEstimate(p, s)
         /\ OverEstimate(p, s) \subseteq p.atoms
         /\ p.base_live \cup p.protected_open \subseteq OverEstimate(p, s)
         /\ \A r \in Reduct(p, s) :
              r.positive \subseteq OverEstimate(p, s) => r.head \in OverEstimate(p, s)
<1>1. /\ p.base_live \subseteq p.atoms
      /\ p.base_live \cup p.protected_open \subseteq p.atoms
      /\ \A r \in Reduct(p, s) : r.head \in p.atoms
  BY NamesAreAtoms DEF Reduct
<1> QED
  BY <1>1, LeastIsClosed DEF UnderEstimate, OverEstimate

(* Assuming more makes both estimates smaller.                             *)
LEMMA EstimatesAntitone ==
  ASSUME NEW p, NEW s, NEW t, s \subseteq t
  PROVE  /\ UnderEstimate(p, t) \subseteq UnderEstimate(p, s)
         /\ OverEstimate(p, t) \subseteq OverEstimate(p, s)
<1>1. Reduct(p, t) \subseteq Reduct(p, s)
  BY DEF Reduct
<1> QED
  BY <1>1, LeastMonotone DEF UnderEstimate, OverEstimate

(* The live part is itself a candidate, the least one.                     *)
LEMMA LiveIsPrefixed ==
  ASSUME NEW p, WellFormed(p)
  PROVE  WellFoundedLive(p) \in Prefixed(p)
<1> DEFINE w == WellFoundedLive(p)
<1>1. \A s \in Prefixed(p) : w \subseteq s
  BY DEF WellFoundedLive, Prefixed
<1>2. ASSUME NEW s \in Prefixed(p)
      PROVE  UnderEstimate(p, OverEstimate(p, w)) \subseteq s
  <2>1. w \subseteq s
    BY <1>1
  <2>2. OverEstimate(p, s) \subseteq OverEstimate(p, w)
    BY <2>1, EstimatesAntitone
  <2>3. UnderEstimate(p, OverEstimate(p, w)) \subseteq UnderEstimate(p, OverEstimate(p, s))
    BY <2>2, EstimatesAntitone
  <2> QED
    BY <2>3 DEF Prefixed
<1>3. UnderEstimate(p, OverEstimate(p, w)) \subseteq p.atoms
  BY EstimatesClosed
<1>4. UnderEstimate(p, OverEstimate(p, w)) \subseteq w
  BY <1>2, <1>3 DEF WellFoundedLive, Prefixed
<1> QED
  BY <1>4 DEF Prefixed, WellFoundedLive

(* The live part is exactly what its own estimates derive.                 *)
LEMMA FixedPoint ==
  ASSUME NEW p, WellFormed(p)
  PROVE  UnderEstimate(p, OverEstimate(p, WellFoundedLive(p))) = WellFoundedLive(p)
<1> DEFINE w == WellFoundedLive(p)
           v == UnderEstimate(p, OverEstimate(p, w))
<1>1. v \subseteq w
  BY LiveIsPrefixed DEF Prefixed
<1>2. UnderEstimate(p, OverEstimate(p, v)) \subseteq v
  <2>1. OverEstimate(p, w) \subseteq OverEstimate(p, v)
    BY <1>1, EstimatesAntitone
  <2> QED
    BY <2>1, EstimatesAntitone
<1>3. v \in SUBSET p.atoms
  BY EstimatesClosed
<1>4. w \subseteq v
  BY <1>2, <1>3 DEF WellFoundedLive
<1> QED
  BY <1>1, <1>4

-----------------------------------------------------------------------------
(* Evaluation starts grounded.                                             *)
LEMMA BaseGrounded ==
  ASSUME NEW p, WellFormed(p)
  PROVE  Grounded(p, p.base_live, p.base_excluded)
<1> DEFINE derivers == {r \in p.rules : r.negative \subseteq p.base_excluded
                                          /\ r.head \notin p.base_excluded}
<1>1. p.base_live \subseteq Derivable(p, p.base_excluded)
  <2>1. \A r \in derivers : r.head \in p.atoms
    BY NamesAreAtoms
  <2> QED
    BY <2>1, NamesAreAtoms, LeastIsClosed DEF Derivable
<1>2. ASSUME NEW s
      PROVE  p.base_excluded \cap OverEstimate(p, s) = {}
  <2> DEFINE o == OverEstimate(p, s) \ p.base_excluded
  <2>1. o \in SUBSET p.atoms
    BY EstimatesClosed
  <2>2. p.base_live \cup p.protected_open \subseteq o
    BY EstimatesClosed, NamesAreAtoms
  <2>3. \A r \in Reduct(p, s) : r.positive \subseteq o => r.head \in o
    BY EstimatesClosed DEF Reduct
  <2>4. OverEstimate(p, s) \subseteq o
    <3> HIDE DEF o
    <3> QED
      BY <2>1, <2>2, <2>3, LeastBelow DEF OverEstimate
  <2> QED
    BY <2>4
<1> QED
  BY <1>1, <1>2, NamesAreAtoms, EstimatesClosed DEF Grounded

(* An inference from a grounded partial result is grounded.                *)
LEMMA InferenceGrounded ==
  ASSUME NEW p, WellFormed(p), NEW l, NEW e, Grounded(p, l, e),
         NEW h, h \subseteq EnabledHeads(p, l, e), h \cap e = {},
         NEW u \in SUBSET p.atoms,
         u \cap (p.protected_open \cup l \cup h) = {},
         ExternallySupported(p, u, l \cup h, e) = {}
  PROVE  Grounded(p, l \cup h, e \cup u)
<1>1. /\ h \subseteq p.atoms
      /\ (l \cup h) \cap (e \cup u) = {}
  BY NamesAreAtoms DEF Grounded, EnabledHeads, EnabledRules
<1>2. l \cup h \subseteq Derivable(p, e \cup u)
  <2> DEFINE
        rulesOf(x) == {r \in p.rules : r.negative \subseteq x
                                         /\ r.head \notin p.base_excluded}
  <2>1. Derivable(p, e) \subseteq Derivable(p, e \cup u)
    <3>1. rulesOf(e) \subseteq rulesOf(e \cup u)
      OBVIOUS
    <3> QED
      BY <3>1, LeastMonotone DEF Derivable
  <2>2. ASSUME NEW a \in h
        PROVE  a \in Derivable(p, e)
    <3>1. PICK r \in p.rules : r.head = a /\ r.positive \subseteq l /\ r.negative \subseteq e
      BY DEF EnabledHeads, EnabledRules, DefinitelyEnabled
    <3>2. r \in rulesOf(e) /\ r.positive \subseteq Derivable(p, e)
      BY <3>1 DEF Grounded
    <3>3. /\ p.base_live \subseteq p.atoms
          /\ \A x \in rulesOf(e) : x.head \in p.atoms
      BY NamesAreAtoms
    <3> QED
      BY <3>1, <3>2, <3>3, LeastIsClosed DEF Derivable
  <2> QED
    BY <2>1, <2>2 DEF Grounded
<1>3. ASSUME NEW s \in Prefixed(p)
      PROVE  /\ l \cup h \subseteq UnderEstimate(p, OverEstimate(p, s))
             /\ (e \cup u) \cap OverEstimate(p, s) = {}
  <2> DEFINE over == OverEstimate(p, s)
             under == UnderEstimate(p, over)
  <2>1. l \subseteq under /\ e \cap over = {} /\ under \subseteq s
    BY DEF Grounded, Prefixed
  <2>2. ASSUME NEW a \in h
        PROVE  a \in under
    <3>1. PICK r \in p.rules : r.head = a /\ r.positive \subseteq l /\ r.negative \subseteq e
      BY DEF EnabledHeads, EnabledRules, DefinitelyEnabled
    <3>2. r \in Reduct(p, over) /\ r.positive \subseteq under
      BY <2>1, <3>1 DEF Reduct, Grounded
    <3> QED
      BY <3>1, <3>2, EstimatesClosed
  <2>3. l \cup h \subseteq s
    BY <2>1, <2>2
  <2> DEFINE o == over \ u
  <2>4. o \in SUBSET p.atoms
    BY EstimatesClosed
  <2>5. p.base_live \cup p.protected_open \subseteq o
    BY EstimatesClosed DEF Grounded
  <2>6. ASSUME NEW r \in Reduct(p, s), r.positive \subseteq o
        PROVE  r.head \in o
    <3>1. r.head \in over
      BY <2>6, EstimatesClosed
    <3>2. ~ Blocked(r, l \cup h, e) /\ r.positive \cap u = {}
      BY <2>1, <2>3, <2>6 DEF Blocked, Reduct
    <3>3. r.head \notin u
      BY <3>2 DEF ExternallySupported, SupportsFromOutside, Reduct
    <3> QED
      BY <3>1, <3>3
  <2>7. over \subseteq o
    <3> HIDE DEF o
    <3> QED
      BY <2>4, <2>5, <2>6, LeastBelow DEF OverEstimate
  <2> QED
    BY <2>1, <2>2, <2>7
<1> QED
  BY <1>1, <1>2, <1>3 DEF Grounded

(* A grounded partial result is part of the well-founded partition.        *)
LEMMA GroundedSound ==
  ASSUME NEW p, WellFormed(p), NEW l, NEW e, Grounded(p, l, e)
  PROVE  l \subseteq WellFoundedLive(p) /\ e \subseteq WellFoundedExcluded(p)
<1>1. WellFoundedLive(p) \in Prefixed(p)
  BY LiveIsPrefixed
<1> QED
  BY <1>1 DEF Grounded, WellFoundedExcluded, Prefixed

(* A grounded partial result from which nothing more can be inferred is    *)
(* the well-founded partition, and the base contradicts no rule.           *)
LEMMA StuckIsComplete ==
  ASSUME NEW p, WellFormed(p), NEW l, NEW e, Grounded(p, l, e),
         EnabledHeads(p, l, e) \subseteq l,
         \A u \in SUBSET (p.atoms \ (p.protected_open \cup l)) :
            ExternallySupported(p, u, l, e) = {} => u \subseteq e
  PROVE  /\ l = WellFoundedLive(p)
         /\ e = WellFoundedExcluded(p)
         /\ Contradicted(p) = {}
<1> DEFINE over == OverEstimate(p, l)
           u == (p.atoms \ over) \ p.base_excluded
<1>1. l \subseteq over
  <2>1. over \in SUBSET p.atoms /\ p.base_live \subseteq over
    BY EstimatesClosed
  <2>2. ASSUME NEW r \in p.rules, r.negative \subseteq e,
               r.head \notin p.base_excluded, r.positive \subseteq over
        PROVE  r.head \in over
    BY <2>2, EstimatesClosed DEF Grounded, Reduct
  <2>3. Derivable(p, e) \subseteq over
    <3> HIDE DEF over
    <3> QED
      BY <2>1, <2>2, LeastBelow DEF Derivable
  <2> QED
    BY <2>3 DEF Grounded
<1>2. u \in SUBSET (p.atoms \ (p.protected_open \cup l))
  BY <1>1, EstimatesClosed
<1>3. ExternallySupported(p, u, l, e) = {}
  <2> SUFFICES ASSUME NEW a \in u, NEW r \in p.rules, r.head = a,
                      ~ Blocked(r, l, e), r.positive \cap u = {}
               PROVE  FALSE
    BY DEF ExternallySupported, SupportsFromOutside
  <2>1. r.positive \subseteq over
    BY NamesAreAtoms DEF Blocked, Grounded
  <2>2. r \in Reduct(p, l)
    BY DEF Reduct, Blocked
  <2> QED
    BY <2>1, <2>2, EstimatesClosed
<1>4. p.atoms \ over \subseteq e
  BY <1>2, <1>3 DEF Grounded
<1>5. l \in Prefixed(p)
  <2>1. ASSUME NEW r \in Reduct(p, over), r.positive \subseteq l
        PROVE  r.head \in l
    BY <1>4, <2>1, NamesAreAtoms
    DEF Reduct, EnabledHeads, EnabledRules, DefinitelyEnabled
  <2>2. UnderEstimate(p, over) \subseteq l
    <3> HIDE DEF over
    <3> QED
      BY <2>1, LeastBelow DEF UnderEstimate, Grounded
  <2> QED
    BY <2>2 DEF Prefixed, Grounded
<1>6. l = WellFoundedLive(p)
  BY <1>5, GroundedSound DEF WellFoundedLive, Prefixed
<1>7. e = WellFoundedExcluded(p)
  BY <1>4, <1>6, GroundedSound DEF WellFoundedExcluded
<1>8. Contradicted(p) = {}
  BY <1>6, <1>7 DEF Contradicted, EnabledHeads, EnabledRules, Grounded
<1> QED
  BY <1>6, <1>7, <1>8

(* Resolving open atoms only adds to both parts of the partition.          *)
LEMMA ResolutionExtends ==
  ASSUME NEW p, WellFormed(p), NEW q \in Resolutions(p), WellFormed(q),
         Contradicted(q) = {}
  PROVE  /\ WellFoundedLive(p) \subseteq WellFoundedLive(q)
         /\ WellFoundedExcluded(p) \subseteq WellFoundedExcluded(q)
<1>1. /\ q.atoms = p.atoms /\ q.rules = p.rules
      /\ p.base_live \subseteq q.base_live
      /\ p.base_excluded \subseteq q.base_excluded
      /\ q.base_live \cup q.protected_open \subseteq p.base_live \cup p.protected_open
  <2>1. PICK l \in SUBSET p.protected_open, x \in SUBSET p.protected_open :
          q = Resolve(p, l, x)
    BY DEF Resolutions
  <2> QED
    BY <2>1 DEF Resolve
<1>2. \A s : OverEstimate(q, s) \subseteq OverEstimate(p, s)
  BY <1>1, LeastMonotone DEF OverEstimate, Reduct
<1> DEFINE w == WellFoundedLive(q)
<1>3. w \in SUBSET p.atoms /\ UnderEstimate(q, OverEstimate(q, w)) \subseteq w
  BY <1>1, LiveIsPrefixed DEF Prefixed
<1>4. UnderEstimate(p, OverEstimate(p, w)) \subseteq w
  <2>1. p.base_live \subseteq w
    BY <1>1, <1>3, EstimatesClosed
  <2>2. ASSUME NEW r \in Reduct(p, OverEstimate(p, w)), r.positive \subseteq w
        PROVE  r.head \in w
    <3>1. r \in q.rules /\ r.negative \cap OverEstimate(q, w) = {}
      BY <1>1, <1>2, <2>2 DEF Reduct
    <3>2. r.negative \subseteq WellFoundedExcluded(q)
      BY <3>1, NamesAreAtoms DEF WellFoundedExcluded
    <3>3. r.head \notin q.base_excluded
      BY <2>2, <3>1, <3>2 DEF Contradicted, DefinitelyEnabled
    <3>4. UnderEstimate(q, OverEstimate(q, w)) = w
      BY <1>1, <1>3, FixedPoint
    <3> QED
      BY <2>2, <3>1, <3>3, <3>4, EstimatesClosed DEF Reduct
  <2> QED
    BY <1>3, <2>1, <2>2, LeastBelow DEF UnderEstimate
<1>5. WellFoundedLive(p) \subseteq w
  BY <1>3, <1>4 DEF WellFoundedLive
<1>6. OverEstimate(q, w) \subseteq OverEstimate(p, WellFoundedLive(p))
  BY <1>2, <1>5, EstimatesAntitone
<1> QED
  BY <1>1, <1>5, <1>6 DEF WellFoundedExcluded

-----------------------------------------------------------------------------
(* Folding.  A program is read at the level of some of its atoms: what     *)
(* leads to one of them is a case, and a case is read as what it demands   *)
(* of these atoms and one word on the rest of it.                          *)
Truths == {"LIVE", "EXCLUDED", "SUSPENDED"}

(* The rule a case is read as.                                             *)
Reads(d, r, i, undecided) ==
  /\ r \in d.rules /\ i.says # "EXCLUDED"
  /\ r.head = i.head /\ r.negative = i.unless
  /\ r.positive = i.before \cup IF i.says = "SUSPENDED" THEN {undecided} ELSE {}

(* d has the atoms own of p with their base statuses, and one atom that    *)
(* stays open; and its rules are the readings of the cases.                *)
Restricts(p, d, own, undecided, cases) ==
  /\ own \subseteq p.atoms /\ undecided \notin p.atoms
  /\ d.atoms = own \cup {undecided}
  /\ d.base_live = p.base_live \cap own
  /\ d.base_excluded = p.base_excluded \cap own
  /\ d.protected_open = (p.protected_open \cap own) \cup {undecided}
  /\ \A r \in d.rules : \E i \in cases : Reads(d, r, i, undecided)
  /\ \A i \in cases : i.says # "EXCLUDED" => \E r \in d.rules : Reads(d, r, i, undecided)

(* A case is an atom of p that rules alone conclude, all of which demand   *)
(* what it demands; and only cases conclude the atoms in own.              *)
Bridged(p, own, i) ==
  /\ i.head \in own \ p.base_excluded
  /\ i.before \subseteq own /\ i.unless \subseteq own
  /\ i.case \in p.atoms \ (own \cup p.base_live \cup p.protected_open)
  /\ \E g \in p.rules : g.head = i.head /\ g.positive = {i.case} /\ g.negative = {}
  /\ \A g \in p.rules :
       g.head = i.case => i.before \subseteq g.positive /\ i.unless \subseteq g.negative

Bridges(p, own, cases) ==
  /\ \A i \in cases : Bridged(p, own, i)
  /\ \A g \in p.rules :
       g.head \in own => \E i \in cases : g.head = i.head /\ g.positive = {i.case}

(* The word on the rest of a case is what p makes of it.                   *)
Tells(p, i) ==
  /\ i.says \in Truths
  /\ i.case \in WellFoundedLive(p) => i.says = "LIVE"
  /\ /\ i.says = "LIVE" /\ i.before \subseteq WellFoundedLive(p)
     /\ i.unless \subseteq WellFoundedExcluded(p)
     => i.case \in WellFoundedLive(p)
  /\ i.case \notin WellFoundedExcluded(p) =>
       i.says # "EXCLUDED" /\ i.unless \cap WellFoundedLive(p) = {}
  /\ \A s \in SUBSET WellFoundedLive(p) :
       /\ i.says # "EXCLUDED" /\ i.unless \cap s = {}
       /\ i.before \subseteq OverEstimate(p, s)
       => i.case \in OverEstimate(p, s)

Folds(p, d, own, undecided, cases) ==
  /\ WellFormed(p) /\ WellFormed(d)
  /\ Restricts(p, d, own, undecided, cases)
  /\ Bridges(p, own, cases)
  /\ \A i \in cases : Tells(p, i)

(* The head of a bridge follows from its case, whatever is assumed.        *)
LEMMA CaseConcludes ==
  ASSUME NEW p, WellFormed(p), NEW own, NEW cases, Bridges(p, own, cases), NEW i \in cases, NEW s
  PROVE  /\ i.case \in UnderEstimate(p, s) => i.head \in UnderEstimate(p, s)
         /\ i.case \in OverEstimate(p, s) => i.head \in OverEstimate(p, s)
<1>1. PICK g \in p.rules : g.head = i.head /\ g.positive = {i.case} /\ g.negative = {}
  BY DEF Bridges, Bridged
<1>2. i.head \notin p.base_excluded
  BY DEF Bridges, Bridged
<1>3. g \in Reduct(p, s)
  BY <1>1, <1>2 DEF Reduct
<1>4. /\ g.positive \subseteq UnderEstimate(p, s) => g.head \in UnderEstimate(p, s)
      /\ g.positive \subseteq OverEstimate(p, s) => g.head \in OverEstimate(p, s)
  BY <1>3, EstimatesClosed
<1> QED
  BY <1>1, <1>4

(* What the reading may hold, the program may.                             *)
LEMMA OverLifts ==
  ASSUME NEW p, NEW d, NEW own, NEW undecided, NEW cases, Folds(p, d, own, undecided, cases),
         NEW s \in SUBSET WellFoundedLive(p), NEW w, s \cap own \subseteq w
  PROVE  OverEstimate(d, w) \subseteq OverEstimate(p, s) \cup {undecided}
<1> DEFINE m == {a \in d.atoms : a \in OverEstimate(p, s) \cup {undecided}}
<1>1. /\ WellFormed(p) /\ WellFormed(d) /\ Restricts(p, d, own, undecided, cases)
      /\ Bridges(p, own, cases) /\ \A i \in cases : Tells(p, i)
  BY DEF Folds
<1>2. d.base_live \cup d.protected_open \subseteq m
  <2>1. p.base_live \cup p.protected_open \subseteq OverEstimate(p, s)
    BY <1>1, EstimatesClosed
  <2> QED
    BY <1>1, <2>1 DEF Restricts
<1>3. ASSUME NEW r \in Reduct(d, w), r.positive \subseteq m
      PROVE  r.head \in m
  <2>1. r \in d.rules /\ r.negative \cap w = {}
    BY DEF Reduct
  <2>2. PICK i \in cases : Reads(d, r, i, undecided)
    BY <1>1, <2>1 DEF Restricts
  <2>3. /\ i.head \in own /\ i.before \subseteq own /\ i.unless \subseteq own
    BY <1>1 DEF Bridges, Bridged
  <2>4. undecided \notin own
    BY <1>1 DEF Restricts
  <2>5. i.before \subseteq OverEstimate(p, s)
    BY <1>3, <2>2, <2>3, <2>4 DEF Reads
  <2>6. i.says # "EXCLUDED" /\ i.unless \cap s = {}
    BY <2>1, <2>2, <2>3 DEF Reads
  <2>7. i.case \in OverEstimate(p, s)
    BY <1>1, <2>5, <2>6 DEF Tells
  <2>8. i.head \in OverEstimate(p, s)
    BY <1>1, <2>7, CaseConcludes
  <2> QED
    BY <1>1, <2>2, <2>3, <2>8 DEF Reads, Restricts
<1>4. m \in SUBSET d.atoms
  OBVIOUS
<1> HIDE DEF m
<1>5. OverEstimate(d, w) \subseteq m
  BY <1>2, <1>3, <1>4, LeastBelow DEF OverEstimate
<1> QED
  BY <1>5 DEF m

(* What the program may hold of its own atoms, the reading may.            *)
LEMMA OverFolds ==
  ASSUME NEW p, NEW d, NEW own, NEW undecided, NEW cases, Folds(p, d, own, undecided, cases)
  PROVE  OverEstimate(p, WellFoundedLive(p)) \cap own
           \subseteq OverEstimate(d, WellFoundedLive(p) \cap own)
<1> DEFINE live == WellFoundedLive(p)
           over == OverEstimate(p, live)
           read == OverEstimate(d, live \cap own)
           m == {a \in over : /\ a \in own => a \in read
                              /\ \A i \in cases : a = i.case => i.before \subseteq read}
<1>1. /\ WellFormed(p) /\ WellFormed(d) /\ Restricts(p, d, own, undecided, cases)
      /\ Bridges(p, own, cases) /\ \A i \in cases : Tells(p, i)
  BY DEF Folds
<1>2. /\ over \subseteq p.atoms /\ p.base_live \cup p.protected_open \subseteq over
      /\ \A g \in Reduct(p, live) : g.positive \subseteq over => g.head \in over
  BY <1>1, EstimatesClosed
<1>3. /\ d.base_live \cup d.protected_open \subseteq read
      /\ \A r \in Reduct(d, live \cap own) : r.positive \subseteq read => r.head \in read
  BY <1>1, EstimatesClosed
<1>4. p.base_live \cup p.protected_open \subseteq m
  <2>1. \A i \in cases : i.case \notin p.base_live \cup p.protected_open
    BY <1>1 DEF Bridges, Bridged
  <2>2. (p.base_live \cup p.protected_open) \cap own \subseteq d.base_live \cup d.protected_open
    BY <1>1 DEF Restricts
  <2> QED
    BY <1>2, <1>3, <2>1, <2>2
<1>5. ASSUME NEW g \in Reduct(p, live), g.positive \subseteq m
      PROVE  g.head \in m
  <2>1. g \in p.rules /\ g.negative \cap live = {} /\ g.head \notin p.base_excluded
    BY DEF Reduct
  <2>2. g.head \in over
    BY <1>2, <1>5
  <2>3. ASSUME g.head \in own
        PROVE  g.head \in read
    <3>1. PICK i \in cases : g.head = i.head /\ g.positive = {i.case}
      BY <1>1, <2>1, <2>3 DEF Bridges, Bridged
    <3>2. i.case \in over /\ i.before \subseteq read
      BY <1>5, <3>1
    <3>3. i.case \notin WellFoundedExcluded(p)
      BY <3>2 DEF WellFoundedExcluded
    <3>4. i.says # "EXCLUDED" /\ i.unless \cap live = {}
      BY <1>1, <3>3 DEF Tells
    <3>5. PICK r \in d.rules : Reads(d, r, i, undecided)
      BY <1>1, <3>4 DEF Restricts
    <3>6. undecided \in read
      BY <1>1, <1>3 DEF Restricts
    <3>7. r.positive \subseteq read /\ r.negative \cap live = {} /\ r.head = g.head
      BY <3>1, <3>2, <3>4, <3>5, <3>6 DEF Reads
    <3>8. r.head \notin d.base_excluded
      BY <1>1, <2>1, <3>7 DEF Restricts
    <3>9. r \in Reduct(d, live \cap own)
      BY <3>7, <3>8 DEF Reduct
    <3> QED
      BY <1>3, <3>7, <3>9
  <2>4. ASSUME NEW i \in cases, g.head = i.case
        PROVE  i.before \subseteq read
    <3>1. i.before \subseteq g.positive /\ i.before \subseteq own
      BY <1>1, <2>1, <2>4 DEF Bridges, Bridged
    <3> QED
      BY <1>5, <3>1
  <2> QED
    BY <2>2, <2>3, <2>4
<1>6. m \in SUBSET p.atoms
  BY <1>2
<1>7. m \subseteq over /\ \A a \in m : a \in own => a \in read
  OBVIOUS
<1> HIDE DEF m
<1>8. over \subseteq m
  BY <1>4, <1>5, <1>6, LeastBelow DEF OverEstimate
<1> QED
  BY <1>7, <1>8

(* The reading infers nothing the program does not.                        *)
LEMMA ReadingIsSound ==
  ASSUME NEW p, NEW d, NEW own, NEW undecided, NEW cases, Folds(p, d, own, undecided, cases)
  PROVE  WellFoundedLive(d) \subseteq WellFoundedLive(p) \cap own
<1> DEFINE live == WellFoundedLive(p)
           read == OverEstimate(d, live \cap own)
<1>1. /\ WellFormed(p) /\ WellFormed(d) /\ Restricts(p, d, own, undecided, cases)
      /\ Bridges(p, own, cases) /\ \A i \in cases : Tells(p, i)
  BY DEF Folds
<1>2. /\ UnderEstimate(p, OverEstimate(p, live)) = live
      /\ p.base_live \subseteq UnderEstimate(p, OverEstimate(p, live))
  BY <1>1, FixedPoint, EstimatesClosed
<1>3. d.base_live \subseteq live \cap own
  BY <1>1, <1>2 DEF Restricts
<1>4. ASSUME NEW r \in Reduct(d, read), r.positive \subseteq live \cap own
      PROVE  r.head \in live \cap own
  <2>1. r \in d.rules /\ r.negative \cap read = {}
    BY DEF Reduct
  <2>2. PICK i \in cases : Reads(d, r, i, undecided)
    BY <1>1, <2>1 DEF Restricts
  <2>3. i.head \in own /\ i.unless \subseteq own
    BY <1>1 DEF Bridges, Bridged
  <2>4. undecided \notin own
    BY <1>1 DEF Restricts
  <2>5. i.says \in Truths
    BY <1>1 DEF Tells
  <2>6. i.says = "LIVE" /\ i.before \subseteq live
    BY <1>4, <2>2, <2>4, <2>5 DEF Reads, Truths
  <2>7. OverEstimate(p, live) \cap own \subseteq read
    BY OverFolds
  <2>8. i.unless \subseteq WellFoundedExcluded(p)
    <3>1. i.unless \cap OverEstimate(p, live) = {}
      BY <2>1, <2>2, <2>3, <2>7 DEF Reads
    <3>2. own \subseteq p.atoms
      BY <1>1 DEF Restricts
    <3> QED
      BY <2>3, <3>1, <3>2 DEF WellFoundedExcluded
  <2>9. i.case \in live
    BY <1>1, <2>6, <2>8 DEF Tells
  <2>10. i.head \in live
    BY <1>1, <1>2, <2>9, CaseConcludes
  <2> QED
    BY <2>2, <2>3, <2>10 DEF Reads
<1>5. PICK s : s = live \cap own
  OBVIOUS
<1>6. /\ s \in SUBSET d.atoms /\ d.base_live \subseteq s
      /\ \A r \in Reduct(d, read) : r.positive \subseteq s => r.head \in s
  BY <1>1, <1>3, <1>4, <1>5 DEF Restricts
<1>7. UnderEstimate(d, read) \subseteq s
  <2> HIDE DEF read
  <2> QED
    BY <1>6, LeastBelow DEF UnderEstimate
<1>8. UnderEstimate(d, OverEstimate(d, s)) \subseteq s
  BY <1>5, <1>7
<1>9. WellFoundedLive(d) \subseteq s
  BY <1>6, <1>8 DEF WellFoundedLive
<1> QED
  BY <1>5, <1>9

(* And it misses none of what the program infers of its own atoms.         *)
LEMMA ReadingIsComplete ==
  ASSUME NEW p, NEW d, NEW own, NEW undecided, NEW cases, Folds(p, d, own, undecided, cases)
  PROVE  WellFoundedLive(p) \cap own \subseteq WellFoundedLive(d)
<1> DEFINE live == WellFoundedLive(p)
           w == WellFoundedLive(d)
           read == OverEstimate(d, w)
           s == {a \in live : /\ a \in own => a \in w
                              /\ \A i \in cases :
                                   a = i.case => i.before \subseteq w /\ i.unless \cap read = {}}
<1>1. /\ WellFormed(p) /\ WellFormed(d) /\ Restricts(p, d, own, undecided, cases)
      /\ Bridges(p, own, cases) /\ \A i \in cases : Tells(p, i)
  BY DEF Folds
<1>2. /\ UnderEstimate(p, OverEstimate(p, live)) = live
      /\ UnderEstimate(d, read) = w
  BY <1>1, FixedPoint
<1>3. /\ p.base_live \subseteq live /\ d.base_live \subseteq w
      /\ live \subseteq p.atoms
      /\ \A g \in Reduct(p, OverEstimate(p, live)) : g.positive \subseteq live => g.head \in live
      /\ \A r \in Reduct(d, read) : r.positive \subseteq w => r.head \in w
  BY <1>1, <1>2, EstimatesClosed
<1>4. s \in SUBSET live /\ s \cap own \subseteq w
  OBVIOUS
<1>5. p.base_live \subseteq s
  <2>1. \A i \in cases : i.case \notin p.base_live
    BY <1>1 DEF Bridges, Bridged
  <2>2. p.base_live \cap own \subseteq d.base_live
    BY <1>1 DEF Restricts
  <2> QED
    BY <1>3, <2>1, <2>2
<1>6. read \subseteq OverEstimate(p, s) \cup {undecided}
  <2> HIDE DEF s
  <2> QED
    BY <1>4, OverLifts
<1>7. OverEstimate(p, live) \subseteq OverEstimate(p, s)
  <2> HIDE DEF s
  <2> QED
    BY <1>4, EstimatesAntitone
<1>8. ASSUME NEW g \in Reduct(p, OverEstimate(p, s)), g.positive \subseteq s
      PROVE  g.head \in s
  <2>1. g \in p.rules /\ g.negative \cap OverEstimate(p, s) = {} /\ g.head \notin p.base_excluded
    BY DEF Reduct
  <2>2. g \in Reduct(p, OverEstimate(p, live))
    BY <1>7, <2>1 DEF Reduct
  <2>3. g.head \in live
    BY <1>3, <1>8, <2>2
  <2>4. ASSUME g.head \in own
        PROVE  g.head \in w
    <3>1. PICK i \in cases : g.head = i.head /\ g.positive = {i.case}
      BY <1>1, <2>1, <2>4 DEF Bridges, Bridged
    <3>2. i.case \in live /\ i.before \subseteq w /\ i.unless \cap read = {}
      BY <1>8, <3>1
    <3>3. i.says = "LIVE"
      BY <1>1, <3>2 DEF Tells
    <3>4. PICK r \in d.rules : Reads(d, r, i, undecided)
      BY <1>1, <3>3 DEF Restricts
    <3>5. r.positive \subseteq w /\ r.negative \cap read = {} /\ r.head = g.head
      BY <3>1, <3>2, <3>3, <3>4 DEF Reads
    <3>6. r.head \notin d.base_excluded
      BY <1>1, <2>1, <3>5 DEF Restricts
    <3>7. r \in Reduct(d, read)
      BY <3>5, <3>6 DEF Reduct
    <3> QED
      BY <1>3, <3>5, <3>7
  <2>5. ASSUME NEW i \in cases, g.head = i.case
        PROVE  i.before \subseteq w /\ i.unless \cap read = {}
    <3>1. /\ i.before \subseteq g.positive /\ i.before \subseteq own
          /\ i.unless \subseteq g.negative /\ i.unless \subseteq own
      BY <1>1, <2>1, <2>5 DEF Bridges, Bridged
    <3>2. undecided \notin own
      BY <1>1 DEF Restricts
    <3>3. i.before \subseteq w
      BY <1>8, <3>1
    <3>4. i.unless \cap read = {}
      BY <1>6, <2>1, <3>1, <3>2
    <3> QED
      BY <3>3, <3>4
  <2> QED
    BY <2>3, <2>4, <2>5
<1>9. s \in SUBSET p.atoms
  BY <1>3
<1> HIDE DEF s
<1>10. UnderEstimate(p, OverEstimate(p, s)) \subseteq s
  BY <1>5, <1>8, <1>9, LeastBelow DEF UnderEstimate
<1>11. live \subseteq s
  BY <1>9, <1>10 DEF WellFoundedLive
<1> QED
  BY <1>4, <1>11

(* A reading of a program has the program's partition of their common      *)
(* atoms: what stands between two of these atoms in the program may be     *)
(* replaced by its verdict, whatever loops lead through them (the cases    *)
(* and gates compile_package puts between the atoms of a package).         *)
THEOREM FoldingAgrees ==
  ASSUME NEW p, NEW d, NEW own, NEW undecided, NEW cases, Folds(p, d, own, undecided, cases)
  PROVE  /\ WellFoundedLive(p) \cap d.atoms = WellFoundedLive(d)
         /\ WellFoundedExcluded(p) \cap d.atoms = WellFoundedExcluded(d)
<1> DEFINE live == WellFoundedLive(p)
           w == WellFoundedLive(d)
<1>1. WellFormed(p) /\ WellFormed(d) /\ Restricts(p, d, own, undecided, cases)
  BY DEF Folds
<1>2. live \cap own = w
  BY ReadingIsSound, ReadingIsComplete
<1>3. live \subseteq p.atoms
  BY DEF WellFoundedLive
<1>4. undecided \notin p.atoms /\ d.atoms = own \cup {undecided} /\ own \subseteq p.atoms
  BY <1>1 DEF Restricts
<1>5. live \cap d.atoms = w
  BY <1>2, <1>3, <1>4
<1>6. OverEstimate(p, live) \cap own \subseteq OverEstimate(d, w)
  BY <1>2, OverFolds
<1>7. OverEstimate(d, w) \subseteq OverEstimate(p, live) \cup {undecided}
  <2>1. live \in SUBSET WellFoundedLive(p) /\ live \cap own \subseteq w
    BY <1>2
  <2> QED
    BY <2>1, OverLifts
<1>8. undecided \in OverEstimate(d, w)
  BY <1>1, EstimatesClosed DEF Restricts
<1>9. WellFoundedExcluded(p) \cap d.atoms = WellFoundedExcluded(d)
  BY <1>4, <1>6, <1>7, <1>8 DEF WellFoundedExcluded
<1> QED
  BY <1>5, <1>9
=============================================================================
