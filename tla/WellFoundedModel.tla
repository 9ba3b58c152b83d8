-------------------------- MODULE WellFoundedModel --------------------------
(***************************************************************************)
(* The partition a ground program means, defined without any iteration:    *)
(* the alternating fixed point of two least models.  It is the yardstick   *)
(* for the evaluator, which computes the same thing by rounds of enabled   *)
(* rules and greatest unfounded sets.                                      *)
(*                                                                         *)
(* A protected-open atom may turn out to hold, so the over-estimate takes  *)
(* it as a fact and the under-estimate does not.  An atom the base         *)
(* excludes holds in neither, whatever rules it heads.                     *)
(***************************************************************************)
EXTENDS GroundProgram

\* The least set of atoms with the facts, closed under the rules.
LeastClosed(atoms, facts, rules) ==
  LET closed == {m \in SUBSET atoms :
                   /\ facts \subseteq m
                   /\ \A r \in rules : r.positive \subseteq m => r.head \in m}
  IN  {a \in atoms : \A m \in closed : a \in m}

Reduct(p, assumed) ==
  {r \in p.rules : r.negative \cap assumed = {} /\ r.head \notin p.base_excluded}

UnderEstimate(p, over) ==
  LeastClosed(p.atoms, p.base_live, Reduct(p, over))

OverEstimate(p, under) ==
  LeastClosed(p.atoms, p.base_live \cup p.protected_open, Reduct(p, under))

WellFoundedLive(p) ==
  LET prefixed == {s \in SUBSET p.atoms :
                     UnderEstimate(p, OverEstimate(p, s)) \subseteq s}
  IN  {a \in p.atoms : \A s \in prefixed : a \in s}

WellFoundedExcluded(p) == p.atoms \ OverEstimate(p, WellFoundedLive(p))

\* The base excludes an atom that the program nevertheless derives.
Contradicted(p) ==
  {a \in p.base_excluded :
     \E r \in p.rules :
        /\ r.head = a
        /\ DefinitelyEnabled(r, WellFoundedLive(p), WellFoundedExcluded(p))}

\* The program left when some open atoms of p turn out live or excluded.
Resolve(p, turned_live, turned_excluded) ==
  [atoms |-> p.atoms,
   rules |-> p.rules,
   base_live |-> p.base_live \cup turned_live,
   base_excluded |-> p.base_excluded \cup turned_excluded,
   protected_open |-> p.protected_open \ (turned_live \cup turned_excluded)]

Resolutions(p) ==
  {Resolve(p, l, e) : l \in SUBSET p.protected_open, e \in SUBSET p.protected_open}
=============================================================================
