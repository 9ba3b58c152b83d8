\* Two atoms: every body, every base, up to two rules.
SPECIFICATION FairSpec
CONSTANTS
  Atom = {a1, a2}
  RuleId <- MCRuleId
  Programs <- MCPrograms
  MaxRules = 2
  MaxBody = 4
  MaxBase = 2
INVARIANTS
  TypeOK
  CollisionOnlyFromBase
  ExclusionsStayJustified
  RaisesExactlyWhenContradicted
  ResolvingOpenNeverFlips
PROPERTIES
  RoundsOnlyAdvance
  ImplementsIteration
  Terminates
