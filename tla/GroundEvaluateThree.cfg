\* Three atoms, up to four rules of at most one literal, one base status.
SPECIFICATION Spec
CONSTANTS
  Atom = {a1, a2, a3}
  RuleId <- MCRuleId
  Programs <- MCPrograms
  MaxRules = 4
  MaxBody = 1
  MaxBase = 1
INVARIANTS
  GreatestUnfoundedFound
  EvaluationIsWellFounded
