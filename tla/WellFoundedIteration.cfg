\* Three atoms, up to three rules of at most one literal; every schedule.
SPECIFICATION Spec
CONSTANTS
  Atom = {a1, a2, a3}
  RuleId <- MCRuleId
  Programs <- MCPrograms
  MaxRules = 3
  MaxBody = 1
  MaxBase = 1
INVARIANTS
  ScheduleIndependent
  PartialResultSound
