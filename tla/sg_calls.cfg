SPECIFICATION Spec
CONSTANTS
  w1 = w1
  w2 = w2
  g1 = g1
  g2 = g2
  p1 = p1
  p2 = p2
  Workers = {w1, w2}
  Groups = {g1, g2}
  NoGroup = NoGroup
  Rules = {r1, r2}
  r1 = r1
  r2 = r2
  NoRules = NoRules
  Gone = Gone
  Empty = Empty
  Mixed = Mixed
  Ports = {p1, p2}
  Switches = {1, 2}
  SwitchOf <- AllOn1
  Scenarios <- GroupScenarios
INVARIANTS
  RulesCurrent
  MembersFiltered
  OnlyMembersFiltered
CHECK_DEADLOCK FALSE
