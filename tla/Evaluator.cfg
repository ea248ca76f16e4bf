\* One rule with any condition, or rules in conflict; facts come in one by one.
SPECIFICATION Spec
CONSTANTS
  Facts = {"f", "g"}
  Values <- SomeValues
  Conditions <- SomeConditions
  Depth <- SomeDepth
  Packages <- SomePackages
INVARIANTS MissingFactsSuffice OneSideDecides
PROPERTY VerdictsStand
CHECK_DEADLOCK FALSE
