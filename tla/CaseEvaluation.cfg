\* Three readings, then the tracks they ask for, with every reply near a good one.
SPECIFICATION FairSpec
CONSTANTS
  Samples = {s1, s2, s3}
  Rule = rule
  Invented = invented
  Known = known
  Alias = alias
  Stray = stray
  Selector = selector
  RuleIds = {rule}
  CitableIds = {rule, invented}
  Units = {unit1, unit2}
  Names = {known, alias, stray}
  Catalogues <- SomeCatalogues
  Readings <- SomeReadings
  Informations <- SomeInformations
  Decisions <- SomeDecisions
INVARIANTS StatusIsEarned EachTrackIsReported
PROPERTIES EvaluationEnds
CHECK_DEADLOCK FALSE
