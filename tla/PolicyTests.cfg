\* Blind batches, reviews, publications and their re-runs, two handlers at a time.
SPECIFICATION Spec
CONSTANTS
  Handlers = {h1, h2}
  Tests = {t1, t2}
  Batches = {b1}
  None = None
  MaxVersion = 2
SYMMETRY Symmetry
INVARIANTS
  TypeOK
  BlindUntilRun
  GuardsAreAcceptedByPeople
  RerunCoversGuards
