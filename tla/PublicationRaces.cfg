\* Two handlers at any of these; nobody skips a version number.
SPECIFICATION Spec
CONSTANTS
  Handlers = {h1, h2}
  Candidates = {1, 2}
  Rules = {r1, r2}
  MaxVersion = 2
  Kinds = {"review", "edit", "publish", "import"}
  Imports = {{r1, r2}}
  ExplicitNumbers = FALSE
SYMMETRY Interchangeable
INVARIANTS OneActiveVersion PublishedRowsNameTheirVersion
PROPERTY PublishesAreAtomic
CHECK_DEADLOCK FALSE
