SPECIFICATION NamedSpec
CONSTANTS
  None = None
  Routes = {"blob", "gone"}
  Lines = {"none", "n5"}
  Broken = {"gone"}
  Partials = 2
  Moves = 2
INVARIANT CommitNamed
CHECK_DEADLOCK FALSE
