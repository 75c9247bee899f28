SPECIFICATION FairPagesSpec
CONSTANTS
  None = None
  Routes = {"blob", "gone"}
  Lines = {"none", "n5"}
  Broken = {"gone"}
  Partials = 2
  Moves = 2
INVARIANTS
  RouteShown
  NamesResolve
  PagesTrue
  AddressesLead
  FilesTrue
PROPERTIES
  FillsIn
  ViewsSettle
CHECK_DEADLOCK FALSE
