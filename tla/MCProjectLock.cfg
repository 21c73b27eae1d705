SPECIFICATION Spec
CONSTANTS
  a = a
  Torn = torn
  Missing = missing
  b = b
  Names = {a, b}
  Requires <- ANeedsB
  Sections = {"dependencies", "dev_dependencies"}
  Handmade = {a, b}
  MaxAdds = 3
  MaxEdits = 2
  MaxCrashes = 1
CHECK_DEADLOCK FALSE
INVARIANTS
  AddKeepsLocked
  RegistryAddRepairs
