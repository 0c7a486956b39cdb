CONSTANTS
  Pages = {p1, p2}
  Ports = {a, b}
  Databases = {"main", "other", "bad"}
  Usable = {"main", "other"}
  DefaultDb = "main"
  None = none
SPECIFICATION Spec
INVARIANTS
  RemembersPort
PROPERTY
  StatusHeals
