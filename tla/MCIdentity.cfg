\* Four starts with one path.
SPECIFICATION Spec
CONSTANTS
  Proc = {p1, p2, p3, p4}
  Absent = Absent
  Torn = Torn
INVARIANTS
  TypeOK
  IdentityPersists
PROPERTIES
  RefusedOnlyTorn
CHECK_DEADLOCK FALSE
