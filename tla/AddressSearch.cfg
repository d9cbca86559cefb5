\* Three texts: a search given up, one that shares its task, and another.
SPECIFICATION Spec
CONSTANTS
  a = a
  b = b
  Queries <- MCQueries
  Found <- MCFound
  Elsewhere <- MCElsewhere
  MaxPoints = 3
  MaxTyped = 3
  MaxTime = 3
  Interval = 2
  TTL = 1
  MaxEntries = 1
INVARIANTS
  TypeOK
  ListIsOfText
  FieldsShowPoints
  RateBounded
