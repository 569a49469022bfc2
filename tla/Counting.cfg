\* Two acts over one or two items, counted and posted by two requests at once.
SPECIFICATION Spec
CONSTANTS
  a1 = a1
  a2 = a2
  i1 = i1
  i2 = i2
  r1 = r1
  r2 = r2
  Nobody = Nobody
  None = None
  NoFact = NoFact
  Act = {a1, a2}
  Item = {i1, i2}
  Request = {r1, r2}
  Shelf <- TwoEach
  Fact = {1}
  Moved = {3}
PROPERTIES
  EventsTellChange
CHECK_DEADLOCK FALSE
