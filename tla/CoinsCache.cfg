SPECIFICATION Spec
CONSTANTS
  Keys = {k1}
  Values = {v1, v2}
  Pruned = Pruned
  Absent = Absent
  Blocks = {b1}
  Null = Null
  N = 3
PROPERTIES ImplementsLayers CallsExact
