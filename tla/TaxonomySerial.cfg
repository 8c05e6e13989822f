SPECIFICATION Spec
CONSTANTS
  Topics = {t1, t2, t3, t4}
  NoTopic = NoTopic
  Names = {n1, n2, n3, n4}
  NoName = NoName
  Papers = {p1}
  Editors = {e1}
  MaxTopicDepth = 3
INVARIANTS
  TypeOK
  Acyclic
PROPERTIES
  ForestSpec
  DeleteKeepsRest
SYMMETRY Symmetry
CHECK_DEADLOCK FALSE
