SPECIFICATION Spec
CONSTANTS
  Topics = {t1, t2}
  NoTopic = NoTopic
  Names = {n1, n2}
  NoName = NoName
  Papers = {p1}
  Editors = {e1, e2}
  MaxTopicDepth = 1
INVARIANTS
  Acyclic
CHECK_DEADLOCK FALSE
