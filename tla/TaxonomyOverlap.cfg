SPECIFICATION Spec
CONSTANTS
  Topics = {t1, t2, t3}
  NoTopic = NoTopic
  Names = {n1, n2, n3}
  NoName = NoName
  Papers = {p1}
  Editors = {e1, e2}
  MaxTopicDepth = 1
INVARIANTS
  NoDangling
  ScopesAgree
  CountsMatchFilter
PROPERTIES
  NoPaperLosesItsTopics
  MergeKeepsSubtree
SYMMETRY Symmetry
CHECK_DEADLOCK FALSE
