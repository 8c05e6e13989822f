SPECIFICATION FairSpec
CONSTANTS
  q1 = q1
  q2 = q2
  Questions = {q1, q2}
  Calls = {q1, q2}
  Topics = {t1}
  NoTopic = NoTopic
  MaxAttempts = 2
  MaxPosts = 2
  MaxTokens = 2
INVARIANTS
  TypeOK
  ClosedIsBeingReplaced
  RowTellsEnding
PROPERTIES
  PromiseSpec
  AnswersEnd
CHECK_DEADLOCK FALSE
