SPECIFICATION Spec
CONSTANTS
  Scale = 238266
  NPapers = 4
  CandidateK = 3
  MaxNavigations = 3
  SectionsPerPaper = 2
  SectionBudget = 1200
  ContextBudget = 2000
  HistoryMessages = 2
  HistoryBudget = 1000
  MaxEntries = 4
  Levels = {1, 2, 3}
  TargetPages <- MCTargetPages
  HeadingCounts <- MCHeadingCounts
  Replies <- MCReplies
  NPages = 6
  PageTexts <- MCPageTexts
  SummaryChars = 700
  LabelChars = 20
  Evidence <- MCEvidence
  Histories <- MCHistories
INVARIANTS
  TypeOK
  IndexFollowsOutline
  CandidatesAreBest
  EvidenceIsUsed
PROPERTIES
  StrongestFit
CHECK_DEADLOCK FALSE
