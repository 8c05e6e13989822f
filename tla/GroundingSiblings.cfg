SPECIFICATION Spec
CONSTANTS
  Scale = 238266
  NPapers = 2
  CandidateK = 2
  MaxNavigations = 1
  SectionsPerPaper = 2
  SectionBudget = 1200
  ContextBudget = 2000
  HistoryMessages = 2
  HistoryBudget = 1000
  MaxEntries = 3
  Levels = {1, 2, 3}
  TargetPages <- MCTargetPages
  HeadingCounts <- MCHeadingCounts
  Replies <- MCReplies
  NPages = 6
  PageTexts <- MCPageTexts
  SummaryChars = 700
  LabelChars = 20
  Evidence <- MCEvidence
  Histories <- MCHistories
INVARIANTS
  EndsBeforeNextSibling
CHECK_DEADLOCK FALSE
