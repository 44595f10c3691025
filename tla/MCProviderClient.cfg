CONSTANTS
  Char <- Characters
  Paragraphs <- TwoParagraphs
  Reports <- SmallReports
  Passages = 2
  Drafts <- SmallDrafts
  Verdicts <- SmallVerdicts
  MaxAfter = 2
  MaxPoll = 3
SPECIFICATION Spec
INVARIANT TypeOK
INVARIANT OneSubmission
INVARIANT UsageSettled
INVARIANT ApprovedOnly
INVARIANT MarksTheSameText
PROPERTY CallsEnd
CHECK_DEADLOCK FALSE
