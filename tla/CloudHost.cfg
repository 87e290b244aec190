SPECIFICATION Spec
CONSTANTS
  None = None
  Studies <- MCStudies
  Plans <- MCPlans
  Defects <- MCDefects
  Slack = 1
INVARIANTS
  RunsWhatWasChecked
  AllowancesHold
CHECK_DEADLOCK FALSE
