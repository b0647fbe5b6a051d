\* M0 may never send another request once its requests are used up.
CONSTANTS
  MaxTimeouts = 2
  MaxOps = 4
SPECIFICATION FairSpec
CHECK_DEADLOCK FALSE
INVARIANTS ResultOfRequest RunOnce NotForgotten
PROPERTY AnswerComes
