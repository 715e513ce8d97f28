\* A script that writes compact JSON; pipes of two lines.
SPECIFICATION PythonFairSpec
CONSTANTS
    PipeCap = 2
    Json = "compact"
CHECK_DEADLOCK FALSE
INVARIANT AnswersAreInStep
PROPERTY DeadChildEndsBehaviour
PROPERTY SlowChildIsSurvived
PROPERTY ChildEndsWithAgent
PROPERTY DeleteIsObeyed
