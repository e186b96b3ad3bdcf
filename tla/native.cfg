SPECIFICATION CommandSpec
CONSTANT Files = 2
INVARIANTS FailureIsNeverPublished NoTokensUnderTheGate EveryFileIsReviewed
           SuccessIsTrue
CHECK_DEADLOCK FALSE
