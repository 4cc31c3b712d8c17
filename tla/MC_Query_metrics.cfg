CONSTANTS
    FlagInputs <- MCFlagInputs
    OptionalCounts <- MCOptionalCounts
    MaxParams = 2
    MaxCount = 1

INIT Init
NEXT QNext

INVARIANT MetricsCopied

\* One query call is converted, sent and answered; then it has returned.
CHECK_DEADLOCK FALSE
