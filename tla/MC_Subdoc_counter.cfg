CONSTANTS
    InputOps <- MCInputOps
    ReplyStatuses <- MCReplyStatuses
    MaxSpecs = 2

INIT Init
NEXT SNext

INVARIANT CounterValueConverted

\* One method call is converted, sent and answered; then it has returned.
CHECK_DEADLOCK FALSE
