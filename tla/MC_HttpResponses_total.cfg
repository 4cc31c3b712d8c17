CONSTANTS
    ServerCodes <- MCServerCodes
    MaxErrors = 2

INIT Init
NEXT HNext

INVARIANT DecodeTotal

\* One response is decoded; then nothing is left to do.
CHECK_DEADLOCK FALSE
