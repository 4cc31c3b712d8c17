CONSTANTS
    Manifests <- MCManifests
    MaxSection = 1
    MaxBody = 2

SPECIFICATION Spec

INVARIANT DecodeTotal

\* The body has parsed its one frame; a terminate or a crash ends the
\* process.
CHECK_DEADLOCK FALSE
