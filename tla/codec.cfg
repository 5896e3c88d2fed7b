\* Batches of up to two messages, every place they can be cut at, ends built from
\* one description or from two.  Lists of three elements are too long.
CONSTANTS
    MaxVersions = 3
    MaxProtocols = 3
    MaxArray = 3
    Samples <- AllSamples
    Descriptions <- AllDescriptions
    Boundaries <- VarIntBoundaries
    ObjectId = 9
    NewSeq = 19
    MaxBatch = 2

SPECIFICATION Spec
CHECK_DEADLOCK FALSE
INVARIANTS VarIntsReadBack TakenAsSent WholeIsTaken CutIsNotTaken ListenersGetTheirTypes
