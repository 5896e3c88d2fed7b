\* Three servers and a client on one path, a file of someone else's there or not.
CONSTANTS
    Servers = {s1, s2, s3}
    Foreign = Foreign
    NoFile = NoFile

SPECIFICATION Spec
INVARIANTS LiveKeepsPath ClientFindsServer
PROPERTY FailsOnlyIfAlive
