\* Parsing transport elements of up to three children, and elements built
\* from Transports of up to two candidates.
CONSTANTS
    Values = {"v"}
    Payloads = {"p1", "p2"}
    MaxChildren = 3
    MaxCandidates = 2
    None = None

SPECIFICATION Spec

PROPERTY ImplementsTransportSpec
INVARIANT SerializedTransportParses

\* try_from has returned once pc = "done".
CHECK_DEADLOCK FALSE
