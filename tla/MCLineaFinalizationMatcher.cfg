\* The matcher against the spec's join, on a node that returns no logs for
\* an empty topic array.
CONSTANTS
    Hashes = {h1, h2, h3}
    Values = {0, 1}
    Recipients = {us, other}
    Us = us
    MaxBlock = 2
    EmptyTopicIsWildcard = FALSE
SPECIFICATION Spec
SYMMETRY HashSymmetry
INVARIANT FinalizationsMatchSpec
INVARIANT FinalizedWereInitiated
