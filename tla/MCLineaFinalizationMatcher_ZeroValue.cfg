\* The matcher on a geth-style node, which reads an empty topic array as a
\* wildcard: every claim in the window comes back.
CONSTANTS
    Hashes = {h1, h2, h3}
    Values = {0, 1}
    Recipients = {us, other}
    Us = us
    MaxBlock = 2
    EmptyTopicIsWildcard = TRUE
SPECIFICATION Spec
SYMMETRY HashSymmetry
INVARIANT NoZeroValueFinalizations
