CONSTANTS
    A = A
    B = B
    Zero = Zero
    Tokens <- MCTokens
    Ratio = 4
    Sizes <- MCSizes
    Sources <- MCSources
    MaxErrors = 1
SPECIFICATION Spec
\* The consumer stops calling FetchBlock once it has seen io.EOF.
CHECK_DEADLOCK FALSE
INVARIANT TypeOK
INVARIANT InflationSound
INVARIANT InflationConservation
INVARIANT DeflationConservation
