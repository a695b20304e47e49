\* Four spans that may nest, two overlapping exports
CONSTANTS
    Spans = {s1, s2, s3, s4}
    NoSpan = NoSpan
    Flushes = {f1, f2}
SPECIFICATION TracerSpec
SYMMETRY Symmetry
INVARIANTS
    EndedNeverLost
    OpenNeverExported
    OpenFamilySharesTrace
CHECK_DEADLOCK FALSE
