\* Two concurrent requests on two paths, served in under an hour, of known length.
\* MaxInt64 stands for any value above every ContentLength.
CONSTANTS
    Reqs = {q1, q2}
    Paths = {p1, p2}
    Durs = {1, 2}
    Sizes = {0, 4}
    Hour = 3600
    MaxInt64 = 1000000
    NoDur = NoDur
    AllPaths = AllPaths
    Malformed = Malformed
    NoTime = NoTime
SPECIFICATION Spec
INVARIANTS TypeOK HitsReportProfile
