\* More clients than records and than slots: the board can be full, and so can
\* the poll set.
CONSTANTS
    s1 = s1
    s2 = s2
    c1 = c1
    c2 = c2
    c3 = c3
    c4 = c4
    None = None
    post = post
    Text <- SamePost
    Server = {s1}
    Client = {c1, c2, c3, c4}
    Home <- OneHome
    RECORD_NUM = 2
    MAX_CLIENTS = 3
    Up = {}
SPECIFICATION Spec
SYMMETRY ClientSymmetry
INVARIANTS FindsNext SlotsExact
PROPERTY BoardPromise
