CONSTANTS
    s1 = s1
    s2 = s2
    c1 = c1
    c2 = c2
    c3 = c3
    c4 = c4
    None = None
    post = post
    Text <- SamePost
    Server = {s1, s2}
    Client = {c1}
    Home <- OneHome
    RECORD_NUM = 2
    MAX_CLIENTS = 2
    Up = {s1}
SPECIFICATION Spec
PROPERTY StartKeepsBoard
