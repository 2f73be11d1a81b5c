\* Two clients share a server, the third has another one; all want the only
\* record.
CONSTANTS
    s1 = s1
    s2 = s2
    c1 = c1
    c2 = c2
    c3 = c3
    c4 = c4
    None = None
    post = post
    Text <- SamePost
    Server = {s1, s2}
    Client = {c1, c2, c3}
    Home <- UnevenHomes
    RECORD_NUM = 1
    MAX_CLIENTS = 2
    Up = {}
SPECIFICATION FairSpec
PROPERTY Answered
