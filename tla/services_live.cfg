\* What the secrets are makes no difference here.
CONSTANTS
    root = root
    s1 = s1
    s2 = s2
    s3 = s3
    k1 = k1
    k2 = k2
    Name = {root, s1, s2, s3}
    Manager = root
    Secret = {k1}
    None = None
SPECIFICATION FairSpec
PROPERTIES Answered AllEnd
