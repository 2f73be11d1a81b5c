\* Chains, siblings and an inner fork: every shape of tree with three services.
CONSTANTS
    root = root
    s1 = s1
    s2 = s2
    s3 = s3
    k1 = k1
    k2 = k2
    Name = {root, s1, s2, s3}
    Manager = root
    Secret = {k1, k2}
    None = None
SPECIFICATION Spec
SYMMETRY NameSymmetry
INVARIANTS TypeOK OneAtATime Quiet RoutesLead
PROPERTIES KeepsPromise AnnouncedInOrder
