SPECIFICATION Spec
CONSTANTS
    ann = ann
    ben = ben
    k1 = k1
    k2 = k2
    n1 = n1
    n2 = n2
    Clients = {ann, ben}
    Names = {n1, n2}
    Conns = {k1, k2}
    NoOne = NoOne
    MaxRequests = 3
CHECK_DEADLOCK FALSE
SYMMETRY Symmetric
CONSTRAINT FiveRequests
INVARIANTS IdsOwn StoredWhole ShownIsStored
