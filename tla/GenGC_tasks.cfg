SPECIFICATION Spec
CONSTANTS
    Task = {t1, t2}
    Shared = {}
    Key = {k1}
    Addr = {1, 2, 3, 4}
    Object = {o1, o2}
    Card = {1, 2}
    CardOf <- CardOfMC
    NoObject = NoObject
    MaxFields = 2
SYMMETRY Symmetric
INVARIANTS
    NoDangling
    CardsCoverYoung
    HandlesForwarded
PROPERTIES
    HeapAsPromised
