SPECIFICATION Spec
CONSTANTS
    Clients = {c1, c2}
    Slots = {s1, s2}
    Server = Server
    None = None
    MaxWrite = 1
    Environments <- SafetyEnvironments
SYMMETRY ClientSymmetry
INVARIANTS ConnectionsSound BacklogSound NoLeak
PROPERTIES NoRevival
CHECK_DEADLOCK FALSE
