CONSTANTS
    Pids = {sh, p, q, r}
    Shell = sh
    NoPid = NoPid
    Comms = {"app", "other"}
    NoComm = "never written"
    allowed_commands = {"app"}
    Capacity = 2
    MaxForks = 4
SYMMETRY MCSymmetry
SPECIFICATION Spec
INVARIANTS
    TypeOK
    FamilyKnown
