SPECIFICATION Spec
CONSTANTS
    a1 = a1
    a2 = a2
    d1 = d1
    d2 = d2
    Device = {d1, d2}
    Agent = {a1, a2}
    Owner <- OwnerOfEach
    Code = {c1, c2}
    Grant = {{"memory.sync"}, {"memory.manage"}}
    Slot = {q1}
    NoOne = NoOne
    Overlap = FALSE
    MaxMinted <- FewSecrets
    MaxFaults <- FewFaults
    MaxLate = 1
SYMMETRY SymmetricCodes
INVARIANTS TypeOK SidecarKeepsUp NoFalseAlarm
PROPERTIES DeadTokensStayDead ConsoleKeepsManager
CHECK_DEADLOCK FALSE
