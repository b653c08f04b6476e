SPECIFICATION Spec
CONSTANT Scopes <- MCScopes
CONSTANT MaxDrops = 1
CONSTANT PageLimit = 3
CONSTANT Jobs = {j1, j2}
CONSTANT Window = 3
CONSTANT MaxReads = 2
SYMMETRY JobSymmetry
CHECK_DEADLOCK FALSE
INVARIANTS ViewsSafe UpdatesAgree DetailAgrees SummarySettles
