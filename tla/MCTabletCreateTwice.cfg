CONSTANTS
    Handlers = {h1, h2}
    Names = {n1}
    None = None
    h1 = h1
    h2 = h2
    h3 = h3
    n1 = n1
    n2 = n2
SPECIFICATION Spec
CHECK_DEADLOCK FALSE
INVARIANTS
    TableIsCreatedOnce
