SPECIFICATION Spec
CONSTANTS
    Thread = {t1, t2}
    Size = {64, 65, 10241}
    Quantity = 2
    SystemBlock = {e1, e2}
    Null = Null
SYMMETRY Symmetry
INVARIANTS
    OneHolder
PROPERTIES
    ImplementsAllocator
