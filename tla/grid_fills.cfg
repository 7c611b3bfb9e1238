SPECIFICATION Spec
CONSTANTS
    N = 2
    Tasks = {t1, t2}
    MaxOrders = 4
SYMMETRY Symmetric
INVARIANTS
    OneWorkingOrder
    SellsAreCovered
    CyclesAreReal
CHECK_DEADLOCK FALSE
