SPECIFICATION Spec
CONSTANTS
    OrderItemQuantity = 3
    Items <- MCItems
    HeapOrderQuantity = 2
    NoRecord = NoRecord
INVARIANTS
    TypeOK
    ListsWellFormed
PROPERTY
    ImplementsMru
