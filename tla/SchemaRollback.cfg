SPECIFICATION Spec
CHECK_DEADLOCK FALSE
CONSTANTS
    orders = orders
    items = items
    byItem = byItem
    Tables = {orders, items}
    Indexes = {byItem}
    TableOf <- OneIndex
    Registered <- InOrder
    Faults = {"rollback"}
INVARIANT Survives
