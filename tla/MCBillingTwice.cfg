SPECIFICATION BillingSpec
CONSTANTS
    k1 = k1
    Invoices = {i1}
    Customers = {k1}
    Owner <- MCOwner
    Callers = {a1}
    Rows = {r1, r2}
    MaxRetries = 2
    MaxFaults = 1
    Recorders = {u1, u2}
    Worker = w
    max_buffer_size = 2
    MaxEvents = 4
    MaxFlushFaults = 1
    Resources = {cpu}
    Plans = {p1, p2}
    Prices = {20, 40}
    Fallback = 60
    Quantity <- MCQuantity
    Tiers = {"Free", "Growth"}
    Credits = {50}
INVARIANT
    UsageCountedOnce
CHECK_DEADLOCK FALSE
