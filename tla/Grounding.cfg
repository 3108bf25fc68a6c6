SPECIFICATION MCSpec
CONSTANTS
    orders = orders
    customers = customers
    long = long
    longer = longer
    Conns = {c, d}
    Tables = {orders, customers}
    Sqls = {long, longer}
    Procs = {p}
    Requests = {r}
    Reports = {f}
    Shared = null
    NoTable = none
    NoFix = none
    Refs <- MCRefs
    Beginning <- MCBeginning
    TableOf <- MCTableOf
    TopK = 1
    FewShot = 1
    Searches = 2
    MaxExpansion = 1
    MaxWrites = 2
    MaxReports = 2
    MaxFaults = 1
SYMMETRY Symmetric
INVARIANTS TenantScoped OwnElseShared PatternsKept
CHECK_DEADLOCK FALSE
