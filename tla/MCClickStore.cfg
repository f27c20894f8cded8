SPECIFICATION Spec
CONSTANTS
    l1 = l1  l2 = l2  t1 = t1  t2 = t2  phone = phone  laptop = laptop
    c1 = c1  c2 = c2  c3 = c3  c4 = c4
    Links = {l1, l2}
    Tenants = {t1, t2}
    Owner <- OneOwner
    DemoTenant = t1
    Clicks = {c1, c2, c3, c4}
    LinkOf <- Links4  TimeOf <- Times4  LabelOf <- Labels4
    Workers = {w1, w2}
    Janitor = janitor
    Readers = {r1}
    Queries <- SomeQueries
    BatchSize = 2
    Times = {0, 1}
    DefaultWindow = 1
    TopN = 1
    Absent = Absent  Bad = Bad
    None = None
INVARIANTS TypeOK UpdatesFindTheirLinks DeadlockNeedsTwoLinks FiguresGrow
PROPERTIES IsLedger
SYMMETRY Symmetry
