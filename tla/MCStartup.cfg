SPECIFICATION Spec
CONSTANTS
    Servers = {s1, s2, s3}
    TenantIds = {t1, t2, t3}
    Envs <- MCEnvs
    Bad = Bad
    Int32Max = 127
    Width = 20
    Second = 4
    None = None
INVARIANTS TypeOK PolicyGuardsKey BackoffSane
PROPERTIES SeedSettles
SYMMETRY Symmetry
