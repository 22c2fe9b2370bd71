SPECIFICATION Spec
CONSTANTS
    t1 = t1
    v1 = v1
    v2 = v2
    v3 = v3
    p1 = p1
    p2 = p2
    j1 = j1
    a1 = a1
    u1 = u1
    s1 = s1
    s2 = s2
    r1 = r1
    r2 = r2
    None = None
    NULL = NULL
    Templates = {t1}
    Versions = {v1, v2, v3}
    Processes = {p1, p2}
    Submissions = {j1}
    MinimumVersions = 1
    PostgreSQL = FALSE
    CatalogEvents = {"lapse", "database"}
    MaxETag = 4
    Offered = {"replace", "restore", "archive", "delete", "prefer", "fallback"}
    Users = {a1}
    Admin = a1
    Tokens = {s1, s2}
    Requests = {r1, r2}
    Absolute = 2
    Minutes = {1}
    MaxTime = 0
    MaxVersion = 2
    MaxRevision = 0
    Asked = {"reset", "require", "password", "logout"}
SYMMETRY Interchangeable
INVARIANTS TemplatesKept ResourcesTypeOK NoLateAccess
PROPERTIES RevisionIdentifies ChangesFenced
\* The bounds of versions and of requests.
CHECK_DEADLOCK FALSE
