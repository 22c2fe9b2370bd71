CONSTANTS
    k1 = k1  k2 = k2  k3 = k3  c1 = c1  c2 = c2  m1 = m1  m2 = m2  d1 = d1
    p1 = p1  p2 = p2
    Keys = {k1}
    Clients = {c1, c2}
    None = None
    MaxActive = 1
    Lease = 1
    Changes = {"draft", "author"}
    Intents = {"proposal"}
    Cites = {TRUE}
    MaxTime = 1
    MaxVersion = 4
    MaxChange = 2
SPECIFICATION Spec
INVARIANTS StepsUndisturbed SentOnceAsApproved StoredReadable
PROPERTIES StepAnswers RevisionsAsReviewed
SYMMETRY Interchangeable
CHECK_DEADLOCK FALSE
