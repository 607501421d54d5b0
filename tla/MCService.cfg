SPECIFICATION Spec
CONSTANTS
    Root = Root
    Others = {a1}
    Addresses = {e1, e2}
    Secrets = {s1, s2}
    FirstSecret = s1
    MaxHashes = 3
    MaxLinks = 3
    MaxRevision = 3
    MaxOpened = 2
    MaxLive = 1
    MaxCeremonies = 2
    Counts = {0, 1}
    Workers = 2
    NoOne = NoOne
    Principals = {1, 2}
    MaxCredentials = 3
    SessionIds = {1, 2}
    Names = {n1, n2}
    FirstName = n1
    NoName = NoName
    Uploads = {u1, u2}
    FirstUpload = u1
    Handlers = {h1, h2}
    FirstHandler = h1
    Quota = 1
    MaxTime = 2
    ReservationLife = 1
    RetentionLife = {1}
    MaxRestores = 1
    Nobody = Nobody
    Checks = {c1, c2}
    FirstCheck = c1
    Causes = {"nothing", "candidate", "target", "outside", "flaky"}
    MaxReruns = 1
    MaxCrashes = 1
    MaxBreaks = 1
    Tasks = {1, 2, 3}
    Identities = {i1, i2}
    Previews = {1, 2}
    Budget = 1
    RuleEditing = TRUE
    MaxWeek = 2
    MaxTaskRevision = 3
    MaxNamed = 1
    Nil = Nil
INVARIANTS
    AccountsSound CredentialsSound ArtifactsSound AttributionSound PlanningSound
CHECK_DEADLOCK FALSE
