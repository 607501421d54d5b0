SPECIFICATION ClientsSpec
CONSTANTS
    MaxSequence = 4
    Commits = {c1, c2}
    Secrets = {c2}
    SecretsIn <- MCSecretsIn
    Known = {}
    Burst = 1
    MaxServed = 2
    MaxDeaths = 1
    MaxEdits = 1
    MaxOutside = 1
    Absent = Absent
    Procs = {a, b}
    Owner = a
    Expected = E
    Merged = M
    Elsewhere = X
    NoOne = NoOne
    MaxMoves = 2
    Roots = {r1, r2, r3}
    MaxKills = 2
    Nobody = Nobody
    Copies = {f1, f2}
    Home = f1
    Identities = {1, 2}
    Transport = 0
    Rules = {rules1, rules2}
    FirstRules = rules1
    MaxTroubles = 2
    Nothing = Nothing
INVARIANTS
    LaunchedOnce GuardianSound PushSound IntentSound LaunchDirSound SavedSessionsSound
PROPERTIES
    LocalRecordStands ExitIsRecorded
CHECK_DEADLOCK FALSE
