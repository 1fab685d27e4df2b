SPECIFICATION MCSpec
CONSTANTS
    Requests = {q1, q2, q3}
    Emails <- MCEmails
    Lower <- MCLower
    Containing <- MCContaining
    Present <- MCPresent
    Clients = {r1, r2, r3}
    Owners = {u1, u2}
    Senders = {s1, s2}
    Credits <- TwoProviders
    MaxDays = 3
    MaxSends = 4
    MaxFaults = 1
    Rounds = 4
    MaxPolls = 2
    MaxBoots = 1
    Nodes = {n1, n2}
    Texts = {t1, t2}
    MaxExpiries = 2
    MaxLosses = 1
    Cpus = 2
    Counts = {0, 10, 11, 30}
    Scales = {"single", "custom", "active-characters"}
    CustomFactors = {1}
    Schemas = {v1, v2, v3}
    MaxEdits = 4
    MaxFailures = 2
INVARIANTS AccountsHold GrantsAreOwn FlagsAreAsked
    PreferencesHold MailHolds OneAnswers ComposeFits ScalingHolds SchemaHolds
SYMMETRY Symmetry
CHECK_DEADLOCK FALSE
