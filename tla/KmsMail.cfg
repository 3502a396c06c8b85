SPECIFICATION Spec
CONSTANTS
    None = None
    k2 = k2  sender = sender  plain = plain  domain = domain  e1 = e1  e2 = e2
    KmsClients = {c1, c2}
    KeyIds = {k1, k2}
    SeedIds = {k1}
    Aliases = {a1}
    Contexts = {x}
    MIN_WINDOW = 1
    MAX_WINDOW = 1
    MaxKeys = 2
    MaxBlobs = 1
    SesClients = {c1, c2}
    Identities = {domain}
    CHECKS = 2
    MaxCreated = 2
    MaxHours = 1
    Sender = sender
    Plain = {plain}
    Candidates <- MCCandidates
    RecipientSets <- MCRecipientSets
    ConfigurationSet = cs
    Destinations = {e1, e2}
    TypeSets = {{"Send", "Delivery"}, {"Bounce", "Complaint", "DeliveryDelay", "Reject"}}
    MaxMails = 1
    MaxChanges = 1
    MaxLost = 1
    RuleClients = {c1, c2}
    RuleSets = {s1, s2}
    RuleNames = {r1, r2}
    Addresses = {"x", "y"}
    RuleBodies <- MCRuleBodies
    MaxRules = 2
    MaxRuleRequests = 2
    Mailboxes = {"x", "y"}
    Texts <- MCTexts
    MAX_MESSAGE = 6
    MaxCommands = 5
SYMMETRY ClientSymmetry
INVARIANTS
    StatusEarned
    SendsTraced
    RulesKept
    RecipientsAccountedFor
    MailExact
PROPERTIES
    KeysKept
CHECK_DEADLOCK FALSE
