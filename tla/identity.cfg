\* Sign-in, codes, associations, accounts, settings and privileges, each on its own.
SPECIFICATION IdentitySpec
CONSTANTS
    Modelled = {"sessions", "codes", "links", "accounts", "settings", "privileges"}
    r1 = r1  r2 = r2
    ann = ann  bob = bob  dba = dba  dev = dev  none = none
    url = url  pwd = pwd  v1 = v1  empty = empty
    \* AuthSession
    People = {ann}
    Passwords = {p1, p2}
    Defaults = {p1}
    Secrets = {s1}
    NoSecret = none
    Requests = {r1, r2}
    AccessTTL = 1
    RefreshTTL = 2
    ChangeTTL = 1
    PasswordTTL = 2
    Grace = 0
    LastTick = 2
    MaxTokens = 3
    MaxEdits = 2
    \* OneTimeCodes
    Callers = {r1, r2}
    States = {st1}
    Providers = {cas, feishu}
    Enabled = {cas}
    CodeTTL = 2
    Cooldown = 1
    Day = 3
    StateTTL = 2
    DailyLimit = 2
    LastHour = 3
    MaxCodes = 3
    \* Associations
    Members = {ann}
    Groups = {g1}
    ResourceGroups = {rg1}
    Instances = {i1}
    Roles = {dev}
    Codes = {c1}
    Builtin = {dev}
    Editors = {r1, r2}
    MaxUpdates = 3
    \* Accounts
    Names = {ann, bob}
    Directory = {pl}
    Provided = {pd}
    Local = local
    Positions = {dev}
    NoPosition = none
    Sheets <- TwoSheets
    Sessions = {r1, r2}
    MaxChanges = 3
    \* Settings
    Keys = {url, pwd}
    Sensitive = {pwd}
    Texts = {v1}
    Empty = empty
    Mask = mask
    Channels = {ding}
    Default <- UrlByDefault
    Needs <- BothKeys
    Savers = {r1, r2}
    MaxSavings = 3
    \* QueryPrivilege
    Users = {ann, bob, dba}
    Superusers = {dba}
    Applicant = ann
    Templates <- ThreeTemplates
    Handlers = {r1, r2}
    LastDay = 2
    MaxRequests = 4
INVARIANTS CodesAreSpent LinkedAsAsked SavedIsRead GrantedByAll WithinApplied Inductive
PROPERTIES SessionsAreSafe 
SYMMETRY Symmetry
CHECK_DEADLOCK FALSE
