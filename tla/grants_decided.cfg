SPECIFICATION Spec
CONSTANTS
    ann = ann
    bob = bob
    dba = dba
    Users = {ann, bob, dba}
    Superusers = {dba}
    Applicant = ann
    Templates <- MCTemplates
    Handlers = {h1, h2}
    LastDay = 2
    MaxRequests = 2
CHECK_DEADLOCK FALSE
PROPERTY DecidedOnce
