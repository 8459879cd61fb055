SPECIFICATION Spec
CONSTANTS
    user = user
    group = group
    app = app
    cap = cap
    missing = missing
    loaded = loaded
    admin = admin
    Administrators = admin
    System = System
    OwnerRights = OwnerRights
    PrincipalSelf = PrincipalSelf
    None = None
    NullDacl = NullDacl
    Broken = Broken
    RequestSets <- MCRequestSets
    Rights <- MCRights
    Read <- MCRead
    Write <- MCWrite
    Execute <- MCExecute
    All <- MCAll
INVARIANTS TrustDenialIsAbsolute IntegrityYieldsOnlyToPrivilege GrantsNest ConfinementIsAbsolute FirstMatchDecides
CHECK_DEADLOCK FALSE
