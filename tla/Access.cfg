SPECIFICATION Spec
CONSTANTS
    analyst = analyst
    auditor = auditor
    school = school
    payroll = payroll
    id = id
    email = email
    campus = campus
    campus_ids = campus_ids
    here = here
    Keys = {k1}
    EnvKeys = {e1}
    Calls = {c1}
    Tables = {school, payroll}
    Columns = {id, email}
    Values = {here}
    Dimensions = {campus}
    Attributes = {campus_ids}
    Roles = {analyst, auditor}
    RoleLists <- SomeRoleLists
    Catalogs <- SomeCatalogs
    Statements <- SomeStatements
    MaxTime = 1
    MaxEdits = 1
INVARIANTS
    RevokedStaysOut
    WithinEveryRole
    ContractMatchesEnforcement
    AcceptedKeyServed
