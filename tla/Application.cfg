\* Each part of the application with the smallest values that let its interesting
\* cases happen; see the values' definitions in the module.
CONSTANTS
    g1 = g1
    g2 = g2
    call1 = call1
    j1 = j1
    j2 = j2
    j3 = j3
    Calls = {call1}
    Registrars = {g1, g2}
    Jobs = {j1, j2, j3}
    names <- ThreeJobs
    WithHandler = {j1, j2}
    MayPanic = {j1, j3}
    MayLeave = {j2}
    Builds <- ThreeBuilds
    FailingMigrations = {2}
    r1 = r1
    r2 = r2
    Requests = {r1, r2}
    Tags = {"en", "ru", "ruMD"}
    DefaultLanguage = "en"
    PreloadLanguages = {"en"}
    UploadLanguages <- Russian
    Root <- RootOfTags
    Headers = {"ruMD"}
    Processes = {1, 2, 3}
    LogFields <- FieldsOfEachType
    MaxWithFields = 2
    Texts <- ShortTexts
    FieldValues = {"v1", "v2"}
    MaxChain = 4
    HostNames = {"crm.io", "api.crm.io", "other.io"}
    Subdomains <- ApiHost
    Subnets = {"net1", "net2"}
    Tunnels <- FourTunnels
    MaxTunnels = 2
    ScopeNames = {"a", "b", "c"}
    MaxScopes = 3
    v1 = v1
    v2 = v2
    Validations = {v1, v2}
    DomainNames = {"crm.io"}
    UrlHosts = {"eu.crm.io", "crm.io"}
    SecondLevel <- SecondLevels
SPECIFICATION ApplicationSpec
CHECK_DEADLOCK FALSE
INVARIANTS
    ApplicationTypeOK
    ListsRunInOrder
    
    
    OwnLanguage
    
    PageIsAccepted
    PreparedMeansReady
    
    TunnelFirstMatch
    MissingScopes
    JudgedByFreshDomains
PROPERTIES
    ChainRunsOn
    
    EveryRequestEnds
