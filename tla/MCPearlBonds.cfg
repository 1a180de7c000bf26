SPECIFICATION MCSpec
CONSTANTS
    s1 = s1
    s2 = s2
    m1 = m1
    m2 = m2
    e1 = e1
    a1 = a1
    ae = ae
    eoa = eoa
    None = None
    Payer <- MCPayer
    Services = {s1, s2}
    TokenSecured = {s1}
    MasterSafes = {m1}
    AgentSafes = {}
    ReRegister = FALSE
    MaxTx = 1
    MaxCalls = 4
    MaxInstances = 2
    Accounts = {m1, m2, e1, a1, ae, registry}
    Srtu = srtu
    Registry = registry
    Tokens = {olas, usdc}
    Olas = olas
    Native = native
    RoleOf <- MCRoleOf
    MasterOf <- MCMasterOf
    ServiceOf <- MCServiceOf
    Amounts = {1}
    MaxMoved = 3
CHECK_DEADLOCK FALSE
INVARIANTS
    AttributedRight
    IInv
    MasterBalanceExact
    
    
