SPECIFICATION Spec
CONSTANTS
    r1 = r1
    r2 = r2
    h1 = h1
    h2 = h2
    h3 = h3
    h4 = h4
    s1 = s1
    k1 = k1
    w1 = w1
    Runs = {r1}
    Targets = {h1}
    Pollers = {p1}
    Scopes = {s1}
    Rules = {}
    Windows = {}
    Global = Global
    NoRun = NoRun
    ScopeOf <- MCScopeOf
    Authorised <- MCAuthorised
    RuleCovers <- MCRuleCovers
    RuleScope <- MCRuleScope
    WindowScope <- MCWindowScope
    Strays = {}
    BatchSize = 2
    MaxFaults = 0
PROPERTY
    RunsUnderCurrentGrant
CHECK_DEADLOCK FALSE
