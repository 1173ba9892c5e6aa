SPECIFICATION Spec
CONSTANTS
    b1 = b1
    b2 = b2
    p1 = p1
    p2 = p2
    Browsers = {b1}
    Tabs = {p1}
    MaxTokens = 3
    MaxTime = 2
    Grace = 1
    Ttl = 2
    MaxHops = 3
    Worlds <- MCDeployed
INVARIANT CookieIsStored
