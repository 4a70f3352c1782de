CONSTANTS
    h1 = h1
    h2 = h2
    p1 = p1
    pBad = pBad
    none = none
    Hosts <- MCHosts
    Ports <- MCPorts
    BadPort = pBad
    None = none
    Faults <- MCFaults
    MaxArgs = 2
SPECIFICATION FairSpec
PROPERTY EndOfInputLeavesPrompts
