CONSTANTS
    i1 = i1
    i2 = i2
    a1 = a1
    a2 = a2
    ll = ll
    br0 = br0
    Ifaces <- MCIfaces
    Bridges <- MCBridges
    GlobalIPs <- MCGlobalIPs
    OtherIPs <- MCOtherIPs
    Ofports = {1, 2}
    MaxLearn = 2
    MaxFail = 1
    MaxRestart = 1
    MaxExternal = 0
    MaxOvsChange = 1

SYMMETRY MCSymmetry

SPECIFICATION Spec

 
PROPERTY IPMapNeverDropsAddress
