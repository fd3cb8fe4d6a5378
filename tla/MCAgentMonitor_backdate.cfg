CONSTANTS
    i1 = i1
    i2 = i2
    a1 = a1
    a2 = a2
    ll = ll
    br0 = br0
    Ifaces <- MCIfaces
    Bridges <- MCBridges
    GlobalIPs <- MCGlobalIPs
    OtherIPs <- MCOtherIPs
    Ofports = {1, 2}
    MaxLearn = 3
    MaxFail = 0
    MaxRestart = 0
    MaxExternal = 0
    MaxOvsChange = 0

SYMMETRY MCSymmetry

SPECIFICATION Spec

PROPERTY IPMapNeverRegresses
