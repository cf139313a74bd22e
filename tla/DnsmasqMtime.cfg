SPECIFICATION Spec
CONSTANTS
    p1 = p1
    p2 = p2
    dnsmasq = dnsmasq
    named = named
    eth0 = eth0
    eth1 = eth1
    self = self
    ns1 = ns1
    ns2 = ns2
    Procs = {p1, p2}
    Records = {dnsmasq, eth0, named, eth1}
    Own = dnsmasq
    Local = {dnsmasq, named}
    Rank <- Order
    Offers <- Offer
    Self = self
    Absent = Absent
    Nothing = Nothing
    Envs <- Serial
    MaxTime = 2
PROPERTY MtimeDiffers
CHECK_DEADLOCK FALSE
