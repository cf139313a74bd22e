SPECIFICATION FairSpec
CONSTANTS
    p1 = p1
    p2 = p2
    dnsmasq = dnsmasq
    named = named
    eth0 = eth0
    eth1 = eth1
    self = self
    ns1 = ns1
    ns2 = ns2
    Procs = {p1, p2}
    Records = {dnsmasq, eth0, named, eth1}
    Own = dnsmasq
    Local = {dnsmasq, named}
    Rank <- Order
    Offers <- Offer
    Self = self
    Absent = Absent
    Nothing = Nothing
    Envs <- Machines
    MaxTime = 2
INVARIANTS TypeOK NeverAsksItself PublishedIsCurrent AnnouncedRuns ChangesAreNoticed
PROPERTIES Implements CalmMtimeDiffers PublishedIsServed
CHECK_DEADLOCK FALSE
