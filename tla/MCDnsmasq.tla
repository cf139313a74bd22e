------------------------------ MODULE MCDnsmasq ------------------------------
(***************************************************************************)
(* The records of dnsmasq and, in resolvconf's order, of an interface with *)
(* two nameservers, of another local nameserver and of an interface after  *)
(* that; two process numbers.                                              *)
(***************************************************************************)
EXTENDS Dnsmasq

CONSTANTS p1, p2, dnsmasq, eth0, named, eth1, self, ns1, ns2

Order == [r \in Records |->
            CASE r = dnsmasq -> 1 [] r = eth0 -> 2 [] r = named -> 3 [] r = eth1 -> 4]
Offer == [r \in Records |->
            CASE r = dnsmasq -> {{self}} [] r = eth0 -> {{ns2}} [] OTHER -> {{ns1}}]

Machine(o, s, k, f, n, e) ==
    [overlap |-> o, slow |-> s, killed |-> k, faulty |-> f, changes |-> n, events |-> e]
Machines == {Machine(FALSE, FALSE, FALSE, FALSE, 1, 2), Machine(FALSE, FALSE, FALSE, FALSE, 3, 1),
             Machine(FALSE, TRUE, TRUE, FALSE, 2, 1), Machine(FALSE, TRUE, FALSE, TRUE, 3, 0),
             Machine(TRUE, FALSE, FALSE, FALSE, 4, 0), Machine(TRUE, TRUE, TRUE, TRUE, 1, 1)}
Serial   == {Machine(FALSE, FALSE, FALSE, FALSE, 4, 0), Machine(FALSE, TRUE, FALSE, FALSE, 4, 0)}
=============================================================================
