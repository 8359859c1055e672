----------------------------- MODULE MCTopology -----------------------------
(* Two reloaders and one started with a wrong address, two contracts of the  *)
(* local AS and one of others, and files with and without an ESDX router.    *)
EXTENDS Topology

CONSTANTS me, seller, buyer, r1, r2, loopback, p1, p2, p3

MCIAs == {me, seller, buyer}
MCAddresses == {r1, r2}
MCPublicIPs == {loopback}
MCRouter == [a \in MCAddresses |-> loopback]

contract(s, b, a) == [seller |-> s, buyer |-> b, br_address |-> a]
MCContracts ==
    {contract(seller, me, r1), contract(me, buyer, r2), contract(seller, buyer, r1)}
OwnContract == {contract(seller, me, r1)}

iface(ifid, port, a, esdx) ==
    [ifid |-> ifid, ip |-> loopback, port |-> port, remote |-> a, ia |-> seller, esdx |-> esdx]
file(s) == [ifaces |-> s, esdx |-> \E i \in DOMAIN s : s[i].esdx]
\* one interface of another router; one of each router
MCTopologies ==
    {file(<<iface(2, min_port, r2, FALSE)>>),
     file(<<iface(1, min_port + 1, r2, FALSE), iface(3, min_port, r1, TRUE)>>)}
\* another router listens below min_port
LowPortTopology == {file(<<iface(2, min_port - 2, r2, FALSE)>>)}

\* _find_lowest_free_value, the sort included
ASSUME LowestFreeIsLowest ==
    \A n \in 0..4 : \A values \in [1..n -> 0..4] : \A m \in 0..3 :
        LoopOverSorted(SortSeq(values, <), m) = LowestFree({values[i] : i \in 1..n}, m)
=============================================================================
