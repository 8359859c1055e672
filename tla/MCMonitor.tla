------------------------------ MODULE MCMonitor ------------------------------
(* Three contracts of the provider, the packets of each crossing both links  *)
(* in either direction, and packets that must not be counted.                *)
EXTENDS Monitor

hop(i, e) == [ingress |-> i, egress |-> e]

\* the hop fields of a path: the neighbours' around the provider's
packet(h, from) ==
    [l3 |-> "IPv4", l4 |-> "UDP", dest |-> 30045, version |-> 0, path |-> "SCION",
     hfs |-> <<hop(9, 0), h, hop(0, 8)>>, before |-> hop(7, 7), provider |-> 1,
     port |-> from]

One == packet(hop(1, 258), "up")
Two == [packet(hop(258, 3), "down") EXCEPT !.l3 = "IPv6", !.dest = 30042]
Three == packet(hop(2, 1), "down")

MCPackets ==
    {One, Two,
     [One EXCEPT !.l4 = "other"], [One EXCEPT !.path = "other"],
     [Two EXCEPT !.l3 = "other"], [Two EXCEPT !.version = 1],
     [Two EXCEPT !.dest = 30052]}
MCMorePackets == MCPackets \cup {Three}

\* the port 0x1060; the bytes of it swapped lie between those of the range
MCOtherPort == {One, [One EXCEPT !.dest = 4192]}
=============================================================================
