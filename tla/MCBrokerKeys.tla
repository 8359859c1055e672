---------------------------- MODULE MCBrokerKeys ----------------------------
(* Two instances: administrators that set up, replace, remove and export the *)
(* broker; and a server of two threads, started twice, that signs while they *)
(* replace it, with one buyer, an old and a new certificate of it, and a     *)
(* wrong one.                                                                *)
EXTENDS BrokerKeys

CONSTANTS buyer, other, s1

AllOptions == {{"create"}, {"remove"}, {"export"}, {"remove", "create", "export"}}
ReplaceOnly == {{"create"}, {"remove", "create"}}

NoThreads == [t \in {} |-> s1]
OneProcess == [t \in Threads |-> s1]

MCCerts == {[cn |-> buyer, serial |-> 1], [cn |-> buyer, serial |-> 2],
            [cn |-> other, serial |-> 1]}
=============================================================================
