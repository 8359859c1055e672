------------------------------ MODULE LinkStore ------------------------------
(* What the topology reloader promises: links are added and removed one by   *)
(* one, each in a single step, with addresses nobody else has; a crash may   *)
(* lose the store for good, and then says so.                                *)
EXTENDS Naturals

CONSTANTS FarEnds,         \* [ia, remote]: the far ends links may have
          MayCrash      \* whether a crash may lose the store

VARIABLES links, lost

Add ==
    /\ ~lost /\ UNCHANGED lost
    /\ \E new \in links' \ links :
          /\ links' = links \cup {new}
          /\ [ia |-> new.ia, remote |-> new.remote] \in FarEnds
          /\ \A l \in links : l.ifid # new.ifid /\ <<l.ip, l.port>> # <<new.ip, new.port>>

Remove ==
    /\ ~lost /\ UNCHANGED lost
    /\ \E old \in links, e \in FarEnds :
          old.remote = e.remote /\ links' = links \ {old}

Lose == MayCrash /\ ~lost /\ lost' /\ links' = {}

LinkSpec == ~lost /\ [][Add \/ Remove \/ Lose]_<<links, lost>>
=============================================================================
