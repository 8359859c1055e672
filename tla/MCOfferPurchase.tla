-------------------------- MODULE MCOfferPurchase --------------------------
(* All profiles of up to three periods with up to two units, and demands of *)
(* up to three entries between -1 and 3 that start from before the offer to *)
(* past its end, in and out of step with its periods.                       *)
EXTENDS OfferPurchase

MCProfiles == UNION {[1..n -> 0..2] : n \in 1..3}
MCDemands == [prof: UNION {[1..n -> -1..3] : n \in 1..3}, start: -2..7]
=============================================================================
