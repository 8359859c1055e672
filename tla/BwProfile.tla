----------------------------- MODULE BwProfile -----------------------------
(***************************************************************************)
(* Bandwidth profiles of esdx4ixps/market/models/offer.py.  A profile is   *)
(* the csv list of an offer's bandwidth units, one number per BW_PERIOD    *)
(* seconds of the offer's life.  A demand is what a buyer asks for: a list *)
(* of units and a starting time.  Times are in seconds after the offer's   *)
(* notbefore, so a negative start lies before the offer.                   *)
(***************************************************************************)
EXTENDS Integers, Sequences

CONSTANT BW_PERIOD        \* defs.py: seconds per entry of a profile

ASSUME PeriodAssumption == BW_PERIOD \in Nat \ {0}

\* int_list_validator on Offer.bw_profile: at least one number, none negative
Profile == Seq(Nat) \ {<<>>}

\* a requested profile is parsed with int() only and may hold negatives
Demand == [prof: Seq(Int) \ {<<>>}, start: Int]

\* the periods of the offer before the demand starts
Offset(d) == d.start \div BW_PERIOD

\* units that demand d takes from the i-th period of an offer
At(d, i) ==
    LET k == i - Offset(d)
    IN  IF k \in 1..Len(d.prof) THEN d.prof[k] ELSE 0

\* mutant: the offered bandwidth does not bound the demand
ContainsUnbounded(prof, d) ==
    /\ d.start >= 0
    /\ d.start % BW_PERIOD = 0
    /\ Offset(d) + Len(d.prof) <= Len(prof)
    /\ \A k \in 1..Len(d.prof) : d.prof[k] >= 0
    /\ \E k \in 1..Len(d.prof) : d.prof[k] # 0

\* the conditions under which Offer.purchase returns a profile, not None
Contains(prof, d) ==
    /\ d.start >= 0
    /\ d.start % BW_PERIOD = 0
    /\ Offset(d) + Len(d.prof) <= Len(prof)
    /\ \A k \in 1..Len(d.prof) : d.prof[k] \in 0..prof[Offset(d) + k]
    /\ \E k \in 1..Len(d.prof) : d.prof[k] # 0

\* the profile that Offer.purchase returns
Purchase(prof, d) == [i \in 1..Len(prof) |-> prof[i] - At(d, i)]
=============================================================================
