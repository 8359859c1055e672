--------------------------- MODULE OfferPurchase ---------------------------
(***************************************************************************)
(* Offer.purchase of esdx4ixps/market/models/offer.py as it runs: one pass *)
(* over the slice of the offer's profile and the demand side by side, with *)
(* its early returns.  BwProfile says what the outcome should be.          *)
(***************************************************************************)
EXTENDS BwProfile

CONSTANTS Profiles, Demands, NONE   \* inputs; NONE is Python's None

ASSUME InputAssumption ==
    /\ Profiles \subseteq Profile
    /\ Demands \subseteq Demand
    /\ NONE \notin Seq(Int)

VARIABLES
    orig_prof, d,    \* the offer's profile; the demand (that_prof, starting)
    at,              \* "enter", "loop" or "return"
    new_prof,        \* what is left of the periods visited
    total_bought,
    result

vars == <<orig_prof, d, at, new_prof, total_bought, result>>
inputs == <<orig_prof, d>>

that_prof == d.prof
\* orig_prof[offset:]
this_prof == SubSeq(orig_prof, Offset(d) + 1, Len(orig_prof))

Return(v) == at' = "return" /\ result' = v

Init ==
    /\ orig_prof \in Profiles
    /\ d \in Demands
    /\ at = "enter"
    /\ new_prof = <<>>
    /\ total_bought = 0
    /\ result = NONE

\* the start is no multiple of BW_PERIOD into the offer
Misaligned ==
    /\ at = "enter"
    /\ d.start % BW_PERIOD # 0 \/ d.start < 0
    /\ Return(NONE)
    /\ UNCHANGED <<inputs, new_prof, total_bought>>

\* len(that_prof) > len(this_prof); the slice is empty past the end
TooLong ==
    /\ at = "enter"
    /\ d.start % BW_PERIOD = 0 /\ d.start >= 0
    /\ Len(that_prof) > Len(this_prof)
    /\ Return(NONE)
    /\ UNCHANGED <<inputs, new_prof, total_bought>>

Enter ==
    /\ at = "enter"
    /\ d.start % BW_PERIOD = 0 /\ d.start >= 0
    /\ Len(that_prof) <= Len(this_prof)
    /\ at' = "loop"
    /\ UNCHANGED <<inputs, new_prof, total_bought, result>>

\* the next pair of zip(this_prof, that_prof)
bw == this_prof[Len(new_prof) + 1]
other == that_prof[Len(new_prof) + 1]
More == Len(new_prof) < Len(that_prof)

Exceeds ==
    /\ at = "loop" /\ More
    /\ other > bw \/ other < 0
    /\ Return(NONE)
    /\ UNCHANGED <<inputs, new_prof, total_bought>>

Take ==
    /\ at = "loop" /\ More
    /\ other <= bw /\ other >= 0
    /\ new_prof' = Append(new_prof, bw - other)
    /\ total_bought' = total_bought + other
    /\ UNCHANGED <<inputs, at, result>>

Nothing ==
    /\ at = "loop" /\ ~More
    /\ total_bought = 0
    /\ Return(NONE)
    /\ UNCHANGED <<inputs, new_prof, total_bought>>

\* mutant: orig_prof[0:len(new_prof)] = new_prof
SplicedAtStart ==
    [i \in 1..Len(orig_prof) |->
        IF i \in 1..Len(new_prof) THEN new_prof[i] ELSE orig_prof[i]]

\* orig_prof[offset:offset+len(new_prof)] = new_prof
Spliced ==
    [i \in 1..Len(orig_prof) |->
        IF i - Offset(d) \in 1..Len(new_prof) THEN new_prof[i - Offset(d)]
        ELSE orig_prof[i]]

Replace ==
    /\ at = "loop" /\ ~More
    /\ total_bought # 0
    /\ Return(Spliced)
    /\ UNCHANGED <<inputs, new_prof, total_bought>>

Done == at = "return" /\ UNCHANGED vars

Next == Misaligned \/ TooLong \/ Enter \/ Exceeds \/ Take \/ Nothing \/ Replace \/ Done

Spec == Init /\ [][Next]_vars
-----------------------------------------------------------------------------
\* Offer.purchase returns the profile less the demand if the offer contains the
\* demand, and None if not: "Cannot purchase negative bw, or total of zero bw,
\* or before/after the profile" (offer.py, docstring of purchase).
Correct ==
    at = "return" =>
        result = IF Contains(orig_prof, d) THEN Purchase(orig_prof, d) ELSE NONE
=============================================================================
