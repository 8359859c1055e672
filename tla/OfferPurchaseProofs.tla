------------------------ MODULE OfferPurchaseProofs ------------------------
(* The loop of Offer.purchase computes BwProfile's Purchase for every      *)
(* profile and every demand.                                               *)
EXTENDS OfferPurchase, TLAPS

\* Types of the loop's variables.
LoopType ==
    /\ orig_prof \in Profile
    /\ d \in Demand
    /\ at \in {"enter", "loop", "return"}
    /\ new_prof \in Seq(Int)
    /\ total_bought \in Int
    /\ at = "enter" => new_prof = <<>> /\ total_bought = 0

\* What the loop maintains: each visited pair was within bounds and left the
\* difference, and the total is zero exactly if nothing was asked so far.
LoopInv ==
    at = "loop" =>
        /\ d.start >= 0 /\ d.start % BW_PERIOD = 0
        /\ Offset(d) + Len(d.prof) <= Len(orig_prof)
        /\ Len(new_prof) <= Len(d.prof)
        /\ total_bought \in Nat
        /\ \A k \in 1..Len(new_prof) :
              /\ d.prof[k] \in 0..orig_prof[Offset(d) + k]
              /\ new_prof[k] = orig_prof[Offset(d) + k] - d.prof[k]
        /\ total_bought = 0 <=> \A k \in 1..Len(new_prof) : d.prof[k] = 0

\* The inductive invariant: the result is right whenever there is one.
IInv == LoopType /\ LoopInv /\ Correct

\* The number of periods before an aligned demand is a natural.
LEMMA OffsetNat ==
    ASSUME NEW e \in Demand, e.start >= 0
    PROVE  Offset(e) \in Nat
<1>1. e.start \in Nat /\ BW_PERIOD \in Nat \ {0}
    BY PeriodAssumption DEF Demand
<1> QED
    BY <1>1 DEF Offset

\* orig_prof[offset:] has what remains after the offset, if anything.
LEMMA SliceLength ==
    ASSUME LoopType, Offset(d) \in Nat
    PROVE  Len(this_prof) = IF Offset(d) <= Len(orig_prof)
                            THEN Len(orig_prof) - Offset(d) ELSE 0
<1>1. orig_prof \in Seq(Nat) /\ Len(orig_prof) \in Nat
    BY DEF LoopType, Profile
<1> DEFINE o == Offset(d)
           n == Len(orig_prof)
<1>2. Len(SubSeq(orig_prof, o + 1, n)) = IF o + 1 <= n THEN n - (o + 1) + 1 ELSE 0
    BY <1>1
<1>3. o + 1 <= n => n - (o + 1) + 1 = n - o
    BY <1>1
<1> QED
    BY <1>1, <1>2, <1>3 DEF this_prof

\* Its k-th entry is the profile's, offset places on.
LEMMA SliceEntry ==
    ASSUME LoopType, Offset(d) \in Nat,
           NEW k \in Nat \ {0}, Offset(d) + k <= Len(orig_prof)
    PROVE  /\ this_prof[k] = orig_prof[Offset(d) + k]
           /\ this_prof[k] \in Nat
BY DEF LoopType, Profile, this_prof

\* A demand that starts before the offer, out of step with its periods or that
\* runs past its end is refused rightly.
LEMMA EnterRefuses ==
    ASSUME IInv, Misaligned \/ TooLong
    PROVE  IInv'
<1>1. ~Contains(orig_prof, d)
    <2>1. CASE Misaligned
        BY <2>1 DEF Misaligned, Contains, IInv, LoopType, Demand
    <2>2. CASE TooLong
        <3>1. Offset(d) \in Nat
            BY <2>2, OffsetNat DEF TooLong, IInv, LoopType
        <3>2. Len(d.prof) \in Nat /\ Len(orig_prof) \in Nat
            BY DEF IInv, LoopType, Demand, Profile
        <3> QED
            BY <2>2, <3>1, <3>2, SliceLength DEF TooLong, Contains, IInv, that_prof
    <2> QED
        BY <2>1, <2>2
<1> QED
    BY <1>1 DEF IInv, LoopType, LoopInv, Correct, Misaligned, TooLong, Return, inputs

\* The loop starts with nothing visited.
LEMMA EnterStarts ==
    ASSUME IInv, Enter
    PROVE  IInv'
<1>1. Offset(d) \in Nat
    BY OffsetNat DEF Enter, IInv, LoopType
<1>2. Len(d.prof) \in Nat \ {0} /\ Len(orig_prof) \in Nat
    BY DEF IInv, LoopType, Demand, Profile
<1>3. Offset(d) + Len(d.prof) <= Len(orig_prof)
    BY <1>1, <1>2, SliceLength DEF Enter, IInv, that_prof
<1> QED
    BY <1>2, <1>3 DEF Enter, IInv, LoopType, LoopInv, Correct, inputs

\* What the loop looks at, with More: the next entry of the demand and of the
\* profile.
LEMMA NextPair ==
    ASSUME IInv, at = "loop", More
    PROVE  /\ Offset(d) \in Nat
           /\ Len(new_prof) + 1 \in 1..Len(d.prof)
           /\ other = d.prof[Len(new_prof) + 1]
           /\ bw = orig_prof[Offset(d) + (Len(new_prof) + 1)]
           /\ other \in Int /\ bw \in Nat
<1>1. Offset(d) \in Nat
    BY OffsetNat DEF IInv, LoopType, LoopInv
<1>2. /\ Len(d.prof) \in Nat /\ Len(orig_prof) \in Nat /\ Len(new_prof) \in Nat
      /\ Offset(d) + Len(d.prof) <= Len(orig_prof)
      /\ Len(new_prof) < Len(d.prof)
    BY DEF IInv, LoopType, LoopInv, Demand, Profile, More, that_prof
<1>3. other = d.prof[Len(new_prof) + 1] /\ other \in Int
    BY <1>2 DEF other, that_prof, IInv, LoopType, Demand
<1>4. Offset(d) + (Len(new_prof) + 1) <= Len(orig_prof)
    BY <1>1, <1>2
<1> QED
    BY <1>1, <1>2, <1>3, <1>4, SliceEntry DEF bw, IInv

\* An entry that is negative or exceeds the profile refutes Contains.
LEMMA ExceedsRefuses ==
    ASSUME IInv, Exceeds
    PROVE  IInv'
<1>1. ~Contains(orig_prof, d)
    BY NextPair DEF Exceeds, Contains
<1> QED
    BY <1>1 DEF IInv, LoopType, LoopInv, Correct, Exceeds, Return, inputs

\* An entry within bounds extends what was visited by one.
LEMMA TakeAdvances ==
    ASSUME IInv, Take
    PROVE  IInv'
<1> DEFINE n == Len(new_prof)
<1>1. /\ Offset(d) \in Nat /\ n + 1 \in 1..Len(d.prof)
      /\ other = d.prof[n + 1] /\ bw = orig_prof[Offset(d) + (n + 1)]
      /\ other \in Int /\ bw \in Nat /\ other \in 0..bw
    BY NextPair DEF Take
<1>2. /\ n \in Nat /\ Len(d.prof) \in Nat /\ total_bought \in Nat
      /\ new_prof' = Append(new_prof, bw - other) /\ bw - other \in Int
      /\ new_prof \in Seq(Int)
    <2>1. n \in Nat /\ Len(d.prof) \in Nat /\ new_prof \in Seq(Int)
        BY DEF IInv, LoopType, Demand
    <2>2. total_bought \in Nat /\ new_prof' = Append(new_prof, bw - other)
        BY DEF IInv, LoopInv, Take
    <2>3. bw - other \in Int
        BY <1>1
    <2> QED
        BY <2>1, <2>2, <2>3
<1>3. /\ Len(new_prof') = n + 1
      /\ new_prof'[n + 1] = bw - other
      /\ \A k \in 1..n : new_prof'[k] = new_prof[k]
      /\ new_prof' \in Seq(Int)
    BY <1>2
<1>4. \A k \in 1..(n + 1) : k = n + 1 \/ k \in 1..n
    BY <1>2
<1>5. total_bought' = total_bought + other /\ UNCHANGED <<orig_prof, d, at, result>>
    BY DEF Take, inputs
<1>6. at = "loop"
    BY DEF Take
<1>7. LoopType'
    BY <1>1, <1>2, <1>3, <1>5, <1>6 DEF IInv, LoopType
<1>8. Correct'
    BY <1>5, <1>6 DEF Correct
<1>9. LoopInv'
    <2>1. \A k \in 1..(n + 1) :
             /\ d.prof[k] \in 0..orig_prof[Offset(d) + k]
             /\ new_prof'[k] = orig_prof[Offset(d) + k] - d.prof[k]
        BY <1>1, <1>3, <1>4, <1>6 DEF IInv, LoopInv
    <2>2. total_bought' = 0 <=> total_bought = 0 /\ other = 0
        BY <1>1, <1>2, <1>5
    <2>3. total_bought' = 0 <=> \A k \in 1..(n + 1) : d.prof[k] = 0
        BY <1>1, <1>2, <1>4, <1>6, <2>2 DEF IInv, LoopInv
    <2>4. total_bought' \in Nat
        <3>1. other \in Nat /\ total_bought \in Nat
            BY <1>1, <1>2
        <3> QED
            BY <1>5, <3>1
    <2>5. Len(new_prof') <= Len(d.prof)
        BY <1>1, <1>3
    <2>6. Offset(d)' = Offset(d)
        BY <1>5 DEF Offset
    <2> QED
        BY <1>3, <1>5, <1>6, <2>1, <2>3, <2>4, <2>5, <2>6 DEF IInv, LoopInv
<1> QED
    BY <1>7, <1>8, <1>9 DEF IInv

\* After the loop every entry of the demand was within bounds.
LEMMA Visited ==
    ASSUME IInv, at = "loop", ~More
    PROVE  /\ Offset(d) \in Nat
           /\ Len(new_prof) = Len(d.prof)
           /\ \A k \in 1..Len(d.prof) :
                 /\ d.prof[k] \in 0..orig_prof[Offset(d) + k]
                 /\ new_prof[k] = orig_prof[Offset(d) + k] - d.prof[k]
<1>1. Offset(d) \in Nat
    BY OffsetNat DEF IInv, LoopType, LoopInv
<1>2. Len(new_prof) = Len(d.prof)
    BY DEF IInv, LoopType, LoopInv, More, that_prof, Demand
<1> QED
    BY <1>1, <1>2 DEF IInv, LoopInv

\* A demand of zeros is refused.
LEMMA NothingRefuses ==
    ASSUME IInv, Nothing
    PROVE  IInv'
<1>1. ~Contains(orig_prof, d)
    BY Visited DEF Nothing, Contains, IInv, LoopInv
<1> QED
    BY <1>1 DEF IInv, LoopType, LoopInv, Correct, Nothing, Return, inputs

\* Splicing what is left into the profile subtracts the demand.
LEMMA ReplaceSubtracts ==
    ASSUME IInv, Replace
    PROVE  IInv'
<1>1. /\ Offset(d) \in Nat
      /\ Len(new_prof) = Len(d.prof)
      /\ \A k \in 1..Len(d.prof) :
            /\ d.prof[k] \in 0..orig_prof[Offset(d) + k]
            /\ new_prof[k] = orig_prof[Offset(d) + k] - d.prof[k]
    BY Visited DEF Replace
<1>2. Contains(orig_prof, d)
    BY <1>1 DEF Replace, Contains, IInv, LoopInv
<1>3. Spliced = Purchase(orig_prof, d)
    <2>1. ASSUME NEW i \in 1..Len(orig_prof)
          PROVE  Spliced[i] = orig_prof[i] - At(d, i)
        <3>1. /\ Len(orig_prof) \in Nat /\ i \in Nat /\ orig_prof[i] \in Nat
              /\ i - Offset(d) \in Int /\ Offset(d) + (i - Offset(d)) = i
            BY <1>1 DEF IInv, LoopType, Profile
        <3>2. CASE i - Offset(d) \in 1..Len(d.prof)
            BY <1>1, <3>1, <3>2 DEF Spliced, At
        <3>3. CASE i - Offset(d) \notin 1..Len(d.prof)
            BY <1>1, <3>1, <3>3 DEF Spliced, At
        <3> QED
            BY <3>2, <3>3
    <2> QED
        BY <2>1 DEF Spliced, Purchase
<1>4. result' = Purchase(orig_prof, d) /\ at' = "return"
    BY <1>3 DEF Replace, Return
<1> QED
    BY <1>2, <1>4 DEF IInv, LoopType, LoopInv, Correct, Replace, inputs

\* The invariant is inductive, one lemma per step of the loop.
LEMMA LoopInvariance == Spec => []IInv
<1>1. Init => IInv
    BY InputAssumption DEF Init, IInv, LoopType, LoopInv, Correct
<1>2. IInv /\ [Next]_vars => IInv'
    <2> SUFFICES ASSUME IInv, [Next]_vars PROVE IInv'
        OBVIOUS
    <2>1. CASE Misaligned \/ TooLong
        BY <2>1, EnterRefuses
    <2>2. CASE Enter
        BY <2>2, EnterStarts
    <2>3. CASE Exceeds
        BY <2>3, ExceedsRefuses
    <2>4. CASE Take
        BY <2>4, TakeAdvances
    <2>5. CASE Nothing
        BY <2>5, NothingRefuses
    <2>6. CASE Replace
        BY <2>6, ReplaceSubtracts
    <2>7. CASE UNCHANGED vars
        <3>1. Offset(d)' = Offset(d) /\ Contains(orig_prof, d)' = Contains(orig_prof, d)
              /\ Purchase(orig_prof, d)' = Purchase(orig_prof, d)
            BY <2>7 DEF vars, Offset, Contains, Purchase, At
        <3> QED
            BY <2>7, <3>1 DEF vars, IInv, LoopType, LoopInv, Correct
    <2> QED
        BY <2>1, <2>2, <2>3, <2>4, <2>5, <2>6, <2>7 DEF Next, Done
<1> QED
    BY <1>1, <1>2, PTL DEF Spec

\* What the loop has visited fits: new_prof holds what the demand leaves of the
\* periods seen so far, and the demand asks for something iff one of them does.
THEOREM LoopHolds == Spec => []LoopInv
<1>1. IInv => LoopInv
    BY DEF IInv
<1> QED
    BY <1>1, LoopInvariance, PTL

\* Offer.purchase returns what is left of the profile when the offer contains
\* the demand and None when it does not, for all profiles and demands.
THEOREM PurchaseCorrect == Spec => []Correct
<1>1. IInv => Correct
    BY DEF IInv
<1> QED
    BY <1>1, LoopInvariance, PTL
=============================================================================
