----------------------------- MODULE SpotMarket -----------------------------
(***************************************************************************)
(* What the market promises, without rows, threads or signatures: goods    *)
(* with a bandwidth profile each, and sales that each take a demand out of *)
(* a good at once.  A sale never takes what is not there.                  *)
(***************************************************************************)
EXTENDS BwProfile

CONSTANTS Buyers, Listings   \* who may buy; the profiles that may be offered

VARIABLES
    stock,   \* what is for sale: goods with their remaining profile
    sales    \* what was sold: buyer and demand, numbered

spotVars == <<stock, sales>>

SpotInit == stock = {} /\ sales = {}

\* a seller offers a profile as a new good
List(good, prof) ==
    /\ \A s \in stock : s.good # good
    /\ stock' = stock \cup {[good |-> good, prof |-> prof]}
    /\ UNCHANGED sales

\* a buyer gets a demand out of a good that contains it
Sell(s, buyer, d, number) ==
    /\ Contains(s.prof, d)
    /\ \A x \in sales : x.number # number
    /\ stock' = (stock \ {s}) \cup {[s EXCEPT !.prof = Purchase(s.prof, d)]}
    /\ sales' = sales \cup
          {[good |-> s.good, number |-> number, buyer |-> buyer, demand |-> d]}

\* the number and the good of a step are read off the state it leads to
SpotNext ==
    \/ \E s \in stock' : s.prof \in Listings /\ List(s.good, s.prof)
    \/ \E s \in stock, x \in sales' :
          /\ x.buyer \in Buyers
          /\ Sell(s, x.buyer, x.demand, x.number)

SpotSpec == SpotInit /\ [][SpotNext]_spotVars
=============================================================================
