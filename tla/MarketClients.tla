---------------------------- MODULE MarketClients ----------------------------
(***************************************************************************)
(* Buyers of the market, as the repository writes them: each lists the     *)
(* available offers, takes one, orders one unit of it, and starts again    *)
(* when the order is refused.  The Python buyers (integration_test.py,     *)
(* experiments/experiment1.py) stop after some attempts and are run with a *)
(* provider by Runner (util/experiments.py); the Go buyers (go-client)     *)
(* never stop, and die together.                                           *)
(*                                                                         *)
(* The server is the one of module Market, its handlers one step each.     *)
(* The bandwidth of an offer is one number, all its periods being alike.   *)
(***************************************************************************)
EXTENDS Naturals, Sequences, FiniteSets

CONSTANTS
  PyBuyers, GoBuyers,  \* client() and buyOffer(), one per buyer
  Attempts,            \* range(...) of client()
  Units,               \* the bandwidth of each of the provider's offers
  MaxGoods,            \* bound: offers that the provider adds
  Indices(_, _),       \* what a buyer may index a list of some length with
  Equivalent,          \* buyers that call PurchaseEquivalent (-equivalent)
  Lossy,               \* buyers whose connection may break during a call
  NONE

Buyers == PyBuyers \cup GoBuyers

ASSUME ClientsAssumption ==
  /\ PyBuyers \cap GoBuyers = {} /\ IsFiniteSet(Buyers)
  /\ Attempts \in Nat \ {0} /\ Units \in Nat /\ MaxGoods \in Nat
  /\ NONE \notin {"0", "1", "raised"}
  /\ Lossy \subseteq PyBuyers /\ Equivalent \subseteq Buyers
  /\ \A b \in Buyers, n \in 0 .. MaxGoods : Indices(b, n) \subseteq Nat /\ Indices(b, n) # {}

VARIABLES
  rows,       \* the offers signed by the broker, [good, left], by their ids
  contracts,  \* [number: the row sold, order: the row ordered, buyer, try]
  sent,       \* purchase requests on their way: [buyer, try, row]
  pc,         \* where each buyer is
  listed,     \* the ids it got from ListOffers, which it indexes in ascending order
  tries,      \* failed attempts of a Python buyer
  verdict     \* what Runner.run ends with

vars == <<rows, contracts, sent, pc, listed, tries, verdict>>
server == <<rows, contracts>>
-----------------------------------------------------------------------------
Ids == 1 .. Len(rows)
IsAvailable(i) == \A j \in Ids : j > i => rows[j].good # rows[i].good
Available == {i \in Ids : IsAvailable(i)}

(* get_derived: the last row of the chain that a row belongs to.           *)
Derived(i) == CHOOSE j \in Available : rows[j].good = rows[i].good

(* The row that a request is served from.                                  *)
RowFor(m) == IF m.buyer \in Equivalent THEN Derived(m.row) ELSE m.row

(* The mutants do not ask whether the row is still available, or whether   *)
(* anything is left of it.                                                 *)
CanSellOld(i) == rows[i].left >= 1
CanSellEmpty(i) == i \in Available
CanSell(i) == i \in Available /\ rows[i].left >= 1

(* Where a list of rows, read in the order of their ids, has row r.        *)
Position(S, r) == Cardinality({j \in S : j <= r})

Init ==
  /\ rows = <<>> /\ contracts = {} /\ sent = {}
  /\ pc = [b \in Buyers |-> "list"]
  /\ listed = [b \in Buyers |-> {}]
  /\ tries = [b \in Buyers |-> 0]
  /\ verdict = NONE

(* provider: sell_offer adds a good; Runner waits a second for it before   *)
(* it starts the buyers, which orders nothing.                             *)
SellOffer ==
  /\ Cardinality({rows[i].good : i \in Ids}) < MaxGoods
  /\ rows' = Append(rows, [good |-> Len(rows) + 1, left |-> Units])
  /\ UNCHANGED <<contracts, sent, pc, listed, tries, verdict>>

(* A mutant: sold offers are listed too.                                   *)
ListAll(b) ==
  /\ pc[b] = "list"
  /\ listed' = [listed EXCEPT ![b] = Ids]
  /\ pc' = [pc EXCEPT ![b] = "choose"]
  /\ UNCHANGED <<server, sent, tries, verdict>>

List(b) ==
  /\ pc[b] = "list"
  /\ listed' = [listed EXCEPT ![b] = Available]
  /\ pc' = [pc EXCEPT ![b] = "choose"]
  /\ UNCHANGED <<server, sent, tries, verdict>>

(* A Python exception ends one buyer, a Go panic all of them.              *)
Crash(b) ==
  pc' = [c \in Buyers |->
    IF (c = b) \/ (b \in GoBuyers /\ c \in GoBuyers /\ pc[c] # "done")
    THEN "crashed" ELSE pc[c]]

(* The selected index may be none of the list's, which may be empty.       *)
Choose(b) ==
  /\ pc[b] = "choose"
  /\ \E i \in Indices(b, Cardinality(listed[b])) :
       \/ \E r \in listed[b] :
            /\ Position(listed[b], r) = i
            /\ sent' = sent \cup {[buyer |-> b, try |-> tries[b], row |-> r]}
            /\ pc' = [pc EXCEPT ![b] = "wait"]
       \/ i \notin 1 .. Cardinality(listed[b]) /\ Crash(b) /\ UNCHANGED sent
  /\ listed' = [listed EXCEPT ![b] = {}]
  /\ UNCHANGED <<server, tries, verdict>>

(* grpc.RpcError, or err that is not nil.                                  *)
Retry(b) ==
  /\ tries' = IF b \in PyBuyers THEN [tries EXCEPT ![b] = @ + 1] ELSE tries
  /\ pc' = [pc EXCEPT ![b] =
       IF b \in PyBuyers /\ tries[b] + 1 = Attempts THEN "gave up" ELSE "list"]

(* The buyer still waits for the answer to this request.                   *)
Awaited(m) == pc[m.buyer] = "wait" /\ tries[m.buyer] = m.try

Sale(i, m) ==
  /\ rows' = Append(rows, [good |-> rows[i].good, left |-> rows[i].left - 1])
  /\ contracts' = contracts \cup
       {[number |-> i, order |-> m.row, buyer |-> m.buyer, try |-> m.try]}

(* A mutant: the answer fails after the sale is committed.                 *)
PurchaseAnswersLate(m) ==
  /\ m \in sent
  /\ sent' = sent \ {m}
  /\ IF CanSell(RowFor(m)) THEN Sale(RowFor(m), m) ELSE UNCHANGED server
  /\ IF Awaited(m) THEN Retry(m.buyer) ELSE UNCHANGED <<pc, tries>>
  /\ UNCHANGED <<listed, verdict>>

(* Purchase or PurchaseEquivalent and, if the buyer still waits, its answer.*)
Purchase(m) ==
  /\ m \in sent
  /\ sent' = sent \ {m}
  /\ IF CanSell(RowFor(m))
     THEN /\ Sale(RowFor(m), m)
          /\ pc' = IF Awaited(m) THEN [pc EXCEPT ![m.buyer] = "check"] ELSE pc
          /\ UNCHANGED tries
     ELSE /\ UNCHANGED server
          /\ IF Awaited(m) THEN Retry(m.buyer) ELSE UNCHANGED <<pc, tries>>
  /\ UNCHANGED <<listed, verdict>>

(* The connection breaks: the buyer sees an error at once; the request is  *)
(* lost, or served although nobody waits for it.                           *)
Break(b) ==
  /\ b \in Lossy /\ pc[b] = "wait"
  /\ Retry(b)
  /\ \/ UNCHANGED sent
     \/ sent' = {m \in sent : m.buyer # b}
  /\ UNCHANGED <<server, listed, verdict>>

(* get_contract, by the id in the answer; it must be the same contract.    *)
GetContract(b) ==
  /\ pc[b] = "check"
  /\ IF \E c \in contracts : c.buyer = b /\ c.try = tries[b]
     THEN pc' = [pc EXCEPT ![b] = "done"]
     ELSE Crash(b)
  /\ UNCHANGED <<server, sent, listed, tries, verdict>>

Ended == {"done", "gave up", "crashed"}

(* The mutant looks only for exceptions; the code adds up the results.     *)
VerdictOfExceptions == IF \E b \in PyBuyers : pc[b] = "crashed" THEN "raised" ELSE "0"
Verdict == IF \E b \in PyBuyers : pc[b] = "crashed" THEN "raised"
           ELSE IF \E b \in PyBuyers : pc[b] = "gave up" THEN "1" ELSE "0"

(* Runner.run, after the pool is done; an exception leaves the server on.  *)
RunnerEnds ==
  /\ verdict = NONE
  /\ \A b \in PyBuyers : pc[b] \in Ended
  /\ verdict' = Verdict
  /\ UNCHANGED <<server, sent, pc, listed, tries>>

Step(b) == List(b) \/ Choose(b) \/ GetContract(b)
Serve == \E m \in sent : Purchase(m)

Next == SellOffer \/ (\E b \in Buyers : Step(b) \/ Break(b)) \/ Serve \/ RunnerEnds

Spec == Init /\ [][Next]_vars

(* Buyers run; the server serves every request it has got.                 *)
FairSpec ==
  /\ Spec
  /\ \A b \in Buyers : WF_vars(Step(b))
  /\ \A b \in Buyers : WF_vars(\E m \in sent : m.buyer = b /\ Purchase(m))
  /\ WF_vars(RunnerEnds)
-----------------------------------------------------------------------------
TypeOK ==
  /\ rows \in Seq([good : Nat, left : Nat])
  /\ contracts \subseteq [number : Nat, order : Nat, buyer : Buyers, try : Nat]
  /\ sent \subseteq [buyer : Buyers, try : Nat, row : Nat]
  /\ pc \in [Buyers -> {"list", "choose", "wait", "check"} \cup Ended]
  /\ listed \in [Buyers -> SUBSET Nat]
  /\ tries \in [Buyers -> Nat]
  /\ verdict \in {NONE, "0", "1", "raised"}

ContractsOf(b) == {c \in contracts : c.buyer = b}
ContractsOfOthers(b) == {c \in contracts : c.buyer # b}

(* integration_test.py, "the second client will need to list and buy       *)
(* again": a failed attempt means that another buyer bought meanwhile, so  *)
(* range(n) is enough if the others buy fewer than n times and nothing is  *)
(* sold out.                                                               *)
SoldOut == \E i \in Available : rows[i].left = 0
GivesUpOutbid ==
  \A b \in PyBuyers \ Lossy :
    pc[b] = "gave up" => SoldOut \/ Cardinality(ContractsOfOthers(b)) >= Attempts

(* A buyer whose calls are all answered has one contract when it is told   *)
(* so and none before: repeating a refused order never buys twice.  One    *)
(* that died may have bought without learning it.                          *)
OneContractEach ==
  \A b \in Buyers \ Lossy :
    /\ Cardinality(ContractsOf(b)) <= 1
    /\ pc[b] \in {"check", "done"} => ContractsOf(b) # {}
    /\ pc[b] \in {"list", "choose", "wait", "gave up"} => ContractsOf(b) = {}

(* A buyer with broken connections may buy again what it has bought, but   *)
(* no more often than it tries, and never more than the offers hold.       *)
NoMoreThanTried ==
  /\ \A b \in Buyers : Cardinality(ContractsOf(b)) <= tries[b] + 1
  /\ \A i \in Available :
       Cardinality({c \in contracts : rows[c.number].good = rows[i].good}) + rows[i].left = Units

(* experiments.py: run returns 0 only if every buyer holds a contract.     *)
VerdictIsTrue == verdict = "0" => \A b \in PyBuyers : ContractsOf(b) # {}

(* Nobody tries for ever, unless the offer it picks is sold out; and so    *)
(* Runner.run comes to an end.                                             *)
BuyersEnd ==
  /\ \A b \in Buyers : <>(pc[b] \in Ended \/ SoldOut)
  /\ <>(verdict # NONE)

(* To the abstract market a good is what is left of its last row, a profile*)
(* of one period, and a contract is a sale of one unit of it.              *)
OneUnit == [prof |-> <<1>>, start |-> 0]
spotStock == {[good |-> rows[i].good, prof |-> <<rows[i].left>>] : i \in Available}
spotSales ==
  {[good |-> rows[c.number].good, number |-> c.number, buyer |-> c.buyer,
    demand |-> OneUnit] : c \in contracts}

Spot == INSTANCE SpotMarket WITH
  BW_PERIOD <- 1, Listings <- {<<Units>>}, stock <- spotStock, sales <- spotSales

(* The server that the buyers see is the one that module Market implements *)
(* (purchases.py): it sells a unit out of a good at a time, each once,     *)
(* whatever is repeated or lost.                                           *)
ImplementsSpotMarket == Spot!SpotSpec
=============================================================================
