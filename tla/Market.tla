------------------------------- MODULE Market -------------------------------
(***************************************************************************)
(* The market server of esdx4ixps/market: its database rows and the gRPC   *)
(* handlers AddOffer, Purchase and PurchaseEquivalent of services.py, run  *)
(* by several threads of one or more server processes over one database.   *)
(*                                                                         *)
(* An offer row is written once and never changed.  A sale writes a        *)
(* purchase order, a contract and a new offer row that deprecates the one  *)
(* sold; the rows linked by deprecates form a lineage whose last row is    *)
(* the available offer.  Transactions read committed rows only.            *)
(***************************************************************************)
EXTENDS BwProfile, Functions

CONSTANTS
    IAs,          \* autonomous systems that may sell or buy
    Registered,   \* those with a row in the table AS
    BROKER,       \* the signer name of the IXP, which holds the broker key
    IPs,          \* addresses that occur in br_address_template
    Servers,      \* server processes
    Threads,      \* gRPC worker threads of all the servers
    ServerOf,     \* the process each thread runs in
    Crashing,     \* the processes that may crash
    Submissions,  \* messages that sellers may send to AddOffer
    Demands,      \* demands that buyers may order
    Kinds,        \* subset of {"Purchase", "PurchaseEquivalent"}
    Faults,       \* ways in which a purchase request may be wrong
    MaxOffers,    \* bound: no request starts once MaxOffers ids are used
    NONE

VARIABLES
    offers,       \* committed rows of the table Offer
    contracts,    \* committed rows of PurchaseOrder, each with its Contract
    nextId,       \* AUTO_INCREMENT of the table Offer
    mutex,        \* purchase_mutex of each process: its holder or NONE
    pc,           \* where each thread is in its handler
    req,          \* the purchase request a thread serves
    asked,        \* requested_offer, as fetched
    cur,          \* available_offer, as fetched (or reached by the walk)
    tx,           \* rows written by the thread's open transaction
    outcome       \* how the handler will answer

vars == <<offers, contracts, nextId, mutex, pc, req, asked, cur, tx, outcome>>
locals == <<req, asked, cur>>

MAX_PORT == 65534
NoOffer == 0      \* NULL in the column deprecates; ids start at 1

Template == [ip: IPs, first: Nat, last: Nat]
Specs == [seller: IAs, prof: Profile, span: Int, tmpl: Template]
\* RSA-PSS signatures are salted: the salt tells apart the broker's signatures
\* over equal specifications (it is the id of the row the broker signed)
Signature == [by: IAs \cup {BROKER}, over: Specs, salt: Nat]
\* the serialisation of an offer with its signature
OfferData == [specs: Specs, sig: Signature]
Row == [id: Nat \ {0}, specs: Specs, sig: Signature, deprecates: Nat,
        root: Nat \ {0}]   \* root: history, the id of the seller's own row

OrderData == [offer: OfferData, buyer: IAs, demand: Demand]
OrderSignature == [by: IAs, over: OrderData]
Address == [ip: IPs, port: Nat]
ContractData == [order: OrderData, sig: OrderSignature, br: Address]
Contract == [offer: Nat \ {0}, buyer: IAs, demand: Demand, sig: OrderSignature,
             br: Address, signature: [by: {BROKER}, over: ContractData]]

Request == [kind: {"Purchase", "PurchaseEquivalent"}, id: Nat,
            offer: OfferData \cup {NONE}, buyer: IAs, demand: Demand,
            sig: OrderSignature \cup {NONE}]

ASSUME MarketAssumption ==
    /\ Registered \subseteq IAs
    /\ BROKER \notin IAs
    /\ NONE \notin Threads \cup OfferData \cup OrderSignature \cup Request \cup Row
    /\ ServerOf \in [Threads -> Servers]
    /\ Crashing \subseteq Servers
    /\ Submissions \subseteq [specs: Specs, sig: [by: IAs, over: Specs, salt: {0}]]
    /\ Demands \subseteq Demand
    /\ Kinds \subseteq {"Purchase", "PurchaseEquivalent"}
    /\ Faults \subseteq {"none", "unknown_id", "other_offer", "bad_signature"}
    /\ MaxOffers \in Nat
-----------------------------------------------------------------------------
(* Rows and what the queries of OfferManager select.                       *)

Data(o) == [specs |-> o.specs, sig |-> o.sig]

\* "deprecated_by" of a row, seen by a query: no row or one
Deprecators(o) == {n \in offers : n.deprecates = o.id}
IsAvailable(o) == Deprecators(o) = {}
IsSold(o) == \E c \in contracts : c.offer = o.id

available == {o \in offers : IsAvailable(o)}
OriginalOffers == {o \in offers : ~IsAvailable(o) /\ ~IsSold(o)}

\* ip_port_range_from_str sorts the two ports of the template
LowPort(t) == IF t.first <= t.last THEN t.first ELSE t.last
HighPort(t) == IF t.first <= t.last THEN t.last ELSE t.first

\* Offer._pre_save, the checks that apply to the modelled columns
PreSaveOk(s) ==
    /\ s.span >= 0
    /\ s.span % BW_PERIOD = 0
    /\ Len(s.prof) = s.span \div BW_PERIOD
    /\ HighPort(s.tmpl) <= MAX_PORT

\* validate_signature_from_seller
SellerSigned(s, sig) ==
    /\ s.seller \in Registered
    /\ sig.by = s.seller
    /\ sig.over = s

\* mutant: the new offer keeps the old profile
RemainderUnchanged(s, d) == s

\* the specifications of the offer that remains after a sale
Remainder(s, d) == [s EXCEPT !.prof = Purchase(s.prof, d)]

SignWithBroker(s, id) == [by |-> BROKER, over |-> s, salt |-> id]

\* the bytes a buyer signs, for the given requested offer
OrderBytes(o, buyer, d) == [offer |-> Data(o), buyer |-> buyer, demand |-> d]

\* mutant: the signature is not looked at
ValidOrderSignatureAlways(r, o) == TRUE

\* PurchaseOrder.validate_signature
ValidOrderSignature(r, o) ==
    r.sig = [by |-> r.buyer, over |-> OrderBytes(o, r.buyer, r.demand)]

\* mutant: the predecessor's port is not incremented
NextPortsSame(o) ==
    LET prev == {c \in contracts : c.offer = o.deprecates}
    IN  IF prev = {} THEN {LowPort(o.specs.tmpl)} ELSE {c.br.port : c \in prev}

\* the port of find_available_br_address: that of the predecessor's contract
\* plus one, or the first of the template if the predecessor was not sold
NextPorts(o) ==
    LET prev == {c \in contracts : c.offer = o.deprecates}
    IN  IF prev = {} THEN {LowPort(o.specs.tmpl)} ELSE {c.br.port + 1 : c \in prev}

HasPort(o) == \E p \in NextPorts(o) : p <= HighPort(o.specs.tmpl)
-----------------------------------------------------------------------------
(* Transactions and threads.                                               *)

NoTx == [rows |-> {}, sales |-> {}]

\* another open transaction has inserted an order for the same offer: the
\* unique index on PurchaseOrder.offer makes the second insert wait
Locked(t) ==
    \E u \in Threads \ {t} : \E c \in tx[u].sales : c.offer = cur[t].id

Goto(t, l) == pc' = [pc EXCEPT ![t] = l]

\* the transaction is over, committed or rolled back, and the handler answers
EndTx(t, o) ==
    /\ Goto(t, "answer")
    /\ tx' = [tx EXCEPT ![t] = NoTx]
    /\ outcome' = [outcome EXCEPT ![t] = o]

Init ==
    /\ offers = {}
    /\ contracts = {}
    /\ nextId = 1
    /\ mutex = [s \in Servers |-> NONE]
    /\ pc = [t \in Threads |-> "idle"]
    /\ req = [t \in Threads |-> NONE]
    /\ asked = [t \in Threads |-> NONE]
    /\ cur = [t \in Threads |-> NONE]
    /\ tx = [t \in Threads |-> NoTx]
    /\ outcome = [t \in Threads |-> "none"]
-----------------------------------------------------------------------------
(* AddOffer: no mutex; two rows in one transaction, the seller's and a     *)
(* copy signed by the broker that deprecates it.                           *)

OriginalRow(m) ==
    [id |-> nextId, specs |-> m.specs, sig |-> m.sig,
     deprecates |-> NoOffer, root |-> nextId]

\* mutant: the copy is saved without sign_with_broker
BrokerCopyUnsigned(m) ==
    [id |-> nextId + 1, specs |-> m.specs, sig |-> m.sig,
     deprecates |-> nextId, root |-> nextId]

BrokerCopy(m) ==
    [id |-> nextId + 1, specs |-> m.specs,
     sig |-> SignWithBroker(m.specs, nextId + 1),
     deprecates |-> nextId, root |-> nextId]

AddOffer(t) ==
    /\ pc[t] = "idle"
    /\ nextId <= MaxOffers
    /\ \E m \in Submissions :
        /\ SellerSigned(m.specs, m.sig)
        /\ PreSaveOk(m.specs)
        /\ tx' = [tx EXCEPT ![t] = [rows |-> {OriginalRow(m), BrokerCopy(m)},
                                   sales |-> {}]]
    /\ nextId' = nextId + 2
    /\ Goto(t, "commit")
    /\ UNCHANGED <<offers, contracts, mutex, locals, outcome>>

\* the signature or the checks before a save fail
RefuseOffer(t) ==
    /\ pc[t] = "idle"
    /\ nextId <= MaxOffers
    /\ \E m \in Submissions : ~(SellerSigned(m.specs, m.sig) /\ PreSaveOk(m.specs))
    /\ EndTx(t, "refused")
    /\ UNCHANGED <<offers, contracts, nextId, mutex, locals>>
-----------------------------------------------------------------------------
(* Purchase and PurchaseEquivalent.  A request names a row its sender has  *)
(* seen, now or at any time before: rows are never removed.                *)

Requests ==
    {[kind   |-> k,
      id     |-> IF f = "unknown_id" THEN NoOffer ELSE o.id,
      offer  |-> IF f = "other_offer" THEN NONE ELSE Data(o),
      buyer  |-> b, demand |-> d,
      sig    |-> IF f = "bad_signature" THEN NONE
                 ELSE [by |-> b, over |-> OrderBytes(o, b, d)]] :
        k \in Kinds, f \in Faults, o \in offers, b \in IAs, d \in Demands}

Begin(t, r) ==
    /\ pc[t] = "idle"
    /\ nextId <= MaxOffers
    /\ req' = [req EXCEPT ![t] = r]
    /\ Goto(t, "acquire")
    /\ UNCHANGED <<offers, contracts, nextId, mutex, asked, cur, tx, outcome>>

\* mutant: no mutex
AcquireAlways(t) ==
    /\ pc[t] = "acquire"
    /\ mutex' = [mutex EXCEPT ![ServerOf[t]] = t]
    /\ Goto(t, "fetch")
    /\ UNCHANGED <<offers, contracts, nextId, locals, tx, outcome>>

\* with purchase_mutex, transaction.atomic()
Acquire(t) ==
    /\ pc[t] = "acquire"
    /\ mutex[ServerOf[t]] = NONE
    /\ mutex' = [mutex EXCEPT ![ServerOf[t]] = t]
    /\ Goto(t, "fetch")
    /\ UNCHANGED <<offers, contracts, nextId, locals, tx, outcome>>

\* Purchase: get_available(id)
FetchAvailable(t) ==
    /\ pc[t] = "fetch"
    /\ req[t].kind = "Purchase"
    /\ \E o \in available :
        /\ o.id = req[t].id
        /\ asked' = [asked EXCEPT ![t] = o]
        /\ cur' = [cur EXCEPT ![t] = o]
    /\ Goto(t, "write")
    /\ UNCHANGED <<offers, contracts, nextId, mutex, req, tx, outcome>>

\* PurchaseEquivalent: get_derived(id) first gets the row itself
FetchExact(t) ==
    /\ pc[t] = "fetch"
    /\ req[t].kind = "PurchaseEquivalent"
    /\ \E o \in offers :
        /\ o.id = req[t].id
        /\ asked' = [asked EXCEPT ![t] = o]
        /\ cur' = [cur EXCEPT ![t] = o]
    /\ Goto(t, "walk")
    /\ UNCHANGED <<offers, contracts, nextId, mutex, req, tx, outcome>>

\* DoesNotExist
FetchNothing(t) ==
    /\ pc[t] = "fetch"
    /\ LET rows == IF req[t].kind = "Purchase" THEN available ELSE offers
       IN  \A o \in rows : o.id # req[t].id
    /\ EndTx(t, "refused")
    /\ UNCHANGED <<offers, contracts, nextId, mutex, locals>>

\* while not avail.is_available(): avail = avail.deprecated_by
Walk(t) ==
    /\ pc[t] = "walk"
    /\ \E n \in Deprecators(cur[t]) : cur' = [cur EXCEPT ![t] = n]
    /\ UNCHANGED <<offers, contracts, nextId, mutex, pc, req, asked, tx, outcome>>

WalkEnds(t) ==
    /\ pc[t] = "walk"
    /\ IsAvailable(cur[t])
    /\ Goto(t, "check")
    /\ UNCHANGED <<offers, contracts, nextId, mutex, locals, tx, outcome>>

\* if avail.is_sold(): a query of its own, after the last one of the walk
CheckUnsold(t) ==
    /\ pc[t] = "check"
    /\ ~IsSold(cur[t])
    /\ Goto(t, "write")
    /\ UNCHANGED <<offers, contracts, nextId, mutex, locals, tx, outcome>>

CheckSold(t) ==
    /\ pc[t] = "check"
    /\ IsSold(cur[t])
    /\ EndTx(t, "refused")
    /\ UNCHANGED <<offers, contracts, nextId, mutex, locals>>
-----------------------------------------------------------------------------
(* purchase_offer, on the rows fetched.  Its writes stay in the open       *)
(* transaction, so they are one step; only the insert of the order can     *)
(* meet another transaction.                                               *)

\* what is looked at before the insert of the order
Acceptable(t) ==
    /\ req[t].offer = Data(asked[t])              \* pb_compare_messages
    /\ req[t].buyer \in Registered                \* AS.objects.get
    /\ Contains(cur[t].specs.prof, req[t].demand) \* available_offer.purchase

\* what is looked at after it
Signable(t) == ValidOrderSignature(req[t], asked[t]) /\ HasPort(cur[t])

NewSpecs(t) == Remainder(cur[t].specs, req[t].demand)

\* mutant: the new offer deprecates the requested one
NewRowOfAsked(t) ==
    [id |-> nextId, specs |-> NewSpecs(t),
     sig |-> SignWithBroker(NewSpecs(t), nextId),
     deprecates |-> asked[t].id, root |-> cur[t].root]

\* available_offer.clone(), deprecating it, with the new profile
NewRow(t) ==
    [id |-> nextId, specs |-> NewSpecs(t),
     sig |-> SignWithBroker(NewSpecs(t), nextId),
     deprecates |-> cur[t].id, root |-> cur[t].root]

\* the order over the available offer; contract.stamp_signature(requested_offer)
Sale(t, port) ==
    LET r == req[t]
        br == [ip |-> cur[t].specs.tmpl.ip, port |-> port]
    IN  [offer |-> cur[t].id, buyer |-> r.buyer, demand |-> r.demand,
         sig |-> r.sig, br |-> br,
         signature |->
            [by |-> BROKER,
             over |-> [order |-> OrderBytes(asked[t], r.buyer, r.demand),
                       sig |-> r.sig, br |-> br]]]

RefusePurchase(t) ==
    /\ pc[t] = "write"
    /\ ~Acceptable(t)
    /\ EndTx(t, "refused")
    /\ UNCHANGED <<offers, contracts, nextId, mutex, locals>>

\* IntegrityError: the offer has a committed order
DuplicateOrder(t) ==
    /\ pc[t] = "write"
    /\ Acceptable(t)
    /\ IsSold(cur[t])
    /\ EndTx(t, "integrity")
    /\ UNCHANGED <<offers, contracts, nextId, mutex, locals>>

\* the buyer's signature or the port fails, or the new row does not validate
RejectOrder(t) ==
    /\ pc[t] = "write"
    /\ Acceptable(t)
    /\ ~IsSold(cur[t]) /\ ~Locked(t)
    /\ ~Signable(t) \/ ~PreSaveOk(NewSpecs(t)) \/ ~IsAvailable(cur[t])
    /\ EndTx(t, "refused")
    /\ UNCHANGED <<offers, contracts, nextId, mutex, locals>>

\* mutant: PurchaseOrder.offer without a unique index
WriteSaleNoIndex(t) ==
    /\ pc[t] = "write"
    /\ Acceptable(t) /\ Signable(t)
    /\ \E p \in NextPorts(cur[t]) :
        tx' = [tx EXCEPT ![t] = [rows |-> {NewRow(t)}, sales |-> {Sale(t, p)}]]
    /\ nextId' = nextId + 1
    /\ Goto(t, "commit")
    /\ UNCHANGED <<offers, contracts, mutex, locals, outcome>>

\* mutant: "with transaction.atomic(), purchase_mutex", released before the commit
WriteSaleUnlocked(t) ==
    /\ pc[t] = "write"
    /\ Acceptable(t)
    /\ ~IsSold(cur[t]) /\ ~Locked(t)
    /\ Signable(t)
    /\ \E p \in NextPorts(cur[t]) :
        tx' = [tx EXCEPT ![t] = [rows |-> {NewRow(t)}, sales |-> {Sale(t, p)}]]
    /\ nextId' = nextId + 1
    /\ mutex' = [mutex EXCEPT ![ServerOf[t]] = NONE]
    /\ Goto(t, "commit")
    /\ UNCHANGED <<offers, contracts, locals, outcome>>

WriteSale(t) ==
    /\ pc[t] = "write"
    /\ Acceptable(t)
    /\ ~IsSold(cur[t]) /\ ~Locked(t)
    /\ Signable(t) /\ PreSaveOk(NewSpecs(t)) /\ IsAvailable(cur[t])
    /\ \E p \in NextPorts(cur[t]) :
        tx' = [tx EXCEPT ![t] = [rows |-> {NewRow(t)}, sales |-> {Sale(t, p)}]]
    /\ nextId' = nextId + 1
    /\ Goto(t, "commit")
    /\ UNCHANGED <<offers, contracts, mutex, locals, outcome>>

\* mutant: the contract is not saved
CommitOffersOnly(t) ==
    /\ pc[t] = "commit"
    /\ offers' = offers \cup tx[t].rows
    /\ EndTx(t, "ok")
    /\ UNCHANGED <<contracts, nextId, mutex, locals>>

\* mutant: the sold offer is deleted when it is replaced
CommitDeletes(t) ==
    /\ pc[t] = "commit"
    /\ offers' = {o \in offers : \A n \in tx[t].rows : n.deprecates # o.id} \cup tx[t].rows
    /\ contracts' = contracts \cup tx[t].sales
    /\ EndTx(t, "ok")
    /\ UNCHANGED <<nextId, mutex, locals>>

\* transaction.atomic() ends: its rows become visible
Commit(t) ==
    /\ pc[t] = "commit"
    /\ offers' = offers \cup tx[t].rows
    /\ contracts' = contracts \cup tx[t].sales
    /\ EndTx(t, "ok")
    /\ UNCHANGED <<nextId, mutex, locals>>

\* mutant: a failed purchase does not release the mutex
AnswerKeeps(t) ==
    /\ pc[t] = "answer"
    /\ mutex' = [s \in Servers |->
                    IF mutex[s] = t /\ outcome[t] = "ok" THEN NONE ELSE mutex[s]]
    /\ Goto(t, "idle")
    /\ req' = [req EXCEPT ![t] = NONE]
    /\ asked' = [asked EXCEPT ![t] = NONE]
    /\ cur' = [cur EXCEPT ![t] = NONE]
    /\ outcome' = [outcome EXCEPT ![t] = "none"]
    /\ UNCHANGED <<offers, contracts, nextId, tx>>

\* the mutex is released after the transaction has ended; then the answer
\* leaves the server
Answer(t) ==
    /\ pc[t] = "answer"
    /\ mutex' = [s \in Servers |-> IF mutex[s] = t THEN NONE ELSE mutex[s]]
    /\ Goto(t, "idle")
    /\ req' = [req EXCEPT ![t] = NONE]
    /\ asked' = [asked EXCEPT ![t] = NONE]
    /\ cur' = [cur EXCEPT ![t] = NONE]
    /\ outcome' = [outcome EXCEPT ![t] = "none"]
    /\ UNCHANGED <<offers, contracts, nextId, tx>>

\* a server process dies and starts again: its threads, its mutex and its
\* open transactions are gone, what was committed stays
Crash(s) ==
    LET idle(f, v) == [t \in Threads |-> IF ServerOf[t] = s THEN v ELSE f[t]]
    IN  /\ \E t \in Threads : ServerOf[t] = s /\ pc[t] # "idle"
        /\ mutex' = [mutex EXCEPT ![s] = NONE]
        /\ pc' = idle(pc, "idle")
        /\ req' = idle(req, NONE)
        /\ asked' = idle(asked, NONE)
        /\ cur' = idle(cur, NONE)
        /\ tx' = idle(tx, NoTx)
        /\ outcome' = idle(outcome, "none")
        /\ UNCHANGED <<offers, contracts, nextId>>
-----------------------------------------------------------------------------
\* a new call reaches an idle thread
Call(t) == AddOffer(t) \/ RefuseOffer(t) \/ \E r \in Requests : Begin(t, r)

\* the handler goes on
Step(t) ==
    \/ Acquire(t)
    \/ FetchAvailable(t) \/ FetchExact(t) \/ FetchNothing(t)
    \/ Walk(t) \/ WalkEnds(t) \/ CheckUnsold(t) \/ CheckSold(t)
    \/ RefusePurchase(t) \/ DuplicateOrder(t) \/ RejectOrder(t) \/ WriteSale(t)
    \/ Commit(t) \/ Answer(t)

\* all ids are used and every thread is idle: no more calls are modelled
Idle ==
    /\ nextId > MaxOffers
    /\ \A t \in Threads : pc[t] = "idle"
    /\ UNCHANGED vars

Next ==
    \/ \E t \in Threads : Call(t) \/ Step(t)
    \/ \E s \in Crashing : Crash(s)
    \/ Idle

Spec == Init /\ [][Next]_vars

\* a running server runs the threads that can go on
FairSpec == Spec /\ \A t \in Threads : WF_vars(Step(t))
-----------------------------------------------------------------------------
(* Properties.                                                             *)

PC == {"idle", "acquire", "fetch", "walk", "check", "write", "commit", "answer"}

\* Types: every table holds rows of its columns, every thread is at a step of
\* a handler with the values that step uses.
TypeOK ==
    /\ offers \subseteq Row
    /\ contracts \subseteq Contract
    /\ nextId \in Nat \ {0}
    /\ mutex \in [Servers -> Threads \cup {NONE}]
    /\ pc \in [Threads -> PC]
    /\ req \in [Threads -> Request \cup {NONE}]
    /\ asked \in [Threads -> Row \cup {NONE}]
    /\ cur \in [Threads -> Row \cup {NONE}]
    /\ tx \in [Threads -> [rows: SUBSET Row, sales: SUBSET Contract]]
    /\ outcome \in [Threads -> {"none", "ok", "refused", "integrity"}]

\* The rows of one submission form a chain: ids are keys, links go to older
\* rows of the same chain, no row is deprecated twice, and so exactly one row
\* of the chain is available (offer.py: deprecates is one-to-one; get_derived
\* relies on the walk ending at that row).
Lineage ==
    /\ \A o, n \in offers : o.id = n.id => o = n
    /\ \A o \in offers : o.deprecates # NoOffer =>
          \E p \in offers : p.id = o.deprecates /\ p.id < o.id /\ p.root = o.root
    /\ \A o \in offers : \E a \in available :
          /\ a.root = o.root
          /\ \A b \in available : b.root = o.root => b = a

\* OfferManager._original_offers returns "those original offers signed by the
\* sellers": the deprecated rows without an order are the sellers' own rows,
\* with the seller's signature, and every other row has the broker's.
OriginalsAreSellers ==
    \A o \in offers :
        /\ o.sig.over = o.specs
        /\ o.sig.by = (IF o \in OriginalOffers THEN o.specs.seller ELSE BROKER)
        /\ o \in OriginalOffers <=> o.id = o.root

\* A contract and the offer that replaces the one sold appear together: the
\* offer of a contract is deprecated, by the row with what the demand leaves,
\* and no offer has two contracts (purchases.py, one transaction).
SaleComplete ==
    /\ \A c, d \in contracts : c.offer = d.offer => c = d
    /\ \A c \in contracts : \E o, n \in offers :
          /\ o.id = c.offer
          /\ n.deprecates = o.id
          /\ Contains(o.specs.prof, c.demand)
          /\ n.specs = Remainder(o.specs, c.demand)

\* the contracts of a chain, and the units of period i they have together
ContractsOf(root) ==
    {c \in contracts : \E o \in offers : o.id = c.offer /\ o.root = root}
UnitsSold(root, i) == SumFunction([c \in ContractsOf(root) |-> At(c.demand, i)])

\* Bandwidth is neither created nor lost: for every period of a seller's offer,
\* what is still available and what was sold add up to what was offered.
Conservation ==
    \A o \in OriginalOffers : \A a \in available : a.root = o.root =>
        \A i \in 1..Len(o.specs.prof) :
            o.specs.prof[i] = a.specs.prof[i] + UnitsSold(o.root, i)

\* Contracts of one chain have different ports of the seller's template:
\* border routers tell the links of buyers apart by them
\* (find_available_br_address).
ChainOf(c) == {o.root : o \in {x \in offers : x.id = c.offer}}
PortsDistinct ==
    \A c \in contracts :
        /\ \A o \in offers : o.id = c.offer =>
              c.br.port \in LowPort(o.specs.tmpl)..HighPort(o.specs.tmpl)
        /\ \A d \in contracts :
              c # d /\ ChainOf(c) = ChainOf(d) => c.br.port # d.br.port

\* A contract holds the buyer to what the buyer signed: the demand of the
\* contract, on a row of the same chain no younger than the row sold, which
\* has that much bandwidth (the walk of get_derived never leaves the chain).
ContractAuthentic ==
    \A c \in contracts : \E o, n \in offers :
        /\ n.id = c.offer
        /\ o.root = n.root /\ o.id <= n.id
        /\ c.sig = [by |-> c.buyer, over |-> OrderBytes(o, c.buyer, c.demand)]
        /\ Contains(o.specs.prof, c.demand)

\* In one process the mutex makes the unique index unnecessary: the row a
\* purchase works on stays available and unsold until its own commit
\* (services.py: "we don't allow concurrent purchases").
FetchedStaysAvailable ==
    \A t \in Threads : pc[t] \in {"check", "write", "commit"} /\ cur[t] # NONE =>
        IsAvailable(cur[t]) /\ ~IsSold(cur[t])

\* services.py, on IntegrityError: "should never happen".
NoIntegrityError == \A t \in Threads : outcome[t] # "integrity"

\* Rows are never changed or deleted, "they are needed to verify existing or
\* past contracts" (offer.py, _offer_pre_delete); a step that adds a contract
\* adds exactly one, together with the row that deprecates its offer.
RowsArePermanent ==
    [][/\ offers \subseteq offers' /\ contracts \subseteq contracts'
       /\ contracts' # contracts =>
            \E c \in contracts' \ contracts, n \in offers' \ offers :
                /\ contracts' = contracts \cup {c}
                /\ offers' = offers \cup {n}
                /\ n.deprecates = c.offer]_vars

\* Whoever holds the mutex gives it back.
MutexReleased == \A s \in Servers : mutex[s] # NONE ~> mutex[s] = NONE

\* A purchase answered "ok" is in the database: a contract on the row the
\* thread worked on, with the order of the request.
AnsweredIsStored ==
    \A t \in Threads : pc[t] = "answer" /\ outcome[t] = "ok" /\ cur[t] # NONE =>
        \E c \in contracts :
            c.offer = cur[t].id /\ c.buyer = req[t].buyer /\ c.sig = req[t].sig

\* market.proto, message Contract: "the signature from the broker (IXP) covers
\* all fields".  The message holds the offer of the order, the row sold
\* (ContractProtoSerializer.data_to_message).
MessageData(c, o) ==
    [order |-> OrderBytes(o, c.buyer, c.demand), sig |-> c.sig, br |-> c.br]
SignatureCoversMessage ==
    \A c \in contracts, o \in offers :
        o.id = c.offer => c.signature.over = MessageData(c, o)
-----------------------------------------------------------------------------
(* The market implements SpotMarket: the goods are the available rows, each *)
(* known by its chain; a contract is a sale, numbered by the row sold.      *)

spotStock == {[good |-> o.root, prof |-> o.specs.prof] : o \in available}
spotSales ==
    UNION {{[good |-> o.root, number |-> o.id, buyer |-> c.buyer, demand |-> c.demand] :
               c \in {x \in contracts : x.offer = o.id}} : o \in offers}

Spot == INSTANCE SpotMarket WITH
    Buyers <- Registered,
    Listings <- {m.specs.prof : m \in Submissions},
    stock <- spotStock,
    sales <- spotSales

\* Concurrent purchases behave like sales one after the other: each takes its
\* demand out of what is left of one good, in one step, whatever the threads
\* of all processes do in between and wherever a process dies.
ImplementsSpotMarket == Spot!SpotSpec
=============================================================================
