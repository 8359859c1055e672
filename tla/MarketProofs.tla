---------------------------- MODULE MarketProofs ----------------------------
(* Theorems about the market for any number of processes and threads, any  *)
(* submissions and any demands.                                            *)
EXTENDS Market, TLAPS

-----------------------------------------------------------------------------
(* The inductive invariant, in named parts.                                *)

\* What a thread holds at each step of a handler.
ThreadsOK ==
    \A t \in Threads :
        /\ pc[t] \in {"acquire", "fetch", "walk", "check", "write"} => req[t] \in Request
        /\ pc[t] \in {"walk", "check", "write"} => asked[t] \in offers /\ cur[t] \in offers
        /\ pc[t] \in {"check", "write"} => cur[t].deprecates # NoOffer
        /\ pc[t] # "commit" => tx[t] = NoTx

\* ids are keys, below the counter
Keys ==
    /\ \A o \in offers : o.id < nextId
    /\ \A o, n \in offers : o.id = n.id => o = n

\* a row is its seller's, or deprecates an older row of its chain, alone
Links ==
    /\ \A o \in offers : \E r \in offers : r.id = o.root /\ r.deprecates = NoOffer
    /\ \A o \in offers : o.deprecates = NoOffer =>
          /\ o.root = o.id
          /\ \E n \in offers : n.deprecates = o.id
          /\ \A c \in contracts : c.offer # o.id
    /\ \A o \in offers : o.deprecates # NoOffer =>
          /\ o.root < o.id
          /\ \E p \in offers : p.id = o.deprecates /\ p.id < o.id /\ p.root = o.root
    /\ \A o, n \in offers : o.deprecates = n.deprecates /\ o.deprecates # NoOffer => o = n

Signed ==
    \A o \in offers :
        /\ o.sig.over = o.specs
        /\ o.sig.by = (IF o.deprecates = NoOffer THEN o.specs.seller ELSE BROKER)

\* a broker's row is deprecated exactly when it is sold
SoldIffDeprecated ==
    \A o, n \in offers : n.deprecates = o.id /\ o.deprecates # NoOffer => IsSold(o)

\* the rows that an open transaction will publish
Listing(x) ==
    \E a, b \in x.rows :
        /\ x.rows = {a, b} /\ x.sales = {}
        /\ a.deprecates = NoOffer /\ a.root = a.id
        /\ b.deprecates = a.id /\ b.root = a.id /\ a.id < b.id
        /\ a.sig.over = a.specs /\ a.sig.by = a.specs.seller
        /\ b.sig.over = b.specs /\ b.sig.by = BROKER

Selling(x, rows, sold) ==
    \E n \in x.rows, c \in x.sales, o \in rows :
        /\ x.rows = {n} /\ x.sales = {c}
        /\ c.offer = o.id /\ n.deprecates = o.id
        /\ n.root = o.root /\ o.id < n.id
        /\ o.deprecates # NoOffer
        /\ \A p \in rows : p.deprecates # o.id
        /\ \A e \in sold : e.offer # o.id
        /\ n.sig.over = n.specs /\ n.sig.by = BROKER
        /\ Contains(o.specs.prof, c.demand)
        /\ n.specs = Remainder(o.specs, c.demand)

Pending ==
    \A t \in Threads :
        tx[t] = NoTx \/ Listing(tx[t]) \/ Selling(tx[t], offers, contracts)

\* ids of uncommitted rows are not in use, uncommitted sales exclude each other
Exclusive ==
    /\ \A t \in Threads : \A r \in tx[t].rows :
          r.id < nextId /\ \A o \in offers : o.id # r.id
    /\ \A t, u \in Threads : t # u =>
          /\ \A r \in tx[t].rows, q \in tx[u].rows : r.id # q.id
          /\ \A c \in tx[t].sales, d \in tx[u].sales : c.offer # d.offer

TypeInv == TypeOK /\ ThreadsOK
DBInv == Keys /\ Lineage /\ Links /\ Signed /\ SaleComplete /\ SoldIffDeprecated
IInv == TypeInv /\ DBInv /\ Pending /\ Exclusive
-----------------------------------------------------------------------------
(* Profiles.                                                               *)

\* A demand that an offer contains leaves a profile of the same length.
LEMMA PurchaseProfile ==
    ASSUME NEW prof \in Profile, NEW d \in Demand, Contains(prof, d)
    PROVE  Purchase(prof, d) \in Profile /\ Len(Purchase(prof, d)) = Len(prof)
<1>1. Len(prof) \in Nat \ {0} /\ Len(d.prof) \in Nat
    BY DEF Profile, Demand
<1>2. Offset(d) \in Nat
    <2>1. d.start \in Nat /\ BW_PERIOD \in Nat \ {0}
        BY PeriodAssumption DEF Contains, Demand
    <2> QED
        BY <2>1 DEF Offset
<1>3. ASSUME NEW i \in 1..Len(prof)
      PROVE  prof[i] - At(d, i) \in Nat
    <2>1. prof[i] \in Nat /\ i \in Nat /\ Offset(d) + (i - Offset(d)) = i
        BY <1>1, <1>2 DEF Profile
    <2>2. CASE i - Offset(d) \in 1..Len(d.prof)
        BY <1>1, <1>2, <2>1, <2>2, SMTT(20) DEF At, Contains
    <2>3. CASE i - Offset(d) \notin 1..Len(d.prof)
        BY <2>1, <2>3 DEF At
    <2> QED
        BY <2>2, <2>3
<1>4. Purchase(prof, d) \in [1..Len(prof) -> Nat]
    BY <1>3 DEF Purchase
<1> QED
    BY <1>1, <1>4 DEF Profile
-----------------------------------------------------------------------------
(* Types.                                                                  *)

\* The rows AddOffer writes are typed.
LEMMA ListingTyped ==
    ASSUME TypeOK, NEW m \in Submissions
    PROVE  OriginalRow(m) \in Row /\ BrokerCopy(m) \in Row
<1>1. m.specs \in Specs /\ m.sig \in [by: IAs, over: Specs, salt: {0}]
    BY MarketAssumption
<1>2. m.sig \in Signature
    BY <1>1 DEF Signature
<1>3. nextId \in Nat \ {0} /\ nextId + 1 \in Nat \ {0}
    BY DEF TypeOK
<1>4. SignWithBroker(m.specs, nextId + 1) \in Signature
    BY <1>1, <1>3 DEF SignWithBroker, Signature
<1> QED
    BY <1>1, <1>2, <1>3, <1>4 DEF OriginalRow, BrokerCopy, Row, NoOffer

\* The bytes of an order are typed.
LEMMA OrderTyped ==
    ASSUME NEW o \in Row, NEW b \in IAs, NEW d \in Demand
    PROVE  Data(o) \in OfferData /\ OrderBytes(o, b, d) \in OrderData
<1>1. Data(o) \in OfferData
    BY DEF Data, OfferData, Row
<1> QED
    BY <1>1 DEF OrderBytes, OrderData

\* What buyers send is a request.
LEMMA RequestsTyped ==
    ASSUME TypeOK
    PROVE  Requests \subseteq Request
<1> SUFFICES ASSUME NEW k \in Kinds, NEW f \in Faults, NEW o \in offers,
                    NEW b \in IAs, NEW d \in Demands
             PROVE  [kind |-> k,
                     id |-> IF f = "unknown_id" THEN NoOffer ELSE o.id,
                     offer |-> IF f = "other_offer" THEN NONE ELSE Data(o),
                     buyer |-> b, demand |-> d,
                     sig |-> IF f = "bad_signature" THEN NONE
                             ELSE [by |-> b, over |-> OrderBytes(o, b, d)]] \in Request
    BY DEF Requests
<1>1. o \in Row /\ d \in Demand /\ k \in {"Purchase", "PurchaseEquivalent"}
    BY MarketAssumption DEF TypeOK
<1>2. Data(o) \in OfferData
    BY <1>1, OrderTyped
<1>3. [by |-> b, over |-> OrderBytes(o, b, d)] \in OrderSignature
    BY <1>1, OrderTyped DEF OrderSignature
<1>4. o.id \in Nat
    BY <1>1 DEF Row
<1> QED
    BY <1>1, <1>2, <1>3, <1>4 DEF Request, NoOffer

\* The rows a purchase writes are typed.
LEMMA SaleTyped ==
    ASSUME TypeOK, NEW t \in Threads, req[t] \in Request,
           asked[t] \in offers, cur[t] \in offers,
           Acceptable(t), Signable(t), NEW p \in NextPorts(cur[t])
    PROVE  NewRow(t) \in Row /\ Sale(t, p) \in Contract
<1>1. asked[t] \in Row /\ cur[t] \in Row /\ nextId \in Nat \ {0}
    BY DEF TypeOK
<1>2. cur[t].specs \in Specs /\ req[t].demand \in Demand /\ req[t].buyer \in IAs
    BY <1>1 DEF Row, Request
<1>3. Purchase(cur[t].specs.prof, req[t].demand) \in Profile
    BY <1>2, PurchaseProfile DEF Acceptable, Specs
<1>4. NewSpecs(t) \in Specs
    BY <1>2, <1>3 DEF NewSpecs, Remainder, Specs
<1>5. NewRow(t) \in Row
    <2>1. SignWithBroker(NewSpecs(t), nextId) \in Signature
        BY <1>1, <1>4 DEF SignWithBroker, Signature
    <2> QED
        BY <1>1, <1>4, <2>1 DEF NewRow, Row
<1>6. OrderBytes(asked[t], req[t].buyer, req[t].demand) \in OrderData
    BY <1>1, <1>2, OrderTyped
<1>7. req[t].sig \in OrderSignature
    BY <1>2, <1>6 DEF Signable, ValidOrderSignature, OrderSignature
<1>8. p \in Nat
    <2>1. LowPort(cur[t].specs.tmpl) \in Nat
        BY <1>2 DEF LowPort, Specs, Template
    <2>2. \A c \in contracts : c.br.port + 1 \in Nat
        BY DEF TypeOK, Contract, Address
    <2> QED
        BY <2>1, <2>2 DEF NextPorts
<1>9. [ip |-> cur[t].specs.tmpl.ip, port |-> p] \in Address
    BY <1>2, <1>8 DEF Address, Specs, Template
<1>10. cur[t].id \in Nat \ {0}
    BY <1>1 DEF Row
<1>11. [order |-> OrderBytes(asked[t], req[t].buyer, req[t].demand),
        sig |-> req[t].sig,
        br |-> [ip |-> cur[t].specs.tmpl.ip, port |-> p]] \in ContractData
    BY <1>6, <1>7, <1>9 DEF ContractData
<1> QED
    BY <1>2, <1>5, <1>7, <1>9, <1>10, <1>11 DEF Sale, Contract
-----------------------------------------------------------------------------
(* Types and thread states are preserved, action by action.                *)

\* the steps of a handler that write no row
Quiet(t) ==
    \/ RefuseOffer(t) \/ Acquire(t)
    \/ FetchAvailable(t) \/ FetchExact(t) \/ FetchNothing(t)
    \/ Walk(t) \/ WalkEnds(t) \/ CheckUnsold(t) \/ CheckSold(t)
    \/ RefusePurchase(t) \/ DuplicateOrder(t) \/ RejectOrder(t) \/ Answer(t)

\* A transaction with no rows is typed.
LEMMA NoTxTyped == NoTx \in [rows: SUBSET Row, sales: SUBSET Contract]
BY DEF NoTx

\* An available row is a broker's: the seller's own are deprecated.
LEMMA AvailableIsBrokers ==
    ASSUME Links, NEW o \in offers, IsAvailable(o)
    PROVE  o.deprecates # NoOffer
BY DEF Links, IsAvailable, Deprecators

\* So is a row that deprecates another.
LEMMA DeprecatorIsBrokers ==
    ASSUME TypeOK, NEW o \in offers, NEW n \in Deprecators(o)
    PROVE  n \in offers /\ n.deprecates # NoOffer
BY DEF Deprecators, TypeOK, Row, NoOffer

\* Reading steps keep types and thread states.
LEMMA QuietTyped ==
    ASSUME TypeInv, Links, NEW t \in Threads, Quiet(t)
    PROVE  TypeInv'
<1> USE NoTxTyped DEF TypeInv, TypeOK, ThreadsOK, Goto, EndTx, locals, PC
<1>1. CASE RefuseOffer(t)
    BY <1>1 DEF RefuseOffer
<1>2. CASE Acquire(t)
    BY <1>2 DEF Acquire
<1>3. CASE FetchAvailable(t)
    BY <1>3, AvailableIsBrokers DEF FetchAvailable, available
<1>4. CASE FetchExact(t)
    BY <1>4 DEF FetchExact
<1>5. CASE FetchNothing(t)
    BY <1>5 DEF FetchNothing
<1>6. CASE Walk(t)
    BY <1>6, DeprecatorIsBrokers DEF Walk
<1>7. CASE WalkEnds(t)
    BY <1>7, AvailableIsBrokers DEF WalkEnds
<1>8. CASE CheckUnsold(t)
    BY <1>8 DEF CheckUnsold
<1>9. CASE CheckSold(t)
    BY <1>9 DEF CheckSold
<1>10. CASE RefusePurchase(t)
    BY <1>10 DEF RefusePurchase
<1>11. CASE DuplicateOrder(t)
    BY <1>11 DEF DuplicateOrder
<1>12. CASE RejectOrder(t)
    BY <1>12 DEF RejectOrder
<1>13. CASE Answer(t)
    BY <1>13 DEF Answer
<1> QED
    BY <1>1, <1>2, <1>3, <1>4, <1>5, <1>6, <1>7, <1>8, <1>9, <1>10, <1>11, <1>12, <1>13
       DEF Quiet

\* So do new calls, the writes of a transaction and its commit.
LEMMA WriteTyped ==
    ASSUME TypeInv, NEW t \in Threads,
           AddOffer(t) \/ (\E r \in Requests : Begin(t, r)) \/ WriteSale(t) \/ Commit(t)
    PROVE  TypeInv'
<1> USE NoTxTyped DEF TypeInv, TypeOK, ThreadsOK, Goto, EndTx, locals, PC
<1>1. CASE AddOffer(t)
    <2>1. PICK m \in Submissions :
            tx' = [tx EXCEPT ![t] = [rows |-> {OriginalRow(m), BrokerCopy(m)}, sales |-> {}]]
        BY <1>1 DEF AddOffer
    <2>2. OriginalRow(m) \in Row /\ BrokerCopy(m) \in Row
        BY ListingTyped
    <2>3. tx' \in [Threads -> [rows: SUBSET Row, sales: SUBSET Contract]]
        BY <2>1, <2>2
    <2>4. TypeOK'
        BY <1>1, <2>3 DEF AddOffer
    <2>5. ThreadsOK'
        BY <1>1, <2>1 DEF AddOffer
    <2> QED
        BY <2>4, <2>5
<1>2. ASSUME NEW r \in Requests, Begin(t, r)
      PROVE  TypeInv'
    BY <1>2, RequestsTyped DEF Begin
<1>3. CASE WriteSale(t)
    <2>1. PICK p \in NextPorts(cur[t]) :
            tx' = [tx EXCEPT ![t] = [rows |-> {NewRow(t)}, sales |-> {Sale(t, p)}]]
        BY <1>3 DEF WriteSale
    <2>2. NewRow(t) \in Row /\ Sale(t, p) \in Contract
        BY <1>3, SaleTyped DEF WriteSale
    <2>3. tx' \in [Threads -> [rows: SUBSET Row, sales: SUBSET Contract]]
        BY <2>1, <2>2
    <2>4. TypeOK'
        BY <1>3, <2>3 DEF WriteSale
    <2>5. ThreadsOK'
        BY <1>3, <2>1 DEF WriteSale
    <2> QED
        BY <2>4, <2>5
<1>4. CASE Commit(t)
    BY <1>4 DEF Commit
<1> QED
    BY <1>1, <1>2, <1>3, <1>4

\* And so does a crash.
LEMMA CrashTyped ==
    ASSUME TypeInv, NEW s \in Crashing, Crash(s)
    PROVE  TypeInv'
BY NoTxTyped, MarketAssumption DEF Crash, TypeInv, TypeOK, ThreadsOK, PC

\* Typing needs one fact about the rows: that available ones are the broker's.
LEMMA TypeStep ==
    ASSUME TypeInv, Links, [Next]_vars
    PROVE  TypeInv'
<1>1. ASSUME NEW t \in Threads, Call(t) \/ Step(t)
      PROVE  TypeInv'
    BY <1>1, QuietTyped, WriteTyped DEF Call, Step, Quiet
<1>2. CASE UNCHANGED vars
    BY <1>2 DEF vars, TypeInv, TypeOK, ThreadsOK
<1> QED
    BY <1>1, <1>2, CrashTyped DEF Next, Idle
-----------------------------------------------------------------------------
(* The database and the open transactions.                                 *)

\* The invariants of the database are about the two tables; only Keys
\* also looks at the counter.
LEMMA UnchangedDB ==
    ASSUME DBInv, UNCHANGED <<offers, contracts>>, Keys'
    PROVE  DBInv'
<1>1. Lineage'
    BY DEF DBInv, Lineage, available, IsAvailable, Deprecators
<1>2. Links'
    BY DEF DBInv, Links
<1>3. Signed'
    BY DEF DBInv, Signed
<1>4. SaleComplete'
    BY DEF DBInv, SaleComplete
<1>5. SoldIffDeprecated'
    BY DEF DBInv, SoldIffDeprecated, IsSold
<1> QED
    BY <1>1, <1>2, <1>3, <1>4, <1>5 DEF DBInv

\* Steps that publish nothing and at most drop transactions keep everything.
LEMMA FrameStep ==
    ASSUME DBInv, Pending, Exclusive,
           UNCHANGED <<offers, contracts>>, nextId' = nextId,
           \A u \in Threads : tx'[u] = tx[u] \/ tx'[u] = NoTx
    PROVE  DBInv' /\ Pending' /\ Exclusive'
<1>1. DBInv'
    BY UnchangedDB DEF DBInv, Keys
<1>2. Pending'
    BY DEF Pending
<1>3. Exclusive'
    BY DEF Exclusive, NoTx
<1> QED
    BY <1>1, <1>2, <1>3

\* Quiet steps are such steps.
LEMMA QuietStep ==
    ASSUME IInv, NEW t \in Threads, Quiet(t)
    PROVE  DBInv' /\ Pending' /\ Exclusive'
<1>1. UNCHANGED <<offers, contracts>> /\ nextId' = nextId
    BY DEF Quiet, RefuseOffer, Acquire, FetchAvailable, FetchExact, FetchNothing, Walk,
           WalkEnds, CheckUnsold, CheckSold, RefusePurchase, DuplicateOrder, RejectOrder, Answer
<1>2. \A u \in Threads : tx'[u] = tx[u] \/ tx'[u] = NoTx
    BY DEF Quiet, RefuseOffer, Acquire, FetchAvailable, FetchExact, FetchNothing, Walk,
           WalkEnds, CheckUnsold, CheckSold, RefusePurchase, DuplicateOrder, RejectOrder, Answer,
           EndTx, IInv, TypeInv, TypeOK
<1> QED
    BY <1>1, <1>2, FrameStep DEF IInv

\* A new pair of rows, not yet committed, has ids of its own.
LEMMA AddOfferStep ==
    ASSUME IInv, NEW t \in Threads, AddOffer(t)
    PROVE  DBInv' /\ Pending' /\ Exclusive'
<1>1. PICK m \in Submissions :
        /\ SellerSigned(m.specs, m.sig)
        /\ tx' = [tx EXCEPT ![t] = [rows |-> {OriginalRow(m), BrokerCopy(m)}, sales |-> {}]]
    BY DEF AddOffer
<1>2. /\ UNCHANGED <<offers, contracts>> /\ nextId' = nextId + 2 /\ nextId \in Nat \ {0}
      /\ tx \in [Threads -> [rows: SUBSET Row, sales: SUBSET Contract]]
    BY DEF AddOffer, IInv, TypeInv, TypeOK
<1>3. tx'[t] = [rows |-> {OriginalRow(m), BrokerCopy(m)}, sales |-> {}]
      /\ \A u \in Threads \ {t} : tx'[u] = tx[u]
    BY <1>1, <1>2
<1>4. \A o \in offers : o.id \in Nat /\ o.id < nextId
    BY DEF IInv, TypeInv, TypeOK, Row, DBInv, Keys
<1>5. \A u \in Threads : \A r \in tx[u].rows : r.id \in Nat /\ r.id < nextId
    BY <1>2 DEF IInv, Exclusive, Row
<1>6. DBInv'
    <2>1. Keys'
        BY <1>2, <1>4 DEF IInv, DBInv, Keys
    <2> QED
        BY <1>2, <2>1, UnchangedDB DEF IInv
<1>7. Pending'
    <2>1. Listing(tx'[t])
        <3> DEFINE a == OriginalRow(m)
                   b == BrokerCopy(m)
        <3>1. a \in tx'[t].rows /\ b \in tx'[t].rows
              /\ tx'[t].rows = {a, b} /\ tx'[t].sales = {}
            BY <1>3
        <3>2. /\ a.deprecates = NoOffer /\ a.root = a.id
              /\ b.deprecates = a.id /\ b.root = a.id /\ a.id < b.id
            BY <1>2 DEF OriginalRow, BrokerCopy
        <3>3. /\ a.sig.over = a.specs /\ a.sig.by = a.specs.seller
              /\ b.sig.over = b.specs /\ b.sig.by = BROKER
            BY <1>1 DEF OriginalRow, BrokerCopy, SellerSigned, SignWithBroker
        <3> HIDE DEF a, b
        <3> QED
            BY <3>1, <3>2, <3>3 DEF Listing
    <2>2. \A u \in Threads \ {t} :
            tx'[u] = NoTx \/ Listing(tx'[u]) \/ Selling(tx'[u], offers', contracts')
        BY <1>2, <1>3 DEF IInv, Pending
    <2> QED
        BY <2>1, <2>2 DEF Pending
<1>8. Exclusive'
    <2>1. \A r \in tx'[t].rows : r.id = nextId \/ r.id = nextId + 1
        BY <1>3 DEF OriginalRow, BrokerCopy
    <2>2. \A u \in Threads : \A r \in tx'[u].rows :
            r.id < nextId' /\ \A o \in offers : o.id # r.id
        BY <1>2, <1>3, <1>4, <1>5, <2>1 DEF IInv, Exclusive
    <2>3. ASSUME NEW u \in Threads, NEW v \in Threads, u # v
          PROVE  /\ \A r \in tx'[u].rows, q \in tx'[v].rows : r.id # q.id
                 /\ \A c \in tx'[u].sales, d \in tx'[v].sales : c.offer # d.offer
        <3>1. CASE u = t
            BY <1>2, <1>3, <1>5, <2>1, <2>3, <3>1
        <3>2. CASE v = t
            BY <1>2, <1>3, <1>5, <2>1, <2>3, <3>2
        <3>3. CASE u # t /\ v # t
            BY <1>3, <2>3, <3>3 DEF IInv, Exclusive
        <3> QED
            BY <3>1, <3>2, <3>3
    <2> QED
        BY <1>2, <2>2, <2>3 DEF Exclusive
<1> QED
    BY <1>6, <1>7, <1>8

\* A sale waits in its transaction on an available, unsold row, alone.
LEMMA WriteSaleStep ==
    ASSUME IInv, NEW t \in Threads, WriteSale(t)
    PROVE  DBInv' /\ Pending' /\ Exclusive'
<1>1. PICK p \in NextPorts(cur[t]) :
        tx' = [tx EXCEPT ![t] = [rows |-> {NewRow(t)}, sales |-> {Sale(t, p)}]]
    BY DEF WriteSale
<1>2. /\ UNCHANGED <<offers, contracts>> /\ nextId' = nextId + 1 /\ nextId \in Nat \ {0}
      /\ tx \in [Threads -> [rows: SUBSET Row, sales: SUBSET Contract]]
      /\ cur[t] \in offers /\ cur[t] \in Row /\ cur[t].deprecates # NoOffer
    BY DEF WriteSale, IInv, TypeInv, TypeOK, ThreadsOK
<1>3. tx'[t] = [rows |-> {NewRow(t)}, sales |-> {Sale(t, p)}]
      /\ \A u \in Threads \ {t} : tx'[u] = tx[u]
    BY <1>1, <1>2
<1>4. \A o \in offers : o.id \in Nat /\ o.id < nextId
    BY DEF IInv, TypeInv, TypeOK, Row, DBInv, Keys
<1>5. \A u \in Threads : \A r \in tx[u].rows : r.id \in Nat /\ r.id < nextId
    BY <1>2 DEF IInv, Exclusive, Row
<1>6. DBInv'
    <2>1. Keys'
        BY <1>2, <1>4 DEF IInv, DBInv, Keys
    <2> QED
        BY <1>2, <2>1, UnchangedDB DEF IInv
<1>7. Pending'
    <2>1. Selling(tx'[t], offers, contracts)
        <3> DEFINE n == NewRow(t)
                   c == Sale(t, p)
                   o == cur[t]
        <3>1. n \in tx'[t].rows /\ c \in tx'[t].sales /\ o \in offers
              /\ tx'[t].rows = {n} /\ tx'[t].sales = {c}
            BY <1>2, <1>3
        <3>2. /\ c.offer = o.id /\ n.deprecates = o.id
              /\ n.root = o.root /\ o.id < n.id /\ o.deprecates # NoOffer
            BY <1>2, <1>4 DEF NewRow, Sale
        <3>3. /\ \A q \in offers : q.deprecates # o.id
              /\ \A e \in contracts : e.offer # o.id
            BY DEF WriteSale, IsAvailable, IsSold, Deprecators
        <3>4. /\ n.sig.over = n.specs /\ n.sig.by = BROKER
              /\ Contains(o.specs.prof, c.demand)
              /\ n.specs = Remainder(o.specs, c.demand)
            BY DEF NewRow, Sale, NewSpecs, SignWithBroker, WriteSale, Acceptable
        <3> HIDE DEF n, c, o
        <3> QED
            BY <3>1, <3>2, <3>3, <3>4 DEF Selling
    <2>2. \A u \in Threads \ {t} :
            tx'[u] = NoTx \/ Listing(tx'[u]) \/ Selling(tx'[u], offers', contracts')
        BY <1>2, <1>3 DEF IInv, Pending
    <2> QED
        BY <1>2, <2>1, <2>2 DEF Pending
<1>8. Exclusive'
    <2>1. /\ \A r \in tx'[t].rows : r.id = nextId
          /\ \A c \in tx'[t].sales : c.offer = cur[t].id
        BY <1>3 DEF NewRow, Sale
    <2>2. \A u \in Threads : \A r \in tx'[u].rows :
            r.id < nextId' /\ \A o \in offers : o.id # r.id
        BY <1>2, <1>3, <1>4, <1>5, <2>1 DEF IInv, Exclusive
    <2>3. \A u \in Threads \ {t} : \A c \in tx[u].sales : c.offer # cur[t].id
        BY DEF WriteSale, Locked
    <2>4. ASSUME NEW u \in Threads, NEW v \in Threads, u # v
          PROVE  /\ \A r \in tx'[u].rows, q \in tx'[v].rows : r.id # q.id
                 /\ \A c \in tx'[u].sales, d \in tx'[v].sales : c.offer # d.offer
        <3>1. CASE u = t
            BY <1>2, <1>3, <1>5, <2>1, <2>3, <2>4, <3>1
        <3>2. CASE v = t
            BY <1>2, <1>3, <1>5, <2>1, <2>3, <2>4, <3>2
        <3>3. CASE u # t /\ v # t
            BY <1>3, <2>4, <3>3 DEF IInv, Exclusive
        <3> QED
            BY <3>1, <3>2, <3>3
    <2> QED
        BY <1>2, <2>2, <2>4 DEF Exclusive
<1> QED
    BY <1>6, <1>7, <1>8

\* Committing a seller's row and its copy starts a new chain.
LEMMA CommitListing ==
    ASSUME TypeOK, DBInv, NEW x, x.rows \subseteq Row, Listing(x),
           \A r \in x.rows : r.id < nextId /\ \A o \in offers : o.id # r.id,
           offers' = offers \cup x.rows, contracts' = contracts \cup x.sales,
           nextId' = nextId
    PROVE  DBInv'
<1>1. PICK a \in x.rows, b \in x.rows :
        /\ x.rows = {a, b} /\ x.sales = {}
        /\ a.deprecates = NoOffer /\ a.root = a.id
        /\ b.deprecates = a.id /\ b.root = a.id /\ a.id < b.id
        /\ a.sig.over = a.specs /\ a.sig.by = a.specs.seller
        /\ b.sig.over = b.specs /\ b.sig.by = BROKER
    BY DEF Listing
<1>2. /\ a \in Row /\ b \in Row /\ a.id \in Nat \ {0} /\ b.id \in Nat \ {0}
      /\ a.id < nextId /\ b.id < nextId
      /\ \A o \in offers : o.id # a.id /\ o.id # b.id
    BY <1>1 DEF Row
<1>3. offers' = offers \cup {a, b} /\ contracts' = contracts
    BY <1>1
<1>4. \A o \in offers : o \in Row /\ o.id \in Nat \ {0} /\ o.deprecates \in Nat
                        /\ o.root \in Nat \ {0}
    BY DEF TypeOK, Row
<1>5. \A o \in offers : /\ o.root # a.id /\ o.root # b.id
                        /\ o.deprecates # a.id /\ o.deprecates # b.id
    BY <1>2, <1>4, SMTT(20) DEF DBInv, Links, NoOffer
<1>6. \A c \in contracts : c.offer # a.id /\ c.offer # b.id
    BY <1>2 DEF DBInv, SaleComplete
<1>7. available' = available \cup {b}
    <2>1. available' = {o \in offers' : \A p \in offers' : p.deprecates # o.id}
        BY DEF available, IsAvailable, Deprecators
    <2>2. available = {o \in offers : \A p \in offers : p.deprecates # o.id}
        BY DEF available, IsAvailable, Deprecators
    <2>3. \A o \in offers : a.deprecates # o.id /\ b.deprecates # o.id
        BY <1>1, <1>2, <1>4 DEF NoOffer
    <2>4. /\ \A p \in offers' : p.deprecates # b.id
          /\ b.deprecates = a.id
        BY <1>1, <1>2, <1>3, <1>5 DEF NoOffer
    <2> QED
        BY <1>3, <2>1, <2>2, <2>3, <2>4
<1>8. Keys'
    BY <1>1, <1>2, <1>3 DEF DBInv, Keys
<1>9. Lineage'
    <2>1. \A o, n \in offers' : o.id = n.id => o = n
        BY <1>8 DEF Keys
    <2>2. \A o \in offers' : o.deprecates # NoOffer =>
            \E p \in offers' : p.id = o.deprecates /\ p.id < o.id /\ p.root = o.root
        BY <1>1, <1>3 DEF DBInv, Lineage
    <2>3. ASSUME NEW o \in offers'
          PROVE  \E e \in available' :
                    e.root = o.root /\ \A g \in available' : g.root = o.root => g = e
        <3>1. CASE o \in offers
            <4>1. PICK e \in available :
                    e.root = o.root /\ \A g \in available : g.root = o.root => g = e
                BY <3>1 DEF DBInv, Lineage
            <4> QED
                BY <1>1, <1>5, <1>7, <3>1, <4>1
        <3>2. CASE o \in {a, b}
            BY <1>1, <1>5, <1>7, <3>2 DEF available
        <3> QED
            BY <1>3, <3>1, <3>2
    <2> QED
        BY <2>1, <2>2, <2>3 DEF Lineage
<1>10. Links'
    <2>1. \A o \in offers' : \E r \in offers' : r.id = o.root /\ r.deprecates = NoOffer
        BY <1>1, <1>3 DEF DBInv, Links
    <2>2. \A o \in offers' : o.deprecates = NoOffer =>
            /\ o.root = o.id
            /\ \E n \in offers' : n.deprecates = o.id
            /\ \A c \in contracts' : c.offer # o.id
        BY <1>1, <1>2, <1>3, <1>6 DEF DBInv, Links, NoOffer
    <2>3. \A o \in offers' : o.deprecates # NoOffer =>
            /\ o.root < o.id
            /\ \E p \in offers' : p.id = o.deprecates /\ p.id < o.id /\ p.root = o.root
        BY <1>1, <1>3 DEF DBInv, Links
    <2>4. \A o, n \in offers' :
            o.deprecates = n.deprecates /\ o.deprecates # NoOffer => o = n
        BY <1>1, <1>3, <1>5 DEF DBInv, Links
    <2> QED
        BY <2>1, <2>2, <2>3, <2>4 DEF Links
<1>11. Signed'
    BY <1>1, <1>2, <1>3 DEF DBInv, Signed, NoOffer
<1>12. SaleComplete'
    BY <1>3 DEF DBInv, SaleComplete
<1>13. SoldIffDeprecated'
    BY <1>1, <1>2, <1>3, <1>4, <1>5 DEF DBInv, SoldIffDeprecated, IsSold, NoOffer
<1> QED
    BY <1>8, <1>9, <1>10, <1>11, <1>12, <1>13 DEF DBInv

\* Committing a sale moves the available end of a chain by one row.
LEMMA CommitSelling ==
    ASSUME TypeOK, DBInv, NEW x, x.rows \subseteq Row,
           Selling(x, offers, contracts),
           \A r \in x.rows : r.id < nextId /\ \A o \in offers : o.id # r.id,
           offers' = offers \cup x.rows, contracts' = contracts \cup x.sales,
           nextId' = nextId
    PROVE  DBInv'
<1>1. PICK n \in x.rows, c \in x.sales, o \in offers :
        /\ x.rows = {n} /\ x.sales = {c}
        /\ c.offer = o.id /\ n.deprecates = o.id
        /\ n.root = o.root /\ o.id < n.id
        /\ o.deprecates # NoOffer
        /\ \A p \in offers : p.deprecates # o.id
        /\ \A e \in contracts : e.offer # o.id
        /\ n.sig.over = n.specs /\ n.sig.by = BROKER
        /\ Contains(o.specs.prof, c.demand)
        /\ n.specs = Remainder(o.specs, c.demand)
    BY DEF Selling
<1>2. /\ n \in Row /\ n.id \in Nat \ {0} /\ n.id < nextId
      /\ \A q \in offers : q.id # n.id
    BY <1>1 DEF Row
<1>3. offers' = offers \cup {n} /\ contracts' = contracts \cup {c}
    BY <1>1
<1>4. \A q \in offers : q \in Row /\ q.id \in Nat \ {0} /\ q.deprecates \in Nat
                        /\ q.root \in Nat \ {0}
    BY DEF TypeOK, Row
<1>5. \A q \in offers : q.root # n.id /\ q.deprecates # n.id
    BY <1>2, <1>4 DEF DBInv, Links, NoOffer
<1>6. \A q \in offers : q.id = o.id => q = o
    BY DEF DBInv, Keys
<1>7. o \in available /\ available' = (available \ {o}) \cup {n}
    BY <1>1, <1>2, <1>3, <1>4, <1>5, <1>6 DEF available, IsAvailable, Deprecators
<1>8. Keys'
    BY <1>1, <1>2, <1>3 DEF DBInv, Keys
<1>9. Lineage'
    <2>1. \A q, r \in offers' : q.id = r.id => q = r
        BY <1>8 DEF Keys
    <2>2. \A q \in offers' : q.deprecates # NoOffer =>
            \E p \in offers' : p.id = q.deprecates /\ p.id < q.id /\ p.root = q.root
        BY <1>1, <1>3 DEF DBInv, Lineage
    <2>3. ASSUME NEW q \in offers'
          PROVE  \E e \in available' :
                    e.root = q.root /\ \A g \in available' : g.root = q.root => g = e
        <3>1. PICK r \in offers : r.root = q.root
            BY <1>1, <1>3
        <3>2. PICK e \in available :
                e.root = q.root /\ \A g \in available : g.root = q.root => g = e
            BY <3>1 DEF DBInv, Lineage
        <3> QED
            BY <1>1, <1>7, <3>2
    <2> QED
        BY <2>1, <2>2, <2>3 DEF Lineage
<1>10. Links'
    <2>1. \A q \in offers' : \E r \in offers' : r.id = q.root /\ r.deprecates = NoOffer
        BY <1>1, <1>3 DEF DBInv, Links
    <2>2. \A q \in offers' : q.deprecates = NoOffer =>
            /\ q.root = q.id
            /\ \E r \in offers' : r.deprecates = q.id
            /\ \A e \in contracts' : e.offer # q.id
        <3>1. n.deprecates # NoOffer
            BY <1>1, <1>4 DEF NoOffer
        <3>2. \A q \in offers : q.deprecates = NoOffer => c.offer # q.id
            BY <1>1, <1>6
        <3> QED
            BY <1>3, <3>1, <3>2 DEF DBInv, Links
    <2>3. \A q \in offers' : q.deprecates # NoOffer =>
            /\ q.root < q.id
            /\ \E p \in offers' : p.id = q.deprecates /\ p.id < q.id /\ p.root = q.root
        <3>1. o.root < n.id
            BY <1>1, <1>2, <1>4 DEF DBInv, Links
        <3> QED
            BY <1>1, <1>3, <3>1 DEF DBInv, Links
    <2>4. \A q, r \in offers' :
            q.deprecates = r.deprecates /\ q.deprecates # NoOffer => q = r
        BY <1>1, <1>3 DEF DBInv, Links
    <2> QED
        BY <2>1, <2>2, <2>3, <2>4 DEF Links
<1>11. Signed'
    BY <1>1, <1>3, <1>4 DEF DBInv, Signed, NoOffer
<1>12. SaleComplete'
    <2>1. \A d, e \in contracts' : d.offer = e.offer => d = e
        BY <1>1, <1>3 DEF DBInv, SaleComplete
    <2>2. \A e \in contracts : \E q, r \in offers' :
            /\ q.id = e.offer /\ r.deprecates = q.id
            /\ Contains(q.specs.prof, e.demand)
            /\ r.specs = Remainder(q.specs, e.demand)
        BY <1>3 DEF DBInv, SaleComplete
    <2>3. o \in offers' /\ n \in offers'
        BY <1>3
    <2>4. \E q, r \in offers' :
            /\ q.id = c.offer /\ r.deprecates = q.id
            /\ Contains(q.specs.prof, c.demand)
            /\ r.specs = Remainder(q.specs, c.demand)
        BY <1>1, <2>3
    <2> QED
        BY <1>3, <2>1, <2>2, <2>4 DEF SaleComplete
<1>13. SoldIffDeprecated'
    BY <1>1, <1>2, <1>3, <1>5, <1>6 DEF DBInv, SoldIffDeprecated, IsSold
<1> QED
    BY <1>8, <1>9, <1>10, <1>11, <1>12, <1>13 DEF DBInv

\* The witnesses of a pending sale, for any tables.
LEMMA SellingIntro ==
    ASSUME NEW x, NEW rows, NEW sold, NEW n \in x.rows, NEW c \in x.sales, NEW o \in rows,
           x.rows = {n}, x.sales = {c},
           c.offer = o.id, n.deprecates = o.id, n.root = o.root, o.id < n.id,
           o.deprecates # NoOffer,
           \A p \in rows : p.deprecates # o.id,
           \A e \in sold : e.offer # o.id,
           n.sig.over = n.specs, n.sig.by = BROKER,
           Contains(o.specs.prof, c.demand),
           n.specs = Remainder(o.specs, c.demand)
    PROVE  Selling(x, rows, sold)
BY DEF Selling

\* A sale still waiting is not disturbed by the commit of another transaction.
LEMMA SellingKept ==
    ASSUME TypeOK, NEW x, NEW y, x.rows \subseteq Row,
           x = NoTx \/ Listing(x) \/ Selling(x, offers, contracts),
           \A r \in x.rows : \A o \in offers : o.id # r.id,
           Selling(y, offers, contracts),
           \A c \in x.sales, d \in y.sales : c.offer # d.offer,
           NEW rows, rows = offers \cup x.rows, NEW sold, sold = contracts \cup x.sales
    PROVE  Selling(y, rows, sold)
<1>1. PICK n \in y.rows, c \in y.sales, o \in offers :
        /\ y.rows = {n} /\ y.sales = {c}
        /\ c.offer = o.id /\ n.deprecates = o.id
        /\ n.root = o.root /\ o.id < n.id
        /\ o.deprecates # NoOffer
        /\ \A p \in offers : p.deprecates # o.id
        /\ \A e \in contracts : e.offer # o.id
        /\ n.sig.over = n.specs /\ n.sig.by = BROKER
        /\ Contains(o.specs.prof, c.demand)
        /\ n.specs = Remainder(o.specs, c.demand)
    BY DEF Selling
<1>2. o.id # NoOffer
    BY DEF TypeOK, Row, NoOffer
<1>3. \A e \in x.sales : e.offer # o.id
    BY <1>1
<1>4. \A r \in x.rows : r.deprecates # o.id
    <2>1. CASE x = NoTx
        BY <2>1 DEF NoTx
    <2>2. CASE Listing(x)
        BY <1>2, <2>2 DEF Listing
    <2>3. CASE Selling(x, offers, contracts)
        BY <1>1, <2>3 DEF Selling
    <2> QED
        BY <2>1, <2>2, <2>3
<1>5. /\ o \in rows
      /\ \A p \in rows : p.deprecates # o.id
      /\ \A e \in sold : e.offer # o.id
    BY <1>1, <1>3, <1>4
<1> QED
    BY <1>1, <1>5, SellingIntro

\* Commit publishes the rows of its transaction.
LEMMA CommitStep ==
    ASSUME IInv, NEW t \in Threads, Commit(t)
    PROVE  DBInv' /\ Pending' /\ Exclusive'
<1>1. PICK x : x = tx[t]
    OBVIOUS
<1>2. /\ offers' = offers \cup x.rows /\ contracts' = contracts \cup x.sales
      /\ nextId' = nextId
      /\ tx'[t] = NoTx /\ \A u \in Threads \ {t} : tx'[u] = tx[u]
      /\ x.rows \subseteq Row
    BY <1>1 DEF Commit, EndTx, IInv, TypeInv, TypeOK
<1>3. /\ x = NoTx \/ Listing(x) \/ Selling(x, offers, contracts)
      /\ \A r \in x.rows : r.id < nextId /\ \A o \in offers : o.id # r.id
    BY <1>1 DEF IInv, Pending, Exclusive
<1>4. TypeOK /\ DBInv
    BY DEF IInv, TypeInv
<1>5. DBInv'
    <2>1. CASE x = NoTx
        BY <1>2, <1>4, <2>1, UnchangedDB DEF NoTx, DBInv, Keys
    <2>2. CASE Listing(x)
        BY <1>2, <1>3, <1>4, <2>2, CommitListing
    <2>3. CASE Selling(x, offers, contracts)
        BY <1>2, <1>3, <1>4, <2>3, CommitSelling
    <2> QED
        BY <1>3, <2>1, <2>2, <2>3
<1>6. Pending'
    <2>1. ASSUME NEW u \in Threads \ {t}
          PROVE  tx'[u] = NoTx \/ Listing(tx'[u]) \/ Selling(tx'[u], offers', contracts')
        <3>1. PICK y : y = tx[u]
            OBVIOUS
        <3>2. y = NoTx \/ Listing(y) \/ Selling(y, offers, contracts)
            BY <3>1 DEF IInv, Pending
        <3>3. \A c \in x.sales, d \in y.sales : c.offer # d.offer
            BY <1>1, <3>1 DEF IInv, Exclusive
        <3>4. PICK rows, sold : rows = offers' /\ sold = contracts'
            OBVIOUS
        <3>5. Selling(y, offers, contracts) => Selling(y, rows, sold)
            BY <1>2, <1>3, <1>4, <3>3, <3>4, SellingKept
        <3>6. tx'[u] = y
            BY <1>2, <3>1
        <3> QED
            BY <3>2, <3>4, <3>5, <3>6
    <2> QED
        BY <1>2, <2>1 DEF Pending
<1>7. Exclusive'
    <2>1. \A u \in Threads : \A r \in tx'[u].rows : u # t /\ r \in tx[u].rows
        BY <1>2 DEF NoTx
    <2>2. \A u \in Threads : \A c \in tx'[u].sales : u # t /\ c \in tx[u].sales
        BY <1>2 DEF NoTx
    <2> QED
        BY <1>1, <1>2, <2>1, <2>2 DEF IInv, Exclusive
<1> QED
    BY <1>5, <1>6, <1>7
-----------------------------------------------------------------------------
(* The invariant and what follows from it.                                 *)

LEMMA InitIInv == Init => IInv
<1> SUFFICES ASSUME Init PROVE IInv
    OBVIOUS
<1>1. TypeInv
    BY NoTxTyped DEF Init, TypeInv, TypeOK, ThreadsOK, PC
<1>2. DBInv
    BY DEF Init, DBInv, Keys, Lineage, Links, Signed, SaleComplete, SoldIffDeprecated
<1>3. Pending /\ Exclusive
    BY DEF Init, Pending, Exclusive, NoTx
<1> QED
    BY <1>1, <1>2, <1>3 DEF IInv

LEMMA NextIInv == IInv /\ [Next]_vars => IInv'
<1> SUFFICES ASSUME IInv, [Next]_vars PROVE IInv'
    OBVIOUS
<1>1. TypeInv'
    BY TypeStep DEF IInv, DBInv
<1>2. ASSUME NEW t \in Threads, Call(t) \/ Step(t)
      PROVE  DBInv' /\ Pending' /\ Exclusive'
    <2>1. CASE \E r \in Requests : Begin(t, r)
        BY <2>1, FrameStep DEF Begin, IInv
    <2>2. CASE Quiet(t)
        BY <2>2, QuietStep
    <2> QED
        BY <1>2, <2>1, <2>2, AddOfferStep, WriteSaleStep, CommitStep DEF Call, Step, Quiet
<1>3. ASSUME NEW s \in Crashing, Crash(s)
      PROVE  DBInv' /\ Pending' /\ Exclusive'
    BY <1>3, FrameStep DEF Crash, IInv
<1>4. ASSUME UNCHANGED vars
      PROVE  DBInv' /\ Pending' /\ Exclusive'
    BY <1>4, FrameStep DEF vars, IInv
<1>5. DBInv' /\ Pending' /\ Exclusive'
    BY <1>2, <1>3, <1>4 DEF Next, Idle
<1> QED
    BY <1>1, <1>5 DEF IInv

\* The invariant holds in every reachable state.
THEOREM Invariance == Spec => []IInv
BY InitIInv, NextIInv, PTL DEF Spec

\* Every table and every thread keeps to its types.
THEOREM TypeCorrect == Spec => []TypeOK
BY Invariance, PTL DEF IInv, TypeInv

\* The rows of a submission form one chain with one available row.
THEOREM ChainCorrect == Spec => []Lineage
BY Invariance, PTL DEF IInv, DBInv

\* No offer is sold twice and a sale always leaves its remainder on offer,
\* whatever the processes do and wherever they crash.
THEOREM SalesCorrect == Spec => []SaleComplete
BY Invariance, PTL DEF IInv, DBInv

\* _original_offers selects the sellers' own rows.
THEOREM OriginalsCorrect == Spec => []OriginalsAreSellers
<1>1. IInv => OriginalsAreSellers
    <2> SUFFICES ASSUME IInv, NEW o \in offers
                 PROVE  /\ o.sig.over = o.specs
                        /\ o.sig.by = (IF o \in OriginalOffers THEN o.specs.seller ELSE BROKER)
                        /\ o \in OriginalOffers <=> o.id = o.root
        BY DEF OriginalsAreSellers
    <2>1. o \in OriginalOffers <=> o.deprecates = NoOffer
        BY DEF IInv, DBInv, Links, SoldIffDeprecated, OriginalOffers, IsAvailable,
               Deprecators, IsSold
    <2>2. o.id = o.root <=> o.deprecates = NoOffer
        BY DEF IInv, TypeInv, TypeOK, Row, DBInv, Links
    <2> QED
        BY <2>1, <2>2 DEF IInv, DBInv, Signed
<1> QED
    BY <1>1, Invariance, PTL
-----------------------------------------------------------------------------
(* Steps.                                                                  *)

\* Rows are permanent, and a contract appears alone, with the row that
\* deprecates the offer sold.
THEOREM RowsPermanent == Spec => RowsArePermanent
<1> DEFINE Adds == /\ offers \subseteq offers' /\ contracts \subseteq contracts'
                   /\ contracts' # contracts =>
                        \E c \in contracts' \ contracts, n \in offers' \ offers :
                            /\ contracts' = contracts \cup {c}
                            /\ offers' = offers \cup {n}
                            /\ n.deprecates = c.offer
<1>1. ASSUME IInv, [Next]_vars
      PROVE  Adds
    <2>1. ASSUME NEW t \in Threads, Commit(t)
          PROVE  Adds
        <3>1. PICK x : x = tx[t]
            OBVIOUS
        <3>2. /\ offers' = offers \cup x.rows /\ contracts' = contracts \cup x.sales
              /\ x = NoTx \/ Listing(x) \/ Selling(x, offers, contracts)
              /\ \A r \in x.rows : \A o \in offers : o.id # r.id
            BY <1>1, <2>1, <3>1 DEF Commit, IInv, Pending, Exclusive
        <3>3. CASE x.sales = {}
            BY <3>2, <3>3
        <3>4. CASE Selling(x, offers, contracts)
            <4>1. PICK n \in x.rows, c \in x.sales :
                    /\ x.rows = {n} /\ x.sales = {c} /\ n.deprecates = c.offer
                    /\ \A e \in contracts : e.offer # c.offer
                BY <3>4 DEF Selling
            <4>2. n \in offers' \ offers /\ c \in contracts' \ contracts
                BY <3>2, <4>1
            <4> QED
                BY <3>2, <4>1, <4>2
        <3> QED
            BY <3>2, <3>3, <3>4 DEF NoTx, Listing
    <2>2. (\E t \in Threads : Commit(t)) \/ UNCHANGED <<offers, contracts>>
        BY <1>1 DEF Next, Call, Step, Idle, vars, AddOffer, RefuseOffer, Begin, Acquire,
           FetchAvailable, FetchExact, FetchNothing, Walk, WalkEnds, CheckUnsold, CheckSold,
           RefusePurchase, DuplicateOrder, RejectOrder, WriteSale, Answer, Crash
    <2> QED
        BY <2>1, <2>2
<1> QED
    BY <1>1, Invariance, PTL DEF Spec, RowsArePermanent
-----------------------------------------------------------------------------
(* In one process the mutex alone keeps purchases apart: the unique index  *)
(* of the database is never needed.                                        *)

SingleProcess == \A t, u \in Threads : ServerOf[t] = ServerOf[u]

Holds(t) == mutex[ServerOf[t]] = t

\* whoever is between the fetch and the commit holds the mutex
Guarded ==
    \A t \in Threads :
        /\ pc[t] \in {"fetch", "walk", "check", "write"} => Holds(t)
        /\ tx[t].sales # {} => Holds(t)

\* a thread that works on a row has one, and a commit of it is a sale
Working ==
    \A t \in Threads :
        /\ pc[t] \in {"idle", "acquire", "fetch"} => cur[t] = NONE
        /\ pc[t] = "commit" /\ cur[t] # NONE => cur[t] \in offers /\ tx[t].sales # {}

MInv == Guarded /\ Working /\ FetchedStaysAvailable /\ NoIntegrityError

\* Types that the steps below rely on.
LEMMA MutexTypes ==
    ASSUME IInv
    PROVE  /\ pc \in [Threads -> PC] /\ mutex \in [Servers -> Threads \cup {NONE}]
           /\ cur \in [Threads -> Row \cup {NONE}]
           /\ outcome \in [Threads -> {"none", "ok", "refused", "integrity"}]
           /\ tx \in [Threads -> [rows: SUBSET Row, sales: SUBSET Contract]]
           /\ ServerOf \in [Threads -> Servers] /\ NONE \notin Threads
           /\ NONE \notin Row
           /\ \A t \in Threads : tx[t].sales # {} => pc[t] = "commit"
<1>1. TypeOK /\ ThreadsOK
    BY DEF IInv, TypeInv
<1>2. \A t \in Threads : tx[t].sales # {} => pc[t] = "commit"
    BY <1>1 DEF ThreadsOK, NoTx
<1>3. ServerOf \in [Threads -> Servers] /\ NONE \notin Threads /\ NONE \notin Row
    BY MarketAssumption
<1> QED
    BY <1>1, <1>2, <1>3 DEF TypeOK

\* Steps of a thread that leave the tables alone touch only its own mutex.
LEMMA GuardedStep ==
    ASSUME SingleProcess, IInv, Guarded, NEW t \in Threads, Call(t) \/ Step(t)
    PROVE  Guarded'
<1> USE MutexTypes DEF Guarded, Holds, Goto, EndTx, locals, PC
<1>1. CASE AddOffer(t)
    <2>1. tx'[t].sales = {}
        BY <1>1 DEF AddOffer
    <2> QED
        BY <1>1, <2>1 DEF AddOffer
<1>2. CASE RefuseOffer(t) \/ \E r \in Requests : Begin(t, r)
    BY <1>2 DEF RefuseOffer, Begin, NoTx
<1>3. CASE Acquire(t)
    BY <1>3 DEF Acquire, SingleProcess
<1>4. CASE FetchAvailable(t) \/ FetchExact(t) \/ Walk(t) \/ WalkEnds(t) \/ CheckUnsold(t)
    BY <1>4 DEF FetchAvailable, FetchExact, Walk, WalkEnds, CheckUnsold
<1>5. CASE \/ FetchNothing(t) \/ CheckSold(t) \/ RefusePurchase(t) \/ DuplicateOrder(t)
           \/ RejectOrder(t) \/ Commit(t)
    BY <1>5 DEF FetchNothing, CheckSold, RefusePurchase, DuplicateOrder, RejectOrder,
       Commit, NoTx
<1>6. CASE WriteSale(t)
    BY <1>6 DEF WriteSale
<1>7. CASE Answer(t)
    BY <1>7 DEF Answer
<1> QED
    BY <1>1, <1>2, <1>3, <1>4, <1>5, <1>6, <1>7 DEF Call, Step

\* A row of the tables that is available is not sold.
LEMMA AvailableUnsold ==
    ASSUME DBInv, NEW o \in offers, IsAvailable(o)
    PROVE  ~IsSold(o)
<1>1. ASSUME NEW c \in contracts, c.offer = o.id
      PROVE  FALSE
    <2>1. PICK p \in offers, n \in offers : p.id = c.offer /\ n.deprecates = p.id
        BY DEF DBInv, SaleComplete
    <2> QED
        BY <1>1, <2>1 DEF IsAvailable, Deprecators
<1> QED
    BY <1>1 DEF IsSold

\* A commit that sells nothing leaves available and unsold rows as they are.
LEMMA ListingKeeps ==
    ASSUME IInv, NEW t \in Threads, Commit(t), tx[t].sales = {},
           NEW o \in offers, IsAvailable(o), ~IsSold(o)
    PROVE  /\ \A n \in offers' : n.deprecates # o.id
           /\ \A c \in contracts' : c.offer # o.id
<1>1. PICK x : x = tx[t]
    OBVIOUS
<1>2. /\ offers' = offers \cup x.rows /\ contracts' = contracts \cup x.sales
      /\ x.sales = {} /\ (x = NoTx \/ Listing(x))
      /\ \A r \in x.rows : o.id # r.id
    BY <1>1 DEF Commit, IInv, Pending, Exclusive, Selling
<1>3. o.id # NoOffer
    BY DEF IInv, TypeInv, TypeOK, Row, NoOffer
<1>4. \A r \in x.rows : r.deprecates # o.id
    BY <1>2, <1>3 DEF NoTx, Listing
<1>5. /\ \A n \in offers : n.deprecates # o.id
      /\ \A c \in contracts : c.offer # o.id
    BY DEF IsAvailable, IsSold, Deprecators
<1> QED
    BY <1>2, <1>4, <1>5

\* The other threads have no row in hand while one holds the mutex, and what a
\* commit without it publishes is no sale.
LEMMA RestStep ==
    ASSUME SingleProcess, IInv, MInv, NEW t \in Threads, Call(t) \/ Step(t)
    PROVE  Working' /\ FetchedStaysAvailable' /\ NoIntegrityError'
<1> DEFINE Free(o) == /\ \A n \in offers : n.deprecates # o.id
                      /\ \A c \in contracts : c.offer # o.id
           Keeps(u) == pc[u] \in {"check", "write", "commit"} /\ cur[u] # NONE
<1>1. \A u \in Threads : Keeps(u) => cur[u] \in offers /\ Free(cur[u]) /\ Holds(u)
    BY DEF MInv, Guarded, Working, FetchedStaysAvailable, IInv, TypeInv, ThreadsOK,
       IsAvailable, IsSold, Deprecators
<1>2. FetchedStaysAvailable' <=> \A u \in Threads : Keeps(u)' => Free(cur[u])'
    BY DEF FetchedStaysAvailable, IsAvailable, IsSold, Deprecators
<1> USE MutexTypes DEF Goto, EndTx, locals, PC, Working, NoIntegrityError, MInv
<1>3. CASE Commit(t)
    <2>1. ASSUME NEW u \in Threads, Keeps(u)'
          PROVE  Free(cur[u])'
        <3>1. u # t /\ pc'[u] = pc[u] /\ cur'[u] = cur[u]
            BY <1>3, <2>1 DEF Commit
        <3>2. Holds(u)
            BY <1>1, <2>1, <3>1
        <3>3. tx[t].sales = {}
            BY <3>1, <3>2 DEF Guarded, Holds, SingleProcess
        <3>4. cur[u] \in offers /\ IsAvailable(cur[u]) /\ ~IsSold(cur[u])
            BY <1>1, <2>1, <3>1 DEF IsAvailable, IsSold, Deprecators
        <3> QED
            BY <1>3, <3>1, <3>3, <3>4, ListingKeeps
    <2>2. Working'
        BY <1>3 DEF Commit
    <2>3. NoIntegrityError'
        BY <1>3 DEF Commit
    <2> QED
        BY <1>2, <2>1, <2>2, <2>3
<1>4. CASE ~Commit(t)
    <2>1. UNCHANGED <<offers, contracts>>
        BY <1>4 DEF Call, Step, AddOffer, RefuseOffer, Begin, Acquire,
           FetchAvailable, FetchExact, FetchNothing, Walk, WalkEnds, CheckUnsold, CheckSold,
           RefusePurchase, DuplicateOrder, RejectOrder, WriteSale, Answer
    <2>10. pc[t] \in {"walk", "check", "write"} => cur[t] \in offers /\ cur[t] # NONE
        BY DEF IInv, TypeInv, TypeOK, ThreadsOK
    <2>2. CASE AddOffer(t) \/ RefuseOffer(t) \/ (\E r \in Requests : Begin(t, r)) \/ Acquire(t)
        BY <1>1, <1>2, <2>1, <2>2 DEF AddOffer, RefuseOffer, Begin, Acquire
    <2>3. CASE FetchExact(t) \/ FetchNothing(t) \/ Walk(t)
        BY <1>1, <1>2, <2>1, <2>3 DEF FetchExact, FetchNothing, Walk
    <2>9. CASE FetchAvailable(t)
        <3>1. PICK o \in available : cur' = [cur EXCEPT ![t] = o]
            BY <2>9 DEF FetchAvailable
        <3>2. o \in offers /\ Free(o)
            BY AvailableUnsold DEF available, IsAvailable, IsSold, Deprecators, IInv
        <3> QED
            BY <1>1, <1>2, <2>1, <2>9, <3>1, <3>2 DEF FetchAvailable
    <2>4. CASE WalkEnds(t)
        BY <1>1, <1>2, <2>1, <2>4, AvailableUnsold
           DEF WalkEnds, IsAvailable, IsSold, Deprecators, IInv, TypeInv, ThreadsOK
    <2>5. CASE CheckUnsold(t) \/ CheckSold(t) \/ RefusePurchase(t) \/ RejectOrder(t)
        BY <1>1, <1>2, <2>1, <2>5 DEF CheckUnsold, CheckSold, RefusePurchase, RejectOrder
    <2>6. CASE DuplicateOrder(t)
        BY <1>1, <2>10, <2>6 DEF DuplicateOrder, IsSold
    <2>7. CASE WriteSale(t)
        <3>1. tx'[t].sales # {} /\ cur' = cur /\ pc' = [pc EXCEPT ![t] = "commit"]
              /\ pc[t] = "write" /\ outcome' = outcome
              /\ \A u \in Threads \ {t} : tx'[u] = tx[u]
            BY <2>7 DEF WriteSale
        <3>2. Working'
            BY <2>1, <2>10, <3>1
        <3>3. \A u \in Threads : Keeps(u)' => Free(cur[u])'
            BY <1>1, <2>1, <2>10, <3>1
        <3> QED
            BY <1>2, <3>1, <3>2, <3>3
    <2>8. CASE Answer(t)
        BY <1>1, <1>2, <2>1, <2>8 DEF Answer
    <2> QED
        BY <1>4, <2>2, <2>3, <2>4, <2>5, <2>6, <2>7, <2>8, <2>9 DEF Call, Step
<1> QED
    BY <1>3, <1>4

\* A crash leaves no thread of its process at work.
LEMMA CrashMInv ==
    ASSUME SingleProcess, IInv, MInv, NEW s \in Crashing, Crash(s)
    PROVE  MInv'
<1> USE MutexTypes DEF MInv, Crash
<1>1. \A u \in Threads : ServerOf[u] = s
    BY MarketAssumption DEF SingleProcess
<1>2. \A u \in Threads : pc'[u] = "idle" /\ cur'[u] = NONE /\ tx'[u] = NoTx
                         /\ outcome'[u] = "none"
    BY <1>1
<1> QED
    BY <1>2 DEF Guarded, Working, FetchedStaysAvailable, NoIntegrityError, NoTx

\* The mutex's invariant is inductive, given that of the tables.
LEMMA MutexInvariance ==
    ASSUME SingleProcess
    PROVE  Spec => [](IInv /\ MInv)
<1>1. Init => MInv
    BY DEF Init, MInv, Guarded, Working, FetchedStaysAvailable, NoIntegrityError, NoTx
<1>2. IInv /\ MInv /\ [Next]_vars => MInv'
    <2> SUFFICES ASSUME IInv, MInv, [Next]_vars PROVE MInv'
        OBVIOUS
    <2>1. ASSUME NEW t \in Threads, Call(t) \/ Step(t)
          PROVE  MInv'
        BY <2>1, GuardedStep, RestStep DEF MInv
    <2>2. ASSUME UNCHANGED vars
          PROVE  MInv'
        BY <2>2 DEF vars, MInv, Guarded, Holds, Working, FetchedStaysAvailable, IsAvailable,
           IsSold, Deprecators, NoIntegrityError
    <2> QED
        BY <2>1, <2>2, CrashMInv DEF Next, Idle
<1> QED
    BY <1>1, <1>2, InitIInv, NextIInv, PTL DEF Spec

\* With one process the answer "data was modified during the transaction" never
\* occurs: "should never happen" (services.py).
THEOREM NoIntegrityErrorInOneProcess ==
    ASSUME SingleProcess
    PROVE  Spec => []NoIntegrityError
BY MutexInvariance, PTL DEF MInv

\* With one process the row a purchase works on stays available until its own
\* commit, although AddOffer commits meanwhile.
THEOREM FetchedStaysInOneProcess ==
    ASSUME SingleProcess
    PROVE  Spec => []FetchedStaysAvailable
BY MutexInvariance, PTL DEF MInv
=============================================================================
