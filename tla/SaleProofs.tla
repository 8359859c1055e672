----------------------------- MODULE SaleProofs -----------------------------
(* What a contract of the market is worth, for any number of processes and *)
(* threads: it carries the order its buyer signed, its port is its own, it *)
(* moves bandwidth from what is for sale to what is sold, and it is a sale *)
(* of the abstract market.  The proofs are relative to IInv.               *)
EXTENDS MarketProofs, FiniteSums

-----------------------------------------------------------------------------
(* Steps, by what they do to the tables and the open transactions.         *)

\* nothing is published or written; transactions may be dropped
Keeps ==
    /\ UNCHANGED <<offers, contracts>>
    /\ \A u \in Threads : tx'[u] = tx[u] \/ tx'[u] = NoTx

\* Only three actions do more.
LEMMA StepKinds ==
    ASSUME IInv, [Next]_vars
    PROVE  Keeps \/ \E t \in Threads : AddOffer(t) \/ WriteSale(t) \/ Commit(t)
<1>1. tx \in [Threads -> [rows: SUBSET Row, sales: SUBSET Contract]]
    BY DEF IInv, TypeInv, TypeOK
<1>2. ASSUME NEW t \in Threads, Quiet(t)
      PROVE  Keeps
    BY <1>1, <1>2 DEF Keeps, Quiet, RefuseOffer, Acquire, FetchAvailable, FetchExact,
       FetchNothing, Walk, WalkEnds, CheckUnsold, CheckSold, RefusePurchase,
       DuplicateOrder, RejectOrder, Answer, EndTx
<1>3. ASSUME NEW t \in Threads, NEW r \in Requests, Begin(t, r)
      PROVE  Keeps
    BY <1>3 DEF Keeps, Begin
<1>4. ASSUME NEW s \in Crashing, Crash(s)
      PROVE  Keeps
    BY <1>4 DEF Keeps, Crash
<1>5. CASE UNCHANGED vars
    BY <1>5 DEF Keeps, vars
<1> QED
    BY <1>2, <1>3, <1>4, <1>5 DEF Next, Call, Step, Quiet, Idle

\* The tables only grow.
LEMMA TablesGrow ==
    ASSUME IInv, [Next]_vars
    PROVE  offers \subseteq offers' /\ contracts \subseteq contracts'
BY StepKinds DEF Keeps, AddOffer, WriteSale, Commit

\* The transaction of a thread that publishes or writes is the only one to change.
LEMMA OthersKeepTx ==
    ASSUME IInv, NEW t \in Threads, AddOffer(t) \/ WriteSale(t) \/ Commit(t)
    PROVE  \A u \in Threads \ {t} : tx'[u] = tx[u]
BY DEF AddOffer, WriteSale, Commit, EndTx, IInv, TypeInv, TypeOK
-----------------------------------------------------------------------------
(* AnsweredIsStored.                                                       *)

\* the order of thread t is among the given contracts
Stored(t, sold) ==
    \E c \in sold : c.offer = cur[t].id /\ c.buyer = req[t].buyer /\ c.sig = req[t].sig

\* a thread with a row fetched serves a purchase: what it commits, and later
\* answers with "ok", is a contract on that row
Answers ==
    \A t \in Threads :
        /\ pc[t] \in {"idle", "acquire", "fetch"} => cur[t] = NONE
        /\ pc[t] = "commit" /\ cur[t] # NONE => Stored(t, tx[t].sales)
        /\ pc[t] = "answer" /\ outcome[t] = "ok" /\ cur[t] # NONE => Stored(t, contracts)

\* Only the thread's own steps change what it owes, and tables only grow.
LEMMA AnswersStep == IInv /\ Answers /\ [Next]_vars => Answers'
<1> SUFFICES ASSUME IInv, Answers, [Next]_vars PROVE Answers'
    OBVIOUS
<1> DEFINE Mine(u) ==
        /\ pc[u] \in {"idle", "acquire", "fetch"} => cur[u] = NONE
        /\ pc[u] = "commit" /\ cur[u] # NONE => Stored(u, tx[u].sales)
        /\ pc[u] = "answer" /\ outcome[u] = "ok" /\ cur[u] # NONE => Stored(u, contracts)
<1> SUFFICES ASSUME NEW u \in Threads PROVE Mine(u)'
    BY DEF Answers
<1>1. TypeOK /\ Mine(u)
    BY DEF IInv, TypeInv, Answers
<1>2. CASE /\ pc'[u] = pc[u] /\ cur'[u] = cur[u] /\ req'[u] = req[u]
           /\ outcome'[u] = outcome[u] /\ tx'[u] = tx[u]
    BY <1>1, <1>2, TablesGrow DEF Stored
<1>3. CASE AddOffer(u)
    BY <1>1, <1>3 DEF AddOffer, Goto, locals, TypeOK
<1>4. ASSUME NEW r \in Requests, Begin(u, r)
      PROVE  Mine(u)'
    BY <1>1, <1>4 DEF Begin, Goto, TypeOK
<1>5. CASE Quiet(u)
    <2> USE <1>1 DEF Goto, EndTx, locals, TypeOK
    <2>1. CASE RefuseOffer(u) \/ FetchNothing(u) \/ CheckSold(u) \/ RefusePurchase(u)
               \/ DuplicateOrder(u) \/ RejectOrder(u)
        BY <2>1 DEF RefuseOffer, FetchNothing, CheckSold, RefusePurchase, DuplicateOrder,
           RejectOrder
    <2>2. CASE Acquire(u) \/ FetchAvailable(u) \/ FetchExact(u)
        BY <2>2 DEF Acquire, FetchAvailable, FetchExact
    <2>3. CASE Walk(u) \/ WalkEnds(u) \/ CheckUnsold(u)
        BY <2>3 DEF Walk, WalkEnds, CheckUnsold
    <2>4. CASE Answer(u)
        BY <2>4 DEF Answer
    <2> QED
        BY <1>5, <2>1, <2>2, <2>3, <2>4 DEF Quiet
<1>6. CASE WriteSale(u)
    <2>1. PICK p \in NextPorts(cur[u]) :
            tx' = [tx EXCEPT ![u] = [rows |-> {NewRow(u)}, sales |-> {Sale(u, p)}]]
        BY <1>6 DEF WriteSale
    <2>2. /\ tx'[u].sales = {Sale(u, p)}
          /\ pc'[u] = "commit" /\ UNCHANGED <<cur, req>>
        BY <1>1, <1>6, <2>1 DEF WriteSale, Goto, locals, TypeOK
    <2>3. Sale(u, p).offer = cur[u].id /\ Sale(u, p).buyer = req[u].buyer
          /\ Sale(u, p).sig = req[u].sig
        BY DEF Sale
    <2> QED
        BY <2>2, <2>3 DEF Stored
<1>7. CASE Commit(u)
    BY <1>1, <1>7 DEF Commit, EndTx, Goto, locals, TypeOK, Stored
<1>8. ASSUME NEW s \in Crashing, Crash(s)
      PROVE  Mine(u)'
    <2>1. CASE ServerOf[u] = s
        BY <1>8, <2>1 DEF Crash
    <2>2. CASE ServerOf[u] # s
        BY <1>2, <1>8, <2>2 DEF Crash
    <2> QED
        BY <2>1, <2>2
<1>9. ASSUME NEW t \in Threads, t # u, Call(t) \/ Step(t)
      PROVE  Mine(u)'
    <2>1. /\ pc'[u] = pc[u] /\ cur'[u] = cur[u] /\ req'[u] = req[u]
          /\ outcome'[u] = outcome[u] /\ tx'[u] = tx[u]
        BY <1>1, <1>9 DEF Call, Step, AddOffer, RefuseOffer, Begin, Acquire,
           FetchAvailable, FetchExact, FetchNothing, Walk, WalkEnds, CheckUnsold,
           CheckSold, RefusePurchase, DuplicateOrder, RejectOrder, WriteSale, Commit,
           Answer, Goto, EndTx, locals, TypeOK
    <2> QED
        BY <1>2, <2>1
<1>10. CASE UNCHANGED vars
    BY <1>2, <1>10 DEF vars
<1> QED
    BY <1>3, <1>4, <1>5, <1>6, <1>7, <1>8, <1>9, <1>10 DEF Next, Call, Step, Quiet, Idle

\* A purchase answered "ok" is in the database, wherever processes crash.
THEOREM AnswersCorrect == Spec => []AnsweredIsStored
<1>1. Init => Answers
    BY DEF Init, Answers
<1>2. Answers => AnsweredIsStored
    BY DEF Answers, AnsweredIsStored, Stored
<1> QED
    BY <1>1, <1>2, AnswersStep, Invariance, PTL DEF Spec
-----------------------------------------------------------------------------
(* ContractAuthentic: what is on offer only shrinks along a chain, so a    *)
(* demand that fits the row sold fits the row the buyer signed.            *)

\* n comes later in the chain of o and offers no more
Derived(o, n) ==
    /\ o.root = n.root /\ o.id <= n.id
    /\ o.specs.tmpl = n.specs.tmpl
    /\ Len(o.specs.prof) = Len(n.specs.prof)
    /\ \A i \in 1..Len(o.specs.prof) : n.specs.prof[i] <= o.specs.prof[i]

\* the broker's copy of a seller's row has the seller's specifications
Copies ==
    \A o, n \in offers :
        n.deprecates = o.id /\ o.deprecates = NoOffer => n.specs = o.specs

\* contract c holds its buyer to an order signed over a row of the chain
Authentic(c) ==
    \E o, n \in offers :
        /\ n.id = c.offer
        /\ o.root = n.root /\ o.id <= n.id
        /\ c.sig = [by |-> c.buyer, over |-> OrderBytes(o, c.buyer, c.demand)]
        /\ Contains(o.specs.prof, c.demand)

\* the rows of one transaction are alike; without a sale they are a
\* submission's; a sale is to a registered buyer and authentic
Drafts ==
    \A t \in Threads :
        /\ \A a, b \in tx[t].rows : a.specs = b.specs
        /\ tx[t].sales = {} =>
              \A r \in tx[t].rows : \E m \in Submissions : r.specs = m.specs
        /\ \A c \in tx[t].sales : c.buyer \in Registered /\ Authentic(c)

\* get_derived walks to rows derived from the one requested
Walks ==
    \A t \in Threads :
        pc[t] \in {"walk", "check", "write"} => Derived(asked[t], cur[t])

SaleInv == Copies /\ Drafts /\ Walks /\ ContractAuthentic

\* Rows of the table have what Derived compares.
LEMMA RowTyped ==
    ASSUME TypeOK, NEW o \in offers
    PROVE  /\ o.id \in Nat \ {0} /\ o.root \in Nat \ {0} /\ o.deprecates \in Nat
           /\ o.specs \in Specs /\ o.specs.prof \in Profile
           /\ Len(o.specs.prof) \in Nat
           /\ \A i \in 1..Len(o.specs.prof) : o.specs.prof[i] \in Nat
BY DEF TypeOK, Row, Specs, Profile

LEMMA DerivedSelf ==
    ASSUME TypeOK, NEW o \in offers
    PROVE  Derived(o, o)
BY RowTyped DEF Derived

LEMMA DerivedTrans ==
    ASSUME TypeOK, NEW o \in offers, NEW p \in offers, NEW q \in offers,
           Derived(o, p), Derived(p, q)
    PROVE  Derived(o, q)
<1>1. /\ o.id \in Nat /\ p.id \in Nat /\ q.id \in Nat
      /\ \A i \in 1..Len(o.specs.prof) :
            /\ o.specs.prof[i] \in Nat /\ p.specs.prof[i] \in Nat /\ q.specs.prof[i] \in Nat
    BY RowTyped DEF Derived
<1>2. o.id <= q.id
    BY <1>1 DEF Derived
<1>3. ASSUME NEW i \in 1..Len(o.specs.prof)
      PROVE  q.specs.prof[i] <= o.specs.prof[i]
    <2>1. p.specs.prof[i] <= o.specs.prof[i] /\ q.specs.prof[i] <= p.specs.prof[i]
        BY DEF Derived
    <2> QED
        BY <1>1, <2>1
<1> QED
    BY <1>2, <1>3 DEF Derived

\* What fits a row fits every row it is derived from.
LEMMA DerivedContains ==
    ASSUME TypeOK, NEW o \in offers, NEW n \in offers, Derived(o, n),
           NEW d \in Demand, Contains(n.specs.prof, d)
    PROVE  Contains(o.specs.prof, d)
<1>1. /\ Len(d.prof) \in Nat /\ d.prof \in Seq(Int)
      /\ d.start \in Nat /\ BW_PERIOD \in Nat \ {0}
    BY PeriodAssumption DEF Demand, Contains
<1>2. Offset(d) \in Nat
    BY <1>1 DEF Offset
<1>3. Len(o.specs.prof) = Len(n.specs.prof) /\ Len(o.specs.prof) \in Nat
    BY RowTyped DEF Derived
<1>4. ASSUME NEW k \in 1..Len(d.prof)
      PROVE  d.prof[k] \in 0..o.specs.prof[Offset(d) + k]
    <2>1. Offset(d) + k \in 1..Len(o.specs.prof)
        BY <1>1, <1>2, <1>3, SMTT(20) DEF Contains
    <2>2. /\ n.specs.prof[Offset(d) + k] <= o.specs.prof[Offset(d) + k]
          /\ n.specs.prof[Offset(d) + k] \in Nat /\ o.specs.prof[Offset(d) + k] \in Nat
        BY <1>3, <2>1, RowTyped DEF Derived
    <2>3. d.prof[k] \in 0..n.specs.prof[Offset(d) + k]
        BY DEF Contains
    <2> QED
        BY <2>2, <2>3
<1> QED
    BY <1>3, <1>4 DEF Contains

\* A demand that fits takes nothing negative, so the remainder is no larger.
LEMMA RemainderShrinks ==
    ASSUME NEW s \in Specs, NEW d \in Demand, Contains(s.prof, d)
    PROVE  LET r == Remainder(s, d)
           IN  /\ r.tmpl = s.tmpl /\ Len(r.prof) = Len(s.prof)
               /\ \A i \in 1..Len(s.prof) : r.prof[i] <= s.prof[i]
<1>1. s.prof \in Profile /\ Len(s.prof) \in Nat
    BY DEF Specs, Profile
<1>2. Remainder(s, d).prof = Purchase(s.prof, d) /\ Remainder(s, d).tmpl = s.tmpl
    BY DEF Remainder, Specs
<1>3. Len(Purchase(s.prof, d)) = Len(s.prof)
    BY <1>1, PurchaseProfile
<1>4. ASSUME NEW i \in 1..Len(s.prof)
      PROVE  Purchase(s.prof, d)[i] <= s.prof[i]
    <2>1. s.prof[i] \in Nat
        BY <1>1 DEF Profile
    <2>2. At(d, i) \in Nat
        <3>1. PICK k : k = i - Offset(d)
            OBVIOUS
        <3>2. CASE k \in 1..Len(d.prof)
            <4>1. d.prof[k] \in 0..s.prof[Offset(d) + k] /\ d.prof[k] \in Int
                BY <3>2 DEF Contains, Demand
            <4> QED
                BY <3>1, <3>2, <4>1 DEF At
        <3>3. CASE k \notin 1..Len(d.prof)
            BY <3>1, <3>3 DEF At
        <3> QED
            BY <3>2, <3>3
    <2> QED
        BY <2>1, <2>2 DEF Purchase
<1> QED
    BY <1>2, <1>3, <1>4

\* A row that deprecates another is derived from it.
LEMMA LinkDerived ==
    ASSUME TypeOK, DBInv, Copies, NEW o \in offers, NEW n \in offers,
           n.deprecates = o.id
    PROVE  Derived(o, n)
<1>1. o.id # NoOffer /\ o.id \in Nat /\ n.id \in Nat
    BY RowTyped DEF NoOffer
<1>2. o.root = n.root /\ o.id <= n.id
    <2>1. PICK p \in offers : p.id = n.deprecates /\ p.id < n.id /\ p.root = n.root
        BY <1>1 DEF DBInv, Links
    <2>2. p = o
        BY <2>1 DEF DBInv, Keys
    <2> QED
        BY <1>1, <2>1, <2>2
<1>3. CASE o.deprecates = NoOffer
    <2>1. n.specs = o.specs
        BY <1>3 DEF Copies
    <2> QED
        BY <1>2, <2>1, RowTyped DEF Derived
<1>4. CASE o.deprecates # NoOffer
    <2>1. PICK c \in contracts : c.offer = o.id
        BY <1>4 DEF DBInv, SoldIffDeprecated, IsSold
    <2>2. PICK p \in offers, q \in offers :
            /\ p.id = c.offer /\ q.deprecates = p.id
            /\ Contains(p.specs.prof, c.demand)
            /\ q.specs = Remainder(p.specs, c.demand)
        BY DEF DBInv, SaleComplete
    <2>3. p = o /\ q = n
        BY <1>1, <2>1, <2>2 DEF DBInv, Keys, Links
    <2>4. c.demand \in Demand /\ o.specs \in Specs
        BY RowTyped DEF TypeOK, Contract
    <2> QED
        BY <1>2, <2>2, <2>3, <2>4, RemainderShrinks DEF Derived
<1> QED
    BY <1>3, <1>4
-----------------------------------------------------------------------------
(* SaleInv is preserved.                                                   *)

\* An order stays authentic: the rows it is about are never removed.
LEMMA AuthenticStays ==
    ASSUME NEW c, Authentic(c), offers \subseteq offers'
    PROVE  Authentic(c)'
BY DEF Authentic, OrderBytes, Data

\* Steps that write no row keep what is said of rows and contracts.
LEMMA KeepsSales ==
    ASSUME SaleInv, Keeps
    PROVE  Copies' /\ Drafts' /\ ContractAuthentic'
<1>1. Copies' /\ ContractAuthentic'
    BY DEF SaleInv, Keeps, Copies, ContractAuthentic, OrderBytes, Data
<1>2. Drafts'
    <2> SUFFICES ASSUME NEW t \in Threads
                 PROVE  /\ \A a, b \in tx'[t].rows : a.specs = b.specs
                        /\ tx'[t].sales = {} => \A r \in tx'[t].rows :
                              \E m \in Submissions : r.specs = m.specs
                        /\ \A c \in tx'[t].sales : c.buyer \in Registered /\ Authentic(c)'
        BY DEF Drafts
    <2>1. CASE tx'[t] = NoTx
        BY <2>1 DEF NoTx
    <2>2. CASE tx'[t] = tx[t]
        BY <2>2, AuthenticStays DEF SaleInv, Drafts, Keeps
    <2> QED
        BY <2>1, <2>2 DEF Keeps
<1> QED
    BY <1>1, <1>2

\* The threads that walk stay in the chain of the row they were asked for.
LEMMA WalksStep ==
    ASSUME IInv, SaleInv, [Next]_vars
    PROVE  Walks'
<1> SUFFICES ASSUME NEW u \in Threads, pc'[u] \in {"walk", "check", "write"}
             PROVE  Derived(asked'[u], cur'[u])
    BY DEF Walks, Derived
<1>1. TypeOK /\ DBInv /\ ThreadsOK /\ Copies
    BY DEF IInv, TypeInv, SaleInv
<1>2. CASE pc[u] \in {"walk", "check", "write"} /\ asked'[u] = asked[u] /\ cur'[u] = cur[u]
    BY <1>2 DEF SaleInv, Walks
<1>3. CASE FetchAvailable(u) \/ FetchExact(u)
    <2>1. PICK o \in offers : asked'[u] = o /\ cur'[u] = o
        BY <1>1, <1>3 DEF FetchAvailable, FetchExact, available, TypeOK
    <2> QED
        BY <1>1, <2>1, DerivedSelf
<1>4. CASE Walk(u)
    <2>1. PICK n \in Deprecators(cur[u]) : cur' = [cur EXCEPT ![u] = n]
        BY <1>4 DEF Walk
    <2>2. /\ n \in offers /\ n.deprecates = cur[u].id /\ cur'[u] = n /\ asked'[u] = asked[u]
          /\ asked[u] \in offers /\ cur[u] \in offers
        BY <1>1, <1>4, <2>1 DEF Walk, Deprecators, TypeOK, ThreadsOK
    <2>3. Derived(asked[u], cur[u])
        BY <1>4 DEF Walk, SaleInv, Walks
    <2>4. Derived(cur[u], n)
        BY <1>1, <2>2, LinkDerived
    <2> QED
        BY <1>1, <2>2, <2>3, <2>4, DerivedTrans
<1>5. ASSUME ~FetchAvailable(u), ~FetchExact(u), ~Walk(u)
      PROVE  pc[u] \in {"walk", "check", "write"} /\ asked'[u] = asked[u] /\ cur'[u] = cur[u]
    <2>1. ASSUME NEW t \in Threads, Call(t) \/ Step(t)
          PROVE  pc[u] \in {"walk", "check", "write"}
                 /\ asked'[u] = asked[u] /\ cur'[u] = cur[u]
        BY <1>1, <1>5, <2>1 DEF Call, Step, AddOffer, RefuseOffer, Begin, Acquire,
           FetchAvailable, FetchExact, FetchNothing, Walk, WalkEnds, CheckUnsold,
           CheckSold, RefusePurchase, DuplicateOrder, RejectOrder, WriteSale, Commit,
           Answer, Goto, EndTx, locals, TypeOK
    <2>2. ASSUME NEW s \in Crashing, Crash(s)
          PROVE  pc[u] \in {"walk", "check", "write"}
                 /\ asked'[u] = asked[u] /\ cur'[u] = cur[u]
        BY <2>2 DEF Crash
    <2>3. CASE UNCHANGED vars
        BY <2>3 DEF vars
    <2> QED
        BY <2>1, <2>2, <2>3 DEF Next, Idle
<1> QED
    BY <1>2, <1>3, <1>4, <1>5

\* A submission's two rows are alike.
LEMMA AddOfferSales ==
    ASSUME IInv, SaleInv, NEW t \in Threads, AddOffer(t)
    PROVE  Copies' /\ Drafts' /\ ContractAuthentic'
<1>1. PICK m \in Submissions :
        tx' = [tx EXCEPT ![t] = [rows |-> {OriginalRow(m), BrokerCopy(m)}, sales |-> {}]]
    BY DEF AddOffer
<1>2. /\ UNCHANGED <<offers, contracts>>
      /\ tx'[t] = [rows |-> {OriginalRow(m), BrokerCopy(m)}, sales |-> {}]
      /\ \A u \in Threads \ {t} : tx'[u] = tx[u]
    BY <1>1 DEF AddOffer, IInv, TypeInv, TypeOK
<1>3. Copies' /\ ContractAuthentic'
    BY <1>2 DEF SaleInv, Copies, ContractAuthentic, OrderBytes, Data
<1>4. OriginalRow(m).specs = m.specs /\ BrokerCopy(m).specs = m.specs
    BY DEF OriginalRow, BrokerCopy
<1>5. Drafts'
    <2> SUFFICES ASSUME NEW u \in Threads
                 PROVE  /\ \A a, b \in tx'[u].rows : a.specs = b.specs
                        /\ tx'[u].sales = {} => \A r \in tx'[u].rows :
                              \E n \in Submissions : r.specs = n.specs
                        /\ \A c \in tx'[u].sales : c.buyer \in Registered /\ Authentic(c)'
        BY DEF Drafts
    <2>1. CASE u = t
        BY <1>2, <1>4, <2>1
    <2>2. CASE u # t
        BY <1>2, <2>2, AuthenticStays DEF SaleInv, Drafts
    <2> QED
        BY <2>1, <2>2
<1> QED
    BY <1>3, <1>5

\* What a purchase writes is an order the buyer signed over the row requested,
\* on a row derived from that one.
LEMMA WriteSaleSales ==
    ASSUME IInv, SaleInv, NEW t \in Threads, WriteSale(t)
    PROVE  Copies' /\ Drafts' /\ ContractAuthentic'
<1>1. PICK p \in NextPorts(cur[t]) :
        tx' = [tx EXCEPT ![t] = [rows |-> {NewRow(t)}, sales |-> {Sale(t, p)}]]
    BY DEF WriteSale
<1>2. /\ UNCHANGED <<offers, contracts>>
      /\ tx'[t] = [rows |-> {NewRow(t)}, sales |-> {Sale(t, p)}]
      /\ \A u \in Threads \ {t} : tx'[u] = tx[u]
    BY <1>1 DEF WriteSale, IInv, TypeInv, TypeOK
<1>3. Copies' /\ ContractAuthentic'
    BY <1>2 DEF SaleInv, Copies, ContractAuthentic, OrderBytes, Data
<1>4. PICK c : c = Sale(t, p)
    OBVIOUS
<1>5. Authentic(c) /\ c.buyer \in Registered
    <2>1. /\ asked[t] \in offers /\ cur[t] \in offers /\ req[t] \in Request
          /\ req[t].demand \in Demand /\ TypeOK
        BY DEF WriteSale, IInv, TypeInv, ThreadsOK, Request
    <2>2. Derived(asked[t], cur[t])
        BY DEF WriteSale, SaleInv, Walks
    <2>3. /\ Contains(cur[t].specs.prof, req[t].demand)
          /\ req[t].buyer \in Registered
          /\ req[t].sig = [by |-> req[t].buyer,
                           over |-> OrderBytes(asked[t], req[t].buyer, req[t].demand)]
        BY DEF WriteSale, Acceptable, Signable, ValidOrderSignature
    <2>4. Contains(asked[t].specs.prof, req[t].demand)
        BY <2>1, <2>2, <2>3, DerivedContains
    <2>5. /\ c.offer = cur[t].id /\ c.buyer = req[t].buyer
          /\ c.demand = req[t].demand /\ c.sig = req[t].sig
        BY <1>4 DEF Sale
    <2>6. asked[t].root = cur[t].root /\ asked[t].id <= cur[t].id
        BY <2>2 DEF Derived
    <2>7. Authentic(c)
        BY <2>1, <2>3, <2>4, <2>5, <2>6 DEF Authentic
    <2> QED
        BY <2>3, <2>5, <2>7
<1>6. Drafts'
    <2> SUFFICES ASSUME NEW u \in Threads
                 PROVE  /\ \A a, b \in tx'[u].rows : a.specs = b.specs
                        /\ tx'[u].sales = {} => \A r \in tx'[u].rows :
                              \E n \in Submissions : r.specs = n.specs
                        /\ \A e \in tx'[u].sales : e.buyer \in Registered /\ Authentic(e)'
        BY DEF Drafts
    <2>1. CASE u = t
        BY <1>2, <1>4, <1>5, <2>1, AuthenticStays
    <2>2. CASE u # t
        BY <1>2, <2>2, AuthenticStays DEF SaleInv, Drafts
    <2> QED
        BY <2>1, <2>2
<1> QED
    BY <1>3, <1>6

\* A commit publishes copies and authentic contracts.
LEMMA CommitSales ==
    ASSUME IInv, SaleInv, NEW t \in Threads, Commit(t)
    PROVE  Copies' /\ Drafts' /\ ContractAuthentic'
<1>1. PICK x : x = tx[t]
    OBVIOUS
<1>2. /\ offers' = offers \cup x.rows /\ contracts' = contracts \cup x.sales
      /\ tx'[t] = NoTx /\ \A u \in Threads \ {t} : tx'[u] = tx[u]
      /\ x.rows \subseteq Row /\ TypeOK /\ DBInv
    BY <1>1 DEF Commit, EndTx, IInv, TypeInv, TypeOK
<1>3. /\ x = NoTx \/ Listing(x) \/ Selling(x, offers, contracts)
      /\ \A r \in x.rows : \A o \in offers : o.id # r.id
      /\ \A a, b \in x.rows : a.specs = b.specs
      /\ \A c \in x.sales : Authentic(c)
    BY <1>1 DEF IInv, Pending, Exclusive, SaleInv, Drafts
<1>4. Copies'
    <2> SUFFICES ASSUME NEW o \in offers', NEW n \in offers',
                        n.deprecates = o.id, o.deprecates = NoOffer
                 PROVE  n.specs = o.specs
        BY DEF Copies
    <2>1. o.id # NoOffer
        BY <1>2 DEF TypeOK, Row, NoOffer
    <2>2. CASE o \in offers /\ n \in offers
        BY <2>2 DEF SaleInv, Copies
    <2>3. CASE o \in x.rows /\ n \in offers
        BY <1>2, <1>3, <2>1, <2>3, SMTT(20) DEF DBInv, Links
    <2>4. CASE o \in x.rows /\ n \in x.rows
        BY <1>3, <2>4
    <2>5. CASE o \in offers /\ n \in x.rows
        <3>1. CASE Listing(x)
            BY <1>3, <2>1, <2>5, <3>1 DEF Listing
        <3>2. CASE Selling(x, offers, contracts)
            BY <1>2, <2>5, <3>2 DEF Selling, DBInv, Keys
        <3> QED
            BY <1>3, <2>5, <3>1, <3>2 DEF NoTx
    <2> QED
        BY <1>2, <2>2, <2>3, <2>4, <2>5
<1>5. \A c \in contracts \cup x.sales : Authentic(c)
    BY <1>3 DEF SaleInv, ContractAuthentic, Authentic
<1>6. ContractAuthentic'
    <2>1. \A c \in contracts \cup x.sales : Authentic(c)'
        BY <1>2, <1>5, AuthenticStays
    <2> QED
        BY <1>2, <2>1 DEF ContractAuthentic, Authentic
<1>7. Drafts'
    <2> SUFFICES ASSUME NEW u \in Threads
                 PROVE  /\ \A a, b \in tx'[u].rows : a.specs = b.specs
                        /\ tx'[u].sales = {} => \A r \in tx'[u].rows :
                              \E n \in Submissions : r.specs = n.specs
                        /\ \A e \in tx'[u].sales : e.buyer \in Registered /\ Authentic(e)'
        BY DEF Drafts
    <2>1. CASE u = t
        BY <1>2, <2>1 DEF NoTx
    <2>2. CASE u # t
        BY <1>2, <2>2, AuthenticStays DEF SaleInv, Drafts
    <2> QED
        BY <2>1, <2>2
<1> QED
    BY <1>4, <1>6, <1>7

LEMMA SaleInvStep == IInv /\ SaleInv /\ [Next]_vars => SaleInv'
<1> SUFFICES ASSUME IInv, SaleInv, [Next]_vars PROVE SaleInv'
    OBVIOUS
<1>1. Copies' /\ Drafts' /\ ContractAuthentic'
    BY StepKinds, KeepsSales, AddOfferSales, WriteSaleSales, CommitSales
<1> QED
    BY <1>1, WalksStep DEF SaleInv

LEMMA SaleInvariance == Spec => []SaleInv
<1>1. Init => SaleInv
    BY DEF Init, SaleInv, Copies, Drafts, NoTx, Walks, ContractAuthentic
<1> QED
    BY <1>1, SaleInvStep, Invariance, PTL DEF Spec

\* No contract binds a buyer to more than an order the buyer signed over a row
\* of the same chain, whatever was sold between the order and the contract.
THEOREM ContractsAuthentic == Spec => []ContractAuthentic
BY SaleInvariance, PTL DEF SaleInv
-----------------------------------------------------------------------------
(* The broker's signature.  A run refutes that it covers the message a     *)
(* buyer gets back (SignatureCoversMessage); these are the facts it does   *)
(* cover, and the requests for which the message is covered.               *)

\* the contracts that are in the database or in an open transaction
AllSales == contracts \cup UNION {tx[t].sales : t \in Threads}

\* A contract not there before was written by a purchase in this step.
LEMMA SalesOrigin ==
    ASSUME IInv, [Next]_vars, NEW c \in AllSales'
    PROVE  c \in AllSales \/ \E t \in Threads : WriteSale(t) /\ \E p \in NextPorts(cur[t]) : c = Sale(t, p)
<1>1. CASE Keeps
    BY <1>1 DEF Keeps, AllSales, NoTx
<1>2. ASSUME NEW t \in Threads, AddOffer(t)
      PROVE  c \in AllSales
    <2>1. contracts' = contracts /\ tx'[t].sales = {}
        BY <1>2 DEF AddOffer, IInv, TypeInv, TypeOK
    <2> QED
        BY <1>2, <2>1, OthersKeepTx DEF AllSales
<1>3. ASSUME NEW t \in Threads, WriteSale(t)
      PROVE  c \in AllSales \/ \E p \in NextPorts(cur[t]) : c = Sale(t, p)
    <2>1. /\ contracts' = contracts
          /\ \E p \in NextPorts(cur[t]) : tx'[t].sales = {Sale(t, p)}
        BY <1>3 DEF WriteSale, IInv, TypeInv, TypeOK
    <2> QED
        BY <1>3, <2>1, OthersKeepTx DEF AllSales
<1>4. ASSUME NEW t \in Threads, Commit(t)
      PROVE  c \in AllSales
    <2>1. contracts' = contracts \cup tx[t].sales /\ tx'[t].sales = {}
        BY <1>4 DEF Commit, EndTx, NoTx, IInv, TypeInv, TypeOK
    <2> QED
        BY <1>4, <2>1, OthersKeepTx DEF AllSales
<1> QED
    BY <1>1, <1>2, <1>3, <1>4, StepKinds

\* the broker signed the order as its buyer did, with that signature and address
Stamped(c) == c.signature.over = [order |-> c.sig.over, sig |-> c.sig, br |-> c.br]

AllStamped == \A c \in AllSales : Stamped(c)

LEMMA StampedStep == IInv /\ AllStamped /\ [Next]_vars => AllStamped'
<1> SUFFICES ASSUME IInv, AllStamped, [Next]_vars, NEW c \in AllSales'
             PROVE  Stamped(c)
    BY DEF AllStamped, Stamped
<1>1. ASSUME NEW t \in Threads, WriteSale(t), NEW p \in NextPorts(cur[t]), c = Sale(t, p)
      PROVE  Stamped(c)
    <2>1. req[t].sig = [by |-> req[t].buyer,
                        over |-> OrderBytes(asked[t], req[t].buyer, req[t].demand)]
        BY <1>1 DEF WriteSale, Signable, ValidOrderSignature
    <2> QED
        BY <1>1, <2>1 DEF Sale, Stamped
<1> QED
    BY <1>1, SalesOrigin DEF AllStamped

\* what the signature of a contract covers, and when that is the message
SignatureCoversOrder ==
    \A c \in contracts :
        /\ Stamped(c)
        /\ \A o \in offers :
            c.signature.over = MessageData(c, o)
              <=> c.sig.over = OrderBytes(o, c.buyer, c.demand)

\* stamp_signature always covers the order as the buyer signed it, so buyer and
\* broker agree on it; it covers the message of a row exactly if that row is
\* the one the buyer signed.
THEOREM BuyersCanVerify == Spec => []SignatureCoversOrder
<1>1. Init => AllStamped
    BY DEF Init, AllStamped, AllSales, NoTx
<1>2. AllStamped => SignatureCoversOrder
    <2> SUFFICES ASSUME AllStamped, NEW c \in contracts
                 PROVE  /\ Stamped(c)
                        /\ \A o \in offers :
                            c.signature.over = MessageData(c, o)
                              <=> c.sig.over = OrderBytes(o, c.buyer, c.demand)
        BY DEF SignatureCoversOrder
    <2>1. Stamped(c)
        BY DEF AllStamped, AllSales
    <2>2. ASSUME NEW o \in offers
          PROVE  c.signature.over = MessageData(c, o)
                   <=> c.sig.over = OrderBytes(o, c.buyer, c.demand)
        <3> DEFINE Bytes(x) == [order |-> x, sig |-> c.sig, br |-> c.br]
        <3>1. \A x, y : Bytes(x) = Bytes(y) => x = y
            <4> TAKE x, y
            <4>1. Bytes(x).order = x /\ Bytes(y).order = y
                OBVIOUS
            <4> QED
                BY <4>1
        <3>2. c.signature.over = Bytes(c.sig.over)
            BY <2>1 DEF Stamped
        <3>3. MessageData(c, o) = Bytes(OrderBytes(o, c.buyer, c.demand))
            BY DEF MessageData
        <3> HIDE DEF Bytes
        <3> QED
            BY <3>1, <3>2, <3>3
    <2> QED
        BY <2>1, <2>2
<1> QED
    BY <1>1, <1>2, StampedStep, Invariance, PTL DEF Spec

\* the signature covers the message of the row sold
CoversSold(c) == \E o \in offers : o.id = c.offer /\ c.signature.over = MessageData(c, o)

\* without PurchaseEquivalent the row sold is the row requested
DirectInv ==
    /\ \A t \in Threads :
        /\ pc[t] \in {"acquire", "fetch"} => req[t].kind = "Purchase"
        /\ pc[t] \notin {"walk", "check"}
        /\ pc[t] = "write" => asked[t] = cur[t]
    /\ \A c \in AllSales : CoversSold(c)

LEMMA DirectStep ==
    ASSUME Kinds = {"Purchase"}, IInv, DirectInv, [Next]_vars
    PROVE  DirectInv'
<1>1. ASSUME NEW u \in Threads
      PROVE  /\ pc'[u] \in {"acquire", "fetch"} => req'[u].kind = "Purchase"
             /\ pc'[u] \notin {"walk", "check"}
             /\ pc'[u] = "write" => asked'[u] = cur'[u]
    <2> DEFINE Direct ==
            /\ pc'[u] \in {"acquire", "fetch"} => req'[u].kind = "Purchase"
            /\ pc'[u] \notin {"walk", "check"}
            /\ pc'[u] = "write" => asked'[u] = cur'[u]
    <2>1. /\ TypeOK
          /\ pc[u] \in {"acquire", "fetch"} => req[u].kind = "Purchase"
          /\ pc[u] \notin {"walk", "check"}
          /\ pc[u] = "write" => asked[u] = cur[u]
        BY DEF IInv, TypeInv, DirectInv
    <2>2. ASSUME NEW t \in Threads, NEW r \in Requests, Begin(t, r)
          PROVE  Direct
        <3>1. r.kind = "Purchase"
            BY DEF Requests
        <3> QED
            BY <2>1, <2>2, <3>1 DEF Begin, Goto, TypeOK
    <2>3. ASSUME NEW t \in Threads, FetchAvailable(t)
          PROVE  Direct
        BY <2>1, <2>3 DEF FetchAvailable, Goto, TypeOK
    <2>4. ASSUME NEW t \in Threads, Step(t), ~FetchAvailable(t)
          PROVE  Direct
        <3>1. /\ pc[t] \in {"acquire", "fetch"} => req[t].kind = "Purchase"
              /\ pc[t] \notin {"walk", "check"}
            BY DEF DirectInv
        <3> QED
            BY <2>1, <2>4, <3>1 DEF Step, Acquire, FetchExact, FetchNothing, Walk, WalkEnds,
               CheckUnsold, CheckSold, RefusePurchase, DuplicateOrder, RejectOrder,
               WriteSale, Commit, Answer, Goto, EndTx, locals, TypeOK
    <2>5. ASSUME NEW t \in Threads, AddOffer(t) \/ RefuseOffer(t)
          PROVE  Direct
        BY <2>1, <2>5 DEF AddOffer, RefuseOffer, Goto, EndTx, locals, TypeOK
    <2>6. ASSUME NEW s \in Crashing, Crash(s)
          PROVE  Direct
        BY <2>1, <2>6 DEF Crash, TypeOK
    <2>7. CASE UNCHANGED vars
        BY <2>1, <2>7 DEF vars
    <2> QED
        BY <2>2, <2>3, <2>4, <2>5, <2>6, <2>7 DEF Next, Call, Idle
<1>2. ASSUME NEW c \in AllSales'
      PROVE  CoversSold(c)'
    <2>1. CASE c \in AllSales
        BY <2>1, TablesGrow DEF DirectInv, CoversSold, MessageData, OrderBytes, Data
    <2>2. ASSUME NEW t \in Threads, WriteSale(t), NEW p \in NextPorts(cur[t]), c = Sale(t, p)
          PROVE  CoversSold(c)'
        <3>1. asked[t] = cur[t] /\ cur[t] \in offers
            BY <2>2 DEF WriteSale, DirectInv, IInv, TypeInv, ThreadsOK
        <3>2. c.offer = cur[t].id /\ c.signature.over = MessageData(c, cur[t])
            BY <2>2, <3>1 DEF Sale, MessageData
        <3> QED
            BY <3>1, <3>2, TablesGrow DEF CoversSold, MessageData, OrderBytes, Data
    <2> QED
        BY <2>1, <2>2, SalesOrigin
<1> QED
    BY <1>1, <1>2 DEF DirectInv

\* If the AS's only call is Purchase, the signature does cover the message: the
\* run's counterexample needs a PurchaseEquivalent that walked to another row.
THEOREM DirectPurchasesCovered ==
    ASSUME Kinds = {"Purchase"}
    PROVE  Spec => []SignatureCoversMessage
<1>1. Init => DirectInv
    BY DEF Init, DirectInv, AllSales, NoTx
<1>2. IInv /\ DirectInv /\ [Next]_vars => DirectInv'
    BY DirectStep
<1>3. IInv /\ DirectInv => SignatureCoversMessage
    BY DEF IInv, DBInv, Keys, DirectInv, AllSales, CoversSold, SignatureCoversMessage
<1> QED
    BY <1>1, <1>2, <1>3, Invariance, PTL DEF Spec
-----------------------------------------------------------------------------
(* PortsDistinct: along a chain the ids of rows grow, every row but the    *)
(* seller's and the last is sold, and each sale takes the next port.       *)

\* no row of the chain lies between a row and the one it deprecates
Consecutive ==
    \A p, o \in offers :
        p.root = o.root /\ p.id < o.id => o.deprecates # NoOffer /\ p.id <= o.deprecates

\* the available row of a chain is its youngest
AvailableLast == \A a \in available, p \in offers : p.root = a.root => p.id <= a.id

InTemplate(port, o) == port \in LowPort(o.specs.tmpl)..HighPort(o.specs.tmpl)

\* contracts have ports of the template, which grow along the chain
PortsGrow ==
    /\ \A c \in contracts, o \in offers : c.offer = o.id => InTemplate(c.br.port, o)
    /\ \A c, d \in contracts, o, p \in offers :
          /\ c.offer = o.id /\ d.offer = p.id
          /\ o.root = p.root /\ o.id < p.id
          => c.br.port < d.br.port

\* port is free for a sale of row o and above those of the chain
NextFree(port, o) ==
    /\ InTemplate(port, o)
    /\ \A d \in contracts, p \in offers :
          d.offer = p.id /\ p.root = o.root => d.br.port < port

\* so will be that of an uncommitted sale
PendingPorts ==
    \A t \in Threads : \A c \in tx[t].sales : \A o \in offers :
        c.offer = o.id => NextFree(c.br.port, o)

PortInv == Consecutive /\ AvailableLast /\ PortsGrow /\ PendingPorts

\* Steps that write no row keep it.
LEMMA KeepsPorts ==
    ASSUME PortInv, Keeps
    PROVE  PortInv'
<1>1. Consecutive' /\ AvailableLast' /\ PortsGrow'
    BY DEF PortInv, Keeps, Consecutive, AvailableLast, PortsGrow, InTemplate, available,
           IsAvailable, Deprecators
<1>2. PendingPorts'
    BY DEF PortInv, Keeps, PendingPorts, NextFree, NoTx
<1> QED
    BY <1>1, <1>2 DEF PortInv

\* A submission sells nothing.
LEMMA AddOfferPorts ==
    ASSUME IInv, PortInv, NEW t \in Threads, AddOffer(t)
    PROVE  PortInv'
<1>1. /\ UNCHANGED <<offers, contracts>> /\ tx'[t].sales = {}
      /\ \A u \in Threads \ {t} : tx'[u] = tx[u]
    BY DEF AddOffer, IInv, TypeInv, TypeOK
<1>2. Consecutive' /\ AvailableLast' /\ PortsGrow'
    BY <1>1 DEF PortInv, Consecutive, AvailableLast, PortsGrow, InTemplate, available,
           IsAvailable, Deprecators
<1>3. PendingPorts'
    BY <1>1 DEF PortInv, PendingPorts, NextFree
<1> QED
    BY <1>2, <1>3 DEF PortInv

\* find_available_br_address: the port after that of the row deprecated, which
\* is the last sold, or the first of the template if no row of the chain is.
LEMMA NextPortFree ==
    ASSUME IInv, SaleInv, PortInv, NEW o \in offers, IsAvailable(o), ~IsSold(o),
           HasPort(o), NEW port \in NextPorts(o)
    PROVE  NextFree(port, o)
<1>1. TypeOK /\ DBInv /\ Copies
    BY DEF IInv, TypeInv, SaleInv
<1>2. /\ LowPort(o.specs.tmpl) \in Nat /\ HighPort(o.specs.tmpl) \in Nat
      /\ LowPort(o.specs.tmpl) <= HighPort(o.specs.tmpl)
    BY <1>1, RowTyped DEF Specs, Template, LowPort, HighPort
<1>3. \A c \in contracts : c.br.port \in Nat
    BY <1>1 DEF TypeOK, Contract, Address
<1>4. PICK q \in offers : q.id = o.deprecates /\ q.id < o.id /\ q.root = o.root
    BY <1>1, AvailableIsBrokers DEF DBInv, Links
\* a contract of the chain is on the row deprecated or on an older one
<1>5. ASSUME NEW d \in contracts, NEW p \in offers, d.offer = p.id, p.root = o.root
      PROVE  p = q \/ (p.id < q.id /\ \E c \in contracts : c.offer = q.id)
    <2>1. p.id < o.id
        <3>1. p.id <= o.id
            BY <1>5 DEF PortInv, AvailableLast, available
        <3>2. p.id # o.id
            BY <1>5 DEF IsSold
        <3> QED
            BY <1>1, <3>1, <3>2, RowTyped
    <2>2. p.id <= q.id
        BY <1>4, <1>5, <2>1 DEF PortInv, Consecutive
    <2>3. CASE p.id = q.id
        BY <1>1, <2>3 DEF DBInv, Keys
    <2>4. CASE p.id < q.id
        <3>1. q.deprecates # NoOffer
            BY <1>4, <1>5, <2>4 DEF PortInv, Consecutive
        <3>2. IsSold(q)
            BY <1>1, <1>4, <3>1 DEF DBInv, SoldIffDeprecated
        <3> QED
            BY <2>4, <3>2 DEF IsSold
    <2> QED
        BY <1>1, <2>2, <2>3, <2>4, RowTyped
<1>6. CASE \A c \in contracts : c.offer # o.deprecates
    <2>1. port = LowPort(o.specs.tmpl)
        BY <1>6 DEF NextPorts
    <2>2. InTemplate(port, o)
        BY <1>2, <2>1 DEF InTemplate
    <2>3. \A d \in contracts, p \in offers : ~(d.offer = p.id /\ p.root = o.root)
        BY <1>4, <1>5, <1>6
    <2> QED
        BY <2>2, <2>3 DEF NextFree
<1>7. ASSUME NEW c \in contracts, c.offer = o.deprecates
      PROVE  NextFree(port, o)
    <2>1. {e \in contracts : e.offer = o.deprecates} = {c}
        BY <1>1, <1>7 DEF DBInv, SaleComplete
    <2>2. NextPorts(o) = {c.br.port + 1}
        BY <2>1 DEF NextPorts
    <2>3. port = c.br.port + 1 /\ port <= HighPort(o.specs.tmpl)
        BY <2>2 DEF HasPort
    <2>4. InTemplate(port, o)
        <3>1. Derived(q, o)
            BY <1>1, <1>4, LinkDerived
        <3>2. LowPort(o.specs.tmpl) <= c.br.port
            BY <1>2, <1>3, <1>4, <1>7, <3>1 DEF PortInv, PortsGrow, InTemplate, Derived
        <3> QED
            BY <1>2, <1>3, <2>3, <3>2 DEF InTemplate
    <2>5. ASSUME NEW d \in contracts, NEW p \in offers, d.offer = p.id, p.root = o.root
          PROVE  d.br.port < port
        <3>1. CASE p = q
            <4>1. d = c
                BY <1>1, <1>4, <1>7, <2>5, <3>1 DEF DBInv, SaleComplete
            <4> QED
                BY <1>3, <2>3, <4>1
        <3>2. CASE p.id < q.id
            <4>1. d.br.port < c.br.port
                BY <1>4, <1>7, <2>5, <3>2 DEF PortInv, PortsGrow
            <4> QED
                BY <1>3, <2>3, <4>1
        <3> QED
            BY <1>5, <2>5, <3>1, <3>2
    <2> QED
        BY <2>4, <2>5 DEF NextFree
<1> QED
    BY <1>6, <1>7

\* A purchase writes such a port.
LEMMA WriteSalePorts ==
    ASSUME IInv, SaleInv, PortInv, NEW t \in Threads, WriteSale(t)
    PROVE  PortInv'
<1>1. PICK p \in NextPorts(cur[t]) :
        tx' = [tx EXCEPT ![t] = [rows |-> {NewRow(t)}, sales |-> {Sale(t, p)}]]
    BY DEF WriteSale
<1>2. /\ UNCHANGED <<offers, contracts>> /\ tx'[t].sales = {Sale(t, p)}
      /\ \A u \in Threads \ {t} : tx'[u] = tx[u]
    BY <1>1 DEF WriteSale, IInv, TypeInv, TypeOK
<1>3. Consecutive' /\ AvailableLast' /\ PortsGrow'
    BY <1>2 DEF PortInv, Consecutive, AvailableLast, PortsGrow, InTemplate, available,
           IsAvailable, Deprecators
<1>4. PICK c : c = Sale(t, p)
    OBVIOUS
<1>5. c.offer = cur[t].id /\ c.br.port = p
    BY <1>4 DEF Sale
<1>6. cur[t] \in offers /\ NextFree(p, cur[t])
    BY NextPortFree DEF WriteSale, Signable, IInv, TypeInv, ThreadsOK
<1>7. ASSUME NEW o \in offers, c.offer = o.id
      PROVE  NextFree(c.br.port, o)
    BY <1>5, <1>6, <1>7 DEF IInv, DBInv, Keys
<1>8. PendingPorts'
    <2> SUFFICES ASSUME NEW u \in Threads, NEW e \in tx'[u].sales, NEW o \in offers,
                        e.offer = o.id
                 PROVE  NextFree(e.br.port, o)
        BY <1>2 DEF PendingPorts, NextFree
    <2>1. CASE u = t
        BY <1>2, <1>4, <1>7, <2>1
    <2>2. CASE u # t
        BY <1>2, <2>2 DEF PortInv, PendingPorts
    <2> QED
        BY <2>1, <2>2
<1> QED
    BY <1>3, <1>8 DEF PortInv

\* Ids of a transaction being new, what contracts and uncommitted sales name
\* are rows already there.
LEMMA RowsNamedAreOld ==
    ASSUME IInv, NEW x, \A r \in x.rows : \A o \in offers : o.id # r.id,
           offers' = offers \cup x.rows
    PROVE  /\ \A c \in contracts, o \in offers' : c.offer = o.id => o \in offers
           /\ \A u \in Threads : \A c \in tx[u].sales, o \in offers' :
                 c.offer = o.id => o \in offers
<1>1. \A c \in contracts : \E p \in offers : p.id = c.offer
    BY DEF IInv, DBInv, SaleComplete
<1>2. ASSUME NEW u \in Threads, NEW c \in tx[u].sales
      PROVE  \E p \in offers : p.id = c.offer
    BY DEF IInv, Pending, NoTx, Listing, Selling
<1> QED
    BY <1>1, <1>2

\* Two available rows of one chain are the same.
LEMMA OneAvailable ==
    ASSUME Lineage, NEW a \in available, NEW b \in available, a.root = b.root
    PROVE  a = b
BY DEF Lineage, available

\* The commit of a submission: a chain of two rows, the second for sale.
LEMMA ListingRows ==
    ASSUME IInv, NEW t \in Threads, Commit(t), Listing(tx[t])
    PROVE  \E a, b \in tx[t].rows :
            /\ offers' = offers \cup {a, b} /\ contracts' = contracts
            /\ a.deprecates = NoOffer /\ a.root = a.id
            /\ b.deprecates = a.id /\ b.root = a.id /\ b.id \in Nat \ {0}
            /\ b.deprecates # NoOffer
            /\ \A o \in offers : o.id # a.id /\ o.id # b.id /\ o.root # a.id
            /\ available' = available \cup {b}
<1>1. PICK x : x = tx[t]
    OBVIOUS
<1>2. /\ offers' = offers \cup x.rows /\ contracts' = contracts \cup x.sales
      /\ x.rows \subseteq Row /\ TypeOK /\ DBInv
      /\ \A r \in x.rows : \A o \in offers : o.id # r.id
    BY <1>1 DEF Commit, EndTx, IInv, TypeInv, TypeOK, Exclusive
<1>3. PICK a \in x.rows, b \in x.rows :
        /\ x.rows = {a, b} /\ x.sales = {}
        /\ a.deprecates = NoOffer /\ a.root = a.id
        /\ b.deprecates = a.id /\ b.root = a.id /\ a.id < b.id
    BY <1>1 DEF Listing
<1>4. /\ a.id \in Nat \ {0} /\ b.id \in Nat \ {0} /\ NoOffer = 0
      /\ contracts' = contracts /\ offers' = offers \cup {a, b}
    BY <1>2, <1>3 DEF Row, NoOffer
<1>5. \A o \in offers : o.root # a.id /\ o.deprecates # a.id /\ o.deprecates # b.id
    BY <1>2, <1>3, <1>4 DEF DBInv, Links
<1>6. available' = available \cup {b}
    <2>1. ASSUME NEW e \in offers
          PROVE  e \in available' <=> e \in available
        <3>1. a.deprecates # e.id /\ b.deprecates # e.id
            BY <1>2, <1>3, <1>4, RowTyped
        <3> QED
            BY <1>4, <3>1 DEF available, IsAvailable, Deprecators
    <2>2. a \notin available'
        BY <1>3, <1>4 DEF available, IsAvailable, Deprecators
    <2>3. b \in available'
        BY <1>3, <1>4, <1>5 DEF available, IsAvailable, Deprecators
    <2>4. available' \subseteq offers \cup {a, b} /\ available \subseteq offers
        BY <1>4 DEF available
    <2> QED
        BY <2>1, <2>2, <2>3, <2>4
<1>7. \A o \in offers : o.id # a.id /\ o.id # b.id
    BY <1>2
<1> QED
    BY <1>1, <1>3, <1>4, <1>5, <1>6, <1>7

\* The commit of a purchase: the row sold is no longer for sale, the one that
\* deprecates it is, and the new contract is the only one on it.
LEMMA SellingRows ==
    ASSUME IInv, NEW t \in Threads, Commit(t), Selling(tx[t], offers, contracts)
    PROVE  \E n \in tx[t].rows, c \in tx[t].sales, o \in available :
            /\ offers' = offers \cup {n} /\ contracts' = contracts \cup {c}
            /\ n.deprecates = o.id /\ n.root = o.root /\ n.deprecates # NoOffer
            /\ c.offer = o.id /\ \A e \in contracts : e.offer # o.id
            /\ Contains(o.specs.prof, c.demand)
            /\ n.specs = Remainder(o.specs, c.demand)
            /\ available' = (available \ {o}) \cup {n}
            /\ \A e \in contracts', p \in offers' : e.offer = p.id =>
                    (e \in contracts /\ p \in offers) \/ (e = c /\ p = o)
<1>1. PICK x : x = tx[t]
    OBVIOUS
<1>2. /\ offers' = offers \cup x.rows /\ contracts' = contracts \cup x.sales
      /\ x.rows \subseteq Row /\ TypeOK /\ DBInv
      /\ \A r \in x.rows : \A o \in offers : o.id # r.id
    BY <1>1 DEF Commit, EndTx, IInv, TypeInv, TypeOK, Exclusive
<1>3. PICK n \in x.rows, c \in x.sales, o \in offers :
        /\ x.rows = {n} /\ x.sales = {c}
        /\ c.offer = o.id /\ n.deprecates = o.id
        /\ n.root = o.root /\ o.id < n.id
        /\ \A p \in offers : p.deprecates # o.id
        /\ \A e \in contracts : e.offer # o.id
        /\ Contains(o.specs.prof, c.demand)
        /\ n.specs = Remainder(o.specs, c.demand)
    BY <1>1 DEF Selling
<1>4. /\ n.id \in Nat \ {0} /\ NoOffer = 0 /\ n.deprecates # NoOffer
      /\ offers' = offers \cup {n} /\ contracts' = contracts \cup {c}
      /\ o \in available
    BY <1>2, <1>3, RowTyped DEF Row, NoOffer, available, IsAvailable, Deprecators
<1>5. n \notin offers /\ \A p \in offers : p.deprecates # n.id
    BY <1>2, <1>3, <1>4 DEF DBInv, Links
<1>6. available' = (available \ {o}) \cup {n}
    <2>1. ASSUME NEW e \in offers
          PROVE  e \in available' <=> e \in available /\ e # o
        <3>1. n.deprecates = e.id <=> e = o
            BY <1>2, <1>3 DEF DBInv, Keys
        <3> QED
            BY <1>4, <3>1 DEF available, IsAvailable, Deprecators
    <2>2. n \in available'
        BY <1>2, <1>3, <1>4, <1>5 DEF available, IsAvailable, Deprecators
    <2>3. available' \subseteq offers \cup {n} /\ available \subseteq offers
        BY <1>4 DEF available
    <2> QED
        BY <2>1, <2>2, <2>3
<1>7. ASSUME NEW e \in contracts', NEW p \in offers', e.offer = p.id
      PROVE  (e \in contracts /\ p \in offers) \/ (e = c /\ p = o)
    <2>1. CASE e = c
        BY <1>2, <1>3, <1>4, <1>7, <2>1 DEF DBInv, Keys
    <2>2. CASE e \in contracts
        BY <1>2, <1>7, <2>2, RowsNamedAreOld
    <2> QED
        BY <1>4, <2>1, <2>2
<1> QED
    BY <1>1, <1>3, <1>4, <1>6, <1>7

\* A listing starts a chain of its own.
LEMMA ListingPorts ==
    ASSUME IInv, PortInv, NEW t \in Threads, Commit(t), Listing(tx[t])
    PROVE  PortInv'
<1>1. PICK x : x = tx[t]
    OBVIOUS
<1>2. /\ offers' = offers \cup x.rows /\ contracts' = contracts \cup x.sales
      /\ tx'[t] = NoTx /\ \A u \in Threads \ {t} : tx'[u] = tx[u]
      /\ x.rows \subseteq Row /\ TypeOK /\ DBInv
      /\ \A r \in x.rows : \A o \in offers : o.id # r.id
    BY <1>1 DEF Commit, EndTx, IInv, TypeInv, TypeOK, Exclusive
<1>3. PICK a \in x.rows, b \in x.rows :
        /\ x.rows = {a, b} /\ x.sales = {}
        /\ a.deprecates = NoOffer /\ a.root = a.id
        /\ b.deprecates = a.id /\ b.root = a.id /\ a.id < b.id
    BY <1>1 DEF Listing
<1>4. /\ a.id \in Nat \ {0} /\ b.id \in Nat \ {0} /\ NoOffer = 0
      /\ contracts' = contracts
    BY <1>2, <1>3 DEF Row, NoOffer
<1>5. \A o \in offers : o.root # a.id
    BY <1>2, <1>3 DEF DBInv, Links
<1>6. \A q \in offers' : q \in offers \/ q = a \/ q = b
    BY <1>2, <1>3
<1>7. Consecutive'
    <2> SUFFICES ASSUME NEW p \in offers', NEW q \in offers', p.root = q.root, p.id < q.id
                 PROVE  q.deprecates # NoOffer /\ p.id <= q.deprecates
        BY DEF Consecutive
    <2>1. CASE p \in offers /\ q \in offers
        BY <2>1 DEF PortInv, Consecutive
    <2>2. CASE p \notin offers \/ q \notin offers
        <3>1. p.root = a.id /\ q.root = a.id
            BY <1>3, <1>6, <2>2
        <3>2. p \in {a, b} /\ q \in {a, b}
            BY <1>5, <1>6, <3>1
        <3>3. p = a /\ q = b
            BY <1>3, <1>4, <3>2
        <3> QED
            BY <1>3, <1>4, <3>3
    <2> QED
        BY <2>1, <2>2
<1>8. AvailableLast'
    <2> SUFFICES ASSUME NEW e \in offers', \A q \in offers' : q.deprecates # e.id,
                        NEW p \in offers', p.root = e.root
                 PROVE  p.id <= e.id
        BY DEF AvailableLast, available, IsAvailable, Deprecators
    <2>1. CASE e \in offers /\ p \in offers
        <3>1. e \in available
            BY <1>2, <2>1 DEF available, IsAvailable, Deprecators
        <3> QED
            BY <2>1, <3>1 DEF PortInv, AvailableLast
    <2>2. CASE e \notin offers \/ p \notin offers
        <3>1. e.root = a.id /\ p.root = a.id
            BY <1>3, <1>6, <2>2
        <3>2. p \in {a, b} /\ e \in {a, b}
            BY <1>5, <1>6, <3>1
        <3>3. e # a
            BY <1>2, <1>3
        <3> QED
            BY <1>3, <1>4, <3>2, <3>3
    <2> QED
        BY <2>1, <2>2
<1>9. PortsGrow'
    BY <1>2, <1>4, RowsNamedAreOld DEF PortInv, PortsGrow, InTemplate
<1>10. PendingPorts'
    <2> SUFFICES ASSUME NEW u \in Threads \ {t}, NEW c \in tx[u].sales,
                        NEW o \in offers', c.offer = o.id
                 PROVE  NextFree(c.br.port, o)'
        BY <1>2 DEF PendingPorts, NextFree, NoTx
    <2>1. o \in offers
        BY <1>2, RowsNamedAreOld
    <2>2. NextFree(c.br.port, o)
        BY <2>1 DEF PortInv, PendingPorts
    <2> QED
        BY <1>2, <1>4, <2>2, RowsNamedAreOld DEF NextFree, InTemplate
<1> QED
    BY <1>7, <1>8, <1>9, <1>10 DEF PortInv

\* A sale adds the youngest row of its chain and the highest port.
LEMMA SellingPorts ==
    ASSUME IInv, PortInv, NEW t \in Threads, Commit(t),
           Selling(tx[t], offers, contracts)
    PROVE  PortInv'
<1>1. PICK x : x = tx[t]
    OBVIOUS
<1>2. /\ offers' = offers \cup x.rows /\ contracts' = contracts \cup x.sales
      /\ tx'[t] = NoTx /\ \A u \in Threads \ {t} : tx'[u] = tx[u]
      /\ x.rows \subseteq Row /\ TypeOK /\ DBInv
      /\ \A r \in x.rows : \A o \in offers : o.id # r.id
    BY <1>1 DEF Commit, EndTx, IInv, TypeInv, TypeOK, Exclusive
<1>3. PICK n \in x.rows, c \in x.sales, o \in offers :
        /\ x.rows = {n} /\ x.sales = {c}
        /\ c.offer = o.id /\ n.deprecates = o.id
        /\ n.root = o.root /\ o.id < n.id
        /\ \A p \in offers : p.deprecates # o.id
        /\ \A e \in contracts : e.offer # o.id
    BY <1>1 DEF Selling
<1>4. /\ n.id \in Nat \ {0} /\ o.id \in Nat \ {0} /\ NoOffer = 0
      /\ o \in available
    BY <1>2, <1>3, RowTyped DEF Row, NoOffer, available, IsAvailable, Deprecators
<1>5. ASSUME NEW p \in offers, p.root = o.root
      PROVE  p.id \in Nat /\ p.id <= o.id /\ p.id < n.id
    BY <1>2, <1>3, <1>4, <1>5, RowTyped DEF PortInv, AvailableLast
<1>6. NextFree(c.br.port, o)
    BY <1>1, <1>3 DEF PortInv, PendingPorts
<1>7. Consecutive'
    <2> SUFFICES ASSUME NEW p \in offers', NEW q \in offers', p.root = q.root, p.id < q.id
                 PROVE  q.deprecates # NoOffer /\ p.id <= q.deprecates
        BY DEF Consecutive
    <2>1. CASE p \in offers /\ q \in offers
        BY <2>1 DEF PortInv, Consecutive
    <2>2. CASE p \in offers /\ q = n
        BY <1>3, <1>4, <1>5, <2>2
    <2>3. CASE p = n
        BY <1>2, <1>3, <1>4, <1>5, <2>3
    <2> QED
        BY <1>2, <1>3, <2>1, <2>2, <2>3
<1>8. AvailableLast'
    <2> SUFFICES ASSUME NEW e \in offers', \A q \in offers' : q.deprecates # e.id,
                        NEW p \in offers', p.root = e.root
                 PROVE  p.id <= e.id
        BY DEF AvailableLast, available, IsAvailable, Deprecators
    <2>1. CASE e \in offers
        <3>1. e \in available
            BY <1>2, <2>1 DEF available, IsAvailable, Deprecators
        <3>2. e # o
            BY <1>2, <1>3
        <3>3. p \in offers
            BY <1>2, <1>3, <1>4, <3>1, <3>2, OneAvailable DEF DBInv
        <3> QED
            BY <3>1, <3>3 DEF PortInv, AvailableLast
    <2>2. CASE e = n
        BY <1>2, <1>3, <1>4, <1>5, <2>2
    <2> QED
        BY <1>2, <1>3, <2>1, <2>2
<1>9. \A p \in offers' : p.id = c.offer => p = o
    BY <1>2, <1>3 DEF DBInv, Keys
<1>10. PortsGrow'
    <2>1. ASSUME NEW d \in contracts', NEW p \in offers', d.offer = p.id
          PROVE  InTemplate(d.br.port, p)
        <3>1. CASE d = c
            BY <1>6, <1>9, <2>1, <3>1 DEF NextFree
        <3>2. CASE d \in contracts
            BY <1>2, <2>1, <3>2, RowsNamedAreOld DEF PortInv, PortsGrow
        <3> QED
            BY <1>2, <1>3, <3>1, <3>2
    <2>2. ASSUME NEW d \in contracts', NEW e \in contracts',
                 NEW p \in offers', NEW q \in offers',
                 d.offer = p.id, e.offer = q.id, p.root = q.root, p.id < q.id
          PROVE  d.br.port < e.br.port
        <3>1. CASE d \in contracts /\ e \in contracts
            BY <1>2, <2>2, <3>1, RowsNamedAreOld DEF PortInv, PortsGrow
        <3>2. CASE d \in contracts /\ e = c
            <4>1. q = o /\ p \in offers
                BY <1>2, <1>9, <2>2, <3>2, RowsNamedAreOld
            <4> QED
                BY <1>6, <2>2, <3>2, <4>1 DEF NextFree
        <3>3. CASE d = c
            <4>1. p = o
                BY <1>9, <2>2, <3>3
            <4>2. e # c /\ e \in contracts
                BY <1>2, <1>3, <1>4, <1>9, <2>2, <4>1
            <4>3. q \in offers
                BY <1>2, <2>2, <4>2, RowsNamedAreOld
            <4> QED
                BY <1>4, <1>5, <2>2, <4>1, <4>3
        <3> QED
            BY <1>2, <1>3, <3>1, <3>2, <3>3
    <2> QED
        BY <2>1, <2>2 DEF PortsGrow, InTemplate
<1>11. PendingPorts'
    <2> SUFFICES ASSUME NEW u \in Threads \ {t}, NEW e \in tx[u].sales,
                        NEW p \in offers', e.offer = p.id
                 PROVE  NextFree(e.br.port, p)'
        BY <1>2 DEF PendingPorts, NextFree, NoTx
    <2>1. p \in offers
        BY <1>2, RowsNamedAreOld
    <2>2. NextFree(e.br.port, p)
        BY <2>1 DEF PortInv, PendingPorts
    <2>3. p \in available
        <3>1. Selling(tx[u], offers, contracts)
            BY DEF IInv, Pending, NoTx, Listing
        <3>2. \A q \in offers : q.deprecates # p.id
            BY <3>1 DEF Selling
        <3> QED
            BY <2>1, <3>2 DEF available, IsAvailable, Deprecators
    <2>4. p.root # o.root
        <3>1. p # o
            BY <1>1, <1>3 DEF IInv, Exclusive
        <3> QED
            BY <1>2, <1>4, <2>3, <3>1, OneAvailable DEF DBInv
    <2>5. ASSUME NEW d \in contracts', NEW q \in offers', d.offer = q.id, q.root = p.root
          PROVE  d.br.port < e.br.port
        <3>1. d # c
            BY <1>9, <2>4, <2>5
        <3>2. d \in contracts /\ q \in offers
            BY <1>2, <1>3, <2>5, <3>1, RowsNamedAreOld
        <3> QED
            BY <2>2, <2>5, <3>2 DEF NextFree
    <2> QED
        BY <2>2, <2>5 DEF NextFree, InTemplate
<1> QED
    BY <1>7, <1>8, <1>10, <1>11 DEF PortInv

LEMMA PortInvStep == IInv /\ SaleInv /\ PortInv /\ [Next]_vars => PortInv'
<1> SUFFICES ASSUME IInv, SaleInv, PortInv, [Next]_vars PROVE PortInv'
    OBVIOUS
<1>1. ASSUME NEW t \in Threads, Commit(t)
      PROVE  PortInv'
    <2>1. CASE tx[t] = NoTx
        <3>1. Keeps
            BY <1>1, <2>1 DEF Commit, EndTx, Keeps, NoTx, IInv, TypeInv, TypeOK
        <3> QED
            BY <3>1, KeepsPorts
    <2> QED
        BY <1>1, <2>1, ListingPorts, SellingPorts DEF IInv, Pending
<1> QED
    BY <1>1, StepKinds, KeepsPorts, AddOfferPorts, WriteSalePorts

\* Contracts of one chain have ports of their own, in the seller's range,
\* whatever purchases run at once.
THEOREM PortsCorrect == Spec => []PortsDistinct
<1>1. Init => PortInv
    BY DEF Init, PortInv, Consecutive, AvailableLast, PortsGrow, PendingPorts, NoTx, available
<1>2. IInv /\ PortInv => PortsDistinct
    <2> SUFFICES ASSUME IInv, PortInv PROVE PortsDistinct
        OBVIOUS
    <2>1. ASSUME NEW c \in contracts, NEW d \in contracts, c # d, ChainOf(c) = ChainOf(d)
          PROVE  c.br.port # d.br.port
        <3>1. PICK o \in offers, p \in offers : o.id = c.offer /\ p.id = d.offer
            BY DEF IInv, DBInv, SaleComplete
        <3>2. o.root = p.root
            <4>1. ChainOf(c) = {o.root} /\ ChainOf(d) = {p.root}
                BY <3>1 DEF ChainOf, IInv, DBInv, Keys
            <4> QED
                BY <2>1, <4>1
        <3>3. o.id # p.id
            BY <2>1, <3>1 DEF IInv, DBInv, SaleComplete
        <3>4. o.id < p.id \/ p.id < o.id
            BY <3>3, RowTyped DEF IInv, TypeInv
        <3>5. c.br.port \in Nat /\ d.br.port \in Nat
            BY DEF IInv, TypeInv, TypeOK, Contract, Address
        <3> QED
            BY <3>1, <3>2, <3>4, <3>5 DEF PortInv, PortsGrow
    <2> QED
        BY <2>1 DEF PortInv, PortsGrow, InTemplate, PortsDistinct
<1> QED
    BY <1>1, <1>2, PortInvStep, SaleInvariance, Invariance, PTL DEF Spec
-----------------------------------------------------------------------------
(* Conservation: each sale moves its demand from the available row of a    *)
(* chain to the chain's contracts, and nothing else touches either.        *)

\* the balance of each chain, and what a sum over contracts needs
Balance ==
    /\ IsFiniteSet(contracts)
    /\ \A o \in offers, a \in available : o.deprecates = NoOffer /\ a.root = o.root =>
          /\ Len(a.specs.prof) = Len(o.specs.prof)
          /\ \A i \in 1..Len(o.specs.prof) :
                o.specs.prof[i] = a.specs.prof[i] + UnitsSold(o.root, i)

LEMMA AtTyped ==
    ASSUME NEW d \in Demand, NEW i \in Int
    PROVE  At(d, i) \in Int
<1>1. d.start \in Int /\ d.prof \in Seq(Int) /\ Offset(d) \in Int
    BY PeriodAssumption DEF Demand, Offset
<1>2. PICK k \in Int : k = i - Offset(d)
    BY <1>1
<1>3. CASE k \in 1..Len(d.prof)
    BY <1>1, <1>2, <1>3 DEF At
<1>4. CASE k \notin 1..Len(d.prof)
    BY <1>2, <1>4 DEF At
<1> QED
    BY <1>3, <1>4

\* A chain without contracts has sold nothing.
LEMMA UnitsNone ==
    ASSUME NEW r, NEW i, ContractsOf(r)' = {}
    PROVE  UnitsSold(r, i)' = 0
<1>1. PICK f : f = [c \in ContractsOf(r)' |-> At(c.demand, i)]
    OBVIOUS
<1>2. SumFunction(f) = 0
    BY <1>1, SumEmpty DEF SumFunction
<1> QED
    BY <1>1, <1>2 DEF UnitsSold

\* A new contract of a chain adds its demand to what was sold.
LEMMA UnitsAdded ==
    ASSUME TypeOK, TypeOK', IsFiniteSet(contracts), NEW r, NEW i \in Int,
           NEW c \in contracts', c \notin contracts,
           ContractsOf(r)' = ContractsOf(r) \cup {c}
    PROVE  /\ UnitsSold(r, i)' = UnitsSold(r, i) + At(c.demand, i)
           /\ UnitsSold(r, i) \in Int
<1>1. PICK S : S = ContractsOf(r)
    OBVIOUS
<1>2. S \subseteq contracts /\ IsFiniteSet(S) /\ c \notin S
    BY <1>1, FS_Subset DEF ContractsOf
<1>3. \A e \in S \cup {c} : At(e.demand, i) \in Int
    <2>1. \A e \in S \cup {c} : e \in Contract
        BY <1>2 DEF TypeOK
    <2>2. \A e \in S \cup {c} : e.demand \in Demand
        BY <2>1 DEF Contract
    <2> QED
        BY <2>2, AtTyped
<1>4. PICK f, g : /\ f = [e \in S |-> At(e.demand, i)]
                  /\ g = [e \in S \cup {c} |-> At(e.demand, i)]
    OBVIOUS
<1>5. /\ f \in [S -> Int] /\ g \in [S \cup {c} -> Int]
      /\ g[c] = At(c.demand, i) /\ \A e \in S : g[e] = f[e]
    BY <1>3, <1>4
<1>6. SumFunction(g) = SumFunction(f) + g[c] /\ SumFunction(f) \in Int
    BY <1>2, <1>5, SumFunctionAdd
<1>7. UnitsSold(r, i) = SumFunction(f) /\ UnitsSold(r, i)' = SumFunction(g)
    BY <1>1, <1>4 DEF UnitsSold
<1> QED
    BY <1>5, <1>6, <1>7

LEMMA BalanceKept ==
    ASSUME Balance, UNCHANGED <<offers, contracts>>
    PROVE  Balance'
<1>1. available' = available
    BY DEF available, IsAvailable, Deprecators
<1>2. \A r, i : UnitsSold(r, i)' = UnitsSold(r, i)
    <2>1. \A r : ContractsOf(r)' = ContractsOf(r)
        BY DEF ContractsOf
    <2> QED
        BY <2>1 DEF UnitsSold
<1> QED
    BY <1>1, <1>2 DEF Balance

\* A new chain has all of what its seller offers for sale, and no contract.
LEMMA ListingBalance ==
    ASSUME IInv, SaleInv, Balance, NEW t \in Threads, Commit(t), Listing(tx[t])
    PROVE  Balance'
<1>1. PICK a \in tx[t].rows, b \in tx[t].rows :
        /\ offers' = offers \cup {a, b} /\ contracts' = contracts
        /\ a.root = a.id /\ b.root = a.id /\ b.deprecates # NoOffer
        /\ \A o \in offers : o.id # a.id /\ o.id # b.id /\ o.root # a.id
        /\ available' = available \cup {b}
    BY ListingRows
<1>2. a.specs = b.specs /\ a \in Row
    BY DEF SaleInv, Drafts, IInv, TypeInv, TypeOK
<1>3. \A c \in contracts : \E p \in offers : p.id = c.offer
    BY DEF IInv, DBInv, SaleComplete
<1>4. \A c \in contracts, p \in offers' : p.id = c.offer => p \in offers
    BY <1>1, <1>3
<1> SUFFICES ASSUME NEW o \in offers', NEW e \in available',
                    o.deprecates = NoOffer, e.root = o.root
             PROVE  /\ Len(e.specs.prof) = Len(o.specs.prof)
                    /\ \A i \in 1..Len(o.specs.prof) :
                          o.specs.prof[i] = e.specs.prof[i] + UnitsSold(o.root, i)'
    BY <1>1 DEF Balance
<1>5. CASE o \in offers
    <2>1. e \in available
        BY <1>1, <1>5
    <2>2. ContractsOf(o.root)' = ContractsOf(o.root)
        BY <1>1, <1>4 DEF ContractsOf
    <2>3. \A i : UnitsSold(o.root, i)' = UnitsSold(o.root, i)
        BY <2>2 DEF UnitsSold
    <2> QED
        BY <1>5, <2>1, <2>3 DEF Balance
<1>6. CASE o = a
    <2>1. e = b
        BY <1>1, <1>6 DEF available
    <2>2. ContractsOf(o.root)' = {}
        BY <1>1, <1>4, <1>6 DEF ContractsOf
    <2>3. \A i : UnitsSold(o.root, i)' = 0
        BY <2>2, UnitsNone
    <2>4. \A i \in 1..Len(a.specs.prof) : a.specs.prof[i] \in Nat
        BY <1>2 DEF Row, Specs, Profile
    <2> QED
        BY <1>2, <1>6, <2>1, <2>3, <2>4
<1> QED
    BY <1>1, <1>5, <1>6

\* A sale takes from the available row what its contract adds to those sold.
LEMMA SellingBalance ==
    ASSUME IInv, TypeOK', Balance, NEW t \in Threads, Commit(t),
           Selling(tx[t], offers, contracts)
    PROVE  Balance'
<1>1. PICK n \in tx[t].rows, c \in tx[t].sales, s \in available :
        /\ offers' = offers \cup {n} /\ contracts' = contracts \cup {c}
        /\ n.root = s.root /\ n.deprecates # NoOffer
        /\ c.offer = s.id /\ \A e \in contracts : e.offer # s.id
        /\ Contains(s.specs.prof, c.demand)
        /\ n.specs = Remainder(s.specs, c.demand)
        /\ available' = (available \ {s}) \cup {n}
        /\ \A e \in contracts', p \in offers' : e.offer = p.id =>
                (e \in contracts /\ p \in offers) \/ (e = c /\ p = s)
    BY SellingRows
<1>2. TypeOK /\ s \in offers /\ c \notin contracts
    BY <1>1 DEF available, IInv, TypeInv
<1>3. IsFiniteSet(contracts')
    BY <1>1, FS_AddElement DEF Balance
<1> SUFFICES ASSUME NEW o \in offers', NEW e \in available',
                    o.deprecates = NoOffer, e.root = o.root
             PROVE  /\ Len(e.specs.prof) = Len(o.specs.prof)
                    /\ \A i \in 1..Len(o.specs.prof) :
                          o.specs.prof[i] = e.specs.prof[i] + UnitsSold(o.root, i)'
    BY <1>3 DEF Balance
<1>4. o \in offers
    BY <1>1
<1>5. CASE e = n
    <2>1. /\ Len(s.specs.prof) = Len(o.specs.prof)
          /\ \A i \in 1..Len(o.specs.prof) :
                o.specs.prof[i] = s.specs.prof[i] + UnitsSold(o.root, i)
        BY <1>1, <1>4, <1>5 DEF Balance
    <2>2. s.specs \in Specs /\ s.specs.prof \in Profile /\ c.demand \in Demand
        <3>1. c \in Contract
            BY <1>1 DEF TypeOK
        <3> QED
            BY <1>2, <3>1, RowTyped DEF Contract
    <2>3. n.specs.prof = Purchase(s.specs.prof, c.demand)
        BY <1>1, <2>2 DEF Remainder, Specs
    <2>4. Len(n.specs.prof) = Len(s.specs.prof)
        BY <1>1, <2>2, <2>3, PurchaseProfile
    <2>5. ContractsOf(o.root)' = ContractsOf(o.root) \cup {c}
        BY <1>1, <1>2, <1>5 DEF ContractsOf
    <2>6. ASSUME NEW i \in 1..Len(o.specs.prof)
          PROVE  o.specs.prof[i] = n.specs.prof[i] + UnitsSold(o.root, i)'
        <3>1. /\ UnitsSold(o.root, i)' = UnitsSold(o.root, i) + At(c.demand, i)
              /\ UnitsSold(o.root, i) \in Int
            BY <1>1, <1>2, <2>5, UnitsAdded DEF Balance
        <3>2. n.specs.prof[i] = s.specs.prof[i] - At(c.demand, i)
            BY <2>1, <2>3 DEF Purchase
        <3>3. s.specs.prof[i] \in Int /\ At(c.demand, i) \in Int
            <4>1. At(c.demand, i) \in Int
                BY <2>2, AtTyped
            <4>2. s.specs.prof[i] \in Nat
                BY <1>2, <2>1, RowTyped
            <4> QED
                BY <4>1, <4>2
        <3> QED
            BY <2>1, <3>1, <3>2, <3>3
    <2> QED
        BY <1>5, <2>1, <2>4, <2>6
<1>6. CASE e # n
    <2>1. e \in available /\ e # s
        BY <1>1, <1>6
    <2>2. o.root # s.root
        BY <2>1, OneAvailable DEF IInv, DBInv
    <2>3. ContractsOf(o.root)' = ContractsOf(o.root)
        BY <1>1, <1>2, <2>2 DEF ContractsOf
    <2>4. \A i : UnitsSold(o.root, i)' = UnitsSold(o.root, i)
        BY <2>3 DEF UnitsSold
    <2> QED
        BY <1>4, <2>1, <2>4 DEF Balance
<1> QED
    BY <1>5, <1>6

\* However many purchases run at once and wherever a process dies, the units
\* of every period of an offer are either for sale or in a contract.
THEOREM BandwidthConserved == Spec => []Conservation
<1>1. Init => Balance
    BY FS_EmptySet DEF Init, Balance
<1>2. IInv /\ IInv' /\ SaleInv /\ Balance /\ [Next]_vars => Balance'
    <2> SUFFICES ASSUME IInv, IInv', SaleInv, Balance, [Next]_vars
                 PROVE  Balance'
        OBVIOUS
    <2>1. ASSUME NEW t \in Threads, Commit(t)
          PROVE  Balance'
        <3>1. CASE tx[t] = NoTx
            <4>1. UNCHANGED <<offers, contracts>>
                BY <2>1, <3>1 DEF Commit, NoTx
            <4> QED
                BY <4>1, BalanceKept
        <3> QED
            BY <2>1, <3>1, ListingBalance, SellingBalance DEF IInv, TypeInv, Pending
    <2>2. CASE Keeps \/ \E t \in Threads : AddOffer(t) \/ WriteSale(t)
        <3>1. UNCHANGED <<offers, contracts>>
            BY <2>2 DEF Keeps, AddOffer, WriteSale
        <3> QED
            BY <3>1, BalanceKept
    <2> QED
        BY <2>1, <2>2, StepKinds
<1>3. IInv /\ Balance => Conservation
    <2> SUFFICES ASSUME IInv, Balance, NEW o \in OriginalOffers PROVE o.deprecates = NoOffer
        BY DEF Balance, Conservation, OriginalOffers
    <2> QED
        BY DEF IInv, DBInv, SoldIffDeprecated, OriginalOffers, IsAvailable, Deprecators, IsSold
<1> QED
    BY <1>1, <1>2, <1>3, SaleInvariance, Invariance, PTL DEF Spec
-----------------------------------------------------------------------------
(* ImplementsSpotMarket: a listing's commit lists a good, a sale's commit  *)
(* sells out of it, every other step is a stutter of the abstract market.  *)

\* the good an available row stands for, the abstract sale of a contract on it
GoodOf(o) == [good |-> o.root, prof |-> o.specs.prof]
SaleOf(o, c) ==
    [good |-> o.root, number |-> o.id, buyer |-> c.buyer, demand |-> c.demand]

LEMMA SpotSalesMembers ==
    \A x : x \in spotSales <=>
        \E o \in offers, c \in contracts : c.offer = o.id /\ x = SaleOf(o, c)
BY DEF spotSales, SaleOf

\* The abstract market computes with the same profiles.
LEMMA SpotProfiles ==
    \A prof, d : /\ Spot!Contains(prof, d) = Contains(prof, d)
                 /\ Spot!Purchase(prof, d) = Purchase(prof, d)
BY DEF Spot!Contains, Contains, Spot!Purchase, Purchase, Spot!At, At, Spot!Offset, Offset

\* Tables that do not change are the same goods and sales.
LEMMA SpotStutter ==
    ASSUME UNCHANGED <<offers, contracts>>
    PROVE  UNCHANGED Spot!spotVars
BY DEF Spot!spotVars, spotStock, spotSales, available, IsAvailable, Deprecators

\* The commit of a submission.
LEMMA ListingLists ==
    ASSUME IInv, SaleInv, NEW t \in Threads, Commit(t), Listing(tx[t])
    PROVE  Spot!SpotNext
<1>1. PICK a \in tx[t].rows, b \in tx[t].rows :
        /\ offers' = offers \cup {a, b} /\ contracts' = contracts
        /\ b.root = a.id
        /\ \A o \in offers : o.id # a.id /\ o.id # b.id /\ o.root # a.id
        /\ available' = available \cup {b}
    BY ListingRows
<1>2. PICK m \in Submissions : b.specs = m.specs
    <2>1. tx[t].sales = {}
        BY DEF Listing
    <2> QED
        BY <2>1 DEF SaleInv, Drafts
<1>3. spotStock' = spotStock \cup {GoodOf(b)}
    BY <1>1 DEF spotStock, GoodOf
<1>4. spotSales' = spotSales
    <2>1. \A c \in contracts, o \in offers' : c.offer = o.id => o \in offers
        <3>1. \A c \in contracts : \E p \in offers : p.id = c.offer
            BY DEF IInv, DBInv, SaleComplete
        <3> QED
            BY <1>1, <3>1
    <2>2. \A y : y \in spotSales' <=>
            \E o \in offers', c \in contracts' : c.offer = o.id /\ y = SaleOf(o, c)
        BY SpotSalesMembers DEF spotSales, SaleOf
    <2>3. \A y : y \in spotSales' <=> y \in spotSales
        BY <1>1, <2>1, <2>2, SpotSalesMembers
    <2> QED
        BY <2>3 DEF spotSales
<1>5. \A s \in spotStock : s.good # b.root
    BY <1>1 DEF spotStock, available
<1>6. GoodOf(b).good = b.root /\ GoodOf(b).prof = b.specs.prof
    BY DEF GoodOf
<1>7. Spot!List(GoodOf(b).good, GoodOf(b).prof)
    BY <1>3, <1>4, <1>5, <1>6 DEF Spot!List, GoodOf
<1>8. GoodOf(b) \in spotStock' /\ GoodOf(b).prof \in {n.specs.prof : n \in Submissions}
    BY <1>2, <1>3, <1>6
<1> QED
    BY <1>7, <1>8 DEF Spot!SpotNext

\* The commit of a purchase.
LEMMA SellingSells ==
    ASSUME IInv, SaleInv, NEW t \in Threads, Commit(t),
           Selling(tx[t], offers, contracts)
    PROVE  Spot!SpotNext
<1>1. PICK n \in tx[t].rows, c \in tx[t].sales, o \in available :
        /\ offers' = offers \cup {n} /\ contracts' = contracts \cup {c}
        /\ n.root = o.root
        /\ c.offer = o.id /\ \A e \in contracts : e.offer # o.id
        /\ Contains(o.specs.prof, c.demand)
        /\ n.specs = Remainder(o.specs, c.demand)
        /\ available' = (available \ {o}) \cup {n}
        /\ \A e \in contracts', p \in offers' : e.offer = p.id =>
                (e \in contracts /\ p \in offers) \/ (e = c /\ p = o)
    BY SellingRows
<1>2. o \in offers /\ o.specs \in Specs
    BY RowTyped DEF available, IInv, TypeInv
<1>3. GoodOf(n) = [GoodOf(o) EXCEPT !.prof = Purchase(o.specs.prof, c.demand)]
    BY <1>1, <1>2 DEF GoodOf, Remainder, Specs
<1>4. spotStock' = (spotStock \ {GoodOf(o)}) \cup {GoodOf(n)}
    <2>1. \A e \in available : GoodOf(e) = GoodOf(o) => e = o
        BY OneAvailable DEF GoodOf, IInv, DBInv
    <2>2. spotStock = {GoodOf(e) : e \in available}
        BY DEF spotStock, GoodOf
    <2>3. spotStock' = {GoodOf(e) : e \in available'}
        BY DEF spotStock, GoodOf
    <2> QED
        BY <1>1, <2>1, <2>2, <2>3
<1>5. spotSales' = spotSales \cup {SaleOf(o, c)}
    <2>1. \A y : y \in spotSales' <=>
            \E p \in offers', e \in contracts' : e.offer = p.id /\ y = SaleOf(p, e)
        BY DEF spotSales, SaleOf
    <2>2. \A y : y \in spotSales' <=> y \in spotSales \/ y = SaleOf(o, c)
        BY <1>1, <1>2, <2>1, SpotSalesMembers
    <2> QED
        BY <2>2
<1>6. \A y \in spotSales : y.number # o.id
    BY <1>1, SpotSalesMembers DEF SaleOf
<1>7. PICK g, y : g = GoodOf(o) /\ y = SaleOf(o, c)
    OBVIOUS
<1>8. /\ g \in spotStock /\ y \in spotSales'
      /\ g.good = o.root /\ g.prof = o.specs.prof
      /\ y.buyer = c.buyer /\ y.demand = c.demand /\ y.number = o.id
      /\ y = [good |-> g.good, number |-> y.number, buyer |-> y.buyer, demand |-> y.demand]
    BY <1>5, <1>7 DEF spotStock, GoodOf, SaleOf
<1>9. c.buyer \in Registered
    BY DEF SaleInv, Drafts
<1>10. Spot!Sell(g, y.buyer, y.demand, y.number)
    <2>1. Spot!Contains(g.prof, y.demand)
        BY <1>1, <1>8, SpotProfiles
    <2>2. \A z \in spotSales : z.number # y.number
        BY <1>6, <1>8
    <2>3. spotStock' = (spotStock \ {g}) \cup
                {[g EXCEPT !.prof = Spot!Purchase(g.prof, y.demand)]}
        BY <1>3, <1>4, <1>7, <1>8, SpotProfiles
    <2>4. spotSales' = spotSales \cup
                {[good |-> g.good, number |-> y.number, buyer |-> y.buyer, demand |-> y.demand]}
        BY <1>5, <1>7, <1>8
    <2> QED
        BY <2>1, <2>2, <2>3, <2>4 DEF Spot!Sell
<1> QED
    BY <1>8, <1>9, <1>10 DEF Spot!SpotNext

\* The threads of all processes together behave like an abstract market that
\* sells one demand out of one good at a time.
THEOREM SpotRefinement == Spec => ImplementsSpotMarket
<1>1. Init => Spot!SpotInit
    BY DEF Init, Spot!SpotInit, spotStock, spotSales, available
<1>2. IInv /\ SaleInv /\ [Next]_vars => [Spot!SpotNext]_(Spot!spotVars)
    <2> SUFFICES ASSUME IInv, SaleInv, [Next]_vars
                 PROVE  Spot!SpotNext \/ UNCHANGED Spot!spotVars
        OBVIOUS
    <2>1. ASSUME NEW t \in Threads, Commit(t)
          PROVE  Spot!SpotNext \/ UNCHANGED Spot!spotVars
        <3>1. CASE tx[t] = NoTx
            <4>1. UNCHANGED <<offers, contracts>>
                BY <2>1, <3>1 DEF Commit, NoTx
            <4> QED
                BY <4>1, SpotStutter
        <3> QED
            BY <2>1, <3>1, ListingLists, SellingSells DEF IInv, Pending
    <2>2. CASE Keeps \/ \E t \in Threads : AddOffer(t) \/ WriteSale(t)
        <3>1. UNCHANGED <<offers, contracts>>
            BY <2>2 DEF Keeps, AddOffer, WriteSale
        <3> QED
            BY <3>1, SpotStutter
    <2> QED
        BY <2>1, <2>2, StepKinds
<1> QED
    BY <1>1, <1>2, SaleInvariance, Invariance, PTL DEF Spec, ImplementsSpotMarket, Spot!SpotSpec
=============================================================================
