-------------------------- MODULE BrokerKeysProofs --------------------------
(* Theorems about the broker's key and certificate for any number of admins, *)
(* servers, threads and ASes, any brokers and any restarts.                  *)
EXTENDS BrokerKeys, FiniteSetTheorems, TLAPS

\* What a command has added is a broker that was created.
AddedInv == \A a \in Admins : tx[a].added \subseteq 1 .. nextBroker - 1

\* A thread has what it needs where it is: its purchase from reading the buyer's
\* row on, the broker that has stamped the contract, the row it read or the key it
\* got, and something in the cache when it is about to return that.
ThreadInv ==
  \A t \in Threads :
    /\ pc[t] \in {"idle", "order"} => goal[t] = "none"
    /\ pc[t] = "order" \/ goal[t] \in {"stamp", "verify", "renew"} => sale[t] \in Sale
    /\ goal[t] \in {"verify", "renew"} => sale[t].broker # NONE
    /\ pc[t] \in {"assign", "save"} => row[t] # NONE
    /\ pc[t] = "return" => Cached(t) # NONE

LEMMA NoTxType == NoTx \in Tx /\ NoTx.added = {}
BY DEF NoTx, Tx

\* A statement changes one field of the transaction.
LEMMA StatementTypes ==
    ASSUME tx \in [Admins -> Tx], NEW a \in Admins, NEW S \in SUBSET Nat, NEW b \in Nat
    PROVE  /\ tx[a] \in Tx
           /\ [tx EXCEPT ![a].selected = S] \in [Admins -> Tx]
           /\ [tx EXCEPT ![a].deleted = S, ![a].selected = {}] \in [Admins -> Tx]
           /\ [tx EXCEPT ![a].added = S] \in [Admins -> Tx]
           /\ [tx EXCEPT ![a].broker = b] \in [Admins -> Tx]
<1>1. tx[a] \in Tx
  OBVIOUS
<1>2. /\ [tx[a] EXCEPT !.selected = S] \in Tx
      /\ [tx[a] EXCEPT !.deleted = S, !.selected = {}] \in Tx
      /\ [tx[a] EXCEPT !.added = S] \in Tx
      /\ [tx[a] EXCEPT !.broker = b] \in Tx
  BY <1>1 DEF Tx
<1>. QED  BY <1>1, <1>2

LEMMA AddedField ==
    ASSUME tx \in [Admins -> Tx], NEW a \in Admins, NEW S,
           tx' = [tx EXCEPT ![a].added = S], NEW d \in Admins
    PROVE  tx'[d].added = IF d = a THEN S ELSE tx[d].added
<1>1. tx[a] = [selected |-> tx[a].selected, deleted |-> tx[a].deleted,
               added |-> tx[a].added, broker |-> tx[a].broker]
  BY DEF Tx
<1>2. [tx[a] EXCEPT !.added = S].added = S
  BY <1>1
<1>. QED  BY <1>2

\* Commands change nothing of the servers; a commit, if it replaces the broker,
\* makes them stale.
LEMMA CommandFrame ==
    ASSUME NEW a \in Admins, Begin(a) \/ Work(a) \/ Die(a)
    PROVE  /\ UNCHANGED <<caches, runs, threadVars, tables, ases>>
           /\ UNCHANGED <<brokers, fresh>> \/ fresh' = [s \in Servers |-> FALSE]
           /\ fresh' \in {fresh, [s \in Servers |-> FALSE]}
<1>. USE DEF serverVars, dbVars, processVars
<1>1. CASE Commit(a)
  BY <1>1 DEF Commit
<1>2. CASE Begin(a) \/ Select(a) \/ Delete(a) \/ Create(a) \/ Die(a)
  BY <1>2 DEF Begin, Select, Delete, Create, Die
<1>3. CASE Count(a) \/ OpenCrt(a) \/ WriteCrt(a) \/ OpenKey(a) \/ WriteKey(a)
  BY <1>3 DEF Count, OpenCrt, WriteCrt, OpenKey, WriteKey
<1>. QED  BY <1>1, <1>2, <1>3 DEF Work

\* A thread changes nothing of the commands and nothing of other threads.
LEMMA ThreadFrame ==
    ASSUME TypeOK, NEW t \in Threads, Serve(t)
    PROVE  /\ UNCHANGED <<dbVars, adminVars, processVars, ases>>
           /\ \A u \in Threads : u # t => /\ goal'[u] = goal[u] /\ pc'[u] = pc[u]
                                          /\ row'[u] = row[u] /\ sale'[u] = sale[u]
<1>. USE DEF TypeOK, Want, Goto, EndCall
<1>1. CASE Get(t)
  BY <1>1 DEF Get, Check, Query, Assign
<1>2. CASE AddOffer(t) \/ ReturnKey(t) \/ SaveOffer(t)
  BY <1>2 DEF AddOffer, ReturnKey, SaveOffer
<1>3. CASE FindBuyer(t) \/ StoreOrder(t) \/ Refuse(t)
  BY <1>3 DEF FindBuyer, StoreOrder, Refuse
<1>4. CASE Stamp(t) \/ Verify(t) \/ Commits(t)
  BY <1>4 DEF Stamp, Verify, Commits
<1>. QED  BY <1>1, <1>2, <1>3, <1>4 DEF Serve, Sell

LEMMA CommandTypes ==
    ASSUME KeysAssumption, TypeOK, AddedInv, NEW a \in Admins, Begin(a) \/ Work(a) \/ Die(a)
    PROVE  TypeOK' /\ AddedInv'
<1>. USE DEF TypeOK, AddedInv, serverVars, processVars, caches, threadVars, tables,
             fileVars, dbVars
<1>0. /\ brokers \subseteq Nat /\ nextBroker \in Nat \ {0}
      /\ Visible(a) \subseteq 1 .. nextBroker - 1 /\ Visible(a) \subseteq Nat
  <2>1. nextBroker \in Nat \ {0} /\ 1 .. nextBroker - 1 \subseteq Nat
    OBVIOUS
  <2>2. Visible(a) \subseteq 1 .. nextBroker - 1
    BY DEF Visible
  <2>. QED  BY <2>1, <2>2
<1>1. CASE Begin(a)
  <2>1. \A o \in Options : Plan(o) \subseteq Steps
    BY DEF Plan, Steps
  <2>. QED  BY <1>1, <2>1 DEF Begin
<1>2. CASE Select(a)
  <2>1. tx' \in [Admins -> Tx]
    BY <1>0, <1>2, StatementTypes DEF Select
  <2>2. AddedInv'
    BY <1>2 DEF Select, Tx
  <2>. QED  BY <1>2, <2>1, <2>2 DEF Select, Proceed
<1>3. CASE Delete(a)
  <2>1. tx[a].selected \cap brokers \subseteq Nat
    BY <1>0
  <2>2. tx' \in [Admins -> Tx]
    BY <1>3, <2>1, StatementTypes DEF Delete
  <2>3. AddedInv'
    BY <1>3 DEF Delete, Tx
  <2>. QED  BY <1>3, <2>2, <2>3 DEF Delete, Proceed
<1>4. CASE Create(a)
  <2>1. CASE EndTx(a) /\ UNCHANGED <<nextBroker, overlapped>>
    BY <1>4, <2>1, NoTxType DEF Create, EndTx
  <2>2. CASE /\ tx' = [tx EXCEPT ![a].added = {nextBroker}] /\ Proceed(a, "create")
             /\ nextBroker' = nextBroker + 1 /\ overlapped' \in BOOLEAN
    <3>1. {nextBroker} \subseteq Nat
      BY <1>0
    <3>2. tx' \in [Admins -> Tx]
      BY <2>2, <3>1, StatementTypes
    <3>3. AddedInv'
      <4>1. 1 .. nextBroker - 1 \subseteq 1 .. nextBroker' - 1 /\ nextBroker \in 1 .. nextBroker' - 1
        BY <1>0, <2>2
      <4>2. \A d \in Admins : tx'[d].added = IF d = a THEN {nextBroker} ELSE tx[d].added
        BY <2>2, AddedField
      <4>. QED  BY <4>1, <4>2
    <3>4. brokers' \subseteq 1 .. nextBroker' - 1 /\ nextBroker' \in Nat \ {0}
      BY <1>0, <1>4, <2>2 DEF Create
    <3>. QED  BY <1>4, <2>2, <3>2, <3>3, <3>4 DEF Create, Proceed
  <2>. QED  BY <1>4, <2>1, <2>2 DEF Create
<1>5. CASE Count(a)
  BY <1>5, NoTxType DEF Count, EndTx, Proceed
<1>6. CASE OpenCrt(a)
  <2>1. CASE EndTx(a) /\ torn' = TRUE
    BY <1>6, <2>1, NoTxType DEF OpenCrt, EndTx
  <2>2. ASSUME NEW b \in Visible(a), tx' = [tx EXCEPT ![a].broker = b],
               torn' \in BOOLEAN, Proceed(a, "opencrt")
        PROVE  TypeOK' /\ AddedInv'
    <3>1. tx' \in [Admins -> Tx]
      BY <1>0, <2>2, StatementTypes
    <3>2. AddedInv'
      BY <1>6, <2>2 DEF OpenCrt, Tx
    <3>. QED  BY <1>6, <2>2, <3>1, <3>2 DEF OpenCrt, Proceed
  <2>3. First(Visible(a)) \subseteq Visible(a)
    BY DEF First
  <2>. QED  BY <1>6, <2>1, <2>2, <2>3 DEF OpenCrt
<1>7. CASE WriteCrt(a) \/ OpenKey(a) \/ WriteKey(a)
  <2>1. tx[a].broker \in Nat \cup {NONE}
    BY DEF Tx
  <2>2. /\ {crt', key'} \subseteq Nat \cup {NONE, EMPTY, MIXED}
        /\ plan' \in [Admins -> SUBSET Steps] /\ torn' = torn /\ tx' = tx
    BY <1>7, <2>1 DEF WriteCrt, OpenKey, WriteKey, Closed, Proceed
  <2>3. UNCHANGED <<brokers, nextBroker, overlapped, serverVars, ases>>
    BY <1>7 DEF WriteCrt, OpenKey, WriteKey
  <2>. QED  BY <2>2, <2>3
<1>8. CASE Commit(a)
  BY <1>0, <1>8, NoTxType DEF Commit, EndTx
<1>9. CASE Die(a)
  BY <1>0, <1>9, NoTxType DEF Die, EndTx, Exporting, At
<1>. QED  BY <1>1, <1>2, <1>3, <1>4, <1>5, <1>6, <1>7, <1>8, <1>9 DEF Work

\* Storing the order and stamping the contract change one field of the purchase.
LEMMA StoreOrderSale ==
    ASSUME TypeOK, ThreadInv, NEW t \in Threads, StoreOrder(t)
    PROVE  /\ sale' \in [Threads -> Sale \cup {NONE}] /\ sale'[t] \in Sale
           /\ sale'[t].buyer = sale[t].buyer /\ sale'[t].signer = sale[t].signer
           /\ sale'[t].replaced = (ases[sale[t].buyer] # sale[t].signer)
<1>0. sale \in [Threads -> Sale \cup {NONE}] /\ sale[t] \in Sale
  BY DEF TypeOK, StoreOrder, ThreadInv
<1>. DEFINE r == (ases[sale[t].buyer] # sale[t].signer)
            new == [sale[t] EXCEPT !.replaced = r]
<1>1. r \in BOOLEAN /\ sale' = [sale EXCEPT ![t].replaced = r]
  BY DEF StoreOrder
<1>. HIDE DEF r
<1>2. /\ new \in Sale /\ new.buyer = sale[t].buyer /\ new.signer = sale[t].signer
      /\ new.replaced = r
  BY <1>0, <1>1 DEF Sale
<1>3. sale' = [sale EXCEPT ![t] = new]
  BY <1>0, <1>1
<1>4. sale'[t] = new /\ sale' \in [Threads -> Sale \cup {NONE}]
  BY <1>0, <1>2, <1>3
<1>. QED  BY <1>2, <1>4 DEF r

LEMMA StampSale ==
    ASSUME KeysAssumption, TypeOK, ThreadInv, NEW t \in Threads, Stamp(t)
    PROVE  /\ sale' \in [Threads -> Sale \cup {NONE}] /\ sale'[t] \in Sale
           /\ sale'[t].buyer = sale[t].buyer /\ sale'[t].signer = sale[t].signer
           /\ sale'[t].replaced = sale[t].replaced /\ sale'[t].broker \in Nat
<1>0. sale \in [Threads -> Sale \cup {NONE}] /\ sale[t] \in Sale
  BY DEF TypeOK, Stamp, ThreadInv
<1>. DEFINE k == Cached(t)
            new == [sale[t] EXCEPT !.broker = k]
<1>1. k \in Nat
  BY DEF Stamp, ThreadInv, TypeOK, Cached, KeysAssumption
<1>2. sale' = [sale EXCEPT ![t].broker = k]
  BY DEF Stamp
<1>. HIDE DEF k
<1>3. /\ new \in Sale /\ new.buyer = sale[t].buyer /\ new.signer = sale[t].signer
      /\ new.replaced = sale[t].replaced /\ new.broker = k
  BY <1>0, <1>1 DEF Sale
<1>4. sale' = [sale EXCEPT ![t] = new]
  BY <1>0, <1>2
<1>5. sale'[t] = new /\ sale' \in [Threads -> Sale \cup {NONE}]
  BY <1>0, <1>3, <1>4
<1>. QED  BY <1>1, <1>3, <1>5

LEMMA ThreadTypes ==
    ASSUME KeysAssumption, TypeOK, ThreadInv, NEW t \in Threads, Serve(t)
    PROVE  TypeOK'
<1>0. UNCHANGED <<brokers, nextBroker, plan, tx, crt, key, torn, overlapped, runs, fresh, ases>>
  BY ThreadFrame DEF dbVars, adminVars, fileVars, processVars
<1>. DEFINE ServerTypes == /\ cachedKey' \in [Servers -> Nat \cup {NONE}]
                           /\ cachedCert' \in [Servers -> Nat \cup {NONE}]
                           /\ goal' \in [Threads -> {"none", "offer", "stamp", "verify", "renew"}]
                           /\ pc' \in [Threads -> {"idle", "order", "check", "query", "assign",
                                                   "return", "save"}]
                           /\ row' \in [Threads -> Nat \cup {NONE}]
                           /\ sale' \in [Threads -> Sale \cup {NONE}]
                           /\ offers' \subseteq Nat /\ contracts' \subseteq Contract
<1>1. ASSUME ServerTypes PROVE TypeOK'
  BY <1>0, <1>1 DEF TypeOK
<1>2. Cached(t) \in Nat \cup {NONE} /\ row[t] \in Nat \cup {NONE} /\ brokers \subseteq Nat
  BY DEF TypeOK, Cached, KeysAssumption
<1>. USE DEF TypeOK, Want, Goto, EndCall, caches, tables
<1>3. CASE Check(t) \/ AddOffer(t)
  <2>1. CASE Check(t)
    BY <1>1, <2>1 DEF Check
  <2>2. CASE AddOffer(t)
    BY <1>1, <2>2 DEF AddOffer
  <2>. QED  BY <1>3, <2>1, <2>2
<1>4. CASE Query(t)
  BY <1>1, <1>2, <1>4 DEF Query, Readable
<1>5. CASE Assign(t)
  BY <1>1, <1>2, <1>5 DEF Assign
<1>6. CASE ReturnKey(t)
  BY <1>1, <1>2, <1>6 DEF ReturnKey
<1>7. CASE SaveOffer(t)
  <2>1. row[t] \in Nat
    BY <1>2, <1>7 DEF SaveOffer, ThreadInv
  <2>. QED  BY <1>1, <1>7, <2>1 DEF SaveOffer
<1>8. CASE FindBuyer(t)
  <2>1. \A i \in IAs : ases[i] # NONE => Purchase(i) \in Sale
    BY DEF Purchase, Sale
  <2>. QED  BY <1>1, <1>8, <2>1 DEF FindBuyer
<1>9. CASE StoreOrder(t)
  <2>1. sale' \in [Threads -> Sale \cup {NONE}]
    BY <1>9, StoreOrderSale
  <2>. QED  BY <1>1, <1>9, <2>1 DEF StoreOrder
<1>10. CASE Refuse(t) \/ Verify(t)
  <2>1. EndCall(t) \/ (Want(t, "renew") /\ UNCHANGED <<row, sale>>)
    BY <1>10 DEF Refuse, Verify
  <2>2. UNCHANGED <<cachedKey, cachedCert, offers, contracts>>
    BY <1>10 DEF Refuse, Verify
  <2>. QED  BY <1>1, <2>1, <2>2
<1>11. CASE Stamp(t)
  <2>1. sale' \in [Threads -> Sale \cup {NONE}]
    BY <1>11, StampSale
  <2>. QED  BY <1>1, <1>11, <2>1 DEF Stamp
<1>12. CASE Commits(t)
  <2>1. row[t] \in Nat /\ sale[t] \in Sale /\ sale[t].broker # NONE
    BY <1>2, <1>12 DEF Commits, ThreadInv
  <2>2. Process(t) \in SignedBy
    BY DEF Process, SignedBy, KeysAssumption
  <2>3. [broker |-> sale[t].broker, by |-> Process(t), buyer |-> sale[t].buyer,
         signer |-> sale[t].signer, replaced |-> sale[t].replaced] \in Contract
    BY <2>1, <2>2 DEF Sale, Contract
  <2>. QED  BY <1>1, <1>12, <2>1, <2>3 DEF Commits
<1>. QED  BY <1>3, <1>4, <1>5, <1>6, <1>7, <1>8, <1>9, <1>10, <1>11, <1>12
          DEF Serve, Get, Sell

LEMMA ThreadInvKept ==
    ASSUME KeysAssumption, TypeOK, ThreadInv, NEW t \in Threads, Serve(t)
    PROVE  ThreadInv'
<1>. DEFINE Has(u) == /\ pc'[u] \in {"idle", "order"} => goal'[u] = "none"
                      /\ pc'[u] = "order" \/ goal'[u] \in {"stamp", "verify", "renew"}
                           => sale'[u] \in Sale
                      /\ goal'[u] \in {"verify", "renew"} => sale'[u].broker # NONE
                      /\ pc'[u] \in {"assign", "save"} => row'[u] # NONE
                      /\ pc'[u] = "return" => Cached(u)' # NONE
<1>. SUFFICES ASSUME NEW u \in Threads PROVE Has(u)
  BY DEF ThreadInv
<1>. USE DEF TypeOK, Want, Goto, EndCall, Cached
<1>0. /\ NONE \notin Nat /\ NONE \notin Sale /\ ServerOf[u] \in Servers /\ ServerOf[t] \in Servers
      /\ brokers \subseteq Nat
  BY DEF KeysAssumption
<1>1. \/ UNCHANGED caches
      \/ Assign(t)
  BY DEF Serve, Get, Sell, Check, Query, AddOffer, ReturnKey, SaveOffer, FindBuyer, StoreOrder,
         Refuse, Stamp, Verify, Commits
<1>2. CASE u # t
  <2>1. goal'[u] = goal[u] /\ pc'[u] = pc[u] /\ row'[u] = row[u] /\ sale'[u] = sale[u]
    BY <1>2, ThreadFrame
  <2>2. Cached(u) # NONE => Cached(u)' # NONE
    BY <1>0, <1>1, <2>1 DEF caches, Assign, ThreadInv
  <2>. QED  BY <2>1, <2>2 DEF ThreadInv
<1>3. CASE u = t
  <2>0. /\ goal[t] \in {"none", "offer", "stamp", "verify", "renew"}
        /\ sale[t] \in Sale \cup {NONE} /\ row[t] \in Nat \cup {NONE}
    OBVIOUS
  <2>1. CASE Check(t)
    BY <1>3, <2>1 DEF Check, ThreadInv, caches
  <2>2. CASE Query(t)
    BY <1>0, <1>3, <2>2 DEF Query, Readable, ThreadInv
  <2>3. CASE Assign(t)
    BY <1>0, <1>3, <2>3 DEF Assign, ThreadInv
  <2>4. CASE AddOffer(t) \/ SaveOffer(t) \/ Refuse(t) \/ Commits(t)
    BY <1>3, <2>4 DEF AddOffer, SaveOffer, Refuse, Commits
  <2>5. CASE ReturnKey(t)
    BY <1>3, <2>5 DEF ReturnKey, ThreadInv
  <2>6. CASE FindBuyer(t)
    <3>1. \A i \in IAs : ases[i] # NONE => Purchase(i) \in Sale
      BY DEF Purchase, Sale
    <3>2. sale'[t] \in Sale /\ goal'[t] = "none" /\ pc'[t] = "order"
      BY <2>6, <3>1 DEF FindBuyer, ThreadInv
    <3>. QED  BY <1>3, <3>2
  <2>7. CASE StoreOrder(t)
    <3>1. sale'[t] \in Sale
      BY <2>7, StoreOrderSale
    <3>. QED  BY <1>3, <2>7, <3>1 DEF StoreOrder
  <2>8. CASE Stamp(t)
    <3>1. sale'[t] \in Sale /\ sale'[t].broker # NONE
      BY <1>0, <2>8, StampSale
    <3>. QED  BY <1>3, <2>8, <3>1 DEF Stamp
  <2>9. CASE Verify(t)
    BY <1>3, <2>9 DEF Verify, ThreadInv
  <2>. QED  BY <2>1, <2>2, <2>3, <2>4, <2>5, <2>6, <2>7, <2>8, <2>9 DEF Serve, Get, Sell
<1>. QED  BY <1>2, <1>3

\* A process that starts again has idle threads and empty caches; the other
\* processes go on.
LEMMA RestartTypes ==
    ASSUME KeysAssumption, TypeOK, ThreadInv, NEW s \in Servers, Restart(s)
    PROVE  TypeOK' /\ ThreadInv'
<1>. USE DEF TypeOK, KeysAssumption
<1>1. /\ UNCHANGED <<brokers, nextBroker, plan, tx, crt, key, torn, overlapped>>
      /\ UNCHANGED <<offers, contracts, ases>>
  BY DEF Restart, dbVars, adminVars, fileVars, tables
<1>2. /\ runs' \in [Servers -> 0 .. MaxRestarts] /\ fresh' \in [Servers -> BOOLEAN]
      /\ cachedKey' \in [Servers -> Nat \cup {NONE}] /\ cachedCert' \in [Servers -> Nat \cup {NONE}]
  BY DEF Restart
<1>3. ASSUME NEW t \in Threads
      PROVE  \/ /\ ServerOf[t] # s /\ UNCHANGED <<goal[t], pc[t], row[t], sale[t]>>
                /\ UNCHANGED <<cachedKey[ServerOf[t]], cachedCert[ServerOf[t]]>>
             \/ goal'[t] = "none" /\ pc'[t] = "idle" /\ row'[t] = NONE /\ sale'[t] = NONE
  BY DEF Restart, ThreadsOf
<1>4. /\ goal' \in [Threads -> {"none", "offer", "stamp", "verify", "renew"}]
      /\ pc' \in [Threads -> {"idle", "order", "check", "query", "assign", "return", "save"}]
      /\ row' \in [Threads -> Nat \cup {NONE}] /\ sale' \in [Threads -> Sale \cup {NONE}]
  BY DEF Restart
<1>5. TypeOK'
  BY <1>1, <1>2, <1>4
<1>6. ThreadInv'
  BY <1>3 DEF ThreadInv, Cached
<1>. QED  BY <1>5, <1>6

Types == TypeOK /\ AddedInv /\ ThreadInv

LEMMA TypesInit == KeysAssumption /\ Init => Types
<1>. SUFFICES ASSUME KeysAssumption, Init PROVE TypeOK /\ AddedInv /\ ThreadInv
  BY DEF Types
<1>1. tx \in [Admins -> Tx] /\ AddedInv
  BY NoTxType DEF Init, AddedInv
<1>2. ThreadInv
  BY DEF Init, ThreadInv
<1>3. 0 \in 0 .. MaxRestarts
  BY DEF KeysAssumption
<1>4. runs \in [Servers -> 0 .. MaxRestarts]
  BY <1>3 DEF Init
<1>5. /\ brokers \subseteq 1 .. nextBroker - 1 /\ nextBroker \in Nat \ {0}
      /\ offers = {} /\ contracts = {}
  BY DEF Init
<1>6. /\ plan \in [Admins -> SUBSET Steps] /\ fresh \in [Servers -> BOOLEAN]
      /\ cachedKey \in [Servers -> Nat \cup {NONE}] /\ cachedCert \in [Servers -> Nat \cup {NONE}]
      /\ ases \in [IAs -> Certs \cup {NONE}]
  BY DEF Init
<1>7. /\ goal \in [Threads -> {"none", "offer", "stamp", "verify", "renew"}]
      /\ pc \in [Threads -> {"idle", "order", "check", "query", "assign", "return", "save"}]
      /\ row \in [Threads -> Nat \cup {NONE}] /\ sale \in [Threads -> Sale \cup {NONE}]
  BY DEF Init
<1>8. crt = NONE /\ key = NONE /\ torn = FALSE /\ overlapped = FALSE
  BY DEF Init
<1>. QED  BY <1>1, <1>2, <1>4, <1>5, <1>6, <1>7, <1>8 DEF TypeOK

LEMMA TypesKept == KeysAssumption /\ Types /\ [Next]_vars => Types'
<1>. SUFFICES ASSUME KeysAssumption, Types, [Next]_vars PROVE TypeOK' /\ AddedInv' /\ ThreadInv'
  BY DEF Types
<1>0. TypeOK /\ AddedInv /\ ThreadInv
  BY DEF Types
<1>1. ASSUME NEW a \in Admins, Begin(a) \/ Work(a) \/ Die(a)
      PROVE  TypeOK' /\ AddedInv' /\ ThreadInv'
  <2>1. UNCHANGED <<caches, threadVars>>
    BY <1>1, CommandFrame
  <2>2. ThreadInv'
    BY <1>0, <2>1 DEF ThreadInv, Cached, caches, threadVars
  <2>. QED  BY <1>0, <1>1, <2>2, CommandTypes
<1>2. ASSUME NEW t \in Threads, Serve(t) PROVE TypeOK' /\ AddedInv' /\ ThreadInv'
  <2>1. UNCHANGED <<dbVars, adminVars>>
    BY <1>0, <1>2, ThreadFrame
  <2>2. AddedInv'
    BY <1>0, <2>1 DEF AddedInv, dbVars, adminVars
  <2>. QED  BY <1>0, <1>2, <2>2, ThreadTypes, ThreadInvKept
<1>3. ASSUME NEW s \in Servers, Restart(s) PROVE TypeOK' /\ AddedInv' /\ ThreadInv'
  <2>1. AddedInv'
    BY <1>0, <1>3 DEF Restart, AddedInv, dbVars, adminVars
  <2>. QED  BY <1>0, <1>3, <2>1, RestartTypes
<1>4. ASSUME NEW i \in IAs, NEW c \in Certs, NEW force \in BOOLEAN, CreateClient(i, c, force)
      PROVE  TypeOK' /\ AddedInv' /\ ThreadInv'
  <2>. USE <1>4 DEF CreateClient, dbVars, adminVars, fileVars, serverVars, caches, processVars,
                    threadVars, tables
  <2>1. TypeOK'
    BY <1>0 DEF TypeOK
  <2>2. AddedInv' /\ ThreadInv'
    BY <1>0 DEF AddedInv, ThreadInv, Cached
  <2>. QED  BY <2>1, <2>2
<1>5. CASE UNCHANGED vars
  <2>. USE <1>5 DEF vars, dbVars, adminVars, fileVars, serverVars, caches, processVars,
                    threadVars, tables
  <2>1. TypeOK'
    BY <1>0 DEF TypeOK
  <2>2. AddedInv' /\ ThreadInv'
    BY <1>0 DEF AddedInv, ThreadInv, Cached
  <2>. QED  BY <2>1, <2>2
<1>. QED  BY <1>1, <1>2, <1>3, <1>4, <1>5 DEF Next

LEMMA TypesAlways == Spec => []Types
<1>. QED  BY TypesInit, TypesKept, KeysAssumption, PTL DEF Spec

\* Every variable keeps its type, and what a command has added is a broker that
\* was created.
THEOREM TypeCorrect == Spec => []TypeOK
<1>1. Types => TypeOK
  BY DEF Types
<1>. QED  BY <1>1, TypesAlways, PTL
-----------------------------------------------------------------------------
\* A settled process stays settled and keeps its key: nobody is about to assign
\* another one, and who looks into the cache now finds it.
LEMMA SettledKept ==
    ASSUME KeysAssumption, Types, [Next]_vars, NEW s \in Servers, Settled(s), runs'[s] = runs[s]
    PROVE  Settled(s)' /\ cachedKey'[s] = cachedKey[s]
<1>0. TypeOK
  BY DEF Types
<1>1. ASSUME UNCHANGED <<cachedKey, goal, pc>> PROVE Settled(s)' /\ cachedKey'[s] = cachedKey[s]
  BY <1>1 DEF Settled, ThreadsOf
<1>2. ASSUME NEW a \in Admins, Begin(a) \/ Work(a) \/ Die(a)
      PROVE  UNCHANGED <<cachedKey, goal, pc>>
  BY <1>2, CommandFrame DEF caches, threadVars
<1>3. ASSUME NEW i \in IAs, NEW c \in Certs, NEW force \in BOOLEAN, CreateClient(i, c, force)
      PROVE  UNCHANGED <<cachedKey, goal, pc>>
  BY <1>3 DEF CreateClient, serverVars, caches, threadVars
<1>4. ASSUME NEW t \in Threads, Serve(t) PROVE Settled(s)' /\ cachedKey'[s] = cachedKey[s]
  <2>. USE DEF TypeOK, Want, Goto, EndCall
  <2>1. cachedKey'[s] = cachedKey[s]
    <3>1. CASE Assign(t)
      BY <1>0, <3>1 DEF Assign, Settled, ThreadsOf
    <3>2. CASE ~Assign(t)
      BY <1>4, <3>2 DEF Serve, Get, Sell, Check, Query, AddOffer, ReturnKey, SaveOffer, FindBuyer,
                        StoreOrder, Refuse, Stamp, Verify, Commits, caches
    <3>. QED  BY <3>1, <3>2
  <2>2. ASSUME NEW u \in Threads, ServerOf[u] = s, pc'[u] \in {"query", "assign"}
        PROVE  goal'[u] = "verify"
    <3>0. goal'[u] = goal[u] /\ pc'[u] = pc[u] => goal'[u] = "verify"
      BY <2>2 DEF Settled, ThreadsOf
    <3>1. CASE u # t
      BY <1>0, <1>4, <3>0, <3>1, ThreadFrame
    <3>2. CASE u = t /\ Check(t)
      BY <1>0, <2>2, <3>2 DEF Check, Cached, Settled
    <3>3. CASE u = t /\ Query(t)
      BY <1>0, <2>2, <3>3 DEF Query, Settled, ThreadsOf
    <3>4. CASE u = t /\ ~Check(t) /\ ~Query(t)
      <4>1. pc'[t] \in {"idle", "order", "check", "return", "save"}
        BY <1>0, <1>4, <3>4
           DEF Serve, Get, Sell, Assign, AddOffer, ReturnKey, SaveOffer, FindBuyer,
               StoreOrder, Refuse, Stamp, Verify, Commits
      <4>. QED  BY <2>2, <3>4, <4>1
    <3>. QED  BY <3>1, <3>2, <3>3, <3>4
  <2>. QED  BY <2>1, <2>2 DEF Settled, ThreadsOf
<1>5. ASSUME NEW r \in Servers, Restart(r) PROVE Settled(s)' /\ cachedKey'[s] = cachedKey[s]
  <2>1. r # s
    BY <1>0, <1>5 DEF Restart, TypeOK, KeysAssumption
  <2>2. cachedKey'[s] = cachedKey[s]
    BY <1>0, <1>5, <2>1 DEF Restart, TypeOK
  <2>3. \A t \in Threads : ServerOf[t] = s => pc'[t] = pc[t] /\ goal'[t] = goal[t]
    BY <1>5, <2>1 DEF Restart, ThreadsOf
  <2>. QED  BY <2>2, <2>3 DEF Settled, ThreadsOf
<1>6. CASE UNCHANGED vars
  BY <1>1, <1>6 DEF vars, serverVars, caches, threadVars
<1>. QED  BY <1>1, <1>2, <1>3, <1>4, <1>5, <1>6 DEF Next

\* A key that is cached while no thread is on its way to cache another stays
\* until the process ends.
THEOREM KeysSettle == Spec => KeySettles
<1>1. KeysAssumption /\ Types /\ [Next]_vars =>
        [\A s \in Servers : Settled(s) /\ runs'[s] = runs[s] =>
            Settled(s)' /\ cachedKey'[s] = cachedKey[s]]_vars
  BY SettledKept
<1>. QED  BY <1>1, TypesAlways, KeysAssumption, PTL DEF Spec, KeySettles
-----------------------------------------------------------------------------
\* purchase_mutex: of the threads of a process one at most has a purchase.  So a
\* thread that has found no certificate in the cache is the only one to store it
\* there; and what was checked against it, the contracts of this run and the one
\* that is about to be stored, is by the broker whose certificate it is.
CertInv ==
  /\ \A t, u \in Threads : t # u /\ ServerOf[t] = ServerOf[u] => NONE \in {sale[t], sale[u]}
  /\ \A t \in Threads : /\ goal[t] = "verify" /\ pc[t] \in {"query", "assign"}
                             => cachedCert[ServerOf[t]] = NONE
                        /\ goal[t] = "renew" => sale[t].broker = cachedCert[ServerOf[t]]
  /\ \A c \in contracts : /\ c.by.run <= runs[c.by.server]
                          /\ c.by.run = runs[c.by.server] => c.broker = cachedCert[c.by.server]
  /\ ContractsOfOneBroker

\* The contracts and the caches of a step that stores no contract.
LEMMA CertInvUnchanged ==
    ASSUME CertInv, UNCHANGED <<cachedCert, runs, contracts>>,
           \A t \in Threads :
             \/ goal'[t] = goal[t] /\ pc'[t] = pc[t] /\ sale'[t] = sale[t]
             \/ sale'[t] = NONE /\ goal'[t] = "none"
    PROVE  CertInv'
<1>1. \A t, u \in Threads : t # u /\ ServerOf[t] = ServerOf[u] => NONE \in {sale'[t], sale'[u]}
  BY DEF CertInv
<1>2. \A t \in Threads : /\ goal'[t] = "verify" /\ pc'[t] \in {"query", "assign"}
                              => cachedCert'[ServerOf[t]] = NONE
                         /\ goal'[t] = "renew" => sale'[t].broker = cachedCert'[ServerOf[t]]
  BY DEF CertInv
<1>. QED  BY <1>1, <1>2 DEF CertInv, ContractsOfOneBroker

LEMMA CertInvKept ==
    ASSUME KeysAssumption, Types, CertInv, NEW t \in Threads, Serve(t)
    PROVE  CertInv'
<1>0. /\ TypeOK /\ ThreadInv /\ NONE \notin Nat /\ NONE \notin Sale
      /\ ServerOf \in [Threads -> Servers] /\ runs' = runs
  BY ThreadFrame DEF Types, KeysAssumption, processVars
<1>. DEFINE s == ServerOf[t]
<1>1. ASSUME NEW u \in Threads, u # t
      PROVE  goal'[u] = goal[u] /\ pc'[u] = pc[u] /\ row'[u] = row[u] /\ sale'[u] = sale[u]
  BY <1>0, <1>1, ThreadFrame
\* the mutex
<1>2. \A u, v \in Threads : u # v /\ ServerOf[u] = ServerOf[v] => NONE \in {sale'[u], sale'[v]}
  <2>1. CASE FindBuyer(t)
    <3>1. \A u \in Threads : u # t /\ ServerOf[u] = s => sale'[u] = NONE
      BY <1>1, <2>1 DEF FindBuyer, ThreadsOf
    <3>. QED  BY <1>1, <3>1 DEF CertInv
  <2>2. CASE ~FindBuyer(t)
    <3>1. sale'[t] = sale[t] \/ sale'[t] = NONE \/ sale[t] \in Sale
      <4>1. CASE StoreOrder(t) \/ Stamp(t)
        BY <1>0, <4>1 DEF StoreOrder, Stamp, ThreadInv
      <4>2. CASE ~StoreOrder(t) /\ ~Stamp(t)
        BY <1>0, <2>2, <4>2
           DEF Serve, Get, Sell, Check, Query, Assign, AddOffer, ReturnKey, SaveOffer, Refuse,
               Verify, Commits, EndCall, TypeOK
      <4>. QED  BY <4>1, <4>2
    <3>2. sale[t] # NONE \/ sale'[t] = NONE
      BY <1>0, <3>1
    <3>. QED  BY <1>1, <3>2 DEF CertInv
  <2>. QED  BY <2>1, <2>2
\* the cache: who stores a certificate is alone, and there was none
<1>3. CASE Assign(t) /\ goal[t] = "verify"
  <2>1. /\ cachedCert' = [cachedCert EXCEPT ![s] = row[t]] /\ UNCHANGED <<contracts, sale>>
        /\ pc'[t] = "return" /\ goal' = goal
    BY <1>0, <1>3 DEF Assign, Goto, TypeOK, tables
  <2>2. cachedCert[s] = NONE /\ sale[t] \in Sale
    BY <1>0, <1>3 DEF Assign, CertInv, ThreadInv
  <2>3. \A u \in Threads : u # t /\ ServerOf[u] = s => goal[u] \notin {"verify", "renew"}
    <3>1. \A u \in Threads : u # t /\ ServerOf[u] = s => sale[u] = NONE
      BY <1>0, <2>2 DEF CertInv
    <3>. QED  BY <1>0, <3>1 DEF ThreadInv
  <2>4. ASSUME NEW u \in Threads
        PROVE  /\ goal'[u] = "verify" /\ pc'[u] \in {"query", "assign"}
                      => cachedCert'[ServerOf[u]] = NONE
               /\ goal'[u] = "renew" => sale'[u].broker = cachedCert'[ServerOf[u]]
    <3>1. CASE ServerOf[u] # s
      <4>1. cachedCert'[ServerOf[u]] = cachedCert[ServerOf[u]]
        BY <1>0, <2>1, <3>1 DEF TypeOK
      <4>. QED  BY <1>1, <2>1, <3>1, <4>1 DEF CertInv
    <3>2. CASE ServerOf[u] = s
      BY <1>3, <2>1, <2>3, <3>2
    <3>. QED  BY <3>1, <3>2
  <2>5. ASSUME NEW c \in contracts
        PROVE  /\ c.by.run <= runs[c.by.server]
               /\ c.by.run = runs[c.by.server] => c.broker = cachedCert'[c.by.server]
    <3>1. c.broker \in Nat /\ c.by.server \in Servers
      BY <1>0 DEF TypeOK, Contract, SignedBy
    <3>2. c.by.server = s => c.by.run # runs[s]
      BY <1>0, <2>2, <3>1 DEF CertInv
    <3>3. c.by.server # s => cachedCert'[c.by.server] = cachedCert[c.by.server]
      BY <1>0, <2>1, <3>1 DEF TypeOK
    <3>. QED  BY <3>2, <3>3 DEF CertInv
  <2>. QED  BY <1>0, <1>2, <2>1, <2>4, <2>5 DEF CertInv, ContractsOfOneBroker
\* the contract: it is by the broker whose certificate checked it
<1>4. CASE Commits(t)
  <2>. DEFINE new == [broker |-> sale[t].broker, by |-> Process(t), buyer |-> sale[t].buyer,
                      signer |-> sale[t].signer, replaced |-> sale[t].replaced]
  <2>1. /\ contracts' = contracts \cup {new} /\ cachedCert' = cachedCert
        /\ goal'[t] = "none"
    BY <1>0, <1>4 DEF Commits, EndCall, caches, TypeOK
  <2>2. new.broker = cachedCert[s] /\ new.by.server = s /\ new.by.run = runs[s]
    BY <1>4 DEF Commits, CertInv, Process
  <2>. HIDE DEF new
  <2>3. runs[s] \in Nat
    BY <1>0 DEF TypeOK, KeysAssumption
  <2>4. ASSUME NEW c \in contracts'
        PROVE  /\ c.by.run <= runs[c.by.server]
               /\ c.by.run = runs[c.by.server] => c.broker = cachedCert[c.by.server]
    BY <2>1, <2>2, <2>3 DEF CertInv
  <2>5. ASSUME NEW c \in contracts', NEW d \in contracts', c.by = d.by PROVE c.broker = d.broker
    <3>1. CASE new \in {c, d}
      BY <2>2, <2>4, <2>5, <3>1
    <3>2. CASE new \notin {c, d}
      BY <2>1, <2>5, <3>2 DEF CertInv, ContractsOfOneBroker
    <3>. QED  BY <3>1, <3>2
  <2>6. \A u \in Threads : /\ goal'[u] = "verify" /\ pc'[u] \in {"query", "assign"}
                                => cachedCert'[ServerOf[u]] = NONE
                           /\ goal'[u] = "renew" => sale'[u].broker = cachedCert'[ServerOf[u]]
    BY <1>1, <2>1 DEF CertInv
  <2>. QED  BY <1>0, <1>2, <2>1, <2>4, <2>5, <2>6 DEF CertInv, ContractsOfOneBroker
<1>5. CASE ~Commits(t) /\ ~(Assign(t) /\ goal[t] = "verify")
  <2>1. UNCHANGED <<cachedCert, contracts>>
    BY <1>5 DEF Serve, Get, Sell, Check, Query, Assign, AddOffer, ReturnKey, SaveOffer, FindBuyer,
                StoreOrder, Refuse, Stamp, Verify, caches, tables
  <2>2. /\ goal'[t] = "verify" /\ pc'[t] \in {"query", "assign"} => cachedCert[s] = NONE
        /\ goal'[t] = "renew" => sale'[t].broker = cachedCert[s]
    <3>. USE <1>0 DEF TypeOK, Want, Goto, EndCall
    <3>1. CASE Check(t) \/ Query(t)
      BY <3>1 DEF Check, Query, Cached, CertInv
    <3>2. CASE Assign(t)
      BY <1>5, <3>2 DEF Assign, CertInv
    <3>3. CASE AddOffer(t) \/ SaveOffer(t) \/ FindBuyer(t) \/ Refuse(t)
      BY <3>3 DEF AddOffer, SaveOffer, FindBuyer, Refuse, ThreadInv
    <3>4. CASE ReturnKey(t)
      BY <3>4 DEF ReturnKey, CertInv
    <3>5. CASE StoreOrder(t) \/ Stamp(t)
      BY <3>5 DEF StoreOrder, Stamp
    <3>6. CASE Verify(t)
      BY <3>6 DEF Verify, Cached
    <3>. QED  BY <1>5, <3>1, <3>2, <3>3, <3>4, <3>5, <3>6 DEF Serve, Get, Sell
  <2>3. \A u \in Threads : /\ goal'[u] = "verify" /\ pc'[u] \in {"query", "assign"}
                                => cachedCert[ServerOf[u]] = NONE
                           /\ goal'[u] = "renew" => sale'[u].broker = cachedCert[ServerOf[u]]
    BY <1>1, <2>2 DEF CertInv
  <2>. QED  BY <1>0, <1>2, <2>1, <2>3 DEF CertInv, ContractsOfOneBroker
<1>. QED  BY <1>3, <1>4, <1>5

\* All contracts of one run of a process are signed by one broker, however many
\* threads fill its caches and whatever becomes of the broker meanwhile.
THEOREM RunsSellForOneBroker == Spec => []ContractsOfOneBroker
<1>1. Init => CertInv
  BY DEF Init, CertInv, ContractsOfOneBroker
<1>2. ASSUME KeysAssumption, Types, CertInv, [Next]_vars PROVE CertInv'
  <2>1. ASSUME UNCHANGED <<caches, runs, threadVars, tables>> PROVE CertInv'
    BY <1>2, <2>1, CertInvUnchanged DEF caches, threadVars, tables
  <2>2. ASSUME NEW a \in Admins, Begin(a) \/ Work(a) \/ Die(a) PROVE CertInv'
    BY <2>1, <2>2, CommandFrame
  <2>3. ASSUME NEW t \in Threads, Serve(t) PROVE CertInv'
    BY <1>2, <2>3, CertInvKept
  <2>4. ASSUME NEW s \in Servers, Restart(s) PROVE CertInv'
    <3>0. TypeOK /\ ServerOf \in [Threads -> Servers] /\ MaxRestarts \in Nat
      BY <1>2 DEF Types, KeysAssumption
    <3>1. ASSUME NEW t \in Threads
          PROVE  \/ /\ ServerOf[t] # s /\ UNCHANGED <<goal[t], pc[t], row[t], sale[t]>>
                    /\ cachedCert'[ServerOf[t]] = cachedCert[ServerOf[t]]
                 \/ goal'[t] = "none" /\ sale'[t] = NONE
      BY <2>4, <3>0 DEF Restart, ThreadsOf, TypeOK
    <3>2. ASSUME NEW c \in contracts
          PROVE  /\ c.by.run <= runs'[c.by.server]
                 /\ c.by.run = runs'[c.by.server] => c.broker = cachedCert'[c.by.server]
      <4>1. c.by.server \in Servers /\ c.by.run \in Nat /\ c.by.run <= runs[c.by.server]
        BY <1>2, <3>0 DEF TypeOK, Contract, SignedBy, CertInv
      <4>2. CASE c.by.server = s
        BY <2>4, <3>0, <4>1, <4>2 DEF Restart, TypeOK
      <4>3. CASE c.by.server # s
        BY <1>2, <2>4, <3>0, <4>1, <4>3 DEF Restart, TypeOK, CertInv
      <4>. QED  BY <4>2, <4>3
    <3>3. contracts' = contracts
      BY <2>4 DEF Restart, tables
    <3>4. \A t, u \in Threads : t # u /\ ServerOf[t] = ServerOf[u] => NONE \in {sale'[t], sale'[u]}
      BY <1>2, <3>1 DEF CertInv
    <3>5. \A t \in Threads : /\ goal'[t] = "verify" /\ pc'[t] \in {"query", "assign"}
                                  => cachedCert'[ServerOf[t]] = NONE
                             /\ goal'[t] = "renew" => sale'[t].broker = cachedCert'[ServerOf[t]]
      BY <1>2, <3>1 DEF CertInv
    <3>. QED  BY <1>2, <3>2, <3>3, <3>4, <3>5 DEF CertInv, ContractsOfOneBroker
  <2>5. ASSUME NEW i \in IAs, NEW c \in Certs, NEW force \in BOOLEAN, CreateClient(i, c, force)
        PROVE  CertInv'
    BY <2>1, <2>5 DEF CreateClient, serverVars, processVars
  <2>6. CASE UNCHANGED vars
    BY <2>1, <2>6 DEF vars, serverVars, processVars
  <2>. QED  BY <1>2, <2>2, <2>3, <2>4, <2>5, <2>6 DEF Next
<1>3. CertInv => ContractsOfOneBroker
  BY DEF CertInv
<1>. QED  BY <1>1, <1>2, <1>3, TypesAlways, KeysAssumption, PTL DEF Spec
-----------------------------------------------------------------------------
\* A process that is fresh has nothing but the broker's row, in its caches or just
\* read.
FreshInv ==
  /\ FreshCachesMatch
  /\ \A t \in Threads : fresh[ServerOf[t]] /\ pc[t] = "assign" => row[t] \in brokers

LEMMA FreshKept == KeysAssumption /\ Types /\ FreshInv /\ [Next]_vars => FreshInv'
<1>. SUFFICES ASSUME KeysAssumption, Types, FreshInv, [Next]_vars PROVE FreshInv'
  OBVIOUS
<1>0. TypeOK /\ ServerOf \in [Threads -> Servers]
  BY DEF Types, KeysAssumption
<1>1. ASSUME UNCHANGED <<brokers, caches, fresh, threadVars>> PROVE FreshInv'
  BY <1>1 DEF FreshInv, FreshCachesMatch, caches, threadVars
<1>2. ASSUME NEW a \in Admins, Begin(a) \/ Work(a) \/ Die(a) PROVE FreshInv'
  <2>1. CASE UNCHANGED <<brokers, fresh>>
    BY <1>1, <1>2, <2>1, CommandFrame
  <2>2. CASE fresh' = [s \in Servers |-> FALSE]
    BY <1>0, <2>2 DEF FreshInv, FreshCachesMatch
  <2>. QED  BY <1>2, <2>1, <2>2, CommandFrame
<1>3. ASSUME NEW t \in Threads, Serve(t) PROVE FreshInv'
  <2>0. /\ UNCHANGED <<brokers, fresh>>
        /\ \A u \in Threads : u # t => pc'[u] = pc[u] /\ row'[u] = row[u]
    BY <1>0, <1>3, ThreadFrame DEF dbVars, processVars
  <2>1. CASE Assign(t)
    <3>1. ASSUME NEW s \in Servers, fresh[s]
          PROVE  {cachedKey'[s], cachedCert'[s]} \ {NONE} \subseteq brokers
      BY <1>0, <2>1, <3>1 DEF Assign, FreshInv, FreshCachesMatch, TypeOK
    <3>2. pc'[t] = "return"
      BY <1>0, <2>1 DEF Assign, Goto, TypeOK
    <3>. QED  BY <2>0, <3>1, <3>2 DEF FreshInv, FreshCachesMatch
  <2>2. CASE ~Assign(t)
    <3>1. UNCHANGED caches
      BY <1>3, <2>2 DEF Serve, Get, Sell, Check, Query, AddOffer, ReturnKey, SaveOffer, FindBuyer,
                        StoreOrder, Refuse, Stamp, Verify, Commits
    <3>2. pc'[t] = "assign" => row'[t] \in brokers
      BY <1>0, <1>3, <2>2
         DEF Serve, Get, Sell, Check, Query, Readable, AddOffer, ReturnKey, SaveOffer, FindBuyer,
             StoreOrder, Refuse, Stamp, Verify, Commits, Goto, Want, EndCall, TypeOK
    <3>. QED  BY <2>0, <3>1, <3>2 DEF FreshInv, FreshCachesMatch, caches
  <2>. QED  BY <2>1, <2>2
<1>4. ASSUME NEW s \in Servers, Restart(s) PROVE FreshInv'
  <2>1. brokers' = brokers
    BY <1>4 DEF Restart, dbVars
  <2>2. ASSUME NEW r \in Servers
        PROVE  \/ cachedKey'[r] = NONE /\ cachedCert'[r] = NONE
               \/ /\ r # s /\ fresh'[r] = fresh[r]
                  /\ cachedKey'[r] = cachedKey[r] /\ cachedCert'[r] = cachedCert[r]
    <3>1. CASE r = s
      BY <1>0, <1>4, <3>1 DEF Restart, TypeOK
    <3>2. CASE r # s
      BY <1>0, <1>4, <3>2 DEF Restart, TypeOK
    <3>. QED  BY <3>1, <3>2
  <2>3. \A t \in Threads : \/ pc'[t] = "idle"
                           \/ ServerOf[t] # s /\ pc'[t] = pc[t] /\ row'[t] = row[t]
    BY <1>4 DEF Restart, ThreadsOf
  <2>4. FreshCachesMatch'
    BY <2>1, <2>2 DEF FreshInv, FreshCachesMatch
  <2>5. ASSUME NEW t \in Threads, fresh'[ServerOf[t]], pc'[t] = "assign"
        PROVE  row'[t] \in brokers'
    <3>1. ServerOf[t] \in Servers /\ ServerOf[t] # s /\ pc[t] = "assign" /\ row'[t] = row[t]
      BY <1>0, <2>3, <2>5
    <3>2. fresh[ServerOf[t]]
      BY <1>0, <1>4, <2>5, <3>1 DEF Restart, TypeOK
    <3>. QED  BY <2>1, <3>1, <3>2 DEF FreshInv
  <2>. QED  BY <2>4, <2>5 DEF FreshInv
<1>5. ASSUME NEW i \in IAs, NEW c \in Certs, NEW force \in BOOLEAN, CreateClient(i, c, force)
      PROVE  FreshInv'
  BY <1>1, <1>5 DEF CreateClient, serverVars, dbVars, processVars
<1>6. CASE UNCHANGED vars
  BY <1>1, <1>6 DEF vars, serverVars, dbVars, processVars
<1>. QED  BY <1>2, <1>3, <1>4, <1>5, <1>6 DEF Next

\* A server started after the last change of the broker uses nothing else.
THEOREM FreshServersMatch == Spec => []FreshCachesMatch
<1>1. Init => FreshInv
  BY DEF Init, FreshInv, FreshCachesMatch
<1>2. FreshInv => FreshCachesMatch
  BY DEF FreshInv
<1>. QED  BY <1>1, <1>2, FreshKept, TypesAlways, KeysAssumption, PTL DEF Spec

\* The order of a purchase refers to the row of its buyer, which nobody can replace
\* from then on.
OrderInv == \A t \in Threads : Ordered(t) =>
              ases[sale[t].buyer] = sale[t].signer \/ sale[t].replaced
BuyersInv == BuyersStayVerifiable /\ OrderInv

LEMMA BuyersInvKept == KeysAssumption /\ Types /\ BuyersInv /\ [Next]_vars => BuyersInv'
<1>. SUFFICES ASSUME KeysAssumption, Types, BuyersInv, [Next]_vars PROVE BuyersInv'
  OBVIOUS
<1>0. /\ TypeOK /\ ThreadInv /\ NONE \notin Certs /\ NONE \notin Sale
      /\ sale \in [Threads -> Sale \cup {NONE}] /\ ases \in [IAs -> Certs \cup {NONE}]
  BY DEF Types, TypeOK, KeysAssumption
<1>1. ASSUME UNCHANGED <<contracts, ases>>,
             \A t \in Threads : \/ UNCHANGED <<pc[t], sale[t]>>
                                \/ sale'[t] = NONE
                                \/ ~Ordered(t)'
                                \/ ases[sale'[t].buyer] = sale'[t].signer \/ sale'[t].replaced
      PROVE  BuyersInv'
  BY <1>1 DEF BuyersInv, BuyersStayVerifiable, OrderInv, Ordered
<1>2. ASSUME UNCHANGED <<pc, sale, contracts, ases>> PROVE BuyersInv'
  BY <1>1, <1>2
<1>3. ASSUME NEW a \in Admins, Begin(a) \/ Work(a) \/ Die(a) PROVE BuyersInv'
  BY <1>2, <1>3, CommandFrame DEF threadVars, tables
<1>4. ASSUME NEW i \in IAs, NEW c \in Certs, NEW force \in BOOLEAN, CreateClient(i, c, force)
      PROVE  BuyersInv'
  <2>1. /\ ases' = [ases EXCEPT ![i] = c] /\ UNCHANGED <<pc, sale, contracts>>
        /\ ases[i] = NONE \/ Replaceable(i)
    BY <1>4 DEF CreateClient, serverVars, threadVars, tables
  <2>2. ASSUME NEW d \in contracts, ~d.replaced PROVE ases'[d.buyer] = d.signer
    <3>1. d.buyer \in IAs /\ d.signer # NONE /\ ases[d.buyer] = d.signer
      BY <1>0, <2>2 DEF TypeOK, Contract, BuyersInv, BuyersStayVerifiable
    <3>. QED  BY <1>0, <2>1, <3>1 DEF Replaceable
  <2>3. ASSUME NEW t \in Threads, Ordered(t), ~sale[t].replaced
        PROVE  ases'[sale[t].buyer] = sale[t].signer
    <3>1. sale[t] \in Sale /\ ases[sale[t].buyer] = sale[t].signer
      BY <1>0, <2>3 DEF Ordered, BuyersInv, OrderInv
    <3>2. sale[t].buyer \in IAs /\ sale[t].signer # NONE
      BY <1>0, <3>1 DEF Sale
    <3>. QED  BY <1>0, <2>1, <2>3, <3>1, <3>2 DEF Replaceable
  <2>4. \A d \in contracts : ases'[d.buyer] = d.signer \/ d.replaced
    BY <2>2
  <2>5. \A t \in Threads : Ordered(t) => ases'[sale[t].buyer] = sale[t].signer \/ sale[t].replaced
    BY <2>3
  <2>. QED  BY <2>1, <2>4, <2>5 DEF BuyersInv, BuyersStayVerifiable, OrderInv, Ordered
<1>5. ASSUME NEW t \in Threads, Serve(t) PROVE BuyersInv'
  <2>0. /\ ases' = ases
        /\ \A u \in Threads : u # t => UNCHANGED <<pc[u], sale[u]>>
    BY <1>0, <1>5, ThreadFrame
  <2>1. CASE StoreOrder(t)
    <3>1. /\ ases[sale'[t].buyer] = sale'[t].signer \/ sale'[t].replaced
          /\ contracts' = contracts
      BY <1>0, <2>1, StoreOrderSale DEF StoreOrder, tables
    <3>. QED  BY <1>1, <2>0, <3>1
  <2>2. CASE Stamp(t)
    <3>1. /\ sale'[t].buyer = sale[t].buyer /\ sale'[t].signer = sale[t].signer
          /\ sale'[t].replaced = sale[t].replaced /\ contracts' = contracts
      BY <1>0, <2>2, StampSale DEF Stamp, tables
    <3>2. Ordered(t)
      BY <1>0, <2>2 DEF Stamp, Ordered, ThreadInv
    <3>. QED  BY <1>1, <2>0, <3>1, <3>2 DEF BuyersInv, OrderInv
  <2>3. CASE Commits(t)
    <3>. DEFINE new == [broker |-> sale[t].broker, by |-> Process(t), buyer |-> sale[t].buyer,
                        signer |-> sale[t].signer, replaced |-> sale[t].replaced]
    <3>1. contracts' = contracts \cup {new} /\ sale'[t] = NONE
      BY <1>0, <2>3 DEF Commits, EndCall
    <3>2. Ordered(t)
      BY <1>0, <2>3 DEF Commits, Ordered, ThreadInv
    <3>3. ases[new.buyer] = new.signer \/ new.replaced
      BY <3>2 DEF BuyersInv, OrderInv
    <3>. HIDE DEF new
    <3>4. \A u \in Threads : UNCHANGED <<pc[u], sale[u]>> \/ sale'[u] = NONE
      BY <2>0, <3>1
    <3>. QED  BY <2>0, <3>1, <3>3, <3>4 DEF BuyersInv, BuyersStayVerifiable, OrderInv, Ordered
  <2>4. CASE FindBuyer(t)
    <3>1. contracts' = contracts /\ ~Ordered(t)'
      BY <1>0, <2>4 DEF FindBuyer, tables, Ordered, TypeOK
    <3>. QED  BY <1>1, <2>0, <3>1
  <2>5. CASE Get(t) \/ AddOffer(t) \/ ReturnKey(t) \/ SaveOffer(t) \/ Refuse(t) \/ Verify(t)
    <3>1. /\ contracts' = contracts
          /\ sale'[t] = NONE \/ (sale'[t] = sale[t] /\ pc[t] # "order")
      BY <1>0, <2>5 DEF Get, Check, Query, Assign, AddOffer, ReturnKey, SaveOffer, Refuse, Verify,
                        EndCall, tables
    <3>. QED  BY <1>1, <2>0, <3>1 DEF BuyersInv, OrderInv, Ordered
  <2>. QED  BY <1>5, <2>1, <2>2, <2>3, <2>4, <2>5 DEF Serve, Sell
<1>6. ASSUME NEW s \in Servers, Restart(s) PROVE BuyersInv'
  <2>1. \A t \in Threads : sale'[t] = NONE \/ UNCHANGED <<pc[t], sale[t]>>
    BY <1>0, <1>6 DEF Restart, TypeOK
  <2>. QED  BY <1>1, <1>6, <2>1 DEF Restart, tables
<1>7. CASE UNCHANGED vars
  BY <1>2, <1>7 DEF vars, serverVars, threadVars, tables
<1>. QED  BY <1>3, <1>4, <1>5, <1>6, <1>7 DEF Next

\* The certificate of a buyer stays, except for a purchase that had read its row
\* before it was replaced.
THEOREM BuyersAlwaysVerifiable == Spec => []BuyersStayVerifiable
<1>1. Init => BuyersInv
  BY DEF Init, BuyersInv, BuyersStayVerifiable, OrderInv, Ordered
<1>2. BuyersInv => BuyersStayVerifiable
  BY DEF BuyersInv
<1>. QED  BY <1>1, <1>2, BuyersInvKept, TypesAlways, KeysAssumption, PTL DEF Spec
-----------------------------------------------------------------------------
\* What is left of a command says what it has done: who has added a broker
\* selects, deletes and creates no more; what is left of an export are its last
\* steps.
Early == {"select", "delete", "create"}
Chained(left) ==
  /\ "key" \in left /\ left \cap Early # {} => "count" \in left
  /\ "count" \in left => "opencrt" \in left
  /\ "opencrt" \in left => "crt" \in left
  /\ "crt" \in left => "openkey" \in left
  /\ "openkey" \in left => "key" \in left
PlanInv ==
  \A a \in Admins :
    /\ "commit" \in plan[a] \/ (plan[a] = {} /\ tx[a].added = {})
    /\ tx[a].added # {} => plan[a] \cap Early = {}
    /\ Chained(plan[a])

\* While no two commands create at once, the one that has added a broker has
\* deleted all that are committed.
TableInv ==
  ~overlapped =>
    /\ \A a, b \in Admins : tx[a].added # {} /\ tx[b].added # {} => a = b
    /\ \A a \in Admins : tx[a].added # {} => brokers \subseteq tx[a].deleted
    /\ \A a \in Admins : \A x, y \in tx[a].added : x = y
    /\ \A x, y \in brokers : x = y

\* While nothing has torn the files, one command at most has them open: it finds
\* each as empty as it has opened it, and has closed the first with the certificate
\* of the row whose key will go to the second.
FilesInv ==
  ~torn =>
    /\ \A a, b \in Admins : Exporting(a) /\ Exporting(b) => a = b
    /\ \A a \in Admins :
         /\ At(a, "crt") => crt = EMPTY /\ tx[a].broker \in Nat
         /\ At(a, "openkey") \/ At(a, "key") => crt = tx[a].broker /\ crt \in Nat
         /\ At(a, "key") => key = EMPTY
    /\ (crt = key /\ crt \in Nat \cup {NONE}) \/ \E a \in Admins : Exporting(a)

CommandInv == PlanInv /\ TableInv /\ FilesInv

\* Which of the steps of an export is the next one, by what is left.
Earliest(left, step) == step \in left /\ \A other \in left : Rank[step] <= Rank[other]

LEMMA Positions ==
    ASSUME NEW left \in SUBSET Steps, Chained(left)
    PROVE  /\ Earliest(left, "crt") <=> "crt" \in left /\ "opencrt" \notin left
           /\ Earliest(left, "openkey") <=> "openkey" \in left /\ "crt" \notin left
           /\ Earliest(left, "key") <=> "key" \in left /\ "openkey" \notin left
           /\ Earliest(left, "count") => "count" \in left
           /\ Earliest(left, "opencrt") => "opencrt" \in left /\ left \cap Early = {}
                                           /\ "count" \notin left
           /\ Earliest(left, "commit") => "key" \notin left
           /\ Earliest(left, "create") => left \cap {"select", "delete"} = {}
<1>. USE DEF Earliest, Rank, Early, Steps, Chained
<1>1. Earliest(left, "crt") <=> "crt" \in left /\ "opencrt" \notin left
  OBVIOUS
<1>2. Earliest(left, "openkey") <=> "openkey" \in left /\ "crt" \notin left
  OBVIOUS
<1>3. Earliest(left, "key") <=> "key" \in left /\ "openkey" \notin left
  OBVIOUS
<1>4. /\ Earliest(left, "opencrt") => "opencrt" \in left /\ left \cap Early = {}
                                      /\ "count" \notin left
      /\ Earliest(left, "count") => "count" \in left
  OBVIOUS
<1>5. /\ Earliest(left, "commit") => "key" \notin left
      /\ Earliest(left, "create") => left \cap {"select", "delete"} = {}
  OBVIOUS
<1>. QED  BY <1>1, <1>2, <1>3, <1>4, <1>5

\* No step of a command is a step of another's.
LEMMA OthersKept ==
    ASSUME Types, NEW a \in Admins, Begin(a) \/ Work(a) \/ Die(a), NEW b \in Admins, b # a
    PROVE  plan'[b] = plan[b] /\ tx'[b] = tx[b]
<1>1. plan \in [Admins -> SUBSET Steps] /\ tx \in [Admins -> Tx]
  BY DEF Types, TypeOK
<1>2. CASE Begin(a) \/ Select(a) \/ Delete(a) \/ Create(a) \/ Commit(a) \/ Die(a)
  BY <1>1, <1>2 DEF Begin, Select, Delete, Create, Commit, Die, EndTx, Proceed
<1>3. CASE Count(a) \/ OpenCrt(a) \/ WriteCrt(a) \/ OpenKey(a) \/ WriteKey(a)
  BY <1>1, <1>3 DEF Count, OpenCrt, WriteCrt, OpenKey, WriteKey, EndTx, Proceed
<1>. QED  BY <1>2, <1>3 DEF Work

\* What each step makes of the command's own plan and transaction: an end of the
\* transaction, or the plan without the step.
LEMMA OwnStep ==
    ASSUME Types, NEW a \in Admins
    PROVE  /\ EndTx(a) => plan'[a] = {} /\ tx'[a].added = {}
           /\ Begin(a) => plan[a] = {} /\ tx' = tx /\ \E o \in Options : plan'[a] = Plan(o)
           /\ \A step : Proceed(a, step) => plan'[a] = plan[a] \ {step}
           /\ Select(a) \/ Delete(a) => tx'[a].added = tx[a].added
           /\ OpenCrt(a) => \/ EndTx(a) /\ torn'
                            \/ /\ Proceed(a, "opencrt") /\ tx'[a].broker \in Nat
                               /\ tx'[a].added = tx[a].added /\ tx'[a].deleted = tx[a].deleted
                               /\ torn' = (\E b \in Admins \ {a} : Exporting(b))
<1>1. /\ plan \in [Admins -> SUBSET Steps] /\ tx \in [Admins -> Tx]
      /\ plan[a] \in SUBSET Steps /\ tx[a] \in Tx
  BY DEF Types, TypeOK
<1>2. \A step : Proceed(a, step) => plan'[a] = plan[a] \ {step}
  BY <1>1 DEF Proceed
<1>3. EndTx(a) => plan'[a] = {} /\ tx'[a].added = {}
  BY <1>1, NoTxType DEF EndTx
<1>4. Begin(a) => plan[a] = {} /\ tx' = tx /\ \E o \in Options : plan'[a] = Plan(o)
  BY <1>1 DEF Begin
<1>5. Select(a) => tx'[a].added = tx[a].added
  BY <1>1 DEF Select, Tx
<1>6. Delete(a) => tx'[a].added = tx[a].added
  BY <1>1 DEF Delete, Tx
<1>7. ASSUME OpenCrt(a)
      PROVE  \/ EndTx(a) /\ torn'
             \/ /\ Proceed(a, "opencrt") /\ tx'[a].broker \in Nat
                /\ tx'[a].added = tx[a].added /\ tx'[a].deleted = tx[a].deleted
                /\ torn' = (\E b \in Admins \ {a} : Exporting(b))
  <2>1. CASE Visible(a) = {}
    BY <1>7, <2>1 DEF OpenCrt
  <2>2. CASE Visible(a) # {}
    <3>1. PICK b \in First(Visible(a)) : tx' = [tx EXCEPT ![a].broker = b]
      BY <1>7, <2>2 DEF OpenCrt
    <3>2. Visible(a) \subseteq Nat
      <4>1. tx[a].added \subseteq Nat
        BY <1>1 DEF Tx
      <4>2. brokers \subseteq Nat
        BY DEF Types, TypeOK
      <4>. QED  BY <4>1, <4>2 DEF Visible
    <3>3. b \in Nat
      BY <3>1, <3>2 DEF First
    <3>4. /\ tx'[a].broker = b /\ tx'[a].added = tx[a].added
          /\ tx'[a].deleted = tx[a].deleted
      BY <1>1, <3>1 DEF Tx
    <3>. QED  BY <1>7, <2>2, <3>3, <3>4 DEF OpenCrt
  <2>. QED  BY <2>1, <2>2
<1>. QED  BY <1>2, <1>3, <1>4, <1>5, <1>6, <1>7

LEMMA PlanKept ==
    ASSUME KeysAssumption, Types, PlanInv, NEW a \in Admins, Begin(a) \/ Work(a) \/ Die(a)
    PROVE  PlanInv'
<1>. DEFINE Own(left, added) == /\ "commit" \in left \/ (left = {} /\ added = {})
                                /\ added # {} => left \cap Early = {}
                                /\ Chained(left)
<1>0. /\ plan[a] \in SUBSET Steps /\ Own(plan[a], tx[a].added)
      /\ \A step : At(a, step) <=> Earliest(plan[a], step)
  BY DEF Types, TypeOK, PlanInv, At, Earliest
<1>1. SUFFICES Own(plan'[a], tx'[a].added)
  BY <1>1, OthersKept DEF PlanInv
<1>2. CASE EndTx(a)
  BY <1>2, OwnStep DEF Chained
<1>3. CASE Begin(a)
  <2>1. \A o \in Options : Own(Plan(o), {})
    BY DEF Plan, Chained, Early
  <2>2. PICK o \in Options : plan'[a] = Plan(o)
    BY <1>3, OwnStep
  <2>3. tx'[a] = tx[a] /\ plan[a] = {}
    BY <1>3, OwnStep
  <2>4. tx[a].added = {}
    BY <1>0, <2>3
  <2>5. Own(Plan(o), {})
    BY <2>1
  <2>. QED  BY <2>2, <2>3, <2>4, <2>5
<1>4. CASE Select(a) \/ Delete(a)
  <2>1. /\ tx'[a].added = tx[a].added
        /\ plan'[a] = plan[a] \ {"select"} \/ plan'[a] = plan[a] \ {"delete"}
    BY <1>4, OwnStep DEF Select, Delete
  <2>2. "commit" \in plan[a] \/ (plan[a] = {} /\ tx[a].added = {})
    BY <1>0
  <2>3. "commit" \in plan'[a] \/ (plan'[a] = {} /\ tx'[a].added = {})
    BY <2>1, <2>2
  <2>4. tx'[a].added # {} => plan'[a] \cap Early = {}
    BY <1>0, <2>1 DEF Early
  <2>5. Chained(plan'[a])
    BY <1>0, <2>1 DEF Chained
  <2>. QED  BY <2>3, <2>4, <2>5
<1>5. CASE Create(a) /\ ~EndTx(a)
  <2>1. plan'[a] = plan[a] \ {"create"} /\ Earliest(plan[a], "create")
    BY <1>0, <1>5, OwnStep DEF Create
  <2>2. plan'[a] \cap Early = {}
    BY <1>0, <2>1, Positions DEF Early
  <2>3. "commit" \in plan[a]
    BY <1>0, <2>1 DEF Earliest
  <2>. QED  BY <1>0, <2>1, <2>2, <2>3 DEF Chained, Early
<1>6. CASE Count(a) /\ ~EndTx(a)
  <2>1. plan'[a] = plan[a] \ {"count"} /\ tx' = tx /\ Earliest(plan[a], "count")
    BY <1>0, <1>6, OwnStep DEF Count
  <2>2. plan[a] \cap Early = {}
    BY <2>1 DEF Earliest, Rank, Early
  <2>. QED  BY <1>0, <2>1, <2>2 DEF Chained
<1>7. CASE OpenCrt(a) /\ ~EndTx(a)
  <2>1. /\ plan'[a] = plan[a] \ {"opencrt"} /\ tx'[a].added = tx[a].added
        /\ Earliest(plan[a], "opencrt")
    BY <1>0, <1>7, OwnStep DEF OpenCrt
  <2>2. plan[a] \cap Early = {} /\ "count" \notin plan[a] /\ "opencrt" \in plan[a]
    BY <1>0, <2>1, Positions
  <2>. QED  BY <1>0, <2>1, <2>2 DEF Chained
<1>8. CASE WriteCrt(a) \/ OpenKey(a) \/ WriteKey(a)
  <2>1. PICK step \in {"crt", "openkey", "key"} :
          plan'[a] = plan[a] \ {step} /\ tx' = tx /\ Earliest(plan[a], step)
    BY <1>0, <1>8, OwnStep DEF WriteCrt, OpenKey, WriteKey
  <2>2. plan[a] \cap Early = {} /\ "count" \notin plan[a] /\ "opencrt" \notin plan[a]
    BY <2>1 DEF Earliest, Rank, Early
  <2>3. step = "openkey" => "crt" \notin plan[a]
    BY <1>0, <2>1, Positions
  <2>4. step = "key" => "crt" \notin plan[a] /\ "openkey" \notin plan[a]
    BY <1>0, <2>1, Positions DEF Chained
  <2>. QED  BY <1>0, <2>1, <2>2, <2>3, <2>4 DEF Chained
<1>9. Commit(a) \/ Die(a) => EndTx(a)
  BY DEF Commit, Die
<1>. QED  BY <1>2, <1>3, <1>4, <1>5, <1>6, <1>7, <1>8, <1>9 DEF Work

LEMMA TableKept ==
    ASSUME KeysAssumption, Types, PlanInv, TableInv, NEW a \in Admins,
           Begin(a) \/ Work(a) \/ Die(a)
    PROVE  TableInv'
<1>. SUFFICES ASSUME ~overlapped'
              PROVE  /\ \A c, d \in Admins : tx'[c].added # {} /\ tx'[d].added # {} => c = d
                     /\ \A c \in Admins : tx'[c].added # {} => brokers' \subseteq tx'[c].deleted
                     /\ \A c \in Admins : \A x, y \in tx'[c].added : x = y
                     /\ \A x, y \in brokers' : x = y
  BY DEF TableInv
<1>. USE DEF fileVars, dbVars
<1>0. \A b \in Admins : b # a => tx'[b] = tx[b]
  BY OthersKept
<1>1. CASE overlapped' = overlapped /\ brokers' = brokers /\ tx'[a].added = {}
  BY <1>0, <1>1 DEF TableInv
<1>2. CASE overlapped' = overlapped /\ brokers' = brokers /\ tx'[a].added = tx[a].added
           /\ tx'[a].deleted = tx[a].deleted
  BY <1>0, <1>2 DEF TableInv
<1>3. CASE Begin(a)
  <2>1. tx' = tx
    BY <1>3, OwnStep
  <2>. QED  BY <1>2, <1>3, <2>1 DEF Begin
<1>4. CASE Select(a) \/ Delete(a)
  <2>1. tx'[a].added = {}
    BY <1>4, OwnStep DEF PlanInv, Select, Delete, At, Early
  <2>. QED  BY <1>1, <1>4, <2>1 DEF Select, Delete
<1>5. CASE Create(a)
  <2>1. CASE Visible(a) # {}
    BY <1>1, <1>5, <2>1, OwnStep DEF Create
  <2>2. CASE Visible(a) = {}
    <3>1. /\ tx' = [tx EXCEPT ![a].added = {nextBroker}]
          /\ overlapped' = (overlapped \/ \E b \in Admins \ {a} : tx[b].added # {})
      BY <1>5, <2>2 DEF Create
    <3>2. ~overlapped /\ \A b \in Admins : b # a => tx'[b].added = {}
      BY <1>0, <3>1
    <3>3. tx[a] \in Tx /\ tx \in [Admins -> Tx]
      BY DEF Types, TypeOK
    <3>4. tx'[a].added = {nextBroker} /\ tx'[a].deleted = tx[a].deleted
      BY <3>1, <3>3 DEF Tx
    <3>5. brokers' = brokers /\ brokers \subseteq tx[a].deleted
      BY <1>5, <2>2 DEF Create, Visible
    <3>. QED  BY <1>0, <3>2, <3>4, <3>5 DEF TableInv
  <2>. QED  BY <2>1, <2>2
<1>6. CASE Count(a) \/ WriteCrt(a) \/ OpenKey(a) \/ WriteKey(a)
  <2>1. UNCHANGED <<brokers, overlapped>> /\ (tx' = tx \/ EndTx(a))
    BY <1>6 DEF Count, WriteCrt, OpenKey, WriteKey
  <2>. QED  BY <1>1, <1>2, <2>1, OwnStep
<1>7. CASE OpenCrt(a)
  <2>1. UNCHANGED <<brokers, overlapped>>
    BY <1>7 DEF OpenCrt
  <2>. QED  BY <1>1, <1>2, <1>7, <2>1, OwnStep
<1>8. CASE Commit(a)
  <2>1. /\ overlapped' = overlapped /\ tx'[a].added = {}
        /\ brokers' = (brokers \ tx[a].deleted) \cup tx[a].added
    BY <1>8, OwnStep DEF Commit, Visible
  <2>2. CASE tx[a].added = {}
    BY <1>0, <2>1, <2>2 DEF TableInv
  <2>3. CASE tx[a].added # {}
    <3>1. brokers' = tx[a].added /\ \A b \in Admins : b # a => tx'[b].added = {}
      BY <1>0, <2>1, <2>3 DEF TableInv
    <3>. QED  BY <2>1, <3>1 DEF TableInv
  <2>. QED  BY <2>2, <2>3
<1>9. CASE Die(a)
  <2>1. tx'[a].added = {}
    BY <1>9, OwnStep DEF Die
  <2>. QED  BY <1>1, <1>9, <2>1 DEF Die
<1>. QED  BY <1>3, <1>4, <1>5, <1>6, <1>7, <1>8, <1>9 DEF Work

LEMMA FilesKept ==
    ASSUME KeysAssumption, Types, PlanInv, FilesInv, NEW a \in Admins,
           Begin(a) \/ Work(a) \/ Die(a)
    PROVE  FilesInv'
<1>. DEFINE
       Now(b, step) == Earliest(plan[b], step)
       Then(b, step) == Earliest(plan'[b], step)
       Open(b) == Then(b, "crt") \/ Then(b, "openkey") \/ Then(b, "key")
<1>1. /\ \A b \in Admins, step \in Steps : /\ At(b, step) <=> Now(b, step)
                                           /\ At(b, step)' <=> Then(b, step)
      /\ \A b \in Admins : /\ Exporting(b) <=> Now(b, "crt") \/ Now(b, "openkey") \/ Now(b, "key")
                           /\ Exporting(b)' <=> Open(b)
  BY DEF At, Earliest, Exporting
<1>2. \A b \in Admins : /\ plan[b] \in SUBSET Steps /\ Chained(plan[b])
                        /\ plan'[b] \in SUBSET Steps /\ Chained(plan'[b])
  <2>1. Types' /\ PlanInv'
    BY PlanKept, TypesKept DEF Next
  <2>. QED  BY <2>1 DEF Types, TypeOK, PlanInv
<1>3. ASSUME NEW b \in Admins, b # a
      PROVE  tx'[b] = tx[b] /\ plan'[b] = plan[b] /\ (Open(b) <=> Exporting(b))
  BY <1>1, <1>3, OthersKept
<1>. SUFFICES ASSUME ~torn'
              PROVE  /\ \A b, c \in Admins : Open(b) /\ Open(c) => b = c
                     /\ \A b \in Admins :
                          /\ Then(b, "crt") => crt' = EMPTY /\ tx'[b].broker \in Nat
                          /\ Then(b, "openkey") \/ Then(b, "key") => crt' = tx'[b].broker /\ crt' \in Nat
                          /\ Then(b, "key") => key' = EMPTY
                     /\ (crt' = key' /\ crt' \in Nat \cup {NONE}) \/ \E b \in Admins : Open(b)
  BY <1>1 DEF FilesInv, Steps
<1>. HIDE DEF Then, Now
\* nothing happens to the files
<1>4. CASE UNCHANGED <<crt, key, torn>> /\ ~Exporting(a) /\ ~Open(a)
  BY <1>1, <1>3, <1>4 DEF FilesInv, Now, Then, At, Earliest
<1>5. CASE Die(a)
  <2>1. ~Exporting(a) /\ UNCHANGED <<crt, key, torn>>
    BY <1>5 DEF Die, Types, TypeOK
  <2>2. ~Open(a)
    BY <1>5, OwnStep DEF Die, Then, Earliest
  <2>. QED  BY <1>4, <2>1, <2>2
<1>6. CASE Begin(a)
  <2>1. plan[a] = {} /\ \E o \in Options : plan'[a] = Plan(o)
    BY <1>6, OwnStep
  <2>2. plan[a] = {} /\ ("key" \in plan'[a] => "opencrt" \in plan'[a])
    BY <2>1 DEF Plan
  <2>3. ~Exporting(a) /\ ~Open(a)
    BY <1>1, <1>2, <2>2, Positions DEF Now, Then, Chained
  <2>. QED  BY <1>4, <1>6, <2>3 DEF Begin, fileVars
<1>7. CASE \/ Select(a) \/ Delete(a) \/ Create(a) \/ Count(a) \/ Commit(a)
  <2>1. UNCHANGED <<crt, key, torn>>
    BY <1>7 DEF Select, Delete, Create, Count, Commit, fileVars
  <2>2. "key" \in plan[a] => "opencrt" \in plan[a]
    <3>1. Now(a, "select") \/ Now(a, "delete") \/ Now(a, "create") \/ Now(a, "count") \/ Now(a, "commit")
      BY <1>1, <1>7 DEF Select, Delete, Create, Count, Commit, Steps
    <3>. QED  BY <1>2, <3>1, Positions DEF Now, Earliest, Chained, Early
  <2>3. plan'[a] = {} \/ \E step \in Early \cup {"count"} : plan'[a] = plan[a] \ {step}
    BY <1>7, OwnStep DEF Select, Delete, Create, Count, Commit, Early
  <2>4. ~Exporting(a) /\ ~Open(a)
    BY <1>1, <1>2, <2>2, <2>3, Positions DEF Now, Then, Chained, Early
  <2>. QED  BY <1>4, <2>1, <2>4
\* the export
<1>8. CASE OpenCrt(a)
  <2>1. /\ plan'[a] = plan[a] \ {"opencrt"} /\ tx'[a].broker \in Nat /\ crt' = EMPTY
        /\ ~\E b \in Admins \ {a} : Exporting(b)
    BY <1>8, OwnStep DEF OpenCrt
  <2>2. "opencrt" \in plan[a]
    BY <1>8 DEF OpenCrt, At
  <2>3. "crt" \in plan'[a] /\ "openkey" \in plan'[a] /\ "opencrt" \notin plan'[a]
    BY <1>2, <2>1, <2>2 DEF Chained
  <2>4. Then(a, "crt") /\ ~Then(a, "openkey") /\ ~Then(a, "key")
    <3>1. /\ Then(a, "crt") <=> "crt" \in plan'[a] /\ "opencrt" \notin plan'[a]
          /\ Then(a, "openkey") <=> "openkey" \in plan'[a] /\ "crt" \notin plan'[a]
          /\ Then(a, "key") <=> "key" \in plan'[a] /\ "openkey" \notin plan'[a]
      BY <1>2, Positions DEF Then
    <3>. QED  BY <2>3, <3>1
  <2>. QED  BY <1>3, <2>1, <2>4 DEF Then
<1>9. CASE WriteCrt(a) \/ OpenKey(a) \/ WriteKey(a)
  <2>0. ~torn /\ tx' = tx
    BY <1>9 DEF WriteCrt, OpenKey, WriteKey
  <2>1. Exporting(a) /\ \A b \in Admins : b # a => ~Exporting(b) /\ ~Open(b)
    BY <1>3, <1>9, <2>0 DEF WriteCrt, OpenKey, WriteKey, Exporting, FilesInv
  <2>2. \A b \in Admins : b # a => ~Then(b, "crt") /\ ~Then(b, "openkey") /\ ~Then(b, "key")
    BY <2>1
  <2>3. CASE WriteCrt(a)
    <3>1. /\ plan'[a] = plan[a] \ {"crt"} /\ "crt" \in plan[a]
          /\ crt = EMPTY /\ tx[a].broker \in Nat /\ crt' = tx[a].broker
      BY <2>0, <2>3, OwnStep DEF WriteCrt, At, FilesInv, Closed
    <3>2. Then(a, "openkey") /\ ~Then(a, "crt") /\ ~Then(a, "key")
      BY <1>2, <3>1, Positions DEF Then, Chained
    <3>. QED  BY <2>0, <2>2, <3>1, <3>2
  <2>4. CASE OpenKey(a)
    <3>1. /\ plan'[a] = plan[a] \ {"openkey"} /\ "openkey" \in plan[a]
          /\ crt = tx[a].broker /\ crt \in Nat /\ crt' = crt /\ key' = EMPTY
      BY <2>0, <2>4, OwnStep DEF OpenKey, At, FilesInv
    <3>2. "crt" \notin plan[a]
      BY <1>1, <1>2, <2>4, Positions DEF OpenKey, Now, Steps
    <3>3. Then(a, "key") /\ ~Then(a, "crt") /\ ~Then(a, "openkey")
      BY <1>2, <3>1, <3>2, Positions DEF Then, Chained
    <3>. QED  BY <2>0, <2>2, <3>1, <3>3
  <2>5. CASE WriteKey(a)
    <3>1. /\ plan'[a] = plan[a] \ {"key"} /\ key = EMPTY /\ key' = tx[a].broker
          /\ crt = tx[a].broker /\ crt \in Nat /\ crt' = crt
      BY <2>0, <2>5, OwnStep DEF WriteKey, At, FilesInv, Closed
    <3>2. ~Then(a, "key") /\ ~Then(a, "crt") /\ ~Then(a, "openkey")
      BY <1>2, <3>1, Positions DEF Then, Chained
    <3>. QED  BY <2>2, <3>1, <3>2
  <2>. QED  BY <1>9, <2>3, <2>4, <2>5
<1>. QED  BY <1>5, <1>6, <1>7, <1>8, <1>9 DEF Work

LEMMA CommandInvKept == KeysAssumption /\ Types /\ CommandInv /\ [Next]_vars => CommandInv'
<1>. SUFFICES ASSUME KeysAssumption, Types, CommandInv, [Next]_vars PROVE CommandInv'
  OBVIOUS
<1>0. PlanInv /\ TableInv /\ FilesInv
  BY DEF CommandInv
<1>1. ASSUME NEW a \in Admins, Begin(a) \/ Work(a) \/ Die(a) PROVE CommandInv'
  BY <1>0, <1>1, PlanKept, TableKept, FilesKept DEF CommandInv
<1>2. ASSUME UNCHANGED <<dbVars, adminVars>> PROVE CommandInv'
  BY <1>0, <1>2 DEF CommandInv, PlanInv, TableInv, FilesInv, At, Exporting, dbVars, adminVars,
                    fileVars
<1>3. ASSUME NEW t \in Threads, Serve(t) PROVE CommandInv'
  BY <1>2, <1>3, ThreadFrame DEF Types
<1>4. ASSUME NEW s \in Servers, Restart(s) PROVE CommandInv'
  BY <1>2, <1>4 DEF Restart
<1>5. ASSUME NEW i \in IAs, NEW c \in Certs, NEW force \in BOOLEAN, CreateClient(i, c, force)
      PROVE  CommandInv'
  BY <1>2, <1>5 DEF CreateClient
<1>6. CASE UNCHANGED vars
  BY <1>2, <1>6 DEF vars
<1>. QED  BY <1>1, <1>3, <1>4, <1>5, <1>6 DEF Next

LEMMA CommandInvAlways == Spec => []CommandInv
<1>1. Init => CommandInv
  <2>. SUFFICES ASSUME Init PROVE CommandInv
    OBVIOUS
  <2>1. \A a \in Admins : plan[a] = {} /\ tx[a].added = {}
    BY NoTxType DEF Init
  <2>2. brokers = {} /\ crt = NONE /\ key = NONE
    BY DEF Init
  <2>3. PlanInv /\ TableInv
    BY <2>1, <2>2 DEF PlanInv, TableInv, Chained
  <2>4. FilesInv
    BY <2>1, <2>2 DEF FilesInv, Exporting, At
  <2>. QED  BY <2>3, <2>4 DEF CommandInv
<1>. QED  BY <1>1, CommandInvKept, TypesAlways, KeysAssumption, PTL DEF Spec

\* The table holds one broker at most, unless two commands created one at once.
THEOREM OneBrokerOnly == Spec => []OneBroker
<1>1. CommandInv => OneBroker
  <2>. SUFFICES ASSUME CommandInv, ~overlapped PROVE Cardinality(brokers) <= 1
    BY DEF OneBroker
  <2>1. \A x, y \in brokers : x = y
    BY DEF CommandInv, TableInv
  <2>2. CASE brokers = {}
    BY <2>2, FS_EmptySet
  <2>3. ASSUME NEW b \in brokers PROVE Cardinality(brokers) <= 1
    <3>1. brokers = {b}
      BY <2>1
    <3>. QED  BY <3>1, FS_Singleton
  <2>. QED  BY <2>2, <2>3
<1>. QED  BY <1>1, CommandInvAlways, PTL

\* While no command has the two exported files open they are of one broker, unless
\* the last export was killed or failed between the first opening and the last
\* closing, or another had them open at the same time.
THEOREM FilesAlwaysBelongTogether == Spec => []FilesBelongTogether
<1>1. CommandInv => FilesBelongTogether
  BY DEF CommandInv, FilesInv, FilesBelongTogether
<1>. QED  BY <1>1, CommandInvAlways, PTL
=============================================================================
