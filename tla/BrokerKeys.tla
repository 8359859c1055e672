----------------------------- MODULE BrokerKeys -----------------------------
(***************************************************************************)
(* The broker's key and certificate: the commands that replace them        *)
(* (management/commands/broker.py), the servers that cache them per        *)
(* process (models/broker.py) and sign with them (models/offer.py,         *)
(* models/contract.py), and the certificates of the ASes that those        *)
(* signatures are given to (management/commands/create-client.py,          *)
(* models/ases.py).  The key and certificate of one Broker row are named   *)
(* by one number.  Transactions read committed rows and write behind row   *)
(* locks; the signal that clears the cache runs in the process of the      *)
(* command, which has no use for it.  The threads of a server share its    *)
(* caches; purchases exclude each other, AddOffer excludes nothing.        *)
(***************************************************************************)
EXTENDS Naturals, FiniteSets

CONSTANTS
  Admins,       \* processes that run the command broker
  Options,      \* sets of its options that are given together
  Servers,      \* processes that serve the market
  Threads,      \* their worker threads
  ServerOf,     \* the process of each thread
  IAs, Certs,   \* ASes, and the certificates [cn, serial] for create-client
  NONE,
  EMPTY, MIXED, \* contents of a file: truncated, and of two writers
  MaxBrokers,   \* bound: brokers ever created
  MaxRestarts,  \* bound: restarts of each server
  MaxContracts  \* bound: different contracts when a purchase begins

(* A purchase, from its begin: the buyer, its certificate, whether that was *)
(* replaced before the order was stored, and the broker that signed.       *)
Sale == [buyer : IAs, signer : Certs, replaced : BOOLEAN, broker : Nat \cup {NONE}]

ASSUME KeysAssumption ==
  /\ Options \subseteq SUBSET {"remove", "create", "export"}
  /\ ServerOf \in [Threads -> Servers]
  /\ \A c \in Certs : c.serial \in Nat
  /\ NONE \notin Nat \cup Certs \cup Sale
  /\ {EMPTY, MIXED} \cap Nat = {}
  /\ MaxBrokers \in Nat /\ MaxRestarts \in Nat /\ MaxContracts \in Nat

VARIABLES
  brokers,     \* committed rows of the table Broker
  nextBroker,
  plan,        \* what is left to do of each admin's command
  tx,          \* its transaction: rows it selected, deleted, added, exports
  crt, key,    \* the contents of the files broker.crt and broker.key
  torn,        \* history: the last export was cut short or met another
  overlapped,  \* history: two commands created a broker at the same time
  cachedKey, cachedCert,  \* the caches of each server process
  runs,        \* how often each server has been started again
  fresh,       \* history: no broker was replaced since the server started
  goal,        \* what each thread wants a key or the certificate for
  pc,          \* where it is in get_broker_key or get_broker_certificate
  row,         \* the row it has read there, or the key it has got
  sale,        \* its purchase, from reading the buyer's row
  offers,      \* the brokers that have signed an offer
  contracts,   \* contracts: broker and process, the buyer and its certificate
  ases         \* the certificates of the table AS

dbVars == <<brokers, nextBroker>>
fileVars == <<crt, key, torn>>
adminVars == <<plan, tx, fileVars, overlapped>>
caches == <<cachedKey, cachedCert>>
processVars == <<runs, fresh>>
threadVars == <<goal, pc, row, sale>>
tables == <<offers, contracts>>
serverVars == <<caches, processVars, threadVars, tables>>
vars == <<dbVars, adminVars, serverVars, ases>>
-----------------------------------------------------------------------------
NoTx == [selected |-> {}, deleted |-> {}, added |-> {}, broker |-> NONE]

Init ==
  /\ brokers = {} /\ nextBroker = 1
  /\ plan = [a \in Admins |-> {}] /\ tx = [a \in Admins |-> NoTx]
  /\ crt = NONE /\ key = NONE /\ torn = FALSE /\ overlapped = FALSE
  /\ cachedKey = [s \in Servers |-> NONE] /\ cachedCert = [s \in Servers |-> NONE]
  /\ runs = [s \in Servers |-> 0] /\ fresh = [s \in Servers |-> TRUE]
  /\ goal = [t \in Threads |-> "none"] /\ pc = [t \in Threads |-> "idle"]
  /\ row = [t \in Threads |-> NONE] /\ sale = [t \in Threads |-> NONE]
  /\ offers = {} /\ contracts = {}
  /\ ases = [i \in IAs |-> NONE]
-----------------------------------------------------------------------------
(* The command broker: its statements in their order, and those that are   *)
(* run for the options o.                                                  *)
Rank == [select |-> 1, delete |-> 2, create |-> 3, count |-> 4,
         opencrt |-> 5, crt |-> 6, openkey |-> 7, key |-> 8, commit |-> 9]
Steps == {"select", "delete", "create", "count", "opencrt", "crt", "openkey", "key", "commit"}

Plan(o) == {"commit"} \cup (IF "remove" \in o THEN {"select", "delete"} ELSE {})
                      \cup (IF "create" \in o THEN {"create"} ELSE {})
                      \cup (IF "export" \in o THEN {"count", "opencrt", "crt", "openkey", "key"} ELSE {})

At(a, step) == step \in plan[a] /\ \A other \in plan[a] : Rank[step] <= Rank[other]
Proceed(a, step) == plan' = [plan EXCEPT ![a] = @ \ {step}]
EndTx(a) == plan' = [plan EXCEPT ![a] = {}] /\ tx' = [tx EXCEPT ![a] = NoTx]

(* The rows that the transaction of a sees.                                *)
Visible(a) == (brokers \ tx[a].deleted) \cup tx[a].added

Begin(a) ==
  /\ plan[a] = {}
  /\ \E o \in Options :
       /\ "create" \in o => nextBroker <= MaxBrokers
       /\ plan' = [plan EXCEPT ![a] = Plan(o)]
  /\ UNCHANGED <<dbVars, tx, fileVars, overlapped, serverVars, ases>>

(* QuerySet.delete selects the rows, for the signals, and deletes them by  *)
(* their keys, waiting for those that another transaction has deleted.     *)
Select(a) ==
  /\ At(a, "select")
  /\ tx' = [tx EXCEPT ![a].selected = Visible(a)]
  /\ Proceed(a, "select")
  /\ UNCHANGED <<dbVars, fileVars, overlapped, serverVars, ases>>

Delete(a) ==
  /\ At(a, "delete")
  /\ \A b \in Admins \ {a} : tx[b].deleted \cap tx[a].selected = {}
  /\ tx' = [tx EXCEPT ![a].deleted = tx[a].selected \cap brokers, ![a].selected = {}]
  /\ Proceed(a, "delete")
  /\ UNCHANGED <<dbVars, fileVars, overlapped, serverVars, ases>>

(* The mutant does not count.                                              *)
CreateAnyway(a) ==
  /\ At(a, "create")
  /\ tx' = [tx EXCEPT ![a].added = {nextBroker}] /\ Proceed(a, "create")
  /\ nextBroker' = nextBroker + 1
  /\ overlapped' = (overlapped \/ \E b \in Admins \ {a} : tx[b].added # {})
  /\ UNCHANGED <<brokers, fileVars, serverVars, ases>>

(* Broker.objects.count() sees nothing of what others have not committed.  *)
Create(a) ==
  /\ At(a, "create")
  /\ IF Visible(a) # {}
     THEN EndTx(a) /\ UNCHANGED <<nextBroker, overlapped>>
     ELSE /\ tx' = [tx EXCEPT ![a].added = {nextBroker}] /\ Proceed(a, "create")
          /\ nextBroker' = nextBroker + 1
          /\ overlapped' = (overlapped \/ \E b \in Admins \ {a} : tx[b].added # {})
  /\ UNCHANGED <<brokers, fileVars, serverVars, ases>>

(* The two files, written before the transaction commits.  open truncates, *)
(* the text reaches the file when it is closed.  What else is written to   *)
(* the file in between, by a process that has it open, may remain in part. *)
Count(a) ==
  /\ At(a, "count")
  /\ IF Cardinality(Visible(a)) = 1 THEN Proceed(a, "count") /\ UNCHANGED tx ELSE EndTx(a)
  /\ UNCHANGED <<dbVars, fileVars, overlapped, serverVars, ases>>

(* broker.crt is open, broker.key not closed yet.                          *)
Exporting(a) == At(a, "crt") \/ At(a, "openkey") \/ At(a, "key")

(* The row with the lowest key, if there is one.                           *)
First(rows) == {b \in rows : \A c \in rows : b <= c}

(* first() asks again; it may find nothing any more, which is noticed only *)
(* when the file is open.                                                  *)
OpenCrt(a) ==
  /\ At(a, "opencrt")
  /\ crt' = EMPTY
  /\ IF Visible(a) = {}
     THEN EndTx(a) /\ torn' = TRUE
     ELSE /\ \E b \in First(Visible(a)) : tx' = [tx EXCEPT ![a].broker = b]
          /\ torn' = (\E b \in Admins \ {a} : Exporting(b))
          /\ Proceed(a, "opencrt")
  /\ UNCHANGED <<dbVars, key, overlapped, serverVars, ases>>

Closed(file, b) == IF file \in {EMPTY, b} THEN {b} ELSE {b, MIXED}

WriteCrt(a) ==
  /\ At(a, "crt")
  /\ crt' \in Closed(crt, tx[a].broker)
  /\ Proceed(a, "crt")
  /\ UNCHANGED <<dbVars, tx, key, torn, overlapped, serverVars, ases>>

OpenKey(a) ==
  /\ At(a, "openkey")
  /\ key' = EMPTY
  /\ Proceed(a, "openkey")
  /\ UNCHANGED <<dbVars, tx, crt, torn, overlapped, serverVars, ases>>

(* The mutant asks the table again for the row, outside of the transaction.*)
WriteKeyOfCommitted(a) ==
  /\ At(a, "key")
  /\ key' \in First(brokers)
  /\ Proceed(a, "key")
  /\ UNCHANGED <<dbVars, tx, crt, torn, overlapped, serverVars, ases>>

WriteKey(a) ==
  /\ At(a, "key")
  /\ key' \in Closed(key, tx[a].broker)
  /\ Proceed(a, "key")
  /\ UNCHANGED <<dbVars, tx, crt, torn, overlapped, serverVars, ases>>

(* The mutant leaves the transaction open.                                 *)
CommitKeepsLocks(a) ==
  /\ At(a, "commit")
  /\ brokers' = Visible(a)
  /\ fresh' = IF brokers' = brokers THEN fresh ELSE [s \in Servers |-> FALSE]
  /\ Proceed(a, "commit")
  /\ UNCHANGED <<nextBroker, tx, fileVars, overlapped, caches, runs, threadVars, tables, ases>>

Commit(a) ==
  /\ At(a, "commit")
  /\ brokers' = Visible(a)
  /\ fresh' = IF brokers' = brokers THEN fresh ELSE [s \in Servers |-> FALSE]
  /\ EndTx(a)
  /\ UNCHANGED <<nextBroker, fileVars, overlapped, caches, runs, threadVars, tables, ases>>

(* The process of the command is killed: its transaction is rolled back,   *)
(* what it wrote to the files stays.                                       *)
Die(a) ==
  /\ plan[a] # {}
  /\ torn' = (torn \/ Exporting(a))
  /\ EndTx(a)
  /\ UNCHANGED <<dbVars, crt, key, overlapped, serverVars, ases>>
-----------------------------------------------------------------------------
(* The caches.  A thread looks for what its goal needs, asks the database  *)
(* if it is not there, keeps what it read and takes what is there then:    *)
(* steps that the threads of a process interleave.                         *)
ThreadsOf(s) == {t \in Threads : ServerOf[t] = s}

Cached(t) == IF goal[t] = "verify" THEN cachedCert[ServerOf[t]] ELSE cachedKey[ServerOf[t]]

Want(t, g) == goal' = [goal EXCEPT ![t] = g] /\ pc' = [pc EXCEPT ![t] = "check"]
Goto(t, l) == pc' = [pc EXCEPT ![t] = l] /\ UNCHANGED goal

(* The call is over; its transaction is committed or rolled back.          *)
EndCall(t) ==
  /\ goal' = [goal EXCEPT ![t] = "none"] /\ pc' = [pc EXCEPT ![t] = "idle"]
  /\ row' = [row EXCEPT ![t] = NONE] /\ sale' = [sale EXCEPT ![t] = NONE]

(* The mutant never uses the cache.                                        *)
CheckUncached(t) ==
  /\ pc[t] = "check"
  /\ Goto(t, "query")
  /\ UNCHANGED <<dbVars, adminVars, caches, processVars, row, sale, tables, ases>>

Check(t) ==
  /\ pc[t] = "check"
  /\ Goto(t, IF Cached(t) = NONE THEN "query" ELSE "return")
  /\ UNCHANGED <<dbVars, adminVars, caches, processVars, row, sale, tables, ases>>

(* get, which fails unless there is exactly one row; the mutant is a       *)
(* database that reads uncommitted rows.                                   *)
ReadableDirty == brokers \cup UNION {tx[a].added : a \in Admins}
Readable == brokers

Query(t) ==
  /\ pc[t] = "query"
  /\ IF Cardinality(Readable) = 1
     THEN /\ \E b \in Readable : row' = [row EXCEPT ![t] = b]
          /\ Goto(t, "assign") /\ UNCHANGED sale
     ELSE EndCall(t)
  /\ UNCHANGED <<dbVars, adminVars, caches, processVars, tables, ases>>

Assign(t) ==
  /\ pc[t] = "assign"
  /\ IF goal[t] = "verify"
     THEN cachedCert' = [cachedCert EXCEPT ![ServerOf[t]] = row[t]] /\ UNCHANGED cachedKey
     ELSE cachedKey' = [cachedKey EXCEPT ![ServerOf[t]] = row[t]] /\ UNCHANGED cachedCert
  /\ row' = [row EXCEPT ![t] = NONE]
  /\ Goto(t, "return")
  /\ UNCHANGED <<dbVars, adminVars, processVars, sale, tables, ases>>
-----------------------------------------------------------------------------
(* AddOffer, which signs the broker's copy.                                *)
AddOffer(t) ==
  /\ pc[t] = "idle"
  /\ Want(t, "offer")
  /\ UNCHANGED <<dbVars, adminVars, caches, processVars, row, sale, tables, ases>>

(* sign_with_broker has the key, and signs with it.                        *)
ReturnKey(t) ==
  /\ pc[t] = "return" /\ goal[t] \in {"offer", "renew"}
  /\ row' = [row EXCEPT ![t] = Cached(t)]
  /\ Goto(t, "save")
  /\ UNCHANGED <<dbVars, adminVars, caches, processVars, sale, tables, ases>>

SaveOffer(t) ==
  /\ pc[t] = "save" /\ goal[t] = "offer"
  /\ offers' = offers \cup {row[t]}
  /\ EndCall(t)
  /\ UNCHANGED <<dbVars, adminVars, caches, processVars, contracts, ases>>
-----------------------------------------------------------------------------
(* A purchase holds purchase_mutex from its begin to its end.              *)
Process(t) == [server |-> ServerOf[t], run |-> runs[ServerOf[t]]]

Purchase(i) == [buyer |-> i, signer |-> ases[i], replaced |-> FALSE, broker |-> NONE]

(* The mutants take orders of buyers they do not know, and leave out the   *)
(* mutex.                                                                  *)
FindAnyone(t) ==
  /\ pc[t] = "idle" /\ \A u \in ThreadsOf(ServerOf[t]) : sale[u] = NONE
  /\ offers # {} /\ Cardinality(contracts) < MaxContracts
  /\ \E i \in IAs : sale' = [sale EXCEPT ![t] = Purchase(i)]
  /\ pc' = [pc EXCEPT ![t] = "order"]
  /\ UNCHANGED <<dbVars, adminVars, caches, processVars, goal, row, tables, ases>>

FindBuyerUnlocked(t) ==
  /\ pc[t] = "idle"
  /\ offers # {} /\ Cardinality(contracts) < MaxContracts
  /\ \E i \in IAs : ases[i] # NONE /\ sale' = [sale EXCEPT ![t] = Purchase(i)]
  /\ pc' = [pc EXCEPT ![t] = "order"]
  /\ UNCHANGED <<dbVars, adminVars, caches, processVars, goal, row, tables, ases>>

(* purchase_offer: the row of the buyer, which is kept for the signature.  *)
FindBuyer(t) ==
  /\ pc[t] = "idle" /\ \A u \in ThreadsOf(ServerOf[t]) : sale[u] = NONE
  /\ offers # {} /\ Cardinality(contracts) < MaxContracts
  /\ \E i \in IAs : ases[i] # NONE /\ sale' = [sale EXCEPT ![t] = Purchase(i)]
  /\ pc' = [pc EXCEPT ![t] = "order"]
  /\ UNCHANGED <<dbVars, adminVars, caches, processVars, goal, row, tables, ases>>

(* The order is in the open transaction, and refers to some row of its     *)
(* buyer; the key is wanted for contract.stamp_signature.                  *)
StoreOrder(t) ==
  /\ pc[t] = "order"
  /\ LET old == sale[t].signer
     IN  sale' = [sale EXCEPT ![t].replaced = (ases[sale[t].buyer] # old)]
  /\ Want(t, "stamp")
  /\ UNCHANGED <<dbVars, adminVars, caches, processVars, row, tables, ases>>

(* The demand does not fit; or, with the order stored, the signature is    *)
(* not the buyer's or there is no port.                                    *)
Refuse(t) ==
  /\ pc[t] = "order" \/ (pc[t] = "check" /\ goal[t] = "stamp")
  /\ EndCall(t)
  /\ UNCHANGED <<dbVars, adminVars, caches, processVars, tables, ases>>

Stamp(t) ==
  /\ pc[t] = "return" /\ goal[t] = "stamp"
  /\ sale' = [sale EXCEPT ![t].broker = Cached(t)]
  /\ Want(t, "verify")
  /\ UNCHANGED <<dbVars, adminVars, caches, processVars, row, tables, ases>>

(* contract.validate_signature                                             *)
Verify(t) ==
  /\ pc[t] = "return" /\ goal[t] = "verify"
  /\ IF Cached(t) = sale[t].broker THEN Want(t, "renew") /\ UNCHANGED <<row, sale>>
                                   ELSE EndCall(t)
  /\ UNCHANGED <<dbVars, adminVars, caches, processVars, tables, ases>>

(* The contract and the new offer, signed with the key of row[t].          *)
Commits(t) ==
  /\ pc[t] = "save" /\ goal[t] = "renew"
  /\ offers' = offers \cup {row[t]}
  /\ contracts' = contracts \cup
       {[broker |-> sale[t].broker, by |-> Process(t), buyer |-> sale[t].buyer,
         signer |-> sale[t].signer, replaced |-> sale[t].replaced]}
  /\ EndCall(t)
  /\ UNCHANGED <<dbVars, adminVars, caches, processVars, ases>>

(* A process starts again: its threads, transactions and caches are gone.  *)
Restart(s) ==
  /\ runs[s] < MaxRestarts
  /\ runs' = [runs EXCEPT ![s] = @ + 1]
  /\ fresh' = [fresh EXCEPT ![s] = TRUE]
  /\ cachedKey' = [cachedKey EXCEPT ![s] = NONE]
  /\ cachedCert' = [cachedCert EXCEPT ![s] = NONE]
  /\ goal' = [t \in Threads |-> IF t \in ThreadsOf(s) THEN "none" ELSE goal[t]]
  /\ pc' = [t \in Threads |-> IF t \in ThreadsOf(s) THEN "idle" ELSE pc[t]]
  /\ row' = [t \in Threads |-> IF t \in ThreadsOf(s) THEN NONE ELSE row[t]]
  /\ sale' = [t \in Threads |-> IF t \in ThreadsOf(s) THEN NONE ELSE sale[t]]
  /\ UNCHANGED <<dbVars, adminVars, tables, ases>>
-----------------------------------------------------------------------------
(* create-client.  on_delete=PROTECT: the AS of an order, committed or     *)
(* not, cannot be deleted.  The mutant lets the deletion go through.       *)
Ordered(t) == sale[t] # NONE /\ pc[t] # "order"

ReplaceableAlways(i) == TRUE
Replaceable(i) == /\ \A c \in contracts : c.buyer # i
                  /\ \A t \in Threads : Ordered(t) => sale[t].buyer # i

(* ASManager.create: the common name of the certificate is the AS.         *)
NameMatches(i, c) == c.cn = i

(* --force deletes the AS before the certificate is looked at, in one      *)
(* transaction with the creation, so that a wrong common name undoes it.   *)
CreateClient(i, c, force) ==
  /\ ases[i] = NONE \/ (force /\ Replaceable(i))
  /\ NameMatches(i, c)
  /\ ases' = [ases EXCEPT ![i] = c]
  /\ UNCHANGED <<dbVars, adminVars, serverVars>>
-----------------------------------------------------------------------------
Work(a) == \/ Select(a) \/ Delete(a) \/ Create(a) \/ Commit(a)
           \/ Count(a) \/ OpenCrt(a) \/ WriteCrt(a) \/ OpenKey(a) \/ WriteKey(a)

Get(t) == Check(t) \/ Query(t) \/ Assign(t)
Sell(t) == FindBuyer(t) \/ StoreOrder(t) \/ Refuse(t) \/ Stamp(t) \/ Verify(t) \/ Commits(t)
Serve(t) == Get(t) \/ AddOffer(t) \/ ReturnKey(t) \/ SaveOffer(t) \/ Sell(t)

Next ==
  \/ \E a \in Admins : Begin(a) \/ Work(a) \/ Die(a)
  \/ \E t \in Threads : Serve(t)
  \/ \E s \in Servers : Restart(s)
  \/ \E i \in IAs, c \in Certs, force \in BOOLEAN : CreateClient(i, c, force)

Spec == Init /\ [][Next]_vars

(* Commands run; the database gives a row's lock to who waits for it.      *)
FairSpec == Spec /\ \A a \in Admins : WF_vars(Work(a)) /\ SF_vars(Delete(a))
-----------------------------------------------------------------------------
SignedBy == [server : Servers, run : 0 .. MaxRestarts]
Tx == [selected : SUBSET Nat, deleted : SUBSET Nat, added : SUBSET Nat,
       broker : Nat \cup {NONE}]
Contract == [broker : Nat, by : SignedBy, buyer : IAs, signer : Certs, replaced : BOOLEAN]

TypeOK ==
  /\ nextBroker \in Nat \ {0} /\ brokers \subseteq 1 .. nextBroker - 1
  /\ plan \in [Admins -> SUBSET Steps]
  /\ tx \in [Admins -> Tx]
  /\ {crt, key} \subseteq Nat \cup {NONE, EMPTY, MIXED}
  /\ torn \in BOOLEAN /\ overlapped \in BOOLEAN
  /\ cachedKey \in [Servers -> Nat \cup {NONE}]
  /\ cachedCert \in [Servers -> Nat \cup {NONE}]
  /\ runs \in [Servers -> 0 .. MaxRestarts] /\ fresh \in [Servers -> BOOLEAN]
  /\ goal \in [Threads -> {"none", "offer", "stamp", "verify", "renew"}]
  /\ pc \in [Threads -> {"idle", "order", "check", "query", "assign", "return", "save"}]
  /\ row \in [Threads -> Nat \cup {NONE}]
  /\ sale \in [Threads -> Sale \cup {NONE}]
  /\ offers \subseteq Nat
  /\ contracts \subseteq Contract
  /\ ases \in [IAs -> Certs \cup {NONE}]

(* broker.py:22, "only one broker allowed": the count before a creation    *)
(* keeps the table at one row, unless two commands create at once.         *)
OneBroker == Cardinality(brokers) <= 1 \/ overlapped

(* An export that runs to its end and meets no other leaves two files of   *)
(* one broker, whatever earlier ones left behind, what else runs meanwhile *)
(* and what is rolled back.  `torn' are the exports that were killed or    *)
(* failed between the opening of broker.crt and the closing of broker.key, *)
(* or had the files open at the same time as another.                      *)
FilesBelongTogether ==
  \/ torn
  \/ crt = key /\ crt \in Nat \cup {NONE}
  \/ \E a \in Admins : Exporting(a)

(* Two threads that both found the cache empty may sign with two keys, if  *)
(* the broker is replaced meanwhile; and a process may hold the key of one *)
(* broker and the certificate of another.  Yet all contracts that one run  *)
(* of a process makes are signed by one broker: purchases exclude each     *)
(* other, so its certificate is loaded once, and every contract is checked *)
(* against it before it is stored.                                         *)
ContractsOfOneBroker ==
  \A c, d \in contracts : c.by = d.by => c.broker = d.broker

(* Once its key is cached and no thread is on its way to cache another, a  *)
(* process keeps it until it ends, whatever becomes of the broker.         *)
Settled(s) ==
  /\ cachedKey[s] # NONE
  /\ \A t \in ThreadsOf(s) : pc[t] \in {"query", "assign"} => goal[t] = "verify"

KeySettles ==
  [][\A s \in Servers : Settled(s) /\ runs'[s] = runs[s] =>
        Settled(s)' /\ cachedKey'[s] = cachedKey[s]]_vars

(* A process started after the last change of the broker holds nothing but *)
(* that broker's key and certificate.                                      *)
FreshCachesMatch ==
  \A s \in Servers : fresh[s] => {cachedKey[s], cachedCert[s]} \ {NONE} \subseteq brokers

(* purchase_order.py, PROTECT: the certificate that an order was verified  *)
(* with stays in the table, so that the order can be verified again; but   *)
(* not if the AS was replaced before the order of a purchase that had      *)
(* already read its row was stored.                                        *)
BuyersStayVerifiable ==
  \A c \in contracts : ases[c.buyer] = c.signer \/ c.replaced

(* No two commands wait for each other's rows.                             *)
CommandsEnd == \A a \in Admins : plan[a] # {} ~> plan[a] = {}
=============================================================================
