# ESDX at IXPs: a verification development

The repository implements a spot market for bandwidth at an internet exchange
point. A seller (an AS) publishes offers of bandwidth; the IXP's server, the
broker, countersigns them, sells parts of them to buyers and signs contracts.
Contracts are then loaded into the SCION topology of the two ASes, and a packet
monitor counts the traffic. This directory holds TLA+ modules of that system, the
TLC configurations that check them and proofs for TLAPS.

## Inventory

| component | source | state | operations |
|---|---|---|---|
| market purchases and offers | `market/services.py`, `market/purchases.py`, `market/models/{offer,purchase_order,contract}.py` | tables Offer, PurchaseOrder, Contract; `purchase_mutex` of each process; one transaction per handler | ListOffers, AddOffer, Purchase, PurchaseEquivalent, GetContract |
| Offer.purchase | `market/models/offer.py` | none | takes a demand out of a profile, or refuses it |
| serializers and byte formats | `market/serializers.py`, `util/serialize.py`, `util/conversion.py` | none | messages, signed bytes, addresses |
| broker key and certificate | `market/models/broker.py`, command `broker` | table Broker; key and certificate cached in each process | get key, get certificate, remove, create, export |
| AS registry | `market/models/ases.py`, command `create-client` | table AS | create, replace |
| topology reloader | `reloader/topology.py` | topology file, lock file | constructor, activate, deactivate |
| monitor, kernel | `monitor/bpf/monitor.c` | per-CPU LRU map of counters, ring buffer of new hops | one run per packet on each CPU |
| monitor, user | `monitor/monitor.go` | map of hops and last values, channel | poll the ring buffer, poll the counters |
| clients | `go-client/main.go`, `util/experiments.py`, `integration_test.py`, `experiments/` | the offers last listed | list, choose, buy, retry |
| primitives, scaffolding, generated code, fixtures | `util/crypto.py`, `market/settings.py`, `market_pb2*.py`, ... | | |

**How they interact.** Clients call the handlers over gRPC; the handlers run in
the worker threads of one or several Django processes, over one database. A
handler signs with the broker's key and checks signatures against the
certificates of the registry. A buyer orders an offer it listed earlier. Seller and
buyer fetch a contract and pass it to the reloader, which gives the link an
interface of the topology. The monitor is separate: kernel and user side share the
two BPF maps.

**What is hard.**

* *Stale offers.* Offers are never edited: a sale replaces an offer by a new row.
  What a buyer holds may have been sold in part since; Purchase then refuses and
  PurchaseEquivalent walks to the row that is left.
* *Concurrency.* Purchases are serialised by a mutex, but only within a process.
  Between processes there are the transactions and the unique index on
  `PurchaseOrder.offer`.
* *Partial failure.* An order is inserted before its signature is checked and
  before a port is found for it.
* *Crashes* between the writes, the commit and the answer.
* *Signatures* over an offer other than the one in the message.
* *Files* (reloader). A lock file keeps writers apart, but not the constructor, which
  only reads; a crash leaves it behind. The topology file is truncated before it is
  written.
* *Caches per process.* A server reads the broker's key and certificate when it first
  needs each, without a lock: several threads may fill the cache, with different brokers if
  a command replaces the broker meanwhile.
* *Exported files* (broker). Two files, each truncated and then written, before the
  transaction commits.
* *Read, then write.* `purchase_offer` reads the buyer's row before it stores the order
  that protects it; the broker command counts before it creates.
* *Clients* repeat refused or unanswered orders, some for ever, on lists that are stale
  when they choose from them.
* *Per-CPU counters.* Lookup, insertion and report are separate steps, the map evicts at
  will, the ring may be full, and poller and reader share hops through a channel.

PROJECT.json lists each under "hazards", at its line.

**What makes each component correct.**

* Market: one available row per submission; no offer sold twice; a contract and its
  replacement together; bandwidth conserved; ports distinct; contracts that hold
  what the buyer signed; a mutex that is always given back.
* Offer.purchase: the remainder if and only if the offer contains the demand.
* Broker: at most one row; the contracts of a process are of one broker, and its key
  settles; exported files belong together.
* AS registry: the certificate an order was verified with stays.
* Reloader: one process at a time; concurrent calls as one after the other; ids and
  public addresses distinct, ports within the configured range; calls return; the
  file is lost at most by a crash while it is written.
* Monitor: what is logged are the provider's hops; no packet counts twice; what is
  counted is read in the end.
* Clients: a buyer gets what it wants while there is bandwidth, unless others are faster,
  and pays once.

## Modules

| module | models |
|---|---|
| `BwProfile` | profiles and demands, and the function `Offer.purchase` should compute |
| `OfferPurchase` | the loop of `Offer.purchase`, statement by statement |
| `SpotMarket` | abstract: goods with a profile; a sale takes a demand out of one, atomically |
| `Market` | the server: handlers, threads, processes, transactions, crashes |
| `LinkStore` | abstract: a set of links with distinct ids and addresses, changed one link at a time |
| `Topology` | the reloader: processes, lock file, topology file, crashes |
| `BrokerKeys` | the broker command, server processes with their caches, the AS registry |
| `MarketClients` | the Python and Go buyers, the provider and Runner, around a market whose handlers are one step |
| `Monitor` | the XDP program on several CPUs, the BPF maps, the two goroutines |
| `MCMarket`, `MCOfferPurchase`, `MCTopology`, `MCBrokerKeys`, `MCMarketClients`, `MCMonitor` | instances for TLC |
| `FiniteSums` | what the sums of module `Functions` compute, and the inductions this rests on |
| `MarketProofs`, `SaleProofs`, `OfferPurchaseProofs`, `TopologyProofs`, `BrokerKeysProofs`, `MarketClientsProofs`, `MonitorProofs` | theorems |

`Market` and `MarketClients` see the server from its two sides. `Market` shows that
overlapping handlers behave like sales one after the other (`ImplementsSpotMarket`), so
`MarketClients` may take a handler as one step and spend its states on the clients; that
its market is no other is its own `ImplementsSpotMarket`. There a good has one period, and
a sale takes one unit of it.

### Market: state and actions

* `offers` and `contracts` are the committed rows. An order and its contract are
  created together and their columns are kept in one record. A row has a `root`, the
  id of the seller's row of its chain; no code reads it, it is a history value for
  the properties. The columns that no step looks at (paths, price, MTU, ...)
  are left out; `span` is `notafter - notbefore`.
* `tx[t]` are the rows of thread t's open transaction. Nobody else sees them,
  except that the index on `PurchaseOrder.offer` makes a second insert for the same
  offer wait (`Locked`). The database runs with Django's default isolation for
  MySQL, READ COMMITTED: each query sees what is committed when it runs. `nextId`
  is the AUTO_INCREMENT, which a rollback does not give back (an id is taken by
  the last write of the transaction here, so failures waste none).
* `pc[t]`, `req[t]`, `asked[t]`, `cur[t]`, `outcome[t]` are the local state of the
  thread's handler: `requested_offer` is `asked`, `available_offer` is `cur`.
* A signature is a record of who signed and what is covered. The broker's
  signatures are salted, as RSA-PSS is: two signatures over equal offers differ,
  so a request for a row is not a request for an equal one.

| code | actions |
|---|---|
| AddOffer | `AddOffer`, `RefuseOffer`, then `Commit`, `Answer` |
| `_purchase`, entry and mutex | `Begin`, `Acquire` |
| `get_available` | `FetchAvailable`, `FetchNothing` |
| `get_derived`: get, each query of the walk, is_sold | `FetchExact`, `FetchNothing`, `Walk`, `WalkEnds`, `CheckUnsold`, `CheckSold` |
| `purchase_offer` | `RefusePurchase` (checks before the insert), `DuplicateOrder` (the index refuses), `RejectOrder` (a check after the insert, rolled back), `WriteSale` |
| commit of the transaction; release of the mutex and answer | `Commit`, `Answer` |
| death of a process | `Crash` |

A step is what lies between two points where other threads can interfere: a
query that depends on other transactions, the insert into the index, the commit, the
mutex. The other writes of `purchase_offer` go into the thread's transaction
and touch nobody, so they are one step with the insert.

### Topology: state and actions

* `topofile` is what a reader of the file finds: the interfaces in the order of the
  file, or `EMPTY` from the `open(..., "w")` until the buffer is flushed at the close.
  An interface has its id, public address, remote address, far AS and whether it is at
  the ESDX border router, which is taken to be the last one of the file (the code
  appends it when it adds it). MTU, link type, names and internal addresses are left
  out, except that a process in `Clashing` was given the internal address of another
  border router. `lockfile` says whether the lock file exists.
* `pc[p]`, `op[p]`, `attempt[p]`, `topo[p]`, `outcome[p]` are the call of process p. A
  crashed process leaves `alive` for good; its successor is another process.

| code | actions |
|---|---|
| `__init__`: read the file, check the internal address | `Construct`, `ConstructFails` |
| `activate`, `deactivate` | `Call`; `_lock`: `Lock`, `LockBusy`; load and change in memory: `Read`, `ReadFails`; truncate: `Open`; flush and close: `Write`; the `finally` of `_lock`: `Unlock` |
| `_find_lowest_free_value` | `LowestFree`, a closed form, which the calls use; `LoopOverSorted`, its loop, proved equal to it. With the sort before it `MCTopology` compares them over all lists of up to four values |
| `_add_cotract_to_topo`, `_remove_interface` | `Added`, `Removed`, and when they raise: `Addable`, `Removable` |
| death of a process; an administrator removes a stale lock file when no live process is inside | `Crash`, `CleanUp` |

`Store` maps this to `LinkStore`: the links are those in the file, and while a process
writes, those it is about to write, since from its `open` on nobody can read the old
ones. The store is lost when the file is empty and nobody writes it.

### BrokerKeys: state and actions

* `brokers` are the committed rows of the table; a row's key and certificate go by its
  number. `plan[a]` is the set of statements that administrator a's command has still to
  run, in the order `Rank`; `tx[a]` its open transaction, which others do not see, but
  whose deleted rows they wait for. `crt` and `key` are the contents of the exported
  files: the number of a row, `EMPTY` from the `open(..., "w")` to the close, or `MIXED`, when
  two processes have written to the file.
* `cachedKey[s]`, `cachedCert[s]` are the caches of a server process, which its threads
  share. `goal[t]` is what thread t needs a key or the certificate for, `pc[t]` where it is
  in `get_broker_key` or `get_broker_certificate`, `row[t]` what it has read there or the key
  it was given. `sale[t]` is its purchase: the buyer and certificate it read, and the broker
  that has signed. `ases` is the registry.
* `purchase_mutex` is not a variable of its own: a thread holds it while its `sale` is not
  `NONE`, so `FindBuyer` waits until no thread of the process has one. The mutant
  `FindBuyerUnlocked` leaves that out.
* `torn`, `overlapped`, `fresh` and the field `replaced` are history: what the properties
  except.

| code | actions |
|---|---|
| command `broker`: remove (Django selects the rows, then deletes them), create, end of the transaction | `Begin`; `Select`, `Delete`; `Create`; `Commit` |
| its export: the count; first row and open; write and close; the same for the second file | `Count`; `OpenCrt`, `WriteCrt`; `OpenKey`, `WriteKey` |
| the command is killed | `Die` |
| `get_broker_key`, `get_broker_certificate`: the check for None, the query, the assignment | `Check`, `Query`, `Assign` |
| AddOffer: `sign_with_broker` wants the key, has it; the signed copy is saved | `AddOffer`, `ReturnKey`, `SaveOffer` |
| `purchase_offer`: the buyer's row; the order, up to `stamp_signature`; a check that fails | `FindBuyer`, `StoreOrder`, `Refuse` |
| contract: `stamp_signature`; `validate_signature`; then `sign_with_broker` of the new offer, and the commit | `Stamp`; `Verify`; `ReturnKey`, `Commits` |
| a server starts again | `Restart` |
| command `create-client` | `CreateClient` |

The key is returned by a second read of the attribute (`broker.py:28`), so a thread may get
what another has assigned after it: the steps `Assign` and `ReturnKey` or `Stamp` are apart.

### MarketClients: state and actions

`rows` are the offers the broker signed, in the order of their ids, with what is left of
their bandwidth (all periods alike, since the buyers order one unit of each). `sent` are
the purchase requests on their way; a broken connection leaves one there that nobody
waits for, or loses it. `tries` counts the failed attempts of a Python buyer.

| code | actions |
|---|---|
| `sell_offer` of the provider | `SellOffer` |
| `list` / `listOffers` and ListOffers | `List` |
| choice of an offer and the request; an index outside the list is an exception, or a panic of all Go buyers | `Choose`, `Crash` |
| Purchase, PurchaseEquivalent and the answer; `except grpc.RpcError` | `Purchase`, `Retry` |
| the connection breaks | `Break` |
| `get_contract` and GetContract | `GetContract` |
| the end of `Runner.run` | `RunnerEnds` |

### Monitor: state and actions

* `counters` is the LRU map: elements with a key and a count per CPU. Inserting may
  evict any elements, and takes any, with other CPUs' counts zeroed or not, which
  depends on the kernel. `cpu[c]` is the packet a CPU is at; a pointer it looked up may be
  to an element that has got another key since.
* `ring` and `reader`: what `poll_ringbuf` has not read, and the hop it is sending on the
  unbuffered channel. `hops`, `todo`, `deleted`, `logging`: `poll_counters`.
* Keys are the 32-bit numbers the program computes; bytes are swapped where the code, the
  wire or the host (x86_64) swaps them. A packet is what the parser distinguishes.
* `role` never changes; `seen` and `dropped` are history.

| code | actions |
|---|---|
| `count` up to the lookup; found; not found | `Lookup`; `Count`; `Insert`, `Report` |
| `poll_ringbuf` | `PollRingbuf` |
| `poll_counters`, its two cases | `NewHop`, `Tick` |
| `log_counters`, each turn of its loop; the deletions | `LogHop`, `LogDone` |

## Runs

All instances of the market have one seller with an offer of two periods, 2 and 1 units, and
two buyers (the seller may buy as well). `MaxOffers = 4` stops new requests when
four ids are used. The calls of threads that had begun before still finish, so there
are chains of up to four or five rows: the seller's, the broker's, and the rows
after the first and after the second sale. That is enough for two purchases to
meet over the same row, for a third to walk two links, and for the ports of a
range to run out. In `one_process` the offers may also come with one port, or be faulty.

No run of the market sends a request with an unknown id or with an offer other than the one of
its id, or a demand that is misaligned, empty or outside of the offer: such requests are refused
before anything is written. The theorems hold for them too, and `profile` goes through those
demands.

| run | instance | shows |
|---|---|---|
| `one_process` | two threads of one process that may crash; submissions that are good, tampered with, of wrong length, with fewer ports than bandwidth; two demands; a buyer may be unregistered; fair | `FetchedStaysAvailable`, `NoIntegrityError`, `AnsweredIsStored`, `Conservation`, `PortsDistinct`, `MutexReleased` |
| `two_processes` | a thread in each of two processes, one may crash; two demands; good and bad signatures | `TypeOK`, `Lineage`, `OriginalsAreSellers`, `SaleComplete`, `ContractAuthentic`, `RowsArePermanent`, `ImplementsSpotMarket` |
| `profile` | all profiles of up to three periods, demands between -1 and 3, all starts from before the offer to past it | `Correct` |
| `topology` | two reloaders, one may crash, and a third with a clashing address; two contracts of the local AS and one of others; two ports, two attempts; files with and without an ESDX border router; fair | `TypeOK`, `MutualExclusion`, `LostOnlyInWrite`, `WellFormed`, `CallsEnd`, `ImplementsLinkStore` |
| `broker_commands` | two administrators who create, remove, export, or all three at once; three brokers in all; fair | `OneBroker`, `FilesBelongTogether`, `CommandsEnd` |
| `broker_signing` | two administrators who create or replace; one server of two threads that starts twice; two brokers in all; one AS with two certificates and a third of another name; two contracts | `TypeOK`, `ContractsOfOneBroker`, `FreshCachesMatch`, `BuyersStayVerifiable`, `KeySettles` |
| `buyers` | two Python buyers with two attempts, one behind a bad line; two Go buyers, one with PurchaseEquivalent; one offer of three units; fair | `TypeOK`, `GivesUpOutbid`, `OneContractEach`, `NoMoreThanTried`, `VerdictIsTrue`, `BuyersEnd`, `ImplementsSpotMarket` |
| `monitor` | two CPUs, two elements, three hops, a ring of one record, three packets; fair | `TypeOK`, `NoHopForgotten`, `EveryPacketOnce`, `OnlyProviderHops`, `HopsAreLogged` |
| `monitor_ports` | a packet to port 4192 | a counterexample to `ClosedInterval` |
| `contract_message` | one thread | a counterexample to `SignatureCoversMessage` |
| `topology_port` | one reloader, a port below `min_port` in use | a counterexample to `PortInRange` |
| `topology_reader` | two reloaders without crashes | a counterexample to `NoRaces` |

In the run `topology` the two ports of the range make `activate` fail for want of a port
after at most two links, which also bounds the file. A remote of a contract is in use at
another border router, so a removal may hit that one. With two attempts a call
waits once and gives up once. Two processes suffice for the lock; a third behind it
would wait in the same state as the second.

The commands meet the servers only through the committed rows, so each of the two broker runs
has what the other leaves out. In `broker_commands` two commands meet at every statement,
three brokers let an export follow a replacement after a torn one, and no servers run. In
`broker_signing` one broker can be replaced by another, which is what a stale cache needs;
two threads can fill the cache around the replacement; one restart gives a process an earlier
and a later run. Two servers would not interact, since they share nothing but the tables.
In `buyers` four buyers compete for three units, so that one of them must
lose, and each Python buyer has the two attempts of the integration test. In `monitor`
three hops for two elements force an eviction, and three packets let two CPUs meet over
one hop while another hop takes its element.

`BW_PERIOD` is 2 seconds instead of 600, so that a misaligned start exists.

**Fairness.** `FairSpec` gives each thread weak fairness of `Step`, the
disjunction of what its handler does next: a thread of a running process that can go on is
scheduled. No fairness is assumed of calls, of crashes or of who gets the mutex:
`threading.Lock` promises no order, so no thread is promised its turn, only
that the mutex is given back. In `Topology` a process that lives goes on with its call
(its sleeps end); nothing is assumed of calls, crashes or the administrator. A thread that waits for a row lock of the database
can go on when the other transaction ends, which fairness of the other thread gives.

In `BrokerKeys` a command that can go on does; the deletion, which waits for a row lock,
has strong fairness, since InnoDB queues who waits. In `MarketClients` each buyer runs and the
server serves each request; connections break when they like. In `Monitor` each CPU
finishes its packet and each goroutine runs; strong fairness of `NewHop` is Go's `select`,
which chooses at random among the cases that are ready. No fairness of packets.

**Findings.** `market.proto:60` says of a contract that "the signature from the
broker (IXP) covers all fields". The signature is over the offer that was
*requested* (`contract.py:46`), the message holds the offer that was *sold*
(`serializers.py:102`). With PurchaseEquivalent they may differ; the buyer, who
remembers its request, can still verify, as the Go client does, but the seller, who
gets the message from GetContract, has nothing to verify it against. With Purchase alone
the message is covered (`DirectPurchasesCovered`).

`count` compares the UDP port as it lies in the packet with bounds that `initMaps` has
byte-swapped, on a little-endian host (`monitor.c:238`). Equality would survive that, order
does not: the range 30042 to 30051, "a closed interval" (`monitor.go:36`), holds port 4192.
The ports between are all counted, having the same upper byte; so are those of any
other upper byte whose lower byte lies between the two (`FilterOfOneUpperByte`).

`_find_lowest_free_value` keeps its result at `min_value` only while it meets no smaller
value: with port 40 in use it answers 41 when asked for a port from 50000 on
(`topology.py:132`), outside the range the constructor is given. Without such a port in the first file all
ports stay in range (`PortsStayInRange`).

`Topology.activate` promises no races as long as everybody uses the class
(`topology.py:217`). The constructor of the class reads the file without the lock
(`topology.py:61`), so it fails when another process has the file open for
writing; activate and deactivate themselves are safe, which `MutualExclusion`,
`ImplementsLinkStore` and `LockedReadsSucceed` show.

## Proofs

The theorems hold for any number of processes, threads, ASes and offers, from the
named assumptions `PeriodAssumption` (a period is a positive number of
seconds) and `MarketAssumption` (types of the constants, and that the broker is not
an AS), and what is named below for the other components.

*Market.* The safety properties are not inductive: that a commit keeps the chain a
chain depends on what the open transactions hold. The invariant `IInv`
of `MarketProofs` adds, for each open transaction, that its rows have ids nobody
else has, and that those of a sale deprecate the row it is about and carry the right
remainder; that no two open transactions sell the same row, which is what the row
lock of the index gives; that a row is deprecated if and only if it is the
seller's row or sold. From it follow `TypeCorrect`, `ChainCorrect`, `SalesCorrect`,
`OriginalsCorrect` and `RowsPermanent`. There is a lemma for each kind of step:
those that touch no row, the two that write into a transaction, the commit and the
crash.

*Sales.* `SaleProofs` builds on `IInv`. `AnswersCorrect`: a thread that is about to answer
"ok" has committed. For `ContractsAuthentic`, `SaleInv` says that what is on offer only
shrinks along a chain, and that the row a thread has walked to is in the chain of the row
its buyer signed; so a demand that fits the row sold also fits the row signed. For
`PortsCorrect`, `PortInv` says that ids grow along a chain, that the available row
is its last, and that each sale takes the port after the previous one. In
`SpotRefinement` the commit of a listing is `List`, the commit of a sale is `Sell`, and
every other step stutters: the abstract market changes where the transaction commits,
not where the buyer is answered. For `BandwidthConserved`, `Balance` adds to `Conservation`
that there are finitely many contracts, without which their sum means nothing, and that
the profiles of a chain are of one length. A listing starts a chain without contracts; a sale
adds one contract and takes its demand from the available row, period by period.
`BuyersCanVerify` follows a contract from the open transaction that wrote it: its signature
is over the bytes that the buyer signed. `DirectPurchasesCovered` assumes that no request is a
PurchaseEquivalent; then a thread that writes has not left the row it was asked for.

*Mutex.* The last part of `MarketProofs` is about a single process. Its invariant says
that a thread between `Acquire` and `Answer` holds the mutex, that so only one transaction
of a sale is open, and that what it fetched is still available. From it
follow `NoIntegrityErrorInOneProcess` (the comment "should never happen", which
holds of a deployment with one process) and `FetchedStaysInOneProcess`. TLC finds
both properties violated with two processes, as it should: there the index does the work.

*Offer.purchase.* The invariant `LoopInv` says that each pair the loop has visited was within
bounds and left its difference, and that the total is zero exactly if nothing was asked for so
far. `LoopHolds`, and `PurchaseCorrect` from it, are for every profile and demand.

*Topology.* From `TopologyAssumption` (types of the constants, initial files that are
well-formed, at least one attempt), for any number of processes, contracts and
files. Lemmas first: the value `LowestFree` names exists and is free (an interval
has more numbers than the values in use), so `Added` stays well-formed; `RemoveAt`
shifts, so `Removed` does. `LoopFindsLowestFree`: after i turns of the loop its value is the
lowest free one with respect to the first i of the sorted values, by induction over i. The safety properties are inductive together with `Held`: the
process about to open the file has computed its topology from what is in the file now,
which mutual exclusion keeps true until it writes. From it follow `TypeCorrect`,
`MutualExclusionHolds`, `NothingElseLosesTheFile`, `WellFormedHolds` and
`ReloaderImplementsLinkStore`: opening the file is an `Add` or `Remove`, a crash while
writing a `Lose`, and no other step shows. Two theorems bound what the counterexamples of the
runs mean. `PortsStayInRange` assumes what `topology_port` breaks, that no interface of the
first file has a port below `min_port`; adding, removing and losing the file keep that so.
`LockedReadsSucceed`: a call under the lock finds the file unreadable only after a crash lost it.

*Broker.* From `KeysAssumption` (types of the constants), for any number of administrators,
servers, threads, ASes and commands. That a process signs with one key is false: two threads that
both found the cache empty may load two brokers. What holds has two parts. `KeysSettle`: once a
key is cached and no thread is between the query and the assignment of another, the key stays.
`RunsSellForOneBroker`, by `CertInv`: under the mutex one thread at a time wants the certificate,
so that is loaded once in a run, and a contract of the run is of the broker of that certificate,
because it was checked against it. `FreshInv`: what a fresh process has cached, or its threads have
read, is in the table. `BuyersInv` and `OrderInv`: the certificate that an open purchase or a contract was verified with is
registered, or the row was replaced before the order was stored. For the commands, `PlanInv`
tells what a command has left to run; `TableInv`, that no two transactions add to the table
unless `overlapped`; `FilesInv`, that while nothing has torn the files one command at most has
them open, finds them as empty as it has opened them, and has closed the first with the
certificate whose key it is about to write.

*Clients.* From `ClientsAssumption` (types of the constants, finitely many buyers), for
any number of buyers, attempts and offers. `RowsInv`: the rows of an offer are a chain of
single units, whose contracts and what is left of the last row add up to `Units`.
`CallsInv`: an attempt has at most one request on its way and at most one contract, never
both; a buyer whose line holds waits for its only request, so it has a contract exactly
if it was told so. From these follow `SalesBounded`, `OneContract` and `VerdictCorrect`. For `GivesUp`,
`OutbidInv` counts: an attempt of such a buyer fails only if, since it listed, somebody
else bought of the row it chose, or nothing is left of the offer; and each sale to somebody else
makes at most one of its attempts fail, because it lists anew before the next.
`ClientsSpotRefinement` takes the provider's `SellOffer` to `List` and a purchase that
succeeds to `Sell`; `RowsInv` gives that the number of a sale, its row, is not used twice.

*Monitor.* From `MonitorAssumption` (types of the constants, finitely many CPUs and
elements), for any number of CPUs, elements and packets and any size of the ring. `HopsSurviveTheRing` is arithmetic: the record's four bytes read as two
big-endian numbers are the fields that the key was computed from. `CountsTheProvidersHop`
goes through role and direction. With the invariant that every key anywhere (map, CPUs,
ring, reader) is that of a provider's hop follows `LogsOnlyProviderHops`. For
`HopsAreNotForgotten` the invariant adds what a CPU holds between insertion and report,
and that only `log_counters` deletes, while it runs and what it has seen missing.
`MonitorTyped` adds the ring's length and that the counts are numbers. For
`PacketsCountedOnce`, `OnceInv` counts the CPUs that have looked a packet up and not yet
counted it: the total and their number are at most the packets seen. Counting moves a CPU from
one to the other, and what evicts or reuses elements only lowers the total.
`FilterOfOneUpperByte` says which ports pass `monitor.c:238` when the two ends of the range have one
upper byte, as those of the default range have; `ClosedIntervalOfOneUpperByte` concludes that
the closed interval is what counts if the ports in use have that upper byte too.

*Sums.* `Conservation` and `EveryPacketOnce` are about sums, which the library defines with
a fold, a recursive function over the subsets of a set. `FiniteSums` proves what it computes. The
library's induction theorems take a predicate as a parameter, which the provers cannot
instantiate, so the two principles are restated for sets: `NatSetInduction`, from the least element of
a set of numbers, and `SubsetInduction`. With them the equation of the fold has one
solution, its value does not depend on the order of the elements (`SumRemove`), and it adds,
compares and changes as sums do.

Model-checked only are the liveness properties `MutexReleased`, `CallsEnd`, `CommandsEnd`,
`BuyersEnd` and `HopsAreLogged`, since the provers do not know fairness, and that the sort in front of
`LoopOverSorted` sorts. Every safety property that a passing run checks
is a theorem.

## Not modelled

* *Market.* The byte formats, of which only what they include is modelled (two different
  orders with equal bytes are not considered); validation of columns the model leaves
  out; times of day (the code does not compare an offer's time with the clock).
* *Broker.* Which offer a purchase sells, and what it does to the table Offer: that is `Market`. What two
  commands that have an exported file open together leave in it is any of the two texts or
  `MIXED`; no property depends on it.
* *Replayed orders.* A signed order stays valid while its chain has bandwidth, and the code keeps
  no record of those it has served. In `MarketClients` a request is served at most once; no
  property says how often a signature may be used.
* *Exceptions.* `OneBroker` and `BuyersStayVerifiable` except two races that the code does not prevent:
  two creations at once, and create-client --force between the read of a buyer's row and its
  order. The properties say that these are the only ways.
* *Clients.* A server that dies under `Runner`, or that it leaves running after an exception, and a `list` that fails; the options of the
  Go client that buy once or serialise its buyers; its `log.Fatalf` when a signature
  is wrong or the connection breaks. `Market` and `MarketClients` are tied by the abstract market
  both implement; when a request is refused is not part of it, and is modelled in both.
* *Monitor.* Attaching, shutdown (with what is not logged after the ticker stops) and arguments other than role and ports; errors of the map other
  than a missing key; hosts that are big-endian; forwarding of the packet.
* *Composition.* Contracts of the market loaded into the topologies of seller and buyer.
* *Not to be modelled.* Encodings of the primitives, Django scaffolding, generated
  protobuf code, fixtures, build scripts and plots: no logic of the program's own.

## Plan

The parts of the system with logic of their own have modules, and the properties that the
provers can reach are proved. What is left, in order:

1. `Esdx`: contracts of `Market` activated and deactivated in the topologies of seller and
   buyer, whose remotes and ports the market gives; it would show whether the remote
   underlay by which `deactivate` finds an interface is unique.
2. `Runner` with a server that dies, and the Go client's options.
