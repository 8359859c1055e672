------------------------- MODULE MarketClientsProofs -------------------------
(* Theorems about the buyers, for any number of them, of offers and of     *)
(* attempts: what a buyer is told is what it has bought.                   *)
EXTENDS MarketClients, FiniteSetTheorems, SequenceTheorems, TLAPS

-----------------------------------------------------------------------------
(* Steps, by what they do to the rows.                                     *)

\* The provider's offer is a row of a good of its own.
Adds ==
  /\ rows' = Append(rows, [good |-> Len(rows) + 1, left |-> Units])
  /\ UNCHANGED contracts

Sells(i, m) == m \in sent /\ CanSell(i) /\ Sale(i, m)

LEMMA StepKinds ==
  ASSUME [Next]_vars
  PROVE  Adds \/ UNCHANGED server \/ \E m \in sent : Sells(RowFor(m), m) /\ Purchase(m)
<1>1. ASSUME NEW m \in sent, Purchase(m)
      PROVE  UNCHANGED server \/ (Sells(RowFor(m), m) /\ Purchase(m))
  BY <1>1 DEF Purchase, Sells
<1>2. ASSUME NEW b \in Buyers, Step(b) \/ Break(b)
      PROVE  UNCHANGED server
  BY <1>2 DEF Step, List, Choose, GetContract, Break
<1> QED
  BY <1>1, <1>2 DEF Next, SellOffer, Adds, Serve, RunnerEnds, vars, server
-----------------------------------------------------------------------------
(* Types.                                                                  *)

\* A crash ends buyers and nothing else.
LEMMA CrashTyped ==
  ASSUME TypeOK, NEW b \in Buyers, Crash(b)
  PROVE  pc' \in [Buyers -> {"list", "choose", "wait", "check"} \cup Ended]
BY DEF TypeOK, Crash, Ended

LEMMA RetryTyped ==
  ASSUME TypeOK, NEW b \in Buyers, Retry(b)
  PROVE  /\ pc' \in [Buyers -> {"list", "choose", "wait", "check"} \cup Ended]
         /\ tries' \in [Buyers -> Nat]
<1>1. tries' \in [Buyers -> Nat]
  <2>1. CASE b \in PyBuyers
    <3>1. tries \in [Buyers -> Nat] /\ tries[b] + 1 \in Nat
      BY DEF TypeOK
    <3>2. tries' = [tries EXCEPT ![b] = tries[b] + 1]
      BY <2>1 DEF Retry
    <3> QED
      BY <3>1, <3>2
  <2>2. CASE b \notin PyBuyers
    BY <2>2 DEF TypeOK, Retry
  <2> QED
    BY <2>1, <2>2
<1>2. pc' \in [Buyers -> {"list", "choose", "wait", "check"} \cup Ended]
  BY DEF TypeOK, Retry, Ended
<1> QED
  BY <1>1, <1>2

\* Rows that can be sold are rows of the table.
LEMMA CanSellRow ==
  ASSUME TypeOK, NEW i, CanSell(i)
  PROVE  /\ i \in Ids /\ i \in Nat \ {0} /\ Len(rows) \in Nat
         /\ rows[i] \in [good : Nat, left : Nat] /\ rows[i].left - 1 \in Nat
<1>1. i \in Ids /\ Len(rows) \in Nat /\ i \in Nat \ {0}
  BY DEF CanSell, Available, Ids, TypeOK
<1>2. rows[i] \in [good : Nat, left : Nat]
  BY <1>1, ElementOfSeq DEF Ids, TypeOK
<1> QED
  BY <1>1, <1>2 DEF CanSell

LEMMA TypeStep == TypeOK /\ [Next]_vars => TypeOK'
<1> SUFFICES ASSUME TypeOK, [Next]_vars PROVE TypeOK'
  OBVIOUS
<1>1. CASE SellOffer
  <2>1. [good |-> Len(rows) + 1, left |-> Units] \in [good : Nat, left : Nat]
    BY ClientsAssumption DEF TypeOK
  <2>2. rows' \in Seq([good : Nat, left : Nat])
    BY <1>1, <2>1 DEF SellOffer, TypeOK
  <2> QED
    BY <1>1, <2>2 DEF SellOffer, TypeOK
<1>2. ASSUME NEW b \in Buyers, List(b)
      PROVE  TypeOK'
  <2>1. Available \subseteq Nat
    BY DEF Available, Ids
  <2> QED
    BY <1>2, <2>1 DEF List, TypeOK, server
<1>3. ASSUME NEW b \in Buyers, Choose(b)
      PROVE  TypeOK'
  <2>1. listed' \in [Buyers -> SUBSET Nat] /\ UNCHANGED <<rows, contracts, tries, verdict>>
    BY <1>3 DEF Choose, TypeOK, server
  <2>2. CASE \E r \in listed[b] :
               /\ sent' = sent \cup {[buyer |-> b, try |-> tries[b], row |-> r]}
               /\ pc' = [pc EXCEPT ![b] = "wait"]
    BY <2>1, <2>2 DEF TypeOK
  <2>3. CASE Crash(b) /\ UNCHANGED sent
    BY <2>1, <2>3, CrashTyped DEF TypeOK
  <2> QED
    BY <1>3, <2>2, <2>3 DEF Choose
<1>4. ASSUME NEW b \in Buyers, GetContract(b)
      PROVE  TypeOK'
  <2>1. pc' \in [Buyers -> {"list", "choose", "wait", "check"} \cup Ended]
    BY <1>4, CrashTyped DEF GetContract, TypeOK, Ended
  <2> QED
    BY <1>4, <2>1 DEF GetContract, TypeOK, server
<1>5. ASSUME NEW b \in Buyers, Break(b)
      PROVE  TypeOK'
  <2>1. sent' \subseteq sent /\ UNCHANGED <<rows, contracts, listed, verdict>>
    BY <1>5 DEF Break, server
  <2> QED
    BY <1>5, <2>1, RetryTyped DEF Break, TypeOK
<1>6. ASSUME NEW m \in sent, Purchase(m)
      PROVE  TypeOK'
  <2>1. sent' \subseteq sent /\ UNCHANGED <<listed, verdict>>
        /\ m \in [buyer : Buyers, try : Nat, row : Nat]
    BY <1>6 DEF Purchase, TypeOK
  <2>2. /\ pc' \in [Buyers -> {"list", "choose", "wait", "check"} \cup Ended]
        /\ tries' \in [Buyers -> Nat]
    <3>1. CASE CanSell(RowFor(m))
      BY <1>6, <2>1, <3>1 DEF Purchase, TypeOK
    <3>2. CASE ~CanSell(RowFor(m))
      BY <1>6, <2>1, <3>2, RetryTyped DEF Purchase, TypeOK
    <3> QED
      BY <3>1, <3>2
  <2>3. /\ rows' \in Seq([good : Nat, left : Nat])
        /\ contracts' \subseteq [number : Nat, order : Nat, buyer : Buyers, try : Nat]
    <3>1. CASE CanSell(RowFor(m))
      <4>1. PICK i : i = RowFor(m)
        OBVIOUS
      <4>2. Sale(i, m) /\ i \in Nat /\ [good |-> rows[i].good, left |-> rows[i].left - 1]
                                          \in [good : Nat, left : Nat]
        BY <1>6, <3>1, <4>1, CanSellRow DEF Purchase
      <4> QED
        BY <2>1, <4>2 DEF Sale, TypeOK
    <3>2. CASE ~CanSell(RowFor(m))
      BY <1>6, <3>2 DEF Purchase, server, TypeOK
    <3> QED
      BY <3>1, <3>2
  <2> QED
    BY <2>1, <2>2, <2>3 DEF TypeOK
<1>7. CASE RunnerEnds
  BY <1>7 DEF RunnerEnds, Verdict, TypeOK, server
<1>8. CASE UNCHANGED vars
  BY <1>8 DEF vars, TypeOK
<1> QED
  BY <1>1, <1>2, <1>3, <1>4, <1>5, <1>6, <1>7, <1>8 DEF Next, Step, Serve

\* The rows, the requests and the buyers keep to their types: no row is sold
\* below zero.
THEOREM TypeCorrect == Spec => []TypeOK
<1>1. Init => TypeOK
  BY DEF Init, TypeOK
<1> QED
  BY <1>1, TypeStep, PTL DEF Spec
-----------------------------------------------------------------------------
(* Rows and bandwidth.                                                     *)

ContractsFor(g) == {c \in contracts : rows[c.number].good = g}

\* A good is numbered by the first of its rows; contracts are on rows that are
\* no longer available, one on each; what is left and what was sold add up.
RowsInv ==
  /\ \A i \in Ids : rows[i].good <= i
  /\ IsFiniteSet(contracts)
  /\ \A c \in contracts : c.number \in Ids /\ ~IsAvailable(c.number)
  /\ \A c, d \in contracts : c.number = d.number => c = d
  /\ \A i \in Available : Cardinality(ContractsFor(rows[i].good)) + rows[i].left = Units

LEMMA RowTyped ==
  ASSUME TypeOK
  PROVE  /\ Len(rows) \in Nat
         /\ \A i \in Ids : i \in Nat \ {0} /\ rows[i].good \in Nat /\ rows[i].left \in Nat
<1>1. Len(rows) \in Nat
  BY DEF TypeOK
<1>2. ASSUME NEW i \in Ids
      PROVE  rows[i] \in [good : Nat, left : Nat]
  BY <1>2, ElementOfSeq DEF Ids, TypeOK
<1> QED
  BY <1>1, <1>2 DEF Ids

\* A new row is the last, the others stay as they are.
LEMMA AppendRow ==
  ASSUME TypeOK, NEW g \in Nat, NEW l \in Nat,
         rows' = Append(rows, [good |-> g, left |-> l])
  PROVE  LET n == Len(rows) + 1
         IN  /\ n \in Nat /\ n \notin Ids /\ Ids' = Ids \cup {n}
             /\ \A i \in Ids : rows'[i] = rows[i] /\ i < n
             /\ rows'[n].good = g /\ rows'[n].left = l
<1> DEFINE r == [good |-> g, left |-> l]
           n == Len(rows) + 1
<1>1. rows \in Seq([good : Nat, left : Nat]) /\ r \in [good : Nat, left : Nat]
  BY DEF TypeOK
<1>2. /\ Len(rows) \in Nat /\ Len(rows') = n
      /\ \A i \in 1 .. Len(rows) : rows'[i] = rows[i]
      /\ rows'[n] = r
  BY <1>1, AppendProperties
<1> QED
  BY <1>2 DEF Ids

\* It makes the rows of its good unavailable.
LEMMA AppendAvailable ==
  ASSUME TypeOK, NEW g \in Nat, NEW l \in Nat,
         rows' = Append(rows, [good |-> g, left |-> l])
  PROVE  /\ \A i \in Ids : IsAvailable(i)' <=> IsAvailable(i) /\ rows[i].good # g
         /\ Available' = {i \in Available : rows[i].good # g} \cup {Len(rows) + 1}
<1>1. PICK n : n = Len(rows) + 1
  OBVIOUS
<1>2. /\ n \in Nat /\ n \notin Ids /\ Ids' = Ids \cup {n}
      /\ \A i \in Ids : rows'[i] = rows[i] /\ i < n /\ i \in Nat
      /\ rows'[n].good = g
  BY <1>1, AppendRow, RowTyped
<1>3. ASSUME NEW i \in Ids
      PROVE  IsAvailable(i)' <=> IsAvailable(i) /\ rows[i].good # g
  <2>1. IsAvailable(i)' <=> \A j \in Ids \cup {n} : j > i => rows'[j].good # rows'[i].good
    BY <1>2 DEF IsAvailable
  <2>2. n > i /\ rows'[i] = rows[i]
    BY <1>2
  <2> QED
    BY <1>2, <2>1, <2>2 DEF IsAvailable
<1>4. IsAvailable(n)'
  BY <1>2 DEF IsAvailable
<1> QED
  BY <1>1, <1>2, <1>3, <1>4 DEF Available

\* One row of a good is available.
LEMMA OneAvailable ==
  ASSUME TypeOK, NEW i \in Available, NEW j \in Available, rows[i].good = rows[j].good
  PROVE  i = j
BY DEF Available, IsAvailable, Ids

\* A new good has no contracts.
LEMMA AddsRows ==
  ASSUME TypeOK, RowsInv, Adds
  PROVE  RowsInv'
<1>1. PICK n : n = Len(rows) + 1
  OBVIOUS
<1>2. /\ n \in Nat /\ n \notin Ids /\ Ids' = Ids \cup {n}
      /\ \A i \in Ids : rows'[i] = rows[i] /\ i < n /\ i \in Nat
      /\ rows'[n].good = n /\ rows'[n].left = Units
      /\ \A i \in Ids : IsAvailable(i)' <=> IsAvailable(i) /\ rows[i].good # n
      /\ Available' = {i \in Available : rows[i].good # n} \cup {n}
      /\ contracts' = contracts
  <2>1. n \in Nat /\ Units \in Nat
    BY <1>1, RowTyped, ClientsAssumption
  <2> QED
    BY <1>1, <2>1, AppendRow, AppendAvailable, RowTyped DEF Adds
<1>3. \A i \in Ids : rows[i].good # n
  BY <1>2, RowTyped DEF RowsInv
<1>4. ASSUME NEW g \in Nat
      PROVE  ContractsFor(g)' = ContractsFor(g)
  BY <1>2 DEF RowsInv, ContractsFor
<1>5. ContractsFor(n) = {}
  BY <1>3 DEF RowsInv, ContractsFor
<1>6. ASSUME NEW i \in Available'
      PROVE  \A h \in Nat : h = rows'[i].good =>
               Cardinality(ContractsFor(h)') + rows'[i].left = Units
  <2>1. CASE i \in Available
    <3>1. i \in Ids /\ rows'[i] = rows[i] /\ rows[i].good \in Nat
      BY <1>2, <2>1, RowTyped DEF Available
    <3>2. Cardinality(ContractsFor(rows[i].good)) + rows[i].left = Units
      BY <2>1 DEF RowsInv
    <3> QED
      BY <1>4, <3>1, <3>2
  <2>2. CASE i = n
    <3>1. \A h \in Nat : h = n => ContractsFor(h)' = {}
      BY <1>4, <1>5
    <3>2. Cardinality({}) = 0
      BY FS_EmptySet
    <3>3. ASSUME NEW h \in Nat, h = rows'[i].good
          PROVE  Cardinality(ContractsFor(h)') + rows'[i].left = Units
      <4>1. ContractsFor(h)' = {}
        BY <1>2, <2>2, <3>1, <3>3
      <4>2. Cardinality(ContractsFor(h)') = 0
        BY <3>2, <4>1
      <4> QED
        BY <1>2, <2>2, <4>2, ClientsAssumption
    <3> QED
      BY <3>3
  <2> QED
    BY <1>2, <2>1, <2>2
<1>7. ASSUME NEW i \in Available'
      PROVE  (Cardinality(ContractsFor(rows[i].good)) + rows[i].left = Units)'
  <2>1. PICK h : h = rows'[i].good
    OBVIOUS
  <2>2. h \in Nat
    BY <1>2, <2>1, RowTyped DEF Available
  <2>3. ContractsFor(rows[i].good)' = ContractsFor(h)'
    BY <2>1 DEF ContractsFor
  <2> QED
    BY <1>6, <2>1, <2>2, <2>3
<1>8. \A i \in Ids' : rows'[i].good <= i
  BY <1>2 DEF RowsInv
<1>9. \A c \in contracts' : c.number \in Ids' /\ ~IsAvailable(c.number)'
  BY <1>2 DEF RowsInv
<1>10. IsFiniteSet(contracts') /\ \A c, d \in contracts' : c.number = d.number => c = d
  BY <1>2 DEF RowsInv
<1> QED
  BY <1>7, <1>8, <1>9, <1>10 DEF RowsInv

\* A sale's contract is new, on a row that is available no longer; the others
\* are on the rows they were on.
LEMMA SaleContract ==
  ASSUME TypeOK, RowsInv, NEW i, NEW m, Sells(i, m)
  PROVE  \E c : /\ contracts' = contracts \cup {c} /\ c \notin contracts
                /\ c.number = i /\ c.order = m.row
                /\ c.buyer = m.buyer /\ c.try = m.try
<1>1. PICK c : c = [number |-> i, order |-> m.row, buyer |-> m.buyer, try |-> m.try]
  OBVIOUS
<1>2. contracts' = contracts \cup {c} /\ c.number = i /\ c.order = m.row
      /\ c.buyer = m.buyer /\ c.try = m.try
  BY <1>1 DEF Sells, Sale
<1>3. c \notin contracts
  BY <1>2 DEF Sells, CanSell, Available, RowsInv
<1> QED
  BY <1>2, <1>3

\* It takes one unit.
LEMMA SellsRows ==
  ASSUME TypeOK, RowsInv, NEW i, NEW m, Sells(i, m)
  PROVE  RowsInv'
<1>1. PICK n, g : n = Len(rows) + 1 /\ g = rows[i].good
  OBVIOUS
<1>2. /\ i \in Ids /\ i \in Available /\ g \in Nat /\ g <= i
      /\ rows[i].left \in Nat /\ rows[i].left - 1 \in Nat
  BY <1>1, CanSellRow, RowTyped DEF Sells, CanSell, RowsInv
<1>3. /\ n \in Nat /\ n \notin Ids /\ Ids' = Ids \cup {n}
      /\ \A j \in Ids : rows'[j] = rows[j] /\ j < n /\ j \in Nat
      /\ rows'[n].good = g /\ rows'[n].left = rows[i].left - 1
      /\ \A j \in Ids : IsAvailable(j)' <=> IsAvailable(j) /\ rows[j].good # g
      /\ Available' = {j \in Available : rows[j].good # g} \cup {n}
  BY <1>1, <1>2, AppendRow, AppendAvailable, RowTyped DEF Sells, Sale
<1>4. PICK c : contracts' = contracts \cup {c} /\ c \notin contracts /\ c.number = i
  BY SaleContract
<1>5. ASSUME NEW h \in Nat
      PROVE  ContractsFor(h)' = ContractsFor(h) \cup {e \in {c} : g = h}
  <2>1. \A e \in contracts : rows'[e.number] = rows[e.number]
    BY <1>3 DEF RowsInv
  <2>2. rows'[c.number].good = g
    BY <1>1, <1>2, <1>3, <1>4
  <2> QED
    BY <1>4, <2>1, <2>2 DEF ContractsFor
<1>6. ASSUME NEW j \in Available'
      PROVE  \A h \in Nat : h = rows'[j].good =>
               Cardinality(ContractsFor(h)') + rows'[j].left = Units
  <2>1. CASE j \in Available /\ rows[j].good # g
    <3>1. j \in Ids /\ rows'[j] = rows[j] /\ rows[j].good \in Nat
      BY <1>3, <2>1, RowTyped DEF Available
    <3>2. \A h \in Nat : h # g => ContractsFor(h)' = ContractsFor(h)
      BY <1>5
    <3>3. Cardinality(ContractsFor(rows[j].good)) + rows[j].left = Units
      BY <2>1 DEF RowsInv
    <3> QED
      BY <2>1, <3>1, <3>2, <3>3
  <2>2. CASE j = n
    <3>1. \A h \in Nat : h = g => ContractsFor(h)' = ContractsFor(g) \cup {c}
      BY <1>5
    <3>2. IsFiniteSet(ContractsFor(g)) /\ c \notin ContractsFor(g)
      BY <1>4, FS_Subset DEF ContractsFor, RowsInv
    <3>3. Cardinality(ContractsFor(g) \cup {c}) = Cardinality(ContractsFor(g)) + 1
          /\ Cardinality(ContractsFor(g)) \in Nat
      BY <3>2, FS_AddElement, FS_CardinalityType
    <3>4. Cardinality(ContractsFor(g)) + rows[i].left = Units
      BY <1>1, <1>2 DEF RowsInv
    <3>5. ASSUME NEW h \in Nat, h = rows'[j].good
          PROVE  Cardinality(ContractsFor(h)') + rows'[j].left = Units
      <4>1. ContractsFor(h)' = ContractsFor(g) \cup {c}
        BY <1>3, <2>2, <3>1, <3>5
      <4>2. Cardinality(ContractsFor(h)') = Cardinality(ContractsFor(g)) + 1
        BY <3>3, <4>1
      <4>3. rows'[j].left = rows[i].left - 1
        BY <1>3, <2>2
      <4> QED
        BY <1>2, <3>3, <3>4, <4>2, <4>3
    <3> QED
      BY <3>5
  <2> QED
    BY <1>3, <2>1, <2>2
<1>7. ASSUME NEW j \in Available'
      PROVE  (Cardinality(ContractsFor(rows[j].good)) + rows[j].left = Units)'
  <2>1. PICK h : h = rows'[j].good
    OBVIOUS
  <2>2. h \in Nat
    BY <1>2, <1>3, <2>1, RowTyped DEF Available
  <2>3. ContractsFor(rows[j].good)' = ContractsFor(h)'
    BY <2>1 DEF ContractsFor
  <2> QED
    BY <1>6, <2>1, <2>2, <2>3
<1>8. \A j \in Ids' : rows'[j].good <= j
  BY <1>2, <1>3 DEF RowsInv
<1>9. \A e \in contracts' : e.number \in Ids' /\ ~IsAvailable(e.number)'
  BY <1>1, <1>2, <1>3, <1>4 DEF RowsInv
<1>10. IsFiniteSet(contracts')
  BY <1>4, FS_AddElement DEF RowsInv
<1>11. \A d, e \in contracts' : d.number = e.number => d = e
  BY <1>2, <1>4 DEF RowsInv, Available
<1> QED
  BY <1>7, <1>8, <1>9, <1>10, <1>11 DEF RowsInv

LEMMA RowsStep == TypeOK /\ RowsInv /\ [Next]_vars => RowsInv'
<1> SUFFICES ASSUME TypeOK, RowsInv, [Next]_vars PROVE RowsInv'
  OBVIOUS
<1>1. CASE UNCHANGED server
  BY <1>1 DEF server, RowsInv, Ids, IsAvailable, Available, ContractsFor
<1> QED
  BY <1>1, StepKinds, AddsRows, SellsRows

LEMMA RowsInvariance == Spec => []RowsInv
<1>1. Init => RowsInv
  BY FS_EmptySet DEF Init, RowsInv, Ids, Available
<1> QED
  BY <1>1, RowsStep, TypeCorrect, PTL DEF Spec
-----------------------------------------------------------------------------
(* Calls: which requests are under way and which were served.              *)

Of(x, b, n) == x.buyer = b /\ x.try = n

\* A request and a contract belong to one attempt, and no attempt has two.
Past ==
  /\ \A m \in sent : m.try <= tries[m.buyer]
  /\ \A c \in contracts : c.try <= tries[c.buyer]
Once ==
  /\ \A m, k \in sent : Of(m, k.buyer, k.try) => m = k
  /\ \A c, d \in contracts : Of(c, d.buyer, d.try) => c = d
  /\ \A m \in sent, c \in contracts : ~Of(m, c.buyer, c.try)

\* The attempt of a buyer that has not ordered yet has none.
Fresh ==
  \A b \in Buyers : pc[b] \in {"list", "choose"} =>
    \A x \in sent \cup contracts : ~Of(x, b, tries[b])

\* Whoever got an answer has the contract.
Told ==
  \A b \in Buyers : pc[b] \in {"check", "done"} =>
    \E c \in contracts : Of(c, b, tries[b])

\* A buyer whose connection holds has one request at a time and waits for it,
\* and has no contract before it is told.
Served(b) ==
  /\ pc[b] \notin {"wait", "crashed"} => \A m \in sent : m.buyer # b
  /\ pc[b] = "wait" => \A m \in sent : m.buyer = b => m.try = tries[b]
  /\ \A m, k \in sent : m.buyer = b /\ k.buyer = b => m = k
  /\ \A c, d \in contracts : c.buyer = b /\ d.buyer = b => c = d
  /\ \A c \in contracts, m \in sent : ~(c.buyer = b /\ m.buyer = b)
  /\ pc[b] \in {"list", "choose", "wait", "gave up"} => \A c \in contracts : c.buyer # b
Reliable == \A b \in Buyers \ Lossy : Served(b)

Ends == verdict = "0" => \A b \in PyBuyers : pc[b] = "done"

CallsInv == Past /\ Once /\ Fresh /\ Told /\ Reliable /\ Ends

\* What the steps of the calls have in common with types.
LEMMA CallTypes ==
  ASSUME TypeOK
  PROVE  /\ \A m \in sent : m.buyer \in Buyers /\ m.try \in Nat
         /\ \A c \in contracts : c.buyer \in Buyers /\ c.try \in Nat
         /\ \A b \in Buyers : tries[b] \in Nat
         /\ PyBuyers \subseteq Buyers
BY DEF TypeOK, Buyers

\* Steps of a buyer that send nothing: it moves on without an answer, takes the
\* contract it was told of, or it and others crash.
Moves ==
  /\ UNCHANGED <<sent, contracts, tries, verdict>>
  /\ \A b \in Buyers :
       \/ pc'[b] = pc[b]
       \/ pc[b] = "list" /\ pc'[b] = "choose"
       \/ pc[b] = "check" /\ pc'[b] = "done"
       \/ pc'[b] = "crashed" /\ pc[b] # "done"

LEMMA MovesCalls ==
  ASSUME TypeOK, CallsInv, Moves
  PROVE  CallsInv'
<1>1. Past' /\ Once'
  BY DEF Moves, CallsInv, Past, Once
<1>2. Fresh' /\ Told'
  BY DEF Moves, CallsInv, Fresh, Told
<1>3. Reliable'
  BY DEF Moves, CallsInv, Reliable, Served
<1>4. Ends'
  BY CallTypes DEF Moves, CallsInv, Ends
<1> QED
  BY <1>1, <1>2, <1>3, <1>4 DEF CallsInv

\* The buyer orders the row it chose.
Orders(b, r) ==
  /\ pc[b] = "choose" /\ pc' = [pc EXCEPT ![b] = "wait"]
  /\ sent' = sent \cup {[buyer |-> b, try |-> tries[b], row |-> r]}
  /\ UNCHANGED <<rows, contracts, tries, verdict>>
  /\ listed' = [listed EXCEPT ![b] = {}]

\* The steps that are such.
LEMMA MovesSteps ==
  ASSUME TypeOK, [Next]_vars
  PROVE  \/ Moves
         \/ RunnerEnds
         \/ \E b \in Buyers : \E r \in listed[b] : Orders(b, r)
         \/ \E b \in Buyers : Break(b)
         \/ \E m \in sent : Purchase(m)
<1>1. ASSUME NEW b \in Buyers, List(b)
      PROVE  Moves
  BY <1>1 DEF List, Moves, TypeOK, server
<1>2. ASSUME NEW b \in Buyers, GetContract(b)
      PROVE  Moves
  BY <1>2 DEF GetContract, Crash, Moves, TypeOK, server
<1>3. ASSUME NEW b \in Buyers, pc[b] = "choose", Crash(b), UNCHANGED <<sent, contracts, tries, verdict>>
      PROVE  Moves
  BY <1>3 DEF Crash, Moves, TypeOK
<1>4. CASE SellOffer \/ UNCHANGED vars
  BY <1>4 DEF SellOffer, vars, Moves
<1>5. ASSUME NEW b \in Buyers, Choose(b)
      PROVE  \/ Moves
             \/ \E r \in listed[b] : Orders(b, r)
  BY <1>3, <1>5 DEF Choose, Orders, server
<1> QED
  BY <1>1, <1>2, <1>4, <1>5 DEF Next, Step, Serve

\* Sending an order: the attempt is fresh.
LEMMA OrderCalls ==
  ASSUME TypeOK, CallsInv, NEW b \in Buyers, NEW r, Orders(b, r)
  PROVE  CallsInv'
<1>1. PICK m : m = [buyer |-> b, try |-> tries[b], row |-> r]
  OBVIOUS
<1>2. m.buyer = b /\ m.try = tries[b] /\ sent' = sent \cup {m} /\ tries[b] \in Nat
  BY <1>1, CallTypes DEF Orders
<1>3. /\ pc[b] = "choose" /\ pc'[b] = "wait" /\ \A c \in Buyers \ {b} : pc'[c] = pc[c]
      /\ UNCHANGED <<contracts, tries, verdict>>
  BY DEF Orders, TypeOK
<1>4. \A x \in sent \cup contracts : ~Of(x, b, tries[b])
  BY <1>3 DEF CallsInv, Fresh
<1>5. Past'
  BY <1>2, <1>3 DEF CallsInv, Past
<1>6. Once'
  BY <1>2, <1>3, <1>4 DEF CallsInv, Once, Of
<1>7. Fresh'
  BY <1>2, <1>3 DEF CallsInv, Fresh, Of
<1>8. Told'
  BY <1>3 DEF CallsInv, Told
<1>9. Reliable'
  <2> SUFFICES ASSUME NEW c \in Buyers \ Lossy PROVE Served(c)'
    BY DEF Reliable
  <2>1. Served(c)
    BY DEF CallsInv, Reliable
  <2>2. CASE c = b
    <3>1. \A x \in sent \cup contracts : x.buyer # b
      BY <1>3, <2>1, <2>2 DEF Served
    <3> QED
      BY <1>2, <1>3, <2>2, <3>1 DEF Served
  <2>3. CASE c # b
    BY <1>2, <1>3, <2>1, <2>3 DEF Served
  <2> QED
    BY <2>2, <2>3
<1>10. Ends'
  BY <1>3, CallTypes DEF CallsInv, Ends
<1> QED
  BY <1>5, <1>6, <1>7, <1>8, <1>9, <1>10 DEF CallsInv

\* An attempt that fails: none of its requests or contracts is left when the
\* next one begins.
LEMMA RetryCalls ==
  ASSUME TypeOK, CallsInv, NEW b \in Buyers, Retry(b),
         pc[b] = "wait", sent' \subseteq sent, UNCHANGED <<contracts, verdict>>,
         b \notin Lossy => \A m \in sent' : m.buyer # b
  PROVE  CallsInv'
<1>1. /\ pc'[b] \in {"list", "gave up"} /\ \A c \in Buyers \ {b} : pc'[c] = pc[c]
      /\ \A c \in Buyers \ {b} : tries'[c] = tries[c]
      /\ b \in PyBuyers => tries'[b] = tries[b] + 1
      /\ b \notin PyBuyers => tries'[b] = tries[b]
      /\ \A c \in Buyers : tries[c] \in Nat /\ tries'[c] \in Nat /\ tries[c] <= tries'[c]
  <2>1. tries \in [Buyers -> Nat] /\ DOMAIN pc = Buyers
    BY DEF TypeOK
  <2>2. pc'[b] \in {"list", "gave up"} /\ \A c \in Buyers \ {b} : pc'[c] = pc[c]
    BY <2>1 DEF Retry, TypeOK
  <2>3. CASE b \in PyBuyers
    <3>1. tries' = [tries EXCEPT ![b] = tries[b] + 1]
      BY <2>3 DEF Retry
    <3>2. \A c \in Buyers : tries[c] \in Nat
      BY <2>1
    <3>3. tries'[b] = tries[b] + 1 /\ \A c \in Buyers \ {b} : tries'[c] = tries[c]
      BY <2>1, <3>1
    <3>4. \A c \in Buyers : tries'[c] \in Nat /\ tries[c] <= tries'[c]
      BY <3>2, <3>3
    <3> QED
      BY <2>2, <2>3, <3>2, <3>3, <3>4
  <2>4. CASE b \notin PyBuyers
    BY <2>1, <2>2, <2>4 DEF Retry
  <2> QED
    BY <2>3, <2>4
<1>2. ASSUME NEW x \in sent' \cup contracts
      PROVE  ~Of(x, b, tries'[b])
  <2>1. CASE b \in PyBuyers
    <3>1. x.buyer \in Buyers /\ x.try \in Nat /\ x.try <= tries[x.buyer]
      BY <1>2, CallTypes DEF CallsInv, Past
    <3>2. tries'[b] = tries[b] + 1 /\ tries[b] \in Nat
      BY <1>1, <2>1
    <3>3. x.buyer = b => x.try <= tries[b]
      BY <3>1
    <3>4. x.buyer = b => x.try # tries'[b]
      BY <3>1, <3>2, <3>3
    <3> QED
      BY <3>4 DEF Of
  <2>2. CASE b \notin PyBuyers
    <3>1. b \notin Lossy
      BY <2>2, ClientsAssumption
    <3>2. CASE x \in sent'
      BY <3>1, <3>2 DEF Of
    <3>3. CASE x \in contracts
      BY <3>1, <3>3 DEF CallsInv, Reliable, Served, Of
    <3> QED
      BY <1>2, <3>2, <3>3
  <2> QED
    BY <2>1, <2>2
<1>3. Past'
  <2>1. ASSUME NEW x \in sent \cup contracts
        PROVE  x.try <= tries'[x.buyer]
    <3>1. x.buyer \in Buyers /\ x.try \in Nat /\ x.try <= tries[x.buyer]
      BY <2>1, CallTypes DEF CallsInv, Past
    <3>2. /\ tries[x.buyer] \in Nat /\ tries'[x.buyer] \in Nat
          /\ tries[x.buyer] <= tries'[x.buyer]
      BY <1>1, <3>1
    <3> QED
      BY <3>1, <3>2
  <2> QED
    BY <2>1 DEF Past
<1>4. Once'
  BY DEF CallsInv, Once, Of
<1>5. Fresh'
  <2> SUFFICES ASSUME NEW c \in Buyers, pc'[c] \in {"list", "choose"},
                      NEW x \in sent' \cup contracts'
               PROVE  ~Of(x, c, tries'[c])
    BY DEF Fresh, Of
  <2>1. CASE c = b
    BY <1>2, <2>1
  <2>2. CASE c # b
    BY <1>1, <2>2 DEF CallsInv, Fresh
  <2> QED
    BY <2>1, <2>2
<1>6. Told'
  BY <1>1 DEF CallsInv, Told, Of
<1>7. Reliable'
  <2> SUFFICES ASSUME NEW c \in Buyers \ Lossy PROVE Served(c)'
    BY DEF Reliable
  <2>1. Served(c)
    BY DEF CallsInv, Reliable
  <2>2. CASE c = b
    <3>1. \A x \in sent' \cup contracts : x.buyer # b
      BY <2>1, <2>2 DEF Served
    <3> QED
      BY <1>1, <2>2, <3>1 DEF Served
  <2>3. CASE c # b
    BY <1>1, <2>1, <2>3 DEF Served
  <2> QED
    BY <2>2, <2>3
<1>8. Ends'
  BY <1>1, CallTypes DEF CallsInv, Ends
<1> QED
  BY <1>3, <1>4, <1>5, <1>6, <1>7, <1>8 DEF CallsInv

\* A request that nobody waits for is refused.
LEMMA IgnoredCalls ==
  ASSUME TypeOK, CallsInv, sent' \subseteq sent,
         UNCHANGED <<contracts, pc, tries, verdict>>
  PROVE  CallsInv'
<1>1. Past' /\ Once'
  BY DEF CallsInv, Past, Once, Of
<1>2. Fresh' /\ Told' /\ Ends'
  BY DEF CallsInv, Fresh, Told, Ends, Of
<1>3. ASSUME NEW b \in Buyers \ Lossy
      PROVE  Served(b)'
  <2>1. Served(b)
    BY DEF CallsInv, Reliable
  <2> QED
    BY <2>1 DEF Served
<1> QED
  BY <1>1, <1>2, <1>3 DEF CallsInv, Reliable

\* A sale: the contract takes the place of the request.
LEMMA SoldCalls ==
  ASSUME TypeOK, RowsInv, CallsInv, NEW i, NEW m \in sent, Sells(i, m),
         sent' = sent \ {m}, UNCHANGED <<tries, verdict>>,
         pc' = IF Awaited(m) THEN [pc EXCEPT ![m.buyer] = "check"] ELSE pc
  PROVE  CallsInv'
<1>1. PICK c : /\ contracts' = contracts \cup {c} /\ c \notin contracts
               /\ c.buyer = m.buyer /\ c.try = m.try
  BY SaleContract
<1>2. m.buyer \in Buyers /\ m.try \in Nat
  BY CallTypes
<1>3. \A b \in Buyers : pc'[b] = pc[b] \/ (b = m.buyer /\ pc[b] = "wait" /\ pc'[b] = "check"
                                           /\ m.try = tries[b])
  BY <1>2 DEF Awaited, TypeOK
<1>4. Past'
  BY <1>1 DEF CallsInv, Past
<1>5. Once'
  BY <1>1 DEF CallsInv, Once, Of
<1>6. Fresh'
  BY <1>1, <1>3 DEF CallsInv, Fresh, Of
<1>7. Told'
  BY <1>1, <1>3 DEF CallsInv, Told, Of
<1>8. Reliable'
  <2> SUFFICES ASSUME NEW b \in Buyers \ Lossy PROVE Served(b)'
    BY DEF Reliable
  <2>1. Served(b)
    BY DEF CallsInv, Reliable
  <2>2. CASE b # m.buyer
    BY <1>1, <1>3, <2>1, <2>2 DEF Served
  <2>3. CASE b = m.buyer
    <3>1. /\ \A k \in sent' : k.buyer # b
          /\ \A d \in contracts : d.buyer # b
          /\ pc[b] \in {"wait", "crashed"}
          /\ pc[b] = "wait" => m.try = tries[b]
      BY <2>1, <2>3 DEF Served
    <3>2. pc[b] = "wait" => pc'[b] = "check"
      BY <1>2, <2>3, <3>1 DEF Awaited, TypeOK
    <3>3. pc'[b] \in {"check", "crashed"}
      BY <1>3, <3>1, <3>2
    <3> QED
      BY <1>1, <3>1, <3>3 DEF Served
  <2> QED
    BY <2>2, <2>3
<1>9. Ends'
  BY <1>3, CallTypes DEF CallsInv, Ends
<1> QED
  BY <1>4, <1>5, <1>6, <1>7, <1>8, <1>9 DEF CallsInv

\* RunnerEnds: the verdict is "0" only if every buyer is done.
LEMMA VerdictCalls ==
  ASSUME TypeOK, CallsInv, RunnerEnds
  PROVE  CallsInv'
<1>1. UNCHANGED <<rows, contracts, sent, pc, listed, tries>>
  BY DEF RunnerEnds, server
<1>2. Past' /\ Once' /\ Fresh' /\ Told'
  BY <1>1 DEF CallsInv, Past, Once, Fresh, Told
<1>3. Reliable'
  BY <1>1 DEF CallsInv, Reliable, Served
<1>4. Ends'
  BY <1>1 DEF RunnerEnds, Verdict, Ended, Ends
<1> QED
  BY <1>2, <1>3, <1>4 DEF CallsInv

LEMMA CallsStep == TypeOK /\ RowsInv /\ CallsInv /\ [Next]_vars => CallsInv'
<1> SUFFICES ASSUME TypeOK, RowsInv, CallsInv, [Next]_vars PROVE CallsInv'
  OBVIOUS
<1>1. ASSUME NEW b \in Buyers, Break(b)
      PROVE  CallsInv'
  BY <1>1, RetryCalls DEF Break, server
<1>2. ASSUME NEW m \in sent, Purchase(m)
      PROVE  CallsInv'
  <2>1. m.buyer \in Buyers /\ sent' = sent \ {m} /\ verdict' = verdict
    BY <1>2, CallTypes DEF Purchase
  <2>2. CASE CanSell(RowFor(m))
    <3>1. PICK i : i = RowFor(m)
      OBVIOUS
    <3>2. /\ Sells(i, m) /\ tries' = tries
          /\ pc' = IF Awaited(m) THEN [pc EXCEPT ![m.buyer] = "check"] ELSE pc
      BY <1>2, <2>2, <3>1 DEF Purchase, Sells
    <3> QED
      BY <2>1, <3>2, SoldCalls
  <2>3. CASE ~CanSell(RowFor(m)) /\ Awaited(m)
    <3>1. Retry(m.buyer) /\ contracts' = contracts /\ pc[m.buyer] = "wait"
      BY <1>2, <2>3 DEF Purchase, server, Awaited
    <3>2. m.buyer \notin Lossy => \A k \in sent' : k.buyer # m.buyer
      BY <2>1 DEF CallsInv, Reliable, Served
    <3> QED
      BY <2>1, <3>1, <3>2, RetryCalls
  <2>4. CASE ~CanSell(RowFor(m)) /\ ~Awaited(m)
    BY <1>2, <2>1, <2>4, IgnoredCalls DEF Purchase, server
  <2> QED
    BY <2>2, <2>3, <2>4
<1> QED
  BY <1>1, <1>2, MovesSteps, MovesCalls, OrderCalls, VerdictCalls

LEMMA CallsInvariance == Spec => []CallsInv
<1>1. Init => CallsInv
  BY ClientsAssumption
     DEF Init, CallsInv, Past, Once, Fresh, Told, Reliable, Served, Ends
<1> QED
  BY <1>1, CallsStep, RowsInvariance, TypeCorrect, PTL DEF Spec

\* A buyer whose calls are all answered never buys twice, and knows whether it
\* has bought.
THEOREM OneContract == Spec => []OneContractEach
<1>1. TypeOK /\ RowsInv /\ CallsInv => OneContractEach
  <2> SUFFICES ASSUME TypeOK, RowsInv, CallsInv, NEW b \in Buyers \ Lossy
               PROVE  /\ Cardinality(ContractsOf(b)) <= 1
                      /\ pc[b] \in {"check", "done"} => ContractsOf(b) # {}
                      /\ pc[b] \in {"list", "choose", "wait", "gave up"} => ContractsOf(b) = {}
    BY DEF OneContractEach
  <2>1. Served(b) /\ (pc[b] \in {"check", "done"} => \E c \in contracts : c.buyer = b)
    BY DEF CallsInv, Reliable, Told, Of
  <2>2. ContractsOf(b) = {} \/ \E c : ContractsOf(b) = {c}
    BY <2>1 DEF Served, ContractsOf
  <2>3. Cardinality(ContractsOf(b)) <= 1
    <3>1. CASE ContractsOf(b) = {}
      BY <3>1, FS_EmptySet
    <3>2. CASE \E c : ContractsOf(b) = {c}
      <4>1. Cardinality(ContractsOf(b)) = 1
        BY <3>2, FS_Singleton
      <4> QED
        BY <4>1
    <3> QED
      BY <2>2, <3>1, <3>2
  <2> QED
    BY <2>1, <2>3 DEF Served, ContractsOf
<1> QED
  BY <1>1, CallsInvariance, RowsInvariance, TypeCorrect, PTL

\* Runner.run returns 0 only if every buyer holds a contract.
THEOREM VerdictCorrect == Spec => []VerdictIsTrue
<1>1. TypeOK /\ CallsInv => VerdictIsTrue
  BY CallTypes DEF CallsInv, Ends, Told, Of, VerdictIsTrue, ContractsOf
<1> QED
  BY <1>1, CallsInvariance, TypeCorrect, PTL

\* A buyer has at most one contract per attempt, also when its connection
\* breaks, and offers are never oversold.
THEOREM SalesBounded == Spec => []NoMoreThanTried
<1>1. TypeOK /\ RowsInv /\ CallsInv => NoMoreThanTried
  <2> SUFFICES ASSUME TypeOK, RowsInv, CallsInv PROVE NoMoreThanTried
    OBVIOUS
  <2>1. ASSUME NEW b \in Buyers
        PROVE  Cardinality(ContractsOf(b)) <= tries[b] + 1
    <3> DEFINE S == ContractsOf(b)
               T == 0 .. tries[b]
               f == [c \in S |-> c.try]
    <3>1. tries[b] \in Nat /\ \A c \in S : c.try \in Nat /\ c.try <= tries[b]
      BY CallTypes DEF ContractsOf, CallsInv, Past
    <3>2. \A c, d \in S : c.try = d.try => c = d
      BY DEF ContractsOf, CallsInv, Once, Of
    <3>3. f \in Injection(S, T)
      <4>1. f \in [S -> T]
        BY <3>1
      <4> QED
        BY <3>2, <4>1 DEF Injection, IsInjective
    <3>4. IsFiniteSet(T) /\ Cardinality(T) = tries[b] + 1
      BY <3>1, FS_Interval
    <3> QED
      BY <3>3, <3>4, FS_Injection
  <2>2. \A i \in Available :
          Cardinality({c \in contracts : rows[c.number].good = rows[i].good}) + rows[i].left = Units
    BY DEF RowsInv, ContractsFor
  <2> QED
    BY <2>1, <2>2 DEF NoMoreThanTried
<1> QED
  BY <1>1, CallsInvariance, RowsInvariance, TypeCorrect, PTL
-----------------------------------------------------------------------------
(* GivesUpOutbid: an attempt of a buyer whose connection holds fails only  *)
(* because another buyer bought what it had listed, or nothing was left.   *)

Others(b) == Cardinality(ContractsOfOthers(b))

\* the walk of get_derived ends, and buyers name rows that exist
ChainsEnd == \A i \in Ids : \E j \in Available : rows[j].good = rows[i].good
Named == (\A b \in Buyers : listed[b] \subseteq Ids) /\ (\A m \in sent : m.row \in Ids)

\* if row r is gone, another buyer has bought for this attempt too
Gone(b, r) == ~IsAvailable(r) => tries[b] + 1 <= Others(b)

Outbid(b) ==
  /\ pc[b] = "gave up" => tries[b] = Attempts
  /\ \/ SoldOut
     \/ /\ tries[b] <= Others(b)
        /\ pc[b] = "choose" => \A r \in listed[b] : Gone(b, r)
        /\ pc[b] = "wait" => \A m \in sent : m.buyer = b => Gone(b, m.row)

OutbidInv == ChainsEnd /\ Named /\ \A b \in PyBuyers \ Lossy : Outbid(b)

\* What a new offer and a sale do to the rows that are available.
LEMMA AddsAvailable ==
  ASSUME TypeOK, RowsInv, Adds
  PROVE  /\ Ids \subseteq Ids' /\ \A i \in Ids : IsAvailable(i)' <=> IsAvailable(i)
         /\ SoldOut => SoldOut'
         /\ ChainsEnd => ChainsEnd'
<1>1. PICK n : n = Len(rows) + 1
  OBVIOUS
<1>2. /\ n \in Nat /\ Ids' = Ids \cup {n}
      /\ \A i \in Ids : rows'[i] = rows[i]
      /\ rows'[n].good = n
      /\ \A i \in Ids : IsAvailable(i)' <=> IsAvailable(i) /\ rows[i].good # n
      /\ Available' = {i \in Available : rows[i].good # n} \cup {n}
  <2>1. n \in Nat /\ Units \in Nat
    BY <1>1, RowTyped, ClientsAssumption
  <2> QED
    BY <1>1, <2>1, AppendRow, AppendAvailable DEF Adds
<1>3. \A i \in Ids : rows[i].good # n
  BY <1>1, RowTyped DEF RowsInv, Ids
<1>4. Available' = Available \cup {n} /\ Available \subseteq Ids
  BY <1>2, <1>3 DEF Available
<1>5. SoldOut => SoldOut'
  BY <1>2, <1>4 DEF SoldOut
<1>6. ChainsEnd => ChainsEnd'
  BY <1>2, <1>4 DEF ChainsEnd
<1> QED
  BY <1>2, <1>3, <1>5, <1>6

LEMMA SellsAvailable ==
  ASSUME TypeOK, RowsInv, NEW i, NEW m, Sells(i, m)
  PROVE  /\ Ids \subseteq Ids' /\ i \in Available
         /\ \A r \in Ids \ {i} : IsAvailable(r) => IsAvailable(r)'
         /\ SoldOut => SoldOut'
         /\ ChainsEnd => ChainsEnd'
<1>1. PICK n, g : n = Len(rows) + 1 /\ g = rows[i].good
  OBVIOUS
<1>2. /\ i \in Ids /\ i \in Available /\ g \in Nat /\ rows[i].left >= 1
      /\ rows[i].left - 1 \in Nat
  BY <1>1, CanSellRow, RowTyped DEF Sells, CanSell
<1>3. /\ n \in Nat /\ Ids' = Ids \cup {n}
      /\ \A j \in Ids : rows'[j] = rows[j]
      /\ rows'[n].good = g
      /\ \A j \in Ids : IsAvailable(j)' <=> IsAvailable(j) /\ rows[j].good # g
      /\ Available' = {j \in Available : rows[j].good # g} \cup {n}
  BY <1>1, <1>2, AppendRow, AppendAvailable, RowTyped DEF Sells, Sale
<1>4. \A r \in Available : rows[r].good = g => r = i
  BY <1>1, <1>2, OneAvailable
<1>5. \A r \in Ids \ {i} : IsAvailable(r) => IsAvailable(r)'
  BY <1>3, <1>4 DEF Available
<1>6. SoldOut => SoldOut'
  <2> SUFFICES ASSUME NEW r \in Available, rows[r].left = 0
               PROVE  SoldOut'
    BY DEF SoldOut
  <2>1. r # i
    BY <1>2
  <2>2. r \in Available' /\ rows'[r] = rows[r]
    BY <1>3, <1>4, <2>1 DEF Available
  <2> QED
    BY <2>2 DEF SoldOut
<1>7. ChainsEnd => ChainsEnd'
  <2> SUFFICES ASSUME ChainsEnd, NEW k \in Ids'
               PROVE  \E j \in Available' : rows'[j].good = rows'[k].good
    BY DEF ChainsEnd
  <2>1. CASE rows'[k].good = g
    BY <1>3, <2>1
  <2>2. CASE rows'[k].good # g
    <3>1. k \in Ids /\ rows'[k] = rows[k]
      BY <1>3, <2>2
    <3>2. PICK j \in Available : rows[j].good = rows[k].good
      BY <3>1 DEF ChainsEnd
    <3>3. j \in Available' /\ rows'[j] = rows[j]
      BY <1>3, <2>2, <3>1, <3>2 DEF Available
    <3> QED
      BY <3>1, <3>2, <3>3
  <2> QED
    BY <2>1, <2>2
<1> QED
  BY <1>2, <1>3, <1>5, <1>6, <1>7

\* A sale counts for every other buyer.
LEMMA SellsOthers ==
  ASSUME TypeOK, RowsInv, NEW i, NEW m, Sells(i, m)
  PROVE  \A b \in Buyers :
           /\ Others(b) \in Nat
           /\ Others(b)' = IF b = m.buyer THEN Others(b) ELSE Others(b) + 1
<1>1. PICK c : contracts' = contracts \cup {c} /\ c \notin contracts /\ c.buyer = m.buyer
  BY SaleContract
<1>2. ASSUME NEW b \in Buyers
      PROVE  /\ Others(b) \in Nat
             /\ Others(b)' = IF b = m.buyer THEN Others(b) ELSE Others(b) + 1
  <2>1. IsFiniteSet(ContractsOfOthers(b)) /\ Others(b) \in Nat
    BY FS_Subset, FS_CardinalityType DEF ContractsOfOthers, RowsInv, Others
  <2>2. CASE b = m.buyer
    <3>1. ContractsOfOthers(b)' = ContractsOfOthers(b)
      BY <1>1, <2>2 DEF ContractsOfOthers
    <3> QED
      BY <2>1, <2>2, <3>1 DEF Others
  <2>3. CASE b # m.buyer
    <3>1. ContractsOfOthers(b)' = ContractsOfOthers(b) \cup {c} /\ c \notin ContractsOfOthers(b)
      BY <1>1, <2>3 DEF ContractsOfOthers
    <3>2. Cardinality(ContractsOfOthers(b)') = Others(b) + 1
      BY <2>1, <3>1, FS_AddElement DEF Others
    <3> QED
      BY <2>1, <2>3, <3>2 DEF Others
  <2> QED
    BY <2>2, <2>3
<1> QED
  BY <1>2

LEMMA RowsGrow ==
  ASSUME TypeOK, RowsInv, [Next]_vars
  PROVE  /\ Ids \subseteq Ids'
         /\ SoldOut => SoldOut'
         /\ ChainsEnd => ChainsEnd'
<1>1. CASE UNCHANGED server
  <2>1. rows' = rows
    BY <1>1 DEF server
  <2>2. Ids' = Ids
    BY <2>1 DEF Ids
  <2>3. Available' = Available
    BY <2>1, <2>2 DEF Available, IsAvailable
  <2>4. SoldOut => SoldOut'
    BY <2>1, <2>3 DEF SoldOut
  <2>5. ChainsEnd => ChainsEnd'
    BY <2>1, <2>2, <2>3 DEF ChainsEnd
  <2> QED
    BY <2>2, <2>4, <2>5
<1> QED
  BY <1>1, StepKinds, AddsAvailable, SellsAvailable

LEMMA NamedStep ==
  ASSUME TypeOK, RowsInv, Named, [Next]_vars
  PROVE  Named'
<1>1. Ids \subseteq Ids' /\ Available \subseteq Ids
  BY RowsGrow DEF Available
<1>2. (\A b \in Buyers : listed'[b] \subseteq Ids) /\ (\A m \in sent' : m.row \in Ids)
  <2> USE DEF Named, TypeOK
  <2>1. CASE SellOffer \/ RunnerEnds \/ UNCHANGED vars
    BY <2>1 DEF SellOffer, RunnerEnds, vars, server
  <2>2. ASSUME NEW b \in Buyers, List(b) \/ GetContract(b)
        PROVE  (\A c \in Buyers : listed'[c] \subseteq Ids) /\ (\A m \in sent' : m.row \in Ids)
    BY <1>1, <2>2 DEF List, GetContract
  <2>3. ASSUME NEW b \in Buyers, Choose(b)
        PROVE  (\A c \in Buyers : listed'[c] \subseteq Ids) /\ (\A m \in sent' : m.row \in Ids)
    <3>1. \A c \in Buyers : listed'[c] \subseteq Ids
      BY <2>3 DEF Choose
    <3>2. sent' = sent \/ \E r \in listed[b] :
             sent' = sent \cup {[buyer |-> b, try |-> tries[b], row |-> r]}
      BY <2>3 DEF Choose
    <3>3. \A m \in sent' : m.row \in Ids
      BY <3>2
    <3> QED
      BY <3>1, <3>3
  <2>4. ASSUME NEW b \in Buyers, Break(b)
        PROVE  (\A c \in Buyers : listed'[c] \subseteq Ids) /\ (\A m \in sent' : m.row \in Ids)
    BY <2>4 DEF Break
  <2>5. ASSUME NEW m \in sent, Purchase(m)
        PROVE  (\A c \in Buyers : listed'[c] \subseteq Ids) /\ (\A k \in sent' : k.row \in Ids)
    BY <2>5 DEF Purchase
  <2> QED
    BY <2>1, <2>2, <2>3, <2>4, <2>5 DEF Next, Step, Serve
<1> QED
  BY <1>1, <1>2 DEF Named

\* A buyer's own orders are refused only if another buyer was faster.
LEMMA RefusedOutbid ==
  ASSUME TypeOK, ChainsEnd, Named, NEW m \in sent, ~CanSell(RowFor(m)), ~SoldOut,
         Gone(m.buyer, m.row)
  PROVE  tries[m.buyer] + 1 <= Others(m.buyer)
<1>1. m.row \in Ids
  BY DEF Named
<1>2. ASSUME NEW i \in Available
      PROVE  CanSell(i)
  <2>1. rows[i].left \in Nat
    BY <1>2, RowTyped DEF Available
  <2>2. rows[i].left # 0
    BY <1>2 DEF SoldOut
  <2> QED
    BY <1>2, <2>1, <2>2 DEF CanSell
<1>3. CASE m.buyer \in Equivalent
  <2>1. Derived(m.row) \in Available
    BY <1>1 DEF Derived, ChainsEnd
  <2> QED
    BY <1>2, <1>3, <2>1 DEF RowFor
<1>4. CASE m.buyer \notin Equivalent
  <2>1. ~IsAvailable(m.row)
    BY <1>1, <1>2, <1>4 DEF RowFor, Available
  <2> QED
    BY <2>1 DEF Gone
<1> QED
  BY <1>3, <1>4

\* Nothing that happens to other buyers without a sale matters to a buyer.
LEMMA OutbidUndisturbed ==
  ASSUME NEW u \in Buyers, Outbid(u), UNCHANGED server,
         pc'[u] = pc[u] \/ pc'[u] \in {"check", "done", "crashed"},
         tries'[u] = tries[u], listed'[u] = listed[u],
         \A m \in sent' : m.buyer = u => m \in sent
  PROVE  Outbid(u)'
<1>1. /\ Others(u)' = Others(u) /\ SoldOut' = SoldOut
      /\ \A r : IsAvailable(r)' = IsAvailable(r)
  BY DEF server, Others, ContractsOfOthers, SoldOut, Available, IsAvailable, Ids
<1> QED
  BY <1>1 DEF Outbid, Gone

\* Steps of buyers.
LEMMA StepOutbid ==
  ASSUME TypeOK, CallsInv, NEW u \in PyBuyers \ Lossy, Outbid(u),
         NEW b \in Buyers, Step(b)
  PROVE  Outbid(u)'
<1>1. u \in Buyers
  BY DEF Buyers
<1>2. /\ UNCHANGED server
      /\ Others(u)' = Others(u) /\ SoldOut' = SoldOut
      /\ \A r : IsAvailable(r)' = IsAvailable(r)
  <2>1. UNCHANGED server
    BY DEF Step, List, Choose, GetContract
  <2> QED
    BY <2>1 DEF server, Others, ContractsOfOthers, SoldOut, Available, IsAvailable, Ids
<1>3. CASE List(b)
  <2>1. CASE u = b
    <3>1. pc'[u] = "choose" /\ listed'[u] = Available /\ tries' = tries /\ pc[u] = "list"
      BY <1>1, <1>3, <2>1 DEF List, TypeOK
    <3>2. \A r \in Available : IsAvailable(r)
      BY DEF Available
    <3> QED
      BY <1>2, <3>1, <3>2 DEF Outbid, Gone
  <2>2. CASE u # b
    BY <1>1, <1>2, <1>3, <2>2, OutbidUndisturbed DEF List, TypeOK
  <2> QED
    BY <2>1, <2>2
<1>4. CASE Choose(b)
  <2>1. CASE u = b
    <3>1. CASE \E r \in listed[b] :
                 /\ sent' = sent \cup {[buyer |-> b, try |-> tries[b], row |-> r]}
                 /\ pc' = [pc EXCEPT ![b] = "wait"]
      <4>1. PICK r \in listed[b] :
                 /\ sent' = sent \cup {[buyer |-> b, try |-> tries[b], row |-> r]}
                 /\ pc' = [pc EXCEPT ![b] = "wait"]
        BY <3>1
      <4>2. /\ pc[u] = "choose" /\ pc'[u] = "wait" /\ tries' = tries
        BY <1>1, <1>4, <2>1, <4>1 DEF Choose, TypeOK
      <4>3. \A m \in sent : m.buyer # u
        BY <1>1, <4>2 DEF CallsInv, Reliable, Served
      <4>4. \A m \in sent' : m.buyer = u => m.row = r
        BY <4>1, <4>3
      <4> QED
        BY <1>2, <2>1, <4>2, <4>4 DEF Outbid, Gone
    <3>2. CASE Crash(b) /\ UNCHANGED sent
      <4>1. pc'[u] = "crashed" /\ tries' = tries
        BY <1>1, <1>4, <2>1, <3>2 DEF Choose, Crash
      <4> QED
        BY <1>2, <4>1 DEF Outbid
    <3> QED
      BY <1>4, <3>1, <3>2 DEF Choose
  <2>2. CASE u # b
    <3>1. /\ pc'[u] = pc[u] \/ pc'[u] = "crashed"
          /\ tries'[u] = tries[u] /\ listed'[u] = listed[u]
          /\ \A m \in sent' : m.buyer = u => m \in sent
      BY <1>1, <1>4, <2>2 DEF Choose, Crash, TypeOK
    <3> QED
      BY <1>1, <1>2, <3>1, OutbidUndisturbed
  <2> QED
    BY <2>1, <2>2
<1>5. CASE GetContract(b)
  BY <1>1, <1>2, <1>5, OutbidUndisturbed DEF GetContract, Crash, TypeOK
<1> QED
  BY <1>3, <1>4, <1>5 DEF Step

\* A refused order, by its buyer.
LEMMA RefusalOutbid ==
  ASSUME TypeOK, CallsInv, ChainsEnd, Named, NEW u \in PyBuyers \ Lossy, Outbid(u),
         NEW m \in sent, m.buyer = u, Awaited(m), ~CanSell(RowFor(m)),
         UNCHANGED server, Retry(u), sent' \subseteq sent
  PROVE  Outbid(u)'
<1>1. u \in Buyers
  BY DEF Buyers
<1>2. Others(u)' = Others(u) /\ SoldOut' = SoldOut
  BY DEF server, Others, ContractsOfOthers, SoldOut, Available, IsAvailable, Ids
<1>3. /\ tries'[u] = tries[u] + 1
      /\ pc'[u] = IF tries[u] + 1 = Attempts THEN "gave up" ELSE "list"
  <2>1. DOMAIN tries = Buyers /\ DOMAIN pc = Buyers
    BY DEF TypeOK
  <2> QED
    BY <1>1, <2>1 DEF Retry
<1>4. ~SoldOut => tries[u] + 1 <= Others(u)
  BY RefusedOutbid DEF Outbid, Awaited
<1> QED
  BY <1>2, <1>3, <1>4 DEF Outbid

\* A sale is a loss to the others only of the row it sells.
LEMMA SaleOutbid ==
  ASSUME TypeOK, RowsInv, CallsInv, Named, NEW u \in PyBuyers \ Lossy, Outbid(u),
         NEW m \in sent, NEW i, Sells(i, m), UNCHANGED <<tries, listed>>,
         sent' \subseteq sent,
         pc' = IF Awaited(m) THEN [pc EXCEPT ![m.buyer] = "check"] ELSE pc
  PROVE  Outbid(u)'
<1>1. u \in Buyers /\ tries[u] \in Nat /\ m.buyer \in Buyers
  BY CallTypes
<1>2. /\ Others(u) \in Nat
      /\ Others(u)' = IF u = m.buyer THEN Others(u) ELSE Others(u) + 1
      /\ SoldOut => SoldOut'
      /\ \A r \in Ids \ {i} : IsAvailable(r) => IsAvailable(r)'
  BY <1>1, SellsOthers, SellsAvailable
<1>3. CASE u = m.buyer
  <2>1. pc'[u] \in {"check", "crashed"}
    <3>1. pc[u] \in {"wait", "crashed"} /\ (pc[u] = "wait" => m.try = tries[u])
      BY <1>1, <1>3 DEF CallsInv, Reliable, Served
    <3> QED
      BY <1>1, <1>3, <3>1 DEF Awaited, TypeOK
  <2> QED
    BY <1>2, <1>3, <2>1 DEF Outbid
<1>4. CASE u # m.buyer
  <2>1. pc'[u] = pc[u]
    BY <1>1, <1>4 DEF TypeOK
  <2>2. CASE SoldOut
    BY <1>2, <2>1, <2>2 DEF Outbid
  <2>3. CASE ~SoldOut
    <3>1. tries[u] <= Others(u) /\ Others(u)' = Others(u) + 1
      BY <1>2, <1>4, <2>3 DEF Outbid
    <3>2. \A r \in Ids : tries[u] + 1 <= Others(u)'
      BY <1>1, <1>2, <3>1
    <3>3. tries[u] <= Others(u)'
      BY <1>1, <1>2, <3>1
    <3>4. /\ pc[u] = "choose" => \A r \in listed[u] : Gone(u, r)'
          /\ pc[u] = "wait" => \A k \in sent' : k.buyer = u => Gone(u, k.row)'
      BY <1>1, <3>2 DEF Gone, Named
    <3> QED
      BY <2>1, <3>3, <3>4 DEF Outbid, Gone
  <2> QED
    BY <2>2, <2>3
<1> QED
  BY <1>3, <1>4

LEMMA OutbidStep ==
  TypeOK /\ RowsInv /\ CallsInv /\ OutbidInv /\ [Next]_vars => OutbidInv'
<1> SUFFICES ASSUME TypeOK, RowsInv, CallsInv, OutbidInv, [Next]_vars PROVE OutbidInv'
  OBVIOUS
<1>1. ChainsEnd' /\ Named'
  BY RowsGrow, NamedStep DEF OutbidInv
<1>2. ASSUME NEW u \in PyBuyers \ Lossy
      PROVE  Outbid(u)'
  <2>1. u \in Buyers /\ Outbid(u) /\ ChainsEnd /\ Named
    BY DEF OutbidInv, Buyers
  <2>2. CASE SellOffer
    <3>1. Adds /\ UNCHANGED <<contracts, sent, pc, listed, tries>>
      BY <2>2 DEF SellOffer, Adds
    <3>2. /\ Others(u)' = Others(u) /\ (SoldOut => SoldOut')
          /\ \A i \in Ids : IsAvailable(i)' <=> IsAvailable(i)
      BY <3>1, AddsAvailable DEF Others, ContractsOfOthers
    <3> QED
      BY <2>1, <3>1, <3>2 DEF Outbid, Gone, Named
  <2>3. ASSUME NEW b \in Buyers, Step(b)
        PROVE  Outbid(u)'
    BY <2>1, <2>3, StepOutbid
  <2>4. ASSUME NEW b \in Buyers, Break(b)
        PROVE  Outbid(u)'
    <3>1. u # b
      BY <2>4 DEF Break
    <3>2. /\ pc'[u] = pc[u] /\ tries'[u] = tries[u]
          /\ UNCHANGED <<server, listed>> /\ sent' \subseteq sent
      BY <2>1, <2>4, <3>1 DEF Break, Retry, TypeOK
    <3> QED
      BY <2>1, <3>2, OutbidUndisturbed
  <2>5. ASSUME NEW m \in sent, Purchase(m)
        PROVE  Outbid(u)'
    <3>1. sent' \subseteq sent /\ listed' = listed /\ m.buyer \in Buyers
      BY <2>5, CallTypes DEF Purchase
    <3>2. CASE CanSell(RowFor(m))
      <4>1. PICK i : i = RowFor(m)
        OBVIOUS
      <4>2. /\ Sells(i, m) /\ tries' = tries
            /\ pc' = IF Awaited(m) THEN [pc EXCEPT ![m.buyer] = "check"] ELSE pc
        BY <2>5, <3>2, <4>1 DEF Purchase, Sells
      <4> QED
        BY <2>1, <3>1, <4>2, SaleOutbid
    <3>3. CASE ~CanSell(RowFor(m)) /\ Awaited(m) /\ m.buyer = u
      BY <2>1, <2>5, <3>1, <3>3, RefusalOutbid DEF Purchase
    <3>4. CASE ~CanSell(RowFor(m)) /\ ~(Awaited(m) /\ m.buyer = u)
      <4>1. /\ pc'[u] = pc[u] /\ tries'[u] = tries[u] /\ UNCHANGED server
        BY <2>1, <2>5, <3>1, <3>4 DEF Purchase, Retry, TypeOK
      <4> QED
        BY <2>1, <3>1, <4>1, OutbidUndisturbed
    <3> QED
      BY <3>2, <3>3, <3>4
  <2>6. CASE RunnerEnds \/ UNCHANGED vars
    BY <2>1, <2>6, OutbidUndisturbed DEF RunnerEnds, vars, server
  <2> QED
    BY <2>2, <2>3, <2>4, <2>5, <2>6 DEF Next, Serve
<1> QED
  BY <1>1, <1>2 DEF OutbidInv

\* A buyer whose calls are all answered gives up only when nothing is left of an
\* offer or other buyers have bought at least as often as it tried.
THEOREM GivesUp == Spec => []GivesUpOutbid
<1>1. Init => OutbidInv
  <2> SUFFICES ASSUME Init PROVE OutbidInv
    OBVIOUS
  <2>1. ChainsEnd /\ Named
    BY DEF Init, ChainsEnd, Named, Ids
  <2>2. ASSUME NEW u \in PyBuyers \ Lossy
        PROVE  Outbid(u)
    <3>1. ContractsOfOthers(u) = {} /\ tries[u] = 0 /\ pc[u] = "list"
      BY DEF Init, ContractsOfOthers, Buyers
    <3>2. Others(u) = 0
      BY <3>1, FS_EmptySet DEF Others
    <3> QED
      BY <3>1, <3>2 DEF Outbid
  <2> QED
    BY <2>1, <2>2 DEF OutbidInv
<1>2. OutbidInv => GivesUpOutbid
  BY ClientsAssumption DEF OutbidInv, Outbid, Others, GivesUpOutbid
<1> QED
  BY <1>1, <1>2, OutbidStep, CallsInvariance, RowsInvariance, TypeCorrect, PTL DEF Spec
-----------------------------------------------------------------------------
(* The server that the buyers see implements SpotMarket.                   *)

GoodOf(i) == [good |-> rows[i].good, prof |-> <<rows[i].left>>]
SaleOf(c) == [good |-> rows[c.number].good, number |-> c.number, buyer |-> c.buyer,
              demand |-> OneUnit]

\* One unit fits a good of which anything is left, and leaves one less.
LEMMA UnitFits ==
  ASSUME NEW l \in Nat, l >= 1
  PROVE  Spot!Contains(<<l>>, OneUnit) /\ Spot!Purchase(<<l>>, OneUnit) = <<l - 1>>
<1>1. PICK d : d = OneUnit
  OBVIOUS
<1>2. d.start = 0 /\ d.prof = <<1>>
  BY <1>1 DEF OneUnit
<1>3. Spot!Offset(d) = 0
  BY <1>2 DEF Spot!Offset
<1>4. Spot!Contains(<<l>>, d)
  BY <1>2, <1>3 DEF Spot!Contains
<1>5. Spot!At(d, 1) = 1
  BY <1>2, <1>3 DEF Spot!At
<1>6. Spot!Purchase(<<l>>, d) = <<l - 1>>
  <2>1. Spot!Purchase(<<l>>, d) = [k \in 1 .. 1 |-> <<l>>[k] - Spot!At(d, k)]
    BY DEF Spot!Purchase
  <2>2. \A k \in 1 .. 1 : k = 1
    OBVIOUS
  <2>3. Spot!Purchase(<<l>>, d) = [k \in 1 .. 1 |-> l - 1]
    BY <1>5, <2>1, <2>2
  <2> QED
    BY <2>3
<1> QED
  BY <1>1, <1>4, <1>6

\* The contracts of earlier steps are the same sales after a step.
LEMMA SalesKept ==
  ASSUME TypeOK, RowsInv, NEW r, rows' = Append(rows, r), r \in [good : Nat, left : Nat]
  PROVE  \A c \in contracts : SaleOf(c)' = SaleOf(c)
<1>1. \A c \in contracts : c.number \in Ids
  BY DEF RowsInv
<1>2. \A i \in Ids : rows'[i] = rows[i]
  BY AppendProperties DEF Ids, TypeOK
<1> QED
  BY <1>1, <1>2 DEF SaleOf, OneUnit

LEMMA AddsLists ==
  ASSUME TypeOK, RowsInv, Adds
  PROVE  Spot!SpotNext
<1>1. PICK n : n = Len(rows) + 1
  OBVIOUS
<1>2. n \in Nat /\ Units \in Nat
  BY <1>1, RowTyped, ClientsAssumption
<1>3. /\ n \notin Ids
      /\ \A i \in Ids : rows'[i] = rows[i] /\ rows[i].good # n
      /\ rows'[n].good = n /\ rows'[n].left = Units
      /\ Available' = {i \in Available : rows[i].good # n} \cup {n}
  <2>1. \A i \in Ids : rows'[i] = rows[i] /\ i < n /\ i \in Nat
    BY <1>1, <1>2, AppendRow, RowTyped DEF Adds
  <2>2. \A i \in Ids : rows[i].good # n
    BY <1>2, <2>1, RowTyped DEF RowsInv
  <2> QED
    BY <1>1, <1>2, <2>1, <2>2, AppendRow, AppendAvailable DEF Adds
<1>4. PICK s : s = [good |-> n, prof |-> <<Units>>]
  OBVIOUS
<1>5. spotStock' = spotStock \cup {s}
  <2>1. Available' = Available \cup {n} /\ Available \subseteq Ids
    BY <1>3 DEF Available
  <2>2. \A i \in Available : GoodOf(i)' = GoodOf(i)
    BY <1>3, <2>1 DEF GoodOf
  <2>3. GoodOf(n)' = s
    BY <1>3, <1>4 DEF GoodOf
  <2>4. spotStock = {GoodOf(i) : i \in Available} /\ spotStock' = {GoodOf(i)' : i \in Available'}
    BY DEF spotStock, GoodOf
  <2> QED
    BY <2>1, <2>2, <2>3, <2>4
<1>6. spotSales' = spotSales
  <2>1. contracts' = contracts /\ \A c \in contracts : SaleOf(c)' = SaleOf(c)
    BY <1>1, <1>2, SalesKept DEF Adds
  <2>2. spotSales = {SaleOf(c) : c \in contracts} /\ spotSales' = {SaleOf(c)' : c \in contracts'}
    BY DEF spotSales, SaleOf, OneUnit
  <2> QED
    BY <2>1, <2>2
<1>7. \A x \in spotStock : x.good # n
  BY <1>3 DEF spotStock, Available
<1>8. Spot!List(s.good, s.prof)
  BY <1>4, <1>5, <1>6, <1>7 DEF Spot!List
<1>9. s \in spotStock' /\ s.prof \in {<<Units>>}
  BY <1>4, <1>5
<1> QED
  BY <1>8, <1>9 DEF Spot!SpotNext

LEMMA SellsUnit ==
  ASSUME TypeOK, RowsInv, NEW m \in sent, NEW i, Sells(i, m)
  PROVE  Spot!SpotNext
<1>1. PICK n, g, l : n = Len(rows) + 1 /\ g = rows[i].good /\ l = rows[i].left
  OBVIOUS
<1>2. /\ i \in Ids /\ i \in Available /\ g \in Nat /\ l \in Nat /\ l - 1 \in Nat /\ l >= 1
      /\ rows' = Append(rows, [good |-> g, left |-> l - 1])
      /\ m.buyer \in Buyers
  BY <1>1, CanSellRow, RowTyped, CallTypes DEF Sells, CanSell, Sale
<1>3. /\ n \notin Ids
      /\ \A j \in Ids : rows'[j] = rows[j]
      /\ rows'[n].good = g /\ rows'[n].left = l - 1
      /\ Available' = {j \in Available : rows[j].good # g} \cup {n}
  BY <1>1, <1>2, AppendRow, AppendAvailable
<1>4. PICK c : contracts' = contracts \cup {c} /\ c.number = i /\ c.buyer = m.buyer
  BY SaleContract
<1>5. PICK s, t, x : /\ s = [good |-> g, prof |-> <<l>>]
                     /\ t = [good |-> g, prof |-> <<l - 1>>]
                     /\ x = [good |-> g, number |-> i, buyer |-> m.buyer, demand |-> OneUnit]
  OBVIOUS
<1>6. spotStock = {GoodOf(j) : j \in Available} /\ spotStock' = {GoodOf(j)' : j \in Available'}
  BY DEF spotStock, GoodOf
<1>7. s \in spotStock
  BY <1>1, <1>2, <1>5, <1>6 DEF GoodOf
<1>8. spotStock' = (spotStock \ {s}) \cup {t}
  <2>1. \A j \in Available : j \in Ids /\ (rows[j].good = g <=> j = i)
    BY <1>1, <1>2, OneAvailable DEF Available
  <2>2. Available' = (Available \ {i}) \cup {n}
    BY <1>3, <2>1
  <2>3. \A j \in Available : GoodOf(j)' = GoodOf(j)
    BY <1>3, <2>1 DEF GoodOf
  <2>4. GoodOf(n)' = t /\ GoodOf(i) = s
    BY <1>1, <1>3, <1>5 DEF GoodOf
  <2>5. \A j \in Available : GoodOf(j) = s <=> j = i
    BY <1>5, <2>1, <2>4 DEF GoodOf
  <2> QED
    BY <1>6, <2>2, <2>3, <2>4, <2>5
<1>9. spotSales' = spotSales \cup {x}
  <2>1. \A e \in contracts : SaleOf(e)' = SaleOf(e)
    BY <1>2, SalesKept
  <2>2. SaleOf(c)' = x
    BY <1>1, <1>2, <1>3, <1>4, <1>5 DEF SaleOf, OneUnit
  <2>3. spotSales = {SaleOf(e) : e \in contracts} /\ spotSales' = {SaleOf(e)' : e \in contracts'}
    BY DEF spotSales, SaleOf, OneUnit
  <2> QED
    BY <1>4, <2>1, <2>2, <2>3
<1>10. \A y \in spotSales : y.number # i
  BY <1>2 DEF spotSales, RowsInv, Available
<1>11. Spot!Sell(s, x.buyer, x.demand, x.number)
  <2>1. Spot!Contains(s.prof, x.demand) /\ Spot!Purchase(s.prof, x.demand) = <<l - 1>>
    BY <1>2, <1>5, UnitFits
  <2>2. t = [s EXCEPT !.prof = Spot!Purchase(s.prof, x.demand)]
    BY <1>5, <2>1
  <2>3. x = [good |-> s.good, number |-> x.number, buyer |-> x.buyer, demand |-> x.demand]
        /\ x.number = i
    BY <1>5
  <2> QED
    BY <1>8, <1>9, <1>10, <2>1, <2>2, <2>3 DEF Spot!Sell
<1>12. x \in spotSales' /\ x.buyer \in Buyers
  BY <1>2, <1>5, <1>9
<1> QED
  BY <1>7, <1>11, <1>12 DEF Spot!SpotNext

\* The market that the buyers call sells like SpotMarket: a unit at a time out of
\* a good, each under a number of its own, for any number of buyers and offers
\* and whatever requests are repeated, lost or served too late.
THEOREM ClientsSpotRefinement == Spec => ImplementsSpotMarket
<1>1. Init => Spot!SpotInit
  BY DEF Init, Spot!SpotInit, spotStock, spotSales, Available, Ids
<1>2. TypeOK /\ RowsInv /\ [Next]_vars => [Spot!SpotNext]_(Spot!spotVars)
  <2> SUFFICES ASSUME TypeOK, RowsInv, [Next]_vars
               PROVE  Spot!SpotNext \/ UNCHANGED Spot!spotVars
    OBVIOUS
  <2>1. CASE UNCHANGED server
    BY <2>1 DEF server, Spot!spotVars, spotStock, spotSales, Available, IsAvailable, Ids
  <2>2. ASSUME NEW m \in sent, Sells(RowFor(m), m)
        PROVE  Spot!SpotNext
    <3>1. PICK i : i = RowFor(m)
      OBVIOUS
    <3> QED
      BY <2>2, <3>1, SellsUnit
  <2> QED
    BY <2>1, <2>2, StepKinds, AddsLists
<1> QED
  BY <1>1, <1>2, RowsInvariance, TypeCorrect, PTL DEF Spec, ImplementsSpotMarket, Spot!SpotSpec
=============================================================================
