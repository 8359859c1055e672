--------------------------- MODULE TopologyProofs ---------------------------
(* Theorems about the topology reloader for any number of processes, any     *)
(* contracts, files, ports and attempts, with crashes.                       *)
EXTENDS Topology, FiniteSums, SequenceTheorems

\* Min of the community modules is a least element.
LEMMA MinIsLeast ==
    ASSUME NEW S \in SUBSET Nat, S # {}
    PROVE  Min(S) \in S /\ \A n \in S : Min(S) <= n
<1>1. PICK x \in S : \A y \in S : x <= y
  BY NatMin
<1>. QED  BY <1>1 DEF Min

\* An interval has one element more than the distance of its ends.
LEMMA IntervalSize ==
    ASSUME NEW a \in Nat, NEW b \in Nat, a <= b
    PROVE  Cardinality(a..b) = b - a + 1
<1>1. a \in Int /\ b \in Int
  OBVIOUS
<1>2. Cardinality(a..b) = IF a > b THEN 0 ELSE b - a + 1
  BY <1>1, FS_Interval
<1>. QED  BY <1>2

\* LowestFree finds a value, one that is not in use, and from m on if no value
\* below m is.
LEMMA LowestFreeIsFree ==
    ASSUME NEW values \in SUBSET Nat, IsFiniteSet(values), NEW m \in Nat
    PROVE  /\ LowestFree(values, m) \in Nat \ values
           /\ (\A v \in values : v >= m) => LowestFree(values, m) >= m
<1>. DEFINE lo == IF \E v \in values : v < m THEN Min(values) ELSE m
            hi == lo + Cardinality(values)
            free == {n \in lo..hi : n \notin values}
<1>1. lo \in Nat
  BY MinIsLeast
<1>2. Cardinality(values) \in Nat /\ hi \in Nat /\ hi = lo + Cardinality(values)
  <2>1. Cardinality(values) \in Nat
    BY FS_CardinalityType
  <2>. QED  BY <2>1, <1>1
<1>. HIDE DEF lo, hi
<1>3. free # {}
  <2>1. SUFFICES ASSUME lo..hi \subseteq values PROVE FALSE
    OBVIOUS
  <2>2. Cardinality(lo..hi) = Cardinality(values) + 1
    <3>1. lo <= hi
      BY <1>1, <1>2
    <3>. QED  BY <3>1, <1>1, <1>2, IntervalSize
  <2>3. Cardinality(lo..hi) <= Cardinality(values)
    BY <2>1, FS_Subset
  <2>. QED  BY <2>2, <2>3, <1>2
<1>4. free \subseteq Nat
  BY <1>1, <1>2
<1>5. Min(free) \in free /\ \A n \in free : Min(free) <= n
  BY <1>3, <1>4, MinIsLeast
<1>6. \E n \in lo..hi : n \notin values /\ \A k \in lo..(n - 1) : k \in values
  <2>1. Min(free) \in lo..hi /\ Min(free) \notin values
    BY <1>5
  <2>2. ASSUME NEW k \in lo..(Min(free) - 1) PROVE k \in values
    <3>1. k \in lo..hi /\ ~(Min(free) <= k)
      BY <1>1, <1>2, <2>1
    <3>. QED  BY <3>1, <1>5
  <2>. QED  BY <2>1, <2>2
<1>7. LowestFree(values, m) \in lo..hi /\ LowestFree(values, m) \notin values
  BY <1>6 DEF LowestFree, lo, hi
<1>8. (\A v \in values : v >= m) => lo = m
  BY DEF lo
<1>. QED  BY <1>1, <1>2, <1>7, <1>8

-----------------------------------------------------------------------------
(* LowestFree is what _find_lowest_free_value returns, for every list.       *)

Sorted(s) == \A i, j \in DOMAIN s : i <= j => s[i] <= s[j]

\* ret of the loop after each value
Rets(s, m, ret) ==
    ret = [i \in 0..Len(s) |->
              IF i = 0 THEN m
              ELSE IF ret[i - 1] < s[i] THEN ret[i - 1] ELSE s[i] + 1]

\* r is the first gap above lo in a set of values
FirstGap(values, lo, r) == r \notin values /\ \A k \in lo..(r - 1) : k \in values

\* The recursive function of the loop exists: a longer prefix of the list
\* extends what the loop does on a shorter one.
LEMMA RetsExists ==
    ASSUME NEW s \in Seq(Nat), NEW m \in Nat
    PROVE  \E ret : Rets(s, m, ret)
<1>. DEFINE Turn(ret, i) == IF i = 0 THEN m
                            ELSE IF ret[i - 1] < s[i] THEN ret[i - 1] ELSE s[i] + 1
            P == {n \in Nat : \E ret : ret = [i \in 0..n |-> Turn(ret, i)]}
<1>1. 0 \in P
  <2>1. PICK ret : ret = [i \in 0..0 |-> m]
    OBVIOUS
  <2>2. ret = [i \in 0..0 |-> Turn(ret, i)]
    BY <2>1
  <2>. QED  BY <2>2
<1>2. ASSUME NEW n \in Nat, n \in P PROVE n + 1 \in P
  <2>1. PICK f : f = [i \in 0..n |-> Turn(f, i)]
    BY <1>2
  <2>2. PICK g : g = [i \in 0..(n + 1) |-> Turn(f, i)]
    OBVIOUS
  <2>3. \A i \in 0..n : g[i] = f[i]
    BY <2>1, <2>2
  <2>4. \A i \in 0..(n + 1) : i # 0 => g[i - 1] = f[i - 1]
    BY <2>3
  <2>5. g = [i \in 0..(n + 1) |-> Turn(g, i)]
    BY <2>2, <2>4
  <2>. QED  BY <2>5
<1>. HIDE DEF P
<1>3. Nat \subseteq P
  BY <1>1, <1>2, NatSetInduction
<1>4. Len(s) \in P
  BY <1>3
<1>. QED  BY <1>4 DEF P, Rets

\* After every value, ret is the first gap in the values so far, from the
\* smallest of all or from m.
LEMMA LoopInvariant ==
    ASSUME NEW s \in Seq(Nat), Sorted(s), NEW m \in Nat, NEW ret, Rets(s, m, ret),
           NEW lo, lo = IF s[1] < m THEN s[1] ELSE m
    PROVE  \A n \in 1..Len(s) :
              ret[n] \in Nat /\ lo <= ret[n] /\ FirstGap({s[j] : j \in 1..n}, lo, ret[n])
<1>. DEFINE Good(n) == ret[n] \in Nat /\ lo <= ret[n] /\ FirstGap({s[j] : j \in 1..n}, lo, ret[n])
            P == {n \in Nat : n + 1 <= Len(s) => Good(n + 1)}
<1>1. \A i \in 1..Len(s) : s[i] \in Nat
  OBVIOUS
<1>2. \A i, j \in 1..Len(s) : i <= j => s[i] <= s[j]
  BY DEF Sorted
<1>3. ret[0] = m
  BY DEF Rets
<1>4. \A i \in 1..Len(s) :
        ret[i] = IF ret[i - 1] < s[i] THEN ret[i - 1] ELSE s[i] + 1
  <2>1. ASSUME NEW i \in 1..Len(s)
        PROVE  ret[i] = IF ret[i - 1] < s[i] THEN ret[i - 1] ELSE s[i] + 1
    <3>1. i \in 0..Len(s) /\ i # 0
      OBVIOUS
    <3>. QED  BY <3>1, Zenon DEF Rets
  <2>. QED  BY <2>1, Zenon
<1>5. 0 \in P
  <2>1. SUFFICES ASSUME 1 <= Len(s) PROVE Good(1)
    OBVIOUS
  <2>2. ret[1] = IF m < s[1] THEN m ELSE s[1] + 1
    BY <1>3, <1>4, <2>1
  <2>3. s[1] \in Nat
    BY <1>1, <2>1
  <2>4. {s[j] : j \in 1..1} = {s[1]}
    OBVIOUS
  <2>. QED  BY <2>2, <2>3, <2>4 DEF FirstGap
<1>6. ASSUME NEW n \in Nat, n \in P PROVE n + 1 \in P
  <2>1. SUFFICES ASSUME n + 2 <= Len(s) PROVE Good(n + 2)
    <3>. HIDE DEF Good
    <3>1. (n + 1) + 1 = n + 2
      OBVIOUS
    <3>. QED  BY <3>1
  <2>2. Good(n + 1) /\ n + 1 \in 1..Len(s) /\ n + 2 \in 1..Len(s)
    BY <1>6, <2>1
  <2>. DEFINE before == {s[j] : j \in 1..(n + 1)}
              after == {s[j] : j \in 1..(n + 2)}
  <2>3. after = before \cup {s[n + 2]}
    OBVIOUS
  <2>4. \A v \in before : v \in Nat /\ v <= s[n + 2]
    BY <1>1, <1>2, <2>2
  <2>5. PICK r, v : r = ret[n + 1] /\ v = s[n + 2]
    OBVIOUS
  <2>6. /\ r \in Nat /\ v \in Nat /\ lo <= r /\ FirstGap(before, lo, r)
        /\ ret[n + 2] = IF r < v THEN r ELSE v + 1
    <3>1. r \in Nat /\ v \in Nat /\ lo <= r /\ FirstGap(before, lo, r)
      BY <1>1, <2>2, <2>5
    <3>2. ret[n + 2] = IF ret[(n + 2) - 1] < s[n + 2] THEN ret[(n + 2) - 1] ELSE s[n + 2] + 1
      BY <1>4, <2>2, Zenon
    <3>3. (n + 2) - 1 = n + 1
      OBVIOUS
    <3>. QED  BY <2>5, <3>1, <3>2, <3>3
  <2>7. lo \in Nat /\ lo <= v
    BY <1>1, <1>2, <2>2, <2>5
  <2>. HIDE DEF before, after
  <2>8. CASE r < v
    <3>1. ret[n + 2] = r /\ FirstGap(after, lo, r)
      BY <2>3, <2>5, <2>6, <2>8 DEF FirstGap
    <3>. QED  BY <2>6, <3>1 DEF after
  <2>9. CASE ~(r < v)
    <3>1. ret[n + 2] = v + 1 /\ lo <= v + 1 /\ v + 1 \in Nat
      BY <2>6, <2>7, <2>9
    <3>2. v + 1 \notin after
      BY <2>3, <2>4, <2>5, <2>6
    <3>3. ASSUME NEW k \in lo..v PROVE k \in after
      <4>1. k \in lo..(r - 1) \/ k = v
        BY <2>6, <2>7, <2>9
      <4>. QED  BY <2>3, <2>5, <2>6, <4>1 DEF FirstGap
    <3>4. FirstGap(after, lo, v + 1)
      BY <2>6, <3>2, <3>3 DEF FirstGap
    <3>. QED  BY <3>1, <3>4 DEF after
  <2>. QED  BY <2>8, <2>9
<1>. HIDE DEF Good, P
<1>7. Nat \subseteq P
  BY <1>5, <1>6, NatSetInduction
<1>8. ASSUME NEW n \in 1..Len(s) PROVE Good(n)
  <2>1. n - 1 \in P /\ (n - 1) + 1 = n /\ n <= Len(s)
    BY <1>7
  <2>. QED  BY <2>1 DEF P
<1>. QED  BY <1>8 DEF Good

\* Whatever the list and the minimum, the loop over its sorted values returns
\* the value that the model's calls take.
THEOREM LoopFindsLowestFree ==
    ASSUME NEW s \in Seq(Nat), Sorted(s), NEW m \in Nat
    PROVE  LoopOverSorted(s, m) = LowestFree(Range(s), m)
<1>1. PICK ret : Rets(s, m, ret) /\ LoopOverSorted(s, m) = ret[Len(s)]
  <2>. DEFINE ret == CHOOSE f : Rets(s, m, f)
  <2>1. LoopOverSorted(s, m) = ret[Len(s)]
    BY DEF LoopOverSorted, Rets
  <2>2. Rets(s, m, ret)
    BY RetsExists
  <2>. QED  BY <2>1, <2>2
<1>. DEFINE values == Range(s)
            lo == IF \E v \in values : v < m THEN Min(values) ELSE m
            hi == lo + Cardinality(values)
<1>2. /\ values \in SUBSET Nat /\ values = {s[j] : j \in 1..Len(s)}
      /\ \A i \in 1..Len(s) : s[i] \in Nat
  BY DEF Range
<1>3. IsFiniteSet(values) /\ Cardinality(values) \in Nat
  <2>1. IsFiniteSet(1..Len(s))
    BY FS_Interval
  <2>2. s \in Surjection(1..Len(s), values)
    BY <1>2 DEF Surjection
  <2>. QED  BY <2>1, <2>2, FS_Surjection, FS_CardinalityType
<1>4. PICK r : r = ret[Len(s)]
  OBVIOUS
<1>5. r \in Nat /\ lo \in Nat /\ lo <= r /\ FirstGap(values, lo, r)
  <2>1. CASE Len(s) = 0
    <3>1. values = {} /\ lo = m
      BY <1>2, <2>1
    <3>2. r = m
      BY <1>1, <1>4, <2>1 DEF Rets
    <3>. QED  BY <3>1, <3>2 DEF FirstGap
  <2>2. CASE Len(s) # 0
    <3>1. Len(s) \in 1..Len(s) /\ 1 \in 1..Len(s)
      BY <2>2
    <3>2. s[1] \in values /\ \A v \in values : s[1] <= v
      BY <1>2, <3>1 DEF Sorted
    <3>3. Min(values) = s[1]
      <4>. HIDE DEF values
      <4>1. Min(values) \in values /\ \A n \in values : Min(values) <= n
        BY <1>2, <3>2, MinIsLeast
      <4>2. Min(values) \in Nat /\ s[1] \in Nat
        BY <1>2, <3>2, <4>1
      <4>3. Min(values) <= s[1] /\ s[1] <= Min(values)
        BY <3>2, <4>1
      <4>. QED  BY <4>2, <4>3
    <3>4. lo = IF s[1] < m THEN s[1] ELSE m
      <4>. HIDE DEF values
      <4>1. (\E v \in values : v < m) <=> s[1] < m
        BY <1>2, <3>2
      <4>. QED  BY <3>3, <4>1
    <3>. HIDE DEF lo, values
    <3>5. lo \in Nat
      BY <1>2, <3>1, <3>4
    <3>6. ret[Len(s)] \in Nat /\ lo <= ret[Len(s)]
          /\ FirstGap({s[j] : j \in 1..Len(s)}, lo, ret[Len(s)])
      BY <1>1, <3>1, <3>4, LoopInvariant
    <3>. QED  BY <1>2, <1>4, <3>5, <3>6
  <2>. QED  BY <2>1, <2>2
<1>. HIDE DEF values, lo
<1>6. r \in lo..hi
  <2>1. CASE r = lo
    BY <1>3, <1>5, <2>1
  <2>2. CASE r # lo
    <3>1. lo..(r - 1) \subseteq values
      BY <1>5 DEF FirstGap
    <3>2. Cardinality(lo..(r - 1)) = (r - 1) - lo + 1
      <4>1. PICK b \in Nat : b = r - 1 /\ lo <= b
        BY <1>5, <2>2
      <4>2. Cardinality(lo..b) = b - lo + 1
        BY <1>5, <4>1, IntervalSize
      <4>. QED  BY <4>1, <4>2
    <3>3. Cardinality(lo..(r - 1)) <= Cardinality(values)
      BY <1>3, <3>1, FS_Subset
    <3>. QED  BY <1>3, <1>5, <3>2, <3>3
  <2>. QED  BY <2>1, <2>2
<1>7. ASSUME NEW n \in lo..hi, FirstGap(values, lo, n) PROVE n = r
  BY <1>3, <1>5, <1>6, <1>7 DEF FirstGap
<1>8. LowestFree(values, m) = CHOOSE n \in lo..hi : FirstGap(values, lo, n)
  BY DEF LowestFree, lo, FirstGap
<1>9. LowestFree(values, m) = r
  <2>. HIDE DEF hi
  <2>. QED  BY <1>5, <1>6, <1>7, <1>8
<1>. QED  BY <1>1, <1>4, <1>9 DEF values
-----------------------------------------------------------------------------
\* The values a column of the interfaces has are finitely many.
LEMMA FiniteColumns ==
    ASSUME NEW f \in Topo, NEW ip
    PROVE  /\ IsFiniteSet({i.ifid : i \in Range(f.ifaces)})
           /\ IsFiniteSet({i.port : i \in {x \in Range(f.ifaces) : x.ip = ip}})
<1>. DEFINE s == f.ifaces
            T == {i.ifid : i \in Range(s)}
            U == {i.port : i \in Range(s)}
            V == {i.port : i \in {x \in Range(s) : x.ip = ip}}
            g == [k \in 1..Len(s) |-> s[k].ifid]
            h == [k \in 1..Len(s) |-> s[k].port]
<1>1. s \in Seq(Interface) /\ Len(s) \in Nat /\ DOMAIN s = 1..Len(s)
  BY DEF Topo
<1>2. IsFiniteSet(1..Len(s))
  BY <1>1, FS_Interval
<1>3. Range(s) = {s[k] : k \in 1..Len(s)}
  BY <1>1 DEF Range
<1>4. g \in Surjection(1..Len(s), T) /\ h \in Surjection(1..Len(s), U)
  BY <1>3 DEF Surjection
<1>5. IsFiniteSet(T) /\ IsFiniteSet(U)
  BY <1>2, <1>4, FS_Surjection
<1>6. V \in SUBSET U
  OBVIOUS
<1>. QED  BY <1>5, <1>6, FS_Subset

\* The new interface has its types, an id nobody has, and an address nobody has.
LEMMA NewInterfaceIsNew ==
    ASSUME NEW f \in Topo, NEW c \in Contracts
    PROVE  /\ NewInterface(f, c) \in Interface
           /\ NewInterface(f, c).esdx = TRUE
           /\ \A i \in Range(f.ifaces) :
                 /\ i.ifid # NewInterface(f, c).ifid
                 /\ <<i.ip, i.port>> # <<NewInterface(f, c).ip, NewInterface(f, c).port>>
<1>. USE TopologyAssumption
<1>. DEFINE ids == {i.ifid : i \in Range(f.ifaces)}
            ip == router[c.br_address]
            ports == {i.port : i \in {x \in Range(f.ifaces) : x.ip = ip}}
            new == NewInterface(f, c)
<1>1. Range(f.ifaces) \subseteq Interface
  BY DEF Topo, Range
<1>2. ids \in SUBSET Nat /\ ports \in SUBSET Nat
  BY <1>1 DEF Interface
<1>3. IsFiniteSet(ids) /\ IsFiniteSet(ports)
  BY FiniteColumns
<1>4. LowestFree(ids, 1) \in Nat \ ids
  BY <1>2, <1>3, LowestFreeIsFree
<1>5. LowestFree(ports, min_port) \in Nat \ ports
  BY <1>2, <1>3, LowestFreeIsFree
<1>6. /\ new.ifid = LowestFree(ids, 1)
      /\ new.ip = ip
      /\ new.port = LowestFree(ports, min_port)
      /\ new.esdx = TRUE
  BY DEF NewInterface, NewPort
<1>7. c \in [seller: IAs, buyer: IAs, br_address: Addresses]
  OBVIOUS
<1>8. new \in Interface
  <2>1. ip \in PublicIPs /\ c.br_address \in Addresses /\ c.seller \in IAs /\ c.buyer \in IAs
    BY <1>7
  <2>. HIDE DEF ids, ports, ip
  <2>2. new = [ifid |-> LowestFree(ids, 1), ip |-> ip, port |-> LowestFree(ports, min_port),
               remote |-> c.br_address, ia |-> Info(c).ia, esdx |-> TRUE]
    BY DEF NewInterface, NewPort, ids, ports, ip, Info
  <2>3. Info(c).ia \in IAs
    BY <2>1 DEF Info
  <2>. HIDE DEF new
  <2>. QED  BY <2>1, <2>2, <2>3, <1>4, <1>5 DEF Interface
<1>9. ASSUME NEW i \in Range(f.ifaces)
      PROVE  i.ifid # new.ifid /\ <<i.ip, i.port>> # <<new.ip, new.port>>
  <2>1. i.ifid \in ids
    OBVIOUS
  <2>2. i.ip = ip => i.port \in ports
    OBVIOUS
  <2>. HIDE DEF ids, ports, ip, new
  <2>. QED  BY <2>1, <2>2, <1>4, <1>5, <1>6
<1>. QED  BY <1>6, <1>8, <1>9

\* activate adds the new interface to a well-formed topology and leaves it so.
LEMMA AddedIsConsistent ==
    ASSUME NEW f \in Topo, Consistent(f), NEW c \in Contracts
    PROVE  /\ Added(f, c) \in Topo /\ Consistent(Added(f, c))
           /\ Range(Added(f, c).ifaces) = Range(f.ifaces) \cup {NewInterface(f, c)}
<1>. DEFINE s == f.ifaces
            new == NewInterface(f, c)
            t == Append(s, new)
            n == Len(s)
<1>1. /\ s \in Seq(Interface) /\ n \in Nat /\ DOMAIN s = 1..n
      /\ Range(s) = {s[k] : k \in 1..n}
  BY DEF Topo, Range
<1>2. /\ new \in Interface /\ new.esdx = TRUE
      /\ \A i \in Range(s) : i.ifid # new.ifid /\ <<i.ip, i.port>> # <<new.ip, new.port>>
  BY NewInterfaceIsNew
<1>3. Added(f, c).ifaces = t /\ Added(f, c).esdx = TRUE
      /\ Added(f, c) = [ifaces |-> t, esdx |-> TRUE]
  BY DEF Added
<1>. HIDE DEF new, s
<1>4. /\ t \in Seq(Interface) /\ Len(t) = n + 1 /\ DOMAIN t = 1..(n + 1)
      /\ \A k \in 1..n : t[k] = s[k]
      /\ t[n + 1] = new
  BY <1>1, <1>2
<1>5. Added(f, c) \in Topo
  BY <1>3, <1>4 DEF Topo
<1>. HIDE DEF t, n
<1>6. Consistent(Added(f, c))
  <2>1. ASSUME NEW i \in 1..(n + 1), NEW j \in 1..(n + 1), i # j
        PROVE  t[i].ifid # t[j].ifid /\ <<t[i].ip, t[i].port>> # <<t[j].ip, t[j].port>>
    <3>1. CASE i \in 1..n /\ j \in 1..n
      <4>1. s[i].ifid # s[j].ifid /\ <<s[i].ip, s[i].port>> # <<s[j].ip, s[j].port>>
        BY <3>1, <2>1, <1>1 DEF Consistent, s
      <4>. QED  BY <4>1, <3>1, <1>4
    <3>2. CASE i = n + 1 /\ j \in 1..n
      <4>1. s[j] \in Range(s)
        BY <3>2, <1>1
      <4>. QED  BY <4>1, <3>2, <1>2, <1>4
    <3>3. CASE j = n + 1 /\ i \in 1..n
      <4>1. s[i] \in Range(s)
        BY <3>3, <1>1
      <4>. QED  BY <4>1, <3>3, <1>2, <1>4
    <3>. QED  BY <3>1, <3>2, <3>3, <2>1, <1>1
  <2>2. \E i \in 1..(n + 1) : t[i].esdx
    BY <1>1, <1>2, <1>4
  <2>. QED  BY <2>1, <2>2, <1>3, <1>4 DEF Consistent
<1>7. Range(t) = Range(s) \cup {new}
  <2>1. Range(t) = {t[k] : k \in 1..(n + 1)}
    BY <1>4 DEF Range
  <2>. QED  BY <2>1, <1>1, <1>4
<1>. QED  BY <1>3, <1>5, <1>6, <1>7 DEF s, new

\* RemoveAt keeps what is before position k and shifts the rest by one.
LEMMA RemoveAtShifts ==
    ASSUME NEW S, NEW s \in Seq(S), NEW k \in 1..Len(s)
    PROVE  /\ RemoveAt(s, k) \in Seq(S)
           /\ Len(RemoveAt(s, k)) = Len(s) - 1
           /\ \A i \in 1..(Len(s) - 1) :
                 RemoveAt(s, k)[i] = s[IF i < k THEN i ELSE i + 1]
<1>. DEFINE n == Len(s)
            a == SubSeq(s, 1, k - 1)
            b == SubSeq(s, k + 1, n)
<1>1. n \in Nat /\ s \in [1..n -> S] /\ k \in 1..n
  BY LenProperties
<1>2. /\ a \in Seq(S) /\ Len(a) = k - 1
      /\ \A i \in 1..(k - 1) : a[i] = s[i]
  <2>1. 1 \in Int /\ k - 1 \in Int /\ \A i \in 1..(k - 1) : s[i] \in S
    BY <1>1
  <2>2. /\ a \in Seq(S) /\ Len(a) = IF 1 <= k - 1 THEN k - 1 - 1 + 1 ELSE 0
        /\ \A i \in 1..(k - 1 - 1 + 1) : a[i] = s[1 + i - 1]
    BY <2>1, SubSeqProperties
  <2>. HIDE DEF a
  <2>. QED  BY <2>2, <1>1
<1>3. /\ b \in Seq(S) /\ Len(b) = n - k
      /\ \A i \in 1..(n - k) : b[i] = s[k + i]
  <2>1. k + 1 \in Int /\ n \in Int /\ \A i \in (k + 1)..n : s[i] \in S
    BY <1>1
  <2>2. /\ b \in Seq(S) /\ Len(b) = IF k + 1 <= n THEN n - (k + 1) + 1 ELSE 0
        /\ \A i \in 1..(n - (k + 1) + 1) : b[i] = s[(k + 1) + i - 1]
    BY <2>1, SubSeqProperties
  <2>. HIDE DEF b, n
  <2>3. ASSUME NEW i \in 1..(n - k) PROVE b[i] = s[k + i]
    <3>1. i \in 1..(n - (k + 1) + 1) /\ (k + 1) + i - 1 = k + i
      BY <1>1
    <3>. QED  BY <2>2, <3>1
  <2>4. Len(b) = n - k
    BY <2>2, <1>1
  <2>. QED  BY <2>2, <2>3, <2>4
<1>. HIDE DEF a, b, n
<1>4. /\ a \o b \in Seq(S) /\ Len(a \o b) = n - 1
      /\ \A i \in 1..(n - 1) : (a \o b)[i] = IF i <= k - 1 THEN a[i] ELSE b[i - (k - 1)]
  <2>1. Len(a) + Len(b) = n - 1
    BY <1>1, <1>2, <1>3
  <2>. QED  BY <2>1, <1>2, <1>3, ConcatProperties
<1>5. ASSUME NEW i \in 1..(n - 1)
      PROVE  (a \o b)[i] = s[IF i < k THEN i ELSE i + 1]
  <2>1. CASE i < k
    <3>1. i \in 1..(k - 1) /\ (a \o b)[i] = a[i]
      BY <2>1, <1>1, <1>4
    <3>. QED  BY <3>1, <2>1, <1>2
  <2>2. CASE ~(i < k)
    <3>1. i - (k - 1) \in 1..(n - k) /\ (a \o b)[i] = b[i - (k - 1)]
      BY <2>2, <1>1, <1>4
    <3>2. b[i - (k - 1)] = s[k + (i - (k - 1))]
      BY <3>1, <1>3
    <3>3. k + (i - (k - 1)) = i + 1
      BY <1>1
    <3>. QED  BY <3>1, <3>2, <3>3, <2>2
  <2>. QED  BY <2>1, <2>2
<1>6. RemoveAt(s, k) = a \o b
  BY DEF RemoveAt, a, b, n
<1>. QED  BY <1>4, <1>5, <1>6 DEF n

\* deactivate takes one interface with the contract's remote address out of a
\* well-formed topology and leaves it so.
LEMMA RemovedIsConsistent ==
    ASSUME NEW f \in Topo, Consistent(f), NEW c \in Contracts, Removable(f, c)
    PROVE  /\ Removed(f, c) \in Topo /\ Consistent(Removed(f, c))
           /\ \E old \in Range(f.ifaces) :
                 /\ old.remote = Info(c).remote
                 /\ Range(Removed(f, c).ifaces) = Range(f.ifaces) \ {old}
<1>. DEFINE s == f.ifaces
            n == Len(s)
            k == Min(Matches(f, c))
            t == RemoveAt(s, k)
            pos(i) == IF i < k THEN i ELSE i + 1
<1>1. /\ s \in Seq(Interface) /\ n \in Nat /\ DOMAIN s = 1..n
      /\ Range(s) = {s[i] : i \in 1..n}
  BY DEF Topo, Range
<1>2. k \in 1..n /\ s[k].remote = Info(c).remote
  <2>1. Matches(f, c) \in SUBSET Nat /\ Matches(f, c) # {}
    BY <1>1 DEF Removable, Matches
  <2>2. k \in Matches(f, c)
    BY <2>1, MinIsLeast
  <2>. QED  BY <2>2, <1>1 DEF Matches
<1>3. /\ \A i, j \in 1..n : i # j =>
            s[i].ifid # s[j].ifid /\ <<s[i].ip, s[i].port>> # <<s[j].ip, s[j].port>>
  BY <1>1 DEF Consistent
<1>4. Removed(f, c) = [ifaces |-> t, esdx |-> \E i \in Range(t) : i.esdx]
  BY DEF Removed
<1>. HIDE DEF k, s, n
<1>5. /\ t \in Seq(Interface) /\ Len(t) = n - 1
      /\ \A i \in 1..(n - 1) : t[i] = s[pos(i)]
  BY <1>1, <1>2, RemoveAtShifts DEF n
<1>6. DOMAIN t = 1..(n - 1) /\ Range(t) = {t[i] : i \in 1..(n - 1)}
  BY <1>1, <1>5, LenProperties DEF Range
<1>. HIDE DEF t
<1>7. Removed(f, c) \in Topo
  BY <1>4, <1>5 DEF Topo
<1>8. Consistent(Removed(f, c))
  <2>1. ASSUME NEW i \in 1..(n - 1), NEW j \in 1..(n - 1), i # j
        PROVE  t[i].ifid # t[j].ifid /\ <<t[i].ip, t[i].port>> # <<t[j].ip, t[j].port>>
    <3>1. pos(i) \in 1..n /\ pos(j) \in 1..n /\ pos(i) # pos(j)
      BY <2>1, <1>1, <1>2
    <3>2. t[i] = s[pos(i)] /\ t[j] = s[pos(j)]
      BY <1>5
    <3>. HIDE DEF pos
    <3>. QED  BY <3>1, <3>2, <1>3
  <2>2. (\E i \in Range(t) : i.esdx) <=> \E i \in 1..(n - 1) : t[i].esdx
    BY <1>6
  <2>. QED  BY <2>1, <2>2, <1>4, <1>6 DEF Consistent
<1>9. Range(t) = Range(s) \ {s[k]}
  <2>1. ASSUME NEW i \in 1..(n - 1) PROVE t[i] \in Range(s) \ {s[k]}
    <3>1. pos(i) \in 1..n /\ pos(i) # k /\ t[i] = s[pos(i)]
      BY <1>1, <1>2, <1>5
    <3>. HIDE DEF pos
    <3>2. s[pos(i)].ifid # s[k].ifid
      BY <3>1, <1>2, <1>3
    <3>. QED  BY <3>1, <3>2, <1>1
  <2>2. ASSUME NEW j \in 1..n, j # k PROVE s[j] \in Range(t)
    <3>1. CASE j < k
      <4>1. j \in 1..(n - 1) /\ pos(j) = j
        BY <3>1, <1>1, <1>2
      <4>. QED  BY <4>1, <1>5, <1>6
    <3>2. CASE j > k
      <4>1. j - 1 \in 1..(n - 1) /\ pos(j - 1) = j
        BY <3>2, <1>1, <1>2
      <4>. QED  BY <4>1, <1>5, <1>6
    <3>. QED  BY <3>1, <3>2, <2>2, <1>1, <1>2
  <2>. QED  BY <2>1, <2>2, <1>1, <1>6
<1>. QED  BY <1>1, <1>2, <1>4, <1>7, <1>8, <1>9 DEF s, n, k

\* Either call turns a well-formed topology into a well-formed one.
LEMMA ChangedIsConsistent ==
    ASSUME NEW f \in Topo, Consistent(f), NEW o \in Ops, Possible(f, o)
    PROVE  Changed(f, o) \in Topo /\ Consistent(Changed(f, o))
BY AddedIsConsistent, RemovedIsConsistent DEF Possible, Changed, Ops
-----------------------------------------------------------------------------
\* What a process holds at each step of a call: the one about to open the file
\* has changed what is in it, and the one that writes has what was there.
Held ==
    \A p \in alive :
        /\ pc[p] = "lock" \/ Inside(p) => op[p] \in Ops
        /\ pc[p] = "open" => /\ topofile # EMPTY
                             /\ Possible(topofile, op[p])
                             /\ topo[p] = Changed(topofile, op[p])
        /\ pc[p] = "write" => /\ topofile = EMPTY
                              /\ topo[p] \in Topo
                              /\ Consistent(topo[p])

IInv == TypeOK /\ MutualExclusion /\ LostOnlyInWrite /\ WellFormed /\ Held

\* The first state satisfies the invariant: the file is well-formed and nobody is inside.
LEMMA InitIInv == Init => IInv
<1>. SUFFICES ASSUME Init PROVE IInv
  OBVIOUS
<1>. USE DEF Init
<1>1. topofile \in Topo /\ Consistent(topofile) /\ topofile # EMPTY /\ 0 \in 0..(attempts - 1)
  BY TopologyAssumption
<1>2. TypeOK
  BY <1>1 DEF TypeOK, PC, Outcomes
<1>3. MutualExclusion /\ LostOnlyInWrite /\ WellFormed /\ Held
  BY <1>1 DEF MutualExclusion, LostOnlyInWrite, WellFormed, Held, Inside, Locked
<1>. QED  BY <1>2, <1>3 DEF IInv

\* Steps outside the lock touch neither file.
LEMMA OutsideKeepsIInv ==
    ASSUME IInv, NEW p \in Procs,
           \/ Construct(p) \/ ConstructFails(p) \/ LockBusy(p)
           \/ \E o \in Ops : Call(p, o)
    PROVE  IInv'
<1>. USE TopologyAssumption
<1>. USE DEF IInv, TypeOK, At, Goto, Return, files, Inside, Locked, PC, Outcomes
<1>1. CASE Construct(p)
  BY <1>1 DEF Construct, MutualExclusion, LostOnlyInWrite, WellFormed, Held
<1>2. CASE ConstructFails(p)
  BY <1>2 DEF ConstructFails, MutualExclusion, LostOnlyInWrite, WellFormed, Held
<1>3. CASE LockBusy(p)
  BY <1>3 DEF LockBusy, MutualExclusion, LostOnlyInWrite, WellFormed, Held
<1>4. CASE \E o \in Ops : Call(p, o)
  BY <1>4 DEF Call, MutualExclusion, LostOnlyInWrite, WellFormed, Held
<1>. QED  BY <1>1, <1>2, <1>3, <1>4

\* Steps under the lock: nobody else is inside, so what was read stays what is there.
LEMMA InsideKeepsIInv ==
    ASSUME IInv, NEW p \in Procs,
           Lock(p) \/ Read(p) \/ ReadFails(p) \/ Open(p) \/ Write(p) \/ Unlock(p)
    PROVE  IInv'
<1>. USE TopologyAssumption
<1>. USE DEF IInv, TypeOK, At, Goto, Return, files, Inside, Locked, PC, Outcomes
<1>1. CASE Lock(p)
  BY <1>1 DEF Lock, MutualExclusion, LostOnlyInWrite, WellFormed, Held
<1>2. CASE Read(p)
  BY <1>2, ChangedIsConsistent DEF Read, MutualExclusion, LostOnlyInWrite, WellFormed, Held
<1>3. CASE ReadFails(p)
  BY <1>3 DEF ReadFails, MutualExclusion, LostOnlyInWrite, WellFormed, Held
<1>4. CASE Open(p)
  BY <1>4, ChangedIsConsistent DEF Open, MutualExclusion, LostOnlyInWrite, WellFormed, Held
<1>5. CASE Write(p)
  BY <1>5 DEF Write, MutualExclusion, LostOnlyInWrite, WellFormed, Held
<1>6. CASE Unlock(p)
  BY <1>6 DEF Unlock, MutualExclusion, LostOnlyInWrite, WellFormed, Held
<1>. QED  BY <1>1, <1>2, <1>3, <1>4, <1>5, <1>6

\* A crash leaves the files alone; a lock is cleaned up only when nobody is inside.
LEMMA OthersKeepIInv ==
    ASSUME IInv, CleanUp \/ UNCHANGED vars \/ \E p \in Procs : Crash(p)
    PROVE  IInv'
<1>. USE TopologyAssumption
<1>. USE DEF IInv, TypeOK, Goto, Return, files, Inside, Locked, PC, Outcomes
<1>1. CASE CleanUp
  BY <1>1 DEF CleanUp, MutualExclusion, LostOnlyInWrite, WellFormed, Held
<1>2. CASE UNCHANGED vars
  BY <1>2 DEF vars, MutualExclusion, LostOnlyInWrite, WellFormed, Held
<1>3. CASE \E p \in Procs : Crash(p)
  BY <1>3 DEF Crash, MutualExclusion, LostOnlyInWrite, WellFormed, Held
<1>. QED  BY <1>1, <1>2, <1>3

\* Every step preserves the invariant.
LEMMA NextIInv == IInv /\ [Next]_vars => IInv'
BY OutsideKeepsIInv, InsideKeepsIInv, OthersKeepIInv DEF Next, Step, Over

\* The parts of the invariant hold in every state of every run of the reloader.
THEOREM Invariance == Spec => []IInv
BY InitIInv, NextIInv, PTL DEF Spec

\* The file holds a topology or nothing, and a process is at a step of a call
\* with the values it needs there.
THEOREM TypeCorrect == Spec => []TypeOK
BY Invariance, PTL DEF IInv

\* The lock file keeps any number of processes apart, also when some crash and
\* the lock file they leave is removed; its removal by its owner never fails.
THEOREM MutualExclusionHolds == Spec => []MutualExclusion
BY Invariance, PTL DEF IInv

\* Only a crash between the opening of the file and its closing loses it.
THEOREM NothingElseLosesTheFile == Spec => []LostOnlyInWrite
BY Invariance, PTL DEF IInv

\* Ids and public addresses stay distinct over any sequence of calls, and the
\* ESDX border router is there exactly if it has an interface.
THEOREM WellFormedHolds == Spec => []WellFormed
BY Invariance, PTL DEF IInv
-----------------------------------------------------------------------------
(* What holds of the ports and of the reads, where the runs topology_port  *)
(* and topology_reader show that not all holds that the code says.         *)

\* no interface is below min_port, those of the ESDX border router not above max_port
PortsFrom(f) ==
    \A i \in Range(f.ifaces) : i.port >= min_port /\ (i.esdx => i.port <= max_port)

\* Calls keep to the range as long as no other interface is below it.
LEMMA ChangedPorts ==
    ASSUME NEW f \in Topo, Consistent(f), PortsFrom(f), NEW o \in Ops, Possible(f, o)
    PROVE  PortsFrom(Changed(f, o))
<1>. DEFINE c == o.contract
<1>1. c \in Contracts /\ o.kind \in {"activate", "deactivate"}
  BY DEF Ops
<1>2. CASE o.kind = "activate"
  <2>1. /\ Changed(f, o) = Added(f, c) /\ NewPort(f, c) <= max_port
        /\ Range(Added(f, c).ifaces) = Range(f.ifaces) \cup {NewInterface(f, c)}
    BY <1>1, <1>2, AddedIsConsistent DEF Changed, Possible, Addable
  <2>2. NewInterface(f, c).port = NewPort(f, c)
    BY DEF NewInterface
  <2>3. NewPort(f, c) >= min_port
    <3>1. PICK ip : ip = router[c.br_address]
      OBVIOUS
    <3>2. PICK ports : ports = {i.port : i \in {x \in Range(f.ifaces) : x.ip = ip}}
      OBVIOUS
    <3>3. IsFiniteSet(ports)
      BY <3>2, FiniteColumns
    <3>4. Range(f.ifaces) \subseteq Interface
      BY DEF Topo, Range
    <3>5. ports \in SUBSET Nat /\ \A v \in ports : v >= min_port
      BY <3>2, <3>4 DEF Interface, PortsFrom
    <3>6. NewPort(f, c) = LowestFree(ports, min_port)
      BY <3>1, <3>2 DEF NewPort
    <3>. QED  BY <3>3, <3>5, <3>6, LowestFreeIsFree, TopologyAssumption
  <2>. HIDE DEF c
  <2>. QED  BY <2>1, <2>2, <2>3 DEF PortsFrom
<1>3. CASE o.kind = "deactivate"
  <2>1. Removable(f, c) /\ Changed(f, o) = Removed(f, c)
    BY <1>3 DEF Changed, Possible
  <2>2. Range(Removed(f, c).ifaces) \subseteq Range(f.ifaces)
    BY <1>1, <2>1, RemovedIsConsistent
  <2>. QED  BY <2>1, <2>2 DEF PortsFrom
<1>. QED  BY <1>1, <1>2, <1>3

PortsInv ==
    /\ topofile # EMPTY => PortsFrom(topofile)
    /\ \A p \in alive : pc[p] \in {"open", "write"} => PortsFrom(topo[p])

LEMMA PortsStep == IInv /\ PortsInv /\ [Next]_vars => PortsInv'
<1>. SUFFICES ASSUME IInv, PortsInv, [Next]_vars PROVE PortsInv'
  OBVIOUS
<1>. USE DEF At, Goto, Return, files
<1>0. pc \in [Procs -> PC] /\ topo \in [Procs -> Topo \cup {NONE}] /\ alive \subseteq Procs
  BY DEF IInv, TypeOK
<1>1. ASSUME NEW p \in Procs, Read(p)
      PROVE  PortsInv'
  <2>1. topofile \in Topo /\ Consistent(topofile) /\ op[p] \in Ops
    BY <1>1 DEF Read, IInv, TypeOK, WellFormed, Held, Inside, Locked
  <2>2. PortsFrom(Changed(topofile, op[p]))
    BY <1>1, <2>1, ChangedPorts DEF Read, PortsInv
  <2>. QED  BY <1>0, <1>1, <2>2 DEF Read, PortsInv
<1>2. ASSUME NEW p \in Procs, Open(p) \/ Write(p)
      PROVE  PortsInv'
  BY <1>0, <1>2 DEF Open, Write, PortsInv
<1>3. ASSUME NEW p \in Procs,
             \/ Construct(p) \/ ConstructFails(p) \/ Lock(p) \/ LockBusy(p)
             \/ ReadFails(p) \/ Unlock(p) \/ Crash(p)
             \/ \E o \in Ops : Call(p, o)
      PROVE  PortsInv'
  BY <1>0, <1>3 DEF Construct, ConstructFails, Lock, LockBusy, ReadFails, Unlock, Crash,
     Call, PortsInv
<1>4. CASE CleanUp \/ UNCHANGED vars
  BY <1>4 DEF CleanUp, vars, PortsInv
<1>. QED  BY <1>1, <1>2, <1>3, <1>4 DEF Next, Step, Over

\* When no interface of the first file is below min_port, which the run
\* topology_port breaks, the interfaces that the reloader adds have ports from
\* min_port to max_port.
THEOREM PortsStayInRange ==
    ASSUME \A f \in Topologies : PortsFrom(f)
    PROVE  Spec => []PortInRange
<1>1. Init => PortsInv
  BY DEF Init, PortsInv
<1>2. IInv /\ PortsInv => PortInRange
  <2>. SUFFICES ASSUME IInv, PortsInv, topofile # EMPTY,
                       NEW i \in Range(topofile.ifaces), i.esdx
                PROVE  i.port \in min_port..max_port
    BY DEF PortInRange
  <2>1. topofile \in Topo
    BY DEF IInv, TypeOK
  <2>2. i \in Interface
    BY <2>1 DEF Topo, Range
  <2>3. i.port \in Nat /\ i.port >= min_port /\ i.port <= max_port
    BY <2>2 DEF Interface, PortsInv, PortsFrom
  <2>. QED  BY <2>3, TopologyAssumption
<1>. QED  BY <1>1, <1>2, PortsStep, Invariance, PTL DEF Spec

\* a process crashed while it wrote the file
Lost == topofile = EMPTY /\ Writers = {}

\* the file was unreadable to the constructor, or a crash has lost it for good
LockedReads ==
    \A p \in Procs : outcome[p] = "unreadable" => pc[p] = "exit" \/ Lost

LEMMA LostStays == IInv /\ Lost /\ [Next]_vars => Lost'
<1>. SUFFICES ASSUME IInv, Lost, [Next]_vars PROVE Lost'
  OBVIOUS
<1>. USE DEF At, Goto, Return, files, Lost, Writers
<1>0. pc \in [Procs -> PC] /\ alive \subseteq Procs
  BY DEF IInv, TypeOK
<1>1. ASSUME NEW p \in Procs, Open(p) \/ Read(p) \/ Write(p)
      PROVE  FALSE
  BY <1>1 DEF Open, Read, Write, IInv, Held
<1>2. ASSUME NEW p \in Procs,
             \/ Construct(p) \/ ConstructFails(p) \/ Lock(p) \/ LockBusy(p)
             \/ ReadFails(p) \/ Unlock(p) \/ Crash(p)
             \/ \E o \in Ops : Call(p, o)
      PROVE  Lost'
  BY <1>0, <1>2 DEF Construct, ConstructFails, Lock, LockBusy, ReadFails, Unlock, Crash, Call
<1>3. CASE CleanUp \/ UNCHANGED vars
  BY <1>3 DEF CleanUp, vars
<1>. QED  BY <1>1, <1>2, <1>3 DEF Next, Step, Over

\* activate and deactivate read the file under the lock: none of their calls finds
\* it unreadable, whatever other processes do, unless a crash has lost it.  The
\* race of the run topology_reader is one of the constructor alone.
THEOREM LockedReadsSucceed == Spec => []LockedReads
<1>1. Init => LockedReads
  BY DEF Init, LockedReads
<1>2. IInv /\ LockedReads /\ [Next]_vars => LockedReads'
  <2>. SUFFICES ASSUME IInv, LockedReads, [Next]_vars,
                       NEW q \in Procs, outcome'[q] = "unreadable"
                PROVE  pc'[q] = "exit" \/ Lost'
    BY DEF LockedReads
  <2>. USE DEF At, Goto, Return, files
  <2>0. /\ pc \in [Procs -> PC] /\ outcome \in [Procs -> Outcomes]
        /\ outcome[q] = "unreadable" /\ pc[q] # "exit" => Lost'
    BY LostStays DEF IInv, TypeOK, LockedReads
  <2>1. ASSUME NEW p \in Procs, ReadFails(p)
        PROVE  pc'[q] = "exit" \/ Lost'
    <3>1. CASE q = p /\ topofile = EMPTY
      <4>1. \A w \in alive : pc[w] = "write" => w = p
        BY <2>1 DEF ReadFails, IInv, MutualExclusion, Inside, Locked
      <4>2. Lost
        BY <2>1, <3>1, <4>1 DEF ReadFails, Lost, Writers
      <4>. QED  BY <4>2, LostStays
    <3>2. CASE ~(q = p /\ topofile = EMPTY)
      BY <2>0, <2>1, <3>2 DEF ReadFails
    <3>. QED  BY <3>1, <3>2
  <2>2. ASSUME NEW p \in Procs, ConstructFails(p)
        PROVE  pc'[q] = "exit" \/ Lost'
    BY <2>0, <2>2 DEF ConstructFails
  <2>3. ASSUME NEW p \in Procs,
               \/ Construct(p) \/ Lock(p) \/ LockBusy(p) \/ Read(p) \/ Open(p)
               \/ Write(p) \/ Unlock(p) \/ Crash(p)
               \/ \E o \in Ops : Call(p, o)
        PROVE  pc'[q] = "exit" \/ Lost'
    BY <2>0, <2>3 DEF Construct, Lock, LockBusy, Read, Open, Write, Unlock, Crash, Call
  <2>4. CASE CleanUp \/ UNCHANGED vars
    BY <2>0, <2>4 DEF CleanUp, vars
  <2>. QED  BY <2>1, <2>2, <2>3, <2>4 DEF Next, Step, Over
<1>. QED  BY <1>1, <1>2, Invariance, PTL DEF Spec
-----------------------------------------------------------------------------
(* The refinement of LinkStore.                                            *)

Links == IF topofile # EMPTY THEN Range(topofile.ifaces)
         ELSE UNION {Range(topo[p].ifaces) : p \in Writers}

\* The file is not lost at the start.
LEMMA InitRefines == Init => ~Lost
BY TopologyAssumption DEF Init, Lost

\* Nothing but opening and closing the file, and crashes, shows in LinkStore.
LEMMA HiddenSteps ==
    ASSUME IInv, NEW p \in Procs,
           \/ Construct(p) \/ ConstructFails(p) \/ (\E o \in Ops : Call(p, o))
           \/ Lock(p) \/ LockBusy(p) \/ Read(p) \/ ReadFails(p) \/ Unlock(p)
    PROVE  Links' = Links /\ Lost' = Lost
<1>1. topofile' = topofile /\ Writers' = Writers /\ \A q \in Writers : topo'[q] = topo[q]
  BY DEF IInv, TypeOK, Writers, Construct, ConstructFails, Call, Lock, LockBusy, Read, ReadFails,
         Unlock, At, Goto, Return, files
<1>2. {Range(topo'[q].ifaces) : q \in Writers'} = {Range(topo[q].ifaces) : q \in Writers}
  BY <1>1
<1>. QED  BY <1>1, <1>2 DEF Links, Lost

\* The file changes hands when it is opened: the step is an Add or a Remove.
LEMMA OpenRefines ==
    ASSUME IInv, NEW p \in Procs, Open(p)
    PROVE  /\ ~Lost /\ ~Lost'
           /\ Links = Range(topofile.ifaces)
           /\ Links' = Range(Changed(topofile, op[p]).ifaces)
<1>. USE DEF At, Goto
<1>1. p \in alive /\ pc[p] = "open" /\ Inside(p)
  BY DEF Open, Inside, Locked
<1>2. topofile # EMPTY /\ topo[p] = Changed(topofile, op[p])
  BY <1>1 DEF IInv, Held
<1>3. Writers' = {p}
  <2>1. \A q \in alive : pc[q] = "write" => q = p
    BY <1>1 DEF IInv, MutualExclusion, Inside, Locked
  <2>. QED  BY <2>1, <1>1 DEF Writers, Open, IInv, TypeOK
<1>4. topofile' = EMPTY /\ topo' = topo
  BY DEF Open
<1>5. Links' = Range(topo[p].ifaces)
  BY <1>3, <1>4 DEF Links
<1>. QED  BY <1>2, <1>3, <1>4, <1>5 DEF Lost, Links

\* Closing the file shows nothing new: the writer's topology becomes the file.
LEMMA WriteRefines ==
    ASSUME IInv, NEW p \in Procs, Write(p)
    PROVE  Links' = Links /\ Lost' = Lost
<1>. USE DEF At, Goto
<1>1. p \in alive /\ pc[p] = "write" /\ Inside(p)
  BY DEF Write, Inside, Locked
<1>2. topofile = EMPTY /\ topo[p] \in Topo
  BY <1>1 DEF IInv, Held
<1>3. Writers = {p}
  BY <1>1 DEF Writers, IInv, MutualExclusion, Inside, Locked
<1>4. topofile' = topo[p] /\ topofile' # EMPTY
  BY <1>2, TopologyAssumption DEF Write
<1>5. Links = Range(topo[p].ifaces)
  BY <1>2, <1>3 DEF Links
<1>6. Links' = Range(topo[p].ifaces)
  BY <1>4 DEF Links
<1>. QED  BY <1>2, <1>3, <1>4, <1>5, <1>6 DEF Lost

\* A crash loses the file if and only if the process was writing it.
LEMMA CrashRefines ==
    ASSUME IInv, NEW p \in Procs, Crash(p)
    PROVE  \/ Links' = Links /\ Lost' = Lost
           \/ Crashing # {} /\ ~Lost /\ Lost' /\ Links' = {}
<1>1. topofile' = topofile /\ Writers' = Writers \ {p} /\ p \in alive /\ p \in Crashing
  BY DEF Crash, files, Writers
<1>2. CASE p \in Writers
  <2>1. topofile = EMPTY
    BY <1>2 DEF IInv, Held, Writers
  <2>2. Writers = {p}
    BY <1>2 DEF Writers, IInv, MutualExclusion, Inside, Locked
  <2>3. Writers' = {}
    BY <2>2, <1>1
  <2>4. Links' = {}
    BY <2>1, <2>3, <1>1 DEF Links
  <2>. QED  BY <2>1, <2>2, <2>3, <2>4, <1>1 DEF Lost
<1>3. CASE p \notin Writers
  <2>1. Writers' = Writers /\ \A q \in Writers : topo'[q] = topo[q]
    BY <1>1, <1>3 DEF Crash, IInv, TypeOK, Writers
  <2>2. {Range(topo'[q].ifaces) : q \in Writers'} = {Range(topo[q].ifaces) : q \in Writers}
    BY <2>1
  <2>. QED  BY <2>1, <2>2, <1>1 DEF Links, Lost
<1>. QED  BY <1>2, <1>3

\* In terms of LinkStore: an Add of the new interface or a Remove of the one found.
LEMMA OpenIsAddOrRemove ==
    ASSUME IInv, NEW p \in Procs, Open(p)
    PROVE  Store!Add \/ Store!Remove
<1>. DEFINE f == topofile
            c == op[p].contract
            ends == {Info(x) : x \in {y \in Contracts : Concerns(y)}}
<1>1. /\ f \in Topo /\ Consistent(f) /\ op[p] \in Ops /\ Possible(f, op[p])
  BY DEF Open, At, IInv, Held, WellFormed, TypeOK, Inside, Locked
<1>2. c \in Contracts /\ Concerns(c) /\ Info(c) \in ends
  BY <1>1 DEF Ops, Possible
<1>3. /\ ~Lost /\ ~Lost'
      /\ Links = Range(f.ifaces)
      /\ Links' = Range(Changed(f, op[p]).ifaces)
  BY OpenRefines
<1>4. CASE op[p].kind = "activate"
  <2>. DEFINE new == NewInterface(f, c)
  <2>1. Links' = Links \cup {new}
    BY <1>1, <1>2, <1>3, <1>4, AddedIsConsistent DEF Changed
  <2>2. \A l \in Links : l.ifid # new.ifid /\ <<l.ip, l.port>> # <<new.ip, new.port>>
    BY <1>1, <1>2, <1>3, NewInterfaceIsNew
  <2>3. new \in Links' \ Links
    BY <2>1, <2>2
  <2>4. [ia |-> new.ia, remote |-> new.remote] \in ends
    BY <1>2 DEF NewInterface, Info
  <2>. HIDE DEF new, ends
  <2>5. Store!Add
    BY <1>3, <2>1, <2>2, <2>3, <2>4 DEF Store!Add, Lost, Links, ends
  <2>. QED  BY <2>5
<1>5. CASE op[p].kind # "activate"
  <2>1. PICK old \in Range(f.ifaces) :
            /\ old.remote = Info(c).remote
            /\ Range(Removed(f, c).ifaces) = Range(f.ifaces) \ {old}
    BY <1>1, <1>2, <1>5, RemovedIsConsistent DEF Possible
  <2>2. Links' = Links \ {old} /\ old \in Links
    BY <1>3, <1>5, <2>1 DEF Changed
  <2>. HIDE DEF ends
  <2>3. Store!Remove
    BY <1>2, <1>3, <2>1, <2>2 DEF Store!Remove, Lost, Links, ends
  <2>. QED  BY <2>3
<1>. QED  BY <1>4, <1>5

\* Every step of the reloader is a step of LinkStore or shows nothing there.
LEMMA NextRefines ==
    IInv /\ [Next]_vars => [Store!Add \/ Store!Remove \/ Store!Lose]_<<Links, Lost>>
<1>. SUFFICES ASSUME IInv, [Next]_vars
              PROVE  \/ Store!Add \/ Store!Remove \/ Store!Lose
                     \/ Links' = Links /\ Lost' = Lost
  OBVIOUS
<1>1. CASE CleanUp \/ UNCHANGED vars
  <2>1. topofile' = topofile /\ Writers' = Writers /\ topo' = topo
    BY <1>1 DEF CleanUp, vars, Writers
  <2>. QED  BY <2>1 DEF Links, Lost
<1>2. ASSUME NEW p \in Procs, Crash(p)
      PROVE  Store!Lose \/ (Links' = Links /\ Lost' = Lost)
  <2>1. CASE Crashing # {} /\ ~Lost /\ Lost' /\ Links' = {}
    <3>1. Store!Lose
      BY <2>1, Zenon DEF Store!Lose, Links, Lost
    <3>. QED  BY <3>1
  <2>. QED  BY <1>2, <2>1, CrashRefines
<1>3. ASSUME NEW p \in Procs, Write(p)
      PROVE  Links' = Links /\ Lost' = Lost
  BY <1>3, WriteRefines
<1>4. ASSUME NEW p \in Procs, Open(p)
      PROVE  Store!Add \/ Store!Remove
  BY <1>4, OpenIsAddOrRemove
<1>5. ASSUME NEW p \in Procs,
             \/ Construct(p) \/ ConstructFails(p) \/ (\E o \in Ops : Call(p, o))
             \/ Lock(p) \/ LockBusy(p) \/ Read(p) \/ ReadFails(p) \/ Unlock(p)
      PROVE  Links' = Links /\ Lost' = Lost
  BY <1>5, HiddenSteps
<1>. QED  BY <1>1, <1>2, <1>3, <1>4, <1>5 DEF Next, Step, Over

\* Concurrent calls of any number of processes have the effect of one after the
\* other: no change is lost and none is seen in part by the next.
THEOREM ReloaderImplementsLinkStore == Spec => ImplementsLinkStore
<1>1. Init => ~Lost
  BY InitRefines
<1>2. IInv /\ [Next]_vars => [Store!Add \/ Store!Remove \/ Store!Lose]_<<Links, Lost>>
  BY NextRefines
<1>3. Spec => ~Lost /\ [][Store!Add \/ Store!Remove \/ Store!Lose]_<<Links, Lost>>
  BY <1>1, <1>2, Invariance, PTL DEF Spec
<1>. QED  BY <1>3, PTL DEF ImplementsLinkStore, Store!LinkSpec, Lost, Links
=============================================================================
