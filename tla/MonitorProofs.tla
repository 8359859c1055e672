---------------------------- MODULE MonitorProofs ----------------------------
(* Theorems about the bandwidth monitor for any number of CPUs, any size of  *)
(* the maps, any packets and any ports.                                      *)
EXTENDS Monitor, FiniteSums, SequenceTheorems

Byte == {n \in Nat : n < 256}

UpperByte(n) == n \div 256
LowerByte(n) == n % 256

\* The two bytes of a 16-bit number, and what swapping them gives.
LEMMA Bytes ==
    ASSUME NEW n \in U16
    PROVE  /\ UpperByte(n) \in Byte /\ LowerByte(n) \in Byte
           /\ n = 256 * UpperByte(n) + LowerByte(n)
           /\ ReverseBytes16(n) = 256 * LowerByte(n) + UpperByte(n)
<1>1. n \in Nat /\ n < 65536
  BY DEF U16
<1>2. n = 256 * (n \div 256) + (n % 256) /\ n % 256 \in Byte /\ n \div 256 \in Int
  BY <1>1 DEF Byte
<1>3. n \div 256 \in Byte
  BY <1>1, <1>2 DEF Byte
<1>. QED  BY <1>2, <1>3 DEF UpperByte, LowerByte, ReverseBytes16, Byte

\* Swapping the bytes of 16 bits twice gives them back.
LEMMA BytesOf ==
    ASSUME NEW n \in U16
    PROVE  \E a, b \in Byte : n = 256 * a + b /\ ReverseBytes16(n) = 256 * b + a
BY Bytes

\* Through the XDP program's byte order, the ring buffer and the two big-endian
\* numbers that poll_ringbuf reads, a hop comes back as it was sent.
THEOREM HopsSurviveTheRing ==
    ASSUME NEW h \in Hop
    PROVE  HopOfRecord(KeyOf(h)) = h /\ KeyOf(h) = ToMapKey(h) /\ KeyOf(h) \in Nat
<1>1. PICK a, b \in Byte :
        h.ingress = 256 * a + b /\ ReverseBytes16(h.ingress) = 256 * b + a
  BY BytesOf DEF Hop
<1>2. PICK c, d \in Byte :
        h.egress = 256 * c + d /\ ReverseBytes16(h.egress) = 256 * d + c
  <2>1. h.egress \in U16
    BY DEF Hop
  <2>. QED  BY <2>1, BytesOf
<1>3. KeyOf(h) = (256 * b + a) + 65536 * (256 * d + c)
  BY <1>1, <1>2 DEF KeyOf, Halves
<1>4. /\ KeyOf(h) % 256 = a /\ (KeyOf(h) \div 256) % 256 = b
      /\ (KeyOf(h) \div 65536) % 256 = c /\ (KeyOf(h) \div 16777216) % 256 = d
  <2>1. a \in 0 .. 255 /\ b \in 0 .. 255 /\ c \in 0 .. 255 /\ d \in 0 .. 255
    BY DEF Byte
  <2>. DEFINE key == KeyOf(h)
  <2>2. key = (256 * b + a) + 65536 * (256 * d + c)
    BY <1>3
  <2>. HIDE DEF key
  <2>3. key % 256 = a
    BY <2>1, <2>2, SMTT(30)
  <2>4. key \div 256 = b + 256 * (256 * d + c)
    BY <2>1, <2>2, SMTT(30)
  <2>5. key \div 65536 = 256 * d + c
    BY <2>1, <2>2, SMTT(30)
  <2>6. key \div 16777216 = d
    BY <2>1, <2>2, SMTT(30)
  <2>7. (key \div 256) % 256 = b /\ (key \div 65536) % 256 = c /\ (key \div 16777216) % 256 = d
    BY <2>1, <2>4, <2>5, <2>6, SMTT(30)
  <2>. QED  BY <2>3, <2>7 DEF key
<1>5. /\ HopOfRecord(KeyOf(h)).ingress = h.ingress /\ HopOfRecord(KeyOf(h)).egress = h.egress
  BY <1>1, <1>2, <1>4 DEF HopOfRecord, Byte
<1>6. HopOfRecord(KeyOf(h)) = h
  BY <1>5 DEF Hop, HopOfRecord
<1>7. KeyOf(h) \in Nat
  BY <1>3 DEF Byte
<1>. QED  BY <1>6, <1>7 DEF KeyOf, ToMapKey

\* Whatever side of the provider the monitor is on and whatever way the packet
\* goes, the hop field that count looks up is the provider's.
THEOREM CountsTheProvidersHop ==
    ASSUME NEW pkt \in Packet, role \in {UPSTREAM, DOWNSTREAM}, ~Filtered(pkt)
    PROVE  HopField(pkt) = ProviderHop(pkt) /\ ProviderHop(pkt) \in Hop
<1>1. /\ pkt.hfs \in Seq(Hop) /\ pkt.provider \in Nat /\ pkt.port \in {"up", "down"}
      /\ Len(pkt.hfs) \in Nat
  BY DEF Packet
<1>2. CurrHF(pkt) < Len(pkt.hfs)
  BY DEF Filtered, IsSCION
<1>3. pkt.provider + 1 \in 1 .. Len(pkt.hfs)
  BY <1>1, <1>2 DEF CurrHF
<1>4. CurrHF(pkt) + (IF PrevHF(pkt) THEN 1 ELSE 2) = pkt.provider + 2
  BY <1>1 DEF CurrHF, PrevHF, LeftProvider, Direction, UPSTREAM, DOWNSTREAM
<1>5. (<<pkt.before>> \o pkt.hfs)[pkt.provider + 2] = pkt.hfs[pkt.provider + 1]
  <2>1. <<pkt.before>> \in Seq({pkt.before}) /\ Len(<<pkt.before>>) = 1
    OBVIOUS
  <2>. DEFINE s == <<pkt.before>>
              t == pkt.hfs
              i == pkt.provider + 2
  <2>2. s \in Seq({pkt.before} \cup Hop) /\ t \in Seq({pkt.before} \cup Hop)
        /\ i \in 1 .. (Len(s) + Len(t)) /\ i > Len(s) /\ Len(s) = 1
    BY <1>1, <1>3, <2>1
  <2>3. (s \o t)[i] = t[i - 1]
    BY <2>2
  <2>4. i - 1 = pkt.provider + 1
    BY <1>1
  <2>. HIDE DEF i
  <2>5. (s \o t)[i] = t[pkt.provider + 1]
    BY <2>3, <2>4
  <2>. QED  BY <2>5 DEF i
<1>6. pkt.hfs[pkt.provider + 1] \in Hop
  BY <1>1, <1>3
<1>. QED  BY <1>4, <1>5, <1>6 DEF HopField, ProviderHop
-----------------------------------------------------------------------------
ProviderHops == {ProviderHop(pkt) : pkt \in Packets} \cap Hop
GoodKeys == {KeyOf(h) : h \in ProviderHops}

CPUState == {Idle}
    \cup [pc : {"found"}, pkt : Packets, key : GoodKeys, elem : Elems]
    \cup [pc : {"missing", "report"}, pkt : Packets, key : GoodKeys]
Counter == [key : GoodKeys \cup {NoKey}, packets : [CPUs -> Nat]]

\* Whatever the monitor holds, in the kernel or on the host, is about hops of
\* the provider; hops are marked as deleted only while log_counters runs.
HopsInv ==
  /\ role \in {UPSTREAM, DOWNSTREAM}
  /\ counters \in [Elems -> Counter]
  /\ cpu \in [CPUs -> CPUState]
  /\ ring \in Seq(GoodKeys)
  /\ reader \in ProviderHops \cup {NoHop}
  /\ DOMAIN hops \subseteq ProviderHops
  /\ todo \subseteq DOMAIN hops
  /\ ~logging => deleted = {}

LEMMA GoodKey ==
    ASSUME NEW key \in GoodKeys
    PROVE  /\ HopOfRecord(key) \in ProviderHops /\ ToMapKey(HopOfRecord(key)) = key
           /\ key \in Nat
<1>1. PICK h \in ProviderHops : key = KeyOf(h)
  BY DEF GoodKeys
<1>2. h \in Hop
  BY <1>1 DEF ProviderHops
<1>. QED  BY <1>1, <1>2, HopsSurviveTheRing

LEMMA MappedIs ==
    ASSUME NEW key \in Mapped
    PROVE  ElemOf(key) \in Elems /\ counters[ElemOf(key)].key = key /\ key # NoKey
<1>1. key # NoKey /\ \E e \in Elems : counters[e].key = key
  BY DEF Mapped
<1>. QED  BY <1>1 DEF ElemOf

LEMMA LookupKeepsHops ==
    ASSUME MonitorAssumption, HopsInv, NEW c \in CPUs, NEW pkt \in Packets, Lookup(c, pkt)
    PROVE  HopsInv'
<1>. DEFINE k == KeyOf(HopField(pkt))
<1>1. k \in GoodKeys
  <2>1. pkt \in Packet
    BY DEF MonitorAssumption
  <2>2. HopField(pkt) = ProviderHop(pkt) /\ ProviderHop(pkt) \in Hop
    BY <2>1, CountsTheProvidersHop DEF HopsInv, Lookup
  <2>. QED  BY <2>2 DEF GoodKeys, ProviderHops
<1>2. k \in Mapped => ElemOf(k) \in Elems
  BY MappedIs
<1>3. cpu' = [cpu EXCEPT ![c] = IF k \in Mapped
                THEN [pc |-> "found", pkt |-> pkt, key |-> k, elem |-> ElemOf(k)]
                ELSE [pc |-> "missing", pkt |-> pkt, key |-> k]]
  BY DEF Lookup
<1>. HIDE DEF k
<1>4. cpu' \in [CPUs -> CPUState]
  BY <1>1, <1>2, <1>3 DEF HopsInv, CPUState
<1>. QED  BY <1>4 DEF HopsInv, Lookup, hostVars

LEMMA CPUKeepsHops ==
    ASSUME MonitorAssumption, HopsInv, NEW c \in CPUs, Count(c) \/ Insert(c) \/ Report(c)
    PROVE  HopsInv'
<1>0. /\ cpu \in [CPUs -> CPUState] /\ counters \in [Elems -> Counter]
      /\ Idle \in CPUState /\ cpu[c] \in CPUState
  BY DEF HopsInv, CPUState
<1>1. CASE Count(c)
  <2>1. cpu[c].elem \in Elems /\ cpu' = [cpu EXCEPT ![c] = Idle]
    BY <1>0, <1>1 DEF Count, CPUState, Idle
  <2>. DEFINE e == cpu[c].elem
  <2>2. counters' = [counters EXCEPT ![e].packets[c] = @ + 1]
    BY <1>1 DEF Count
  <2>. HIDE DEF e
  <2>3. counters[e] \in Counter /\ counters[e].packets \in [CPUs -> Nat]
    BY <1>0, <2>1 DEF Counter, e
  <2>4. [counters[e] EXCEPT !.packets[c] = @ + 1] \in Counter
    BY <2>3 DEF Counter
  <2>5. counters' \in [Elems -> Counter]
    BY <1>0, <2>2, <2>4
  <2>. QED  BY <1>0, <1>1, <2>1, <2>5 DEF Count, HopsInv, hostVars
<1>2. CASE Insert(c)
  <2>1. cpu[c].key \in GoodKeys /\ cpu[c].pkt \in Packets
    BY <1>0, <1>2 DEF Insert, CPUState, Idle
  <2>2. cpu[c] = [pc |-> "missing", pkt |-> cpu[c].pkt, key |-> cpu[c].key]
    BY <1>0, <1>2 DEF Insert, CPUState, Idle
  <2>3. [cpu[c] EXCEPT !.pc = "report"] \in CPUState
    BY <2>1, <2>2 DEF CPUState
  <2>4. cpu' \in [CPUs -> CPUState]
    BY <1>0, <1>2, <2>3 DEF Insert
  <2>5. counters' \in [Elems -> Counter]
    <3>1. CASE cpu[c].key \in Mapped
      BY <1>0, <1>2, <3>1 DEF Insert
    <3>2. CASE cpu[c].key \notin Mapped
      <4>0. PICK e \in Elems, evicted \in SUBSET Elems, zero \in BOOLEAN :
                 counters' = [x \in Elems |->
                   IF x = e
                   THEN [key |-> cpu[c].key,
                         packets |-> [d \in CPUs |->
                           IF d = c THEN 1
                           ELSE IF zero THEN 0 ELSE counters[e].packets[d]]]
                   ELSE IF x \in evicted THEN [counters[x] EXCEPT !.key = NoKey]
                   ELSE counters[x]]
        BY <1>2, <3>2, Zenon DEF Insert
      <4>1. \A x \in Elems : counters[x] \in Counter /\ [counters[x] EXCEPT !.key = NoKey] \in Counter
        BY <1>0 DEF Counter
      <4>2. [key |-> cpu[c].key,
             packets |-> [d \in CPUs |-> IF d = c THEN 1
                                         ELSE IF zero THEN 0 ELSE counters[e].packets[d]]] \in Counter
        BY <2>1, <4>1 DEF Counter
      <4>. QED  BY <4>0, <4>1, <4>2
    <3>. QED  BY <3>1, <3>2
  <2>. QED  BY <1>2, <2>4, <2>5 DEF Insert, HopsInv, hostVars
<1>3. CASE Report(c)
  <2>1. cpu[c].key \in GoodKeys
    BY <1>0, <1>3 DEF Report, CPUState, Idle
  <2>2. ring' \in Seq(GoodKeys)
    <3>1. PICK k : k = cpu[c].key
      OBVIOUS
    <3>2. ring' = ring \/ ring' = Append(ring, k)
      BY <1>3, <3>1 DEF Report
    <3>3. ring \in Seq(GoodKeys) /\ k \in GoodKeys
      BY <2>1, <3>1 DEF HopsInv
    <3>. QED  BY <3>2, <3>3
  <2>3. cpu' \in [CPUs -> CPUState]
    BY <1>0, <1>3 DEF Report
  <2>. QED  BY <1>3, <2>2, <2>3 DEF Report, HopsInv, hostVars
<1>. QED  BY <1>1, <1>2, <1>3

LEMMA HostKeepsHops ==
    ASSUME HopsInv, PollRingbuf \/ NewHop \/ Tick \/ LogCounters
    PROVE  HopsInv'
<1>1. CASE PollRingbuf
  <2>1. Head(ring) \in GoodKeys /\ ring' \in Seq(GoodKeys)
    BY <1>1 DEF PollRingbuf, HopsInv
  <2>. QED  BY <1>1, <2>1, GoodKey DEF PollRingbuf, HopsInv, kernelVars
<1>2. CASE NewHop
  BY <1>2 DEF NewHop, HopsInv, kernelVars
<1>3. CASE Tick
  BY <1>3 DEF Tick, HopsInv, kernelVars
<1>4. ASSUME NEW h \in todo, LogHop(h) PROVE HopsInv'
  <2>1. DOMAIN hops' = DOMAIN hops
    BY <1>4 DEF LogHop
  <2>. QED  BY <1>4, <2>1 DEF LogHop, HopsInv, kernelVars
<1>5. CASE LogDone
  BY <1>5 DEF LogDone, HopsInv, kernelVars
<1>. QED  BY <1>1, <1>2, <1>3, <1>4, <1>5 DEF LogCounters

LEMMA HopsInvAlways == Spec => []HopsInv
<1>1. MonitorAssumption /\ Init => HopsInv
  <2>. SUFFICES ASSUME MonitorAssumption, Init PROVE HopsInv
    OBVIOUS
  <2>1. counters \in [Elems -> Counter] /\ cpu \in [CPUs -> CPUState]
    BY DEF Init, Counter, CPUState
  <2>2. DOMAIN hops = {}
    BY DEF Init
  <2>3. ring \in Seq(GoodKeys)
    BY DEF Init
  <2>. QED  BY <2>1, <2>2, <2>3 DEF Init, HopsInv
<1>2. MonitorAssumption /\ HopsInv /\ [Next]_vars => HopsInv'
  <2>. SUFFICES ASSUME MonitorAssumption, HopsInv, [Next]_vars PROVE HopsInv'
    OBVIOUS
  <2>1. CASE UNCHANGED vars
    BY <2>1 DEF vars, HopsInv
  <2>. QED  BY <2>1, LookupKeepsHops, CPUKeepsHops, HostKeepsHops DEF Next, XDP
<1>. QED  BY <1>1, <1>2, MonitorAssumption, PTL DEF Spec

\* All that is ever logged is the provider's hops.
THEOREM LogsOnlyProviderHops == Spec => []OnlyProviderHops
<1>1. HopsInv => OnlyProviderHops
  BY DEF HopsInv, OnlyProviderHops, ProviderHops
<1>. QED  BY <1>1, HopsInvAlways, PTL
-----------------------------------------------------------------------------
Known == DOMAIN hops \ deleted
InRing(key) == \E i \in DOMAIN ring : ring[i] = key
Reported(key) == \E c \in CPUs : cpu[c].pc = "report" /\ cpu[c].key = key

LEMMA ComingIs ==
    ASSUME NEW key
    PROVE  /\ Coming(key) <=> \/ HopOfRecord(key) \in Known \cup {reader}
                              \/ InRing(key) \/ Reported(key)
           /\ Coming(key)' <=> \/ HopOfRecord(key) \in Known' \cup {reader'}
                               \/ InRing(key)' \/ Reported(key)'
BY DEF Coming, Known, InRing, Reported

\* A CPU's step changes no other CPU's state.
LEMMA ReportedKept ==
    ASSUME HopsInv, NEW c \in CPUs, cpu[c].pc # "report",
           \A d \in CPUs : d # c => cpu'[d] = cpu[d]
    PROVE  \A key : Reported(key) => Reported(key)'
BY DEF Reported

LEMMA CPUForgetsNothing ==
    ASSUME HopsInv, HopsInv', NoHopForgotten, NEW c \in CPUs, XDP(c)
    PROVE  NoHopForgotten'
<1>. USE DEF hostVars
<1>0. /\ cpu \in [CPUs -> CPUState] /\ cpu' \in [CPUs -> CPUState]
      /\ Known' = Known /\ reader' = reader
  BY DEF HopsInv, XDP, Lookup, Count, Insert, Report, Known
<1>1. \A d \in CPUs : d # c => cpu'[d] = cpu[d]
  BY <1>0 DEF XDP, Lookup, Count, Insert, Report
<1>2. ASSUME ring' = ring, dropped' = dropped, Mapped' \subseteq Mapped, cpu[c].pc # "report"
      PROVE  NoHopForgotten'
  <2>1. ASSUME NEW key \in Mapped' \ dropped' PROVE Coming(key)'
    <3>1. Coming(key)
      BY <1>2, <2>1 DEF NoHopForgotten
    <3>2. Reported(key) => Reported(key)'
      BY <1>1, <1>2, ReportedKept
    <3>3. InRing(key) => InRing(key)'
      BY <1>2 DEF InRing
    <3>. QED  BY <1>0, <3>1, <3>2, <3>3, ComingIs
  <2>. QED  BY <2>1 DEF NoHopForgotten
<1>3. ASSUME NEW pkt \in Packets, Lookup(c, pkt) PROVE NoHopForgotten'
  <2>1. cpu[c].pc # "report" /\ ring' = ring /\ dropped' = dropped /\ counters' = counters
    BY <1>3 DEF Lookup, Idle
  <2>. QED  BY <1>2, <2>1 DEF Mapped
<1>4. CASE Count(c)
  <2>1. cpu[c].pc # "report" /\ ring' = ring /\ dropped' = dropped
    BY <1>4 DEF Count
  <2>2. \A e \in Elems : counters'[e].key = counters[e].key
    BY <1>4 DEF Count, HopsInv, Counter
  <2>. QED  BY <1>2, <2>1, <2>2 DEF Mapped
<1>5. CASE Insert(c)
  <2>. DEFINE k == cpu[c].key
  <2>1. cpu[c].pc = "missing" /\ ring' = ring /\ cpu' = [cpu EXCEPT ![c].pc = "report"]
    BY <1>5 DEF Insert
  <2>2. cpu'[c].pc = "report" /\ cpu'[c].key = k
    <3>1. cpu[c] = [pc |-> "missing", pkt |-> cpu[c].pkt, key |-> cpu[c].key]
      BY <1>0, <2>1 DEF CPUState, Idle
    <3>. QED  BY <1>0, <2>1, <3>1
  <2>3. ASSUME NEW key, key = k PROVE Reported(key)'
    BY <2>2, <2>3 DEF Reported
  <2>4. Mapped' \subseteq Mapped \cup {k} /\ (dropped' = dropped \/ dropped' = dropped \ {k})
    <3>1. CASE k \in Mapped
      BY <1>5, <3>1 DEF Insert, Mapped
    <3>2. CASE k \notin Mapped
      <4>1. PICK e \in Elems, evicted \in SUBSET Elems, zero \in BOOLEAN :
                 counters' = [x \in Elems |->
                   IF x = e
                   THEN [key |-> cpu[c].key,
                         packets |-> [d \in CPUs |->
                           IF d = c THEN 1
                           ELSE IF zero THEN 0 ELSE counters[e].packets[d]]]
                   ELSE IF x \in evicted THEN [counters[x] EXCEPT !.key = NoKey]
                   ELSE counters[x]]
        BY <1>5, <3>2, Zenon DEF Insert
      <4>2. \A x \in Elems : [counters[x] EXCEPT !.key = NoKey].key = NoKey
        BY DEF HopsInv, Counter
      <4>3. \A x \in Elems : counters'[x].key \in {k, NoKey, counters[x].key}
        BY <4>1, <4>2
      <4>4. dropped' = dropped \ {k}
        BY <1>5, <3>2 DEF Insert
      <4>. QED  BY <4>3, <4>4 DEF Mapped
    <3>. QED  BY <3>1, <3>2
  <2>5. ASSUME NEW key \in Mapped' \ dropped' PROVE Coming(key)'
    <3>1. CASE key = k
      BY <2>3, <3>1, ComingIs
    <3>2. CASE key # k
      <4>1. Coming(key)
        BY <2>4, <2>5, <3>2 DEF NoHopForgotten
      <4>2. Reported(key) => Reported(key)'
        BY <1>1, <2>1, ReportedKept
      <4>3. InRing(key) => InRing(key)'
        BY <2>1 DEF InRing
      <4>. QED  BY <1>0, <4>1, <4>2, <4>3, ComingIs
    <3>. QED  BY <3>1, <3>2
  <2>. QED  BY <2>5 DEF NoHopForgotten
<1>6. CASE Report(c)
  <2>. DEFINE k == cpu[c].key
  <2>1. /\ ring \in Seq(GoodKeys) /\ k \in GoodKeys
        /\ counters' = counters /\ Mapped' = Mapped
    BY <1>0, <1>6 DEF Report, HopsInv, CPUState, Idle, Mapped
  <2>2. \A key : Reported(key) => key = k \/ Reported(key)'
    BY <1>1 DEF Reported
  <2>3. CASE Len(ring) < RingSlots
    <3>1. ring' = Append(ring, k) /\ dropped' = dropped \ {k}
      BY <1>6, <2>3 DEF Report
    <3>2. \A key : InRing(key) \/ key = k => InRing(key)'
      BY <2>1, <3>1 DEF InRing
    <3>3. ASSUME NEW key \in Mapped' \ dropped' PROVE Coming(key)'
      <4>1. key # k => Coming(key)
        BY <2>1, <3>1, <3>3 DEF NoHopForgotten
      <4>. QED  BY <1>0, <2>2, <3>2, <4>1, ComingIs
    <3>. QED  BY <3>3 DEF NoHopForgotten
  <2>4. CASE ~(Len(ring) < RingSlots)
    <3>1. ring' = ring /\ dropped' = dropped \cup {k}
      BY <1>6, <2>4 DEF Report
    <3>2. ASSUME NEW key \in Mapped' \ dropped' PROVE Coming(key)'
      <4>1. key # k /\ Coming(key)
        BY <2>1, <3>1, <3>2 DEF NoHopForgotten
      <4>2. InRing(key) => InRing(key)'
        BY <3>1 DEF InRing
      <4>. QED  BY <1>0, <2>2, <4>1, <4>2, ComingIs
    <3>. QED  BY <3>2 DEF NoHopForgotten
  <2>. QED  BY <2>3, <2>4
<1>. QED  BY <1>3, <1>4, <1>5, <1>6 DEF XDP

LEMMA HostForgetsNothing ==
    ASSUME HopsInv, NoHopForgotten, PollRingbuf \/ NewHop \/ Tick \/ LogCounters
    PROVE  NoHopForgotten'
<1>. USE DEF kernelVars
<1>1. \A key : Mapped' = Mapped /\ dropped' = dropped /\ (Reported(key) => Reported(key)')
  BY DEF PollRingbuf, NewHop, Tick, LogCounters, LogHop, LogDone, Mapped, Reported
<1>2. SUFFICES ASSUME NEW key \in Mapped \ dropped, Coming(key) PROVE Coming(key)'
  BY <1>1 DEF NoHopForgotten
<1>3. CASE PollRingbuf
  <2>1. /\ ring \in Seq(GoodKeys) /\ ring # <<>> /\ ring' = Tail(ring) /\ Known' = Known
        /\ reader = NoHop /\ reader' = HopOfRecord(Head(ring))
    BY <1>3 DEF PollRingbuf, HopsInv, Known
  <2>2. InRing(key) => InRing(key)' \/ key = Head(ring)
    <3>1. ASSUME NEW i \in DOMAIN ring, ring[i] = key, i # 1
          PROVE  i - 1 \in DOMAIN ring' /\ ring'[i - 1] = key
      BY <2>1, <3>1
    <3>2. Head(ring) = ring[1]
      BY <2>1
    <3>. QED  BY <3>1, <3>2 DEF InRing
  <2>3. HopOfRecord(key) # NoHop \/ HopOfRecord(key) \in Known \cup {reader'}
        \/ key \notin GoodKeys
    <3>1. key \in GoodKeys => HopOfRecord(key) \in Hop
      BY GoodKey DEF ProviderHops
    <3>. QED  BY <3>1, MonitorAssumption DEF MonitorAssumption
  <2>4. key \in GoodKeys
    BY <1>2 DEF Mapped, HopsInv, Counter
  <2>. QED  BY <1>1, <1>2, <2>1, <2>2, <2>3, <2>4, ComingIs
<1>4. CASE NewHop
  <2>1. Known' = Known \cup {reader} /\ ring' = ring
    BY <1>4 DEF NewHop, HopsInv, Known
  <2>2. InRing(key) => InRing(key)'
    BY <2>1 DEF InRing
  <2>. QED  BY <1>1, <1>2, <2>1, <2>2, ComingIs
<1>5. ASSUME NEW h \in todo, LogHop(h) PROVE Coming(key)'
  <2>1. /\ DOMAIN hops' = DOMAIN hops /\ ring' = ring /\ reader' = reader
        /\ deleted' = deleted \/ (deleted' = deleted \cup {h} /\ ToMapKey(h) \notin Mapped)
    BY <1>5 DEF LogHop
  <2>2. key \in GoodKeys
    BY <1>2 DEF Mapped, HopsInv, Counter
  <2>3. ToMapKey(h) \notin Mapped => HopOfRecord(key) # h
    BY <1>2, <2>2, GoodKey
  <2>4. InRing(key) => InRing(key)'
    BY <2>1 DEF InRing
  <2>5. HopOfRecord(key) \in Known => HopOfRecord(key) \in Known'
    BY <2>1, <2>3 DEF Known
  <2>. QED  BY <1>1, <1>2, <2>1, <2>4, <2>5, ComingIs
<1>6. CASE Tick \/ LogDone
  <2>1. Known' = Known /\ ring' = ring /\ reader' = reader
    BY <1>6 DEF Tick, LogDone, HopsInv, Known
  <2>2. InRing(key) => InRing(key)'
    BY <2>1 DEF InRing
  <2>. QED  BY <1>1, <1>2, <2>1, <2>2, ComingIs
<1>. QED  BY <1>3, <1>4, <1>5, <1>6 DEF LogCounters

\* As long as a hop is in the map, poll_counters knows it or will be told of it,
\* unless the ring was full.
THEOREM HopsAreNotForgotten == Spec => []NoHopForgotten
<1>1. MonitorAssumption /\ Init => NoHopForgotten
  BY DEF Init, NoHopForgotten, Mapped
<1>2. HopsInv /\ HopsInv' /\ NoHopForgotten /\ [Next]_vars => NoHopForgotten'
  <2>. SUFFICES ASSUME HopsInv, HopsInv', NoHopForgotten, [Next]_vars PROVE NoHopForgotten'
    OBVIOUS
  <2>1. CASE UNCHANGED vars
    BY <2>1 DEF vars, NoHopForgotten, Mapped, Coming
  <2>. QED  BY <2>1, CPUForgetsNothing, HostForgetsNothing DEF Next
<1>. QED  BY <1>1, <1>2, HopsInvAlways, MonitorAssumption, PTL DEF Spec
-----------------------------------------------------------------------------
\* What TypeOK says beyond HopsInv: the ring holds what it has room for, counts
\* are numbers, the loop of log_counters looks at hops that are known.
NumbersInv ==
  /\ Len(ring) <= RingSlots
  /\ \A h \in DOMAIN hops : hops[h] \in Nat
  /\ deleted \subseteq DOMAIN hops
  /\ ~logging => todo = {}
  /\ seen \in Nat
  /\ dropped \subseteq GoodKeys

\* What the host reads for a mapped key is a number.
LEMMA ReadTyped ==
    ASSUME HopsInv, NEW key \in Mapped
    PROVE  ReadPerCPU(key) \in Nat
<1>1. counters[ElemOf(key)].packets \in [CPUs -> Nat]
  BY MappedIs DEF HopsInv, Counter
<1>2. IsFiniteSet(CPUs)
  BY MonitorAssumption DEF MonitorAssumption
<1>. QED  BY <1>1, <1>2, SumFunctionNat DEF ReadPerCPU

LEMMA CPUKeepsNumbers ==
    ASSUME HopsInv, NumbersInv, NEW c \in CPUs, XDP(c)
    PROVE  NumbersInv'
<1>. USE DEF hostVars
<1>1. ASSUME NEW pkt \in Packets, Lookup(c, pkt) PROVE NumbersInv'
  BY <1>1 DEF Lookup, NumbersInv
<1>2. CASE Count(c)
  BY <1>2 DEF Count, NumbersInv
<1>3. CASE Insert(c)
  <2>1. UNCHANGED <<ring, seen, hostVars>> /\ dropped' \subseteq dropped
    BY <1>3 DEF Insert
  <2>. QED  BY <2>1 DEF NumbersInv
<1>4. CASE Report(c)
  <2>1. cpu[c].key \in GoodKeys
    <3>1. cpu[c] \in CPUState
      BY DEF HopsInv
    <3>. QED  BY <1>4, <3>1 DEF Report, CPUState, Idle
  <2>2. ring \in Seq(GoodKeys) /\ RingSlots \in Nat
    BY MonitorAssumption DEF HopsInv, MonitorAssumption
  <2>3. Len(ring') <= RingSlots
    BY <1>4, <2>1, <2>2 DEF Report, NumbersInv
  <2>4. dropped' \subseteq GoodKeys
    BY <1>4, <2>1 DEF Report, NumbersInv
  <2>. QED  BY <1>4, <2>3, <2>4 DEF Report, NumbersInv
<1>. QED  BY <1>1, <1>2, <1>3, <1>4 DEF XDP

LEMMA HostKeepsNumbers ==
    ASSUME HopsInv, NumbersInv, PollRingbuf \/ NewHop \/ Tick \/ LogCounters
    PROVE  NumbersInv'
<1>. USE DEF kernelVars
<1>1. CASE PollRingbuf
  <2>1. ring \in Seq(GoodKeys) /\ ring # <<>> /\ ring' = Tail(ring) /\ RingSlots \in Nat
    BY <1>1, MonitorAssumption DEF PollRingbuf, HopsInv, MonitorAssumption
  <2>2. Len(ring') <= RingSlots
    BY <2>1 DEF NumbersInv
  <2>. QED  BY <1>1, <2>2 DEF PollRingbuf, NumbersInv
<1>2. CASE NewHop
  <2>1. DOMAIN hops' = DOMAIN hops \cup {reader} /\ \A h \in DOMAIN hops' : hops'[h] \in Nat
    BY <1>2 DEF NewHop, NumbersInv
  <2>. QED  BY <1>2, <2>1 DEF NewHop, NumbersInv
<1>3. CASE Tick
  BY <1>3 DEF Tick, NumbersInv
<1>4. ASSUME NEW h \in todo, LogHop(h) PROVE NumbersInv'
  <2>1. h \in DOMAIN hops /\ logging /\ logging' = logging
    BY <1>4 DEF LogHop, HopsInv
  <2>2. CASE ToMapKey(h) \in Mapped
    <3>1. ReadPerCPU(ToMapKey(h)) \in Nat
      BY <2>2, ReadTyped
    <3>2. hops' = [hops EXCEPT ![h] = ReadPerCPU(ToMapKey(h))]
      BY <1>4, <2>2 DEF LogHop
    <3>3. DOMAIN hops' = DOMAIN hops /\ \A x \in DOMAIN hops' : hops'[x] \in Nat
      BY <2>1, <3>1, <3>2 DEF NumbersInv
    <3>. QED  BY <1>4, <2>1, <2>2, <3>3 DEF LogHop, NumbersInv
  <2>3. CASE ToMapKey(h) \notin Mapped
    BY <1>4, <2>1, <2>3 DEF LogHop, NumbersInv
  <2>. QED  BY <2>2, <2>3
<1>5. CASE LogDone
  BY <1>5 DEF LogDone, NumbersInv
<1>. QED  BY <1>1, <1>2, <1>3, <1>4, <1>5 DEF LogCounters

LEMMA NumbersInvAlways == Spec => []NumbersInv
<1>1. MonitorAssumption /\ Init => NumbersInv
  BY DEF Init, NumbersInv, MonitorAssumption
<1>2. HopsInv /\ NumbersInv /\ [Next]_vars => NumbersInv'
  <2>. SUFFICES ASSUME HopsInv, NumbersInv, [Next]_vars PROVE NumbersInv'
    OBVIOUS
  <2>1. CASE UNCHANGED vars
    BY <2>1 DEF vars, NumbersInv
  <2>. QED  BY <2>1, CPUKeepsNumbers, HostKeepsNumbers DEF Next
<1>. QED  BY <1>1, <1>2, HopsInvAlways, MonitorAssumption, PTL DEF Spec

\* The maps, the ring buffer and the host's hops hold what their types say, the
\* ring never more than it has room for.
THEOREM MonitorTyped == Spec => []TypeOK
<1>1. HopsInv /\ NumbersInv => TypeOK
  <2>. SUFFICES ASSUME HopsInv, NumbersInv PROVE TypeOK
    OBVIOUS
  <2>1. GoodKeys \subseteq Nat /\ ProviderHops \subseteq Hop
    BY GoodKey DEF ProviderHops
  <2>2. counters \in [Elems -> [key : Nat \cup {NoKey}, packets : [CPUs -> Nat]]]
    BY <2>1 DEF HopsInv, Counter
  <2>3. ASSUME NEW c \in CPUs, cpu[c] # Idle
        PROVE  /\ cpu[c].pc \in {"found", "missing", "report"}
               /\ cpu[c].pkt \in Packets /\ cpu[c].key \in Nat
               /\ cpu[c].pc = "found" => cpu[c].elem \in Elems
    <3>1. cpu[c] \in CPUState
      BY DEF HopsInv
    <3>. QED  BY <2>1, <2>3, <3>1 DEF CPUState
  <2>4. ring \in Seq(Nat)
    <3>1. ring \in Seq(GoodKeys)
      BY DEF HopsInv
    <3>2. Len(ring) \in Nat /\ ring \in [1 .. Len(ring) -> GoodKeys]
      BY <3>1, LenProperties
    <3>3. ring \in [1 .. Len(ring) -> Nat]
      BY <2>1, <3>2
    <3>. QED  BY <3>1, <3>3
  <2>. QED  BY <2>1, <2>2, <2>3, <2>4 DEF HopsInv, NumbersInv, TypeOK
<1>. QED  BY <1>1, HopsInvAlways, NumbersInvAlways, PTL
-----------------------------------------------------------------------------
(* EveryPacketOnce: a packet is pending until its CPU has counted it, in an  *)
(* element that may be another hop's by then, or has lost an insertion.      *)

PacketsIn(e) == SumFunction(counters[e].packets)
Total == SumFunction([e \in Elems |-> PacketsIn(e)])
PendingCPUs == {c \in CPUs : cpu[c].pc \in {"found", "missing"}}
OnceInv == seen \in Nat /\ Total + Cardinality(PendingCPUs) <= seen

LEMMA TotalTyped ==
    ASSUME HopsInv
    PROVE  /\ IsFiniteSet(CPUs) /\ IsFiniteSet(Elems)
           /\ \A e \in Elems : PacketsIn(e) \in Nat
           /\ Total \in Nat
<1>1. IsFiniteSet(CPUs) /\ IsFiniteSet(Elems)
  BY MonitorAssumption DEF MonitorAssumption
<1>2. ASSUME NEW e \in Elems PROVE PacketsIn(e) \in Nat
  <2>1. counters[e].packets \in [CPUs -> Nat]
    BY DEF HopsInv, Counter
  <2>. QED  BY <1>1, <2>1, SumFunctionNat DEF PacketsIn
<1>3. [e \in Elems |-> PacketsIn(e)] \in [Elems -> Nat]
  BY <1>2
<1>. QED  BY <1>1, <1>2, <1>3, SumFunctionNat DEF Total

\* A CPU that stops waiting to count lowers the number that do by one.
LEMMA PendingLess ==
    ASSUME HopsInv, NEW c \in PendingCPUs, cpu'[c].pc \notin {"found", "missing"},
           \A d \in CPUs : d # c => cpu'[d] = cpu[d]
    PROVE  /\ Cardinality(PendingCPUs) \in Nat
           /\ Cardinality(PendingCPUs') = Cardinality(PendingCPUs) - 1
<1>1. PendingCPUs' = PendingCPUs \ {c}
  BY DEF PendingCPUs
<1>2. IsFiniteSet(PendingCPUs)
  BY TotalTyped, FS_Subset DEF PendingCPUs
<1>. QED  BY <1>1, <1>2, FS_RemoveElement, FS_CardinalityType

\* A step that adds at most one packet to one element and keeps the others'.
LEMMA TotalGrowsByOne ==
    ASSUME HopsInv, HopsInv', NEW e \in Elems,
           \A x \in Elems : x # e => counters'[x].packets = counters[x].packets,
           NEW c \in CPUs,
           counters'[e].packets[c] <= counters[e].packets[c] + 1,
           \A d \in CPUs : d # c => counters'[e].packets[d] <= counters[e].packets[d]
    PROVE  Total' <= Total + 1 /\ Total' \in Nat /\ Total \in Nat
<1>1. /\ IsFiniteSet(CPUs) /\ IsFiniteSet(Elems)
      /\ \A x \in Elems : PacketsIn(x) \in Nat /\ PacketsIn(x)' \in Nat
      /\ Total \in Nat /\ Total' \in Nat
  <2>1. /\ \A x \in Elems : counters'[x].packets \in [CPUs -> Nat]
    BY DEF HopsInv, Counter
  <2>2. IsFiniteSet(CPUs) /\ IsFiniteSet(Elems)
    BY TotalTyped
  <2>3. \A x \in Elems : PacketsIn(x)' \in Nat
    BY <2>1, <2>2, SumFunctionNat DEF PacketsIn
  <2>4. PICK g : g = [x \in Elems |-> PacketsIn(x)']
    OBVIOUS
  <2>5. g \in [Elems -> Nat] /\ Total' = SumFunction(g)
    BY <2>3, <2>4 DEF Total
  <2>. QED  BY <2>2, <2>3, <2>5, TotalTyped, SumFunctionNat
<1>2. PacketsIn(e)' <= PacketsIn(e) + 1
  <2>1. PICK p, q : p = counters[e].packets /\ q = counters'[e].packets
    OBVIOUS
  <2>2. p \in [CPUs -> Nat] /\ q \in [CPUs -> Nat]
    BY <2>1 DEF HopsInv, Counter
  <2>3. PICK r : r = [p EXCEPT ![c] = p[c] + 1]
    OBVIOUS
  <2>4. r \in [CPUs -> Int] /\ q \in [CPUs -> Int] /\ p \in [CPUs -> Int]
        /\ p[c] \in Int /\ p[c] + 1 \in Int
    BY <2>2, <2>3
  <2>5. \A d \in CPUs : q[d] <= r[d]
    BY <2>1, <2>2, <2>3
  <2>6. SumFunction(q) <= SumFunction(r)
    BY <1>1, <2>4, <2>5, SumMono
  <2>7. SumFunction(r) = (SumFunction(p) - p[c]) + (p[c] + 1)
    <3>1. PICK v \in Int : v = p[c] + 1
      BY <2>4
    <3>2. r = [p EXCEPT ![c] = v]
      BY <2>3, <3>1
    <3>3. SumFunction([p EXCEPT ![c] = v]) = (SumFunction(p) - p[c]) + v
      BY <1>1, <2>4, SumExcept
    <3>. QED  BY <3>1, <3>2, <3>3
  <2>8. PacketsIn(e) = SumFunction(p) /\ PacketsIn(e)' = SumFunction(q)
    BY <2>1 DEF PacketsIn
  <2>. QED  BY <1>1, <2>4, <2>6, <2>7, <2>8
<1>3. PICK f, g : f = [x \in Elems |-> PacketsIn(x)] /\ g = [x \in Elems |-> PacketsIn(x)']
  OBVIOUS
<1>4. /\ f \in [Elems -> Int] /\ g[e] \in Int /\ f[e] \in Int
      /\ g = [f EXCEPT ![e] = g[e]] /\ g[e] <= f[e] + 1
  <2>1. \A x \in Elems : x # e => PacketsIn(x)' = PacketsIn(x)
    BY DEF PacketsIn
  <2>2. f \in [Elems -> Nat] /\ g \in [Elems -> Nat]
    BY <1>1, <1>3
  <2>3. \A x \in Elems : g[x] = (IF x = e THEN g[e] ELSE f[x])
    BY <1>3, <2>1
  <2>. QED  BY <1>2, <1>3, <2>2, <2>3
<1>5. SumFunction(g) = (SumFunction(f) - f[e]) + g[e]
  BY <1>1, <1>4, SumExcept
<1>6. Total = SumFunction(f) /\ Total' = SumFunction(g)
  BY <1>3 DEF Total
<1>. QED  BY <1>1, <1>4, <1>5, <1>6

\* A CPU that counts, inserts or loses the insertion is done with its packet.
LEMMA CPUCountsOnce ==
    ASSUME HopsInv, HopsInv', OnceInv, NEW c \in CPUs, XDP(c)
    PROVE  OnceInv'
<1>0. /\ cpu \in [CPUs -> CPUState] /\ counters \in [Elems -> Counter]
      /\ cpu[c] \in CPUState /\ Total \in Nat /\ IsFiniteSet(PendingCPUs)
      /\ Cardinality(PendingCPUs) \in Nat
  BY TotalTyped, FS_Subset, FS_CardinalityType DEF HopsInv, PendingCPUs
<1>1. \A d \in CPUs : d # c => cpu'[d] = cpu[d]
  BY <1>0 DEF XDP, Lookup, Count, Insert, Report
<1>2. ASSUME NEW pkt \in Packets, Lookup(c, pkt) PROVE OnceInv'
  <2>1. counters' = counters /\ seen' = seen + 1 /\ c \notin PendingCPUs
    BY <1>2 DEF Lookup, PendingCPUs, Idle
  <2>2. PendingCPUs' \subseteq PendingCPUs \cup {c}
    BY <1>1 DEF PendingCPUs
  <2>3. Cardinality(PendingCPUs') <= Cardinality(PendingCPUs) + 1
        /\ Cardinality(PendingCPUs') \in Nat
    <3>1. IsFiniteSet(PendingCPUs \cup {c})
          /\ Cardinality(PendingCPUs \cup {c}) = Cardinality(PendingCPUs) + 1
      BY <1>0, <2>1, FS_AddElement
    <3>2. IsFiniteSet(PendingCPUs') /\ Cardinality(PendingCPUs') <= Cardinality(PendingCPUs \cup {c})
      BY <2>2, <3>1, FS_Subset
    <3>. QED  BY <3>1, <3>2, FS_CardinalityType
  <2>4. Total' = Total
    BY <2>1 DEF Total, PacketsIn
  <2>. QED  BY <1>0, <2>1, <2>3, <2>4 DEF OnceInv
<1>3. CASE Count(c)
  <2>1. /\ c \in PendingCPUs /\ cpu'[c].pc \notin {"found", "missing"}
        /\ seen' = seen /\ cpu[c].elem \in Elems
    BY <1>0, <1>3 DEF Count, PendingCPUs, CPUState, Idle
  <2>2. PICK e \in Elems : counters' = [counters EXCEPT ![e].packets[c] = @ + 1]
    BY <1>3, <2>1 DEF Count
  <2>3. counters[e] \in Counter /\ counters[e].packets \in [CPUs -> Nat]
    BY <1>0 DEF Counter
  <2>4. \A x \in Elems : x # e => counters'[x].packets = counters[x].packets
    BY <1>0, <2>2
  <2>5. counters'[e].packets = [counters[e].packets EXCEPT ![c] = @ + 1]
    BY <1>0, <2>2, <2>3 DEF Counter
  <2>6. /\ counters'[e].packets[c] <= counters[e].packets[c] + 1
        /\ \A d \in CPUs : d # c => counters'[e].packets[d] <= counters[e].packets[d]
    BY <2>3, <2>5
  <2>7. Total' <= Total + 1 /\ Total' \in Nat
    BY <2>4, <2>6, TotalGrowsByOne
  <2>. QED  BY <1>0, <1>1, <2>1, <2>7, PendingLess DEF OnceInv
<1>4. CASE Insert(c)
  <2>1. c \in PendingCPUs /\ cpu'[c].pc \notin {"found", "missing"} /\ seen' = seen
    <3>1. cpu[c] = [pc |-> "missing", pkt |-> cpu[c].pkt, key |-> cpu[c].key]
      BY <1>0, <1>4 DEF Insert, CPUState, Idle
    <3>. QED  BY <1>0, <1>4, <3>1 DEF Insert, PendingCPUs
  <2>2. Total' <= Total + 1 /\ Total' \in Nat
    <3>1. CASE cpu[c].key \in Mapped
      <4>1. counters' = counters
        BY <1>4, <3>1 DEF Insert
      <4>2. Total' = Total
        BY <4>1 DEF Total, PacketsIn
      <4>. QED  BY <1>0, <4>2
    <3>2. CASE cpu[c].key \notin Mapped
      <4>1. PICK e \in Elems, evicted \in SUBSET Elems, zero \in BOOLEAN :
                 counters' = [x \in Elems |->
                   IF x = e
                   THEN [key |-> cpu[c].key,
                         packets |-> [d \in CPUs |->
                           IF d = c THEN 1
                           ELSE IF zero THEN 0 ELSE counters[e].packets[d]]]
                   ELSE IF x \in evicted THEN [counters[x] EXCEPT !.key = NoKey]
                   ELSE counters[x]]
        BY <1>4, <3>2, Zenon DEF Insert
      <4>2. \A x \in Elems : [counters[x] EXCEPT !.key = NoKey].packets = counters[x].packets
        BY <1>0 DEF Counter
      <4>3. \A x \in Elems : x # e => counters'[x].packets = counters[x].packets
        BY <4>1, <4>2
      <4>4. counters[e].packets \in [CPUs -> Nat]
        BY <1>0 DEF Counter
      <4>5. counters'[e].packets =
              [d \in CPUs |-> IF d = c THEN 1 ELSE IF zero THEN 0 ELSE counters[e].packets[d]]
        BY <4>1
      <4>6. /\ counters'[e].packets[c] <= counters[e].packets[c] + 1
            /\ \A d \in CPUs : d # c => counters'[e].packets[d] <= counters[e].packets[d]
        BY <4>4, <4>5
      <4>. QED  BY <4>3, <4>6, TotalGrowsByOne
    <3>. QED  BY <3>1, <3>2
  <2>. QED  BY <1>0, <1>1, <2>1, <2>2, PendingLess DEF OnceInv
<1>5. CASE Report(c)
  <2>1. counters' = counters /\ seen' = seen
    BY <1>5 DEF Report
  <2>2. PendingCPUs' = PendingCPUs
    <3>1. cpu[c].pc = "report" /\ cpu'[c].pc = "idle"
      BY <1>0, <1>5 DEF Report, Idle
    <3>. QED  BY <1>1, <3>1 DEF PendingCPUs
  <2>3. Total' = Total
    BY <2>1 DEF Total, PacketsIn
  <2>. QED  BY <2>1, <2>2, <2>3 DEF OnceInv
<1>. QED  BY <1>2, <1>3, <1>4, <1>5 DEF XDP

\* However CPUs and evictions interleave, the counters never hold more packets
\* than came by: a packet is counted at most once, in whatever element.
THEOREM PacketsCountedOnce == Spec => []EveryPacketOnce
<1>1. MonitorAssumption /\ Init => OnceInv
  <2>. SUFFICES ASSUME MonitorAssumption, Init PROVE OnceInv
    OBVIOUS
  <2>1. PendingCPUs = {}
    BY DEF Init, PendingCPUs, Idle
  <2>2. PICK z : z = [c \in CPUs |-> 0]
    OBVIOUS
  <2>3. SumFunction(z) = 0
    BY <2>2, SumZero DEF SumFunction, MonitorAssumption
  <2>4. \A e \in Elems : PacketsIn(e) = 0
    BY <2>2, <2>3 DEF Init, PacketsIn
  <2>5. PICK f : f = [e \in Elems |-> PacketsIn(e)]
    OBVIOUS
  <2>6. SumFunction(f) = 0
    BY <2>4, <2>5, SumZero DEF SumFunction, MonitorAssumption
  <2>. QED  BY <2>1, <2>5, <2>6, FS_EmptySet DEF Init, OnceInv, Total
<1>2. HopsInv /\ HopsInv' /\ OnceInv /\ [Next]_vars => OnceInv'
  <2>. SUFFICES ASSUME HopsInv, HopsInv', OnceInv, [Next]_vars PROVE OnceInv'
    OBVIOUS
  <2>1. CASE UNCHANGED <<counters, cpu, seen>>
    BY <2>1 DEF OnceInv, Total, PacketsIn, PendingCPUs
  <2>2. CASE PollRingbuf \/ NewHop \/ Tick \/ LogCounters \/ UNCHANGED vars
    BY <2>1, <2>2 DEF PollRingbuf, NewHop, Tick, LogCounters, LogHop, LogDone, kernelVars, vars
  <2>. QED  BY <2>2, CPUCountsOnce DEF Next
<1>3. OnceInv => EveryPacketOnce
  BY DEF OnceInv, EveryPacketOnce, Total, PacketsIn, PendingCPUs
<1>. QED  BY <1>1, <1>2, <1>3, HopsInvAlways, MonitorAssumption, PTL DEF Spec
-----------------------------------------------------------------------------
(* Which ports pass the filter, whose comparison is of swapped bytes.      *)

\* When both ends of the range have the same upper byte, every port of the range
\* passes, and of the ports with that upper byte no other.  Of the other ports
\* those pass whose lower byte lies between the ends', and none whose does not.
THEOREM FilterOfOneUpperByte ==
    ASSUME UpperByte(FirstPort) = UpperByte(LastPort), NEW dest \in U16
    PROVE  /\ UpperByte(dest) = UpperByte(FirstPort) =>
                (InPortRange(dest) <=> dest \in FirstPort .. LastPort)
           /\ dest \in FirstPort .. LastPort => UpperByte(dest) = UpperByte(FirstPort)
           /\ LowerByte(FirstPort) < LowerByte(dest) /\ LowerByte(dest) < LowerByte(LastPort)
                => InPortRange(dest)
           /\ InPortRange(dest) =>
                LowerByte(dest) \in LowerByte(FirstPort) .. LowerByte(LastPort)
<1>1. PICK a, b, h, l, u \in Byte :
        /\ a = LowerByte(FirstPort) /\ b = LowerByte(LastPort) /\ u = UpperByte(FirstPort)
        /\ l = LowerByte(dest) /\ h = UpperByte(dest)
        /\ FirstPort = 256 * u + a /\ ReverseBytes16(FirstPort) = 256 * a + u
        /\ LastPort = 256 * u + b /\ ReverseBytes16(LastPort) = 256 * b + u
        /\ dest = 256 * h + l /\ ReverseBytes16(dest) = 256 * l + h
  BY Bytes, MonitorAssumption
<1>2. /\ a \in 0 .. 255 /\ b \in 0 .. 255 /\ u \in 0 .. 255
      /\ l \in 0 .. 255 /\ h \in 0 .. 255
  BY DEF Byte
<1>3. InPortRange(dest) <=> 256 * a + u <= 256 * l + h /\ 256 * l + h <= 256 * b + u
  <2>1. PICK x, y, z \in Int :
          /\ x = 256 * a + u /\ ReverseBytes16(FirstPort) = x
          /\ y = 256 * l + h /\ ReverseBytes16(dest) = y
          /\ z = 256 * b + u /\ ReverseBytes16(LastPort) = z
    BY <1>1, <1>2
  <2>2. InPortRange(dest) <=> x <= y /\ y <= z
    <3>1. InPortRange(dest) <=> y \in x .. z
      BY <2>1 DEF InPortRange
    <3>. QED  BY <3>1
  <2>. QED  BY <2>1, <2>2
<1>4. dest \in FirstPort .. LastPort <=>
        256 * u + a <= 256 * h + l /\ 256 * h + l <= 256 * u + b
  <2>1. PICK x, y, z \in Int :
          /\ x = 256 * u + a /\ FirstPort = x
          /\ y = 256 * h + l /\ dest = y
          /\ z = 256 * u + b /\ LastPort = z
    BY <1>1, <1>2
  <2>2. dest \in FirstPort .. LastPort <=> x <= y /\ y <= z
    BY <2>1
  <2>. QED  BY <2>1, <2>2
<1>5. h = u => (InPortRange(dest) <=> dest \in FirstPort .. LastPort)
  BY <1>2, <1>3, <1>4
<1>6. dest \in FirstPort .. LastPort => h = u
  BY <1>2, <1>4
<1>7. a < l /\ l < b => InPortRange(dest)
  BY <1>2, <1>3
<1>8. InPortRange(dest) => l \in a .. b
  BY <1>2, <1>3
<1>. QED  BY <1>1, <1>5, <1>6, <1>7, <1>8

FilteredInv == \A c \in CPUs : cpu[c] # Idle => InPortRange(cpu[c].pkt.dest)

\* What the run monitor_ports refutes holds if all ports in use share one upper
\* byte: then the program counts the packets of the closed interval only.
THEOREM ClosedIntervalOfOneUpperByte ==
    ASSUME UpperByte(FirstPort) = UpperByte(LastPort),
           \A pkt \in Packets : UpperByte(pkt.dest) = UpperByte(FirstPort)
    PROVE  Spec => []ClosedInterval
<1>1. Init => FilteredInv
  BY DEF Init, FilteredInv
<1>2. HopsInv /\ FilteredInv /\ [Next]_vars => FilteredInv'
  <2>. SUFFICES ASSUME HopsInv, FilteredInv, [Next]_vars, NEW d \in CPUs, cpu'[d] # Idle
                PROVE  InPortRange(cpu'[d].pkt.dest)
    BY DEF FilteredInv
  <2>0. cpu \in [CPUs -> CPUState]
    BY DEF HopsInv
  <2>1. ASSUME cpu'[d] = cpu[d]
        PROVE  InPortRange(cpu'[d].pkt.dest)
    BY <2>1 DEF FilteredInv
  <2>2. ASSUME NEW c \in CPUs, NEW pkt \in Packets, Lookup(c, pkt)
        PROVE  InPortRange(cpu'[d].pkt.dest)
    <3>1. CASE d = c
      <4>1. cpu'[d].pkt = pkt
        BY <2>0, <2>2, <3>1 DEF Lookup
      <4>. QED  BY <2>2, <4>1 DEF Lookup, Filtered
    <3>2. CASE d # c
      BY <2>0, <2>1, <2>2, <3>2 DEF Lookup
    <3>. QED  BY <3>1, <3>2
  <2>3. ASSUME NEW c \in CPUs, Count(c) \/ Report(c)
        PROVE  InPortRange(cpu'[d].pkt.dest)
    BY <2>0, <2>1, <2>3 DEF Count, Report
  <2>4. ASSUME NEW c \in CPUs, Insert(c)
        PROVE  InPortRange(cpu'[d].pkt.dest)
    <3>1. cpu' = [cpu EXCEPT ![c].pc = "report"] /\ cpu[c] # Idle
      BY <2>4 DEF Insert, Idle
    <3>2. cpu[c].pkt = cpu'[c].pkt
      BY <2>0, <3>1 DEF CPUState
    <3>. QED  BY <2>0, <2>1, <3>1, <3>2 DEF FilteredInv
  <2>5. CASE UNCHANGED cpu
    BY <2>1, <2>5
  <2>6. CASE PollRingbuf \/ NewHop \/ Tick \/ LogCounters \/ UNCHANGED vars
    BY <2>5, <2>6 DEF PollRingbuf, NewHop, Tick, LogCounters, LogHop, LogDone, kernelVars, vars
  <2>. QED  BY <2>2, <2>3, <2>4, <2>6 DEF Next, XDP
<1>3. HopsInv /\ FilteredInv => ClosedInterval
  <2>. SUFFICES ASSUME HopsInv, FilteredInv, NEW c \in CPUs, cpu[c] # Idle
                PROVE  cpu[c].pkt.dest \in FirstPort .. LastPort
    BY DEF ClosedInterval
  <2>1. cpu[c].pkt \in Packets
    BY DEF HopsInv, CPUState
  <2>2. cpu[c].pkt.dest \in U16
    BY <2>1, MonitorAssumption DEF Packet
  <2>. QED  BY <2>1, <2>2, FilterOfOneUpperByte DEF FilteredInv
<1>. QED  BY <1>1, <1>2, <1>3, HopsInvAlways, MonitorAssumption, PTL DEF Spec
=============================================================================
