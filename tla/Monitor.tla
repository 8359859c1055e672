------------------------------- MODULE Monitor -------------------------------
(***************************************************************************)
(* The bandwidth monitor of src/monitor: the XDP program that counts the   *)
(* packets crossing a link (bpf/monitor.c), and the host application that  *)
(* learns the counted hops from a ring buffer and logs their counters      *)
(* (monitor.go).  Several CPUs run the XDP program at once; the host runs  *)
(* the goroutines poll_ringbuf and poll_counters.  The BPF maps and the    *)
(* border routers are code outside the repository: an LRU map may evict    *)
(* any entry when another is inserted, and a lookup returns a pointer that *)
(* outlives the entry.  Byte order is that of the build, x86_64.           *)
(***************************************************************************)
EXTENDS Integers, Sequences, FiniteSets, Functions

CONSTANTS
  CPUs,            \* the CPUs that run esdx_monitor
  Elems,           \* the elements of the counters map (MAX_HOPS of them)
  RingSlots,       \* the records event_ringbuf has room for
  Packets,         \* the packets that may arrive
  FirstPort,       \* scion_port_range, as given to -ports
  LastPort,
  NoKey, NoHop,    \* an element that is free, a goroutine that holds no hop
  MaxPackets       \* bound: packets counted in a behaviour

UPSTREAM   == 0
DOWNSTREAM == 1

U16 == {n \in Nat : n < 65536}
Hop == [ingress : U16, egress : U16]

(* A packet as the parser sees it: what decides whether it is counted, the *)
(* hop fields from the first one to the end of the data, the 12 bytes      *)
(* before them, and the port it comes in by.  provider is the position of  *)
(* the provider's hop field, which the program does not know.              *)
Packet == [l3 : {"IPv4", "IPv6", "other"}, l4 : {"UDP", "other"}, dest : U16,
           version : 0 .. 15, path : {"SCION", "other"}, hfs : Seq(Hop),
           before : Hop, provider : Nat, port : {"up", "down"}]

ASSUME MonitorAssumption ==
  /\ IsFiniteSet(CPUs) /\ IsFiniteSet(Elems)
  /\ FirstPort \in U16 /\ LastPort \in U16
  /\ RingSlots \in Nat /\ MaxPackets \in Nat
  /\ Packets \subseteq Packet
  /\ NoKey \notin Nat /\ NoHop \notin Hop

VARIABLES
  role,       \* config_map: on which side of the provider this monitor is
  counters,   \* the map: [key, packets: one value per CPU] of every element
  cpu,        \* what each CPU does with its packet: [pc, key, elem]
  ring,       \* event_ringbuf: keys reported and not yet read
  reader,     \* poll_ringbuf: the hop it is sending on new_hop
  hops,       \* poll_counters: known hops and the count last read of each
  todo,       \* log_counters: hops the loop has not read yet
  deleted,    \* log_counters: deleted_hops
  logging,    \* poll_counters is inside log_counters
  seen,       \* packets that passed the filters
  dropped     \* keys whose report found the ring full

vars == <<role, counters, cpu, ring, reader, hops, todo, deleted, logging,
          seen, dropped>>
hostVars == <<reader, hops, todo, deleted, logging>>
-----------------------------------------------------------------------------
(* Byte order.  A 16-bit field in network order, loaded by this host.      *)
ReverseBytes16(n) == ((n % 256) * 256) + (n \div 256)

(* ingress | egress << 16: the halves do not overlap.                      *)
Halves(low, high) == low + 65536 * high

ToMapKey(h) == Halves(ReverseBytes16(h.ingress), ReverseBytes16(h.egress))

(* What count computes from the two fields as they lie in the packet.      *)
KeyOf(hf) == Halves(ReverseBytes16(hf.ingress), ReverseBytes16(hf.egress))

(* poll_ringbuf reads the four bytes of a record, lowest address first, as *)
(* two big-endian numbers.                                                 *)
HopOfRecord(key) ==
  [ingress |-> ((key % 256) * 256) + ((key \div 256) % 256),
   egress |-> (((key \div 65536) % 256) * 256) + ((key \div 16777216) % 256)]
-----------------------------------------------------------------------------
(* The direction of a packet by the port it came in by.                    *)
DirectionOfPort(port) == IF port = "up" THEN UPSTREAM ELSE DOWNSTREAM
Direction(port) == IF port = "up" THEN DOWNSTREAM ELSE UPSTREAM

(* The routers before the monitor have moved the current hop field past    *)
(* the provider's when the packet has left the provider AS.                *)
LeftProvider(pkt) == \/ role = UPSTREAM /\ pkt.port = "down"
                     \/ role = DOWNSTREAM /\ pkt.port = "up"
CurrHF(pkt) == IF LeftProvider(pkt) THEN pkt.provider + 1 ELSE pkt.provider

IsUDP(pkt) == pkt.l3 \in {"IPv4", "IPv6"} /\ pkt.l4 = "UDP"

(* Both sides of the comparison are byte-swapped numbers.                  *)
InPortRange(dest) ==
  ReverseBytes16(dest) \in ReverseBytes16(FirstPort) .. ReverseBytes16(LastPort)

IsSCION(pkt) == pkt.version = 0 /\ pkt.path = "SCION" /\ CurrHF(pkt) < Len(pkt.hfs)

Filtered(pkt) == ~ (IsUDP(pkt) /\ InPortRange(pkt.dest) /\ IsSCION(pkt))

PrevHF(pkt) == role = Direction(pkt.port)

HopField(pkt) ==
  (<<pkt.before>> \o pkt.hfs)[CurrHF(pkt) + (IF PrevHF(pkt) THEN 1 ELSE 2)]
-----------------------------------------------------------------------------
Mapped == {counters[e].key : e \in Elems} \ {NoKey}
ElemOf(key) == CHOOSE e \in Elems : counters[e].key = key

(* read_percpu_counters; the mutant takes one CPU's value for the sum.     *)
ReadOneCPU(key) == counters[ElemOf(key)].packets[CHOOSE c \in CPUs : TRUE]
ReadPerCPU(key) == SumFunction(counters[ElemOf(key)].packets)

Idle == [pc |-> "idle"]

(* count, up to the lookup of the hop in the map.                          *)
Lookup(c, pkt) ==
  /\ cpu[c] = Idle
  /\ ~ Filtered(pkt)
  /\ seen < MaxPackets
  /\ seen' = seen + 1
  /\ LET key == KeyOf(HopField(pkt))
     IN  cpu' = [cpu EXCEPT ![c] =
           IF key \in Mapped
           THEN [pc |-> "found", pkt |-> pkt, key |-> key,
                 elem |-> ElemOf(key)]
           ELSE [pc |-> "missing", pkt |-> pkt, key |-> key]]
  /\ UNCHANGED <<role, counters, ring, dropped, hostVars>>

(* The pointer may by now be to an element that was evicted, or reused.    *)
Count(c) ==
  /\ cpu[c].pc = "found"
  /\ counters' = [counters EXCEPT ![cpu[c].elem].packets[c] = @ + 1]
  /\ cpu' = [cpu EXCEPT ![c] = Idle]
  /\ UNCHANGED <<role, ring, seen, dropped, hostVars>>

(* A mutant: the value given is stored for all CPUs.                       *)
InsertForAllCPUs(c) ==
  /\ cpu[c].pc = "missing"
  /\ cpu' = [cpu EXCEPT ![c].pc = "report"]
  /\ IF cpu[c].key \in Mapped
     THEN UNCHANGED <<counters, dropped>>
     ELSE /\ \E e \in Elems :
               counters' = [counters EXCEPT ![e] =
                 [key |-> cpu[c].key, packets |-> [d \in CPUs |-> 1]]]
          /\ dropped' = dropped \ {cpu[c].key}
  /\ UNCHANGED <<role, ring, seen, hostVars>>

(* BPF_NOEXIST: an insertion that comes second fails, and its packet is    *)
(* not counted.  Other CPUs' values are zeroed or, before Linux 5.10, left *)
(* as the element's last owner had them.                                   *)
Insert(c) ==
  /\ cpu[c].pc = "missing"
  /\ cpu' = [cpu EXCEPT ![c].pc = "report"]
  /\ IF cpu[c].key \in Mapped
     THEN UNCHANGED <<counters, dropped>>
     ELSE /\ \E e \in Elems, evicted \in SUBSET Elems, zero \in BOOLEAN :
               counters' = [x \in Elems |->
                 IF x = e
                 THEN [key |-> cpu[c].key,
                       packets |-> [d \in CPUs |->
                         IF d = c THEN 1
                         ELSE IF zero THEN 0 ELSE counters[e].packets[d]]]
                 ELSE IF x \in evicted THEN [counters[x] EXCEPT !.key = NoKey]
                 ELSE counters[x]]
          /\ dropped' = dropped \ {cpu[c].key}
  /\ UNCHANGED <<role, ring, seen, hostVars>>

(* The mutant expects the ring to make room.                               *)
ReportAlways(c) ==
  /\ cpu[c].pc = "report"
  /\ cpu' = [cpu EXCEPT ![c] = Idle]
  /\ ring' = Append(ring, cpu[c].key)
  /\ dropped' = dropped \ {cpu[c].key}
  /\ UNCHANGED <<role, counters, seen, hostVars>>

(* report_new_hop: the result of the insertion is not looked at.           *)
Report(c) ==
  /\ cpu[c].pc = "report"
  /\ cpu' = [cpu EXCEPT ![c] = Idle]
  /\ IF Len(ring) < RingSlots
     THEN /\ ring' = Append(ring, cpu[c].key)
          /\ dropped' = dropped \ {cpu[c].key}
     ELSE dropped' = dropped \cup {cpu[c].key} /\ UNCHANGED ring
  /\ UNCHANGED <<role, counters, seen, hostVars>>
-----------------------------------------------------------------------------
kernelVars == <<role, counters, cpu, seen, dropped>>

PollRingbuf ==
  /\ ring # <<>> /\ reader = NoHop
  /\ reader' = HopOfRecord(Head(ring))
  /\ ring' = Tail(ring)
  /\ UNCHANGED <<hops, todo, deleted, logging, kernelVars>>

(* A mutant: a goroutine of its own adds the hops.                         *)
NewHopAnyTime ==
  /\ reader # NoHop
  /\ hops' = [h \in DOMAIN hops \cup {reader} |-> IF h = reader THEN 0 ELSE hops[h]]
  /\ reader' = NoHop
  /\ UNCHANGED <<ring, todo, deleted, logging, kernelVars>>

(* The new_hop case of the select: the send and the receive are one step.  *)
NewHop ==
  /\ ~ logging /\ reader # NoHop
  /\ hops' = [h \in DOMAIN hops \cup {reader} |-> IF h = reader THEN 0 ELSE hops[h]]
  /\ reader' = NoHop
  /\ UNCHANGED <<ring, todo, deleted, logging, kernelVars>>

(* With no hop known, log_counters does nothing.                            *)
Tick ==
  /\ ~ logging /\ DOMAIN hops # {}
  /\ logging' = TRUE /\ todo' = DOMAIN hops /\ deleted' = {}
  /\ UNCHANGED <<ring, reader, hops, kernelVars>>

(* One turn of the loop of log_counters, in the order a map is iterated.   *)
LogHop(h) ==
  /\ logging /\ h \in todo
  /\ todo' = todo \ {h}
  /\ IF ToMapKey(h) \in Mapped
     THEN /\ hops' = [hops EXCEPT ![h] = ReadPerCPU(ToMapKey(h))]
          /\ UNCHANGED deleted
     ELSE deleted' = deleted \cup {h} /\ UNCHANGED hops
  /\ UNCHANGED <<ring, reader, logging, kernelVars>>

LogDone ==
  /\ logging /\ todo = {}
  /\ hops' = [h \in DOMAIN hops \ deleted |-> hops[h]]
  /\ logging' = FALSE /\ deleted' = {}
  /\ UNCHANGED <<ring, reader, todo, kernelVars>>
-----------------------------------------------------------------------------
Init ==
  /\ role \in {UPSTREAM, DOWNSTREAM}
  /\ counters = [e \in Elems |-> [key |-> NoKey, packets |-> [c \in CPUs |-> 0]]]
  /\ cpu = [c \in CPUs |-> Idle]
  /\ ring = <<>> /\ reader = NoHop /\ hops = <<>>
  /\ todo = {} /\ deleted = {} /\ logging = FALSE
  /\ seen = 0 /\ dropped = {}

XDP(c) == (\E pkt \in Packets : Lookup(c, pkt)) \/ Count(c) \/ Insert(c) \/ Report(c)
LogCounters == (\E h \in todo : LogHop(h)) \/ LogDone

Next == (\E c \in CPUs : XDP(c)) \/ PollRingbuf \/ NewHop \/ Tick \/ LogCounters

Spec == Init /\ [][Next]_vars

(* A CPU finishes its packet; the goroutines run; select, finding both of  *)
(* its cases ready again and again, does not always take the tick.         *)
Fairness ==
  /\ \A c \in CPUs : WF_vars(Count(c) \/ Insert(c) \/ Report(c))
  /\ WF_vars(PollRingbuf) /\ WF_vars(LogCounters)
  /\ WF_vars(Tick) /\ SF_vars(NewHop)
FairSpec == Spec /\ Fairness
-----------------------------------------------------------------------------
TypeOK ==
  /\ role \in {UPSTREAM, DOWNSTREAM}
  /\ counters \in [Elems -> [key : Nat \cup {NoKey}, packets : [CPUs -> Nat]]]
  /\ \A c \in CPUs :
       \/ cpu[c] = Idle
       \/ /\ cpu[c].pc \in {"found", "missing", "report"}
          /\ cpu[c].pkt \in Packets /\ cpu[c].key \in Nat
          /\ cpu[c].pc = "found" => cpu[c].elem \in Elems
  /\ ring \in Seq(Nat) /\ Len(ring) <= RingSlots
  /\ reader \in Hop \cup {NoHop}
  /\ DOMAIN hops \subseteq Hop /\ \A h \in DOMAIN hops : hops[h] \in Nat
  /\ todo \subseteq DOMAIN hops /\ deleted \subseteq DOMAIN hops
  /\ (logging \/ (todo = {} /\ deleted = {}))
  /\ seen \in Nat /\ dropped \subseteq Nat

(* The host can ask the map only for hops it knows.  As long as a hop is   *)
(* counted, poll_counters knows it and is not about to delete it, or word  *)
(* of it is on its way: because count inserts before it reports, and one   *)
(* goroutine alone deletes and adds.  Only a full ring loses the word.     *)
Coming(key) == \/ HopOfRecord(key) \in (DOMAIN hops \ deleted) \cup {reader}
               \/ \E i \in DOMAIN ring : ring[i] = key
               \/ \E c \in CPUs : cpu[c].pc = "report" /\ cpu[c].key = key
NoHopForgotten == \A key \in Mapped \ dropped : Coming(key)

(* A packet adds at most one to all the counters together, whatever is     *)
(* evicted or reused while count holds a pointer.                          *)
EveryPacketOnce ==
  LET total == [e \in Elems |-> SumFunction(counters[e].packets)]
      pending == {c \in CPUs : cpu[c].pc \in {"found", "missing"}}
  IN  SumFunction(total) + Cardinality(pending) <= seen

(* README: "make sure we capture the hop traversing the IXP and provider   *)
(* AS".  On either side of the provider and in both directions, what is    *)
(* logged is the provider's hop, through all the byte orders on the way.   *)
ProviderHop(pkt) == pkt.hfs[pkt.provider + 1]
OnlyProviderHops ==
  DOMAIN hops \subseteq {ProviderHop(pkt) : pkt \in Packets}

(* monitor.go:36, "SCION underlay ports as closed interval".               *)
ClosedInterval ==
  \A c \in CPUs : cpu[c] # Idle => cpu[c].pkt.dest \in FirstPort .. LastPort

(* What a hop has counted is read by poll_counters in the end, unless the  *)
(* hop is evicted or its report was dropped.                               *)
Logged(h) == LET key == ToMapKey(h) IN
  \/ key \notin Mapped \/ key \in dropped
  \/ h \in DOMAIN hops /\ hops[h] = SumFunction(counters[ElemOf(key)].packets)
HopsAreLogged == \A pkt \in Packets : []<>Logged(ProviderHop(pkt))
=============================================================================
