------------------------------ MODULE Topology ------------------------------
(***************************************************************************)
(* The topology reloader, esdx4ixps/reloader/topology.py: processes that    *)
(* add the links of contracts to a topology file and take them out again.  *)
(* A lock file beside it, created exclusively, keeps them apart; the file  *)
(* itself is truncated when it is opened for writing and whole only when   *)
(* it is closed.  A process that crashes takes no further step.            *)
(***************************************************************************)
EXTENDS Integers, FiniteSets, FiniteSetsExt, SequencesExt


CONSTANTS
    Procs,
    Crashing,     \* processes that may crash
    Clashing,     \* processes started with an internal address of another BR
    isd_as,       \* the AS of the topology file
    IAs, Addresses, PublicIPs,
    Contracts,    \* contracts an administrator may pass
    router,       \* the public IP to use towards an address
    min_port, max_port, attempts,
    Topologies,   \* the files there may be before the reloader first runs
    EMPTY,        \* content of a file that was truncated and not written
    NONE

Interface == [ifid: Nat, ip: PublicIPs, port: Nat, remote: Addresses, ia: IAs, esdx: BOOLEAN]

\* the interfaces of all border routers in the order of the file, in which the
\* ESDX border router comes last, and whether there is an ESDX border router
Topo == [ifaces: Seq(Interface), esdx: BOOLEAN]

\* no two interfaces have the same id or the same public address; the ESDX
\* border router has an interface
Consistent(f) ==
    /\ \A i, j \in DOMAIN f.ifaces :
          LET a == f.ifaces[i]
              b == f.ifaces[j]
          IN  i # j => a.ifid # b.ifid /\ <<a.ip, a.port>> # <<b.ip, b.port>>
    /\ f.esdx <=> \E i \in DOMAIN f.ifaces : f.ifaces[i].esdx

Ops == [kind: {"activate", "deactivate"}, contract: Contracts]

ASSUME TopologyAssumption ==
    /\ Crashing \subseteq Procs /\ Clashing \subseteq Procs
    /\ min_port \in Nat /\ max_port \in Nat /\ attempts \in Nat \ {0}
    /\ isd_as \in IAs
    /\ Contracts \subseteq [seller: IAs, buyer: IAs, br_address: Addresses]
    /\ router \in [Addresses -> PublicIPs]
    /\ Topologies \subseteq {f \in Topo : Consistent(f)}
    /\ EMPTY \notin Topo /\ NONE \notin Ops \cup Topo

VARIABLES
    topofile,     \* a topology or EMPTY
    lockfile,     \* whether it exists
    alive,        \* the processes that have not crashed
    pc, op,       \* where a process is, or was when it crashed; its call
    attempt,      \* how often it has tried to create the lock file
    topo,         \* the topology it is about to write
    outcome

vars == <<topofile, lockfile, alive, pc, op, attempt, topo, outcome>>
-----------------------------------------------------------------------------
(* What a call makes of a topology.                                        *)

\* _find_lowest_free_value: a value below m moves the search below m, to the
\* first gap after the smallest value
LowestFree(values, m) ==
    LET lo == IF \E v \in values : v < m THEN Min(values) ELSE m
        hi == lo + Cardinality(values)
    IN  CHOOSE n \in lo..hi : n \notin values /\ \A k \in lo..(n - 1) : k \in values

\* its loop, over the sorted values: after the break none of them changes ret
LoopOverSorted(values, m) ==
    LET ret[i \in 0..Len(values)] ==
            IF i = 0 THEN m
            ELSE IF ret[i - 1] < values[i] THEN ret[i - 1] ELSE values[i] + 1
    IN  ret[Len(values)]

Concerns(c) == isd_as \in {c.seller, c.buyer}

\* _contract_info: the far end of the link
Info(c) == [ia |-> IF isd_as = c.seller THEN c.buyer ELSE c.seller,
            remote |-> c.br_address]

\* mutant: only the ports of the ESDX border router count
NewPortOfEsdx(f, c) ==
    LET ip == router[c.br_address]
        inuse == {x \in Range(f.ifaces) : x.esdx /\ x.ip = ip}
    IN  LowestFree({i.port : i \in inuse}, min_port)

NewPort(f, c) ==
    LET ip == router[c.br_address]
    IN  LowestFree({i.port : i \in {x \in Range(f.ifaces) : x.ip = ip}}, min_port)

NewInterface(f, c) ==
    [ifid |-> LowestFree({i.ifid : i \in Range(f.ifaces)}, 1),
     ip |-> router[c.br_address], port |-> NewPort(f, c),
     remote |-> Info(c).remote, ia |-> Info(c).ia, esdx |-> TRUE]

\* _add_cotract_to_topo
Addable(f, c) == NewPort(f, c) <= max_port
Added(f, c) == [ifaces |-> Append(f.ifaces, NewInterface(f, c)), esdx |-> TRUE]

\* _remove_interface: the first interface with that remote, and the ESDX
\* border router if it has none left; an error if there is no ESDX router
Matches(f, c) == {k \in DOMAIN f.ifaces : f.ifaces[k].remote = Info(c).remote}
Removable(f, c) == Matches(f, c) # {} /\ f.esdx

Removed(f, c) ==
    LET left == RemoveAt(f.ifaces, Min(Matches(f, c)))
    IN  [ifaces |-> left, esdx |-> \E i \in Range(left) : i.esdx]

Possible(f, o) ==
    /\ Concerns(o.contract)
    /\ IF o.kind = "activate" THEN Addable(f, o.contract) ELSE Removable(f, o.contract)
Changed(f, o) ==
    IF o.kind = "activate" THEN Added(f, o.contract) ELSE Removed(f, o.contract)
-----------------------------------------------------------------------------
files == <<topofile, lockfile>>

At(p, l) == p \in alive /\ pc[p] = l
Goto(p, l) == pc' = [pc EXCEPT ![p] = l]
Return(p, o) == outcome' = [outcome EXCEPT ![p] = o]

Init ==
    /\ topofile \in Topologies
    /\ lockfile = FALSE
    /\ alive = Procs
    /\ pc = [p \in Procs |-> "new"]
    /\ op = [p \in Procs |-> NONE]
    /\ attempt = [p \in Procs |-> 0]
    /\ topo = [p \in Procs |-> NONE]
    /\ outcome = [p \in Procs |-> "none"]

\* Topology(...) reads the file without the lock
Construct(p) ==
    /\ At(p, "new")
    /\ topofile # EMPTY
    /\ p \notin Clashing
    /\ Goto(p, "ready")
    /\ UNCHANGED <<files, alive, op, attempt, topo, outcome>>

ConstructFails(p) ==
    /\ At(p, "new")
    /\ topofile = EMPTY \/ p \in Clashing
    /\ Goto(p, "exit")
    /\ Return(p, IF topofile = EMPTY THEN "unreadable" ELSE "clash")
    /\ UNCHANGED <<files, alive, op, attempt, topo>>

Call(p, o) ==
    /\ At(p, "ready")
    /\ op' = [op EXCEPT ![p] = o]
    /\ Goto(p, "lock")
    /\ Return(p, "none")
    /\ UNCHANGED <<files, alive, attempt, topo>>

\* mutant: open(lockfile, "w+b")
LockAlways(p) ==
    /\ At(p, "lock")
    /\ lockfile' = TRUE
    /\ Goto(p, "read")
    /\ attempt' = [attempt EXCEPT ![p] = 0]
    /\ UNCHANGED <<topofile, alive, op, topo, outcome>>

\* open(lockfile, "x+b")
Lock(p) ==
    /\ At(p, "lock")
    /\ ~lockfile
    /\ lockfile' = TRUE
    /\ Goto(p, "read")
    /\ attempt' = [attempt EXCEPT ![p] = 0]
    /\ UNCHANGED <<topofile, alive, op, topo, outcome>>

\* mutant: one attempt more
LockBusyOnceMore(p) ==
    /\ At(p, "lock")
    /\ lockfile
    /\ IF attempt[p] < attempts
       THEN /\ attempt' = [attempt EXCEPT ![p] = @ + 1]
            /\ UNCHANGED <<pc, op, outcome>>
       ELSE /\ Goto(p, "ready")
            /\ op' = [op EXCEPT ![p] = NONE]
            /\ attempt' = [attempt EXCEPT ![p] = 0]
            /\ Return(p, "locked")
    /\ UNCHANGED <<files, alive, topo>>

\* mutant: retries for ever
LockBusyForever(p) ==
    /\ At(p, "lock")
    /\ lockfile
    /\ UNCHANGED vars

\* FileExistsError: sleep and try again, or give up
LockBusy(p) ==
    /\ At(p, "lock")
    /\ lockfile
    /\ IF attempt[p] + 1 < attempts
       THEN /\ attempt' = [attempt EXCEPT ![p] = @ + 1]
            /\ UNCHANGED <<pc, op, outcome>>
       ELSE /\ Goto(p, "ready")
            /\ op' = [op EXCEPT ![p] = NONE]
            /\ attempt' = [attempt EXCEPT ![p] = 0]
            /\ Return(p, "locked")
    /\ UNCHANGED <<files, alive, topo>>

Read(p) ==
    /\ At(p, "read")
    /\ topofile # EMPTY
    /\ Possible(topofile, op[p])
    /\ topo' = [topo EXCEPT ![p] = Changed(topofile, op[p])]
    /\ Goto(p, "open")
    /\ UNCHANGED <<files, alive, op, attempt, outcome>>

\* mutant: the file is opened for writing first
ReadFailsTruncated(p) ==
    /\ At(p, "read")
    /\ ~(topofile # EMPTY /\ Possible(topofile, op[p]))
    /\ topofile' = EMPTY
    /\ Goto(p, "unlock")
    /\ Return(p, "error")
    /\ UNCHANGED <<lockfile, alive, op, attempt, topo>>

\* the file does not parse, or the contract does not fit
ReadFails(p) ==
    /\ At(p, "read")
    /\ ~(topofile # EMPTY /\ Possible(topofile, op[p]))
    /\ Goto(p, "unlock")
    /\ Return(p, IF topofile = EMPTY THEN "unreadable" ELSE "error")
    /\ UNCHANGED <<files, alive, op, attempt, topo>>

\* mutant: the file is written after the "with" of the lock
OpenUnlocked(p) ==
    /\ At(p, "open")
    /\ topofile' = EMPTY
    /\ lockfile' = FALSE
    /\ Goto(p, "write")
    /\ UNCHANGED <<alive, op, attempt, topo, outcome>>

\* open(topofile, "w")
Open(p) ==
    /\ At(p, "open")
    /\ topofile' = EMPTY
    /\ Goto(p, "write")
    /\ UNCHANGED <<lockfile, alive, op, attempt, topo, outcome>>

\* the buffer reaches the file when it is closed
Write(p) ==
    /\ At(p, "write")
    /\ topofile' = topo[p]
    /\ Goto(p, "unlock")
    /\ Return(p, "ok")
    /\ UNCHANGED <<lockfile, alive, op, attempt, topo>>

\* os.remove(lockfile), an error if it is not there
Unlock(p) ==
    /\ At(p, "unlock")
    /\ lockfile' = FALSE
    /\ Goto(p, "ready")
    /\ op' = [op EXCEPT ![p] = NONE]
    /\ topo' = [topo EXCEPT ![p] = NONE]
    /\ IF lockfile THEN UNCHANGED outcome ELSE Return(p, "lock_lost")
    /\ UNCHANGED <<topofile, alive, attempt>>

Crash(p) ==
    /\ p \in Crashing \cap alive
    /\ alive' = alive \ {p}
    /\ op' = [op EXCEPT ![p] = NONE]
    /\ topo' = [topo EXCEPT ![p] = NONE]
    /\ attempt' = [attempt EXCEPT ![p] = 0]
    /\ Return(p, "none")
    /\ UNCHANGED <<files, pc>>

Locked == {"read", "open", "write", "unlock"}
Inside(p) == pc[p] \in Locked

\* the administrator removes the lock file a crash has left
CleanUp ==
    /\ lockfile
    /\ \A p \in alive : ~Inside(p)
    /\ lockfile' = FALSE
    /\ UNCHANGED <<topofile, alive, pc, op, attempt, topo, outcome>>

Step(p) ==
    \/ Construct(p) \/ ConstructFails(p)
    \/ Lock(p) \/ LockBusy(p)
    \/ Read(p) \/ ReadFails(p) \/ Open(p) \/ Write(p) \/ Unlock(p)

\* every process has crashed or given up
Over == (\A p \in alive : pc[p] = "exit") /\ UNCHANGED vars

Next ==
    \/ \E p \in Procs : Step(p) \/ Crash(p) \/ \E o \in Ops : Call(p, o)
    \/ CleanUp
    \/ Over

Spec == Init /\ [][Next]_vars

\* a process that runs goes on with its call
FairSpec == Spec /\ \A p \in Procs : WF_vars(Step(p))
-----------------------------------------------------------------------------
(* Properties.                                                             *)

PC == {"new", "ready", "exit", "lock"} \cup Locked
Outcomes == {"none", "ok", "error", "unreadable", "clash", "locked", "lock_lost"}

\* Types: the file is a topology or empty, and a process is at a step of a call.
TypeOK ==
    /\ topofile \in Topo \cup {EMPTY}
    /\ lockfile \in BOOLEAN
    /\ alive \subseteq Procs
    /\ pc \in [Procs -> PC]
    /\ op \in [Procs -> Ops \cup {NONE}]
    /\ attempt \in [Procs -> 0..(attempts - 1)]
    /\ topo \in [Procs -> Topo \cup {NONE}]
    /\ outcome \in [Procs -> Outcomes]

\* The lock file admits one process at a time and stays as long as it is inside,
\* so that its removal never fails (_lock, the error in its finally).
MutualExclusion ==
    /\ \A p, q \in alive : Inside(p) /\ Inside(q) => p = q
    /\ \A p \in alive : Inside(p) => lockfile
    /\ \A p \in Procs : outcome[p] # "lock_lost"

\* The file is empty only while a process writes it, or since one crashed while
\* it did: no call that fails loses the topology.
LostOnlyInWrite ==
    topofile = EMPTY => \E p \in Procs : pc[p] = "write"

\* No two interfaces have the same id or the same public address, and the ESDX
\* border router is there exactly if it has an interface
\* (_add_cotract_to_topo, _remove_interface).
WellFormed == topofile # EMPTY => Consistent(topofile)

\* Every call returns, also when the lock file is stale (the attempts of _lock).
CallsEnd ==
    \A p \in Procs :
        pc[p] = "lock" \/ Inside(p) ~> pc[p] = "ready" \/ p \notin alive

\* The interfaces the reloader adds have public ports from min_port to max_port,
\* the range its constructor is given.
PortInRange ==
    topofile # EMPTY =>
        \A i \in Range(topofile.ifaces) : i.esdx => i.port \in min_port..max_port

\* activate, docstring: "if all manipulations of the topology are done through
\* this Topology class, activating/deactivating the contracts should have no
\* race conditions": nobody finds the file unreadable.
NoRaces == \A p \in Procs : outcome[p] # "unreadable"
-----------------------------------------------------------------------------
\* The reloader implements LinkStore.  A change takes effect when the file is
\* opened for writing: from then on nobody can read the old topology.
Writers == {p \in alive : pc[p] = "write"}
Store == INSTANCE LinkStore WITH
    FarEnds <- {Info(c) : c \in {x \in Contracts : Concerns(x)}},
    MayCrash <- Crashing # {},
    lost <- topofile = EMPTY /\ Writers = {},
    links <- IF topofile # EMPTY THEN Range(topofile.ifaces)
             ELSE UNION {Range(topo[p].ifaces) : p \in Writers}

\* Concurrent calls have the effect of one after the other: each adds or removes
\* one link, based on all changes before it, or changes nothing.
ImplementsLinkStore == Store!LinkSpec
=============================================================================
