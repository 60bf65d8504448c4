------------------------------- MODULE PortMap -------------------------------
(***************************************************************************)
(* The VM's table of ports, runtime/vm/port.cc: open addressing with        *)
(* linear probing, deleted markers, growth and rehashing in place.  Every   *)
(* operation holds PortMap::mutex_, so each is one action.                  *)
(*                                                                         *)
(* A probe is a scan for the first slot, counted from the hash, where the   *)
(* loop of the code stops; a probe that never stops has no such slot.       *)
(***************************************************************************)
EXTENDS Integers, FiniteSetsExt

CONSTANTS
  Ports,            \* the port numbers that AllocatePort() may come up with
  Handlers,         \* message handlers of isolates and of native ports
  Natives,          \* the native ones (NativeMessageHandler)
  NULL,             \* no handler
  Deleted,          \* deleted_entry_
  InitialCapacity,  \* kInitialCapacity: 8 in the code
  MaxUsed           \* bound: open ports at a time

ASSUME PortMapAssumption ==
  /\ Ports \subseteq Nat \ {0}
  /\ Natives \subseteq Handlers
  /\ NULL \notin Handlers /\ Deleted \notin Handlers /\ NULL # Deleted
  /\ InitialCapacity \in Nat /\ InitialCapacity >= 4 /\ InitialCapacity % 4 = 0

VARIABLES
  map_,              \* the slots, numbered from 0
  capacity_, used_, deleted_,
  live_ports_,       \* MessageHandler::live_ports_ of each handler
  gone               \* the handlers that were deleted

vars == <<map_, capacity_, used_, deleted_, live_ports_, gone>>

PortState == {"new", "live", "control"}
Entry(p, h, s) == [port |-> p, handler |-> h, state |-> s]
FreeSlot == Entry(0, NULL, "new")
\* The state that is left in a deleted slot is never read.
DeletedSlot == Entry(0, Deleted, "new")

Init ==
  /\ map_ = [i \in 0..InitialCapacity - 1 |-> FreeSlot]
  /\ capacity_ = InitialCapacity /\ used_ = 0 /\ deleted_ = 0
  \* A NativeMessageHandler always has one live port.
  /\ live_ports_ = [h \in Handlers |-> IF h \in Natives THEN 1 ELSE 0]
  /\ gone = {}

-----------------------------------------------------------------------------
(* Probing                                                                 *)

\* Where the probe for p in a table with n slots ends: at the first of the slots
\* in stops, counted from the hash; -1 if there is none.
Probe(n, p, stops) ==
  LET steps == {(j - p) % n : j \in stops}
  IN  IF steps = {} THEN -1 ELSE (p + Min(steps)) % n

\* PortMap::FindPort()
FindPort(p) ==
  LET i == Probe(capacity_, p,
                 {j \in DOMAIN map_ : map_[j].handler = NULL \/ map_[j].port = p})
  IN  IF i >= 0 /\ map_[i].port = p THEN i ELSE -1

\* The lookup of PostMessage(), IsLocalPort() and GetIsolate().
Lookup(p) ==
  LET i == FindPort(p) IN IF i < 0 THEN FreeSlot ELSE map_[i]

\* The first slot that is free or deleted.
UnusedSlot(m, n, p) == Probe(n, p, {i \in DOMAIN m : m[i].port = 0})

\* PortMap::Rehash(): the entries are entered in the order of their slots.
Rehashed(m, old, new) ==
  LET fill[i \in 0..old] ==
        IF i = 0 THEN [j \in 0..new - 1 |-> FreeSlot]
        ELSE LET e == m[i - 1]
                 f == fill[i - 1]
             IN  IF e.port = 0 THEN f ELSE [f EXCEPT ![UnusedSlot(f, new, e.port)] = e]
  IN  fill[old]

\* Mutant: deleted slots are never flushed.
MaintainInvariantsByGrowth(m, used, deleted) ==
  IF used > (capacity_ \div 4) * 3
  THEN /\ map_' = Rehashed(m, capacity_, capacity_ * 2)
       /\ capacity_' = capacity_ * 2 /\ used_' = used /\ deleted_' = 0
  ELSE /\ map_' = m
       /\ capacity_' = capacity_ /\ used_' = used /\ deleted_' = deleted

\* PortMap::MaintainInvariants() for the table as the operation leaves it.
MaintainInvariants(m, used, deleted) ==
  LET empty == capacity_ - used - deleted
      grow  == used > (capacity_ \div 4) * 3
      flush == ~grow /\ empty < deleted
      new   == IF grow THEN capacity_ * 2 ELSE capacity_
  IN
  /\ map_' = IF grow \/ flush THEN Rehashed(m, capacity_, new) ELSE m
  /\ capacity_' = new
  /\ used_' = used
  /\ deleted_' = IF grow \/ flush THEN 0 ELSE deleted

-----------------------------------------------------------------------------
(* Operations                                                              *)

\* PortMap::CreatePort(); a native handler has one port.
CreatePort(h, p) ==
  LET i == UnusedSlot(map_, capacity_, p) IN
  /\ h \notin gone /\ used_ < MaxUsed
  /\ h \in Natives => \A j \in DOMAIN map_ : map_[j].handler # h
  /\ FindPort(p) < 0
  /\ MaintainInvariants([map_ EXCEPT ![i] = Entry(p, h, "new")], used_ + 1,
                        IF map_[i].handler = Deleted THEN deleted_ - 1 ELSE deleted_)
  /\ UNCHANGED <<live_ports_, gone>>

\* PortMap::SetPortState(), called by ReceivePort::New(): once for each port,
\* never for a native one; an isolate has one control port.
SetPortState(p, s) ==
  LET i == FindPort(p) IN
  /\ i >= 0 /\ map_[i].state = "new" /\ map_[i].handler \notin Natives
  /\ s = "control" => \A j \in DOMAIN map_ :
                        map_[j].handler = map_[i].handler => map_[j].state # "control"
  /\ map_' = [map_ EXCEPT ![i].state = s]
  /\ live_ports_' = IF s = "live" THEN [live_ports_ EXCEPT ![map_[i].handler] = @ + 1]
                    ELSE live_ports_
  /\ UNCHANGED <<capacity_, used_, deleted_, gone>>

\* Mutant: a closed slot is free at once, which cuts the probes that pass it.
ClosePortFrees(p) ==
  LET i == FindPort(p)
      h == map_[i].handler
  IN
  /\ i >= 0 /\ (map_[i].state = "live" \/ h \in Natives)
  /\ MaintainInvariants([map_ EXCEPT ![i] = FreeSlot], used_ - 1, deleted_)
  /\ live_ports_' = [live_ports_ EXCEPT ![h] = IF map_[i].state = "live" THEN @ - 1 ELSE @]
  /\ UNCHANGED gone

\* Mutant: the state of the port is read after MaintainInvariants(), which may have put
\* another port in its slot.
ClosePortLate(p) ==
  LET i == FindPort(p)
      h == map_[i].handler
      slot == IF map_'[i] = DeletedSlot THEN map_[i] ELSE map_'[i]
  IN
  /\ i >= 0 /\ (map_[i].state = "live" \/ h \in Natives)
  /\ MaintainInvariants([map_ EXCEPT ![i] = DeletedSlot], used_ - 1, deleted_ + 1)
  /\ live_ports_' = [live_ports_ EXCEPT ![h] = IF slot.state = "live" THEN @ - 1 ELSE @]
  /\ UNCHANGED gone

\* PortMap::ClosePort() of a regular port that has its ReceivePort, or of a native port.  A
\* handler that the port map owns is deleted with its last live port.
ClosePort(p) ==
  LET i == FindPort(p)
      h == map_[i].handler
      live == IF map_[i].state = "live" THEN live_ports_[h] - 1 ELSE live_ports_[h]
  IN
  /\ i >= 0 /\ (map_[i].state = "live" \/ h \in Natives)
  /\ MaintainInvariants([map_ EXCEPT ![i] = DeletedSlot],
                        used_ - 1, deleted_ + 1)
  /\ live_ports_' = [live_ports_ EXCEPT ![h] = live]
  /\ gone' = IF live = 0 /\ h \in Natives THEN gone \union {h} ELSE gone

\* PortMap::ClosePorts() in Isolate::Shutdown(), which then deletes the handler.
ClosePorts(h) ==
  LET mine == {i \in DOMAIN map_ : map_[i].handler = h}
      live == {i \in mine : map_[i].state = "live"}
  IN
  /\ h \notin Natives \union gone
  /\ mine # {}   \* the main port is never closed on its own
  /\ MaintainInvariants([i \in DOMAIN map_ |->
                           IF i \in mine THEN DeletedSlot ELSE map_[i]],
                        used_ - Cardinality(mine), deleted_ + Cardinality(mine))
  /\ live_ports_' = [live_ports_ EXCEPT ![h] = @ - Cardinality(live)]
  /\ gone' = gone \union {h}

Next ==
  \/ \E h \in Handlers, p \in Ports : CreatePort(h, p)
  \/ \E p \in Ports : SetPortState(p, "live") \/ SetPortState(p, "control")
  \/ \E p \in Ports : ClosePort(p)
  \/ \E h \in Handlers : ClosePorts(h)

Spec == Init /\ [][Next]_vars

-----------------------------------------------------------------------------
(* Properties                                                              *)

\* "Prevent endless loops" (FindPort): every probe, for whatever port and in
\* whatever state the closed ports left the table, meets a free slot; and the
\* counters that MaintainInvariants() relies on for that are exact.
ProbesEnd ==
  /\ \E i \in DOMAIN map_ : map_[i].handler = NULL
  /\ used_ = Cardinality({i \in DOMAIN map_ : map_[i].port # 0})
  /\ deleted_ = Cardinality({i \in DOMAIN map_ : map_[i].handler = Deleted})

\* live_ports_, which decides whether an isolate lives on, is the number of the
\* handler's ports in state kLivePort (and one for a native handler), through every
\* rehash.  A new port and the control port of an isolate are not counted: this is what
\* SetPortState() does and port_test.cc:126 expects, while message_handler.h:204 says
\* "including control ports".
LivePortsAreCounted ==
  \A h \in Handlers :
    live_ports_[h] = (IF h \in Natives THEN 1 ELSE 0)
       + Cardinality({i \in DOMAIN map_ : map_[i].handler = h /\ map_[i].state = "live"})

\* The directory that lookups see.
Directory == INSTANCE PortDirectory WITH
  NoHandler <- NULL,
  owner     <- [p \in Ports |-> Lookup(p).handler],
  portState <- [p \in Ports |-> Lookup(p).state],
  deleted   <- gone

\* Lookups behave as those of a directory: every port that is open is found,
\* wherever collisions, closed neighbours and rehashing have put it, no port is
\* entered twice, and a message for a closed port is refused.
ImplementsPortDirectory == Directory!Spec

=============================================================================
