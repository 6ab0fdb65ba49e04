--------------------------- MODULE UsbhHubProofs ---------------------------
(***************************************************************************)
(* Proofs about UsbhHub for every number of ports, address range, queue    *)
(* length, debounce, bound on the moves and set of faults that             *)
(* HubAssumption admits.                                                   *)
(*                                                                         *)
(* AddressesUnique and NoOrphans are not inductive.  A thread in the       *)
(* middle of an enumeration holds an address that is in no port's table    *)
(* yet (Held), it works on the port of a hub that only it can take away    *)
(* (ThreadOwns), and the port it fills is connected without a class or,    *)
(* for a hub not powered yet, with a slot that is not connected (Filling). *)
(*                                                                         *)
(* On the wire, the devices agree with the tables (Agrees) while no        *)
(* transfer fails without cause and there is an address for everyone, as   *)
(* there is while the moves that lose addresses are few (Paid).  A         *)
(* registered hub is polled (Alive) while its interrupt pipe has no errors *)
(* and the queue keeps room for its messages (Room).                       *)
(***************************************************************************)
EXTENDS UsbhHub, FiniteSetTheorems, WellFoundedInduction, TLAPS

Busy   == th.pc \notin {"recv", "scan", "exit"}
Active == th.pc \notin {"recv", "exit"}

\* The thread works for the hub of its port, which stays while it does.
ThreadOwns ==
    /\ th.hub = "root" => th.todo \subseteq {Root}
    /\ th.hub = "hub" => th.todo \subseteq Child
    /\ Active /\ th.hub = "hub" => h.slot.connected
    /\ Busy => (th.p = Root <=> th.hub = "root")

\* The port being enumerated, and a hub that has its slot but no power.
Filling ==
    /\ th.pc \in {"descriptor", "address", "config", "class"} =>
         h.port[th.p].connected /\ ~h.port[th.p].inst
    /\ th.pc \in {"descriptor", "address"} => h.port[th.p].addr = 0
    /\ th.pc = "power" => /\ th.p = Root /\ h.port[Root].inst
                          /\ h.slot.inuse /\ ~h.slot.connected

\* The address allocated but not yet set is marked, and no port has it.
Held ==
    th.pc = "address" =>
        /\ th.addr \in h.used
        /\ \A q \in Port : h.port[q].connected => h.port[q].addr # th.addr

\* A slot not in use is empty, a registered hub has its slot, and hubs are
\* plugged into the root port only.
SlotWhole ==
    /\ ~h.slot.inuse => h.slot = NoSlot
    /\ h.slot.connected => h.slot.inuse
    /\ \A c \in Child : wire.plug[c] # "hub"

HubInv ==
    /\ TypeOK /\ AddressesUnique /\ NoOrphans
    /\ ThreadOwns /\ Filling /\ Held /\ SlotWhole

PortRec == [connected : BOOLEAN, addr : Nat, inst : BOOLEAN]
SlotRec == [inuse : BOOLEAN, connected : BOOLEAN,
            timer : {"none", "idle", "running"}, urb : {"idle", "busy"}]
Tables  == [port : [Port -> PortRec], used : SUBSET (2 .. Max), last : 2 .. Max,
            slot : SlotRec, intbuf : SUBSET Child, mq : Seq({"root", "hub", "NULL"})]

-----------------------------------------------------------------------------
(* The address allocator.                                                  *)

\* The addresses are numbers, of which there are some.
LEMMA AddressRange == Max \in Nat /\ Max >= 2
  BY HubAssumption DEF HubAssumption

\* A set of numbers that is not empty has a least one.
LEMMA HasLeast ==
    ASSUME NEW S \in SUBSET Nat, S # {}
    PROVE  \E k \in S : \A j \in S : k <= j
<1> DEFINE R == {s \in Nat \X Nat : s[1] < s[2]}
<1>1. IsWellFoundedOn(R, Nat)
  BY NatLessThanWellFounded DEF OpToRel
<1>2. PICK x \in S : \A y \in S : ~ (<<y, x>> \in R)
  <2> HIDE DEF R
  <2> QED
    BY <1>1, WFMin
<1>3. \A y \in S : ~ (y < x)
  BY <1>2
<1> QED
  BY <1>3

\* The search starts anywhere and stays within the addresses.
LEMMA AfterRange ==
    ASSUME NEW a \in 2 .. Max, NEW k \in 1 .. Max - 2
    PROVE  After(a, k) \in 2 .. Max
  BY AddressRange DEF After

\* usbh_allocate_devaddr returns an address that is not in use, or none.
LEMMA AllocatedFree ==
    ASSUME NEW g \in Tables
    PROVE  Allocated(g) = 0 \/ Allocated(g) \in (2 .. Max) \ g.used
<1> DEFINE free == {k \in 1 .. Max - 2 : After(g.last, k) \notin g.used}
           k == CHOOSE x \in free : \A j \in free : x <= j
<1>1. CASE free = {}
  BY <1>1 DEF Allocated
<1>2. CASE free # {}
  <2>1. free \in SUBSET Nat
    BY AddressRange
  <2>2. k \in free
    BY <1>2, <2>1, HasLeast
  <2>3. After(g.last, k) \in (2 .. Max) \ g.used
    BY <2>2, AfterRange DEF Tables
  <2>4. Allocated(g) = After(g.last, k)
    BY <1>2 DEF Allocated
  <2> QED
    BY <2>3, <2>4
<1> QED
  BY <1>1, <1>2

-----------------------------------------------------------------------------
(* usbh_hubport_release.                                                   *)

\* The properties of the tables alone, whatever the thread is doing.
TablesInv == /\ h \in Tables /\ AddressesUnique /\ NoOrphans
             /\ ~h.slot.inuse => h.slot = NoSlot
             /\ h.slot.connected => h.slot.inuse

\* The root port and the ports of the hub.
LEMMA PortSet == Root \in Port /\ Child \subseteq Port /\ Root \notin Child
                 /\ \A p \in Port : p # Root => p \in Child
  BY DEF Port, Root, Child

\* What a release leaves of the tables: the queue, the other ports or, for a
\* hub, none of the ports behind it, and every address still in use.
LEMMA ReleasedFacts ==
    ASSUME TablesInv, NEW p \in Port, NEW g, g = Released(h, p)
    PROVE  /\ g \in Tables /\ g.mq = h.mq /\ g.last = h.last /\ g.intbuf = h.intbuf
           /\ ~g.port[p].connected
           /\ \A q \in Port : g.port[q].connected =>
                 h.port[q].connected /\ g.port[q] = h.port[q]
           /\ \A q \in Port : g.port[q].inst => g.port[q].connected
           /\ \A q \in Port : g.port[q].connected /\ g.port[q].addr # 0 => g.port[q].addr \in g.used
           /\ g.used \subseteq h.used
           /\ p # Root => g.slot = h.slot /\ \A q \in Port \ {p} : g.port[q] = h.port[q]
           /\ p = Root => g.slot = NoSlot /\ \A q \in Port : ~g.port[q].connected
<1> DEFINE hubGoes == p = Root /\ h.port[p].inst /\ h.slot.inuse
           P == IF hubGoes THEN Port ELSE {p}
           freed == [q \in Port |-> IF q \notin P THEN h.port[q]
                                    ELSE [NoPort EXCEPT !.addr = h.port[q].addr]]
<1> USE PortSet
<1>t. /\ h \in Tables /\ h.port \in [Port -> PortRec] /\ h.used \in SUBSET (2 .. Max)
      /\ h.slot \in SlotRec /\ P \subseteq Port /\ p \in P
  BY DEF TablesInv, Tables
<1>o. /\ \A c \in Child : h.port[c].connected => h.slot.connected
      /\ h.slot.inuse => h.port[Root].inst
      /\ \A q \in Port : h.port[q].inst => h.port[q].connected
      /\ ~h.slot.inuse => h.slot = NoSlot
      /\ h.slot.connected => h.slot.inuse
  BY DEF TablesInv, NoOrphans
<1>u. \A q \in Port : h.port[q].connected /\ h.port[q].addr # 0 =>
        /\ h.port[q].addr \in h.used
        /\ \A r \in Port \ {q} : h.port[r].connected => h.port[r].addr # h.port[q].addr
  BY DEF TablesInv, AddressesUnique
<1>1. CASE ~h.port[p].connected
  <2>1. g = h
    BY <1>1 DEF Released
  <2>2. p = Root => ~h.slot.inuse /\ \A c \in Child : ~h.port[c].connected
    BY <1>1, <1>o
  <2> QED
    BY <2>1, <2>2, <1>1, <1>t, <1>o, <1>u
<1>2. CASE h.port[p].connected
  <2>1. g = [h EXCEPT !.port = freed, !.used = @ \ Freed(h, P),
                      !.slot = IF hubGoes THEN NoSlot ELSE @]
    BY <1>2 DEF Released
  <2>2. freed \in [Port -> PortRec]
    BY <1>t DEF NoPort, PortRec
  <2>3. NoSlot \in SlotRec
    BY DEF NoSlot, SlotRec
  <2>4. /\ g.port = freed /\ g.used = h.used \ Freed(h, P)
        /\ g.slot = IF hubGoes THEN NoSlot ELSE h.slot
        /\ g.mq = h.mq /\ g.last = h.last /\ g.intbuf = h.intbuf
    BY <2>1, <1>t DEF Tables
  <2>5. g \in Tables
    BY <2>1, <2>2, <2>3, <1>t DEF Tables
  <2>6. \A q \in Port : /\ q \in P => ~g.port[q].connected /\ ~g.port[q].inst
                        /\ q \notin P => g.port[q] = h.port[q]
    BY <2>4 DEF NoPort
  <2>7. \A q \in Port : g.port[q].connected => q \notin P
    BY <2>6
  <2>8. ASSUME NEW q \in Port, g.port[q].connected, g.port[q].addr # 0
        PROVE  g.port[q].addr \in g.used
    <3>1. q \notin P /\ g.port[q] = h.port[q] /\ h.port[q].connected
      BY <2>6, <2>7, <2>8
    <3>2. h.port[q].addr \in h.used
      BY <3>1, <2>8, <1>u
    <3>3. \A r \in P : h.port[r].connected => h.port[r].addr # h.port[q].addr
      BY <3>1, <2>8, <1>u, <1>t
    <3>4. h.port[q].addr \notin Freed(h, P)
      BY <3>3 DEF Freed
    <3> QED
      BY <3>1, <3>2, <3>4, <2>4
  <2>9. ASSUME p # Root
        PROVE  g.slot = h.slot /\ \A q \in Port \ {p} : g.port[q] = h.port[q]
    BY <2>9, <2>4, <2>6
  <2>10. ASSUME p = Root
         PROVE  g.slot = NoSlot /\ \A q \in Port : ~g.port[q].connected
    <3>1. CASE hubGoes
      BY <3>1, <2>4, <2>6
    <3>2. CASE ~hubGoes
      <4>1. ~h.slot.inuse /\ h.slot = NoSlot
        BY <3>2, <2>10, <1>o
      <4>2. \A c \in Child : ~h.port[c].connected
        BY <4>1, <1>o
      <4> QED
        BY <3>2, <4>1, <4>2, <2>4, <2>6, <2>10, <1>t
    <3> QED
      BY <3>1, <3>2
  <2>11. \A q \in Port : g.port[q].inst => g.port[q].connected
    BY <2>6, <1>o
  <2>12. ~g.port[p].connected /\ g.used \subseteq h.used
    BY <2>4, <2>6, <1>t
  <2>13. \A q \in Port : g.port[q].connected => h.port[q].connected /\ g.port[q] = h.port[q]
    BY <2>6, <2>7
  <2> HIDE DEF hubGoes, P, freed
  <2> QED
    BY <2>4, <2>5, <2>8, <2>9, <2>10, <2>11, <2>12, <2>13
<1> QED
  BY <1>1, <1>2

-----------------------------------------------------------------------------
(* The invariant.                                                          *)

Threads == [pc : {"recv", "scan", "clear", "debounce", "reset", "enable",
                  "descriptor", "address", "config", "class", "power", "exit"},
            hub : {"root", "hub"}, todo : SUBSET Port, p : Port,
            reads : Nat, stable : Nat, connection : BOOLEAN, addr : Nat]
Wires   == [plug : [Port -> {"none", "func", "hub"}], csc : [Port -> BOOLEAN],
            ans : [Port -> Int], powered : BOOLEAN, moves : Nat]

\* TypeOK, one set per variable.
LEMMA TypeParts ==
    TypeOK <=> /\ h \in Tables /\ Len(h.mq) <= QLen /\ th \in Threads
               /\ deinit \in Deinits /\ wire \in Wires
  BY DEF TypeOK, Tables, PortRec, SlotRec, Threads, Wires

\* The same after a step.
LEMMA TypePartsNext ==
    TypeOK' <=> /\ h' \in Tables /\ Len(h'.mq) <= QLen /\ th' \in Threads
                /\ deinit' \in Deinits /\ wire' \in Wires
  BY DEF TypeOK, Tables, PortRec, SlotRec, Threads, Wires

\* The tables of the host at the start are consistent.
LEMMA InitHolds == Init => HubInv
<1> SUFFICES ASSUME Init PROVE HubInv
  OBVIOUS
<1> USE PortSet
<1>1. h \in Tables /\ Len(h.mq) <= QLen
  <2>1. Len(<<>>) = 0 /\ <<>> \in Seq({"root", "hub", "NULL"})
    OBVIOUS
  <2> QED
    BY <2>1, AddressRange, HubAssumption
       DEF Init, Tables, PortRec, SlotRec, NoPort, NoSlot, HubAssumption
<1>2. th \in Threads /\ deinit \in Deinits /\ wire \in Wires
  BY DEF Init, Threads, Wires, Gone, Deinits
<1>3. AddressesUnique /\ NoOrphans
  BY DEF Init, AddressesUnique, NoOrphans, NoPort, NoSlot
<1>4. ThreadOwns /\ Filling /\ Held /\ SlotWhole
  BY DEF Init, ThreadOwns, Filling, Held, SlotWhole, Busy, Active, NoSlot
<1> QED
  BY <1>1, <1>2, <1>3, <1>4, TypeParts DEF HubInv

\* A step that leaves the tables alone, or only wakes the thread, keeps the
\* invariant when the thread's own parts of it are kept.
LEMMA TablesKept ==
    ASSUME HubInv, h' = [h EXCEPT !.mq = h'.mq],
           h'.mq \in Seq({"root", "hub", "NULL"}), Len(h'.mq) <= QLen,
           th' \in Threads, deinit' \in Deinits, wire' \in Wires,
           \A c \in Child : wire'.plug[c] # "hub",
           ThreadOwns', th'.pc \notin {"descriptor", "address", "config", "class", "power"}
                        \/ th' = th
    PROVE  HubInv'
<1> USE PortSet
<1>0. h \in Tables
  BY TypeParts DEF HubInv
<1>1. /\ h'.port = h.port /\ h'.used = h.used /\ h'.slot = h.slot
      /\ h'.last = h.last /\ h'.intbuf = h.intbuf /\ h' \in Tables
  BY <1>0 DEF Tables
<1>2. TypeOK'
  BY <1>1, TypePartsNext
<1>3. AddressesUnique' /\ NoOrphans' /\ SlotWhole'
  BY <1>1 DEF HubInv, AddressesUnique, NoOrphans, SlotWhole
<1>4. Filling' /\ Held'
  BY <1>1 DEF HubInv, Filling, Held
<1> QED
  BY <1>2, <1>3, <1>4 DEF HubInv

\* What every step starts from.
LEMMA Parts ==
    ASSUME HubInv
    PROVE  /\ h \in Tables /\ Len(h.mq) <= QLen /\ th \in Threads /\ wire \in Wires
           /\ deinit \in Deinits /\ TablesInv
           /\ \A c \in Child : wire.plug[c] # "hub"
  BY TypeParts DEF HubInv, TablesInv, SlotWhole

-----------------------------------------------------------------------------
(* The steps that leave the ports alone.                                   *)

\* A step that leaves the tables alone leaves the queue alone.
LEMMA QueueKept == ASSUME HubInv PROVE h = [h EXCEPT !.mq = h.mq]
  BY Parts DEF Tables

\* What a step of the debounce loop, a scan and a reset have in common.
LEMMA ThreadStep ==
    ASSUME HubInv, UNCHANGED <<h, deinit>>, th' \in Threads, wire' \in Wires,
           \A c \in Child : wire'.plug[c] # "hub", ThreadOwns',
           th'.pc \notin {"descriptor", "address", "config", "class", "power"}
    PROVE  HubInv'
  BY TablesKept, QueueKept, Parts DEF Tables

\* The next message: only a registered hub is worked for.
LEMMA RecvInv == HubInv /\ Recv => HubInv'
<1> SUFFICES ASSUME HubInv, Recv PROVE HubInv'
  OBVIOUS
<1> USE PortSet
<1>t. h \in Tables /\ Len(h.mq) <= QLen /\ th \in Threads /\ wire \in Wires
  BY Parts
<1>1. /\ h'.mq = Tail(h.mq) /\ h' = [h EXCEPT !.mq = h'.mq] /\ h'.slot = h.slot
      /\ UNCHANGED <<deinit, wire>>
  BY <1>t DEF Recv, Tables
<1>2. h.mq \in Seq({"root", "hub", "NULL"}) /\ h.mq # <<>>
  BY <1>t DEF Tables, Recv
<1>3. /\ h'.mq \in Seq({"root", "hub", "NULL"}) /\ Len(h'.mq) <= QLen
      /\ Head(h.mq) \in {"root", "hub"}
  BY <1>1, <1>2, <1>t, HubAssumption DEF Recv, HubAssumption
<1>4. th.pc = "recv"
  BY DEF Recv, At
<1>5. CASE th' = th
  BY <1>1, <1>3, <1>5, <1>t, <1>4, TablesKept, Parts DEF HubInv, ThreadOwns, Active, Busy
<1>6. CASE th' # th
  <2>1. /\ ~(Head(h.mq) = "hub" /\ ~h.slot.connected)
        /\ th' = [th EXCEPT !.pc = "scan", !.hub = Head(h.mq),
                    !.todo = IF Head(h.mq) = "root" THEN {Root} ELSE h.intbuf]
    BY <1>6 DEF Recv
  <2>2. h.intbuf \subseteq Child
    BY <1>t DEF Tables
  <2>3. /\ th' \in Threads /\ th'.pc = "scan" /\ th'.hub = Head(h.mq)
        /\ th'.todo = IF Head(h.mq) = "root" THEN {Root} ELSE h.intbuf
    BY <2>1, <2>2, <1>3, <1>t DEF Threads
  <2>4. ThreadOwns'
    BY <2>1, <2>2, <2>3, <1>1, <1>3 DEF ThreadOwns, Active, Busy
  <2> QED
    BY <2>3, <2>4, <1>1, <1>3, <1>t, TablesKept, Parts
<1> QED
  BY <1>5, <1>6

\* The next port belongs to the hub the thread works for.
LEMMA ScanInv == HubInv /\ Scan => HubInv'
<1> SUFFICES ASSUME HubInv, Scan PROVE HubInv'
  OBVIOUS
<1> USE PortSet
<1>t. h \in Tables /\ th \in Threads /\ wire \in Wires /\ th.pc = "scan" /\ th.todo \subseteq Port
  BY Parts DEF Scan, At, Threads
<1> DEFINE p == CHOOSE q \in th.todo : \A r \in th.todo : q <= r
<1>1. p \in th.todo
  <2>1. Port \subseteq Nat
    BY HubAssumption DEF HubAssumption, Port, Root, Child
  <2>2. \E q \in th.todo : \A r \in th.todo : q <= r
    BY <2>1, <1>t, HasLeast DEF Scan
  <2> QED
    BY <2>2
<1>2. /\ UNCHANGED <<h, deinit, wire>>
      /\ \E pc \in {"clear", "scan"} :
           th' = [th EXCEPT !.todo = @ \ {p}, !.p = p, !.pc = pc]
  BY DEF Scan
<1>3. th' \in Threads /\ th'.pc \in {"clear", "scan"} /\ th'.p = p
      /\ th'.hub = th.hub /\ th'.todo \subseteq th.todo
  <2> HIDE DEF p
  <2> QED
    BY <1>1, <1>2, <1>t DEF Threads
<1>4. ThreadOwns
  BY DEF HubInv
<1>5. ThreadOwns'
  <2>1. th'.p = Root <=> th.hub = "root"
    BY <1>1, <1>3, <1>4, <1>t DEF ThreadOwns, Threads
  <2> QED
    BY <2>1, <1>2, <1>3, <1>4, <1>t DEF ThreadOwns, Active, Busy
<1> QED
  BY <1>2, <1>3, <1>5, <1>t, ThreadStep, Parts

\* Clearing the change bit leaves the host alone.
LEMMA ClearInv == HubInv /\ Clear => HubInv'
<1> SUFFICES ASSUME HubInv, Clear PROVE HubInv'
  OBVIOUS
<1>t. th \in Threads /\ wire \in Wires /\ th.pc = "clear" /\ UNCHANGED <<h, deinit>>
  BY Parts DEF Clear, At
<1>1. /\ th' \in Threads /\ th'.pc = "debounce"
      /\ th'.hub = th.hub /\ th'.todo = th.todo /\ th'.p = th.p
  BY <1>t DEF Clear, Threads
<1>2. wire' \in Wires /\ wire'.plug = wire.plug
  BY <1>t DEF Clear, Wires
<1>3. ThreadOwns'
  BY <1>t, <1>1 DEF HubInv, ThreadOwns, Active, Busy
<1> QED
  BY <1>t, <1>1, <1>2, <1>3, ThreadStep, Parts

\* A turn of the debounce loop changes its counters only.
LEMMA DebounceInv == HubInv /\ Debounce => HubInv'
<1> SUFFICES ASSUME HubInv, Debounce PROVE HubInv'
  OBVIOUS
<1>t. th \in Threads /\ wire \in Wires /\ th.pc = "debounce" /\ UNCHANGED <<h, deinit>>
  BY Parts DEF Debounce, At
<1>1. /\ \E c \in BOOLEAN, n \in Nat :
           th' = [th EXCEPT !.reads = @ + 1, !.stable = n, !.connection = c]
      /\ wire' = wire \/ wire' = [wire EXCEPT !.csc[th.p] = FALSE]
  <2>1. PICK ok \in BOOLEAN :
          LET now == wire.plug[th.p] # "none"
              still == ~wire.csc[th.p] /\ now = th.connection
          IN  IF ~ok THEN /\ th' = [th EXCEPT !.reads = @ + 1] /\ UNCHANGED wire
              ELSE /\ th' = [th EXCEPT !.reads = @ + 1,
                               !.stable = IF still THEN @ + 1 ELSE 0,
                               !.connection = now]
                   /\ wire' = [wire EXCEPT !.csc[th.p] = FALSE]
    BY DEF Debounce, Outcomes, HubAnswers, Answers
  <2>2. CASE ~ok
    <3>1. th' = [th EXCEPT !.reads = @ + 1, !.stable = th.stable, !.connection = th.connection]
      BY <2>1, <2>2, <1>t DEF Threads
    <3> QED
      BY <2>1, <2>2, <3>1, <1>t DEF Threads
  <2>3. CASE ok
    <3> DEFINE now == wire.plug[th.p] # "none"
               n == IF ~wire.csc[th.p] /\ now = th.connection THEN th.stable + 1 ELSE 0
    <3>1. now \in BOOLEAN /\ n \in Nat
      BY <1>t DEF Threads
    <3>2. th' = [th EXCEPT !.reads = @ + 1, !.stable = n, !.connection = now]
      BY <2>1, <2>3
    <3>3. wire' = [wire EXCEPT !.csc[th.p] = FALSE]
      BY <2>1, <2>3
    <3> HIDE DEF now, n
    <3> QED
      BY <3>1, <3>2, <3>3
  <2> QED
    BY <2>2, <2>3
<1>2. /\ th' \in Threads /\ th'.pc = "debounce"
      /\ th'.hub = th.hub /\ th'.todo = th.todo /\ th'.p = th.p
  <2>1. PICK c \in BOOLEAN, n \in Nat :
          th' = [th EXCEPT !.reads = @ + 1, !.stable = n, !.connection = c]
    BY <1>1
  <2>2. th.reads + 1 \in Nat
    BY <1>t DEF Threads
  <2>3. th' \in Threads
    BY <1>t, <2>1, <2>2 DEF Threads
  <2>4. th'.pc = th.pc /\ th'.hub = th.hub /\ th'.todo = th.todo /\ th'.p = th.p
    BY <1>t, <2>1 DEF Threads
  <2> QED
    BY <1>t, <2>3, <2>4
<1>3. wire' \in Wires /\ wire'.plug = wire.plug
  <2>1. wire.csc \in [Port -> BOOLEAN]
    BY <1>t DEF Wires
  <2>2. [wire.csc EXCEPT ![th.p] = FALSE] \in [Port -> BOOLEAN]
    BY <2>1
  <2>3. wire' = wire \/ wire' = [wire EXCEPT !.csc = [wire.csc EXCEPT ![th.p] = FALSE]]
    BY <1>1
  <2> QED
    BY <1>t, <2>2, <2>3 DEF Wires
<1>4. ThreadOwns'
  BY <1>t, <1>2 DEF HubInv, ThreadOwns, Active, Busy
<1> QED
  BY <1>t, <1>2, <1>3, <1>4, ThreadStep, Parts

\* A port that bounces on ends the loop over the ports.
LEMMA UnsettledInv == HubInv /\ Unsettled => HubInv'
<1> SUFFICES ASSUME HubInv, Unsettled PROVE HubInv'
  OBVIOUS
<1>t. th \in Threads /\ wire \in Wires /\ th.pc = "debounce" /\ UNCHANGED <<h, deinit, wire>>
  BY Parts DEF Unsettled, At
<1>1. /\ th' \in Threads /\ th'.pc = "scan" /\ th'.hub = th.hub /\ th'.todo = {}
  BY <1>t DEF Unsettled, Threads
<1>2. ThreadOwns'
  BY <1>t, <1>1 DEF HubInv, ThreadOwns, Active, Busy
<1> QED
  BY <1>t, <1>1, <1>2, ThreadStep, Parts

\* A reset changes the wire only.
LEMMA ResetInv == HubInv /\ Reset => HubInv'
<1> SUFFICES ASSUME HubInv, Reset PROVE HubInv'
  OBVIOUS
<1>t. th \in Threads /\ wire \in Wires /\ th.pc = "reset" /\ UNCHANGED <<h, deinit>>
  BY Parts DEF Reset, At
<1>1. \E pc \in {"enable", "scan"} : th' = [th EXCEPT !.pc = pc]
  BY DEF Reset, Goto
<1>2. /\ th' \in Threads /\ th'.pc \in {"enable", "scan"}
      /\ th'.hub = th.hub /\ th'.todo = th.todo /\ th'.p = th.p
  BY <1>t, <1>1 DEF Threads
<1>3. wire' \in Wires /\ wire'.plug = wire.plug
  <2>1. \/ wire' = wire
        \/ wire' = [wire EXCEPT
             !.ans = [q \in Port |-> IF q = th.p THEN 0
                                     ELSE IF th.p = Root THEN Gone ELSE wire.ans[q]],
             !.powered = @ /\ th.p # Root,
             !.csc = [q \in Port |-> wire.csc[q] /\ (th.p # Root \/ q = Root)]]
    BY <1>t DEF Reset, Wires
  <2>2. /\ [q \in Port |-> IF q = th.p THEN 0
                          ELSE IF th.p = Root THEN Gone ELSE wire.ans[q]] \in [Port -> Int]
        /\ [q \in Port |-> wire.csc[q] /\ (th.p # Root \/ q = Root)] \in [Port -> BOOLEAN]
    BY <1>t DEF Wires, Gone
  <2>3. (wire.powered /\ th.p # Root) \in BOOLEAN
    OBVIOUS
  <2> QED
    BY <2>1, <2>2, <2>3, <1>t DEF Wires
<1>4. ThreadOwns'
  BY <1>t, <1>2 DEF HubInv, ThreadOwns, Active, Busy
<1> QED
  BY <1>t, <1>2, <1>3, <1>4, ThreadStep, Parts

-----------------------------------------------------------------------------
(* The steps on the slot: the timer and the interrupt pipe.                *)

\* The timer and the pipe of a hub that is in use may move, and the bits of
\* the changed ports, and the queue.
LEMMA SlotStep ==
    ASSUME HubInv, NEW t \in {"none", "idle", "running"}, NEW u \in {"idle", "busy"},
           NEW b \in SUBSET Child, NEW q \in Seq({"root", "hub", "NULL"}), Len(q) <= QLen,
           h' = [h EXCEPT !.slot = [h.slot EXCEPT !.timer = t, !.urb = u],
                          !.intbuf = b, !.mq = q],
           h.slot.connected, UNCHANGED <<deinit, wire>>,
           \/ UNCHANGED th
           \/ th' = [th EXCEPT !.pc = "recv"] /\ th.pc = "scan"
    PROVE  HubInv'
<1> USE PortSet
<1>t. h \in Tables /\ th \in Threads /\ h.slot \in SlotRec /\ h.slot.inuse
  BY Parts DEF Tables, HubInv, SlotWhole
<1>1. h'.slot = [h.slot EXCEPT !.timer = t, !.urb = u] /\ h'.slot \in SlotRec
  BY <1>t DEF Tables, SlotRec
<1>2. h'.slot.inuse /\ h'.slot.connected
  <2>1. DOMAIN h.slot = {"inuse", "connected", "timer", "urb"}
    BY <1>t DEF SlotRec
  <2> QED
    BY <1>1, <1>t, <2>1
<1>3. h' \in Tables /\ h'.port = h.port /\ h'.used = h.used /\ h'.mq = q
  BY <1>1, <1>t DEF Tables
<1>4. /\ th' \in Threads
      /\ th' = th \/ (th'.pc = "recv" /\ th.pc = "scan" /\ th'.hub = th.hub /\ th'.todo = th.todo)
  BY <1>t DEF Threads
<1>5. TypeOK'
  BY <1>3, <1>4, Parts, TypePartsNext
<1>6. AddressesUnique' /\ NoOrphans' /\ SlotWhole'
  BY <1>2, <1>3, <1>t DEF HubInv, AddressesUnique, NoOrphans, SlotWhole
<1>7. ThreadOwns'
  BY <1>2, <1>4 DEF HubInv, ThreadOwns, Active, Busy
<1>8. Filling' /\ Held'
  BY <1>2, <1>3, <1>4 DEF HubInv, Filling, Held
<1> QED
  BY <1>5, <1>6, <1>7, <1>8 DEF HubInv

\* usbh_hub_thread_wakeup keeps the queue within its length.
LEMMA WokenTypes ==
    ASSUME NEW g \in Tables, Len(g.mq) <= QLen, NEW m \in {"root", "hub", "NULL"}
    PROVE  /\ Woken(g, m).mq \in Seq({"root", "hub", "NULL"})
           /\ Len(Woken(g, m).mq) <= QLen
           /\ Woken(g, m) = [g EXCEPT !.mq = Woken(g, m).mq]
<1>1. g.mq \in Seq({"root", "hub", "NULL"}) /\ QLen \in Nat
  BY HubAssumption DEF HubAssumption, Tables
<1>2. CASE Len(g.mq) < QLen
  <2>1. Woken(g, m).mq = Append(g.mq, m)
    BY <1>2 DEF Woken, Tables
  <2> QED
    BY <1>1, <1>2, <2>1 DEF Woken
<1>3. CASE ~(Len(g.mq) < QLen)
  BY <1>1, <1>3 DEF Woken, Tables
<1> QED
  BY <1>2, <1>3

\* The timer starts again for a hub that is still registered.
LEMMA ScanEndsInv == HubInv /\ ScanEnds => HubInv'
<1> SUFFICES ASSUME HubInv, ScanEnds PROVE HubInv'
  OBVIOUS
<1>t. h \in Tables /\ Len(h.mq) <= QLen /\ th \in Threads /\ wire \in Wires
      /\ th.pc = "scan" /\ UNCHANGED <<deinit, wire>> /\ th' = [th EXCEPT !.pc = "recv"]
  BY Parts DEF ScanEnds, At, Goto
<1>1. CASE th.hub = "hub" /\ h.slot.connected
  <2>1. h' = [h EXCEPT !.slot = [h.slot EXCEPT !.timer = "running", !.urb = h.slot.urb],
                       !.intbuf = h.intbuf, !.mq = h.mq]
    BY <1>1, <1>t DEF ScanEnds, Tables, SlotRec
  <2> QED
    BY <2>1, <1>1, <1>t, SlotStep DEF Tables, SlotRec
<1>2. CASE ~(th.hub = "hub" /\ h.slot.connected)
  <2>1. h' = h
    BY <1>2 DEF ScanEnds
  <2>2. th' \in Threads /\ th'.pc = "recv" /\ th'.hub = th.hub /\ th'.todo = th.todo
    BY <1>t DEF Threads
  <2>3. ThreadOwns'
    BY <2>2 DEF HubInv, ThreadOwns, Active, Busy
  <2> QED
    BY <2>1, <2>2, <2>3, <1>t, ThreadStep, Parts
<1> QED
  BY <1>1, <1>2

\* The timer submits the URB.
LEMMA TimerInv == HubInv /\ TimerFires => HubInv'
<1> SUFFICES ASSUME HubInv, TimerFires PROVE HubInv'
  OBVIOUS
<1>t. h \in Tables /\ Len(h.mq) <= QLen /\ h.slot.connected /\ UNCHANGED <<th, deinit, wire>>
  BY Parts DEF TimerFires, HubInv, NoOrphans
<1>1. \E u \in {"idle", "busy"} :
        h' = [h EXCEPT !.slot = [h.slot EXCEPT !.timer = "idle", !.urb = u],
                       !.intbuf = h.intbuf, !.mq = h.mq]
  BY <1>t DEF TimerFires, Tables, SlotRec
<1> QED
  BY <1>1, <1>t, SlotStep DEF Tables

\* The interrupt pipe completes with bits, with a NAK or with an error.
LEMMA IntInv == HubInv /\ IntCompletes => HubInv'
<1> SUFFICES ASSUME HubInv, IntCompletes PROVE HubInv'
  OBVIOUS
<1> DEFINE idle == [h EXCEPT !.slot.urb = "idle"]
           changed == {c \in Child : wire.csc[c]}
           told == [idle EXCEPT !.intbuf = changed]
<1>t. h \in Tables /\ Len(h.mq) <= QLen /\ h.slot.connected /\ UNCHANGED <<th, deinit, wire>>
  BY Parts DEF IntCompletes, HubInv, NoOrphans
<1>1. h' = idle \/ h' = IntNak(idle) \/ h' = Woken(told, "hub")
  BY DEF IntCompletes
<1>2. CASE h' = idle
  <2>1. h' = [h EXCEPT !.slot = [h.slot EXCEPT !.timer = h.slot.timer, !.urb = "idle"],
                       !.intbuf = h.intbuf, !.mq = h.mq]
    BY <1>2, <1>t DEF Tables, SlotRec
  <2> QED
    BY <2>1, <1>t, SlotStep DEF Tables, SlotRec
<1>3. CASE h' = IntNak(idle)
  <2>1. h' = [h EXCEPT !.slot = [h.slot EXCEPT !.timer = "running", !.urb = "idle"],
                       !.intbuf = h.intbuf, !.mq = h.mq]
    BY <1>3, <1>t DEF Tables, SlotRec, IntNak
  <2> QED
    BY <2>1, <1>t, SlotStep DEF Tables, SlotRec
<1>4. CASE h' = Woken(told, "hub")
  <2>1. told \in Tables /\ told.mq = h.mq
    BY <1>t DEF Tables, SlotRec
  <2>2. /\ h'.mq \in Seq({"root", "hub", "NULL"}) /\ Len(h'.mq) <= QLen
        /\ h' = [told EXCEPT !.mq = h'.mq]
    <3> HIDE DEF told
    <3> QED
      BY <2>1, <1>4, <1>t, WokenTypes
  <2>3. h' = [h EXCEPT !.slot = [h.slot EXCEPT !.timer = h.slot.timer, !.urb = "idle"],
                       !.intbuf = changed, !.mq = h'.mq]
    BY <2>2, <1>t DEF Tables, SlotRec
  <2>4. changed \in SUBSET Child /\ h.slot.timer \in {"none", "idle", "running"}
    BY <1>t DEF Tables, SlotRec
  <2> HIDE DEF changed
  <2> QED
    <3> DEFINE t == h.slot.timer
               u == "idle"
               q == h'.mq
    <3>1. /\ t \in {"none", "idle", "running"} /\ u \in {"idle", "busy"}
          /\ q \in Seq({"root", "hub", "NULL"}) /\ Len(q) <= QLen
          /\ h.slot.connected /\ UNCHANGED <<deinit, wire>> /\ UNCHANGED th
          /\ h' = [h EXCEPT !.slot = [h.slot EXCEPT !.timer = t, !.urb = u],
                            !.intbuf = changed, !.mq = q]
      BY <2>2, <2>3, <2>4, <1>t
    <3> HIDE DEF t, u, q
    <3> QED
      BY <3>1, <2>4, SlotStep
<1> QED
  BY <1>1, <1>2, <1>3, <1>4

-----------------------------------------------------------------------------
(* The steps that release a port.                                          *)

\* The thread releases its port and goes on, from wherever it is: a failed
\* enumeration, a hub without power and an empty port all end like this.
LEMMA ReleaseKeeps ==
    ASSUME HubInv, NEW p \in Port, h' = Released(h, p), p = th.p, Busy,
           th' = [th EXCEPT !.pc = "scan"], UNCHANGED <<deinit, wire>>
    PROVE  HubInv'
<1> USE PortSet
<1>t. /\ th \in Threads /\ wire \in Wires /\ TablesInv /\ Len(h.mq) <= QLen
      /\ deinit \in Deinits /\ \A c \in Child : wire.plug[c] # "hub"
  BY Parts
<1>1. /\ th' \in Threads /\ th'.pc = "scan" /\ th'.hub = th.hub /\ th'.todo = th.todo
  BY <1>t DEF Threads
<1> DEFINE g == h'
<1>r. /\ g \in Tables /\ g.mq = h.mq
      /\ \A q \in Port : g.port[q].connected =>
            h.port[q].connected /\ g.port[q] = h.port[q]
      /\ \A q \in Port : g.port[q].inst => g.port[q].connected
      /\ \A q \in Port : g.port[q].connected /\ g.port[q].addr # 0 => g.port[q].addr \in g.used
      /\ p # Root => g.slot = h.slot /\ \A q \in Port \ {p} : g.port[q] = h.port[q]
      /\ p = Root => g.slot = NoSlot /\ \A q \in Port : ~g.port[q].connected
  BY <1>t, ReleasedFacts
<1>2. TypeOK'
  BY <1>1, <1>r, <1>t, TypePartsNext
<1>3. AddressesUnique'
  <2>1. ASSUME NEW q \in Port, h'.port[q].connected, h'.port[q].addr # 0
        PROVE  /\ h'.port[q].addr \in h'.used
               /\ \A r \in Port \ {q} : h'.port[r].connected => h'.port[r].addr # h'.port[q].addr
    <3>1. h.port[q].connected /\ h'.port[q] = h.port[q]
      BY <2>1, <1>r
    <3>2. \A r \in Port \ {q} : h.port[r].connected => h.port[r].addr # h.port[q].addr
      BY <3>1, <2>1 DEF HubInv, AddressesUnique
    <3>3. ASSUME NEW r \in Port \ {q}, h'.port[r].connected
          PROVE  h'.port[r].addr # h'.port[q].addr
      BY <3>1, <3>2, <3>3, <1>r
    <3> QED
      BY <2>1, <1>r, <3>3
  <2> QED
    BY <2>1 DEF AddressesUnique
<1>4. NoOrphans' /\ SlotWhole'
  <2>1. CASE p = Root
    BY <2>1, <1>r, <1>t DEF NoOrphans, SlotWhole, NoSlot
  <2>2. CASE p # Root
    <3>1. h'.slot = h.slot /\ h'.port[Root] = h.port[Root]
      BY <2>2, <1>r
    <3>2. NoOrphans /\ SlotWhole
      BY DEF HubInv
    <3>3. \A c \in Child : h'.port[c].connected => h'.slot.connected
      BY <3>1, <3>2, <1>r DEF NoOrphans
    <3> QED
      BY <3>1, <3>2, <3>3, <1>r, <1>t DEF NoOrphans, SlotWhole
  <2> QED
    BY <2>1, <2>2
<1>5. ThreadOwns'
  <2>1. th.hub = "hub" => p # Root /\ h.slot.connected
    BY DEF HubInv, ThreadOwns, Busy, Active
  <2> QED
    BY <2>1, <1>1, <1>r DEF HubInv, ThreadOwns, Active, Busy
<1>6. Filling' /\ Held'
  BY <1>1 DEF Filling, Held
<1> QED
  BY <1>2, <1>3, <1>4, <1>5, <1>6 DEF HubInv

\* A stable port goes on to its reset or is released.
LEMMA SettledInv == HubInv /\ Settled => HubInv'
<1> SUFFICES ASSUME HubInv, Settled PROVE HubInv'
  OBVIOUS
<1>t. /\ h \in Tables /\ th \in Threads /\ wire \in Wires /\ th.pc = "debounce"
      /\ UNCHANGED <<deinit, wire>> /\ th.p \in Port
  BY Parts DEF Settled, At, Threads
<1>1. CASE th.connection
  <2>1. UNCHANGED h /\ th' = [th EXCEPT !.pc = "reset"]
    BY <1>1 DEF Settled, Goto
  <2>2. /\ th' \in Threads /\ th'.pc = "reset"
        /\ th'.hub = th.hub /\ th'.todo = th.todo /\ th'.p = th.p
    BY <2>1, <1>t DEF Threads
  <2>3. ThreadOwns'
    BY <2>1, <2>2, <1>t DEF HubInv, ThreadOwns, Active, Busy
  <2> QED
    BY <2>1, <2>2, <2>3, <1>t, ThreadStep, Parts
<1>2. CASE ~th.connection
  <2>1. h' = Released(h, th.p) /\ th' = [th EXCEPT !.pc = "scan"]
    BY <1>2 DEF Settled, Goto
  <2> QED
    BY <2>1, <1>t, ReleaseKeeps DEF Busy
<1> QED
  BY <1>1, <1>2

\* A failed enumeration releases its port.
LEMMA FailKeeps ==
    ASSUME HubInv, NEW p \in Port, p = th.p, Busy, Fail(p), UNCHANGED <<deinit, wire>>
    PROVE  HubInv'
  BY ReleaseKeeps DEF Fail, Goto

\* The old device goes before the new one is connected, with no address.
LEMMA EnabledInv == HubInv /\ Enabled => HubInv'
<1> SUFFICES ASSUME HubInv, Enabled PROVE HubInv'
  OBVIOUS
<1> USE PortSet
<1> DEFINE p == th.p
           g == Released(h, p)
           new == [NoPort EXCEPT !.connected = TRUE]
<1>t. /\ h \in Tables /\ th \in Threads /\ wire \in Wires /\ TablesInv /\ Len(h.mq) <= QLen
      /\ deinit \in Deinits /\ \A c \in Child : wire.plug[c] # "hub"
      /\ p \in Port /\ th.pc = "enable" /\ UNCHANGED <<deinit, wire>>
  BY Parts DEF Enabled, At, Threads
<1>1. CASE UNCHANGED h /\ Goto("scan")
  <2>1. /\ th' \in Threads /\ th'.pc = "scan" /\ th'.hub = th.hub /\ th'.todo = th.todo
    BY <1>1, <1>t DEF Threads, Goto
  <2>2. ThreadOwns'
    BY <1>1, <2>1, <1>t DEF HubInv, ThreadOwns, Active, Busy
  <2> QED
    BY <1>1, <2>1, <2>2, <1>t, ThreadStep, Parts
<1>2. CASE h' = g /\ Goto("scan")
  BY <1>2, <1>t, ReleaseKeeps DEF Busy, Goto
<1>3. CASE h' = [g EXCEPT !.port[p] = new] /\ Goto("descriptor")
  <2>r. /\ g \in Tables /\ g.mq = h.mq
        /\ \A q \in Port : g.port[q].connected =>
              h.port[q].connected /\ g.port[q] = h.port[q]
        /\ \A q \in Port : g.port[q].inst => g.port[q].connected
        /\ \A q \in Port : g.port[q].connected /\ g.port[q].addr # 0 =>
              g.port[q].addr \in g.used
        /\ p # Root => g.slot = h.slot /\ \A q \in Port \ {p} : g.port[q] = h.port[q]
        /\ p = Root => g.slot = NoSlot /\ \A q \in Port : ~g.port[q].connected
    <3> HIDE DEF g
    <3>1. g = Released(h, p)
      BY DEF g
    <3> QED
      BY <3>1, <1>t, ReleasedFacts
  <2> HIDE DEF g
  <2>1. /\ new \in PortRec /\ new.connected /\ ~new.inst /\ new.addr = 0
    BY DEF NoPort, PortRec
  <2> HIDE DEF new
  <2>2. /\ h'.port = [g.port EXCEPT ![p] = new] /\ h'.slot = g.slot /\ h'.used = g.used
        /\ h'.mq = g.mq /\ h' \in Tables
    BY <1>3, <2>r, <2>1 DEF Tables
  <2>3. /\ h'.port[p] = new /\ \A q \in Port \ {p} : h'.port[q] = g.port[q]
    BY <2>2, <2>r, <1>t DEF Tables
  <2>4. /\ th' \in Threads /\ th'.pc = "descriptor" /\ th'.hub = th.hub
        /\ th'.todo = th.todo /\ th'.p = p
    BY <1>3, <1>t DEF Threads, Goto
  <2>5. TypeOK'
    BY <2>2, <2>4, <2>r, <1>t, TypePartsNext
  <2>6. AddressesUnique'
    <3>1. ASSUME NEW q \in Port, h'.port[q].connected, h'.port[q].addr # 0
          PROVE  /\ h'.port[q].addr \in h'.used
                 /\ \A r \in Port \ {q} : h'.port[r].connected =>
                      h'.port[r].addr # h'.port[q].addr
      <4>1. q # p /\ h'.port[q] = g.port[q]
        BY <3>1, <2>1, <2>3
      <4>2. h.port[q].connected /\ g.port[q] = h.port[q] /\ g.port[q].addr \in g.used
        BY <3>1, <4>1, <2>r
      <4>3. \A r \in Port \ {q} : h.port[r].connected => h.port[r].addr # h.port[q].addr
        BY <3>1, <4>1, <4>2 DEF HubInv, AddressesUnique
      <4>4. ASSUME NEW r \in Port \ {q}, h'.port[r].connected
            PROVE  h'.port[r].addr # h'.port[q].addr
        <5>1. CASE r = p
          BY <5>1, <2>1, <2>3, <3>1
        <5>2. CASE r # p
          BY <5>2, <4>1, <4>2, <4>3, <4>4, <2>3, <2>r
        <5> QED
          BY <5>1, <5>2
      <4> QED
        BY <4>1, <4>2, <4>4, <2>2
    <3> QED
      BY <3>1 DEF AddressesUnique
  <2>7. p # Root => h.slot.connected
    BY <1>t DEF HubInv, ThreadOwns, Busy, Active, Threads
  <2>8. NoOrphans' /\ SlotWhole'
    <3>1. CASE p = Root
      BY <3>1, <2>r, <2>1, <2>2, <2>3, <1>t DEF NoOrphans, SlotWhole, NoSlot
    <3>2. CASE p # Root
      <4>1. h'.slot = h.slot /\ h'.port[Root] = h.port[Root] /\ h.slot.connected
        BY <3>2, <2>r, <2>2, <2>3, <2>7
      <4> QED
        BY <4>1, <2>r, <2>1, <2>3, <1>t DEF HubInv, NoOrphans, SlotWhole
    <3> QED
      BY <3>1, <3>2
  <2>9. ThreadOwns'
    <3>1. th.hub = "hub" => p # Root /\ h.slot.connected
      BY <1>t DEF HubInv, ThreadOwns, Busy, Active
    <3> QED
      BY <3>1, <1>t, <2>2, <2>4, <2>r DEF HubInv, ThreadOwns, Busy, Active
  <2>10. Filling' /\ Held'
    BY <2>1, <2>3, <2>4 DEF Filling, Held
  <2> QED
    BY <2>5, <2>6, <2>8, <2>9, <2>10 DEF HubInv
<1> QED
  <2> HIDE DEF g, new
  <2> QED
    BY <1>1, <1>2, <1>3 DEF Enabled, g, new

-----------------------------------------------------------------------------
(* The rest of the enumeration.                                            *)

\* The address allocated is in no table: it is held by the thread.
LEMMA DescriptorInv == HubInv /\ Descriptor => HubInv'
<1> SUFFICES ASSUME HubInv, Descriptor PROVE HubInv'
  OBVIOUS
<1> USE PortSet
<1> DEFINE a == Allocated(h)
<1>t. /\ h \in Tables /\ th \in Threads /\ wire \in Wires /\ Len(h.mq) <= QLen
      /\ deinit \in Deinits /\ \A c \in Child : wire.plug[c] # "hub"
      /\ th.p \in Port /\ th.pc = "descriptor" /\ UNCHANGED <<deinit, wire>>
  BY Parts DEF Descriptor, At, Threads
<1>1. CASE Fail(th.p)
  BY <1>1, <1>t, FailKeeps DEF Busy
<1>2. CASE UNCHANGED h /\ Goto("scan")
  <2>1. /\ th' \in Threads /\ th'.pc = "scan" /\ th'.hub = th.hub /\ th'.todo = th.todo
    BY <1>2, <1>t DEF Threads, Goto
  <2>2. ThreadOwns'
    BY <1>2, <2>1, <1>t DEF HubInv, ThreadOwns, Active, Busy
  <2> QED
    BY <1>2, <2>1, <2>2, <1>t, ThreadStep, Parts
<1>3. CASE /\ a # 0 /\ h' = [h EXCEPT !.used = @ \cup {a}, !.last = a]
           /\ th' = [th EXCEPT !.pc = "address", !.addr = a]
  <2>1. a \in (2 .. Max) \ h.used
    BY <1>3, <1>t, AllocatedFree
  <2> HIDE DEF a
  <2>2. a \in Nat
    BY <2>1, AddressRange
  <2>3. /\ h' \in Tables /\ h'.port = h.port /\ h'.slot = h.slot /\ h'.mq = h.mq
        /\ h'.used = h.used \cup {a}
    BY <1>3, <2>1, <1>t DEF Tables
  <2>4. /\ th' \in Threads /\ th'.pc = "address" /\ th'.hub = th.hub
        /\ th'.todo = th.todo /\ th'.p = th.p /\ th'.addr = a
    BY <1>3, <2>2, <1>t DEF Threads
  <2>5. TypeOK'
    BY <2>3, <2>4, <1>t, TypePartsNext
  <2>6. AddressesUnique' /\ NoOrphans' /\ SlotWhole' /\ ThreadOwns' /\ Filling'
    BY <2>3, <2>4, <1>t DEF HubInv, AddressesUnique, NoOrphans, SlotWhole, ThreadOwns,
       Filling, Busy, Active
  <2>7. Held'
    <3>1. \A q \in Port : h.port[q].connected => h.port[q].addr # a
      BY <1>3, <2>1 DEF HubInv, AddressesUnique
    <3> QED
      BY <3>1, <2>3, <2>4 DEF Held
  <2> QED
    BY <2>5, <2>6, <2>7 DEF HubInv
<1> QED
  BY <1>1, <1>2, <1>3 DEF Descriptor

\* The address held becomes that of the port being filled.
LEMMA SetAddressInv == HubInv /\ SetAddress => HubInv'
<1> SUFFICES ASSUME HubInv, SetAddress PROVE HubInv'
  OBVIOUS
<1> USE PortSet
<1> DEFINE p == th.p
<1>t. /\ h \in Tables /\ th \in Threads /\ wire \in Wires /\ Len(h.mq) <= QLen
      /\ deinit \in Deinits /\ \A c \in Child : wire.plug[c] # "hub"
      /\ p \in Port /\ th.pc = "address" /\ UNCHANGED deinit
      /\ h.port \in [Port -> PortRec] /\ h.port[p] \in PortRec /\ th.addr \in Nat
  BY Parts DEF SetAddress, At, Threads, Tables
<1>1. CASE Fail(p) /\ UNCHANGED wire
  BY <1>1, <1>t, FailKeeps DEF Busy
<1>2. CASE /\ Goto("config") /\ h' = [h EXCEPT !.port[p].addr = th.addr]
           /\ wire' = [wire EXCEPT !.ans = [q \in Port |-> IF @[q] = 0 THEN th.addr ELSE @[q]]]
  <2> DEFINE new == [h.port[p] EXCEPT !.addr = th.addr]
  <2>1. /\ new \in PortRec /\ new.addr = th.addr
        /\ new.connected = h.port[p].connected /\ new.inst = h.port[p].inst
    BY <1>t DEF PortRec
  <2>2. h' = [h EXCEPT !.port = [h.port EXCEPT ![p] = new]]
    BY <1>2
  <2> HIDE DEF new
  <2>3. /\ h' \in Tables /\ h'.slot = h.slot /\ h'.mq = h.mq /\ h'.used = h.used
        /\ h'.port[p] = new /\ \A q \in Port \ {p} : h'.port[q] = h.port[q]
    BY <2>1, <2>2, <1>t DEF Tables
  <2>4. /\ th' \in Threads /\ th'.pc = "config" /\ th'.hub = th.hub
        /\ th'.todo = th.todo /\ th'.p = p
    BY <1>2, <1>t DEF Threads, Goto
  <2>5. wire' \in Wires /\ wire'.plug = wire.plug
    <3>1. wire' = [wire EXCEPT !.ans =
                     [q \in Port |-> IF wire.ans[q] = 0 THEN th.addr ELSE wire.ans[q]]]
      BY <1>2, <1>t DEF Wires
    <3>2. [q \in Port |-> IF wire.ans[q] = 0 THEN th.addr ELSE wire.ans[q]] \in [Port -> Int]
      BY <1>t DEF Wires
    <3> QED
      BY <3>1, <3>2, <1>t DEF Wires
  <2>6. TypeOK'
    BY <2>3, <2>4, <2>5, <1>t, TypePartsNext
  <2>7. /\ th.addr \in h.used
        /\ \A q \in Port : h.port[q].connected => h.port[q].addr # th.addr
        /\ h.port[p].connected /\ ~h.port[p].inst
    BY <1>t DEF HubInv, Held, Filling
  <2>8. AddressesUnique'
    <3>1. ASSUME NEW q \in Port, h'.port[q].connected, h'.port[q].addr # 0
          PROVE  /\ h'.port[q].addr \in h'.used
                 /\ \A r \in Port \ {q} : h'.port[r].connected =>
                      h'.port[r].addr # h'.port[q].addr
      <4>1. CASE q = p
        BY <4>1, <2>1, <2>3, <2>7
      <4>2. CASE q # p
        <5>1. h'.port[q] = h.port[q]
          BY <4>2, <2>3
        <5>2. /\ h.port[q].addr \in h.used
              /\ \A r \in Port \ {q} : h.port[r].connected => h.port[r].addr # h.port[q].addr
          BY <3>1, <5>1 DEF HubInv, AddressesUnique
        <5>3. h'.port[p].addr # h.port[q].addr
          BY <3>1, <5>1, <2>1, <2>3, <2>7
        <5> QED
          BY <5>1, <5>2, <5>3, <2>3
      <4> QED
        BY <4>1, <4>2
    <3> QED
      BY <3>1 DEF AddressesUnique
  <2>9. NoOrphans' /\ SlotWhole'
    BY <2>1, <2>3, <2>5, <2>7, <1>t DEF HubInv, NoOrphans, SlotWhole
  <2>10. ThreadOwns' /\ Filling' /\ Held'
    BY <2>1, <2>3, <2>4, <2>7, <1>t DEF HubInv, ThreadOwns, Filling, Held, Busy, Active
  <2> QED
    BY <2>6, <2>8, <2>9, <2>10 DEF HubInv
<1> QED
  BY <1>1, <1>2 DEF SetAddress

\* The port is still filled by the thread.
LEMMA ConfigureInv == HubInv /\ Configure => HubInv'
<1> SUFFICES ASSUME HubInv, Configure PROVE HubInv'
  OBVIOUS
<1>t. /\ h \in Tables /\ th \in Threads /\ wire \in Wires /\ Len(h.mq) <= QLen
      /\ deinit \in Deinits /\ \A c \in Child : wire.plug[c] # "hub"
      /\ th.p \in Port /\ th.pc = "config" /\ UNCHANGED <<deinit, wire>>
  BY Parts DEF Configure, At, Threads
<1>1. CASE Fail(th.p)
  BY <1>1, <1>t, FailKeeps DEF Busy
<1>2. CASE Goto("class") /\ UNCHANGED h
  <2>1. /\ th' \in Threads /\ th'.pc = "class" /\ th'.hub = th.hub
        /\ th'.todo = th.todo /\ th'.p = th.p
    BY <1>2, <1>t DEF Threads, Goto
  <2>2. TypeOK'
    BY <1>2, <1>t, <2>1, TypePartsNext
  <2>3. AddressesUnique' /\ NoOrphans' /\ SlotWhole' /\ ThreadOwns' /\ Filling' /\ Held'
    BY <1>2, <2>1, <1>t DEF HubInv, AddressesUnique, NoOrphans, SlotWhole, ThreadOwns,
       Filling, Held, Busy, Active
  <2> QED
    BY <2>2, <2>3 DEF HubInv
<1> QED
  BY <1>1, <1>2 DEF Configure

\* A function gets its instance on a connected port.
LEMMA ClassConnectInv == HubInv /\ ClassConnect => HubInv'
<1> SUFFICES ASSUME HubInv, ClassConnect PROVE HubInv'
  OBVIOUS
<1> USE PortSet
<1> DEFINE p == th.p
<1>t. /\ h \in Tables /\ th \in Threads /\ wire \in Wires /\ Len(h.mq) <= QLen
      /\ deinit \in Deinits /\ \A c \in Child : wire.plug[c] # "hub"
      /\ p \in Port /\ th.pc = "class" /\ UNCHANGED <<deinit, wire>>
      /\ h.port \in [Port -> PortRec] /\ h.port[p] \in PortRec
  BY Parts DEF ClassConnect, At, Threads, Tables
<1>1. CASE Fail(p)
  BY <1>1, <1>t, FailKeeps DEF Busy
<1>2. CASE h' = [h EXCEPT !.port[p].inst = TRUE] /\ Goto("scan")
  <2> DEFINE new == [h.port[p] EXCEPT !.inst = TRUE]
  <2>1. new \in PortRec /\ new.addr = h.port[p].addr /\ new.connected = h.port[p].connected
    BY <1>t DEF PortRec
  <2>2. h' = [h EXCEPT !.port = [h.port EXCEPT ![p] = new]]
    BY <1>2
  <2> HIDE DEF new
  <2>3. /\ h' \in Tables /\ h'.slot = h.slot /\ h'.mq = h.mq /\ h'.used = h.used
        /\ h'.port[p] = new /\ \A q \in Port \ {p} : h'.port[q] = h.port[q]
    BY <2>1, <2>2, <1>t DEF Tables
  <2>4. /\ \A q \in Port : /\ h'.port[q].addr = h.port[q].addr
                           /\ h'.port[q].connected = h.port[q].connected
        /\ \A q \in Port \ {p} : h'.port[q].inst = h.port[q].inst
        /\ h.port[p].connected
    BY <2>1, <2>3, <1>t DEF HubInv, Filling
  <2>5. /\ th' \in Threads /\ th'.pc = "scan" /\ th'.hub = th.hub /\ th'.todo = th.todo
    BY <1>2, <1>t DEF Threads, Goto
  <2>6. TypeOK'
    BY <2>3, <2>5, <1>t, TypePartsNext
  <2>7. AddressesUnique'
    BY <2>3, <2>4 DEF HubInv, AddressesUnique
  <2>8. \A q \in Port : h'.port[q].inst => h'.port[q].connected
    BY <2>4 DEF HubInv, NoOrphans
  <2>9. h'.slot.inuse => h'.port[Root].inst
    <3>1. CASE p = Root
      BY <3>1, <1>t, <2>3 DEF HubInv, NoOrphans, Filling
    <3>2. CASE p # Root
      BY <3>2, <2>3 DEF HubInv, NoOrphans
    <3> QED
      BY <3>1, <3>2
  <2>10. NoOrphans' /\ SlotWhole'
    BY <2>3, <2>4, <2>8, <2>9, <1>t DEF HubInv, NoOrphans, SlotWhole
  <2>11. ThreadOwns' /\ Filling' /\ Held'
    BY <2>3, <2>5, <1>t DEF HubInv, ThreadOwns, Filling, Held, Busy, Active
  <2> QED
    BY <2>6, <2>7, <2>10, <2>11 DEF HubInv
<1> QED
  BY <1>1, <1>2 DEF ClassConnect

\* Only the root port has a hub, and its slot was free before.
LEMMA HubConnectInv == HubInv /\ HubConnect => HubInv'
<1> SUFFICES ASSUME HubInv, HubConnect PROVE HubInv'
  OBVIOUS
<1> USE PortSet
<1>t. /\ h \in Tables /\ th \in Threads /\ wire \in Wires /\ Len(h.mq) <= QLen
      /\ deinit \in Deinits /\ \A c \in Child : wire.plug[c] # "hub"
      /\ th.pc = "class" /\ th.p \in Port /\ wire.plug[th.p] = "hub"
      /\ UNCHANGED <<deinit, wire>>
      /\ h.port \in [Port -> PortRec] /\ h.port[Root] \in PortRec
  BY Parts DEF HubConnect, At, Threads, Tables
<1>1. th.p = Root /\ h.port[Root].connected /\ ~h.port[Root].inst
  BY <1>t DEF HubInv, Filling
<1>2. h.slot = NoSlot /\ \A c \in Child : ~h.port[c].connected
  <2>1. ~h.slot.inuse
    BY <1>1 DEF HubInv, NoOrphans
  <2> QED
    BY <2>1 DEF HubInv, NoOrphans, SlotWhole, NoSlot
<1> DEFINE new == [h.port[Root] EXCEPT !.inst = TRUE]
           slot == [NoSlot EXCEPT !.inuse = TRUE]
<1>3. /\ new \in PortRec /\ new.addr = h.port[Root].addr
      /\ new.connected = h.port[Root].connected /\ new.inst
  BY <1>t DEF PortRec
<1>4. /\ slot \in SlotRec /\ slot.inuse /\ ~slot.connected
      /\ slot.timer = "none" /\ slot.urb = "idle"
  BY DEF SlotRec, NoSlot
<1>5. h' = [h EXCEPT !.port = [h.port EXCEPT ![Root] = new], !.slot = slot]
  BY <1>1 DEF HubConnect
<1> HIDE DEF new, slot
<1>6. /\ h' \in Tables /\ h'.slot = slot /\ h'.mq = h.mq /\ h'.used = h.used
      /\ h'.port[Root] = new /\ \A q \in Child : h'.port[q] = h.port[q]
  BY <1>3, <1>4, <1>5, <1>t DEF Tables
<1>7. /\ th' \in Threads /\ th'.pc = "power" /\ th'.hub = th.hub
      /\ th'.todo = th.todo /\ th'.p = Root
  BY <1>1, <1>t DEF HubConnect, Threads, Goto
<1>8. TypeOK'
  BY <1>6, <1>7, <1>t, TypePartsNext
<1>9. \A q \in Port : /\ h'.port[q].addr = h.port[q].addr
                      /\ h'.port[q].connected = h.port[q].connected
  BY <1>3, <1>6
<1>10. AddressesUnique'
  BY <1>6, <1>9 DEF HubInv, AddressesUnique
<1>11. NoOrphans' /\ SlotWhole'
  BY <1>1, <1>2, <1>3, <1>4, <1>6, <1>t DEF HubInv, NoOrphans, SlotWhole
<1>12. ThreadOwns' /\ Filling' /\ Held'
  <2>1. th.hub = "root"
    BY <1>1, <1>t DEF HubInv, ThreadOwns, Busy
  <2> QED
    BY <2>1, <1>3, <1>4, <1>6, <1>7, <1>t DEF HubInv, ThreadOwns, Filling, Held, Busy, Active
<1> QED
  BY <1>8, <1>10, <1>11, <1>12 DEF HubInv

\* A hub is registered once its ports are powered and cleared.
LEMMA HubPowerInv == HubInv /\ HubPower => HubInv'
<1> SUFFICES ASSUME HubInv, HubPower PROVE HubInv'
  OBVIOUS
<1> USE PortSet
<1>t. /\ h \in Tables /\ th \in Threads /\ wire \in Wires /\ Len(h.mq) <= QLen
      /\ deinit \in Deinits /\ \A c \in Child : wire.plug[c] # "hub"
      /\ th.pc = "power" /\ th.p \in Port /\ UNCHANGED deinit
      /\ h.port \in [Port -> PortRec] /\ h.slot \in SlotRec
  BY Parts DEF HubPower, At, Threads, Tables
<1>1. th.p = Root /\ h.port[Root].inst /\ h.slot.inuse /\ h.port[Root].connected
  BY <1>t DEF HubInv, Filling, NoOrphans
<1>2. CASE Fail(Root) /\ UNCHANGED wire
  BY <1>1, <1>2, <1>t, FailKeeps DEF Busy
<1> DEFINE ports == [p \in Port |-> IF p = Root THEN h.port[p] ELSE NoPort]
           slot  == [h.slot EXCEPT !.connected = TRUE, !.timer = "running"]
           csc   == [p \in Port |-> IF p = Root THEN wire.csc[p] ELSE wire.plug[p] # "none"]
<1>3. CASE /\ Goto("scan") /\ h' = [h EXCEPT !.port = ports, !.slot = slot]
           /\ wire' = [wire EXCEPT !.powered = TRUE, !.csc = csc]
  <2>1. slot \in SlotRec /\ slot.connected /\ slot.inuse
    <3>1. slot \in SlotRec
      BY <1>t DEF SlotRec
    <3>2. DOMAIN h.slot = {"inuse", "connected", "timer", "urb"}
      BY <1>t DEF SlotRec
    <3> QED
      BY <1>1, <3>1, <3>2
  <2>2. /\ ports \in [Port -> PortRec] /\ ports[Root] = h.port[Root]
        /\ \A c \in Child : ~ports[c].connected /\ ~ports[c].inst
    BY <1>t DEF PortRec, NoPort
  <2>3. csc \in [Port -> BOOLEAN]
    <3>1. \A p \in Port : wire.csc[p] \in BOOLEAN
      BY <1>t DEF Wires
    <3> QED
      BY <3>1
  <2> HIDE DEF ports, slot, csc
  <2>4. /\ h' \in Tables /\ h'.slot = slot /\ h'.mq = h.mq /\ h'.used = h.used /\ h'.port = ports
    BY <1>3, <2>1, <2>2, <1>t DEF Tables
  <2>5. /\ th' \in Threads /\ th'.pc = "scan" /\ th'.hub = th.hub /\ th'.todo = th.todo
    BY <1>3, <1>t DEF Threads, Goto
  <2>6. wire' \in Wires /\ wire'.plug = wire.plug
    BY <1>3, <2>3, <1>t DEF Wires
  <2>7. TypeOK'
    BY <2>4, <2>5, <2>6, <1>t, TypePartsNext
  <2>8. AddressesUnique'
    BY <2>2, <2>4 DEF HubInv, AddressesUnique
  <2>9. NoOrphans' /\ SlotWhole'
    BY <1>1, <2>1, <2>2, <2>4, <2>6, <1>t DEF HubInv, NoOrphans, SlotWhole
  <2>10. ThreadOwns' /\ Filling' /\ Held'
    BY <2>1, <2>4, <2>5, <1>t DEF HubInv, ThreadOwns, Filling, Held, Busy, Active
  <2> QED
    BY <2>7, <2>8, <2>9, <2>10 DEF HubInv
<1> QED
  <2>1. ASSUME Goto("scan"),
               h' = [h EXCEPT !.slot.connected = TRUE, !.slot.timer = "running",
                       !.port = [p \in Port |-> IF p = Root THEN @[p] ELSE NoPort]],
               wire' = [wire EXCEPT !.powered = TRUE,
                          !.csc = [p \in Port |-> IF p = Root THEN @[p]
                                                  ELSE wire.plug[p] # "none"]]
        PROVE  HubInv'
    <3>1. h' = [h EXCEPT !.port = ports, !.slot = slot]
      BY <2>1, <1>t DEF Tables, SlotRec
    <3>2. wire' = [wire EXCEPT !.powered = TRUE, !.csc = csc]
      BY <2>1, <1>t DEF Wires
    <3> HIDE DEF ports, slot, csc
    <3> QED
      BY <2>1, <3>1, <3>2, <1>3
  <2> HIDE DEF ports, slot, csc
  <2> QED
    BY <1>2, <2>1 DEF HubPower

\* The end of the thread releases everything behind the root port.
LEMMA ExitInv == HubInv /\ Exit => HubInv'
<1> SUFFICES ASSUME HubInv, Exit PROVE HubInv'
  OBVIOUS
<1> USE PortSet
<1> DEFINE g == Released(h, Root)
<1>t. /\ h \in Tables /\ th \in Threads /\ wire \in Wires /\ Len(h.mq) <= QLen
      /\ TablesInv /\ UNCHANGED wire /\ \A c \in Child : wire.plug[c] # "hub"
  BY Parts DEF Exit
<1>1. /\ g \in Tables /\ g.slot = NoSlot /\ \A q \in Port : ~g.port[q].connected
      /\ \A q \in Port : g.port[q].inst => g.port[q].connected
  BY <1>t, ReleasedFacts
<1>2. h' = [g EXCEPT !.mq = <<>>] /\ deinit' \in Deinits /\ th' = [th EXCEPT !.pc = "exit"]
  BY DEF Exit, Goto, Deinits
<1> HIDE DEF g
<1>3. /\ h' \in Tables /\ h'.slot = NoSlot /\ h'.port = g.port /\ Len(h'.mq) <= QLen
  <2>1. <<>> \in Seq({"root", "hub", "NULL"}) /\ Len(<<>>) = 0 /\ 0 <= QLen
    BY HubAssumption DEF HubAssumption
  <2> QED
    BY <1>1, <1>2, <2>1 DEF Tables
<1>4. th' \in Threads /\ th'.pc = "exit" /\ th'.hub = th.hub /\ th'.todo = th.todo
  BY <1>2, <1>t DEF Threads
<1>5. TypeOK'
  BY <1>2, <1>3, <1>4, <1>t, TypePartsNext
<1>6. AddressesUnique' /\ NoOrphans' /\ SlotWhole'
  BY <1>1, <1>3, <1>t DEF AddressesUnique, NoOrphans, SlotWhole, NoSlot
<1>7. ThreadOwns' /\ Filling' /\ Held'
  BY <1>4 DEF HubInv, ThreadOwns, Filling, Held, Busy, Active
<1> QED
  BY <1>5, <1>6, <1>7 DEF HubInv

-----------------------------------------------------------------------------
(* The other threads and the wire.                                         *)

\* What leaves the thread alone and at most puts a message into the queue.
LEMMA Message ==
    ASSUME HubInv, UNCHANGED th, deinit' \in Deinits, wire' \in Wires,
           \A c \in Child : wire'.plug[c] # "hub",
           h' = h \/ \E m \in {"root", "hub", "NULL"} : h' = Woken(h, m)
    PROVE  HubInv'
<1>t. h \in Tables /\ th \in Threads /\ Len(h.mq) <= QLen
  BY Parts
<1>1. /\ h' = [h EXCEPT !.mq = h'.mq]
      /\ h'.mq \in Seq({"root", "hub", "NULL"}) /\ Len(h'.mq) <= QLen
  <2>1. CASE h' = h
    BY <2>1, <1>t, QueueKept DEF Tables
  <2>2. CASE \E m \in {"root", "hub", "NULL"} : h' = Woken(h, m)
    BY <2>2, <1>t, WokenTypes
  <2> QED
    BY <2>1, <2>2
<1>2. ThreadOwns'
  <2>1. h'.slot = h.slot
    BY <1>1, <1>t DEF Tables
  <2> QED
    BY <2>1 DEF HubInv, ThreadOwns, Active, Busy
<1> QED
  BY <1>1, <1>2, <1>t, TablesKept

\* usbh_hub_deinitialize sends at most a message.
LEMMA DeinitSends ==
    ASSUME Deinit
    PROVE  /\ UNCHANGED <<th, wire>> /\ deinit' \in Deinits
           /\ h' = h \/ h' = Woken(h, "NULL")
           /\ h' = h \/ h' = [h EXCEPT !.mq = Append(@, "NULL")]
<1>1. CASE Deinitialize
  BY <1>1 DEF Deinitialize, SendNull, QueueHasRoom, Woken, Deinits
<1>2. CASE SendEnds
  BY <1>2 DEF SendEnds, SendNull, QueueHasRoom, Woken, Deinits
<1>3. CASE DeinitEnds
  BY <1>3 DEF DeinitEnds, Deinits
<1> QED
  BY <1>1, <1>2, <1>3 DEF Deinit

LEMMA DeinitInv == HubInv /\ Deinit => HubInv'
<1> SUFFICES ASSUME HubInv, Deinit PROVE HubInv'
  OBVIOUS
<1>1. /\ UNCHANGED <<th, wire>> /\ deinit' \in Deinits /\ (h' = h \/ h' = Woken(h, "NULL"))
      /\ wire \in Wires /\ \A c \in Child : wire.plug[c] # "hub"
  BY Parts, DeinitSends
<1> QED
  BY <1>1, Message

\* What is plugged in changes the wire and may wake the thread.
LEMMA PlugInv ==
    ASSUME HubInv, NEW p \in Port, NEW kind \in {"func", "hub"}, Plug(p, kind)
    PROVE  HubInv'
<1> USE PortSet
<1>t. wire \in Wires /\ deinit \in Deinits /\ \A c \in Child : wire.plug[c] # "hub"
  BY Parts
<1>1. UNCHANGED <<th, deinit>> /\ (h' = h \/ h' = Woken(h, "root"))
  BY DEF Plug, PortIrq
<1> DEFINE plug == [wire.plug EXCEPT ![p] = kind]
           csc  == [wire.csc EXCEPT ![p] = wire.csc[p] \/ p = Root \/ wire.powered]
<1>2. wire' = [wire EXCEPT !.plug = plug, !.moves = wire.moves + 1, !.csc = csc]
  BY DEF Plug
<1>3. plug \in [Port -> {"none", "func", "hub"}] /\ csc \in [Port -> BOOLEAN]
      /\ wire.moves + 1 \in Nat
  BY <1>t DEF Wires
<1>4. \A c \in Child : plug[c] # "hub"
  <2>1. p # Root => kind = "func"
    BY DEF Plug
  <2> QED
    BY <2>1, <1>t DEF Wires
<1> HIDE DEF plug, csc
<1>5. wire' \in Wires /\ wire'.plug = plug
  BY <1>2, <1>3, <1>t DEF Wires
<1> QED
  BY <1>1, <1>4, <1>5, <1>t, Message

\* So does what is pulled.
LEMMA UnplugInv == ASSUME HubInv, NEW p \in Port, Unplug(p) PROVE HubInv'
<1> USE PortSet
<1> DEFINE gone == IF p = Root THEN Port ELSE {p}
           plug == [q \in Port |-> IF q \in gone THEN "none" ELSE wire.plug[q]]
           ans  == [q \in Port |-> IF q \in gone THEN Gone ELSE wire.ans[q]]
           csc  == [q \in Port |-> IF q = p THEN q = Root \/ wire.powered
                                   ELSE wire.csc[q] /\ q \notin gone]
<1>t. wire \in Wires /\ deinit \in Deinits /\ \A c \in Child : wire.plug[c] # "hub"
  BY Parts
<1>1. UNCHANGED <<th, deinit>> /\ (h' = h \/ h' = Woken(h, "root"))
  BY DEF Unplug, PortIrq
<1>2. wire' = [plug |-> plug, ans |-> ans, csc |-> csc,
               powered |-> wire.powered /\ p # Root, moves |-> wire.moves + 1]
  BY DEF Unplug
<1>3. /\ plug \in [Port -> {"none", "func", "hub"}] /\ ans \in [Port -> Int]
      /\ wire.moves + 1 \in Nat /\ (wire.powered /\ p # Root) \in BOOLEAN
  BY <1>t DEF Wires, Gone
<1>4. csc \in [Port -> BOOLEAN]
  <2>1. \A q \in Port : wire.csc[q] \in BOOLEAN /\ wire.powered \in BOOLEAN
    BY <1>t DEF Wires
  <2> QED
    BY <2>1
<1>5. \A c \in Child : plug[c] # "hub"
  BY <1>t
<1> HIDE DEF plug, ans, csc
<1>6. wire' \in Wires /\ wire'.plug = plug
  BY <1>2, <1>3, <1>4 DEF Wires
<1> QED
  BY <1>1, <1>5, <1>6, <1>t, Message

-----------------------------------------------------------------------------
(* The theorems.                                                           *)

\* No step breaks the invariant: one lemma per action above.
LEMMA StepHolds == HubInv /\ [Next]_vars => HubInv'
<1> SUFFICES ASSUME HubInv, [Next]_vars PROVE HubInv'
  OBVIOUS
<1>1. CASE Thread
  BY <1>1, RecvInv, ScanInv, ScanEndsInv, ClearInv, DebounceInv, SettledInv, UnsettledInv,
     ResetInv, EnabledInv, DescriptorInv, SetAddressInv, ConfigureInv, ClassConnectInv,
     HubConnectInv, HubPowerInv, ExitInv DEF Thread
<1>2. CASE TimerFires
  BY <1>2, TimerInv
<1>3. CASE IntCompletes
  BY <1>3, IntInv
<1>4. CASE Deinit
  BY <1>4, DeinitInv
<1>5. ASSUME NEW p \in Port, Unplug(p) PROVE HubInv'
  BY <1>5, UnplugInv
<1>6. ASSUME NEW p \in Port, NEW kind \in {"func", "hub"}, Plug(p, kind) PROVE HubInv'
  BY <1>6, PlugInv
<1>7. CASE UNCHANGED vars
  <2>1. UNCHANGED <<h, th, deinit, wire>>
    BY <1>7 DEF vars
  <2> QED
    BY <2>1, Parts, Message
<1> QED
  BY <1>1, <1>2, <1>3, <1>4, <1>5, <1>6, <1>7 DEF Next

\* The invariant holds in every state that can be reached.
LEMMA HubInvHolds == Spec => []HubInv
  BY InitHolds, StepHolds, PTL DEF Spec

\* The tables of the host keep their types: addresses stay within the bitmap
\* and the message queue within its length, whatever is plugged and whatever
\* fails.
THEOREM HubTypes == Spec => []TypeOK
<1>1. HubInv => TypeOK
  BY DEF HubInv
<1> QED
  BY <1>1, HubInvHolds, PTL

\* usbh_enumerate and usbh_hubport_release together never let two connected
\* ports share an address, and never free an address that is in use.
THEOREM HubAddressesUnique == Spec => []AddressesUnique
<1>1. HubInv => AddressesUnique
  BY DEF HubInv
<1> QED
  BY <1>1, HubInvHolds, PTL

\* Whatever way a hub goes, its ports, its pipe and its timer go with it, and
\* no class instance outlives the connection of its port.
THEOREM HubNoOrphans == Spec => []NoOrphans
<1>1. HubInv => NoOrphans
  BY DEF HubInv
<1> QED
  BY <1>1, HubInvHolds, PTL

-----------------------------------------------------------------------------
(* What a step does, seen from the wire.                                   *)
(*                                                                         *)
(* Every step is of one of the kinds below.  No transfer fails without a   *)
(* reason when only the interrupt pipe may (Sound), and then a kind says   *)
(* what the thread found out.                                              *)

Sound == Faults \subseteq {"poll"}
Asking == {"enable", "descriptor", "address"}
Using  == {"config", "class", "power"}

\* The devices, their addresses and the ports stay; the thread moves between
\* the steps that ask no device anything, or counts in the debounce loop.
Quiet ==
    /\ h'.port = h.port /\ h'.slot.connected = h.slot.connected
    /\ wire'.ans = wire.ans
    /\ \A p \in Port : wire'.plug[p] = "none" => wire.plug[p] = "none"
    /\ \/ th' = th
       \/ /\ th.pc \notin Asking \cup Using \cup {"exit"}
          /\ th'.pc \in {"recv", "scan", "clear", "reset"}
       \/ /\ th'.pc = "debounce" /\ th'.p = th.p /\ th.pc \in {"clear", "debounce"}
          /\ \/ th'.stable = 0 \/ th'.connection \/ wire.plug[th.p] = "none"
             \/ /\ th'.stable = th.stable /\ th'.connection = th.connection
                /\ th.pc = "debounce"

\* The thread leaves a device without an address behind.
GivesUp ==
    /\ UNCHANGED <<h, wire>> /\ th'.pc = "scan" /\ th.pc \in {"enable", "descriptor"}
    /\ Sound /\ th.pc = "enable" => ~HubAnswers(th.p)
    /\ th.pc = "descriptor" => Allocated(h) = 0

\* A port is released: it was found empty, its device does not answer, or
\* the thread ends.
LetsGo ==
    /\ UNCHANGED wire
    /\ \E p \in Port :
         /\ h'.port = Released(h, p).port /\ h'.slot = Released(h, p).slot
         /\ \/ th'.pc = "exit" /\ p = Root
            \/ /\ th'.pc = "scan" /\ p = th.p
               /\ th.pc = "debounce" => th.stable > 0 /\ ~th.connection
               /\ th.pc = "enable" => wire.ans[p] = Gone
               /\ Sound /\ th.pc \in {"descriptor", "address"} => wire.ans[p] # 0
               /\ Sound /\ th.pc \in {"config", "class"} => wire.ans[p] # th.addr
               /\ Sound /\ th.pc = "power" => wire.ans[Root] # h.port[Root].addr
               /\ th.pc \in {"debounce", "power"} \cup Asking \cup Using

\* A port is reset, with a device or without.
ResetsPort ==
    /\ UNCHANGED h /\ th.pc = "reset" /\ th'.p = th.p
    /\ wire'.plug = wire.plug
    /\ th'.pc \in {"enable", "scan"} /\ (Sound => th'.pc = "enable")
    /\ Sound /\ th.p # Root => wire.ans[Root] = h.port[Root].addr
    /\ \/ /\ wire.plug[th.p] # "none"
          /\ \A q \in Port : wire'.ans[q] = IF q = th.p THEN 0 ELSE IF th.p = Root THEN Gone
                                            ELSE wire.ans[q]
       \/ wire.plug[th.p] = "none" /\ wire'.ans = wire.ans

\* The device of a reset port takes the place of the old one.
Replaces ==
    /\ UNCHANGED wire /\ th.pc = "enable" /\ th'.pc = "descriptor" /\ th'.p = th.p
    /\ wire.ans[th.p] # Gone
    /\ h'.slot = Released(h, th.p).slot
    /\ h'.port[th.p] = [NoPort EXCEPT !.connected = TRUE]
    /\ \A q \in Port \ {th.p} : h'.port[q] = Released(h, th.p).port[q]

\* An address is found for it ...
Numbers ==
    /\ UNCHANGED wire /\ th.pc = "descriptor" /\ th'.pc = "address" /\ th'.p = th.p
    /\ th'.addr \in 2 .. Max
    /\ h'.port = h.port /\ h'.slot = h.slot

\* ... and set.
Names ==
    /\ th.pc = "address" /\ th'.pc = "config" /\ th'.p = th.p /\ th'.addr = th.addr
    /\ wire'.plug = wire.plug
    /\ \A q \in Port : wire'.ans[q] = IF wire.ans[q] = 0 THEN th.addr ELSE wire.ans[q]
    /\ wire.ans[th.p] = 0
    /\ h'.port[th.p].addr = th.addr /\ h'.port[th.p].connected = h.port[th.p].connected
    /\ \A q \in Port \ {th.p} : h'.port[q] = h.port[q]
    /\ h'.slot = h.slot

\* The enumeration goes on, or ends with an instance of the class.
GoesOn ==
    /\ UNCHANGED wire /\ th.pc \in {"config", "class"} /\ th'.pc \in {"class", "power", "scan"}
    /\ th'.p = th.p /\ th'.addr = th.addr
    /\ \A q \in Port : h'.port[q].connected = h.port[q].connected
                       /\ h'.port[q].addr = h.port[q].addr
    /\ h'.slot.connected => h.slot.connected

\* The ports of a hub have power.
Powers ==
    /\ th.pc = "power" /\ th'.pc = "scan" /\ th.p = Root
    /\ wire'.ans = wire.ans /\ wire'.plug = wire.plug
    /\ h'.port[Root] = h.port[Root] /\ h'.slot.timer = "running"

\* A device is pulled, and with a hub what is behind it.
Pulls ==
    /\ h'.port = h.port /\ h'.slot = h.slot /\ th' = th /\ th.pc # "exit"
    /\ \E p \in Port :
         LET gone == IF p = Root THEN Port ELSE {p}
         IN  \A q \in Port :
               /\ wire'.ans[q] = IF q \in gone THEN Gone ELSE wire.ans[q]
               /\ wire'.plug[q] = IF q \in gone THEN "none" ELSE wire.plug[q]

Kind == \/ Quiet \/ GivesUp \/ LetsGo \/ ResetsPort \/ Replaces \/ Numbers
        \/ Names \/ GoesOn \/ Powers \/ Pulls

\* A step that may fail fails for a reason, unless it is one of Faults.
LEMMA Reasons ==
    ASSUME NEW step, NEW good \in BOOLEAN, NEW ok \in Outcomes(step, good)
    PROVE  /\ ok \in BOOLEAN /\ (ok => good)
           /\ Sound /\ step # "poll" => ok = good
  BY DEF Outcomes, Sound

\* The messages, the scan and the timer.
LEMMA QuietKinds ==
    ASSUME HubInv, Recv \/ Scan \/ ScanEnds \/ Clear \/ Unsettled \/ TimerFires \/ IntCompletes
                   \/ Deinit \/ UNCHANGED vars
    PROVE  Quiet
<1>t. h \in Tables /\ th \in Threads /\ wire \in Wires /\ h.slot \in SlotRec
  BY Parts DEF Tables
<1>1. CASE Recv
  <2>1. h'.port = h.port /\ h'.slot = h.slot /\ UNCHANGED wire /\ th.pc = "recv"
    BY <1>1, <1>t DEF Recv, Tables, At
  <2>2. th' = th \/ th'.pc = "scan"
    BY <1>1, <1>t DEF Recv, Threads
  <2> QED
    BY <2>1, <2>2 DEF Quiet, Asking, Using
<1>2. CASE Scan
  <2>1. UNCHANGED <<h, wire>> /\ th.pc = "scan"
    BY <1>2 DEF Scan, At
  <2>2. th'.pc \in {"scan", "clear"}
    BY <1>2, <1>t DEF Scan, Threads
  <2> QED
    BY <2>1, <2>2 DEF Quiet, Asking, Using
<1>3. CASE ScanEnds
  <2>1. UNCHANGED wire /\ th.pc = "scan" /\ th'.pc = "recv"
    BY <1>3, <1>t DEF ScanEnds, At, Goto, Threads
  <2>2. h'.port = h.port /\ h'.slot.connected = h.slot.connected
    BY <1>3, <1>t DEF ScanEnds, Tables, SlotRec
  <2> QED
    BY <2>1, <2>2 DEF Quiet, Asking, Using
<1>4. CASE Clear
  <2>1. UNCHANGED h /\ wire'.ans = wire.ans /\ wire'.plug = wire.plug
    BY <1>4, <1>t DEF Clear, Wires
  <2>2. th.pc = "clear" /\ th'.pc = "debounce" /\ th'.p = th.p /\ th'.stable = 0
    BY <1>4, <1>t DEF Clear, At, Threads
  <2> QED
    BY <2>1, <2>2 DEF Quiet
<1>5. CASE Unsettled
  <2>1. UNCHANGED <<h, wire>> /\ th.pc = "debounce" /\ th'.pc = "scan"
    BY <1>5, <1>t DEF Unsettled, At, Threads
  <2> QED
    BY <2>1 DEF Quiet, Asking, Using
<1>6. CASE TimerFires
  <2>1. UNCHANGED <<wire, th>>
    BY <1>6 DEF TimerFires
  <2>2. h'.port = h.port /\ h'.slot.connected = h.slot.connected
    BY <1>6, <1>t DEF TimerFires, Tables, SlotRec
  <2> QED
    BY <2>1, <2>2 DEF Quiet
<1>7. CASE IntCompletes
  <2>1. UNCHANGED <<wire, th>>
    BY <1>7 DEF IntCompletes
  <2> DEFINE idle == [h EXCEPT !.slot.urb = "idle"]
             changed == {c \in Child : wire.csc[c]}
             told == [idle EXCEPT !.intbuf = changed]
  <2>2. h' = idle \/ h' = IntNak(idle) \/ h' = Woken(told, "hub")
    BY <1>7 DEF IntCompletes
  <2>3. /\ idle.port = h.port /\ idle.slot.connected = h.slot.connected
        /\ told.port = h.port /\ told.slot.connected = h.slot.connected
        /\ told \in Tables /\ Len(told.mq) <= QLen
        /\ IntNak(idle).port = h.port /\ IntNak(idle).slot.connected = h.slot.connected
    BY <1>t, Parts DEF Tables, SlotRec, IntNak
  <2>4. Woken(told, "hub").port = h.port
        /\ Woken(told, "hub").slot.connected = h.slot.connected
    <3> HIDE DEF told
    <3> QED
      BY <2>3, WokenTypes DEF Tables
  <2>5. h'.port = h.port /\ h'.slot.connected = h.slot.connected
    <3> HIDE DEF told, idle
    <3> QED
      BY <2>2, <2>3, <2>4
  <2> QED
    BY <2>1, <2>5 DEF Quiet
<1>8. CASE Deinit
  <2>1. UNCHANGED <<wire, th>> /\ h'.port = h.port /\ h'.slot = h.slot
    BY <1>8, <1>t, DeinitSends DEF Tables
  <2> QED
    BY <2>1 DEF Quiet
<1>9. CASE UNCHANGED vars
  BY <1>9 DEF vars, Quiet
<1> QED
  BY <1>1, <1>2, <1>3, <1>4, <1>5, <1>6, <1>7, <1>8, <1>9

\* The debounce loop.
LEMMA DebounceKinds == HubInv /\ Debounce => Quiet
<1> SUFFICES ASSUME HubInv, Debounce PROVE Quiet
  OBVIOUS
<1>t. th \in Threads /\ wire \in Wires /\ th.pc = "debounce" /\ UNCHANGED h
  BY Parts DEF Debounce, At
<1>1. PICK ok \in Outcomes("status", HubAnswers(th.p)) :
        LET now == wire.plug[th.p] # "none"
            still == ~wire.csc[th.p] /\ now = th.connection
        IN  IF ~ok THEN /\ th' = [th EXCEPT !.reads = @ + 1] /\ UNCHANGED wire
            ELSE /\ th' = [th EXCEPT !.reads = @ + 1,
                             !.stable = IF still THEN @ + 1 ELSE 0,
                             !.connection = now]
                 /\ wire' = [wire EXCEPT !.csc[th.p] = FALSE]
  BY DEF Debounce
<1>2. wire'.ans = wire.ans /\ wire'.plug = wire.plug
  BY <1>1, <1>t DEF Wires
<1>3. th'.pc = "debounce" /\ th'.p = th.p
  BY <1>1, <1>t DEF Threads
<1>4. \/ th'.connection \/ wire.plug[th.p] = "none"
      \/ th'.stable = th.stable /\ th'.connection = th.connection
  <2>1. CASE ~ok
    BY <1>1, <2>1, <1>t DEF Threads
  <2>2. CASE ok
    <3>1. th'.connection = (wire.plug[th.p] # "none")
      BY <1>1, <2>2, <1>t DEF Threads
    <3> QED
      BY <3>1
  <2> QED
    BY <2>1, <2>2
<1> QED
  BY <1>t, <1>2, <1>3, <1>4 DEF Quiet

\* The end of the debounce loop.
LEMMA SettledKinds == HubInv /\ Settled => Quiet \/ LetsGo
<1> SUFFICES ASSUME HubInv, Settled PROVE Quiet \/ LetsGo
  OBVIOUS
<1>t. /\ th \in Threads /\ th.p \in Port /\ th.pc = "debounce" /\ UNCHANGED wire
      /\ th.stable > 0
  BY Parts, HubAssumption DEF Settled, At, Threads, HubAssumption
<1>1. CASE th.connection
  <2>1. UNCHANGED h /\ th'.pc = "reset"
    BY <1>1, <1>t DEF Settled, Goto, Threads
  <2> QED
    BY <2>1, <1>t DEF Quiet, Asking, Using
<1>2. CASE ~th.connection
  <2>1. h' = Released(h, th.p) /\ th'.pc = "scan"
    BY <1>2, <1>t DEF Settled, Goto, Threads
  <2> QED
    BY <2>1, <1>2, <1>t DEF LetsGo
<1> QED
  BY <1>1, <1>2

\* NULL.
LEMMA ExitKinds == HubInv /\ Exit => LetsGo
<1> SUFFICES ASSUME HubInv, Exit PROVE LetsGo
  OBVIOUS
<1> DEFINE g == Released(h, Root)
<1>t. th \in Threads /\ TablesInv /\ UNCHANGED wire /\ th'.pc = "exit"
  BY Parts DEF Exit, Goto, Threads
<1>1. h' = [g EXCEPT !.mq = <<>>]
  BY DEF Exit
<1>2. g \in Tables
  BY <1>t, ReleasedFacts, PortSet
<1>3. h'.port = g.port /\ h'.slot = g.slot
  <2> HIDE DEF g
  <2> QED
    BY <1>1, <1>2 DEF Tables
<1> QED
  BY <1>3, <1>t, PortSet DEF LetsGo

\* The reset of a port.
LEMMA ResetKinds == HubInv /\ Reset => Quiet \/ ResetsPort
<1> SUFFICES ASSUME HubInv, Reset PROVE Quiet \/ ResetsPort
  OBVIOUS
<1> DEFINE p == th.p
           there == wire.plug[p] # "none"
           can == IF p = Root THEN there ELSE HubAnswers(p)
           ans == [q \in Port |-> IF q = p THEN 0 ELSE IF p = Root THEN Gone ELSE wire.ans[q]]
           csc == [q \in Port |-> wire.csc[q] /\ (p # Root \/ q = Root)]
<1>t. th \in Threads /\ wire \in Wires /\ h \in Tables /\ p \in Port /\ th.pc = "reset" /\ UNCHANGED h
  BY Parts DEF Reset, At, Threads
<1>0. can \in BOOLEAN
  BY <1>t DEF HubAnswers, Answers
<1>1. PICK ok \in Outcomes("reset", can) :
        /\ Goto(IF ok THEN "enable" ELSE "scan")
        /\ wire' = IF ~can \/ ~there THEN wire
                   ELSE [wire EXCEPT !.ans = ans, !.powered = wire.powered /\ p # Root,
                                     !.csc = csc]
  BY DEF Reset
<1>2. ok \in BOOLEAN /\ (ok => can) /\ (Sound => ok = can)
  <2> HIDE DEF can
  <2> QED
    BY <1>0, Reasons
<1>3. th'.pc = (IF ok THEN "enable" ELSE "scan") /\ th'.p = p
  BY <1>1, <1>t DEF Goto, Threads
<1>4. CASE ~can
  BY <1>1, <1>2, <1>3, <1>4, <1>t DEF Quiet, Asking, Using
<1>5. CASE can
  <2>1. th.p # Root => wire.ans[Root] = h.port[Root].addr
    BY <1>5 DEF HubAnswers, Answers
  <2>2. \/ there /\ wire'.ans = ans /\ wire'.plug = wire.plug
        \/ ~there /\ wire' = wire
    <3> HIDE DEF ans, csc
    <3> QED
      BY <1>1, <1>5, <1>t DEF Wires
  <2> QED
    BY <1>2, <1>3, <1>5, <1>t, <2>1, <2>2 DEF ResetsPort
<1> QED
  BY <1>4, <1>5

\* The status after the reset.
LEMMA EnabledKinds == HubInv /\ Enabled => GivesUp \/ LetsGo \/ Replaces
<1> SUFFICES ASSUME HubInv, Enabled PROVE GivesUp \/ LetsGo \/ Replaces
  OBVIOUS
<1> DEFINE p == th.p
           new == [NoPort EXCEPT !.connected = TRUE]
           g == Released(h, p)
<1>t. /\ th \in Threads /\ TablesInv /\ p \in Port /\ th.pc = "enable" /\ UNCHANGED wire
      /\ HubAnswers(p) \in BOOLEAN
  BY Parts DEF Enabled, At, Threads, HubAnswers, Answers
<1>1. PICK ok \in Outcomes("status", HubAnswers(p)) :
        \/ ~ok /\ Goto("scan") /\ UNCHANGED h
        \/ ok /\ wire.ans[p] = Gone /\ h' = g /\ Goto("scan")
        \/ ok /\ wire.ans[p] # Gone /\ Goto("descriptor") /\ h' = [g EXCEPT !.port[p] = new]
  BY DEF Enabled
<1>2. ok \in BOOLEAN /\ (Sound => ok = HubAnswers(p))
  BY <1>t, Reasons
<1>3. \A pc : Goto(pc) => th'.pc = pc /\ th'.p = p
  BY <1>t DEF Goto, Threads
<1>4. CASE ~ok /\ Goto("scan") /\ UNCHANGED h
  BY <1>2, <1>3, <1>4, <1>t DEF GivesUp
<1>5. CASE ok /\ wire.ans[p] = Gone /\ h' = g /\ Goto("scan")
  BY <1>3, <1>5, <1>t DEF LetsGo, Asking
<1>6. CASE ok /\ wire.ans[p] # Gone /\ Goto("descriptor") /\ h' = [g EXCEPT !.port[p] = new]
  <2>1. g \in Tables
    BY <1>t, ReleasedFacts
  <2>2. /\ h'.slot = g.slot /\ h'.port[p] = new
        /\ \A q \in Port \ {p} : h'.port[q] = g.port[q]
    <3> HIDE DEF g, new
    <3> QED
      BY <1>6, <2>1, <1>t DEF Tables
  <2> QED
    BY <2>2, <1>3, <1>6, <1>t DEF Replaces
<1> QED
  BY <1>1, <1>4, <1>5, <1>6

\* A failure lets the port go.
LEMMA FailKinds ==
    ASSUME HubInv, NEW p \in Port, p = th.p, Fail(p), UNCHANGED wire,
           th.pc \in {"descriptor", "address", "config", "class", "power"},
           Sound /\ th.pc \in {"descriptor", "address"} => wire.ans[p] # 0,
           Sound /\ th.pc \in {"config", "class"} => wire.ans[p] # th.addr,
           Sound /\ th.pc = "power" => wire.ans[Root] # h.port[Root].addr
    PROVE  LetsGo
<1>1. th \in Threads
  BY Parts
<1>2. th'.pc = "scan" /\ h' = Released(h, p)
  BY <1>1 DEF Fail, Goto, Threads
<1> QED
  BY <1>2 DEF LetsGo, Asking, Using

\* The first descriptor.
LEMMA DescriptorKinds == HubInv /\ Descriptor => GivesUp \/ LetsGo \/ Numbers
<1> SUFFICES ASSUME HubInv, Descriptor PROVE GivesUp \/ LetsGo \/ Numbers
  OBVIOUS
<1> DEFINE p == th.p
           a == Allocated(h)
<1>t. /\ h \in Tables /\ th \in Threads /\ p \in Port /\ th.pc = "descriptor" /\ UNCHANGED wire
      /\ Answers(p, 0) \in BOOLEAN
  BY Parts DEF Descriptor, At, Threads, Answers
<1>1. PICK ok \in Outcomes("descriptor", Answers(p, 0)) :
        \/ ~ok /\ Fail(p)
        \/ ok /\ a = 0 /\ Goto("scan") /\ UNCHANGED h
        \/ /\ ok /\ a # 0
           /\ h' = [h EXCEPT !.used = @ \cup {a}, !.last = a]
           /\ th' = [th EXCEPT !.pc = "address", !.addr = a]
  BY DEF Descriptor
<1>2. ok \in BOOLEAN /\ (Sound => ok = Answers(p, 0))
  BY <1>t, Reasons
<1>3. CASE ~ok /\ Fail(p)
  BY <1>2, <1>3, <1>t, FailKinds DEF Answers
<1>4. CASE a = 0 /\ Goto("scan") /\ UNCHANGED h
  BY <1>4, <1>t DEF GivesUp, Goto, Threads
<1>5. CASE /\ a # 0
           /\ h' = [h EXCEPT !.used = @ \cup {a}, !.last = a]
           /\ th' = [th EXCEPT !.pc = "address", !.addr = a]
  <2>1. a \in 2 .. Max
    BY <1>5, <1>t, AllocatedFree
  <2> HIDE DEF a
  <2>2. /\ th'.pc = "address" /\ th'.p = p /\ th'.addr = a
        /\ h'.port = h.port /\ h'.slot = h.slot
    BY <1>5, <1>t DEF Threads, Tables
  <2> QED
    BY <2>1, <2>2, <1>t DEF Numbers
<1> QED
  BY <1>1, <1>3, <1>4, <1>5

\* SET_ADDRESS.
LEMMA SetAddressKinds == HubInv /\ SetAddress => LetsGo \/ Names
<1> SUFFICES ASSUME HubInv, SetAddress PROVE LetsGo \/ Names
  OBVIOUS
<1> DEFINE p == th.p
           ans == [q \in Port |-> IF wire.ans[q] = 0 THEN th.addr ELSE wire.ans[q]]
<1>t. /\ h \in Tables /\ th \in Threads /\ wire \in Wires /\ p \in Port /\ th.pc = "address"
      /\ Answers(p, 0) \in BOOLEAN
  BY Parts DEF SetAddress, At, Threads, Answers
<1>1. PICK ok \in Outcomes("address", Answers(p, 0)) :
        \/ ~ok /\ Fail(p) /\ UNCHANGED wire
        \/ /\ ok /\ Goto("config")
           /\ h' = [h EXCEPT !.port[p].addr = th.addr]
           /\ wire' = [wire EXCEPT !.ans = ans]
  BY DEF SetAddress
<1>2. ok \in BOOLEAN /\ (ok => Answers(p, 0)) /\ (Sound => ok = Answers(p, 0))
  BY <1>t, Reasons
<1>3. CASE ~ok /\ Fail(p) /\ UNCHANGED wire
  BY <1>2, <1>3, <1>t, FailKinds DEF Answers
<1>4. CASE /\ ok /\ Goto("config")
           /\ h' = [h EXCEPT !.port[p].addr = th.addr]
           /\ wire' = [wire EXCEPT !.ans = ans]
  <2>1. wire.ans[p] = 0
    BY <1>2, <1>4 DEF Answers
  <2>2. th'.pc = "config" /\ th'.p = p /\ th'.addr = th.addr
    BY <1>4, <1>t DEF Goto, Threads
  <2>3. /\ h'.port[p].addr = th.addr /\ h'.port[p].connected = h.port[p].connected
        /\ \A q \in Port \ {p} : h'.port[q] = h.port[q]
        /\ h'.slot = h.slot
    BY <1>4, <1>t DEF Tables, PortRec
  <2>4. wire'.plug = wire.plug /\ wire'.ans = ans
    <3> HIDE DEF ans
    <3> QED
      BY <1>4, <1>t DEF Wires
  <2> QED
    BY <2>1, <2>2, <2>3, <2>4, <1>t DEF Names
<1> QED
  BY <1>1, <1>3, <1>4

\* The configuration and the class.
LEMMA ClassKinds ==
    HubInv /\ (Configure \/ ClassConnect \/ HubConnect) => LetsGo \/ GoesOn
<1> SUFFICES ASSUME HubInv, Configure \/ ClassConnect \/ HubConnect PROVE LetsGo \/ GoesOn
  OBVIOUS
<1> DEFINE p == th.p
<1>t. /\ h \in Tables /\ th \in Threads /\ p \in Port /\ UNCHANGED wire
      /\ Answers(p, th.addr) \in BOOLEAN
  BY Parts DEF Configure, ClassConnect, HubConnect, Threads, Answers
<1>1. \A pc : Goto(pc) => th'.pc = pc /\ th'.p = p /\ th'.addr = th.addr
  BY <1>t DEF Goto, Threads
<1>2. CASE Configure
  <2>1. PICK ok \in Outcomes("config", Answers(p, th.addr)) :
          IF ok THEN Goto("class") /\ UNCHANGED h ELSE Fail(p)
    BY <1>2 DEF Configure
  <2>2. ok \in BOOLEAN /\ (Sound => ok = Answers(p, th.addr)) /\ th.pc = "config"
    BY <1>2, <1>t, Reasons DEF Configure, At
  <2>3. CASE ok
    BY <2>1, <2>2, <2>3, <1>1, <1>t DEF GoesOn
  <2>4. CASE ~ok
    BY <2>1, <2>2, <2>4, <1>t, FailKinds DEF Answers
  <2> QED
    BY <2>3, <2>4
<1>3. CASE ClassConnect
  <2>1. PICK ok \in Outcomes("class", Answers(p, th.addr)) :
          IF ok THEN h' = [h EXCEPT !.port[p].inst = TRUE] /\ Goto("scan") ELSE Fail(p)
    BY <1>3 DEF ClassConnect
  <2>2. ok \in BOOLEAN /\ (Sound => ok = Answers(p, th.addr)) /\ th.pc = "class"
    BY <1>3, <1>t, Reasons DEF ClassConnect, At
  <2>3. CASE ok
    <3>1. /\ \A q \in Port : h'.port[q].connected = h.port[q].connected
                             /\ h'.port[q].addr = h.port[q].addr
          /\ h'.slot = h.slot
      BY <2>1, <2>3, <1>t DEF Tables, PortRec
    <3> QED
      BY <3>1, <2>1, <2>2, <2>3, <1>1, <1>t DEF GoesOn
  <2>4. CASE ~ok
    BY <2>1, <2>2, <2>4, <1>t, FailKinds DEF Answers
  <2> QED
    BY <2>3, <2>4
<1>4. CASE HubConnect
  <2>1. h' = [h EXCEPT !.port[p].inst = TRUE, !.slot = [NoSlot EXCEPT !.inuse = TRUE]]
        /\ th.pc = "class" /\ Goto("power")
    BY <1>4 DEF HubConnect, At
  <2>2. /\ \A q \in Port : h'.port[q].connected = h.port[q].connected
                           /\ h'.port[q].addr = h.port[q].addr
        /\ ~h'.slot.connected
    BY <2>1, <1>t DEF Tables, PortRec, NoSlot
  <2> QED
    BY <2>1, <2>2, <1>1, <1>t DEF GoesOn
<1> QED
  BY <1>2, <1>3, <1>4

\* The power of the ports.
LEMMA PowerKinds == HubInv /\ HubPower => LetsGo \/ Powers
<1> SUFFICES ASSUME HubInv, HubPower PROVE LetsGo \/ Powers
  OBVIOUS
<1> DEFINE c == CHOOSE c \in Child : TRUE
           port == [p \in Port |-> IF p = Root THEN h.port[p] ELSE NoPort]
           csc == [p \in Port |-> IF p = Root THEN wire.csc[p] ELSE wire.plug[p] # "none"]
<1>t. /\ h \in Tables /\ th \in Threads /\ wire \in Wires /\ th.pc = "power" /\ th.p = Root
      /\ h.slot \in SlotRec /\ HubAnswers(c) \in BOOLEAN /\ Root \in Port
      /\ h.port[Root].connected
  BY Parts, PortSet DEF HubPower, At, HubInv, Filling, NoOrphans, HubAnswers, Answers, Tables
<1>1. PICK ok \in Outcomes("power", HubAnswers(c)) :
        \/ ~ok /\ Fail(Root) /\ UNCHANGED wire
        \/ /\ ok /\ Goto("scan")
           /\ h' = [h EXCEPT !.slot.connected = TRUE, !.slot.timer = "running", !.port = port]
           /\ wire' = [wire EXCEPT !.powered = TRUE, !.csc = csc]
  BY DEF HubPower
<1>2. ok \in BOOLEAN /\ (Sound => ok = HubAnswers(c))
  <2> HIDE DEF c
  <2> QED
    BY <1>t, Reasons
<1>3. CASE ~ok /\ Fail(Root) /\ UNCHANGED wire
  <2>1. Sound => wire.ans[Root] # h.port[Root].addr
    BY <1>2, <1>3, <1>t DEF HubAnswers, Answers
  <2> QED
    BY <2>1, <1>3, <1>t, FailKinds
<1>4. CASE /\ ok /\ Goto("scan")
           /\ h' = [h EXCEPT !.slot.connected = TRUE, !.slot.timer = "running", !.port = port]
           /\ wire' = [wire EXCEPT !.powered = TRUE, !.csc = csc]
  <2>1. th'.pc = "scan"
    BY <1>4, <1>t DEF Goto, Threads
  <2>2. h'.port = port /\ h'.slot.timer = "running"
    <3> HIDE DEF port
    <3> QED
      BY <1>4, <1>t DEF Tables, SlotRec
  <2>3. wire'.ans = wire.ans /\ wire'.plug = wire.plug
    <3> HIDE DEF csc
    <3> QED
      BY <1>4, <1>t DEF Wires
  <2> QED
    BY <2>1, <2>2, <2>3, <1>t DEF Powers
<1> QED
  BY <1>1, <1>3, <1>4

\* The wire.
LEMMA WireKinds ==
    ASSUME HubInv, NEW p \in Port, NEW kind \in {"func", "hub"}, Plug(p, kind) \/ Unplug(p)
    PROVE  Quiet \/ Pulls
<1>t. h \in Tables /\ wire \in Wires /\ Len(h.mq) <= QLen /\ UNCHANGED th
  BY Parts DEF Plug, Unplug
<1>1. h'.port = h.port /\ h'.slot = h.slot
  <2>1. h' = h \/ h' = Woken(h, "root")
    BY DEF Plug, Unplug, PortIrq
  <2> QED
    BY <2>1, <1>t, WokenTypes DEF Tables
<1>2. CASE Plug(p, kind)
  <2>1. wire'.ans = wire.ans /\ wire'.plug = [wire.plug EXCEPT ![p] = kind]
    BY <1>2, <1>t DEF Plug, Wires
  <2> QED
    BY <2>1, <1>1, <1>t DEF Quiet, Wires
<1>3. CASE Unplug(p)
  <2>1. LET gone == IF p = Root THEN Port ELSE {p}
        IN  /\ wire'.ans = [q \in Port |-> IF q \in gone THEN Gone ELSE wire.ans[q]]
            /\ wire'.plug = [q \in Port |-> IF q \in gone THEN "none" ELSE wire.plug[q]]
    BY <1>3 DEF Unplug
  <2>2. th.pc # "exit"
    BY <1>3 DEF Unplug, CanMove, At
  <2> QED
    BY <2>1, <2>2, <1>1, <1>t DEF Pulls
<1> QED
  BY <1>2, <1>3

\* So every step is of a kind.
LEMMA StepKinds == HubInv /\ [Next]_vars => Kind
<1> SUFFICES ASSUME HubInv, [Next]_vars PROVE Kind
  OBVIOUS
<1>1. CASE Thread
  BY <1>1, QuietKinds, DebounceKinds, SettledKinds, ExitKinds, ResetKinds, EnabledKinds,
     DescriptorKinds, SetAddressKinds, ClassKinds, PowerKinds DEF Thread, Kind
<1>2. CASE TimerFires \/ IntCompletes \/ Deinit \/ UNCHANGED vars
  BY <1>2, QuietKinds DEF Kind
<1>3. ASSUME NEW p \in Port, NEW kind \in {"func", "hub"}, Plug(p, kind) \/ Unplug(p) PROVE Kind
  BY <1>3, WireKinds DEF Kind
<1> QED
  BY <1>1, <1>2, <1>3 DEF Next

-----------------------------------------------------------------------------
(* The addresses on the wire.                                              *)

\* An empty port answers to nothing; the thread remembers the address of the
\* device it asks, and a registered hub has one.
Known ==
    /\ \A p \in Port : wire.plug[p] = "none" => wire.ans[p] = Gone
    /\ th.pc = "address" => th.addr # 0
    /\ th.pc \in Using => th.addr # 0 /\ h.port[th.p].addr = th.addr
    /\ h.slot.connected => h.port[Root].addr # 0

\* Nothing is plugged in at the start.
LEMMA InitKnown == Init => Known
  BY DEF Init, Known, Using, NoSlot

\* Known is inductive, whatever fails.
LEMMA KnownStep == HubInv /\ Known /\ HubInv' /\ [Next]_vars => Known'
<1> SUFFICES ASSUME HubInv, Known, HubInv', Kind PROVE Known'
  BY StepKinds
<1> USE PortSet
<1>t. /\ h \in Tables /\ th \in Threads /\ wire \in Wires /\ th.p \in Port /\ TablesInv
      /\ \A p \in Port : h.port[p].addr \in Nat
  BY Parts DEF Threads, Tables, PortRec
<1>1. CASE Quiet
  BY <1>1 DEF Quiet, Known, Using, Asking
<1>2. CASE GivesUp
  BY <1>2 DEF GivesUp, Known, Using
<1>3. CASE LetsGo
  <2>1. PICK p \in Port : /\ h'.port = Released(h, p).port /\ h'.slot = Released(h, p).slot
                          /\ th'.pc \in {"exit", "scan"}
    BY <1>3 DEF LetsGo
  <2>2. /\ p # Root => h'.slot = h.slot /\ h'.port[Root] = h.port[Root]
        /\ p = Root => h'.slot = NoSlot
    BY <2>1, <1>t, ReleasedFacts
  <2> QED
    BY <2>1, <2>2, <1>3 DEF LetsGo, Known, Using, NoSlot
<1>4. CASE ResetsPort
  BY <1>4, <1>t DEF ResetsPort, Known, Using
<1>5. CASE Replaces
  <2>1. /\ th.p # Root => h'.slot = h.slot /\ h'.port[Root] = h.port[Root]
        /\ th.p = Root => h'.slot = NoSlot
    BY <1>5, <1>t, ReleasedFacts DEF Replaces
  <2> QED
    BY <2>1, <1>5 DEF Replaces, Known, Using, NoSlot
<1>6. CASE Numbers
  BY <1>6, AddressRange DEF Numbers, Known, Using
<1>7. CASE Names
  <2>1. th.addr # 0 /\ h'.port[th.p].addr = th.addr
    BY <1>7 DEF Names, Known
  <2>2. \A p \in Port : wire.ans[p] = Gone => wire'.ans[p] = Gone
    BY <1>7 DEF Names, Gone
  <2>3. h'.slot.connected => h'.port[Root].addr # 0
    BY <1>7, <2>1 DEF Names, Known
  <2> QED
    BY <2>1, <2>2, <2>3, <1>7 DEF Names, Known
<1>8. CASE GoesOn
  <2>1. th'.pc \in Using => th.pc \in Using
    BY <1>8 DEF GoesOn, Using
  <2> QED
    BY <2>1, <1>8, <1>t DEF GoesOn, Known, Using
<1>9. CASE Powers
  BY <1>9 DEF Powers, Known, Using
<1>10. CASE Pulls
  BY <1>10 DEF Pulls, Known
<1> QED
  BY <1>1, <1>2, <1>3, <1>4, <1>5, <1>6, <1>7, <1>8, <1>9, <1>10 DEF Kind

\* The wire agrees with the tables: a device with an address is connected
\* and has it in the table; only the thread's device has none; a hub that
\* cannot be asked has no devices behind it; and a thread that finds its
\* device silent or its port empty is right.
Agrees ==
    /\ \A p \in Port : wire.ans[p] \notin {Gone, 0} =>
          h.port[p].connected /\ wire.ans[p] = h.port[p].addr
    /\ \A p \in Port : wire.ans[p] = 0 => p = th.p /\ th.pc \in Asking
    /\ wire.ans[Root] \in {Gone, 0} => \A c \in Child : wire.ans[c] = Gone
    /\ th.pc \in Asking => wire.ans[th.p] \in {0, Gone}
    /\ th.pc \in Using => wire.ans[th.p] \in {th.addr, Gone}
    /\ th.pc \in Asking \cup Using /\ th.p = Root => \A c \in Child : wire.ans[c] = Gone
    /\ th.pc = "debounce" /\ th.stable > 0 /\ ~th.connection => wire.ans[th.p] = Gone

\* Until the thread ends; from then on nothing moves on the wire.
OnWire == AnswersUnique /\ (th.pc # "exit" => Agrees)

\* Devices in agreement with the tables have addresses of their own.
LEMMA AgreesUnique == HubInv /\ Agrees => AnswersUnique
<1> SUFFICES ASSUME HubInv, Agrees,
                    NEW p \in Port, NEW q \in Port, p # q, wire.ans[p] # Gone,
                    wire.ans[p] = wire.ans[q]
             PROVE  FALSE
  BY DEF AnswersUnique
<1>1. CASE wire.ans[p] = 0
  BY <1>1 DEF Agrees
<1>2. CASE wire.ans[p] # 0
  BY <1>2 DEF Agrees, HubInv, AddressesUnique
<1> QED
  BY <1>1, <1>2

\* Nobody answers at the start.
LEMMA InitOnWire == Init => OnWire
  BY PortSet DEF Init, OnWire, Agrees, AnswersUnique, Asking, Using, Gone

\* The release of a port whose device is gone.
LEMMA LetsGoAgrees ==
    ASSUME HubInv, Known, Agrees, Sound, LetsGo, th'.pc # "exit"
    PROVE  Agrees'
<1> USE PortSet
<1>t. /\ h \in Tables /\ th \in Threads /\ wire \in Wires /\ TablesInv
      /\ \A q \in Port : h.port[q].addr \in Nat
  BY Parts DEF Tables, PortRec
<1>1. PICK p \in Port :
         /\ h'.port = Released(h, p).port
         /\ th'.pc = "scan" /\ p = th.p
         /\ th.pc = "debounce" => th.stable > 0 /\ ~th.connection
         /\ th.pc = "enable" => wire.ans[p] = Gone
         /\ th.pc \in {"descriptor", "address"} => wire.ans[p] # 0
         /\ th.pc \in {"config", "class"} => wire.ans[p] # th.addr
         /\ th.pc = "power" => wire.ans[Root] # h.port[Root].addr
         /\ th.pc \in {"debounce", "power"} \cup Asking \cup Using
  BY DEF LetsGo
<1>2. wire' = wire
  BY DEF LetsGo
<1>3. /\ p # Root => \A q \in Port \ {p} : h'.port[q] = h.port[q]
  BY <1>1, <1>t, ReleasedFacts
<1>4. wire.ans[p] = Gone
  <2>1. CASE th.pc = "debounce"
    BY <1>1, <2>1 DEF Agrees
  <2>2. CASE th.pc \in Asking
    BY <1>1, <2>2 DEF Agrees, Asking
  <2>3. CASE th.pc \in {"config", "class"}
    BY <1>1, <2>3 DEF Agrees, Using
  <2>4. CASE th.pc = "power"
    BY <1>1, <2>4 DEF Agrees, Using, HubInv, Filling, Known
  <2> QED
    BY <1>1, <2>1, <2>2, <2>3, <2>4 DEF Asking, Using
<1>5. \A q \in Port : wire.ans[q] # 0
  BY <1>1, <1>4 DEF Agrees, Gone
<1>6. ASSUME NEW q \in Port, wire.ans[q] # Gone
      PROVE  h'.port[q].connected /\ wire.ans[q] = h'.port[q].addr
  <2>1. q # p /\ p # Root
    BY <1>4, <1>6 DEF Agrees
  <2> QED
    BY <2>1, <1>3, <1>5, <1>6 DEF Agrees
<1> QED
  BY <1>1, <1>2, <1>5, <1>6 DEF Agrees, Asking, Using

\* The device of a port that is reset has no address, and those behind a
\* hub that is reset are gone.
LEMMA ResetsAgrees ==
    ASSUME HubInv, Known, Agrees, Sound, ResetsPort
    PROVE  Agrees'
<1> USE PortSet
<1>t. /\ h \in Tables /\ th \in Threads /\ th.p \in Port
      /\ \A q \in Port : h.port[q].addr \in Nat
  BY Parts DEF Tables, PortRec, Threads
<1>0. /\ th.pc = "reset" /\ th'.pc = "enable" /\ th'.p = th.p /\ h' = h
      /\ th.p # Root => wire.ans[Root] = h.port[Root].addr
  BY DEF ResetsPort
<1>1. \A q \in Port : wire.ans[q] # 0
  BY <1>0 DEF Agrees, Asking
<1>2. CASE wire.plug[th.p] = "none" /\ wire'.ans = wire.ans
  BY <1>0, <1>1, <1>2, <1>t DEF Agrees, Known, Asking, Using
<1>3. CASE \A q \in Port : wire'.ans[q] = IF q = th.p THEN 0 ELSE IF th.p = Root THEN Gone
                                          ELSE wire.ans[q]
  <2>1. \A q \in Port : wire'.ans[q] \notin {Gone, 0} =>
          h'.port[q].connected /\ wire'.ans[q] = h'.port[q].addr
    BY <1>0, <1>3 DEF Agrees
  <2>2. wire'.ans[Root] \in {Gone, 0} => th.p = Root
    BY <1>0, <1>1, <1>3, <1>t DEF Gone
  <2>3. th.p = Root => \A c \in Child : wire'.ans[c] = Gone
    BY <1>3
  <2>4. /\ \A q \in Port : wire'.ans[q] = 0 => q = th.p
        /\ wire'.ans[th.p] = 0
    BY <1>1, <1>3, <1>t DEF Gone
  <2> QED
    BY <1>0, <2>1, <2>2, <2>3, <2>4 DEF Agrees, Asking, Using
<1> QED
  BY <1>2, <1>3 DEF ResetsPort

\* The device of a reset port takes the place of one that is gone.
LEMMA ReplacesAgrees ==
    ASSUME HubInv, Known, Agrees, Replaces
    PROVE  Agrees'
<1> USE PortSet
<1>t. th \in Threads /\ th.p \in Port /\ TablesInv
  BY Parts DEF Threads
<1>0. /\ th.pc = "enable" /\ th'.pc = "descriptor" /\ th'.p = th.p /\ wire' = wire
      /\ wire.ans[th.p] = 0
  BY DEF Replaces, Agrees, Asking
<1>1. ASSUME NEW q \in Port, wire.ans[q] \notin {Gone, 0}
      PROVE  h'.port[q].connected /\ wire.ans[q] = h'.port[q].addr
  <2>1. q # th.p /\ th.p # Root
    BY <1>0, <1>1 DEF Agrees, Asking
  <2>2. h'.port[q] = h.port[q]
    BY <2>1, <1>t, ReleasedFacts DEF Replaces
  <2> QED
    BY <2>2, <1>1 DEF Agrees
<1> QED
  BY <1>0, <1>1 DEF Agrees, Asking, Using

\* The device that answers to 0 takes its address.
LEMMA NamesAgrees ==
    ASSUME HubInv, Known, Agrees, Names
    PROVE  Agrees'
<1> USE PortSet
<1>t. th \in Threads /\ th.p \in Port /\ th.addr \in Nat /\ th.addr # 0
      /\ h.port[th.p].connected
  BY Parts DEF Threads, Names, Known, HubInv, Filling
<1>0. /\ th.pc = "address" /\ th'.pc = "config" /\ th'.p = th.p /\ th'.addr = th.addr
      /\ \A q \in Port : wire'.ans[q] = IF q = th.p THEN th.addr ELSE wire.ans[q]
      /\ \A q \in Port \ {th.p} : h'.port[q] = h.port[q]
      /\ h'.port[th.p].addr = th.addr /\ h'.port[th.p].connected
  BY <1>t DEF Names, Agrees
<1>1. \A q \in Port : wire'.ans[q] # 0
  BY <1>0, <1>t DEF Agrees
<1>2. \A q \in Port : wire'.ans[q] # Gone =>
         h'.port[q].connected /\ wire'.ans[q] = h'.port[q].addr
  BY <1>0, <1>1 DEF Agrees
<1>3. wire'.ans[Root] = Gone => \A c \in Child : wire'.ans[c] = Gone
  <2> SUFFICES ASSUME wire'.ans[Root] = Gone, NEW c \in Child PROVE wire'.ans[c] = Gone
    OBVIOUS
  <2>1. th.p # Root /\ wire.ans[Root] = Gone
    BY <1>0, <1>t DEF Gone
  <2>2. wire.ans[th.p] = Gone
    BY <2>1, <1>t DEF Agrees
  <2> QED
    BY <2>2 DEF Names, Gone
<1>4. th.p = Root => \A c \in Child : wire'.ans[c] = Gone
  BY <1>0 DEF Agrees, Asking
<1> QED
  BY <1>t, <1>0, <1>1, <1>2, <1>3, <1>4 DEF Agrees, Asking, Using

\* Without failures and with an address for every device, the wire stays in
\* agreement with the tables.
LEMMA AgreesStep ==
    ASSUME HubInv, Known, Agrees, Sound, At("descriptor") => Allocated(h) # 0,
           Kind, th'.pc # "exit"
    PROVE  Agrees'
<1> USE PortSet
<1>t. /\ h \in Tables /\ th \in Threads /\ th.p \in Port
      /\ \A q \in Port : h.port[q].addr \in Nat
  BY Parts DEF Tables, PortRec, Threads
<1>1. CASE Quiet
  <2>1. h'.port = h.port /\ wire'.ans = wire.ans
    BY <1>1 DEF Quiet
  <2>2. CASE th' = th
    BY <2>1, <2>2 DEF Agrees
  <2>3. CASE th.pc \notin Asking \cup Using /\ th'.pc \in {"recv", "scan", "clear", "reset"}
    BY <2>1, <2>3 DEF Agrees, Asking, Using
  <2>4. CASE /\ th'.pc = "debounce" /\ th'.p = th.p /\ th.pc \in {"clear", "debounce"}
             /\ \/ th'.stable = 0 \/ th'.connection \/ wire.plug[th.p] = "none"
                \/ /\ th'.stable = th.stable /\ th'.connection = th.connection
                   /\ th.pc = "debounce"
    <3>1. th'.stable > 0 /\ ~th'.connection => wire.ans[th.p] = Gone
      BY <2>4, <1>t DEF Agrees, Known
    <3> QED
      BY <2>1, <2>4, <3>1 DEF Agrees, Asking, Using
  <2> QED
    BY <1>1, <2>2, <2>3, <2>4 DEF Quiet
<1>2. CASE GivesUp
  <2>1. /\ h' = h /\ wire' = wire /\ th'.pc = "scan" /\ th.pc = "enable" /\ ~HubAnswers(th.p)
    BY <1>2 DEF GivesUp, At
  <2>2. th.p # Root /\ (wire.ans[Root] \in {Gone, 0} \/ wire.ans[th.p] = Gone)
    BY <2>1, <1>t DEF HubAnswers, Answers, Agrees
  <2>3. wire.ans[th.p] = Gone
    BY <2>2, <1>t DEF Agrees
  <2>4. \A q \in Port : wire.ans[q] # 0
    BY <2>3 DEF Agrees, Gone
  <2> QED
    BY <2>1, <2>4 DEF Agrees, Asking, Using
<1>3. CASE LetsGo
  BY <1>3, LetsGoAgrees
<1>4. CASE ResetsPort
  BY <1>4, ResetsAgrees
<1>5. CASE Replaces
  BY <1>5, ReplacesAgrees
<1>6. CASE Numbers
  BY <1>6 DEF Numbers, Agrees, Asking, Using
<1>7. CASE Names
  BY <1>7, NamesAgrees
<1>8. CASE GoesOn
  <2>1. /\ wire' = wire /\ th.pc \in Using /\ th'.pc \in Using \cup {"scan"} /\ th'.p = th.p
        /\ th'.addr = th.addr
        /\ \A q \in Port : h'.port[q].connected = h.port[q].connected
                           /\ h'.port[q].addr = h.port[q].addr
    BY <1>8 DEF GoesOn, Using
  <2> QED
    BY <2>1 DEF Agrees, Asking, Using
<1>9. CASE Powers
  <2>1. /\ wire'.ans = wire.ans /\ th.pc = "power" /\ th'.pc = "scan" /\ th.p = Root
        /\ h'.port[Root] = h.port[Root]
    BY <1>9 DEF Powers
  <2>2. \A c \in Child : wire.ans[c] = Gone
    BY <2>1 DEF Agrees, Using
  <2> QED
    BY <2>1, <2>2 DEF Agrees, Asking, Using
<1>10. CASE Pulls
  <2>1. h'.port = h.port /\ th' = th
    BY <1>10 DEF Pulls
  <2>2. /\ \A q \in Port : wire'.ans[q] \in {wire.ans[q], Gone}
        /\ wire'.ans[Root] # wire.ans[Root] => \A q \in Port : wire'.ans[q] = Gone
    BY <1>10 DEF Pulls
  <2> QED
    BY <2>1, <2>2, <1>t DEF Agrees, Gone
<1> QED
  BY <1>1, <1>2, <1>3, <1>4, <1>5, <1>6, <1>7, <1>8, <1>9, <1>10 DEF Kind

\* And afterwards nothing changes.
LEMMA OnWireStep ==
    ASSUME HubInv, Known, OnWire, Sound, At("descriptor") => Allocated(h) # 0,
           [Next]_vars, HubInv'
    PROVE  OnWire'
<1>1. CASE th'.pc = "exit"
  <2>1. wire'.ans = wire.ans
    BY <1>1, StepKinds DEF Kind, Quiet, GivesUp, LetsGo, ResetsPort, Replaces, Numbers,
       Names, GoesOn, Powers, Pulls
  <2> QED
    BY <1>1, <2>1 DEF OnWire, AnswersUnique
<1>2. CASE th'.pc # "exit"
  <2>1. th.pc # "exit"
    BY <1>2, StepKinds DEF Kind, Quiet, GivesUp, LetsGo, ResetsPort, Replaces, Numbers,
       Names, GoesOn, Powers, Pulls, Asking, Using
  <2>2. Agrees'
    BY <1>2, <2>1, StepKinds, AgreesStep DEF OnWire
  <2>3. AnswersUnique'
    BY <2>2, AgreesUnique, PTL
  <2> QED
    BY <2>2, <2>3 DEF OnWire
<1> QED
  BY <1>1, <1>2

\* No two devices on the wire answer to one address, whatever is plugged and
\* pulled at whatever moment, as long as no transfer fails on a device that
\* is there, other than those of the interrupt pipe, and usbh_enumerate is
\* never out of addresses: what it does to the tables in each of its ways
\* out is what has happened to the device.
THEOREM HubAnswersWithRoom ==
    ASSUME Sound
    PROVE  Spec /\ [](At("descriptor") => Allocated(h) # 0) => []AnswersUnique
<1>1. Init => Known /\ OnWire
  BY InitKnown, InitOnWire
<1>2. /\ HubInv /\ HubInv' /\ Known /\ OnWire /\ (At("descriptor") => Allocated(h) # 0)
      /\ [Next]_vars
      => Known' /\ OnWire'
  BY KnownStep, OnWireStep
<1>3. OnWire => AnswersUnique
  BY DEF OnWire
<1> QED
  BY <1>1, <1>2, <1>3, HubInvHolds, PTL DEF Spec

-----------------------------------------------------------------------------
(* The polling of a hub.                                                   *)

\* A message that makes the thread look after the hub, or end.
Told == \E i \in DOMAIN h.mq : h.mq[i] \in {"hub", "NULL"}
Alive == \/ h.slot.timer = "running" \/ h.slot.urb = "busy" \/ Told
         \/ ~At("recv") /\ th.hub = "hub"
\* The hub does not answer at the address it has in the table.
Silent == wire.ans[Root] # h.port[Root].addr

\* There is a message for a hub, or room for one.
Room == Told \/ Len(h.mq) < QLen

\* PollingAlive in these words.
LEMMA PollingWords ==
    ASSUME HubInv, NChild # 0
    PROVE  /\ h.slot.connected => h.port[Root].connected
           /\ HubAnswers(CHOOSE c \in Child : TRUE) <=> h.port[Root].connected /\ ~Silent
           /\ PollingAlive <=> (h.slot.connected => Alive \/ Silent)
<1>1. (CHOOSE c \in Child : TRUE) # Root
  <2>1. 1 \in Child
    BY HubAssumption DEF HubAssumption, Child
  <2> QED
    BY <2>1, PortSet
<1>2. h.slot.connected => h.port[Root].connected
  BY PortSet DEF HubInv, NoOrphans, SlotWhole
<1>3. HubAnswers(CHOOSE c \in Child : TRUE) <=> h.port[Root].connected /\ ~Silent
  BY <1>1 DEF HubAnswers, Answers, Silent
<1> QED
  BY <1>2, <1>3 DEF PollingAlive, Alive, Told

\* A registered hub that is silent stays silent until it is released: no
\* other device's address becomes its own.
LEMMA SilentStays ==
    ASSUME HubInv, Known, Kind, h.slot.connected, h'.slot.connected, Silent
    PROVE  Silent'
<1> USE PortSet
<1>t. /\ h \in Tables /\ th \in Threads /\ TablesInv /\ h.port[Root].addr \in Nat
      /\ h.port[Root].connected /\ h.port[Root].addr # 0 /\ th.p \in Port
  BY Parts DEF Tables, PortRec, HubInv, NoOrphans, SlotWhole, Known, Threads
<1>1. CASE Quiet
  BY <1>1 DEF Quiet, Silent
<1>2. CASE GivesUp
  BY <1>2 DEF GivesUp, Silent
<1>3. CASE LetsGo
  <2>1. PICK p \in Port : h'.port = Released(h, p).port /\ h'.slot = Released(h, p).slot
    BY <1>3 DEF LetsGo
  <2>2. p # Root
    BY <2>1, <1>t, ReleasedFacts DEF NoSlot
  <2>3. h'.port[Root] = h.port[Root]
    BY <2>1, <2>2, <1>t, ReleasedFacts
  <2> QED
    BY <2>3, <1>3 DEF LetsGo, Silent
<1>4. CASE ResetsPort
  <2>1. h' = h /\ wire'.ans[Root] \in {wire.ans[Root], 0, Gone}
    BY <1>4 DEF ResetsPort
  <2> QED
    BY <2>1, <1>t DEF Silent, Gone
<1>5. CASE Replaces
  <2>1. th.p # Root
    BY <1>5, <1>t, ReleasedFacts DEF Replaces, NoSlot
  <2>2. h'.port[Root] = h.port[Root]
    BY <2>1, <1>5, <1>t, ReleasedFacts DEF Replaces
  <2> QED
    BY <2>2, <1>5 DEF Replaces, Silent
<1>6. CASE Numbers
  BY <1>6 DEF Numbers, Silent
<1>7. CASE Names
  <2>1. th.p # Root /\ th.addr # h.port[Root].addr
    BY <1>7, <1>t DEF Names, HubInv, Filling, Held
  <2>2. h'.port[Root] = h.port[Root] /\ wire'.ans[Root] \in {wire.ans[Root], th.addr}
    BY <2>1, <1>7 DEF Names
  <2> QED
    BY <2>1, <2>2 DEF Silent
<1>8. CASE GoesOn
  BY <1>8 DEF GoesOn, Silent
<1>9. CASE Powers
  BY <1>9 DEF Powers, HubInv, Filling
<1>10. CASE Pulls
  BY <1>10, <1>t DEF Pulls, Silent, Gone
<1> QED
  BY <1>1, <1>2, <1>3, <1>4, <1>5, <1>6, <1>7, <1>8, <1>9, <1>10 DEF Kind

\* A hub is registered by the step that starts its timer.
LEMMA Registers ==
    ASSUME HubInv, Kind, ~h.slot.connected, h'.slot.connected
    PROVE  h'.slot.timer = "running"
<1>t. TablesInv /\ th \in Threads
  BY Parts
<1>1. \A p \in Port : ~Released(h, p).slot.connected
  BY <1>t, ReleasedFacts DEF NoSlot
<1>2. th.p \in Port
  BY <1>t DEF Threads
<1> QED
  BY <1>1, <1>2 DEF Kind, Quiet, GivesUp, LetsGo, ResetsPort, Replaces, Numbers, Names, GoesOn,
     Powers, Pulls

\* What the thread does in the middle of an event: the queue and the hub it
\* works for stay, and the slot stays, or goes, or is a new one.
LEMMA ThreadKeeps ==
    ASSUME HubInv, Scan \/ Clear \/ Debounce \/ Settled \/ Unsettled \/ Reset \/ Enabled
                   \/ Descriptor \/ SetAddress \/ Configure \/ ClassConnect \/ HubConnect
                   \/ HubPower
    PROVE  /\ th'.pc # "recv" /\ th'.hub = th.hub /\ h'.mq = h.mq /\ wire'.moves = wire.moves
           /\ h'.slot = h.slot \/ ~h'.slot.connected \/ h'.slot.timer = "running"
<1>t. /\ h \in Tables /\ th \in Threads /\ wire \in Wires /\ TablesInv /\ h.slot \in SlotRec
      /\ th.p \in Port /\ Root \in Port
  BY Parts, PortSet DEF Tables, Threads
<1>g. \A pc : Goto(pc) => th'.pc = pc /\ th'.hub = th.hub
  BY <1>t DEF Goto, Threads
<1>r. \A p \in Port : /\ Released(h, p) \in Tables /\ Released(h, p).mq = h.mq
                      /\ Released(h, p).slot = h.slot \/ ~Released(h, p).slot.connected
  BY <1>t, ReleasedFacts DEF NoSlot
<1>f. \A p \in Port : Fail(p) => /\ th'.pc # "recv" /\ th'.hub = th.hub /\ h'.mq = h.mq
                                 /\ h'.slot = h.slot \/ ~h'.slot.connected
  BY <1>g, <1>r DEF Fail
<1>1. CASE Scan
  <2>1. th'.pc \in {"clear", "scan"} /\ th'.hub = th.hub
    BY <1>1, <1>t DEF Scan, Threads
  <2> QED
    BY <1>1, <2>1 DEF Scan
<1>2. CASE Clear
  BY <1>2, <1>t DEF Clear, Threads, Wires
<1>3. CASE Debounce
  <2>1. UNCHANGED h /\ wire'.moves = wire.moves
    BY <1>3, <1>t DEF Debounce, Wires
  <2>2. th'.pc = th.pc /\ th'.hub = th.hub /\ th.pc = "debounce"
    BY <1>3, <1>t DEF Debounce, At, Threads
  <2> QED
    BY <2>1, <2>2
<1>4. CASE Settled
  BY <1>4, <1>t, <1>g, <1>r DEF Settled
<1>5. CASE Unsettled
  BY <1>5, <1>t DEF Unsettled, Threads
<1>6. CASE Reset
  <2>1. UNCHANGED h /\ wire'.moves = wire.moves
    BY <1>6, <1>t DEF Reset, Wires
  <2>2. th'.pc \in {"enable", "scan"} /\ th'.hub = th.hub
    BY <1>6, <1>g DEF Reset
  <2> QED
    BY <2>1, <2>2
<1>7. CASE Enabled
  <2> DEFINE g == Released(h, th.p)
             new == [NoPort EXCEPT !.connected = TRUE]
             f == [g EXCEPT !.port[th.p] = new]
  <2>1. UNCHANGED wire /\ th'.pc # "recv" /\ th'.hub = th.hub /\ (h' = h \/ h' = g \/ h' = f)
    BY <1>7, <1>g DEF Enabled
  <2>2. g \in Tables /\ g.mq = h.mq /\ (g.slot = h.slot \/ ~g.slot.connected)
    BY <1>r, <1>t
  <2>3. f.mq = g.mq /\ f.slot = g.slot
    <3> HIDE DEF g, new
    <3> QED
      BY <2>2 DEF Tables
  <2> HIDE DEF g, f
  <2> QED
    BY <2>1, <2>2, <2>3
<1>8. CASE Descriptor
  <2> DEFINE a == Allocated(h)
             f == [h EXCEPT !.used = @ \cup {a}, !.last = a]
  <2>1. /\ UNCHANGED wire
        /\ \/ Fail(th.p)
           \/ Goto("scan") /\ UNCHANGED h
           \/ h' = f /\ th' = [th EXCEPT !.pc = "address", !.addr = a]
    BY <1>8 DEF Descriptor
  <2>2. f.mq = h.mq /\ f.slot = h.slot
    BY <1>t DEF Tables
  <2>3. th' = [th EXCEPT !.pc = "address", !.addr = a] => th'.pc # "recv" /\ th'.hub = th.hub
    BY <1>t DEF Threads
  <2> HIDE DEF a, f
  <2> QED
    BY <2>1, <2>2, <2>3, <1>t, <1>g, <1>f
<1>9. CASE SetAddress
  <2>1. \/ Fail(th.p) /\ UNCHANGED wire
        \/ Goto("config") /\ h'.mq = h.mq /\ h'.slot = h.slot /\ wire'.moves = wire.moves
    BY <1>9, <1>t DEF SetAddress, Tables, Wires
  <2> QED
    BY <2>1, <1>t, <1>g, <1>f
<1>10. CASE Configure
  BY <1>10, <1>t, <1>g, <1>f DEF Configure
<1>11. CASE ClassConnect
  <2>1. /\ UNCHANGED wire
        /\ \/ Fail(th.p)
           \/ Goto("scan") /\ h'.mq = h.mq /\ h'.slot = h.slot
    BY <1>11, <1>t DEF ClassConnect, Tables
  <2> QED
    BY <2>1, <1>t, <1>g, <1>f
<1>12. CASE HubConnect
  <2>1. Goto("power") /\ h'.mq = h.mq /\ ~h'.slot.connected /\ UNCHANGED wire
    BY <1>12, <1>t DEF HubConnect, Tables, NoSlot
  <2> QED
    BY <2>1, <1>g
<1>13. CASE HubPower
  <2> DEFINE port == [p \in Port |-> IF p = Root THEN h.port[p] ELSE NoPort]
             csc == [p \in Port |-> IF p = Root THEN wire.csc[p] ELSE wire.plug[p] # "none"]
             f == [h EXCEPT !.slot.connected = TRUE, !.slot.timer = "running", !.port = port]
             w == [wire EXCEPT !.powered = TRUE, !.csc = csc]
  <2>1. \E ok : \/ ~ok /\ Fail(Root) /\ UNCHANGED wire
                \/ ok /\ Goto("scan") /\ h' = f /\ wire' = w
    BY <1>13 DEF HubPower
  <2>2. f.mq = h.mq /\ f.slot.timer = "running" /\ w.moves = wire.moves
    <3> HIDE DEF port, csc
    <3> QED
      BY <1>t DEF Tables, SlotRec, Wires
  <2> HIDE DEF f, w
  <2> QED
    BY <2>1, <2>2, <1>t, <1>g, <1>f
<1> QED
  BY <1>1, <1>2, <1>3, <1>4, <1>5, <1>6, <1>7, <1>8, <1>9, <1>10, <1>11, <1>12, <1>13

\* A message stays in a queue that grows.
LEMMA StaysTold ==
    ASSUME NEW q \in Seq({"root", "hub", "NULL"}), NEW m \in {"root", "hub", "NULL"},
           NEW i \in DOMAIN q
    PROVE  i \in DOMAIN Append(q, m) /\ Append(q, m)[i] = q[i]
  OBVIOUS

\* A step other than the thread's next message keeps the polling of a hub
\* going: what ends one part of it starts the next.
LEMMA AliveStep ==
    ASSUME HubInv, Known, Room, "poll" \notin Faults, NChild # 0, [Next]_vars,
           h.slot.connected, h'.slot.connected, Alive, ~Silent
    PROVE  Alive' \/ Silent'
<1> USE PortSet
<1>t. /\ h \in Tables /\ th \in Threads /\ wire \in Wires /\ h.slot \in SlotRec
      /\ h.mq \in Seq({"root", "hub", "NULL"}) /\ TablesInv /\ th.p \in Port
  BY Parts DEF Tables, Threads
<1>m. ASSUME NEW m \in {"root", "hub", "NULL"}, Told, h'.mq = Append(h.mq, m)
      PROVE  Told'
  BY <1>m, <1>t, StaysTold DEF Told
<1>k. ASSUME h'.slot = h.slot, h'.mq = h.mq \/ \E m \in {"root", "hub", "NULL"} : h'.mq = Append(h.mq, m),
             th'.hub = th.hub, At("recv") \/ th'.pc # "recv"
      PROVE  Alive'
  <2>1. Told => Told'
    BY <1>k, <1>m DEF Told
  <2> QED
    BY <2>1, <1>k DEF Alive, At
<1>1. CASE Recv
  <2>1. /\ h'.mq = Tail(h.mq) /\ h.mq # <<>> /\ Head(h.mq) # "NULL" /\ h'.slot = h.slot
        /\ th.pc = "recv"
    BY <1>1, <1>t DEF Recv, Tables, At
  <2>2. CASE Head(h.mq) = "hub"
    <3>1. th'.pc = "scan" /\ th'.hub = "hub"
      BY <1>1, <2>2, <1>t DEF Recv, Threads
    <3> QED
      BY <3>1 DEF Alive, At
  <2>3. CASE Head(h.mq) # "hub"
    <3>1. ASSUME Told PROVE Told'
      <4>1. PICK i \in DOMAIN h.mq : h.mq[i] \in {"hub", "NULL"}
        BY <3>1 DEF Told
      <4>2. i # 1
        BY <4>1, <2>1, <2>3, <1>t
      <4>3. i - 1 \in DOMAIN Tail(h.mq) /\ Tail(h.mq)[i - 1] = h.mq[i]
        BY <4>1, <4>2, <2>1, <1>t
      <4> QED
        BY <4>1, <4>3, <2>1 DEF Told
    <3> QED
      BY <3>1, <2>1 DEF Alive, At
  <2> QED
    BY <2>2, <2>3
<1>2. CASE ScanEnds
  <2>1. CASE th.hub = "hub"
    <3>1. h'.slot.timer = "running"
      BY <1>2, <2>1, <1>t DEF ScanEnds, Tables, SlotRec
    <3> QED
      BY <3>1 DEF Alive
  <2>2. CASE th.hub # "hub"
    <3>1. h' = h
      BY <1>2, <2>2 DEF ScanEnds
    <3> QED
      BY <3>1, <2>2 DEF Alive, Told
  <2> QED
    BY <2>1, <2>2
<1>3. CASE Exit
  <2> DEFINE g == Released(h, Root)
  <2>1. g \in Tables /\ h' = [g EXCEPT !.mq = <<>>] /\ g.slot = NoSlot
    BY <1>3, <1>t, ReleasedFacts DEF Exit
  <2>2. h'.slot = NoSlot
    <3> HIDE DEF g
    <3> QED
      BY <2>1 DEF Tables
  <2> QED
    BY <2>2 DEF NoSlot
<1>4. CASE Thread /\ ~Recv /\ ~ScanEnds /\ ~Exit
  <2>1. /\ th'.pc # "recv" /\ th'.hub = th.hub /\ h'.mq = h.mq
        /\ h'.slot = h.slot \/ h'.slot.timer = "running"
    BY <1>4, ThreadKeeps DEF Thread
  <2> QED
    BY <2>1, <1>k DEF Alive
<1>5. CASE TimerFires
  <2>1. h.port[Root].connected /\ wire.plug[Root] # "none"
    <3>1. h.port[Root].connected /\ h.port[Root].addr \in Nat
      BY <1>t, PollingWords DEF Tables, PortRec
    <3> QED
      BY <3>1 DEF Known, Silent, Gone
  <2> QED
    BY <1>5, <2>1, <1>t DEF TimerFires, Tables, SlotRec, Alive
<1>6. CASE IntCompletes
  <2> DEFINE idle == [h EXCEPT !.slot.urb = "idle"]
             changed == {c \in Child : wire.csc[c]}
             told == [idle EXCEPT !.intbuf = changed]
             c0 == CHOOSE c \in Child : TRUE
  <2>1. HubAnswers(c0)
    BY PollingWords
  <2>2. h' = IntNak(idle) \/ h' = Woken(told, "hub")
    <3>1. ASSUME NEW ok \in Outcomes("poll", HubAnswers(c0)) PROVE ok
      BY <2>1 DEF Outcomes
    <3> QED
      BY <3>1, <1>6 DEF IntCompletes
  <2>3. CASE h' = IntNak(idle)
    <3>1. h'.slot.timer = "running"
      BY <2>3, <1>t DEF IntNak, Tables, SlotRec
    <3> QED
      BY <3>1 DEF Alive
  <2>4. CASE h' = Woken(told, "hub")
    <3>1. told \in Tables /\ told.mq = h.mq
      BY <1>t DEF Tables, SlotRec
    <3>2. h'.mq = IF Len(h.mq) < QLen THEN Append(h.mq, "hub") ELSE h.mq
      <4> HIDE DEF told
      <4> QED
        BY <2>4, <3>1 DEF Woken, Tables
    <3>3. CASE Told
      <4>1. Told'
        BY <3>2, <3>3, <1>m DEF Told
      <4> QED
        BY <4>1 DEF Alive
    <3>4. CASE Len(h.mq) < QLen
      <4>1. Len(h.mq) + 1 \in DOMAIN h'.mq /\ h'.mq[Len(h.mq) + 1] = "hub"
        BY <3>2, <3>4, <1>t
      <4> QED
        BY <4>1 DEF Alive, Told
    <3> QED
      BY <3>3, <3>4 DEF Room
  <2> QED
    BY <2>2, <2>3, <2>4
<1>7. CASE Deinit
  <2>1. h'.slot = h.slot /\ (h'.mq = h.mq \/ h'.mq = Append(h.mq, "NULL")) /\ th' = th
    BY <1>7, <1>t, DeinitSends DEF Tables
  <2> QED
    BY <2>1, <1>k DEF At
<1>8. ASSUME NEW p \in Port, NEW kind \in {"func", "hub"}, Plug(p, kind) \/ Unplug(p)
      PROVE  Alive'
  <2>1. (h' = h \/ h' = Woken(h, "root")) /\ th' = th
    BY <1>8 DEF Plug, Unplug, PortIrq
  <2>2. h'.slot = h.slot /\ (h'.mq = h.mq \/ h'.mq = Append(h.mq, "root"))
    BY <2>1, <1>t DEF Woken, Tables
  <2> QED
    BY <2>1, <2>2, <1>k DEF At
<1>9. CASE UNCHANGED vars
  BY <1>9 DEF vars, Alive, Told, At
<1> QED
  BY <1>1, <1>2, <1>3, <1>4, <1>5, <1>6, <1>7, <1>8, <1>9 DEF Next

\* So the polling goes on until the hub is released or does not answer.
LEMMA PollingStep ==
    ASSUME HubInv, HubInv', Known, Room, "poll" \notin Faults, NChild # 0,
           h.slot.connected => Alive \/ Silent, [Next]_vars, h'.slot.connected
    PROVE  Alive' \/ Silent'
<1>1. CASE ~h.slot.connected
  BY <1>1, StepKinds, Registers DEF Alive
<1>2. CASE h.slot.connected /\ Silent
  BY <1>2, StepKinds, SilentStays
<1>3. CASE h.slot.connected /\ ~Silent
  BY <1>3, AliveStep
<1> QED
  BY <1>1, <1>2, <1>3

\* The polling of a registered hub never dies, whatever else fails: as long
\* as the interrupt pipe has no errors and the messages of the root port
\* leave room for one of the hub, something is always under way that comes
\* back to the hub, until it is released or does not answer.
THEOREM HubPollingWithRoom ==
    ASSUME "poll" \notin Faults, NChild # 0
    PROVE  Spec /\ []Room => []PollingAlive
<1> DEFINE Polled == h.slot.connected => Alive \/ Silent
<1>1. Init => Known /\ Polled
  BY InitKnown DEF Init, NoSlot
<1>2. HubInv /\ HubInv' /\ Known /\ Polled /\ Room /\ [Next]_vars => Known' /\ Polled'
  BY KnownStep, PollingStep
<1>3. HubInv /\ Polled => PollingAlive
  BY PollingWords
<1> HIDE DEF Polled
<1> QED
  BY <1>1, <1>2, <1>3, HubInvHolds, PTL DEF Spec

-----------------------------------------------------------------------------
(* The addresses that are lost.                                            *)

\* The addresses that connected ports have, and the marked ones that no
\* port and no enumeration has; Max is never given back.
Owned(g) == {g.port[q].addr : q \in {q \in Port : g.port[q].connected}}
Spare(g) == g.used \ (Owned(g) \cup {Max})
Lost(g, t) == Spare(g) \ IF t.pc = "address" THEN {t.addr} ELSE {}

\* The address under way will be lost: its device has been pulled.
Due(t, w) == IF t.pc = "address" /\ w.ans[t.p] # 0 THEN 1 ELSE 0

\* Each of them was paid for with a move.
Paid == Cardinality(Lost(h, th)) + Due(th, wire) <= wire.moves /\ wire.moves <= MaxMoves

\* A release loses no address.
LEMMA ReleasedLosesNone ==
    ASSUME h \in Tables, NEW p \in Port, NEW g, g.used = Released(h, p).used,
           g.port = Released(h, p).port
    PROVE  Spare(g) \subseteq Spare(h)
<1>1. CASE ~h.port[p].connected
  BY <1>1 DEF Released, Spare, Owned
<1>2. CASE h.port[p].connected
  <2>1. PICK P \in SUBSET Port :
          /\ g.used = h.used \ Freed(h, P)
          /\ \A q \in Port : g.port[q] = IF q \notin P THEN h.port[q]
                                         ELSE [NoPort EXCEPT !.addr = h.port[q].addr]
    <3> DEFINE hubGoes == p = Root /\ h.port[p].inst /\ h.slot.inuse
               P == IF hubGoes THEN Port ELSE {p}
    <3>1. Released(h, p) =
            [h EXCEPT
                !.port = [q \in Port |-> IF q \notin P THEN h.port[q]
                                         ELSE [NoPort EXCEPT !.addr = h.port[q].addr]],
                !.used = @ \ Freed(h, P),
                !.slot = IF hubGoes THEN NoSlot ELSE @]
      BY <1>2 DEF Released
    <3>2. P \in SUBSET Port
      OBVIOUS
    <3> HIDE DEF P, hubGoes
    <3> QED
      BY <3>1, <3>2 DEF Tables
  <2> SUFFICES ASSUME NEW x \in Spare(g) PROVE x \in Spare(h)
    OBVIOUS
  <2>2. x \in h.used /\ x \notin Freed(h, P) /\ x \notin Owned(g) /\ x # Max
    BY <2>1 DEF Spare
  <2>3. ASSUME NEW q \in Port, h.port[q].connected PROVE h.port[q].addr # x
    <3>1. CASE q \in P
      BY <2>2, <2>3, <3>1 DEF Freed
    <3>2. CASE q \notin P
      BY <2>1, <2>2, <2>3, <3>2 DEF Owned
    <3> QED
      BY <3>1, <3>2
  <2> QED
    BY <2>2, <2>3 DEF Spare, Owned
<1> QED
  BY <1>1, <1>2

\* What a step does to the account.
Costs == \/ /\ Lost(h', th') \subseteq Lost(h, th) /\ wire'.moves = wire.moves
            /\ Due(th', wire') \in {0, Due(th, wire)}
         \/ /\ Lost(h', th') \subseteq Lost(h, th)
            /\ wire'.moves = wire.moves + 1 /\ wire.moves < MaxMoves
         \/ /\ \E a : Lost(h', th') \subseteq Lost(h, th) \cup {a}
            /\ Due(th, wire) = 1 /\ Due(th', wire') = 0 /\ wire'.moves = wire.moves

\* Outside SET_ADDRESS nothing is lost.
LEMMA CostsNothing ==
    ASSUME Spare(h') \subseteq Spare(h), th.pc # "address", th'.pc # "address",
           wire'.moves = wire.moves
    PROVE  Costs
  BY DEF Costs, Lost, Due

\* The thread's steps that leave the ports and the bitmap alone.
LEMMA QuietCost ==
    ASSUME HubInv,
           Recv \/ Scan \/ ScanEnds \/ Clear \/ Debounce \/ Unsettled \/ Reset
    PROVE  Costs
<1>t. h \in Tables /\ th \in Threads /\ wire \in Wires /\ h.slot \in SlotRec
  BY Parts DEF Tables
<1>1. h'.port = h.port /\ h'.used = h.used
  <2>1. CASE Recv
    BY <2>1, <1>t DEF Recv, Tables
  <2>2. CASE ScanEnds
    BY <2>2, <1>t DEF ScanEnds, Tables
  <2>3. CASE Scan \/ Clear \/ Debounce \/ Unsettled \/ Reset
    BY <2>3 DEF Scan, Clear, Debounce, Unsettled, Reset
  <2> QED
    BY <2>1, <2>2, <2>3
<1>2. th.pc # "address" /\ th'.pc # "address"
  <2>1. CASE Recv
    BY <2>1, <1>t DEF Recv, At, Threads
  <2>2. CASE Scan
    BY <2>2, <1>t DEF Scan, At, Threads
  <2>3. CASE ScanEnds \/ Clear \/ Unsettled
    BY <2>3, <1>t DEF ScanEnds, Clear, Unsettled, At, Goto, Threads
  <2>4. CASE Debounce
    BY <2>4, <1>t DEF Debounce, At, Threads
  <2>5. CASE Reset
    <3>1. th.pc = "reset" /\ \E pc \in {"enable", "scan"} : th' = [th EXCEPT !.pc = pc]
      BY <2>5 DEF Reset, At, Goto
    <3> QED
      BY <3>1, <1>t DEF Threads
  <2> QED
    BY <2>1, <2>2, <2>3, <2>4, <2>5
<1>3. wire'.moves = wire.moves
  <2>1. CASE Recv \/ Scan \/ ScanEnds \/ Unsettled
    BY <2>1 DEF Recv, Scan, ScanEnds, Unsettled
  <2>2. CASE Clear
    BY <2>2, <1>t DEF Clear, Wires
  <2>3. CASE Debounce
    BY <2>3, <1>t DEF Debounce, Wires
  <2>4. CASE Reset
    BY <2>4, <1>t DEF Reset, Wires
  <2> QED
    BY <2>1, <2>2, <2>3, <2>4
<1>4. Spare(h') = Spare(h)
  BY <1>1 DEF Spare, Owned
<1> QED
  BY <1>2, <1>3, <1>4, CostsNothing

\* What others than the thread do.
LEMMA OthersCost ==
    ASSUME HubInv,
           \/ TimerFires \/ IntCompletes \/ Deinit \/ UNCHANGED vars
           \/ \E p \in Port : Unplug(p) \/ \E kind \in {"func", "hub"} : Plug(p, kind)
    PROVE  Costs
<1>t. h \in Tables /\ wire \in Wires /\ h.slot \in SlotRec
  BY Parts DEF Tables
<1>w. \A g \in Tables : \A m : Woken(g, m).port = g.port /\ Woken(g, m).used = g.used
  BY DEF Woken, Tables
<1>1. \/ h'.port = h.port /\ h'.used = h.used /\ th' = th /\ wire' = wire
      \/ /\ h'.port = h.port /\ h'.used = h.used /\ th' = th
         /\ wire'.moves = wire.moves + 1 /\ wire.moves < MaxMoves
  <2>1. CASE TimerFires
    BY <2>1, <1>t DEF TimerFires, Tables
  <2>2. CASE IntCompletes
    <3> DEFINE idle == [h EXCEPT !.slot.urb = "idle"]
               changed == {c \in Child : wire.csc[c]}
               told == [idle EXCEPT !.intbuf = changed]
    <3>1. (h' = idle \/ h' = IntNak(idle) \/ h' = Woken(told, "hub")) /\ UNCHANGED <<th, wire>>
      BY <2>2 DEF IntCompletes
    <3>2. /\ idle.port = h.port /\ told.port = h.port /\ IntNak(idle).port = h.port
          /\ idle.used = h.used /\ told.used = h.used /\ IntNak(idle).used = h.used
          /\ told \in Tables
      BY <1>t DEF Tables, SlotRec, IntNak
    <3> HIDE DEF idle, told
    <3> QED
      BY <3>1, <3>2, <1>w
  <2>3. CASE Deinit
    BY <2>3, <1>t, DeinitSends DEF Tables
  <2>4. CASE UNCHANGED vars
    BY <2>4 DEF vars
  <2>5. ASSUME NEW p \in Port, NEW kind \in {"func", "hub"}, Plug(p, kind) \/ Unplug(p)
        PROVE  /\ h'.port = h.port /\ h'.used = h.used /\ th' = th
               /\ wire'.moves = wire.moves + 1 /\ wire.moves < MaxMoves
    <3>1. (h' = h \/ h' = Woken(h, "root")) /\ th' = th /\ wire.moves < MaxMoves
      BY <2>5 DEF Plug, Unplug, PortIrq, CanMove
    <3>2. wire'.moves = wire.moves + 1
      <4>1. CASE Plug(p, kind)
        BY <4>1, <1>t DEF Plug, Wires
      <4>2. CASE Unplug(p)
        BY <4>2 DEF Unplug
      <4> QED
        BY <2>5, <4>1, <4>2
    <3> QED
      BY <3>1, <3>2, <1>t, <1>w
  <2> QED
    BY <2>1, <2>2, <2>3, <2>4, <2>5
<1>2. Lost(h', th') = Lost(h, th)
  BY <1>1 DEF Lost, Spare, Owned
<1> QED
  BY <1>1, <1>2 DEF Costs, Due

\* The steps of an enumeration, and a release.
LEMMA FailCost ==
    ASSUME HubInv, th.pc # "address", NEW p \in Port, Fail(p), UNCHANGED wire
    PROVE  Costs
<1>1. h \in Tables /\ th'.pc = "scan" /\ h' = Released(h, p)
  BY Parts DEF Fail, Goto, Threads
<1> QED
  BY <1>1, ReleasedLosesNone, CostsNothing

LEMMA EnabledCost == HubInv /\ Enabled => Costs
<1> SUFFICES ASSUME HubInv, Enabled PROVE Costs
  OBVIOUS
<1>t. h \in Tables /\ th \in Threads /\ th.p \in Port /\ TablesInv
  BY Parts DEF Threads
<1> DEFINE p == th.p
           g == Released(h, p)
<1>1. /\ th.pc = "enable" /\ wire' = wire /\ th'.pc # "address"
      /\ \/ h' = h \/ h' = g \/ h' = [g EXCEPT !.port[p] = [NoPort EXCEPT !.connected = TRUE]]
  BY <1>t DEF Enabled, At, Goto, Threads
<1>2. Spare(g) \subseteq Spare(h)
  BY <1>t, ReleasedLosesNone
<1>3. g \in Tables /\ ~g.port[p].connected
  BY <1>t, ReleasedFacts
<1> HIDE DEF g
<1>4. CASE h' = h
  BY <1>1, <1>4, CostsNothing
<1>5. CASE h' = g
  BY <1>1, <1>2, <1>5, CostsNothing
<1>6. CASE h' = [g EXCEPT !.port[p] = [NoPort EXCEPT !.connected = TRUE]]
  <2>1. h'.used = g.used /\ \A q \in Port \ {p} : h'.port[q] = g.port[q]
    BY <1>3, <1>6 DEF Tables
  <2>2. Owned(g) \subseteq Owned(h')
    BY <1>3, <2>1 DEF Owned
  <2>3. Spare(h') \subseteq Spare(h)
    BY <1>2, <2>1, <2>2 DEF Spare
  <2> QED
    BY <1>1, <2>3, CostsNothing
<1> QED
  BY <1>1, <1>4, <1>5, <1>6

LEMMA DescriptorCost == HubInv /\ Descriptor => Costs
<1> SUFFICES ASSUME HubInv, Descriptor PROVE Costs
  OBVIOUS
<1>t. h \in Tables /\ th \in Threads /\ th.p \in Port /\ th.pc = "descriptor" /\ UNCHANGED wire
  BY Parts DEF Threads, Descriptor, At
<1>1. \/ Fail(th.p)
      \/ th'.pc = "scan" /\ UNCHANGED h
      \/ /\ wire.ans[th.p] = 0
         /\ \E a : /\ h' = [h EXCEPT !.used = @ \cup {a}, !.last = a]
                   /\ th' = [th EXCEPT !.pc = "address", !.addr = a]
  <2>1. PICK ok \in Outcomes("descriptor", Answers(th.p, 0)) :
          \/ ~ok /\ Fail(th.p)
          \/ ok /\ Allocated(h) = 0 /\ Goto("scan") /\ UNCHANGED h
          \/ /\ ok /\ Allocated(h) # 0
             /\ h' = [h EXCEPT !.used = @ \cup {Allocated(h)}, !.last = Allocated(h)]
             /\ th' = [th EXCEPT !.pc = "address", !.addr = Allocated(h)]
    BY DEF Descriptor
  <2>2. ok => wire.ans[th.p] = 0
    BY <2>1, Reasons DEF Answers
  <2> QED
    BY <1>t, <2>1, <2>2 DEF Goto, Threads
<1>2. CASE Fail(th.p)
  BY <1>2, <1>t, FailCost
<1>3. CASE th'.pc = "scan" /\ UNCHANGED h
  BY <1>3, <1>t, CostsNothing
<1>4. ASSUME wire.ans[th.p] = 0, NEW a, h' = [h EXCEPT !.used = @ \cup {a}, !.last = a],
             th' = [th EXCEPT !.pc = "address", !.addr = a]
      PROVE  Costs
  <2>1. h'.port = h.port /\ h'.used = h.used \cup {a}
    BY <1>4, <1>t DEF Tables
  <2>2. th'.pc = "address" /\ th'.addr = a /\ th'.p = th.p
    BY <1>4, <1>t DEF Threads
  <2>3. Lost(h', th') \subseteq Lost(h, th)
    BY <1>t, <2>1, <2>2 DEF Lost, Spare, Owned
  <2>4. Due(th', wire') = 0
    BY <1>4, <1>t, <2>2 DEF Due
  <2> QED
    BY <1>t, <2>3, <2>4 DEF Costs
<1> QED
  BY <1>1, <1>2, <1>3, <1>4

LEMMA SetAddressCost == Sound /\ HubInv /\ SetAddress => Costs
<1> SUFFICES ASSUME Sound, HubInv, SetAddress PROVE Costs
  OBVIOUS
<1>t. /\ h \in Tables /\ th \in Threads /\ th.p \in Port /\ th.pc = "address" /\ wire \in Wires
      /\ h.port[th.p].connected /\ h.port[th.p].addr = 0 /\ 0 \notin h.used
  <2>1. 0 \notin 2 .. Max
    BY AddressRange
  <2> QED
    BY <2>1, Parts DEF Threads, SetAddress, At, HubInv, Filling, Tables
<1>1. PICK ok \in Outcomes("address", Answers(th.p, 0)) :
        \/ ~ok /\ Fail(th.p) /\ UNCHANGED wire
        \/ /\ ok /\ Goto("config")
           /\ h' = [h EXCEPT !.port[th.p].addr = th.addr]
           /\ wire' = [wire EXCEPT !.ans = [q \in Port |-> IF @[q] = 0 THEN th.addr ELSE @[q]]]
  BY DEF SetAddress
<1>2. ok <=> wire.ans[th.p] = 0
  BY <1>1, Reasons DEF Answers
<1>3. CASE ~ok
  <2>1. h' = Released(h, th.p) /\ th'.pc = "scan" /\ wire' = wire
    BY <1>1, <1>3, <1>t DEF Fail, Goto, Threads
  <2>2. Spare(h') \subseteq Spare(h)
    BY <1>t, <2>1, ReleasedLosesNone
  <2>3. Lost(h', th') \subseteq Lost(h, th) \cup {th.addr}
    BY <1>t, <2>1, <2>2 DEF Lost
  <2>4. Due(th, wire) = 1 /\ Due(th', wire') = 0
    BY <1>2, <1>3, <1>t, <2>1 DEF Due
  <2> QED
    BY <2>1, <2>3, <2>4 DEF Costs
<1>4. CASE ok
  <2>1. h' = [h EXCEPT !.port[th.p].addr = th.addr] /\ th'.pc = "config"
    BY <1>1, <1>4, <1>t DEF Goto, Threads
  <2>2. wire'.moves = wire.moves
    BY <1>1, <1>4, <1>t DEF Wires
  <2>3. /\ h'.used = h.used /\ h'.port[th.p].connected /\ h'.port[th.p].addr = th.addr
        /\ \A q \in Port \ {th.p} : h'.port[q] = h.port[q]
    BY <2>1, <1>t DEF Tables, PortRec
  <2>4. th.addr \in Owned(h') /\ Owned(h) \subseteq Owned(h') \cup {0}
    BY <2>3, <1>t DEF Owned
  <2>5. Lost(h', th') \subseteq Lost(h, th) /\ Due(th', wire') = 0
    BY <2>1, <2>3, <2>4, <1>t DEF Lost, Spare, Due
  <2> QED
    BY <2>2, <2>5 DEF Costs
<1> QED
  BY <1>1, <1>3, <1>4

LEMMA ClassCost ==
    ASSUME HubInv, Settled \/ Configure \/ ClassConnect \/ HubConnect \/ HubPower \/ Exit
    PROVE  Costs
<1>t. /\ h \in Tables /\ th \in Threads /\ th.p \in Port /\ wire \in Wires
      /\ h.port \in [Port -> PortRec]
  BY Parts DEF Threads, Tables
<1>1. CASE Settled
  <2>1. th.pc = "debounce" /\ th'.pc # "address" /\ wire' = wire
        /\ (h' = h \/ h' = Released(h, th.p))
    BY <1>1, <1>t DEF Settled, At, Goto, Threads
  <2>2. Spare(h') \subseteq Spare(h)
    BY <2>1, <1>t, ReleasedLosesNone
  <2> QED
    BY <2>1, <2>2, CostsNothing
<1>2. CASE Configure
  <2>1. /\ th.pc = "config" /\ wire' = wire
        /\ Fail(th.p) \/ (th'.pc = "class" /\ h' = h)
    BY <1>2, <1>t DEF Configure, At, Goto, Threads
  <2> QED
    BY <2>1, <1>t, FailCost, CostsNothing
<1>3. CASE ClassConnect
  <2>1. /\ th.pc = "class" /\ wire' = wire
        /\ Fail(th.p) \/ (th'.pc = "scan" /\ h' = [h EXCEPT !.port[th.p].inst = TRUE])
    BY <1>3, <1>t DEF ClassConnect, At, Goto, Threads
  <2>2. ASSUME h' = [h EXCEPT !.port[th.p].inst = TRUE] PROVE Spare(h') = Spare(h)
    <3>1. /\ h'.used = h.used
          /\ \A q \in Port : h'.port[q].connected = h.port[q].connected
                             /\ h'.port[q].addr = h.port[q].addr
      BY <2>2, <1>t DEF Tables, PortRec
    <3> QED
      BY <3>1 DEF Spare, Owned
  <2> QED
    BY <2>1, <2>2, <1>t, FailCost, CostsNothing
<1>4. CASE HubConnect
  <2>1. /\ th.pc = "class" /\ wire' = wire /\ th'.pc = "power"
        /\ h' = [h EXCEPT !.port[th.p].inst = TRUE, !.slot = [NoSlot EXCEPT !.inuse = TRUE]]
    BY <1>4, <1>t DEF HubConnect, At, Goto, Threads
  <2>2. /\ h'.used = h.used
        /\ \A q \in Port : h'.port[q].connected = h.port[q].connected
                           /\ h'.port[q].addr = h.port[q].addr
    BY <2>1, <1>t DEF Tables, PortRec
  <2>3. Spare(h') = Spare(h)
    BY <2>2 DEF Spare, Owned
  <2> QED
    BY <2>1, <2>3, CostsNothing
<1>5. CASE HubPower
  <2>1. /\ th.pc = "power" /\ th'.pc = "scan" /\ wire'.moves = wire.moves
        /\ \/ h' = Released(h, Root)
           \/ h' = [h EXCEPT !.slot.connected = TRUE, !.slot.timer = "running",
                       !.port = [p \in Port |-> IF p = Root THEN @[p] ELSE NoPort]]
    BY <1>5, <1>t DEF HubPower, At, Goto, Fail, Threads, Wires
  <2>2. CASE h' = Released(h, Root)
    BY <2>1, <2>2, <1>t, PortSet, ReleasedLosesNone, CostsNothing
  <2>3. CASE h' = [h EXCEPT !.slot.connected = TRUE, !.slot.timer = "running",
                      !.port = [p \in Port |-> IF p = Root THEN @[p] ELSE NoPort]]
    <3>1. h'.used = h.used /\ h'.port[Root] = h.port[Root]
      BY <2>3, <1>t, PortSet DEF Tables
    <3>2. \A c \in Child : ~h.port[c].connected
      BY <2>1 DEF HubInv, Filling, NoOrphans
    <3>3. Owned(h) \subseteq Owned(h')
      BY <3>1, <3>2, PortSet DEF Owned
    <3>4. Spare(h') \subseteq Spare(h)
      BY <3>1, <3>3 DEF Spare
    <3> QED
      BY <2>1, <3>4, CostsNothing
  <2> QED
    BY <2>1, <2>2, <2>3
<1>6. CASE Exit
  <2>1. th.pc = "recv" /\ th'.pc = "exit" /\ wire' = wire
        /\ h' = [Released(h, Root) EXCEPT !.mq = <<>>]
    BY <1>6, <1>t DEF Exit, At, Goto, Threads
  <2>2. Released(h, Root) \in Tables
    BY Parts, PortSet, ReleasedFacts
  <2>3. h'.used = Released(h, Root).used /\ h'.port = Released(h, Root).port
    BY <2>1, <2>2 DEF Tables
  <2> QED
    BY <2>1, <2>3, <1>t, PortSet, ReleasedLosesNone, CostsNothing
<1> QED
  BY <1>1, <1>2, <1>3, <1>4, <1>5, <1>6

LEMMA StepCosts == Sound /\ HubInv /\ [Next]_vars => Costs
  BY QuietCost, OthersCost, EnabledCost, DescriptorCost, SetAddressCost, ClassCost, Zenon
     DEF Next, Thread

\* The account stays balanced.
LEMMA PaidStep == Sound /\ MaxMoves \in Nat /\ HubInv /\ HubInv' /\ Paid /\ [Next]_vars => Paid'
<1> SUFFICES ASSUME Sound, MaxMoves \in Nat, HubInv, HubInv', Paid, [Next]_vars PROVE Paid'
  OBVIOUS
<1> DEFINE L == Lost(h, th)
           M == Lost(h', th')
           D == Due(th, wire)
           E == Due(th', wire')
<1>1. IsFiniteSet(L) /\ IsFiniteSet(M) /\ Cardinality(L) \in Nat /\ Cardinality(M) \in Nat
  <2>1. IsFiniteSet(2 .. Max)
    BY AddressRange, FS_Interval
  <2>2. L \in SUBSET (2 .. Max) /\ M \in SUBSET (2 .. Max)
    <3>1. h.used \subseteq 2 .. Max
      BY Parts DEF Tables
    <3>2. h'.used \subseteq 2 .. Max
      BY DEF HubInv, TypeOK
    <3> QED
      BY <3>1, <3>2 DEF Lost, Spare
  <2> HIDE DEF L, M
  <2> QED
    BY <2>1, <2>2, FS_Subset, FS_CardinalityType
<1>2. D \in {0, 1} /\ E \in {0, 1} /\ wire.moves \in Nat
  BY Parts DEF Due, Wires
<1>3. Cardinality(L) + D <= wire.moves /\ wire.moves <= MaxMoves
  BY DEF Paid
<1>4. \/ M \subseteq L /\ wire'.moves = wire.moves /\ E \in {0, D}
      \/ M \subseteq L /\ wire'.moves = wire.moves + 1 /\ wire.moves < MaxMoves
      \/ (\E a : M \subseteq L \cup {a}) /\ D = 1 /\ E = 0 /\ wire'.moves = wire.moves
  BY StepCosts DEF Costs
<1>5. Cardinality(M) + E <= wire'.moves /\ wire'.moves <= MaxMoves => Paid'
  BY DEF Paid, Lost, Spare, Owned, Due
<1> HIDE DEF L, M, D, E
<1>6. M \subseteq L => Cardinality(M) <= Cardinality(L)
  BY <1>1, FS_Subset
<1>7. ASSUME NEW a, M \subseteq L \cup {a} PROVE Cardinality(M) <= Cardinality(L) + 1
  <2>1. IsFiniteSet(L \cup {a}) /\ Cardinality(L \cup {a}) <= Cardinality(L) + 1
    BY <1>1, FS_AddElement
  <2>2. Cardinality(L \cup {a}) \in Nat /\ Cardinality(M) <= Cardinality(L \cup {a})
    BY <1>7, <2>1, FS_Subset, FS_CardinalityType
  <2> QED
    BY <1>1, <2>1, <2>2
<1>8. CASE M \subseteq L
  BY <1>1, <1>2, <1>3, <1>4, <1>5, <1>6, <1>8
<1>9. CASE ~(M \subseteq L)
  BY <1>1, <1>2, <1>3, <1>4, <1>5, <1>7, <1>9
<1> QED
  BY <1>8, <1>9

\* Nothing free means that all but the last address are in use.
LEMMA NothingFree ==
    ASSUME NEW g \in Tables, Allocated(g) = 0
    PROVE  IsFiniteSet(g.used) /\ Cardinality(g.used) \in Nat /\ Max - 2 <= Cardinality(g.used)
<1> DEFINE free == {k \in 1 .. Max - 2 : After(g.last, k) \notin g.used}
           f == [k \in 1 .. Max - 2 |-> After(g.last, k)]
<1>t. g.last \in 2 .. Max /\ g.used \in SUBSET (2 .. Max) /\ Max \in Nat /\ Max >= 2
  BY AddressRange DEF Tables
<1>1. free = {}
  <2> SUFFICES ASSUME free # {} PROVE FALSE
    OBVIOUS
  <2> DEFINE k == CHOOSE x \in free : \A j \in free : x <= j
  <2>1. free \in SUBSET Nat
    BY <1>t
  <2>2. k \in free
    BY <2>1, HasLeast
  <2>3. Allocated(g) = After(g.last, k)
    BY DEF Allocated
  <2>4. After(g.last, k) \in 2 .. Max
    BY <1>t, <2>2, AfterRange
  <2> QED
    BY <1>t, <2>3, <2>4
<1>2. f \in Injection(1 .. Max - 2, g.used)
  <2>1. \A k \in 1 .. Max - 2 : After(g.last, k) \in g.used
    BY <1>1
  <2>2. ASSUME NEW j \in 1 .. Max - 2, NEW k \in 1 .. Max - 2, After(g.last, j) = After(g.last, k)
        PROVE  j = k
    BY <1>t, <2>2 DEF After
  <2> QED
    BY <2>1, <2>2 DEF Injection, IsInjective
<1>3. IsFiniteSet(g.used) /\ Cardinality(g.used) \in Nat
  <2>1. IsFiniteSet(2 .. Max)
    BY <1>t, FS_Interval
  <2> QED
    BY <1>t, <2>1, FS_Subset, FS_CardinalityType
<1>4. Cardinality(1 .. Max - 2) <= Cardinality(g.used)
  BY <1>2, <1>3, FS_Injection
<1>5. Cardinality(1 .. Max - 2) = Max - 2
  <2>1. Max - 2 \in Int /\ 1 \in Int
    BY <1>t
  <2>2. Cardinality(1 .. Max - 2) = IF 1 > Max - 2 THEN 0 ELSE (Max - 2) - 1 + 1
    BY <2>1, FS_Interval
  <2> QED
    BY <1>t, <2>2
<1> QED
  BY <1>3, <1>4, <1>5

\* A port without an address leaves an address for itself.
LEMMA OwnedFew ==
    ASSUME NEW g \in Tables, NEW p \in Port, g.port[p].addr = 0
    PROVE  LET O == Owned(g) \ {0}
           IN  IsFiniteSet(O) /\ Cardinality(O) \in Nat /\ Cardinality(O) <= NChild
<1> DEFINE O == Owned(g) \ {0}
           Q == {q \in Port \ {p} : g.port[q].connected /\ g.port[q].addr # 0}
           f == [q \in Q |-> g.port[q].addr]
<1>1. f \in Surjection(Q, O)
  <2>1. \A q \in Q : g.port[q].addr \in O
    BY DEF Owned
  <2>2. \A a \in O : \E q \in Q : g.port[q].addr = a
    BY DEF Owned
  <2> QED
    BY <2>1, <2>2 DEF Surjection
<1>2. IsFiniteSet(Port) /\ Cardinality(Port) = NChild + 1 /\ NChild \in Nat
  <2>1. Port = 0 .. NChild /\ NChild \in Nat
    BY HubAssumption DEF Port, Root, Child, HubAssumption
  <2>2. 0 \in Int /\ NChild \in Int /\ ~(0 > NChild) /\ NChild - 0 + 1 = NChild + 1
    BY <2>1
  <2>3. /\ IsFiniteSet(0 .. NChild)
        /\ Cardinality(0 .. NChild) = IF 0 > NChild THEN 0 ELSE NChild - 0 + 1
    BY <2>2, FS_Interval, Zenon
  <2> QED
    BY <2>1, <2>2, <2>3, Zenon
<1>3. IsFiniteSet(Port \ {p}) /\ Cardinality(Port \ {p}) = NChild
  <2>1. /\ IsFiniteSet(Port \ {p})
        /\ Cardinality(Port \ {p}) = IF p \in Port THEN Cardinality(Port) - 1 ELSE Cardinality(Port)
    BY <1>2, FS_RemoveElement, Zenon
  <2> QED
    BY <1>2, <2>1
<1>4. IsFiniteSet(Q) /\ Cardinality(Q) \in Nat /\ Cardinality(Q) <= NChild
  <2>1. Q \in SUBSET (Port \ {p})
    OBVIOUS
  <2> HIDE DEF Q
  <2> QED
    BY <1>3, <2>1, FS_Subset, FS_CardinalityType
<1> HIDE DEF O, Q, f
<1>5. IsFiniteSet(O) /\ Cardinality(O) <= Cardinality(Q)
  BY <1>1, <1>4, FS_Surjection
<1>6. Cardinality(O) \in Nat
  BY <1>5, FS_CardinalityType
<1> QED
  BY <1>2, <1>4, <1>5, <1>6 DEF O

\* What is paid for and what is owned does not use up the addresses.
LEMMA AddressLeft ==
    ASSUME HubInv, Paid, MaxMoves \in Nat, NChild + MaxMoves + 4 <= Max, At("descriptor")
    PROVE  Allocated(h) # 0
<1> SUFFICES ASSUME Allocated(h) = 0 PROVE FALSE
  OBVIOUS
<1> DEFINE L == Lost(h, th)
           O == Owned(h) \ {0}
           U == h.used
<1>t. /\ h \in Tables /\ th.p \in Port /\ h.port[th.p].addr = 0 /\ wire.moves \in Nat
      /\ NChild \in Nat /\ Max \in Nat /\ U \subseteq 2 .. Max
  BY Parts, HubAssumption DEF At, HubInv, Filling, Threads, Wires, HubAssumption, Tables
<1>1. Cardinality(L) <= MaxMoves
  <2>1. Due(th, wire) = 0
    BY DEF Due, At
  <2>2. Cardinality(L) \in Nat
    <3>1. IsFiniteSet(2 .. Max)
      BY AddressRange, FS_Interval
    <3>2. L \in SUBSET (2 .. Max)
      BY <1>t DEF Lost, Spare
    <3> QED
      BY <3>1, <3>2, FS_Subset, FS_CardinalityType
  <2> QED
    BY <2>1, <2>2, <1>t DEF Paid
<1>2. IsFiniteSet(U) /\ Cardinality(U) \in Nat /\ Max - 2 <= Cardinality(U)
  BY <1>t, NothingFree
<1>3. IsFiniteSet(O) /\ Cardinality(O) \in Nat /\ Cardinality(O) <= NChild
  BY <1>t, OwnedFew
<1>4. L \in SUBSET U /\ U \in SUBSET ((L \cup O) \cup {Max})
  <2>1. 0 \notin U
    BY <1>t
  <2> QED
    BY <2>1 DEF Lost, Spare, At
<1> HIDE DEF L, O, U
<1>5. IsFiniteSet(L) /\ Cardinality(L) \in Nat
  BY <1>2, <1>4, FS_Subset, FS_CardinalityType
<1>6. IsFiniteSet(L \cup O) /\ Cardinality(L \cup O) \in Nat
      /\ Cardinality(L \cup O) <= Cardinality(L) + Cardinality(O)
  <2>1. /\ IsFiniteSet(L \cup O)
        /\ Cardinality(L \cup O) = Cardinality(L) + Cardinality(O) - Cardinality(L \cap O)
    BY <1>3, <1>5, FS_Union
  <2>2. Cardinality(L \cap O) \in Nat
    <3>1. L \cap O \in SUBSET L
      OBVIOUS
    <3> QED
      BY <1>5, <3>1, FS_Subset, FS_CardinalityType
  <2>3. Cardinality(L \cup O) \in Nat
    BY <2>1, FS_CardinalityType
  <2> QED
    BY <1>3, <1>5, <2>1, <2>2, <2>3
<1>7. /\ IsFiniteSet((L \cup O) \cup {Max}) /\ Cardinality((L \cup O) \cup {Max}) \in Nat
      /\ Cardinality((L \cup O) \cup {Max}) <= Cardinality(L \cup O) + 1
  <2> DEFINE S == L \cup O
  <2> HIDE DEF S
  <2>1. IsFiniteSet(S) /\ Cardinality(S) \in Nat
    BY <1>6 DEF S
  <2>2. /\ IsFiniteSet(S \cup {Max})
        /\ Cardinality(S \cup {Max}) = IF Max \in S THEN Cardinality(S) ELSE Cardinality(S) + 1
    BY <2>1, FS_AddElement, Zenon
  <2>3. Cardinality(S \cup {Max}) \in Nat /\ Cardinality(S \cup {Max}) <= Cardinality(S) + 1
    BY <2>1, <2>2
  <2> QED
    BY <2>2, <2>3 DEF S
<1>8. Cardinality(U) <= Cardinality((L \cup O) \cup {Max})
  BY <1>4, <1>7, FS_Subset
<1> QED
  BY <1>t, <1>1, <1>2, <1>3, <1>5, <1>6, <1>7, <1>8
\* No two devices on the wire answer to one address, whatever is plugged and
\* pulled at whatever moment, as long as no transfer fails on a device that
\* is there, other than those of the interrupt pipe, and there is an address
\* for every port, for every move of the plugs, and four more: each address
\* that usbh_enumerate loses, for a device pulled before SET_ADDRESS, was
\* paid for with a move.
THEOREM HubAnswersUnique ==
    ASSUME Sound, MaxMoves \in Nat, NChild + MaxMoves + 4 <= Max
    PROVE  Spec => []AnswersUnique
<1>1. ASSUME Init PROVE Paid
  <2>1. Lost(h, th) = {} /\ Due(th, wire) = 0 /\ wire.moves = 0
    BY <1>1 DEF Init, Lost, Spare, Due
  <2> QED
    BY <2>1, FS_EmptySet DEF Paid
<1>2. HubInv /\ HubInv' /\ Paid /\ [Next]_vars => Paid'
  BY PaidStep
<1>3. HubInv /\ Paid => (At("descriptor") => Allocated(h) # 0)
  BY AddressLeft
<1> QED
  BY <1>1, <1>2, <1>3, HubInvHolds, HubAnswersWithRoom, PTL DEF Spec

=============================================================================
