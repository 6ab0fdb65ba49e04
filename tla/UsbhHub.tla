------------------------------ MODULE UsbhHub ------------------------------
(***************************************************************************)
(* src/class/hub/usbh_hub.c and the enumeration of src/core/usbh_core.c:   *)
(* the hub thread of one bus, its message queue, the root hub of one port  *)
(* and one external hub with its interrupt pipe and timer.                 *)
(* A step of the thread is one control transfer or port access, with what  *)
(* the code does up to the next one.  A read of a port's status and the    *)
(* clearing of its change bit inside the debounce loop are one step.       *)
(* Transfers fail when the device does not answer, and wherever Faults     *)
(* lets them; usbh_control_transfer has then tried three times, or once    *)
(* when it ran out of time.                                                *)
(* External: the wire (who is plugged in where, which address each device  *)
(* answers to), the ports of the external hub, and the class drivers.      *)
(* The contents of descriptors, speeds, power and over-current are left    *)
(* out; a device has one interface.                                        *)
(***************************************************************************)
EXTENDS Integers, Sequences

CONSTANTS NChild,     (* ports of the external hub                         *)
          Kinds,      (* what may be plugged into the root port            *)
          Max,        (* USB_DEV_ADDR_MAX; addresses are 2 .. Max          *)
          QLen,       (* length of hub_mq, 7 in the code                   *)
          Stable,     (* HUB_DEBOUNCE_STABLE in steps                      *)
          MaxReads,   (* HUB_DEBOUNCE_TIMEOUT in steps                     *)
          Removable,  (* ports that may be unplugged                       *)
          MaxMoves,   (* bound on the moves                                *)
          Sends,      (* what usb_osal_mq_send does in a thread when the   *)
                      (* queue is full: it waits (usb_osal_freertos.c) or  *)
                      (* fails (usb_osal_rtthread.c, usb_osal_threadx.c)   *)
          Faults      (* steps that may fail on a device that answers      *)

Root  == 0
Child == 1 .. NChild
Port  == {Root} \cup Child

ASSUME HubAssumption ==
    /\ NChild \in Nat /\ Stable \in Nat \ {0} /\ MaxReads \in Nat /\ QLen \in Nat \ {0}
    /\ Max \in Nat /\ NChild + 3 <= Max     \* an address for every port, and one
    /\ Kinds \subseteq {"func", "hub"} /\ Removable \subseteq Port
    /\ Sends \subseteq {"waits", "fails"}

VARIABLES h,      (* the host's tables: struct usbh_hubport per port, the  *)
                  (* address bitmap, the one slot of g_hub_class, mq       *)
          th,     (* the hub thread: where it is, hub, portchange_index,   *)
                  (* port and the locals of the debounce loop              *)
          deinit, (* the thread that calls usbh_hub_deinitialize           *)
          wire    (* external: plug, csc and ans per port, powered, moves  *)

vars == <<h, th, deinit, wire>>

Gone == -1      \* a device that answers to no address
NoPort == [connected |-> FALSE, addr |-> 0, inst |-> FALSE]
NoSlot == [inuse |-> FALSE, connected |-> FALSE, timer |-> "none", urb |-> "idle"]

Init ==
    /\ h = [port |-> [p \in Port |-> NoPort], used |-> {}, last |-> Max,
            slot |-> NoSlot, intbuf |-> {}, mq |-> <<>>]
    /\ th = [pc |-> "recv", hub |-> "root", todo |-> {}, p |-> Root,
             reads |-> 0, stable |-> 0, connection |-> FALSE, addr |-> 0]
    /\ deinit = "no"
    /\ wire = [plug |-> [p \in Port |-> "none"], csc |-> [p \in Port |-> FALSE],
               ans |-> [p \in Port |-> Gone], powered |-> FALSE, moves |-> 0]

-----------------------------------------------------------------------------
(* What the functions of the host do to its tables g.                      *)

\* Faulty variant: the queue has no end.
WokenAlways(g, hub) == [g EXCEPT !.mq = Append(@, hub)]

\* usb_osal_mq_send from an interrupt: a full queue drops the message.
Woken(g, hub) == IF Len(g.mq) < QLen THEN [g EXCEPT !.mq = Append(@, hub)] ELSE g

\* Faulty variant: a hub that goes away leaves the ports behind it.
ReleasedAlone(g, p) ==
    [g EXCEPT !.port[p] = [NoPort EXCEPT !.addr = g.port[p].addr],
              !.used = @ \ {g.port[p].addr},
              !.slot = IF p = Root /\ g.port[p].inst THEN NoSlot ELSE @]

\* usbh_hubport_release: a connected port gives its address back and its
\* class driver goes; a hub's driver stops its pipe and timer, releases its
\* ports and frees the slot.  The address Max is never given back.
Freed(g, P) == {g.port[q].addr : q \in {q \in P : g.port[q].connected}} \ {Max}
Released(g, p) ==
    LET hubGoes == p = Root /\ g.port[p].inst /\ g.slot.inuse
        P == IF hubGoes THEN Port ELSE {p}
    IN  IF ~g.port[p].connected THEN g
        ELSE [g EXCEPT
                !.port = [q \in Port |-> IF q \notin P THEN g.port[q]
                                         ELSE [NoPort EXCEPT !.addr = g.port[q].addr]],
                !.used = @ \ Freed(g, P),
                !.slot = IF hubGoes THEN NoSlot ELSE @]

\* Faulty variant: the first address, whatever the bitmap says.
AllocatedLowest(g) == 2

\* usbh_allocate_devaddr: the next free address after the last one given,
\* round robin; 0 stands for -USB_ERR_NOMEM (the last one itself is not tried).
After(a, k) == IF a + k > Max THEN a + k - Max + 1 ELSE a + k
Allocated(g) ==
    LET free == {k \in 1 .. Max - 2 : After(g.last, k) \notin g.used}
    IN  IF free = {} THEN 0
        ELSE After(g.last, CHOOSE k \in free : \A j \in free : k <= j)

-----------------------------------------------------------------------------
(* Transfers.                                                              *)

\* A device answers the host when it is there and has the address that the
\* host uses.
Answers(p, a) == wire.ans[p] = a

\* The hub that port p belongs to can be asked about it: always for the root
\* hub, whose registers are read.
HubAnswers(p) ==
    p # Root => /\ h.port[Root].connected
                /\ Answers(Root, h.port[Root].addr)

\* The outcomes of a step that succeeds when ok.
Outcomes(step, ok) == {ok} \cup (IF step \in Faults THEN {FALSE} ELSE {})

-----------------------------------------------------------------------------
(* The thread.                                                             *)

At(pc) == th.pc = pc
Goto(pc) == th' = [th EXCEPT !.pc = pc]

\* The next message; NULL ends the thread (Exit).  A hub that has gone, or is
\* not registered yet, has no events.
Recv ==
    /\ At("recv") /\ h.mq # <<>> /\ Head(h.mq) # "NULL"
    /\ h' = [h EXCEPT !.mq = Tail(@)]
    /\ LET hub == Head(h.mq)
       IN  IF hub = "hub" /\ ~h.slot.connected THEN UNCHANGED th
           ELSE th' = [th EXCEPT !.pc = "scan", !.hub = hub,
                         !.todo = IF hub = "root" THEN {Root} ELSE h.intbuf]
    /\ UNCHANGED <<deinit, wire>>

\* The next port of portchange_index: its status, and whether it changed.
Scan ==
    /\ At("scan") /\ th.todo # {}
    /\ LET p == CHOOSE q \in th.todo : \A r \in th.todo : q <= r
       IN  \E ok \in Outcomes("status", HubAnswers(p)) :
             th' = [th EXCEPT !.todo = @ \ {p}, !.p = p,
                      !.pc = IF ok /\ wire.csc[p] THEN "clear" ELSE "scan"]
    /\ UNCHANGED <<h, deinit, wire>>

\* The end of usbh_hub_events: the interrupt pipe of the hub goes on.
ScanEnds ==
    /\ At("scan") /\ th.todo = {}
    /\ h' = IF th.hub = "hub" /\ h.slot.connected
            THEN [h EXCEPT !.slot.timer = "running"] ELSE h
    /\ Goto("recv") /\ UNCHANGED <<deinit, wire>>

\* The loop that clears the change bits goes round until it succeeds.
Clear ==
    /\ At("clear") /\ HubAnswers(th.p)
    /\ wire' = [wire EXCEPT !.csc[th.p] = FALSE]
    /\ th' = [th EXCEPT !.pc = "debounce", !.reads = 0, !.stable = 0,
                        !.connection = FALSE]
    /\ UNCHANGED <<h, deinit>>

\* One turn of the debounce loop.
Debounce ==
    /\ At("debounce") /\ th.reads < MaxReads /\ th.stable < Stable
    /\ \E ok \in Outcomes("status", HubAnswers(th.p)) :
         LET now == wire.plug[th.p] # "none"
             still == ~wire.csc[th.p] /\ now = th.connection
         IN  IF ~ok THEN /\ th' = [th EXCEPT !.reads = @ + 1] /\ UNCHANGED wire
             ELSE /\ th' = [th EXCEPT !.reads = @ + 1,
                              !.stable = IF still THEN @ + 1 ELSE 0,
                              !.connection = now]
                  /\ wire' = [wire EXCEPT !.csc[th.p] = FALSE]
    /\ UNCHANGED <<h, deinit>>

\* Faulty variant: a port found empty keeps its device.
SettledKeeps ==
    /\ At("debounce") /\ th.stable = Stable
    /\ Goto(IF th.connection THEN "reset" ELSE "scan")
    /\ UNCHANGED <<h, deinit, wire>>

\* Stable: a device is reset and enumerated, an empty port is released.
Settled ==
    /\ At("debounce") /\ th.stable = Stable
    /\ IF th.connection THEN Goto("reset") /\ UNCHANGED h
       ELSE h' = Released(h, th.p) /\ Goto("scan")
    /\ UNCHANGED <<deinit, wire>>

\* "Failed to debounce port": the loop over the ports ends.
Unsettled ==
    /\ At("debounce") /\ th.stable < Stable /\ th.reads = MaxReads
    /\ th' = [th EXCEPT !.pc = "scan", !.todo = {}]
    /\ UNCHANGED <<h, deinit, wire>>

\* The reset port's device answers to address 0; a reset hub forgets its
\* ports.  The root port reports a reset without a device as a failure.
Reset ==
    /\ At("reset")
    /\ LET p == th.p
           there == wire.plug[p] # "none"
           can == IF p = Root THEN there ELSE HubAnswers(p)
       IN  \E ok \in Outcomes("reset", can) :
             /\ Goto(IF ok THEN "enable" ELSE "scan")
             /\ wire' = IF ~can \/ ~there THEN wire
                        ELSE [wire EXCEPT !.ans = [q \in Port |->
                                IF q = p THEN 0 ELSE IF p = Root THEN Gone ELSE @[q]],
                              !.powered = @ /\ p # Root,
                              !.csc = [q \in Port |-> @[q] /\ (p # Root \/ q = Root)]]
    /\ UNCHANGED <<h, deinit>>

\* The status after the reset.  An enabled port is released and belongs to
\* its new device; one that failed to be enabled is released.
Enabled ==
    /\ At("enable")
    /\ LET p == th.p
       IN  \E ok \in Outcomes("status", HubAnswers(p)) :
             \/ ~ok /\ Goto("scan") /\ UNCHANGED h
             \/ ok /\ wire.ans[p] = Gone /\ h' = Released(h, p) /\ Goto("scan")
             \/ /\ ok /\ wire.ans[p] # Gone /\ Goto("descriptor")
                /\ h' = [Released(h, p) EXCEPT !.port[p] = [NoPort EXCEPT !.connected = TRUE]]
    /\ UNCHANGED <<deinit, wire>>

-----------------------------------------------------------------------------
(* usbh_enumerate and the connect function of the class.                   *)

\* "errout", and the caller releases the port.
Fail(p) == h' = Released(h, p) /\ Goto("scan")

\* The first descriptor, at address 0, and the address.  Without a free one
\* the function returns the result of parsing the descriptor: success.
Descriptor ==
    /\ At("descriptor")
    /\ \E ok \in Outcomes("descriptor", Answers(th.p, 0)) :
         LET a == Allocated(h)
         IN  \/ ~ok /\ Fail(th.p)
             \/ ok /\ a = 0 /\ Goto("scan") /\ UNCHANGED h
             \/ /\ ok /\ a # 0
                /\ h' = [h EXCEPT !.used = @ \cup {a}, !.last = a]
                /\ th' = [th EXCEPT !.pc = "address", !.addr = a]
    /\ UNCHANGED <<deinit, wire>>

\* SET_ADDRESS: every device that answers to 0 takes it.  hport->dev_addr is
\* set after it, so a failure does not give the address back.
SetAddress ==
    /\ At("address")
    /\ \E ok \in Outcomes("address", Answers(th.p, 0)) :
         \/ ~ok /\ Fail(th.p) /\ UNCHANGED wire
         \/ /\ ok /\ Goto("config")
            /\ h' = [h EXCEPT !.port[th.p].addr = th.addr]
            /\ wire' = [wire EXCEPT !.ans = [q \in Port |-> IF @[q] = 0 THEN th.addr ELSE @[q]]]
    /\ UNCHANGED deinit

\* The descriptors and SET_CONFIGURATION, to the new address.
Configure ==
    /\ At("config")
    /\ \E ok \in Outcomes("config", Answers(th.p, th.addr)) :
         IF ok THEN Goto("class") /\ UNCHANGED h ELSE Fail(th.p)
    /\ UNCHANGED <<deinit, wire>>

\* CLASS_CONNECT of a function: its instance, or the port is released.
ClassConnect ==
    /\ At("class") /\ wire.plug[th.p] # "hub"
    /\ \E ok \in Outcomes("class", Answers(th.p, th.addr)) :
         IF ok THEN h' = [h EXCEPT !.port[th.p].inst = TRUE] /\ Goto("scan")
         ELSE Fail(th.p)
    /\ UNCHANGED <<deinit, wire>>

\* usbh_hub_connect takes the slot before its first transfer.
HubConnect ==
    /\ At("class") /\ wire.plug[th.p] = "hub"
    /\ h' = [h EXCEPT !.port[th.p].inst = TRUE, !.slot = [NoSlot EXCEPT !.inuse = TRUE]]
    /\ Goto("power") /\ UNCHANGED <<deinit, wire>>

\* ... then powers the ports, and starts the timer of the interrupt pipe.
HubPower ==
    /\ At("power")
    /\ \E ok \in Outcomes("power", HubAnswers(CHOOSE c \in Child : TRUE)) :
         \/ ~ok /\ Fail(Root) /\ UNCHANGED wire
         \/ /\ ok /\ Goto("scan")
            /\ h' = [h EXCEPT !.slot.connected = TRUE, !.slot.timer = "running",
                       !.port = [p \in Port |-> IF p = Root THEN @[p] ELSE NoPort]]
            /\ wire' = [wire EXCEPT !.powered = TRUE,
                          !.csc = [p \in Port |-> IF p = Root THEN @[p]
                                                  ELSE wire.plug[p] # "none"]]
    /\ UNCHANGED deinit

\* Faulty variant: the thread ends without releasing the ports.
ExitKeeps ==
    /\ At("recv") /\ h.mq # <<>> /\ Head(h.mq) = "NULL"
    /\ h' = [h EXCEPT !.mq = <<>>]
    /\ Goto("exit") /\ deinit' = "given" /\ UNCHANGED wire

\* NULL: the root ports are released, the controller is stopped and the queue
\* deleted, the semaphore of usbh_hub_deinitialize given.
Exit ==
    /\ At("recv") /\ h.mq # <<>> /\ Head(h.mq) = "NULL"
    /\ h' = [Released(h, Root) EXCEPT !.mq = <<>>]
    /\ Goto("exit") /\ deinit' = "given" /\ UNCHANGED wire

Thread ==
    \/ Recv \/ Scan \/ ScanEnds \/ Clear \/ Debounce \/ Settled \/ Unsettled
    \/ Reset \/ Enabled \/ Descriptor \/ SetAddress \/ Configure
    \/ ClassConnect \/ HubConnect \/ HubPower \/ Exit

-----------------------------------------------------------------------------
(* The timer, the interrupt pipe and the other thread.                     *)

\* Faulty variant: the timer is not started again after a NAK.
IntNaks(g) == g

\* hub_int_complete_callback after a NAK.
IntNak(g) == [g EXCEPT !.slot.timer = "running"]

\* hub_int_timeout: the URB is submitted, in vain when the port is empty.
TimerFires ==
    /\ h.slot.timer = "running"
    /\ h' = [h EXCEPT !.slot.timer = "idle",
               !.slot.urb = IF h.port[Root].connected /\ wire.plug[Root] # "none"
                            THEN "busy" ELSE @]
    /\ UNCHANGED <<th, deinit, wire>>

\* hub_int_complete_callback: the bits of the changed ports, a NAK when there
\* are none, or an error, which ends the polling.
IntCompletes ==
    /\ h.slot.urb = "busy"
    /\ LET idle == [h EXCEPT !.slot.urb = "idle"]
           changed == {c \in Child : wire.csc[c]}
       IN  \E ok \in Outcomes("poll", HubAnswers(CHOOSE c \in Child : TRUE)) :
             h' = IF ~ok THEN idle
                  ELSE IF changed = {} THEN IntNak(idle)
                  ELSE Woken([idle EXCEPT !.intbuf = changed], "hub")
    /\ UNCHANGED <<th, deinit, wire>>

QueueHasRoom == Len(h.mq) < QLen
SendNull == h' = [h EXCEPT !.mq = Append(@, "NULL")] /\ deinit' = "sent"

\* usbh_hub_deinitialize sends NULL and waits for the semaphore.  A full queue
\* makes it wait for room, or it fails: the result is not looked at, and no one
\* will give the semaphore.
Deinitialize ==
    /\ deinit = "no"
    /\ \/ QueueHasRoom /\ SendNull
       \/ ~QueueHasRoom /\ "waits" \in Sends /\ deinit' = "full" /\ UNCHANGED h
       \/ ~QueueHasRoom /\ "fails" \in Sends /\ deinit' = "lost" /\ UNCHANGED h
    /\ UNCHANGED <<th, wire>>

\* There is room for it now.
SendEnds == deinit = "full" /\ QueueHasRoom /\ SendNull /\ UNCHANGED <<th, wire>>

\* It has the semaphore, deletes it and deletes hub_mq, which the thread has
\* already deleted: that returns, or faults when the allocator looks.
DeinitEnds ==
    /\ deinit = "given" /\ deinit' \in {"done", "fault"}
    /\ UNCHANGED <<h, th, wire>>

Deinit == Deinitialize \/ SendEnds \/ DeinitEnds

-----------------------------------------------------------------------------
(* The wire, with the port interrupt of the root port.                     *)

\* A change of the root port sets port_csc and int_buffer and sends a message.
PortIrq(p) == IF p = Root THEN h' = Woken(h, "root") ELSE UNCHANGED h

CanMove == wire.moves < MaxMoves /\ ~At("exit")

Plug(p, kind) ==
    /\ CanMove /\ wire.plug[p] = "none"
    /\ IF p = Root THEN kind \in Kinds
       ELSE wire.plug[Root] = "hub" /\ kind = "func"
    /\ wire' = [wire EXCEPT !.plug[p] = kind, !.moves = @ + 1,
                  !.csc[p] = @ \/ p = Root \/ wire.powered]
    /\ PortIrq(p) /\ UNCHANGED <<th, deinit>>

\* A hub takes what is plugged into it along.
Unplug(p) ==
    /\ CanMove /\ p \in Removable /\ wire.plug[p] # "none"
    /\ LET gone == IF p = Root THEN Port ELSE {p}
       IN  wire' = [plug |-> [q \in Port |-> IF q \in gone THEN "none" ELSE wire.plug[q]],
                    ans  |-> [q \in Port |-> IF q \in gone THEN Gone ELSE wire.ans[q]],
                    csc  |-> [q \in Port |-> IF q = p THEN q = Root \/ wire.powered
                                             ELSE wire.csc[q] /\ q \notin gone],
                    powered |-> wire.powered /\ p # Root,
                    moves |-> wire.moves + 1]
    /\ PortIrq(p) /\ UNCHANGED <<th, deinit>>

Next ==
    \/ Thread
    \/ TimerFires \/ IntCompletes
    \/ Deinit
    \/ \E p \in Port : Unplug(p) \/ \E kind \in {"func", "hub"} : Plug(p, kind)

Spec == Init /\ [][Next]_vars

\* Fairness: the hub thread runs, timers run out, transfers complete, and the
\* thread that waits for room or for the semaphore wakes up.
FairSpec == Spec /\ WF_vars(Thread) /\ WF_vars(TimerFires) /\ WF_vars(IntCompletes)
                 /\ WF_vars(SendEnds) /\ WF_vars(DeinitEnds)

-----------------------------------------------------------------------------
(* Properties.                                                             *)

Deinits == {"no", "full", "sent", "lost", "given", "done", "fault"}

TypeOK ==
    /\ h \in [port : [Port -> [connected : BOOLEAN, addr : Nat, inst : BOOLEAN]],
              used : SUBSET (2 .. Max), last : 2 .. Max,
              slot : [inuse : BOOLEAN, connected : BOOLEAN,
                      timer : {"none", "idle", "running"}, urb : {"idle", "busy"}],
              intbuf : SUBSET Child, mq : Seq({"root", "hub", "NULL"})]
    /\ Len(h.mq) <= QLen
    /\ th \in [pc : {"recv", "scan", "clear", "debounce", "reset", "enable",
                     "descriptor", "address", "config", "class", "power", "exit"},
               hub : {"root", "hub"}, todo : SUBSET Port, p : Port,
               reads : Nat, stable : Nat, connection : BOOLEAN, addr : Nat]
    /\ deinit \in Deinits
    /\ wire \in [plug : [Port -> {"none", "func", "hub"}], csc : [Port -> BOOLEAN],
                 ans : [Port -> Int], powered : BOOLEAN, moves : Nat]

\* Two devices in use never have the same address, and each has its own
\* marked in the bitmap, through every failure of an enumeration.
AddressesUnique ==
    \A p \in Port : h.port[p].connected /\ h.port[p].addr # 0 =>
        /\ h.port[p].addr \in h.used
        /\ \A q \in Port \ {p} : h.port[q].connected => h.port[q].addr # h.port[p].addr

\* No part of a hub outlives it: its ports, pipe and timer are there only
\* while the slot is a hub that is connected to the root port, and an
\* instance of a class only while its port is connected.
NoOrphans ==
    /\ \A c \in Child : h.port[c].connected => h.slot.connected
    /\ h.slot.timer # "none" \/ h.slot.urb # "idle" => h.slot.connected
    /\ h.slot.inuse => h.port[Root].inst
    /\ \A p \in Port : h.port[p].inst => h.port[p].connected

\* On the wire no two devices answer to one address.
AnswersUnique ==
    \A p, q \in Port : p # q /\ wire.ans[p] # Gone => wire.ans[p] # wire.ans[q]

\* The polling of a registered hub never dies: its timer runs, its URB is in
\* flight, its message is queued, or the thread is at work for it or has the
\* root port's change to see.
PollingAlive ==
    h.slot.connected =>
        \/ h.slot.timer = "running" \/ h.slot.urb = "busy"
        \/ \E i \in DOMAIN h.mq : h.mq[i] \in {"hub", "NULL"}
        \/ ~At("recv") /\ th.hub = "hub"
        \/ ~HubAnswers(CHOOSE c \in Child : TRUE)

\* The loop over the change bits has no way out of a transfer that fails.
Stuck == At("clear") /\ ~HubAnswers(th.p)

\* The tables follow the wire: once the plugs stop moving, a port has a
\* device with its class if and only if something is plugged in, unless the
\* thread is stuck on a hub that was pulled at the wrong moment.
Follows ==
    <>[](Stuck \/ deinit # "no" \/ \A p \in Port :
            /\ h.port[p].connected <=> wire.plug[p] # "none"
            /\ h.port[p].inst <=> wire.plug[p] # "none")

\* usbh_hub_deinitialize, once its NULL is in the queue or waits for room,
\* comes to its end whatever the thread is at and whatever fails, and then
\* nothing is left in use: no port and no slot.  Its end is the second deletion
\* of the queue; a NULL that was dropped is what it does not survive.
AllFree == \A p \in Port : ~h.port[p].connected
DeinitReturns ==
    deinit \in {"full", "sent"} ~>
        Stuck \/ (deinit \in {"done", "fault"} /\ AllFree /\ h.slot = NoSlot)

\* "First, clear all change bits" comes to an end: pulling a hub does not
\* hold up the thread that would handle it.
ClearEnds == At("clear") ~> ~At("clear")
=============================================================================
