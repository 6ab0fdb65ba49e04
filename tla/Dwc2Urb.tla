------------------------------ MODULE Dwc2Urb ------------------------------
(***************************************************************************)
(* src/port/dwc2/usb_hc_dwc2.c: the life of a URB on a host channel.       *)
(* Threads submit, wait and kill; the channel interrupt drives the stages  *)
(* of a transfer and completes it.  A step of a thread is one critical     *)
(* section or one unprotected access, so an interrupt or another thread    *)
(* falls between any two of them; an interrupt handler is one step.        *)
(* A URB is submitted by one thread at a time (a mutex, or its owner), so  *)
(* the pc of that thread is indexed by the URB.                            *)
(* Buffers are counted in packets.  The checks of FIFO sizes and           *)
(* arguments, cache upkeep and register layout are left out.               *)
(* External: the channel hardware, and the class drivers that submit, kill *)
(* and whose completion callback submits again after a success.            *)
(***************************************************************************)
EXTENDS Integers, Sequences, FiniteSets

CONSTANTS NChan,      (* hw_params.host_channels                           *)
          Urb,        (* the requests                                      *)
          None,       (* the NULL pointer                                  *)
          Kind,       (* what each one is: "ctl0", "ctlin", "ctlout",      *)
                      (* "bulkin", "bulkout" or "intin"                    *)
          Split,      (* those to a full speed device behind a fast hub    *)
          Sync,       (* those submitted with a timeout                    *)
          Impatient,  (* those of Sync whose timeout may run out           *)
          Again,      (* the others the callback submits again             *)
          Killable,   (* those that a thread may kill                      *)
          OwnerKills, (* ... the thread that submits it, between its calls *)
          OneCore,    (* a pending interrupt comes before the next step of *)
                      (* a thread; with more cores it may come late        *)
          Packets,    (* packets in a data stage                           *)
          Events      (* the ends of a channel's transfer that may happen  *)

Chan    == 0 .. NChan - 1
Control == {u \in Urb : Kind[u] \in {"ctl0", "ctlin", "ctlout"}}

ASSUME UrbAssumption ==
    /\ NChan \in Nat \ {0} /\ Packets \in Nat \ {0} /\ None \notin Urb
    /\ None \notin Chan /\ {"busy", "ok"} \cap Events = {}
    /\ Kind \in [Urb -> {"ctl0", "ctlin", "ctlout", "bulkin", "bulkout", "intin"}]
    /\ Impatient \subseteq Sync /\ Sync \subseteq Urb
    /\ Again \subseteq Urb \ Sync /\ Killable \subseteq Urb /\ Split \subseteq Urb

VARIABLES connected,  (* hport->connected and the port's PCSTS             *)
          hc,         (* hc.ch: chan_pool, with the count of its waitsem;  *)
                      (* hc.urb: hcpriv, errorcode, timeout, length left,  *)
                      (* and as history the stages the bus has seen of it; *)
                      (* hc.hw: external, what each channel is running     *)
          pc, at,     (* the submitting threads and their local chan       *)
          killer,     (* a thread in usbh_kill_urb, past its first check   *)
          fault,      (* a NULL pointer has been followed                  *)
          past        (* only read by the properties: a completion came    *)
                      (* after the wait for it had run out, and left the   *)
                      (* semaphore signalled (stale); a kill found its     *)
                      (* transfer ended (raced)                            *)

vars == <<connected, hc, pc, at, killer, fault, past>>

\* ep0_state as a submission sets it; a pipe has the one stage.
First(u) == CASE u \in Control -> "setup"
              [] Kind[u] = "bulkout" -> "out"
              [] OTHER -> "in"

Off == [state |-> "idle", urb |-> None, stage |-> "none", event |-> "none"]

Init ==
    /\ connected = TRUE
    /\ hc = [ch  |-> [c \in Chan |-> [inuse |-> FALSE, urb |-> None, sem |-> 0,
                                      stage |-> "setup", csplit |-> FALSE]],
             urb |-> [u \in Urb |-> [hcpriv |-> None, error |-> "unset",
                                     timed |-> FALSE, left |-> 0, seen |-> <<>>]],
             hw  |-> [c \in Chan |-> Off]]
    /\ pc = [u \in Urb |-> "idle"] /\ at = [u \in Urb |-> 0]
    /\ killer = None
    /\ fault = FALSE /\ past = [stale |-> FALSE, raced |-> FALSE]

-----------------------------------------------------------------------------
(* What the functions of the driver do to h, a value of hc.                *)

\* Faulty variant: the URB keeps its pointer to the channel.
FreeHalf(h, c) == [h EXCEPT !.ch[c].urb = None, !.ch[c].inuse = FALSE]

\* dwc2_chan_free
Free(h, c) ==
    LET u == h.ch[c].urb
        f == [h EXCEPT !.ch[c].urb = None, !.ch[c].inuse = FALSE]
    IN  IF u = None THEN f ELSE [f EXCEPT !.urb[u].hcpriv = None]

\* Faulty variant: channels in use are lent again.
AvailableAll(h) == Chan

\* dwc2_chan_alloc: the first channel not in use, its split state cleared.
Available(h) == {c \in Chan : ~h.ch[c].inuse}
Alloc(h, c) ==
    /\ c \in Available(h) /\ \A d \in Available(h) : c <= d
Taken(h, c) == [h EXCEPT !.ch[c].inuse = TRUE, !.ch[c].csplit = FALSE]

\* The second critical section of usbh_submit_urb.
Attached(h, u, c) ==
    [h EXCEPT !.ch[c].urb = u, !.urb[u].hcpriv = c, !.urb[u].error = "busy",
              !.urb[u].seen = <<>>]

\* dwc2_control_urb_init, dwc2_bulk_intr_urb_init: the channel is programmed
\* for URB u at a stage, and what it had pending is cleared.
Run(h, u, c, stage) ==
    [h EXCEPT !.ch[c].stage = stage,
              !.hw[c] = [state |-> "busy", urb |-> u, stage |-> stage, event |-> "none"]]

\* The end of usbh_submit_urb's switch, and the whole of it in a callback.
Start(h, u, c) == Run(h, u, c, First(u))
Resubmitted(h, u) ==
    LET c == CHOOSE d \in Chan : Alloc(h, d)
    IN  Start(Attached([Taken(h, c) EXCEPT !.urb[u].left = Packets], u, c), u, c)

\* Faulty variant: the channel is never given back on a completion.
WaitupKeepsChannel(h, u, code) ==
    LET c == h.urb[u].hcpriv
        e == [h EXCEPT !.urb[u].error = code]
    IN  IF h.urb[u].timed THEN [e EXCEPT !.ch[c].sem = 1]
        ELSE [e EXCEPT !.ch[c].urb = None, !.urb[u].hcpriv = None]

\* Faulty variant: a waiter's channel is freed too.
WaitupAlwaysFrees(h, u, code) ==
    LET c == h.urb[u].hcpriv
        e == [h EXCEPT !.urb[u].error = code]
    IN  Free(IF h.urb[u].timed THEN [e EXCEPT !.ch[c].sem = 1] ELSE e, c)

\* dwc2_urb_waitup and the callback it calls.  The semaphore is binary.
Waitup(h, u, code) ==
    LET c == h.urb[u].hcpriv
        e == [h EXCEPT !.urb[u].error = code]
        f == IF h.urb[u].timed THEN [e EXCEPT !.ch[c].sem = 1] ELSE Free(e, c)
    IN  IF u \in Again /\ code = "ok" /\ connected THEN Resubmitted(f, u) ELSE f

-----------------------------------------------------------------------------
(* The channel interrupt: dwc2_inchan_irq_handler and                      *)
(* dwc2_outchan_irq_handler.  u is chan->urb, c the channel, h the state   *)
(* with the channel's interrupt acknowledged.                              *)

\* A split data stage goes on packet by packet until a short one.
GoesOn(h, u, event) == u \in Split /\ h.urb[u].left > 0 /\ event = "xfrc"
Moved(h, u, event) ==
    [h EXCEPT !.urb[u].left =
        IF u \in Split /\ event = "xfrc" /\ @ > 0 THEN @ - 1 ELSE 0]

\* XFRC in the OUT handler.
AfterOut(h, u, c, event) ==
    LET s == h.ch[c].stage
    IN  CASE u \notin Control ->
               IF GoesOn(h, u, event) THEN Run(h, u, c, "out") ELSE Waitup(h, u, "ok")
          [] u \in Control /\ s = "setup" ->
               Run(h, u, c, CASE Kind[u] = "ctl0"   -> "instatus"
                              [] Kind[u] = "ctlin"  -> "in"
                              [] OTHER -> "out")
          [] u \in Control /\ s = "out" ->
               Run(h, u, c, IF GoesOn(h, u, event) THEN "out" ELSE "instatus")
          [] u \in Control /\ s = "outstatus" ->
               Waitup([h EXCEPT !.ch[c].stage = "setup"], u, "ok")
          [] OTHER -> h

\* Faulty variant: the status stage of an IN transfer is skipped.
AfterInNoStatus(h, u, c, event) ==
    IF GoesOn(h, u, event) THEN Run(h, u, c, "in") ELSE Waitup(h, u, "ok")

\* XFRC in the IN handler.
AfterIn(h, u, c, event) ==
    LET s == h.ch[c].stage
    IN  CASE u \notin Control ->
               IF GoesOn(h, u, event) THEN Run(h, u, c, "in") ELSE Waitup(h, u, "ok")
          [] u \in Control /\ s = "in" ->
               Run(h, u, c, IF GoesOn(h, u, event) THEN "in" ELSE "outstatus")
          [] u \in Control /\ s = "instatus" ->
               Waitup([h EXCEPT !.ch[c].stage = "setup"], u, "ok")
          [] OTHER -> h

\* The handler is chosen by the direction the channel ran in.
Done(h, u, c, ran) ==
    LET in == ran.stage \in {"in", "instatus"}
        g  == [h EXCEPT !.ch[c].csplit = FALSE]
        m  == IF (in /\ ran.stage = "in")
                 \/ (~in /\ (u \notin Control \/ h.ch[c].stage = "out"))
              THEN Moved(g, u, ran.event) ELSE g
    IN  IF in THEN AfterIn(m, u, c, ran.event) ELSE AfterOut(m, u, c, ran.event)

\* The stage the handler programs again: ep0_state, or the pipe's.
Current(h, u, c) == IF u \in Control THEN h.ch[c].stage ELSE First(u)

\* NAK, ACK and NYET: a split transaction starts over or completes; the
\* others fail, but for an ACK.
Handshake(h, u, c, event) ==
    LET split(b) == [h EXCEPT !.ch[c].csplit = b]
    IN  CASE u \in Split /\ event # "nak" ->
               Run(split(TRUE), u, c, Current(h, u, c))
          [] u \in Split /\ event = "nak" /\ Kind[u] # "intin" ->
               Run(split(FALSE), u, c, Current(h, u, c))
          [] u \in Split /\ event = "nak" /\ Kind[u] = "intin" ->
               Waitup(split(FALSE), u, "nak")
          [] u \notin Split /\ event = "ack" -> h
          [] OTHER -> Waitup(h, u, "nak")

Handled(h, u, c, ran) ==
    CASE ran.event \in {"xfrc", "short"}       -> Done(h, u, c, ran)
      [] ran.event \in {"nak", "ack", "nyet"}  -> Handshake(h, u, c, ran.event)
      [] OTHER                                 -> Waitup(h, u, ran.event)

\* Neither handler checks chan->urb.
Irq(c) ==
    LET ran == hc.hw[c]
        u   == hc.ch[c].urb
    IN  /\ ran.state = "halted"
        /\ \/ u = None /\ fault' = TRUE /\ UNCHANGED hc
           \/ u # None /\ hc' = Handled([hc EXCEPT !.hw[c] = Off], u, c, ran)
                       /\ UNCHANGED fault
        /\ UNCHANGED <<connected, pc, at, killer, past>>

\* External: a running channel comes to its end.  IN transfers may be short;
\* only a split transaction ends with ACK or NYET; NAKs of other control and
\* bulk transfers are retried by the hardware.
Ends(u, stage, event) ==
    CASE event = "short"          -> stage = "in"
      [] event \in {"ack", "nyet"} -> u \in Split
      [] event = "nak"            -> u \in Split \/ Kind[u] = "intin"
      [] OTHER                    -> TRUE
Hardware(c, event) ==
    LET ran == hc.hw[c]
    IN  /\ ran.state = "busy" /\ Ends(ran.urb, ran.stage, event)
        /\ hc' = [hc EXCEPT !.hw[c].state = "halted", !.hw[c].event = event,
                            !.urb[ran.urb].seen =
                                IF event \in {"xfrc", "short"} /\ Len(@) < Packets + 2
                                THEN Append(@, ran.stage) ELSE @]
        /\ UNCHANGED <<connected, pc, at, killer, fault, past>>

-----------------------------------------------------------------------------
(* usbh_submit_urb, as a thread runs it.                                   *)

Goes(u, l) == pc' = [pc EXCEPT ![u] = l]

\* The caller has just filled the URB.
Submit(u) ==
    /\ pc[u] = "idle" /\ connected /\ hc.urb[u].error # "busy"
    /\ OwnerKills => killer # u
    /\ hc' = [hc EXCEPT !.urb[u].timed = u \in Sync, !.urb[u].left = Packets]
    /\ Goes(u, "alloc")
    /\ UNCHANGED <<connected, at, killer, fault, past>>

ChanAlloc(u) ==
    /\ pc[u] = "alloc"
    /\ \/ /\ Available(hc) = {}
          /\ Goes(u, "idle") /\ UNCHANGED <<hc, at>>
       \/ \E c \in Chan :
          /\ Alloc(hc, c)
          /\ hc' = Taken(hc, c) /\ at' = [at EXCEPT ![u] = c]
          /\ Goes(u, "attach")
    /\ UNCHANGED <<connected, killer, fault, past>>

Attach(u) ==
    /\ pc[u] = "attach"
    /\ hc' = Attached(hc, u, at[u]) /\ Goes(u, "start")
    /\ UNCHANGED <<connected, at, killer, fault, past>>

StartTransfer(u) ==
    /\ pc[u] = "start"
    /\ hc' = Start(hc, u, at[u])
    /\ Goes(u, IF u \in Sync THEN "wait" ELSE "idle")
    /\ UNCHANGED <<connected, at, killer, fault, past>>

\* Faulty variant: the wait does not wait.
SemTakeAtOnce(u) ==
    /\ pc[u] = "wait"
    /\ hc' = [hc EXCEPT !.ch[at[u]].sem = 0] /\ Goes(u, "woken")
    /\ UNCHANGED <<connected, at, killer, fault, past>>

SemTake(u) ==
    /\ pc[u] = "wait" /\ hc.ch[at[u]].sem = 1
    /\ hc' = [hc EXCEPT !.ch[at[u]].sem = 0] /\ Goes(u, "woken")
    /\ UNCHANGED <<connected, at, killer, fault, past>>

Expire(u) ==
    /\ u \in Impatient /\ pc[u] = "wait" /\ hc.ch[at[u]].sem = 0
    /\ Goes(u, "expired")
    /\ UNCHANGED <<connected, hc, at, killer, fault, past>>

\* timeout = 0, and after a wake-up ret = errorcode.
ClearTimeout(u) ==
    /\ hc' = [hc EXCEPT !.urb[u].timed = FALSE]
    /\ \/ pc[u] = "woken" /\ Goes(u, "free") /\ UNCHANGED past
       \/ /\ pc[u] = "expired" /\ Goes(u, "check")
          /\ past' = [past EXCEPT !.stale = @ \/ hc.ch[at[u]].sem = 1]
    /\ UNCHANGED <<connected, at, killer, fault>>

FreeChan(u) ==
    /\ pc[u] = "free"
    /\ hc' = Free(hc, at[u]) /\ Goes(u, "idle")
    /\ UNCHANGED <<connected, at, killer, fault, past>>

-----------------------------------------------------------------------------
(* usbh_kill_urb, by the thread that gave up waiting or by another one.    *)

\* dwc2_halt does nothing to a channel that has ended already.
Halted(h, c) == IF h.hw[c].state = "busy" THEN [h EXCEPT !.hw[c] = Off] ELSE h

\* The critical section; hcpriv was checked before it.
Kill(u) ==
    LET c == hc.urb[u].hcpriv
        h == [Halted(hc, c) EXCEPT !.urb[u].error = "shutdown"]
        ended == c = None \/ hc.hw[c].state = "halted"
    IN  /\ past' = [past EXCEPT !.raced = @ \/ ended]
        /\ \/ c = None /\ fault' = TRUE /\ UNCHANGED hc
           \/ /\ c # None /\ UNCHANGED fault
              /\ hc' = IF h.urb[u].timed THEN [h EXCEPT !.ch[c].sem = 1] ELSE Free(h, c)

GiveUp(u) ==
    /\ pc[u] = "check"
    /\ Goes(u, IF hc.urb[u].hcpriv = None THEN "idle" ELSE "kill")
    /\ UNCHANGED <<connected, hc, at, killer, fault, past>>

KillOwn(u) ==
    /\ pc[u] = "kill" /\ Kill(u) /\ Goes(u, "idle")
    /\ UNCHANGED <<connected, at, killer>>

KillStarts(u) ==
    /\ killer = None /\ u \in Killable /\ hc.urb[u].hcpriv # None
    /\ OwnerKills => pc[u] = "idle"
    /\ killer' = u
    /\ UNCHANGED <<connected, hc, pc, at, fault, past>>

KillOther ==
    /\ killer # None /\ Kill(killer) /\ killer' = None
    /\ UNCHANGED <<connected, pc, at>>

\* usbh_hubport_release, and a later enumeration.
Connection ==
    /\ connected' = ~connected
    /\ UNCHANGED <<hc, pc, at, killer, fault, past>>

Thread(u) ==
    \/ Submit(u) \/ ChanAlloc(u) \/ Attach(u) \/ StartTransfer(u)
    \/ SemTake(u) \/ Expire(u) \/ ClearTimeout(u) \/ FreeChan(u)
    \/ GiveUp(u)

\* A transfer may end while a critical section holds its interrupt back; it
\* matters in that of usbh_kill_urb, which looks at the channel.
Served == OneCore => \A c \in Chan : hc.hw[c].state # "halted"

Next ==
    /\ ~fault
    /\ \/ \E u \in Urb : (Served /\ (Thread(u) \/ KillStarts(u))) \/ KillOwn(u)
       \/ KillOther
       \/ \E c \in Chan : Irq(c) \/ \E event \in Events : Hardware(c, event)
       \/ Connection

Spec == Init /\ [][Next]_vars

-----------------------------------------------------------------------------
(* Properties.                                                             *)

\* A URB and a channel point at each other or not at all, whatever interrupts,
\* kills and expired waits come between the two critical sections of a submission
\* (chan->urb = urb and urb->hcpriv = chan; dwc2_chan_free undoes both), unless
\* some completion came after the wait for it had run out and before
\* urb->timeout = 0: every property has this exception, and WaitsemDone says why.
Attachment ==
    ~past.stale => \A u \in Urb, c \in Chan : hc.urb[u].hcpriv = c <=> hc.ch[c].urb = u

\* The pool leaks no channel and lends none twice: one is in use while a URB
\* has it or a submission is about to attach it (chan_pool[].inuse).
PoolAccounts ==
    ~past.stale => \A c \in Chan : hc.ch[c].inuse <=>
        \/ \E u \in Urb : hc.urb[u].hcpriv = c
        \/ \E u \in Urb : pc[u] = "attach" /\ at[u] = c

\* errorcode 0 is the end of all of the URB's own stages in order, split
\* transactions started over or not, and of no other URB's.
Complete(u, s) ==
    LET dir == CASE Kind[u] \in {"ctlin", "bulkin", "intin"} -> "in"
                 [] Kind[u] \in {"ctlout", "bulkout"} -> "out"
                 [] OTHER -> "none"
        data(d) == /\ d # <<>> /\ \A k \in DOMAIN d : d[k] = dir
                   /\ dir = "out" => Len(d) = (IF u \in Split THEN Packets ELSE 1)
    IN  CASE u \notin Control -> data(s)
          [] Kind[u] = "ctl0"  -> s = <<"setup", "instatus">>
          [] OTHER -> /\ Len(s) > 2 /\ s[1] = "setup"
                      /\ data(SubSeq(s, 2, Len(s) - 1))
                      /\ s[Len(s)] = IF dir = "in" THEN "outstatus" ELSE "instatus"
SuccessIsComplete ==
    ~past.stale => \A u \in Urb : hc.urb[u].error = "ok" => Complete(u, hc.urb[u].seen)

\* "we can free chan when waitsem is done": a thread woken by the semaphore
\* finds its transfer over ...
FreedWhenDone ==
    ~past.stale => \A u \in Urb : pc[u] \in {"woken", "free"} => hc.urb[u].error # "busy"

\* ... and the channel it then frees is still its own.
FreesOwnChannel ==
    ~past.stale => \A u \in Urb : pc[u] = "free" =>
        /\ hc.ch[at[u]].urb \in {u, None}
        /\ \A v \in Urb : pc[v] = "attach" => at[v] # at[u]

\* No interrupt handler meets its channel without a URB (chan->urb is never
\* checked), unless usbh_kill_urb met a transfer that had just ended: dwc2_halt
\* leaves such a channel alone, and hcpriv may be gone since it was checked.
NoFault == ~past.stale /\ fault => past.raced

\* "we can free chan when waitsem is done", without the exception.
WaitsemDone == \A u \in Urb : pc[u] = "woken" => hc.urb[u].error # "busy"
=============================================================================
