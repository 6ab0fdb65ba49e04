------------------------------ MODULE UsbdEp0 ------------------------------
(***************************************************************************)
(* src/core/usbd_core.c, the control pipe: the three EP0 interrupt         *)
(* handlers and what they keep in g_usbd_core[busid].  The request handler *)
(* behind them (standard, class or vendor) is any answer in Offers, or a   *)
(* refusal; UsbdDevice models the standard ones.                           *)
(*                                                                         *)
(* External, from the contract of usb_dc.h and the drivers under src/port: *)
(* an armed endpoint answers tokens, an unarmed one NAKs; a driver moves   *)
(* either the whole transfer or one packet before it reports completion;   *)
(* SETUP is always taken, disarms EP0 and ends a stall; completions are    *)
(* handled before the SETUP or the reset that came after them, and all of  *)
(* them before the next token is answered; a stall is per direction.       *)
(* The host follows chapter 8 of the USB specification, retries what was   *)
(* NAKed and may abandon a transfer with a new SETUP or a bus reset.       *)
(***************************************************************************)
EXTENDS Integers

CONSTANTS MPS,     (* USB_CTRL_EP_MPS                                      *)
          BufLen,  (* CONFIG_USBDEV_REQUEST_BUFFER_LEN                     *)
          MaxLen,  (* bound: the largest wLength of a host                 *)
          Offers   (* bound: the lengths a request handler may offer       *)

ASSUME Ep0Assumption == /\ MPS \in Nat \ {0} /\ BufLen \in Nat
                        /\ MaxLen \in Nat /\ Offers \subseteq Nat

VARIABLES setup,    (* core.setup: direction and wLength                   *)
          next,     (* core.ep0_next_state                                 *)
          ptr,      (* core.ep0_data_buf, as an offset in req_data         *)
          residue,  (* core.ep0_data_buf_residue                           *)
          zlp,      (* core.zlp_flag                                       *)
          mem,      (* core.req_data: which byte of the host's data each   *)
                    (* place holds, or Stale                               *)
          verdict,  (* history: what the handler said of core.setup        *)
          arm,      (* driver: the armed transfer of each direction        *)
          stall,    (* driver: EP0 IN answers STALL                        *)
          done,     (* driver: the completion the core has not yet seen    *)
          bus,      (* driver: the SETUP or reset the core has not yet seen *)
          host,     (* host: stage, direction, wLength and bytes moved     *)
          got       (* host: which byte of the reply each byte it has was  *)

coreVars == <<setup, next, ptr, residue, zlp, mem, verdict>>
dcdVars  == <<arm, stall, done, bus>>
hostVars == <<host, got>>
vars     == <<coreVars, dcdVars, hostVars>>

-----------------------------------------------------------------------------
Least(a, b) == IF a < b THEN a ELSE b

Stale == -1
Clean == [i \in 0 .. BufLen - 1 |-> Stale]

Off     == [on |-> FALSE, off |-> 0, len |-> 0, sent |-> 0]
NoArms  == [in |-> Off, out |-> Off]
NoDone  == [ep |-> "none", n |-> 0]
Pending == [st |-> "pending", len |-> 0]
Refused == [st |-> "refused", len |-> 0]
Accepted(len) == [st |-> "accepted", len |-> len]

\* How much of a request for n bytes a driver does before it reports.
Portion(n) == {n, Least(n, MPS)}

Init ==
    /\ setup = [dir |-> "out", len |-> 0]
    /\ next = "SETUP" /\ ptr = 0 /\ residue = 0 /\ zlp = FALSE
    /\ mem = Clean /\ verdict = Refused
    /\ arm = NoArms /\ stall = FALSE /\ done = NoDone /\ bus = "none"
    /\ host = [stage |-> "idle", dir |-> "out", len |-> 0, moved |-> 0]
    /\ got = [i \in {} |-> 0]

-----------------------------------------------------------------------------
(* Calls from the core into the driver: usbd_ep_start_write, _start_read,  *)
(* usbd_ep_set_stall.                                                      *)

StartWrite(off, n) ==
    /\ \E c \in Portion(n) :
         arm' = [arm EXCEPT !.in = [on |-> TRUE, off |-> off, len |-> c, sent |-> 0]]
    /\ UNCHANGED stall

StartRead(off, n) ==
    /\ \E c \in Portion(n) :
         arm' = [arm EXCEPT !.out = [on |-> TRUE, off |-> off, len |-> c, sent |-> 0]]
    /\ UNCHANGED stall

SetStall == stall' = TRUE /\ UNCHANGED arm

-----------------------------------------------------------------------------
(* usbd_event_ep0_setup_complete_handler.                                  *)

Taken == done.ep = "none" /\ bus = "setup" /\ bus' = "none" /\ UNCHANGED done

NewSetup == [dir |-> host.dir, len |-> host.len]

\* An OUT request longer than the buffer: EP0 IN is stalled, nothing else
\* changes, ep0_next_state and the residue included.
SetupTooLong ==
    /\ Taken
    /\ host.dir = "out" /\ host.len > BufLen
    /\ setup' = NewSetup /\ verdict' = Refused
    /\ SetStall
    /\ UNCHANGED <<next, ptr, residue, zlp, mem, hostVars>>

\* An OUT request with data: the handler waits until all of it is there.
SetupOutData ==
    /\ Taken
    /\ host.dir = "out" /\ host.len \in 1 .. BufLen
    /\ setup' = NewSetup /\ verdict' = Pending
    /\ ptr' = 0 /\ residue' = host.len /\ zlp' = FALSE
    /\ next' = "OUT_DATA"
    /\ StartRead(0, host.len)
    /\ UNCHANGED <<mem, hostVars>>

SetupRefused ==
    /\ Taken
    /\ host.dir = "in" \/ host.len = 0
    /\ setup' = NewSetup /\ verdict' = Refused
    /\ ptr' = 0 /\ residue' = host.len /\ zlp' = FALSE
    /\ next' = "SETUP"
    /\ SetStall
    /\ UNCHANGED <<mem, hostVars>>

\* Faulty variant: no ZLP.
NeedsZlpNever(wLength, offered) == FALSE
NeedsZlp(wLength, offered) == wLength > offered /\ offered % MPS = 0

\* Send smallest of requested and offered length; the faulty variant sends
\* all that is offered.
ReplyUncut(wLength, offered) == offered
Reply(wLength, offered) == Least(offered, wLength)

\* A reply longer than the request buffer is refused; or, faulty, sent.
ReplyFitsUnchecked(n) == TRUE
ReplyFits(n) == n <= BufLen

SetupAccepted(offered) ==
    /\ Taken
    /\ host.dir = "in" \/ host.len = 0
    /\ setup' = NewSetup /\ verdict' = Accepted(offered)
    /\ ptr' = 0
    /\ residue' = Reply(host.len, offered)
    /\ \/ /\ ReplyFits(residue')
          /\ next' = IF residue' > 0 THEN "IN_DATA" ELSE "IN_STATUS"
          /\ StartWrite(0, residue')
          /\ zlp' = NeedsZlp(host.len, offered)
       \/ /\ ~ReplyFits(residue')
          /\ next' = "SETUP" /\ zlp' = FALSE
          /\ SetStall
    /\ UNCHANGED <<mem, hostVars>>

-----------------------------------------------------------------------------
(* usbd_event_ep0_in_complete_handler.                                     *)

Completed(ep) == done.ep = ep /\ done' = NoDone /\ UNCHANGED bus

\* Faulty variant: the pointer stays behind.
AdvancePtrForgotten == ptr
AdvancePtr == ptr + done.n

InMore ==
    /\ Completed("in")
    /\ residue # done.n
    /\ ptr' = AdvancePtr /\ residue' = residue - done.n
    /\ StartWrite(ptr', residue')
    /\ UNCHANGED <<setup, next, zlp, mem, verdict, hostVars>>

InZlp ==
    /\ Completed("in")
    /\ residue = done.n /\ zlp
    /\ ptr' = AdvancePtr /\ residue' = 0 /\ zlp' = FALSE
    /\ StartWrite(0, 0)
    /\ UNCHANGED <<setup, next, mem, verdict, hostVars>>

InDataDone ==
    /\ Completed("in")
    /\ residue = done.n /\ ~zlp /\ setup.len > 0 /\ setup.dir = "in"
    /\ ptr' = AdvancePtr /\ residue' = 0
    /\ next' = "OUT_STATUS"
    /\ StartRead(0, 0)
    /\ UNCHANGED <<setup, zlp, mem, verdict, hostVars>>

\* Faulty variant: ep0_next_state stays IN_STATUS.
InStatusKept ==
    /\ Completed("in")
    /\ residue = done.n /\ ~zlp /\ ~(setup.len > 0 /\ setup.dir = "in")
    /\ ptr' = AdvancePtr /\ residue' = 0
    /\ UNCHANGED <<setup, next, zlp, mem, verdict, arm, stall, hostVars>>

InStatusDone ==
    /\ Completed("in")
    /\ residue = done.n /\ ~zlp /\ ~(setup.len > 0 /\ setup.dir = "in")
    /\ ptr' = AdvancePtr /\ residue' = 0
    /\ next' = IF next = "IN_STATUS" THEN "SETUP" ELSE next
    /\ UNCHANGED <<setup, zlp, mem, verdict, arm, stall, hostVars>>

-----------------------------------------------------------------------------
(* usbd_event_ep0_out_complete_handler.                                    *)

\* Faulty variants: the whole length is read again; the residue stays.
OutMoreWhole ==
    /\ Completed("out")
    /\ done.n > 0 /\ residue # done.n
    /\ ptr' = AdvancePtr /\ residue' = residue - done.n
    /\ StartRead(ptr', setup.len)
    /\ UNCHANGED <<setup, next, zlp, mem, verdict, hostVars>>
OutMoreUncounted ==
    /\ Completed("out")
    /\ done.n > 0 /\ residue # done.n
    /\ ptr' = AdvancePtr /\ residue' = residue
    /\ StartRead(ptr', residue')
    /\ UNCHANGED <<setup, next, zlp, mem, verdict, hostVars>>

OutMore ==
    /\ Completed("out")
    /\ done.n > 0 /\ residue # done.n
    /\ ptr' = AdvancePtr /\ residue' = residue - done.n
    /\ StartRead(ptr', residue')
    /\ UNCHANGED <<setup, next, zlp, mem, verdict, hostVars>>

\* Faulty variant: the handler is called after the first packet.
OutAllAtOnce ==
    /\ Completed("out")
    /\ done.n > 0
    /\ ptr' = 0 /\ residue' = 0
    /\ \/ /\ verdict' = Refused
          /\ next' = "SETUP" /\ SetStall
       \/ /\ \E offered \in Offers : verdict' = Accepted(offered)
          /\ next' = "IN_STATUS" /\ StartWrite(0, 0)
    /\ UNCHANGED <<setup, zlp, mem, hostVars>>

\* The handler is called with the whole buffer; the pointer goes back to its
\* start for the handler.
OutAll ==
    /\ Completed("out")
    /\ done.n > 0 /\ residue = done.n
    /\ ptr' = 0 /\ residue' = 0
    /\ \/ /\ verdict' = Refused
          /\ next' = "SETUP" /\ SetStall
       \/ /\ \E offered \in Offers : verdict' = Accepted(offered)
          /\ next' = "IN_STATUS" /\ StartWrite(0, 0)
    /\ UNCHANGED <<setup, zlp, mem, hostVars>>

OutStatusDone ==
    /\ Completed("out")
    /\ done.n = 0
    /\ next' = "SETUP"
    /\ UNCHANGED <<setup, ptr, residue, zlp, mem, verdict, arm, stall, hostVars>>

\* The EP0 part of usbd_event_reset_handler; the driver has disarmed EP0.
HandleReset ==
    /\ done.ep = "none" /\ bus = "reset" /\ bus' = "none"
    /\ next' = "SETUP"
    /\ arm' = NoArms /\ stall' = FALSE
    /\ UNCHANGED <<setup, ptr, residue, zlp, mem, verdict, done, hostVars>>

Handle ==
    \/ SetupTooLong \/ SetupOutData \/ SetupRefused
    \/ \E offered \in Offers : SetupAccepted(offered)
    \/ InMore \/ InZlp \/ InDataDone \/ InStatusDone
    \/ OutMore \/ OutAll \/ OutStatusDone
    \/ HandleReset

-----------------------------------------------------------------------------
(* The host and the wire.                                                  *)

\* A finished transfer may be followed by a SETUP at once, with its last
\* completion unseen; one that is abandoned timed out, long after that.
HostSetup(dir, len) ==
    /\ bus = "none"
    /\ done.ep = "none" \/ host.stage = "idle"
    /\ bus' = "setup"
    /\ host' = [stage |-> IF len = 0 THEN "status" ELSE "data",
                dir |-> dir, len |-> len, moved |-> 0]
    /\ got' = [i \in {} |-> 0]
    /\ mem' = Clean                 \* relabelled: bytes of older requests
    /\ arm' = NoArms /\ stall' = FALSE
    /\ UNCHANGED <<setup, next, ptr, residue, zlp, verdict, done>>

BusReset ==
    /\ bus = "none"
    /\ bus' = "reset"
    /\ host' = [host EXCEPT !.stage = "idle"]
    /\ arm' = NoArms /\ stall' = FALSE
    /\ UNCHANGED <<coreVars, done, got>>

\* No interrupt is pending, so tokens are answered.
Quiet == done.ep = "none" /\ bus = "none"

\* The driver has moved p more bytes of a transfer; a short packet or the
\* last one completes it.
Moved(ep, p) ==
    LET a == arm[ep]
        n == a.sent + p
    IN  IF p < MPS \/ n = a.len
        THEN /\ arm' = [arm EXCEPT ![ep] = Off]
             /\ done' = [ep |-> ep, n |-> n]
        ELSE /\ arm' = [arm EXCEPT ![ep].sent = n]
             /\ UNCHANGED done

\* The host reads a packet in its data stage; a short one, or the one that
\* reaches wLength, ends the stage.  More than wLength is a babble.
HostReadsData ==
    /\ Quiet /\ arm.in.on /\ ~stall
    /\ host.stage = "data" /\ host.dir = "in"
    /\ LET p == Least(MPS, arm.in.len - arm.in.sent)
           m == host.moved + p
       IN  /\ Moved("in", p)
           /\ host' = [host EXCEPT !.moved = m,
                         !.stage = IF m > host.len THEN "babble"
                                   ELSE IF p < MPS \/ m = host.len
                                        THEN "status" ELSE "data"]
           /\ got' = [i \in 0 .. m - 1 |->
                        IF i < host.moved THEN got[i]
                        ELSE arm.in.off + arm.in.sent + i - host.moved]
    /\ UNCHANGED <<coreVars, stall, bus>>

HostWritesData ==
    /\ Quiet /\ arm.out.on
    /\ host.stage = "data" /\ host.dir = "out"
    /\ LET p == Least(MPS, host.len - host.moved)
           m == host.moved + p
           at == arm.out.off + arm.out.sent
       IN  /\ p <= arm.out.len - arm.out.sent
           /\ Moved("out", p)
           /\ host' = [host EXCEPT !.moved = m,
                         !.stage = IF m = host.len THEN "status" ELSE "data"]
           /\ mem' = [i \in DOMAIN mem |->
                        IF i \in at .. at + p - 1 THEN host.moved + i - at ELSE mem[i]]
    /\ UNCHANGED <<setup, next, ptr, residue, zlp, verdict, stall, bus, got>>

\* The status stage: a zero-length packet against the data stage, IN when
\* there was none.  Data in its place is a babble.
HostReadsStatus ==
    /\ Quiet /\ arm.in.on /\ ~stall
    /\ host.stage = "status" /\ (host.dir = "out" \/ host.len = 0)
    /\ LET p == Least(MPS, arm.in.len - arm.in.sent)
       IN  /\ Moved("in", p)
           /\ host' = [host EXCEPT !.stage = IF p > 0 THEN "babble" ELSE "idle"]
    /\ UNCHANGED <<coreVars, stall, bus, got>>

HostWritesStatus ==
    /\ Quiet /\ arm.out.on
    /\ host.stage = "status" /\ host.dir = "in" /\ host.len > 0
    /\ Moved("out", 0)
    /\ host' = [host EXCEPT !.stage = "idle"]
    /\ UNCHANGED <<coreVars, stall, bus, got>>

\* A stalled EP0 IN answers every IN token with STALL.
HostReadsStall ==
    /\ Quiet /\ stall
    /\ \/ host.stage = "data" /\ host.dir = "in"
       \/ host.stage = "status" /\ (host.dir = "out" \/ host.len = 0)
    /\ host' = [host EXCEPT !.stage = "stalled"]
    /\ UNCHANGED <<coreVars, dcdVars, got>>

\* Some controllers answer OUT tokens with STALL as well.
HostWritesStall ==
    /\ Quiet /\ stall
    /\ host.stage = "data" /\ host.dir = "out"
    /\ host' = [host EXCEPT !.stage = "stalled"]
    /\ UNCHANGED <<coreVars, dcdVars, got>>

Token ==
    \/ HostReadsData \/ HostWritesData
    \/ HostReadsStatus \/ HostWritesStatus
    \/ HostReadsStall

Next ==
    \/ Handle
    \/ \E dir \in {"in", "out"}, len \in 0 .. MaxLen : HostSetup(dir, len)
    \/ BusReset
    \/ Token \/ HostWritesStall

Spec == Init /\ [][Next]_vars

\* Interrupts are served, and the host retries the tokens of its transfer.
FairSpec == Spec /\ WF_vars(Handle) /\ WF_vars(Token)

-----------------------------------------------------------------------------
(* Properties.                                                             *)

Transfer == [on : BOOLEAN, off : 0 .. BufLen, len : 0 .. BufLen, sent : 0 .. BufLen]

\* The core's record, the driver's and the host's have their types; the
\* residue, an unsigned subtraction in both handlers, never underflows.
TypeOK ==
    /\ setup \in [dir : {"in", "out"}, len : 0 .. MaxLen]
    /\ next \in {"SETUP", "IN_DATA", "OUT_DATA", "IN_STATUS", "OUT_STATUS"}
    /\ ptr \in 0 .. BufLen /\ residue \in Nat /\ zlp \in BOOLEAN
    /\ mem \in [0 .. BufLen - 1 -> {Stale} \cup 0 .. MaxLen]
    /\ verdict \in [st : {"pending", "accepted", "refused"}, len : Nat]
    /\ arm \in [in : Transfer, out : Transfer]
    /\ stall \in BOOLEAN
    /\ done \in [ep : {"none", "in", "out"}, n : 0 .. BufLen]
    /\ bus \in {"none", "setup", "reset"}
    /\ host \in [stage : {"idle", "data", "status", "stalled", "babble"},
                 dir : {"in", "out"}, len : 0 .. MaxLen, moved : Nat]

\* What a completion not yet seen and an armed transfer have moved.
InFlight(ep) == arm[ep].sent + (IF done.ep = ep THEN done.n ELSE 0)

\* Whichever way the driver splits a transfer into completions, the residue
\* accounts for every byte the host has moved.
ResidueAccounts ==
    bus = "none" /\ host.stage = "data" =>
      /\ host.dir = "in" /\ verdict.st = "accepted" /\ ~stall =>
           host.moved = Reply(setup.len, verdict.len) - residue + InFlight("in")
      /\ host.dir = "out" /\ host.len <= BufLen =>
           host.moved = host.len - residue + InFlight("out")

\* No transfer is armed outside the request buffer.
BufferBounds == \A ep \in {"in", "out"} :
                   arm[ep].on => arm[ep].off + arm[ep].len <= BufLen

\* A handler that accepted a request with data was called with all of the
\* host's bytes, each in its place.
HandlerSeesAll ==
    verdict.st = "accepted" /\ setup.dir = "out" /\ bus # "setup" =>
      \A i \in 0 .. setup.len - 1 : mem[i] = i

\* The host gets the bytes of the reply in order, none skipped or repeated.
InOrder == \A i \in DOMAIN got : got[i] = i

\* usbd_get_ep0_next_state, by which drivers decide to wait for a SETUP,
\* says SETUP when the host is through, and only when EP0 has nothing armed.
NextStateAgrees ==
    Quiet => /\ host.stage = "idle" => next = "SETUP"
             /\ next = "SETUP" => ~arm.in.on /\ ~arm.out.on

\* The pipe implements the abstract control transfer; the verdict of a
\* request whose SETUP is not yet seen is pending.
NewRequest == bus = "setup"
Ct == INSTANCE ControlTransfer
        WITH stage <- host.stage, dir <- host.dir, want <- host.len,
             moved <- host.moved,
             verdict <- IF NewRequest THEN "pending" ELSE verdict.st,
             offered <- IF NewRequest THEN 0 ELSE verdict.len
RefinesControlTransfer == Ct!CtSpec

\* A transfer the device has taken up ends, unless the host abandons it.
\* The OUT request that exceeds the buffer is left out: only EP0 IN is
\* stalled, so on some controllers its data is NAKed until the host gives up.
UnderWay == host.stage \in {"data", "status"} /\ bus = "none"
Oversize == host.dir = "out" /\ host.len > BufLen
EveryTransferEnds == (UnderWay /\ ~Oversize) ~> ~UnderWay

\* ... and so it does when a request that asks for data gets some: a reply of
\* no bytes at all is what EveryTransferEnds fails for.
EmptyReply == host.dir = "in" /\ host.len > 0 /\ verdict.len = 0
TransferEnds == (UnderWay /\ ~Oversize) ~> (~UnderWay \/ EmptyReply)
=============================================================================
