----------------------------- MODULE UsbhSerial -----------------------------
(***************************************************************************)
(* src/class/serial/usbh_serial.c: reception on a serial adapter.  One     *)
(* thread opens, sets the line, reads and closes; the completion callback  *)
(* of the bulk IN URB interrupts it between any two of the steps below,    *)
(* and the hardware fills the other buffer while the callback copies the   *)
(* one that is full.  When the ring has no room for one more packet the URB is *)
(* not submitted again (rx_pending) until a read has made room: the device *)
(* is held back by NAK.                                                    *)
(* Bytes are numbered as the device sends them.  The ring is the FIFO that *)
(* UsbRingbuffer is shown to implement.  Left out: the modem lines, the    *)
(* bulk OUT pipe, and the removal of the instance.                         *)
(* External: the adapter and the host controller, which delivers no        *)
(* completion after a kill.                                                *)
(***************************************************************************)
EXTENDS Integers, Sequences

CONSTANTS RxSize,     (* CONFIG_USBHOST_SERIAL_RX_SIZE                     *)
          BulkSize,   (* CONFIG_USBHOST_SERIAL_BULKIN_SIZE                 *)
          BufLen,     (* what a read asks for                              *)
          Faults,     (* "error": transfers fail; "submit": submissions    *)
                      (* fail; "line": the line cannot be set; "timeout":  *)
                      (* rx_timeout_ms is not 0                            *)
          MaxBytes,   (* bound: what the device has to send                *)
          MaxZlps,    (* bound: its packets without data                   *)
          MaxSets     (* bound: how often the line is set                  *)

\* The ring holds a packet (#error in usbh_serial.h).
ASSUME SerialAssumption ==
    /\ BulkSize \in Nat \ {0} /\ RxSize \in Nat /\ RxSize >= BulkSize
    /\ BufLen \in Nat \ {0} /\ MaxBytes \in Nat /\ MaxZlps \in Nat /\ MaxSets \in Nat
    /\ Faults \subseteq {"error", "submit", "line", "timeout"}

VARIABLES s,      (* struct usbh_serial, with the count of rx_complete_sem *)
          rb,     (* rx_rb                                                 *)
          urb,    (* bulkin_urb: submitted, its buffer, and external the   *)
                  (* completion whose interrupt has not been taken         *)
          iob,    (* the two receive buffers of iobuffer                   *)
          cb,     (* the callback under way: what it will copy             *)
          rd,     (* where the thread is in usbh_serial_read               *)
          line,   (* external: what the device has sent, and, for its      *)
                  (* bound, how often the line was set                     *)
          out,    (* what the user was given                               *)
          seen    (* only read by the properties: the line is set and      *)
                  (* nothing failed since (on); a callback fell between a  *)
                  (* read's look at the room and its submission of the URB *)
                  (* (late), or between the filling of the URB and its     *)
                  (* submission (moved); bytes that were thrown away       *)
                  (* (lost); the URB of the callback was refused           *)
                  (* (refused); reception failed and no read has said so   *)
                  (* (untold); what a read returned (ret)                  *)

vars == <<s, rb, urb, iob, cb, rd, line, out, seen>>

Idle == [armed |-> FALSE, buf |-> 0, done |-> "none", n |-> 0]
Submitted(index) == [armed |-> TRUE, buf |-> index, done |-> "none", n |-> 0]
Over == [urb EXCEPT !.armed = FALSE, !.done = "none"]
Waiting == [busy |-> FALSE, buf |-> 0, n |-> 0]

Room == RxSize - Len(rb)
Least(m, n) == IF m < n THEN m ELSE n

Init ==
    /\ s = [open |-> FALSE, attr |-> FALSE, nonblock |-> FALSE, index |-> 0,
            pending |-> FALSE, err |-> "ok", sem |-> 0]
    /\ rb = <<>> /\ urb = Idle /\ iob = [i \in 0 .. 1 |-> [j \in 1 .. BulkSize |-> 0]]
    /\ cb = Waiting /\ rd = "idle"
    /\ line = [sent |-> 0, zlps |-> 0, sets |-> 0] /\ out = <<>>
    /\ seen = [on |-> FALSE, late |-> FALSE, moved |-> FALSE, lost |-> 0, refused |-> FALSE,
               untold |-> FALSE, ret |-> "none"]

-----------------------------------------------------------------------------
(* The device and the bus.                                                 *)

\* The device sends n bytes into the buffer of the URB.
Sends(n) ==
    /\ urb.armed /\ urb.done = "none"
    /\ IF n = 0 THEN line.zlps < MaxZlps ELSE line.sent + n <= MaxBytes
    /\ iob' = [iob EXCEPT ![urb.buf] = [i \in 1 .. BulkSize |-> IF i <= n THEN line.sent + i ELSE @[i]]]
    /\ urb' = [urb EXCEPT !.done = "data", !.n = n]
    /\ line' = [line EXCEPT !.sent = @ + n, !.zlps = IF n = 0 THEN @ + 1 ELSE @]
    /\ UNCHANGED <<s, rb, cb, rd, out, seen>>

DeviceSends == \E n \in 0 .. BulkSize : Sends(n)

TransferFails ==
    /\ "error" \in Faults /\ urb.armed /\ urb.done = "none"
    /\ urb' = [urb EXCEPT !.done = "error"]
    /\ UNCHANGED <<s, rb, iob, cb, rd, line, out, seen>>

-----------------------------------------------------------------------------
(* usbh_serial_callback, in the interrupt.                                 *)

Gives == IF "submit" \in Faults THEN BOOLEAN ELSE {TRUE}
Interrupts == ~cb.busy /\ urb.done # "none"

\* Where the callback falls: usbh_serial_read has looked at the room and may
\* still submit the URB; or it has filled the URB and not submitted it yet.
Restarting == {"pending", "clear", "errno", "fill", "submit"}
Late  == seen.late \/ rd \in Restarting
Moved == seen.moved \/ rd = "submit"

\* Faulty variant: the reader is not told.
CallbackErrorDeaf ==
    /\ Interrupts /\ urb.done = "error"
    /\ s' = [s EXCEPT !.err = "io"]
    /\ urb' = Over
    /\ seen' = [seen EXCEPT !.on = FALSE, !.untold = TRUE]
    /\ UNCHANGED <<rb, iob, cb, rd, line, out>>

\* A failed transfer, or one shorter than the header of the adapter.
CallbackError ==
    /\ Interrupts /\ urb.done = "error"
    /\ s' = [s EXCEPT !.err = "io", !.sem = 1]
    /\ urb' = Over
    /\ seen' = [seen EXCEPT !.on = FALSE, !.untold = TRUE]
    /\ UNCHANGED <<rb, iob, cb, rd, line, out>>

\* Faulty variant: the room for the packet in hand is forgotten.
FullForOne(n) == BulkSize > Room

\* The next packet may not fit.
Full(n) == n + BulkSize > Room

\* Faulty variant: the URB is submitted again with the buffer that is full.
NextBufferSame(index) == index

NextBuffer(index) == 1 - index

\* The URB is submitted again, or not, before the copy.  If it is refused the
\* packet in hand is thrown away.
CallbackData ==
    /\ Interrupts /\ urb.done = "data"
    /\ LET t == [s EXCEPT !.index = NextBuffer(@)]
           copies == cb' = [busy |-> TRUE, buf |-> s.index, n |-> urb.n]
       IN  \/ /\ Full(urb.n) /\ copies
              /\ s' = [t EXCEPT !.pending = TRUE] /\ urb' = Over
              /\ seen' = [seen EXCEPT !.late = Late, !.moved = Moved]
           \/ /\ ~Full(urb.n) /\ copies
              /\ s' = [t EXCEPT !.pending = FALSE, !.err = "ok"] /\ urb' = Submitted(t.index)
              /\ seen' = [seen EXCEPT !.late = Late, !.moved = Moved]
           \/ /\ ~Full(urb.n) /\ FALSE \in Gives
              /\ s' = [t EXCEPT !.pending = FALSE, !.err = "submit", !.sem = 1]
              /\ urb' = [Over EXCEPT !.buf = t.index]
              /\ seen' = [seen EXCEPT !.late = Late, !.moved = Moved, !.on = FALSE,
                                      !.lost = @ + urb.n, !.refused = TRUE, !.untold = TRUE]
              /\ UNCHANGED cb
    /\ UNCHANGED <<rb, iob, rd, line, out>>

\* Faulty variant: the reader is not woken.
CallbackCopiesQuiet ==
    /\ cb.busy /\ cb' = Waiting
    /\ LET n == Least(cb.n, Room)
       IN  /\ rb' = rb \o SubSeq(iob[cb.buf], 1, n)
           /\ seen' = [seen EXCEPT !.lost = @ + cb.n - n]
    /\ s' = [s EXCEPT !.err = "ok"]
    /\ UNCHANGED <<urb, iob, rd, line, out>>

\* Faulty variant: the ring takes more than it has room for.
CallbackCopiesAll ==
    /\ cb.busy /\ cb' = Waiting
    /\ rb' = rb \o SubSeq(iob[cb.buf], 1, cb.n)
    /\ s' = [s EXCEPT !.err = "ok", !.sem = 1]
    /\ UNCHANGED <<urb, iob, rd, line, out, seen>>

\* usb_ringbuffer_write takes what fits.
CallbackCopies ==
    /\ cb.busy /\ cb' = Waiting
    /\ LET n == Least(cb.n, Room)
       IN  /\ rb' = rb \o SubSeq(iob[cb.buf], 1, n)
           /\ seen' = [seen EXCEPT !.lost = @ + cb.n - n]
    /\ s' = [s EXCEPT !.err = "ok", !.sem = 1]
    /\ UNCHANGED <<urb, iob, rd, line, out>>

-----------------------------------------------------------------------------
(* The thread.                                                             *)

Runs(pc) == ~cb.busy /\ rd = pc

\* usbh_kill_urb: the callback reports -USB_ERR_SHUTDOWN.
Killed == IF urb.armed THEN [s EXCEPT !.err = "shutdown", !.sem = 1] ELSE s

Open ==
    /\ Runs("idle") /\ ~s.open
    /\ \E nonblock \in BOOLEAN : s' = [s EXCEPT !.open = TRUE, !.nonblock = nonblock]
    /\ rb' = <<>>
    /\ UNCHANGED <<urb, iob, cb, rd, line, out, seen>>

Close ==
    /\ Runs("idle") /\ s.open
    /\ s' = [Killed EXCEPT !.open = FALSE] /\ urb' = Idle
    /\ seen' = [seen EXCEPT !.on = FALSE]
    /\ UNCHANGED <<rb, iob, cb, rd, line, out>>

\* USBH_SERIAL_CMD_SET_ATTR: rx_pending is not touched.
SetAttr ==
    /\ Runs("idle") /\ s.open /\ line.sets < MaxSets
    /\ line' = [line EXCEPT !.sets = @ + 1]
    /\ \E ok \in Gives :
          /\ s' = [s EXCEPT !.attr = TRUE, !.sem = 0, !.index = 0, !.err = "ok"]
          /\ urb' = IF ok THEN Submitted(0) ELSE Idle
          /\ seen' = [seen EXCEPT !.on = ok, !.untold = FALSE]
    /\ rb' = <<>>
    /\ UNCHANGED <<iob, cb, rd, out>>

\* ... when a control transfer fails; the last one comes after the line is set.
SetAttrFails ==
    /\ Runs("idle") /\ s.open /\ "line" \in Faults
    /\ \E attr \in {s.attr, TRUE} : s' = [Killed EXCEPT !.attr = attr]
    /\ urb' = Idle /\ seen' = [seen EXCEPT !.on = FALSE]
    /\ UNCHANGED <<rb, iob, cb, rd, line, out>>

\* usbh_serial_read: the first half of the condition.
ReadStarts ==
    /\ Runs("idle") /\ s.open /\ s.attr
    /\ rd' = IF Room >= BulkSize THEN "pending" ELSE "used"
    /\ seen' = [seen EXCEPT !.ret = "none"]
    /\ UNCHANGED <<s, rb, urb, iob, cb, line, out>>

\* The second half: rx_pending.
ReadPending ==
    /\ Runs("pending")
    /\ rd' = IF s.pending THEN "clear" ELSE "used"
    /\ UNCHANGED <<s, rb, urb, iob, cb, line, out, seen>>

\* Faulty variant: the mark is cleared and nothing is submitted.
ReadClearsOnly ==
    /\ Runs("clear")
    /\ s' = [s EXCEPT !.pending = FALSE] /\ rd' = "used"
    /\ UNCHANGED <<rb, urb, iob, cb, line, out, seen>>

ReadClears ==
    /\ Runs("clear")
    /\ s' = [s EXCEPT !.pending = FALSE] /\ rd' = "errno"
    /\ UNCHANGED <<rb, urb, iob, cb, line, out, seen>>

\* usbh_serial_rx_restart: the error is forgotten, ...
ReadForgets ==
    /\ Runs("errno")
    /\ s' = [s EXCEPT !.err = "ok"] /\ rd' = "fill"
    /\ UNCHANGED <<rb, urb, iob, cb, line, out, seen>>

\* ... the URB is filled with the buffer that is due, ...
ReadFills ==
    /\ Runs("fill")
    /\ urb' = [urb EXCEPT !.buf = s.index] /\ rd' = "submit"
    /\ UNCHANGED <<s, rb, iob, cb, line, out, seen>>

\* ... and submitted; not when it is already.
ReadSubmits ==
    /\ Runs("submit")
    /\ \/ /\ urb.armed
          /\ rd' = "idle" /\ UNCHANGED urb
          /\ seen' = [seen EXCEPT !.ret = "busy", !.untold = FALSE]
       \/ /\ ~urb.armed /\ urb' = Submitted(urb.buf)
          /\ rd' = "used" /\ seen' = [seen EXCEPT !.untold = FALSE]
       \/ /\ ~urb.armed /\ FALSE \in Gives
          /\ rd' = "idle" /\ UNCHANGED urb
          /\ seen' = [seen EXCEPT !.ret = "submit", !.on = FALSE, !.untold = FALSE]
    /\ UNCHANGED <<s, rb, iob, cb, line, out>>

ReadLooks ==
    /\ Runs("used")
    /\ rd' = IF ~s.nonblock /\ rb = <<>> THEN "take" ELSE "copy"
    /\ UNCHANGED <<s, rb, urb, iob, cb, line, out, seen>>

ReadTakes ==
    /\ Runs("take") /\ s.sem = 1
    /\ s' = [s EXCEPT !.sem = 0] /\ rd' = "error"
    /\ UNCHANGED <<rb, urb, iob, cb, line, out, seen>>

ReadTimesOut ==
    /\ "timeout" \in Faults /\ Runs("take") /\ s.sem = 0
    /\ rd' = "idle" /\ seen' = [seen EXCEPT !.ret = "timeout"]
    /\ UNCHANGED <<s, rb, urb, iob, cb, line, out>>

ReadChecks ==
    /\ Runs("error")
    /\ rd' = IF s.err = "ok" THEN "copy" ELSE "idle"
    /\ seen' = IF s.err = "ok" THEN seen ELSE [seen EXCEPT !.ret = s.err, !.untold = FALSE]
    /\ UNCHANGED <<s, rb, urb, iob, cb, line, out>>

ReadCopies ==
    /\ Runs("copy")
    /\ LET n == Least(BufLen, Len(rb))
       IN  /\ out' = out \o SubSeq(rb, 1, n)
           /\ rb' = SubSeq(rb, n + 1, Len(rb))
    /\ rd' = "idle" /\ seen' = [seen EXCEPT !.ret = "ok"]
    /\ UNCHANGED <<s, urb, iob, cb, line>>

Restart == ReadPending \/ ReadClears \/ ReadForgets \/ ReadFills \/ ReadSubmits
Read == ReadStarts \/ Restart \/ ReadLooks \/ ReadTakes \/ ReadChecks \/ ReadCopies
Callback == CallbackError \/ CallbackData \/ CallbackCopies

Next == \/ DeviceSends \/ TransferFails \/ Callback
        \/ Open \/ Close \/ SetAttr \/ SetAttrFails \/ Read \/ ReadTimesOut

\* Interrupts are taken, a device that may send does, and a user who has
\* opened the adapter reads.
Fairness == WF_vars(Callback) /\ WF_vars(DeviceSends) /\ WF_vars(Read)
Spec == Init /\ [][Next]_vars /\ Fairness

-----------------------------------------------------------------------------
(* Properties.                                                             *)

Bytes == Nat
TypeOK ==
    /\ s \in [open : BOOLEAN, attr : BOOLEAN, nonblock : BOOLEAN, index : 0 .. 1,
              pending : BOOLEAN, err : {"ok", "io", "shutdown", "submit"}, sem : 0 .. 1]
    /\ rb \in Seq(Bytes) /\ Len(rb) <= RxSize /\ out \in Seq(Bytes)
    /\ urb \in [armed : BOOLEAN, buf : 0 .. 1, done : {"none", "data", "error"}, n : 0 .. BulkSize]
    /\ iob \in [0 .. 1 -> [1 .. BulkSize -> Bytes]]
    /\ cb \in [busy : BOOLEAN, buf : 0 .. 1, n : 0 .. BulkSize]
    /\ rd \in {"idle", "used", "take", "error", "copy"} \cup Restarting
    /\ line \in [sent : 0 .. MaxBytes, zlps : 0 .. MaxZlps, sets : 0 .. MaxSets]
    /\ seen \in [on : BOOLEAN, late : BOOLEAN, moved : BOOLEAN, lost : Nat, refused : BOOLEAN,
                 untold : BOOLEAN,
                 ret : {"none", "ok", "busy", "submit", "timeout", "io", "shutdown"}]

\* Every byte comes once and in the order it was sent, while one buffer is
\* filled and the other copied (rx_buf_index), unless a callback comes between
\* the filling of the URB and its submission by usbh_serial_read: the buffer is
\* then the wrong one.
InOrder ==
    ~seen.moved => LET all == out \o rb IN \A i \in 2 .. Len(all) : all[i - 1] < all[i]

\* The URB is only submitted while the ring has room for a whole packet
\* ("next ringbuffer write will cause overflow, so don't resubmit the read
\* urb"), so no byte is lost, unless the callback comes while usbh_serial_read
\* is between its look at the room and the submission, or the URB of the
\* callback is refused.
NothingLost == seen.lost > 0 => seen.late \/ seen.refused

\* A URB that nobody submits is marked for the next read (rx_pending), or a
\* read is about to submit it: reception does not stop unnoticed while nothing
\* fails.
Parked ==
    seen.on /\ ~cb.busy /\ ~urb.armed => s.pending \/ rd \in {"errno", "fill", "submit"}

\* While nothing fails the device is heard to the end, if the user reads.
Flows == seen.on ~> (line.sent = MaxBytes \/ ~seen.on)

\* A blocking reader hears of a failed transfer, and of a URB that the callback
\* could not submit again, unless reception is started anew before
\* (rx_errorcode, rx_complete_sem).
ErrorTold == (seen.untold /\ s.open /\ ~s.nonblock) ~> (~seen.untold \/ ~s.open)
=============================================================================
