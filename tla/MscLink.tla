------------------------------ MODULE MscLink ------------------------------
(***************************************************************************)
(* src/class/msc/usbh_msc.c talking to src/class/msc/usbd_msc.c: the       *)
(* thread that mounts the medium and then reads and writes it, one call    *)
(* at a time, over the two bulk pipes.                                     *)
(* A step on the wire moves one device transfer's worth of bytes and runs  *)
(* the device's callback.  A halted endpoint answers STALL until the host  *)
(* clears it; an endpoint that is not armed answers NAK until the URB's    *)
(* timeout.  Without "slow" in Faults the timeout is longer than anything  *)
(* the device does.                                                        *)
(* External: the wire, and the reset recovery of other hosts (usbh_msc.c   *)
(* has none).                                                              *)
(***************************************************************************)
EXTENDS UsbdMsc

CONSTANTS Faults,     (* what may go wrong: the medium (sector), a medium  *)
                      (* slower than the host's timeout (slow), resets,    *)
                      (* also while the medium is accessed (busy); and     *)
                      (* hosts that recover                                *)
          UserCalls,  (* what the user of the mounted medium asks for: n   *)
                      (* blocks from lba on, ver is the data of a write    *)
          U16,        (* 2^16                                              *)
          MaxChecks   (* CONFIG_USBHOST_MSC_READY_CHECK_TIMES              *)

ASSUME LinkAssumption ==
    /\ Faults \subseteq {"sector", "slow", "reset", "busy", "recover"} /\ MaxChecks \in Nat
    /\ U16 \in 1 .. U32
    /\ UserCalls \subseteq [op : {"read", "write", "other"}, lba : 0 .. U32 - 1, n : 0 .. U32 - 1, ver : Nat]

VARIABLES h,      (* the host: prog is where its thread is, phase and cmd  *)
                  (* the call under way, left what is left of its URB      *)
          clean   (* nothing failed since the device was configured; it    *)
                  (* is only read by the properties                        *)

vars == <<mode, d, worker, disk, h, clean>>

NoData == [op |-> "none", lba |-> 0, n |-> 0, len |-> 0, in |-> FALSE, asked |-> 0, ver |-> 0]
Info == [op |-> "info", lba |-> 0, n |-> 0, len |-> InfoLen, in |-> TRUE, asked |-> 0, ver |-> 0]

\* The CBW of a call: its number of blocks is cut to 16 bits.  What was asked
\* for and the data stay with the caller.
Cbw(c) == LET n == c.n % U16
          IN  [op |-> c.op, lba |-> c.lba, n |-> n, len |-> (BlkSize * n) % U32,
               in |-> c.op # "write", asked |-> c.n, ver |-> c.ver]
Cbws == {Cbw(c) : c \in UserCalls}

Init ==
    /\ MscInit
    /\ \E heals \in IF "recover" \in Faults THEN BOOLEAN ELSE {FALSE} :
          h = [prog |-> "gone", tries |-> 0, phase |-> "idle", cmd |-> NoData,
               left |-> 0, got |-> <<>>, ret |-> "none", heals |-> heals]
    /\ clean = FALSE

-----------------------------------------------------------------------------
(* The host: usbh_bulk_cbw_csw_xfer and its callers.                       *)

\* Faulty variant: the result of the first test is taken the wrong way round.
AfterCallInverted(g, r) ==
    CASE g.prog = "tur" -> IF r = "ok" THEN "sense" ELSE "inquiry"
      [] g.prog = "sense" -> IF g.tries + 1 > MaxChecks THEN "failed" ELSE "tur"
      [] OTHER -> "ready"

\* Where the thread goes when a call returns r: usbh_msc_scsi_init, then
\* the calls of the user.
AfterCall(g, r) ==
    CASE g.prog = "tur" -> IF r = "ok" THEN "inquiry" ELSE "sense"
      [] g.prog = "sense" -> IF g.tries + 1 > MaxChecks THEN "failed" ELSE "tur"
      [] g.prog = "inquiry" -> IF r = "ok" THEN "capacity" ELSE "failed"
      [] g.prog = "capacity" -> IF r = "ok" THEN "ready" ELSE "failed"
      [] OTHER -> g.prog

Returned(g, r) ==
    [g EXCEPT !.prog = AfterCall(g, r), !.phase = "idle", !.ret = r, !.left = 0,
              !.tries = IF g.prog = "sense" THEN @ + 1 ELSE @,
              !.got = IF r = "ok" THEN @ ELSE <<>>]

\* The next URB of the call.
ToCsw(g) == [g EXCEPT !.phase = "csw", !.left = CswLen]
AfterCbw(g) == IF g.cmd.len # 0 THEN [g EXCEPT !.phase = "data", !.left = g.cmd.len] ELSE ToCsw(g)

\* n units of an OUT URB are gone.
Sent(g, n) ==
    LET f == [g EXCEPT !.left = @ - n]
    IN  CASE f.left # 0 -> f
          [] f.left = 0 /\ g.phase = "cbw" -> AfterCbw(f)
          [] OTHER -> ToCsw(f)

\* n units of buf came in: a wrapper and an answer from memory are short
\* packets and end the URB; the length is not looked at.
Received(g, buf, n) ==
    LET f == [g EXCEPT !.left = @ - n,
                       !.got = CASE g.cmd.op # "read" -> @
                                 [] g.cmd.op = "read" /\ buf = "block" -> @ \o SubSeq(d.block_buffer, 1, n \div BlkSize)
                                 [] OTHER -> Append(@, Junk)]
    IN  CASE g.phase = "csw" -> Returned(g, IF buf = "csw" /\ d.status = "passed" THEN "ok" ELSE "failed")
          [] g.phase = "data" /\ (buf # "block" \/ f.left = 0) -> ToCsw(f)
          [] OTHER -> f

Sending == h.phase = "cbw" \/ (h.phase = "data" /\ ~h.cmd.in)
Receiving == h.phase = "csw" \/ (h.phase = "data" /\ h.cmd.in)

\* The data that goes out next, and its place in the command.
Payload(n) == [i \in 1 .. n \div BlkSize |-> <<h.cmd.ver, (h.cmd.len - h.left) \div BlkSize + i>>]

\* What the transfer leaves in the buffer that is armed.
Filled(e, n) ==
    CASE e.out.buf = "cbw" -> [e EXCEPT !.cbw = IF h.phase = "cbw" THEN h.cmd ELSE NoCommand]
      [] OTHER -> [e EXCEPT !.block_buffer = IF h.phase = "data" THEN Payload(n) ELSE <<Junk>>]

-----------------------------------------------------------------------------
Calls == CASE h.prog = "tur" -> {NoData}
           [] h.prog \in {"sense", "inquiry", "capacity"} -> {Info}
           [] h.prog = "ready" -> Cbws
           [] OTHER -> {}

\* The thread makes its next call.
HostCall ==
    /\ h.phase = "idle" /\ ~(h.heals /\ h.ret = "stall")
    /\ \E c \in Calls :
          /\ h' = [h EXCEPT !.phase = "cbw", !.cmd = c, !.left = CbwLen, !.got = <<>>, !.ret = "none"]
          /\ clean' = (clean /\ Served(c))
    /\ UNCHANGED mscVars

Answers == IF "sector" \in Faults THEN BOOLEAN ELSE {TRUE}

WireOut ==
    /\ Sending /\ "out" \notin d.halted /\ d.out.buf # "none"
    /\ LET n == Low(h.left, d.out.len)
           e == [Filled(d, n) EXCEPT !.out = Unarmed]
       IN  \E ok \in Answers :
              /\ ok \/ ReadsHere(e, n) \/ WritesHere(e)
              /\ d' = BulkOut(e, n, ok)
              /\ disk' = IF WritesHere(e) /\ ok THEN Written(e.start_sector, n, e.block_buffer) ELSE disk
              /\ clean' = (clean /\ ok)
              /\ h' = Sent(h, n)
    /\ UNCHANGED <<mode, worker>>

WireIn ==
    /\ Receiving /\ "in" \notin d.halted /\ d.in.buf # "none"
    /\ LET n == Low(h.left, d.in.len)
       IN  \E ok \in Answers :
              /\ ok \/ ReadsNext(d)
              /\ d' = BulkIn([d EXCEPT !.in = Unarmed], ok)
              /\ clean' = (clean /\ ok)
              /\ h' = Received(h, d.in.buf, n)
    /\ UNCHANGED <<mode, worker, disk>>

WireStall ==
    /\ \/ Sending /\ "out" \in d.halted
       \/ Receiving /\ "in" \in d.halted
    /\ h' = Returned(h, "stall")
    /\ UNCHANGED <<mscVars, clean>>

\* Nothing moves on the device or on the wire.
DeviceIdle == worker.event = "none" /\ d.event = "none"
Quiet == /\ DeviceIdle
         /\ Sending => "out" \notin d.halted /\ d.out.buf = "none"
         /\ Receiving => "in" \notin d.halted /\ d.in.buf = "none"

HostTimeout ==
    /\ h.phase # "idle"
    /\ Quiet \/ "slow" \in Faults
    /\ h' = Returned(h, "timeout")
    /\ clean' = (clean /\ Quiet)
    /\ UNCHANGED mscVars

WorkerStarts == WorkerTake /\ UNCHANGED <<h, clean>>
WorkerEnds == \E ok \in Answers : WorkerDone(ok) /\ clean' = (clean /\ ok) /\ UNCHANGED h

\* The port is reset or unplugged, and usbh_msc_disconnect kills the URBs.
BusReset ==
    /\ "reset" \in Faults /\ d.configured
    /\ DeviceIdle \/ "busy" \in Faults
    /\ NotifyReset
    /\ h' = [Returned(h, IF h.phase = "idle" THEN h.ret ELSE "shutdown") EXCEPT !.prog = "gone"]
    /\ clean' = FALSE
    /\ UNCHANGED <<mode, worker, disk>>

\* SET_CONFIGURATION, then usbh_msc_connect starts the thread.
Configure ==
    /\ ~d.configured
    /\ NotifyConfigured
    /\ h' = [h EXCEPT !.prog = "tur", !.tries = 0, !.ret = "none"]
    /\ clean' = TRUE
    /\ UNCHANGED <<mode, worker, disk>>

\* Another host's answer to a STALL: MSC_REQUEST_RESET, then the halts are
\* cleared.
Recover ==
    /\ h.heals /\ h.phase = "idle" /\ h.ret = "stall"
    /\ d' = [UsbdMscReset(d) EXCEPT !.halted = {}]
    /\ h' = [h EXCEPT !.ret = "none"]
    /\ clean' = TRUE
    /\ UNCHANGED <<mode, worker, disk>>

Next == \/ HostCall \/ WireOut \/ WireIn \/ WireStall \/ HostTimeout
        \/ WorkerStarts \/ WorkerEnds \/ BusReset \/ Configure \/ Recover

Fairness == /\ WF_vars(WireOut \/ WireIn \/ WireStall) /\ WF_vars(WorkerStarts)
            /\ WF_vars(WorkerEnds) /\ WF_vars(Configure)
            /\ WF_vars(HostCall /\ h.prog # "ready") /\ WF_vars(HostTimeout) /\ WF_vars(Recover)
Spec == Init /\ [][Next]_vars /\ Fairness

-----------------------------------------------------------------------------
(* Properties.                                                             *)

Command == {NoCommand, NoData, Info} \cup Cbws
Number == 0 .. U32 - 1
Dev == [stage : {"READ_CBW", "DATA_OUT", "DATA_IN", "SEND_CSW", "WAIT_CSW"}, cbw : Command,
        residue : Number, status : {"passed", "failed"}, start_sector : Number,
        nsectors : Number, block_buffer : Seq(Nat \X Nat),
        event : {"none", "DATA_IN", "DATA_OUT"}, nbytes : 0 .. BufSize,
        out : [buf : {"none", "cbw", "block"}, len : 0 .. BufSize],
        in : [buf : {"none", "info", "block", "csw"}, len : 0 .. BufSize],
        halted : SUBSET {"in", "out"}, configured : BOOLEAN]
Host == [prog : {"gone", "tur", "sense", "inquiry", "capacity", "ready", "failed"},
         tries : Nat, phase : {"idle", "cbw", "data", "csw"}, cmd : Command, left : Number,
         got : Seq(Nat \X Nat), heals : BOOLEAN,
         ret : {"none", "ok", "failed", "stall", "timeout", "shutdown"}]

\* The values of the variables; no transfer is longer than the block buffer
\* (MIN with CONFIG_USBDEV_MSC_MAX_BUFSIZE in every chunk).
TypeOK ==
    /\ mode \in Modes /\ clean \in BOOLEAN
    /\ d \in Dev /\ h \in Host
    /\ worker \in [event : {"none", "DATA_IN", "DATA_OUT"}, lba : Number, len : 0 .. BufSize]
    /\ disk \in [0 .. Blocks - 1 -> Nat \X Nat]

\* The device is at one place of a command at a time: it listens on the OUT
\* endpoint, or it has armed the IN endpoint, or the worker has a message or
\* an access.  So no endpoint uses block_buffer while the worker does, and
\* no message is lost for a full queue (usb_osal_mq_create(1)).
Bit(b) == IF b THEN 1 ELSE 0
OneToken ==
    Bit(d.out.buf # "none") + Bit(d.in.buf # "none") + Bit(d.event # "none")
        + Bit(worker.event # "none") <= 1

\* Host and device stay in step: no more comes in than the host's URB can
\* take, and no data of the host is taken for a command (usbd_msc_bot_abort
\* halts the OUT endpoint before it listens).
InStep == /\ Receiving /\ "in" \notin d.halted => d.in.len <= h.left
          /\ h.phase = "data" /\ Sending /\ "out" \notin d.halted => d.out.buf # "cbw"

\* As long as nothing goes wrong, every call of the host returns 0: host and
\* device never wait for each other, whatever came before the last
\* configuration or recovery.
NothingFails == clean => h.ret \in {"none", "ok"} /\ h.prog # "failed"

DiskCalls == {[op |-> c.op, lba |-> c.lba, n |-> c.asked, ver |-> c.ver] : c \in {NoData, Info} \cup Cbws}

\* usbh_msc_scsi_read10 and usbh_msc_scsi_write10 keep their promise
\* (BlockDevice): "returns 0 for normal" only when all the blocks that were
\* asked for are read or written.  It is a property of calls of fewer than
\* 65536 blocks (CallsFit): a longer one moves what the CBW says, and returns 0.
CallsFit == \A c \in UserCalls : c.n < U16
BD == INSTANCE BlockDevice WITH
        Commands <- DiskCalls,
        call <- IF h.phase = "idle" THEN [op |-> "idle", lba |-> 0, n |-> 0, ver |-> 0]
                ELSE [op |-> h.cmd.op, lba |-> h.cmd.lba, n |-> h.cmd.asked, ver |-> h.cmd.ver],
        late <- IF d.stage = "DATA_OUT" /\ h.phase \in {"idle", "cbw"}
                THEN [op |-> "write", lba |-> d.cbw.lba, n |-> d.cbw.asked, ver |-> d.cbw.ver]
                ELSE [op |-> "idle", lba |-> 0, n |-> 0, ver |-> 0],
        reply <- CASE h.phase # "idle" \/ h.ret = "none" -> "none"
                   [] h.phase = "idle" /\ h.ret = "ok" -> "ok"
                   [] OTHER -> "error",
        got <- IF h.phase = "idle" /\ h.ret = "ok" THEN h.got ELSE <<>>
Storage == BD!Spec

\* The thread that runs usbh_msc_scsi_init gets the medium ready, if nothing
\* fails.
Mounts == (d.configured /\ clean) ~> (h.prog = "ready" \/ ~clean)
=============================================================================
