------------------------------ MODULE UsbdMsc ------------------------------
(***************************************************************************)
(* src/class/msc/usbd_msc.c: the bulk-only state machine of the mass       *)
(* storage device of one bus and one LUN, in its three builds: the medium  *)
(* is accessed in the endpoint callback ("irq"), by a thread woken through *)
(* a queue of one message ("thread"), or by usbd_msc_polling ("polling").  *)
(* A step is one callback, or one half of the worker's access: what it     *)
(* reads before the access to the medium, and what it does after it.       *)
(* Lengths are in units of the wrappers, which are shorter than a block;   *)
(* a block is BlkSize of them.  The commands are told apart by what their  *)
(* handlers do: "none" moves no data, "info" answers from memory, "other"  *)
(* is every command that is malformed or not served.  Sense data, the tag, *)
(* the texts of the answers and the read-only flag are left out.           *)
(* External: the medium (disk) and the two bulk endpoints.                 *)
(***************************************************************************)
EXTENDS Integers, Sequences

CONSTANTS Modes,      (* the builds: irq, thread, polling                  *)
          Blocks,     (* scsi_blk_nbr                                      *)
          BlkSize,    (* scsi_blk_size                                     *)
          BufSize,    (* CONFIG_USBDEV_MSC_MAX_BUFSIZE                     *)
          InfoLen,    (* length of an answer from memory                   *)
          U32         (* 2^32                                              *)

\* usbd_msc_init_intf stops when the buffer is not a multiple of the block.
ASSUME MscAssumption ==
    /\ Modes \subseteq {"irq", "thread", "polling"} /\ Blocks \in Nat
    /\ BlkSize \in Nat \ {0, 1} /\ InfoLen \in 1 .. BufSize
    /\ BufSize \in Nat \ {0} /\ BufSize % BlkSize = 0
    /\ U32 \in Nat /\ U32 > BufSize

CbwLen == 1     \* 31 bytes
CswLen == 1     \* 13 bytes

VARIABLES mode,    (* the build; never changes                             *)
          d,       (* struct usbd_msc_priv and its endpoints               *)
          worker,  (* the access under way: what was read before it        *)
          disk     (* external: the contents of the blocks                 *)

mscVars == <<mode, d, worker, disk>>

Low(m, n) == IF m < n THEN m ELSE n
NoCommand == [op |-> "other", lba |-> 0, n |-> 0, len |-> 0, in |-> FALSE, asked |-> 0, ver |-> 0]
Unarmed == [buf |-> "none", len |-> 0]
Resting == [event |-> "none", lba |-> 0, len |-> 0]
Junk == <<0, 0>>     \* what no command put into a block

MscInit ==
    /\ mode \in Modes
    /\ d = [stage |-> "READ_CBW", cbw |-> NoCommand, residue |-> 0, status |-> "passed",
            start_sector |-> 0, nsectors |-> 0, block_buffer |-> <<>>,
            event |-> "none", nbytes |-> 0,
            out |-> Unarmed, in |-> Unarmed, halted |-> {}, configured |-> FALSE]
    /\ worker = Resting
    /\ disk = [s \in 0 .. Blocks - 1 |-> <<0, s + 1>>]

-----------------------------------------------------------------------------
(* What the functions of the class do to its state e.                      *)

\* usbd_ep_start_read and usbd_ep_start_write
ReadArmed(e, buf, len) == [e EXCEPT !.out = [buf |-> buf, len |-> len]]
WriteArmed(e, buf, len) == [e EXCEPT !.in = [buf |-> buf, len |-> len]]

\* usbd_msc_send_csw
SendCsw(e, status) ==
    [WriteArmed(e, "csw", CswLen) EXCEPT !.stage = "WAIT_CSW", !.status = status]

\* Faulty variant: only the IN endpoint is halted.
BotAbortIn(e) == [ReadArmed(e, "cbw", CbwLen) EXCEPT !.halted = @ \cup {"in"}]

\* usbd_msc_bot_abort: the stage stays what it was.
BotAbort(e) ==
    [ReadArmed(e, "cbw", CbwLen) EXCEPT
        !.halted = @ \cup {"in"} \cup IF ~e.cbw.in /\ e.cbw.len # 0 THEN {"out"} ELSE {}]

\* usbd_msc_send_info
SendInfo(e, size) ==
    LET n == Low(size, e.cbw.len)
    IN  [WriteArmed(e, "info", n) EXCEPT
            !.stage = "SEND_CSW", !.residue = (@ - n) % U32, !.status = "passed"]

\* usb_osal_mq_send to a queue of one message, from an interrupt: a full
\* queue drops it; the polling build overwrites its event.
Post(e, event) ==
    IF mode = "thread" /\ e.event # "none" THEN e ELSE [e EXCEPT !.event = event]

\* Faulty variant: the chunk is not cut to the buffer.
TransferLenAll(e) == (e.nsectors * BlkSize) % U32

\* The length of the next chunk.
TransferLen(e) == Low((e.nsectors * BlkSize) % U32, BufSize)

\* Faulty variant: the next access is to the same blocks.
CountedStays(e, len) == [e EXCEPT !.nsectors = (@ - len \div BlkSize) % U32,
                                  !.residue = (@ - len) % U32]

\* What SCSI_processRead and SCSI_processWrite count after an access.
Counted(e, len) ==
    [e EXCEPT !.start_sector = (@ + len \div BlkSize) % U32,
              !.nsectors = (@ - len \div BlkSize) % U32,
              !.residue = (@ - len) % U32]

\* The end of SCSI_processRead when the medium gave data.
ReadDone(e, len, data) ==
    LET f == Counted(e, len)
    IN  WriteArmed([f EXCEPT !.stage = IF f.nsectors = 0 THEN "SEND_CSW" ELSE @,
                             !.block_buffer = data], "block", len)

\* Faulty variant: the next chunk is asked for whether there is one or not.
WriteDoneRearms(e, len) ==
    LET f == Counted(e, len)
        g == ReadArmed(f, "block", TransferLen(f))
    IN  IF f.nsectors = 0 THEN SendCsw(g, "passed") ELSE g

\* The end of SCSI_processWrite when the medium took the data.
WriteDone(e, len) ==
    LET f == Counted(e, len)
    IN  IF f.nsectors = 0 THEN SendCsw(f, "passed")
                          ELSE ReadArmed(f, "block", TransferLen(f))

\* The blocks an access of len touches: a block cut short is touched too.
Touched(lba, len) == {s \in DOMAIN disk : lba <= s /\ s < lba + (len + BlkSize - 1) \div BlkSize}

\* External: what the medium gives and takes.
Stored(lba, len) == [i \in 1 .. len \div BlkSize |->
                        IF lba + i - 1 \in DOMAIN disk THEN disk[lba + i - 1] ELSE Junk]
Written(lba, len, data) ==
    [s \in DOMAIN disk |-> IF s \notin Touched(lba, len) THEN disk[s]
                           ELSE IF s - lba + 1 \in DOMAIN data THEN data[s - lba + 1] ELSE Junk]

\* The range and length checks of SCSI_read10 and SCSI_write10.
InRange(c) == /\ c.len # 0
              /\ (c.lba + c.n) % U32 <= Blocks
              /\ c.len = (c.n * BlkSize) % U32

\* What the command's handler accepts.
Served(c) == \/ c.op = "none" /\ c.len = 0
             \/ c.op = "info" /\ c.len # 0
             \/ c.op = "read" /\ c.in /\ InRange(c)
             \/ c.op = "write" /\ ~c.in /\ InRange(c)

\* The handlers of reads and writes take the addresses before they check them.
Parsed(e) == IF e.cbw.op \in {"read", "write"} /\ e.cbw.len # 0
             THEN [e EXCEPT !.start_sector = e.cbw.lba, !.nsectors = e.cbw.n] ELSE e

\* SCSI_CBWDecode of a command that is served.  ok: the medium's answer to
\* the first access of a read, which the irq build makes here; a failure is
\* reported to the caller, who aborts.
Decoded(e, ok) ==
    LET c == e.cbw
        f == Parsed(e)
        g == [f EXCEPT !.stage = "DATA_IN"]
    IN  CASE c.op = "none" -> SendCsw(e, "passed")
          [] c.op = "info" -> SendInfo(e, InfoLen)
          [] c.op = "write" -> ReadArmed([f EXCEPT !.stage = "DATA_OUT"], "block", TransferLen(f))
          [] c.op = "read" /\ mode # "irq" -> Post(g, "DATA_IN")
          [] OTHER -> IF ok THEN ReadDone(g, TransferLen(g), Stored(c.lba, TransferLen(g)))
                            ELSE BotAbort(g)

\* mass_storage_bulk_out: n units arrived.  ok: the medium's answer, when
\* the build accesses it here.
BulkOut(e, n, ok) ==
    LET f == IF n = CbwLen THEN [e EXCEPT !.residue = e.cbw.len] ELSE e
    IN  CASE e.stage = "READ_CBW" ->
                IF n = CbwLen /\ Served(e.cbw) THEN Decoded(f, ok)
                ELSE BotAbort(IF n = CbwLen THEN Parsed(f) ELSE f)
          [] e.stage = "DATA_OUT" /\ mode # "irq" -> Post([e EXCEPT !.nbytes = n], "DATA_OUT")
          [] e.stage = "DATA_OUT" /\ mode = "irq" ->
                IF ok THEN WriteDone(e, n) ELSE SendCsw(e, "failed")
          [] OTHER -> e

\* Faulty variant: nobody listens after an answer.
BulkInDeaf(e, ok) ==
    CASE e.stage = "DATA_IN" /\ mode # "irq" -> Post(e, "DATA_IN")
      [] e.stage = "DATA_IN" /\ mode = "irq" ->
            ReadDone(e, TransferLen(e), Stored(e.start_sector, TransferLen(e)))
      [] e.stage = "SEND_CSW" -> SendCsw(e, "passed")
      [] OTHER -> [e EXCEPT !.stage = "READ_CBW"]

\* mass_storage_bulk_in
BulkIn(e, ok) ==
    CASE e.stage = "DATA_IN" /\ mode # "irq" -> Post(e, "DATA_IN")
      [] e.stage = "DATA_IN" /\ mode = "irq" ->
            IF ok THEN ReadDone(e, TransferLen(e), Stored(e.start_sector, TransferLen(e)))
                  ELSE SendCsw(e, "failed")
      [] e.stage = "SEND_CSW" -> SendCsw(e, "passed")
      [] e.stage = "WAIT_CSW" -> ReadArmed([e EXCEPT !.stage = "READ_CBW"], "cbw", CbwLen)
      [] OTHER -> e

\* usbd_msc_reset
UsbdMscReset(e) == [e EXCEPT !.stage = "READ_CBW"]

\* When a callback accesses the medium itself.
ReadsHere(e, n) == mode = "irq" /\ e.stage = "READ_CBW" /\ n = CbwLen
                                /\ e.cbw.op = "read" /\ Served(e.cbw)
ReadsNext(e) == mode = "irq" /\ e.stage = "DATA_IN"
WritesHere(e) == mode = "irq" /\ e.stage = "DATA_OUT"

-----------------------------------------------------------------------------
(* The actions of the class that no callback starts.                       *)

\* The thread takes its message, or usbd_msc_polling its event, and starts
\* the access.
WorkerTake ==
    /\ worker.event = "none" /\ d.event # "none"
    /\ worker' = [event |-> d.event, lba |-> d.start_sector,
                  len |-> IF d.event = "DATA_IN" THEN TransferLen(d) ELSE d.nbytes]
    /\ d' = [d EXCEPT !.event = "none"]
    /\ UNCHANGED <<mode, disk>>

\* The access is over; what follows reads the state anew.
WorkerDone(ok) ==
    /\ worker.event # "none"
    /\ worker' = Resting
    /\ disk' = IF ok /\ worker.event = "DATA_OUT"
               THEN Written(worker.lba, worker.len, d.block_buffer) ELSE disk
    /\ d' = CASE ~ok -> SendCsw(d, "failed")
              [] ok /\ worker.event = "DATA_OUT" -> WriteDone(d, worker.len)
              [] OTHER -> ReadDone(d, worker.len, Stored(worker.lba, worker.len))
    /\ UNCHANGED mode

\* USBD_EVENT_RESET: the core has closed the endpoints.
NotifyReset ==
    d' = [UsbdMscReset(d) EXCEPT !.out = Unarmed, !.in = Unarmed,
                                 !.halted = {}, !.configured = FALSE]

\* USBD_EVENT_CONFIGURED
NotifyConfigured == d' = ReadArmed([d EXCEPT !.configured = TRUE], "cbw", CbwLen)
=============================================================================
