--------------------------- MODULE UsbRingbuffer ---------------------------
(***************************************************************************)
(* src/common/usb_ringbuffer.h: a byte ring with two free-running uint32   *)
(* counters.  One writer and one reader run concurrently without a lock    *)
(* ("in single write thread not need lock", "in single read thread not     *)
(* need lock"): each reads the other's counter once, copies bytes, and     *)
(* only then publishes its own counter.  Every byte a memcpy moves is a    *)
(* step of its own, so the two copies interleave in every order.           *)
(* reset and overwrite "should be add lock": they run only while neither   *)
(* side is inside a call, and the reader stays out until an overwrite is   *)
(* over.                                                                   *)
(***************************************************************************)
EXTENDS Integers, Sequences

CONSTANTS Size,     (* rb->mask + 1, a power of two                        *)
          Modulus,  (* 2^32 in the code: the counters wrap here            *)
          Byte,     (* the values written                                  *)
          Junk,     (* what the memory pool holds before the first write   *)
          MaxReq    (* bound: the longest request of a caller              *)

ASSUME SizeAssumption == /\ Size \in Nat /\ Size >= 2
                         /\ Modulus \in Nat
                         /\ \E k \in 2 .. Modulus : Modulus = k * Size
ASSUME DataAssumption == Junk \notin Byte /\ MaxReq \in Nat

VARIABLES in, out,  (* rb->in, rb->out                                     *)
          pool,     (* rb->pool                                            *)
          wpc,      (* the writer: outside, or the call it is inside       *)
          wdata,    (* the bytes its caller handed in                      *)
          wsize,    (* how many of them the call will store                *)
          wdone,    (* how many of those are stored                        *)
          rpc,      (* the reader: outside, or copying for read or peek    *)
          rsize,    (* the clamped size of the reader's call               *)
          rbuf,     (* the bytes copied out so far                         *)
          got       (* the bytes the last read or peek returned            *)

writerVars == <<wpc, wdata, wsize, wdone>>
readerVars == <<rpc, rsize, rbuf, got>>
vars == <<in, out, pool, writerVars, readerVars>>

-----------------------------------------------------------------------------
Least(a, b) == IF a < b THEN a ELSE b

\* rb->in - rb->out, on unsigned integers.
Used == (in - out) % Modulus
Free == Size - Used

\* A transfer of n bytes that starts at counter c is two memcpys: the first
\* runs to the end of the pool, the second from its start.
Remain(c, n) == Least(Size - (c % Size), n)

\* The slot of byte k of the transfer.
Slot(c, n, k) ==
    IF k < Remain(c, n) THEN (c % Size) + k ELSE k - Remain(c, n)

\* Faulty variant: the second memcpy reads the caller's bytes from their start.
SourceAgain(c, n, k) == IF k < Remain(c, n) THEN k + 1 ELSE k - Remain(c, n) + 1

\* Which of the caller's bytes byte k of a write is: the second memcpy reads
\* from data + remain.
Source(c, n, k) ==
    IF k < Remain(c, n) THEN k + 1 ELSE Remain(c, n) + (k - Remain(c, n)) + 1

\* The non-empty runs of at most m bytes a caller may hand in.
Runs(m) == UNION {[1 .. n -> Byte] : n \in 1 .. m}

Init ==
    /\ in = 0 /\ out = 0
    /\ pool = [s \in 0 .. Size - 1 |-> Junk]
    /\ wpc = "idle" /\ wdata = <<>> /\ wsize = 0 /\ wdone = 0
    /\ rpc = "idle" /\ rsize = 0 /\ rbuf = <<>> /\ got = <<>>

-----------------------------------------------------------------------------
(* The writer.                                                             *)

StartCopy(data, size, how) ==
    /\ wpc = "idle"
    /\ wpc' = how /\ wdata' = data /\ wsize' = size /\ wdone' = 0
    /\ UNCHANGED <<in, pool, readerVars>>

\* Faulty variant: a write that forgets the clamp.
WriteUnclamped(data) == StartCopy(data, Len(data), "copy") /\ UNCHANGED out

\* usb_ringbuffer_write: the size is clamped to the room seen now.
Write(data) == StartCopy(data, Least(Len(data), Free), "copy") /\ UNCHANGED out

\* usb_ringbuffer_write_byte: refused when full.
WriteByte(b) == Used <= Size - 1 /\ StartCopy(<<b>>, 1, "copy") /\ UNCHANGED out

\* usb_ringbuffer_linear_write_setup: the caller fills the contiguous part
\* itself (a DMA engine, say) and then calls linear_write_done.
LinearWriteSetup(data) ==
    /\ StartCopy(data, Least(Len(data), Least(Size - (in % Size), Free)), "linear")
    /\ UNCHANGED out

\* The calls that need the lock: nobody is inside another call.
Locked == wpc = "idle" /\ rpc = "idle"

\* usb_ringbuffer_overwrite and overwrite_byte: the size is clamped to the
\* pool, and out moves at once by just what the room lacks.
Overwrite(data) ==
    /\ Locked
    /\ LET n == Least(Len(data), Size)
       IN  /\ StartCopy(data, n, "overwrite")
           /\ out' = IF n > Free THEN (out + (n - Free)) % Modulus ELSE out

CopyIn ==
    /\ wpc # "idle" /\ wdone < wsize
    /\ pool' = [pool EXCEPT ![Slot(in, wsize, wdone)] = wdata[Source(in, wsize, wdone)]]
    /\ wdone' = wdone + 1
    /\ UNCHANGED <<in, out, wpc, wdata, wsize, readerVars>>

WriteEnds ==
    /\ wpc' = "idle" /\ wdata' = <<>> /\ wsize' = 0 /\ wdone' = 0
    /\ UNCHANGED <<out, pool, readerVars>>

\* Faulty variant: the counter does not wrap.
PublishInNoWrap ==
    /\ wpc # "idle" /\ wdone = wsize
    /\ in' = in + wdone
    /\ WriteEnds

\* The counter moves after the bytes; linear_write_done clamps once more.
PublishIn ==
    /\ wpc # "idle" /\ wdone = wsize
    /\ LET size == IF wpc = "linear" THEN Least(wdone, Free) ELSE wdone
       IN  in' = (in + size) % Modulus
    /\ WriteEnds

-----------------------------------------------------------------------------
(* The reader.                                                             *)

\* An overwrite holds the lock; no other call of the writer keeps it out.
ReaderMayEnter == rpc = "idle" /\ wpc # "overwrite"

StartRead(size, how) ==
    /\ ReaderMayEnter
    /\ rpc' = how /\ rsize' = size /\ rbuf' = <<>>
    /\ UNCHANGED <<in, out, pool, writerVars, got>>

\* usb_ringbuffer_read and _peek, the linear variant, and their byte forms.
Read(size) == StartRead(Least(size, Used), "read")
Peek(size) == StartRead(Least(size, Used), "peek")
LinearRead(size) ==
    StartRead(Least(size, Least(Size - (out % Size), Used)), "read")
ReadByteUnchecked == StartRead(1, "read")   \* faulty: no check for empty
ReadByte == in # out /\ StartRead(1, "read")
PeekByte == in # out /\ StartRead(1, "peek")

CopyOut ==
    /\ rpc # "idle" /\ Len(rbuf) < rsize
    /\ rbuf' = Append(rbuf, pool[Slot(out, rsize, Len(rbuf))])
    /\ UNCHANGED <<in, out, pool, writerVars, rpc, rsize, got>>

PublishOut ==
    /\ rpc # "idle" /\ Len(rbuf) = rsize
    /\ out' = IF rpc = "read" THEN (out + rsize) % Modulus ELSE out
    /\ got' = rbuf
    /\ rpc' = "idle" /\ rsize' = 0 /\ rbuf' = <<>>
    /\ UNCHANGED <<in, pool, writerVars>>

\* usb_ringbuffer_drop, drop_byte and linear_read_done.
Drop(size) ==
    /\ ReaderMayEnter
    /\ out' = (out + Least(size, Used)) % Modulus
    /\ UNCHANGED <<in, pool, writerVars, readerVars>>

\* usb_ringbuffer_reset_read: safe for the reader without a lock.
ResetRead ==
    /\ ReaderMayEnter
    /\ out' = in
    /\ UNCHANGED <<in, pool, writerVars, readerVars>>

\* usb_ringbuffer_reset.
Reset ==
    /\ Locked
    /\ in' = 0 /\ out' = 0
    /\ UNCHANGED <<pool, writerVars, readerVars>>

-----------------------------------------------------------------------------
WriterNext ==
    \/ \E data \in Runs(MaxReq) : Write(data) \/ LinearWriteSetup(data)
    \/ \E b \in Byte : WriteByte(b)
    \/ CopyIn
    \/ PublishIn

ReaderNext ==
    \/ \E size \in 1 .. MaxReq :
         Read(size) \/ Peek(size) \/ LinearRead(size) \/ Drop(size)
    \/ ReadByte \/ PeekByte
    \/ CopyOut
    \/ PublishOut
    \/ ResetRead

LockedNext == Reset \/ \E data \in Runs(Size + 1) : Overwrite(data)

Next == WriterNext \/ ReaderNext \/ LockedNext

Spec == Init /\ [][Next]_vars

-----------------------------------------------------------------------------
(* Properties.                                                             *)

\* The counters, the pool and the two calls in progress have their types.
TypeOK ==
    /\ in \in 0 .. Modulus - 1
    /\ out \in 0 .. Modulus - 1
    /\ pool \in [0 .. Size - 1 -> Byte \cup {Junk}]
    /\ wpc \in {"idle", "copy", "linear", "overwrite"}
    /\ wdata \in Seq(Byte)
    /\ wsize \in 0 .. Len(wdata)
    /\ wdone \in 0 .. wsize
    /\ rpc \in {"idle", "read", "peek"}
    /\ rsize \in Nat
    /\ rbuf \in Seq(Byte \cup {Junk}) /\ Len(rbuf) <= rsize
    /\ got \in Seq(Byte \cup {Junk})

\* The bytes written and not yet consumed, and the slots that hold them.
Content == [i \in 1 .. Used |-> pool[(out + i - 1) % Size]]
Unread  == {(out + i) % Size : i \in 0 .. Used - 1}

\* The slots the writer's call in progress has still to fill.
Filling == {Slot(in, wsize, k) : k \in 0 .. wsize - 1}

\* The slots the reader's call in progress copies from.
Draining == {Slot(out, rsize, k) : k \in 0 .. rsize - 1}

\* The unread bytes never outnumber the pool, across wrap-around of the
\* counters: write clamps to the room, read and drop to what is there.
UsedFits == Used <= Size

\* A room or a fill level seen at the start of a call stays good until its
\* end although the other side moves its counter meanwhile.
ClampStaysValid ==
    /\ wpc # "idle" => wsize <= Free
    /\ rpc # "idle" => rsize <= Used

\* The lock-free claim of the header: the slots a writer is filling are
\* none that hold unread bytes, hence none the reader is copying.
NoOverlap ==
    /\ wpc # "idle" => Filling \cap Unread = {}
    /\ rpc # "idle" => Draining \subseteq Unread

\* The ring implements the bounded byte queue: what a reader gets are the
\* very bytes the writer's callers handed in, in their order, whichever of
\* the two memcpys moved them and wherever the pool and the counters wrap.
Fifo == INSTANCE ByteFifo
            WITH Capacity <- Size, queue <- Content, handed <- wdata, delivered <- got
RefinesFifo == Fifo!FifoSpec
=============================================================================
