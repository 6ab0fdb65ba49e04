------------------------------ MODULE ByteFifo ------------------------------
(***************************************************************************)
(* What usb_ringbuffer promises to one writer and one reader: a bounded    *)
(* first-in first-out queue of bytes.  A writer hands in a run of bytes    *)
(* and, in one step, the first of them join the queue behind the others;   *)
(* a read hands out the oldest bytes, a peek does so without removing      *)
(* them, a drop removes them unseen, an overwrite makes room by discarding *)
(* the oldest bytes, and a reset empties the queue.  No byte enters the    *)
(* queue that was not handed in.  UsbRingbuffer is shown to implement this *)
(* module.                                                                 *)
(***************************************************************************)
EXTENDS Integers, Sequences

CONSTANTS Capacity,  (* how many bytes the queue holds                     *)
          Byte       (* the values a byte takes                            *)

VARIABLES queue,     (* the bytes written and not yet consumed, oldest first *)
          handed,    (* the bytes of the writer's call, until it is over   *)
          delivered  (* the bytes the last read or peek handed out         *)

fifoVars == <<queue, handed, delivered>>

FifoInit == queue = <<>> /\ handed = <<>> /\ delivered = <<>>

\* The first n bytes, what is left without them, and the room there is.
Oldest(n)  == SubSeq(queue, 1, n)
Without(n) == SubSeq(queue, n + 1, Len(queue))
Room       == Capacity - Len(queue)

\* A call of the writer begins, with bytes of its caller's choice.
HandIn ==
    /\ handed = <<>>
    /\ handed' \in Seq(Byte) /\ handed' # <<>>
    /\ UNCHANGED delivered

Call == HandIn /\ UNCHANGED queue

\* A call that makes room for its bytes discards the oldest ones, and no more
\* than needed.
Displace ==
    /\ HandIn
    /\ LET size == IF Len(handed') < Capacity THEN Len(handed') ELSE Capacity
       IN  size > Room /\ queue' = Without(size - Room)

\* The call is over: as many of its first bytes as it stored follow the others.
Put ==
    /\ \E n \in 0 .. Len(handed) :
         n <= Room /\ queue' = queue \o SubSeq(handed, 1, n)
    /\ handed' = <<>>
    /\ UNCHANGED delivered

Take ==
    /\ \E n \in 0 .. Len(queue) : queue' = Without(n) /\ delivered' = Oldest(n)
    /\ UNCHANGED handed

PeekAt ==
    /\ \E n \in 0 .. Len(queue) : delivered' = Oldest(n)
    /\ UNCHANGED <<queue, handed>>

Discard ==
    /\ \E n \in 0 .. Len(queue) : queue' = Without(n)
    /\ UNCHANGED <<handed, delivered>>

FifoNext == Call \/ Displace \/ Put \/ Take \/ PeekAt \/ Discard

FifoSpec == FifoInit /\ [][FifoNext]_fifoVars
=============================================================================
