-------------------------- MODULE UsbhSerialProofs --------------------------
(***************************************************************************)
(* Proofs about UsbhSerial for every size of ring, packet and read, and    *)
(* every set of faults.                                                    *)
(*                                                                         *)
(* TypeOK needs Buffers: what the callback copies is what arrived, because *)
(* the URB is in the other buffer.  NothingLost needs the room that every  *)
(* place of the reception keeps (RoomKept).                                *)
(***************************************************************************)
EXTENDS UsbhSerial, SequenceTheorems, TLAPS

\* The URB and the callback use different buffers, unless a callback came
\* between the filling of the URB and its submission.
Buffers ==
    /\ urb.done # "none" => urb.armed
    /\ ~seen.moved =>
          /\ urb.armed => urb.buf = s.index
          /\ cb.busy => cb.buf = 1 - s.index
          /\ rd = "submit" => urb.buf = s.index

\* Unless a callback came between the reader's look at the room and its
\* submission: there is room for what the callback copies and for the packet
\* after it.
Copying == IF cb.busy THEN cb.n ELSE 0
RoomKept ==
    ~seen.late =>
        /\ ~seen.refused => seen.lost = 0
        /\ Room >= Copying
        /\ urb.armed => Room >= Copying + BulkSize
        /\ rd \in Restarting => Room >= BulkSize /\ ~cb.busy

\* Parked, also while the callback copies.
Submitting == {"errno", "fill", "submit"}
Marked == seen.on /\ ~urb.armed => s.pending \/ rd \in Submitting

SerialInv == TypeOK /\ Buffers /\ RoomKept /\ Marked

Serial == [open : BOOLEAN, attr : BOOLEAN, nonblock : BOOLEAN, index : 0 .. 1,
           pending : BOOLEAN, err : {"ok", "io", "shutdown", "submit"}, sem : 0 .. 1]
Urbs   == [armed : BOOLEAN, buf : 0 .. 1, done : {"none", "data", "error"}, n : 0 .. BulkSize]
Copies == [busy : BOOLEAN, buf : 0 .. 1, n : 0 .. BulkSize]
Places == {"idle", "pending", "clear", "errno", "fill", "submit", "used", "take", "error", "copy"}
Lines  == [sent : 0 .. MaxBytes, zlps : 0 .. MaxZlps, sets : 0 .. MaxSets]
History == [on : BOOLEAN, late : BOOLEAN, moved : BOOLEAN, lost : Nat, refused : BOOLEAN,
            untold : BOOLEAN, ret : {"none", "ok", "busy", "submit", "timeout", "io", "shutdown"}]

LEMMA Sizes == /\ BulkSize \in Nat /\ BulkSize > 0 /\ RxSize \in Nat /\ RxSize >= BulkSize
               /\ BufLen \in Nat /\ MaxBytes \in Nat /\ MaxZlps \in Nat /\ MaxSets \in Nat
  BY SerialAssumption DEF SerialAssumption

\* TypeOK, one set per variable.
LEMMA TypeParts ==
    TypeOK <=> /\ s \in Serial /\ rb \in Seq(Bytes) /\ Len(rb) <= RxSize /\ out \in Seq(Bytes)
               /\ urb \in Urbs /\ iob \in [0 .. 1 -> [1 .. BulkSize -> Bytes]] /\ cb \in Copies
               /\ rd \in Places /\ line \in Lines /\ seen \in History
  BY DEF TypeOK, Serial, Urbs, Copies, Places, Lines, History, Restarting

\* The same after a step.
LEMMA TypePartsNext ==
    TypeOK' <=> /\ s' \in Serial /\ rb' \in Seq(Bytes) /\ Len(rb') <= RxSize /\ out' \in Seq(Bytes)
                /\ urb' \in Urbs /\ iob' \in [0 .. 1 -> [1 .. BulkSize -> Bytes]] /\ cb' \in Copies
                /\ rd' \in Places /\ line' \in Lines /\ seen' \in History
  BY DEF TypeOK, Serial, Urbs, Copies, Places, Lines, History, Restarting

\* Setting fields of the instance to values of their types.
Errors == {"ok", "io", "shutdown", "submit"}
LEMMA SetErrorSem ==
    ASSUME NEW t \in Serial, NEW e \in Errors, NEW k \in 0 .. 1
    PROVE  [t EXCEPT !.err = e, !.sem = k] \in Serial
  BY DEF Serial, Errors

LEMMA Told ==
    ASSUME NEW t \in Serial
    PROVE  /\ [t EXCEPT !.err = "io", !.sem = 1] \in Serial
           /\ [t EXCEPT !.err = "ok", !.sem = 1] \in Serial
           /\ [t EXCEPT !.err = "shutdown", !.sem = 1] \in Serial
           /\ [t EXCEPT !.err = "submit", !.sem = 1] \in Serial
<1>1. \A e \in Errors, k \in 0 .. 1 : [t EXCEPT !.err = e, !.sem = k] \in Serial
  BY SetErrorSem
<1>2. 1 \in 0 .. 1 /\ "io" \in Errors /\ "ok" \in Errors /\ "shutdown" \in Errors /\ "submit" \in Errors
  BY DEF Errors
<1> QED
  BY <1>1, <1>2, Zenon

LEMMA SetPendingError ==
    ASSUME NEW t \in Serial, NEW p \in BOOLEAN, NEW e \in Errors
    PROVE  [t EXCEPT !.pending = p, !.err = e] \in Serial
  BY DEF Serial, Errors

LEMMA SetLine ==
    ASSUME NEW t \in Serial, NEW p \in BOOLEAN, NEW k \in 0 .. 1, NEW x \in 0 .. 1, NEW e \in Errors
    PROVE  [t EXCEPT !.attr = p, !.sem = k, !.index = x, !.err = e] \in Serial
  BY DEF Serial, Errors

LEMMA SetIndexPending ==
    ASSUME NEW t \in Serial, NEW x \in 0 .. 1, NEW p \in BOOLEAN
    PROVE  [t EXCEPT !.index = x, !.pending = p] \in Serial
  BY DEF Serial

LEMMA SetOne ==
    ASSUME NEW t \in Serial, NEW p \in BOOLEAN
    PROVE  /\ [t EXCEPT !.open = p] \in Serial
           /\ [t EXCEPT !.attr = p] \in Serial
           /\ [t EXCEPT !.open = TRUE, !.nonblock = p] \in Serial
<1>1. [t EXCEPT !.open = p] \in Serial /\ [t EXCEPT !.attr = p] \in Serial
  BY DEF Serial
<1>2. [t EXCEPT !.open = TRUE, !.nonblock = p] \in Serial
  BY DEF Serial
<1> QED
  BY <1>1, <1>2

\* The same for the history.
Results == {"none", "ok", "busy", "submit", "timeout", "io", "shutdown"}
LEMMA SetOnUntold ==
    ASSUME NEW t \in History, NEW p \in BOOLEAN, NEW q \in BOOLEAN
    PROVE  [t EXCEPT !.on = p, !.untold = q] \in History
  BY DEF History

LEMMA SetPast ==
    ASSUME NEW t \in History, NEW p \in BOOLEAN, NEW q \in BOOLEAN
    PROVE  [t EXCEPT !.late = p, !.moved = q] \in History
  BY DEF History

LEMMA SetResult ==
    ASSUME NEW t \in History, NEW r \in Results
    PROVE  [t EXCEPT !.ret = r] \in History
  BY DEF History, Results

LEMMA SetResultUntold ==
    ASSUME NEW t \in History, NEW r \in Results, NEW p \in BOOLEAN
    PROVE  [t EXCEPT !.ret = r, !.untold = p] \in History
  BY DEF History, Results

LEMMA SetResultOnUntold ==
    ASSUME NEW t \in History, NEW r \in Results, NEW p \in BOOLEAN, NEW q \in BOOLEAN
    PROVE  [t EXCEPT !.ret = r, !.on = p, !.untold = q] \in History
  BY DEF History, Results

LEMMA SetHistory ==
    ASSUME NEW t \in History, NEW p \in BOOLEAN, NEW k \in Nat
    PROVE  /\ [t EXCEPT !.refused = p] \in History /\ [t EXCEPT !.lost = k] \in History
           /\ [t EXCEPT !.on = p] \in History /\ [t EXCEPT !.untold = p] \in History
<1>1. [t EXCEPT !.refused = p] \in History /\ [t EXCEPT !.lost = k] \in History
  BY DEF History
<1>2. [t EXCEPT !.on = p] \in History /\ [t EXCEPT !.untold = p] \in History
  BY DEF History
<1> QED
  BY <1>1, <1>2

LEMMA InitHolds == Init => SerialInv
<1> SUFFICES ASSUME Init PROVE SerialInv
  OBVIOUS
<1>1. Len(<<>>) = 0 /\ <<>> \in Seq(Bytes)
  OBVIOUS
<1>2. TypeOK
  <2>1. s \in Serial /\ seen \in History
    BY DEF Init, Serial, History
  <2>2. urb \in Urbs /\ cb \in Copies /\ line \in Lines /\ rd \in Places
    BY Sizes DEF Init, Urbs, Copies, Lines, Places, Idle, Waiting
  <2>3. iob \in [0 .. 1 -> [1 .. BulkSize -> Bytes]] /\ rb \in Seq(Bytes) /\ out \in Seq(Bytes) /\ Len(rb) <= RxSize
    BY <1>1, Sizes DEF Init, Bytes
  <2> QED
    BY <2>1, <2>2, <2>3, TypeParts
<1>3. Buffers /\ RoomKept /\ Marked
  BY <1>1, Sizes DEF Init, Buffers, RoomKept, Marked, Copying, Room, Restarting, Submitting, Idle, Waiting
<1> QED
  BY <1>2, <1>3 DEF SerialInv

-----------------------------------------------------------------------------
(* The device, and the callback.                                           *)

LEMMA DeviceSendsInv == SerialInv /\ DeviceSends => SerialInv'
<1> SUFFICES ASSUME SerialInv, NEW n \in 0 .. BulkSize, Sends(n) PROVE SerialInv'
  BY DEF DeviceSends
<1> USE Sizes
<1> DEFINE data == [i \in 1 .. BulkSize |-> IF i <= n THEN line.sent + i ELSE iob[urb.buf][i]]
<1>2. /\ s \in Serial /\ urb \in Urbs /\ iob \in [0 .. 1 -> [1 .. BulkSize -> Bytes]] /\ line \in Lines /\ cb \in Copies
  BY TypeParts DEF SerialInv
<1>1. /\ urb.armed /\ urb.done = "none" /\ iob' = [iob EXCEPT ![urb.buf] = data]
      /\ urb' = [urb EXCEPT !.done = "data", !.n = n]
      /\ UNCHANGED <<s, rb, cb, rd, out, seen>>
  <2>1. iob' = [iob EXCEPT ![urb.buf] = [i \in 1 .. BulkSize |-> IF i <= n THEN line.sent + i ELSE @[i]]]
    BY DEF Sends
  <2>2. iob' = [iob EXCEPT ![urb.buf] = data]
    BY <1>2, <2>1 DEF Urbs
  <2> QED
    BY <2>2 DEF Sends
<1>3. data \in [1 .. BulkSize -> Bytes]
  BY <1>2, SMTT(30) DEF Lines, Urbs, Bytes
<1> HIDE DEF data
<1>4. /\ urb' \in Urbs /\ urb'.armed /\ urb'.buf = urb.buf /\ urb'.n = n
      /\ urb.buf \in 0 .. 1 /\ iob' \in [0 .. 1 -> [1 .. BulkSize -> Bytes]]
  BY <1>1, <1>2, <1>3 DEF Urbs
<1>5. line' \in Lines
  <2>1. line' = [line EXCEPT !.sent = @ + n, !.zlps = IF n = 0 THEN @ + 1 ELSE @]
        /\ IF n = 0 THEN line.zlps < MaxZlps ELSE line.sent + n <= MaxBytes
    BY DEF Sends
  <2> DEFINE a == line.sent + n
             b == IF n = 0 THEN line.zlps + 1 ELSE line.zlps
  <2>2. a \in 0 .. MaxBytes /\ b \in 0 .. MaxZlps
    BY <1>2, <2>1 DEF Lines
  <2>3. line' = [line EXCEPT !.sent = a, !.zlps = b]
    BY <1>2, <2>1 DEF Lines
  <2> HIDE DEF a, b
  <2> QED
    BY <1>2, <2>2, <2>3 DEF Lines
<1>6. TypeOK'
  BY <1>1, <1>4, <1>5, TypeParts, TypePartsNext DEF SerialInv
<1>7. Buffers'
  BY <1>1, <1>4 DEF SerialInv, Buffers
<1>8. RoomKept' /\ Marked'
  BY <1>1, <1>4 DEF SerialInv, RoomKept, Marked, Copying, Room, Restarting, Submitting
<1> QED
  BY <1>6, <1>7, <1>8 DEF SerialInv

LEMMA TransferFailsInv == SerialInv /\ TransferFails => SerialInv'
<1> SUFFICES ASSUME SerialInv, TransferFails PROVE SerialInv'
  OBVIOUS
<1>1. /\ urb' = [urb EXCEPT !.done = "error"] /\ UNCHANGED <<s, rb, iob, cb, rd, line, out, seen>>
      /\ urb.armed /\ urb \in Urbs
  BY TypeParts DEF TransferFails, SerialInv
<1>2. urb' \in Urbs /\ urb'.armed /\ urb'.buf = urb.buf /\ urb'.done = "error"
  BY <1>1 DEF Urbs
<1>3. TypeOK'
  BY <1>1, <1>2, TypeParts, TypePartsNext DEF SerialInv
<1> QED
  BY <1>1, <1>2, <1>3 DEF SerialInv, Buffers, RoomKept, Marked, Copying, Room, Restarting, Submitting

\* A URB that is over is not submitted and waits for no interrupt.
LEMMA OverIs ==
    ASSUME urb \in Urbs
    PROVE  Over \in Urbs /\ ~Over.armed /\ Over.done = "none" /\ Over.buf = urb.buf
  BY DEF Over, Urbs

LEMMA CallbackErrorInv == SerialInv /\ CallbackError => SerialInv'
<1> SUFFICES ASSUME SerialInv, CallbackError PROVE SerialInv'
  OBVIOUS
<1> USE Sizes
<1>1. /\ s' = [s EXCEPT !.err = "io", !.sem = 1] /\ urb' = Over
      /\ seen' = [seen EXCEPT !.on = FALSE, !.untold = TRUE]
      /\ ~cb.busy /\ UNCHANGED <<rb, iob, cb, rd, line, out>>
      /\ s \in Serial /\ seen \in History /\ urb \in Urbs
  BY TypeParts DEF CallbackError, Interrupts, SerialInv
<1>2. s' \in Serial
  BY <1>1, Told
<1>3. s'.index = s.index
  BY <1>1 DEF Serial
<1>4. urb' \in Urbs /\ ~urb'.armed /\ urb'.done = "none" /\ urb'.buf = urb.buf
  BY <1>1, OverIs
<1>5. seen' \in History
  BY <1>1, SetOnUntold
<1>6. /\ seen'.late = seen.late /\ seen'.moved = seen.moved /\ seen'.refused = seen.refused
      /\ seen'.lost = seen.lost /\ ~seen'.on
  BY <1>1 DEF History
<1>7. TypeOK'
  BY <1>1, <1>2, <1>4, <1>5, TypeParts, TypePartsNext DEF SerialInv
<1> QED
  BY <1>1, <1>3, <1>4, <1>6, <1>7
     DEF SerialInv, Buffers, RoomKept, Marked, Copying, Room, Restarting

\* The three outcomes of the second half of the callback's decision.
LEMMA CallbackDataInv == SerialInv /\ CallbackData => SerialInv'
<1> SUFFICES ASSUME SerialInv, CallbackData PROVE SerialInv'
  OBVIOUS
<1> USE Sizes
<1> DEFINE x == 1 - s.index
           t == [s EXCEPT !.index = x]
<1>1. /\ ~cb.busy /\ urb.done = "data" /\ urb.armed
      /\ UNCHANGED <<rb, iob, rd, line, out>>
  BY DEF CallbackData, Interrupts, SerialInv, Buffers
<1>2. /\ s \in Serial /\ seen \in History /\ urb \in Urbs /\ cb \in Copies /\ rd \in Places
      /\ Len(rb) \in Nat /\ Len(rb) <= RxSize
  BY TypeParts DEF SerialInv
<1>3. x \in 0 .. 1 /\ s.index \in 0 .. 1 /\ s.index = 1 - x /\ urb.n \in 0 .. BulkSize
  BY <1>2 DEF Serial, Urbs
<1>4. t \in Serial /\ t.index = x
  <2>1. t = [s EXCEPT !.index = x, !.pending = s.pending] /\ s.pending \in BOOLEAN
    BY <1>2 DEF Serial
  <2> QED
    BY <1>2, <1>3, <2>1 DEF Serial
<1>5. /\ Late \in BOOLEAN /\ (~Late => ~seen.late /\ rd \notin Restarting)
      /\ Moved \in BOOLEAN /\ (~Moved => rd' # "submit")
  BY <1>1, <1>2 DEF Late, Moved, History
<1>6. ~Late => (~seen.refused => seen.lost = 0) /\ Room >= BulkSize /\ rd' \notin Restarting
  BY <1>1, <1>2, <1>5 DEF SerialInv, RoomKept, Copying, Room
<1>7. CASE /\ Full(urb.n) /\ cb' = [busy |-> TRUE, buf |-> s.index, n |-> urb.n]
           /\ s' = [t EXCEPT !.pending = TRUE] /\ urb' = Over
           /\ seen' = [seen EXCEPT !.late = Late, !.moved = Moved]
  <2>1. s' \in Serial /\ s'.index = x /\ s'.pending
    BY <1>4, <1>7 DEF Serial
  <2>2. urb' \in Urbs /\ ~urb'.armed /\ urb'.done = "none"
    BY <1>2, <1>7, OverIs
  <2>3. seen' \in History
    BY <1>2, <1>5, <1>7, SetPast
  <2>4. seen'.late = Late /\ seen'.moved = Moved /\ seen'.lost = seen.lost /\ seen'.refused = seen.refused
    BY <1>2, <1>7 DEF History
  <2>5. cb' \in Copies /\ cb'.busy /\ cb'.buf = s.index /\ cb'.n = urb.n
    BY <1>3, <1>7 DEF Copies
  <2>6. TypeOK'
    BY <1>1, <2>1, <2>2, <2>3, <2>5, TypeParts, TypePartsNext DEF SerialInv
  <2>7. Buffers' /\ Marked'
    BY <1>1, <1>3, <1>5, <2>1, <2>2, <2>4, <2>5 DEF Buffers, Marked
  <2>8. RoomKept'
    BY <1>1, <1>2, <1>3, <1>6, <2>2, <2>4, <2>5 DEF RoomKept, Copying, Room
  <2> QED
    BY <2>6, <2>7, <2>8 DEF SerialInv
<1>8. CASE /\ ~Full(urb.n) /\ cb' = [busy |-> TRUE, buf |-> s.index, n |-> urb.n]
           /\ s' = [t EXCEPT !.pending = FALSE, !.err = "ok"] /\ urb' = Submitted(x)
           /\ seen' = [seen EXCEPT !.late = Late, !.moved = Moved]
  <2>1. s' \in Serial
    <3>1. \A p \in BOOLEAN, e \in Errors : [t EXCEPT !.pending = p, !.err = e] \in Serial
      BY <1>4, SetPendingError
    <3>2. FALSE \in BOOLEAN /\ "ok" \in Errors
      BY DEF Errors
    <3> QED
      BY <1>8, <3>1, <3>2, Zenon
  <2>2. s'.index = x
    BY <1>4, <1>8 DEF Serial
  <2>3. urb' \in Urbs /\ urb'.armed /\ urb'.done = "none" /\ urb'.buf = x
    BY <1>3, <1>8 DEF Urbs, Submitted
  <2>4. seen' \in History
    BY <1>2, <1>5, <1>8, SetPast
  <2>5. seen'.late = Late /\ seen'.moved = Moved /\ seen'.lost = seen.lost /\ seen'.refused = seen.refused
    BY <1>2, <1>8 DEF History
  <2>6. cb' \in Copies /\ cb'.busy /\ cb'.buf = s.index /\ cb'.n = urb.n
    BY <1>3, <1>8 DEF Copies
  <2>7. TypeOK'
    BY <1>1, <2>1, <2>3, <2>4, <2>6, TypeParts, TypePartsNext DEF SerialInv
  <2>8. Buffers' /\ Marked'
    BY <1>1, <1>3, <1>5, <2>2, <2>3, <2>5, <2>6 DEF Buffers, Marked
  <2>9. RoomKept'
    <3>1. urb.n + BulkSize <= Room
      BY <1>2, <1>3, <1>8 DEF Full, Room
    <3> QED
      BY <1>1, <1>2, <1>3, <1>6, <2>5, <2>6, <3>1 DEF RoomKept, Copying, Room
  <2> QED
    BY <2>7, <2>8, <2>9 DEF SerialInv
<1>9. CASE /\ s' = [t EXCEPT !.pending = FALSE, !.err = "submit", !.sem = 1]
           /\ urb' = [Over EXCEPT !.buf = x]
           /\ seen' = [seen EXCEPT !.late = Late, !.moved = Moved, !.on = FALSE,
                                   !.lost = @ + urb.n, !.refused = TRUE, !.untold = TRUE]
           /\ UNCHANGED cb
  <2> DEFINE u == [t EXCEPT !.pending = FALSE]
             k == seen.lost + urb.n
  <2>1. u \in Serial /\ u.index = x
    BY <1>4 DEF Serial
  <2>2. s' = [u EXCEPT !.err = "submit", !.sem = 1]
    BY <1>4, <1>9 DEF Serial
  <2> HIDE DEF u
  <2>3. s' \in Serial
    BY <2>1, <2>2, Told
  <2>4. s'.index = x
    BY <2>1, <2>2 DEF Serial
  <2>5. urb' \in Urbs /\ ~urb'.armed /\ urb'.done = "none"
    <3>1. Over \in Urbs /\ ~Over.armed /\ Over.done = "none"
      BY <1>2, OverIs
    <3> QED
      BY <1>3, <1>9, <3>1 DEF Urbs
  <2>6. seen' = [seen EXCEPT !.late = Late, !.moved = Moved, !.on = FALSE,
                             !.lost = k, !.refused = TRUE, !.untold = TRUE]
    BY <1>2, <1>9 DEF History
  <2>7. k \in Nat
    BY <1>2, <1>3 DEF History
  <2> HIDE DEF k
  <2>8. seen' \in History
    BY <1>2, <1>5, <2>6, <2>7 DEF History
  <2>9. seen'.late = Late /\ seen'.moved = Moved /\ seen'.refused /\ ~seen'.on
    BY <1>2, <2>6 DEF History
  <2>10. TypeOK'
    BY <1>1, <1>9, <2>3, <2>5, <2>8, TypeParts, TypePartsNext DEF SerialInv
  <2>11. Buffers' /\ Marked'
    BY <1>1, <1>5, <1>9, <2>5, <2>9 DEF Buffers, Marked
  <2>12. RoomKept'
    BY <1>1, <1>2, <1>6, <1>9, <2>5, <2>9 DEF RoomKept, Copying, Room, Restarting
  <2> QED
    BY <2>10, <2>11, <2>12 DEF SerialInv
<1> QED
  BY <1>4, <1>7, <1>8, <1>9 DEF CallbackData, NextBuffer

\* What the callback copies finds room, or a callback fell where it may not.
LEMMA CallbackCopiesInv == SerialInv /\ CallbackCopies => SerialInv'
<1> SUFFICES ASSUME SerialInv, CallbackCopies PROVE SerialInv'
  OBVIOUS
<1> USE Sizes
<1> DEFINE k == Least(cb.n, Room)
           data == SubSeq(iob[cb.buf], 1, k)
           lost == seen.lost + cb.n - k
<1>1. /\ cb.busy /\ cb' = Waiting /\ rb' = rb \o data /\ seen' = [seen EXCEPT !.lost = lost]
      /\ s' = [s EXCEPT !.err = "ok", !.sem = 1] /\ UNCHANGED <<urb, iob, rd, line, out>>
  <2>1. seen' = [seen EXCEPT !.lost = @ + cb.n - k]
    BY DEF CallbackCopies
  <2>2. seen' = [seen EXCEPT !.lost = lost]
    BY <2>1, TypeParts DEF SerialInv, History
  <2> QED
    BY <2>2 DEF CallbackCopies
<1>2. /\ s \in Serial /\ seen \in History /\ urb \in Urbs /\ cb \in Copies
      /\ rb \in Seq(Bytes) /\ Len(rb) \in Nat /\ Len(rb) <= RxSize /\ iob \in [0 .. 1 -> [1 .. BulkSize -> Bytes]]
  BY TypeParts DEF SerialInv
<1>3. /\ cb.n \in 0 .. BulkSize /\ cb.buf \in 0 .. 1 /\ iob[cb.buf] \in [1 .. BulkSize -> Bytes]
      /\ iob[cb.buf] \in Seq(Bytes) /\ Len(iob[cb.buf]) = BulkSize
  <2>1. cb.n \in 0 .. BulkSize /\ cb.buf \in 0 .. 1
    BY <1>2 DEF Copies
  <2>2. iob[cb.buf] \in [1 .. BulkSize -> Bytes]
    BY <1>2, <2>1
  <2> QED
    BY <2>1, <2>2
<1>4. k \in 0 .. cb.n /\ k <= Room /\ (Room >= cb.n => k = cb.n) /\ Room \in Nat
  <2>1. Room \in Nat
    BY <1>2 DEF Room
  <2> QED
    BY <1>3, <2>1 DEF Least
<1>5. data \in Seq(Bytes) /\ Len(data) = k
  BY <1>3, <1>4
<1>6. lost \in Nat /\ (Room >= cb.n => lost = seen.lost)
  BY <1>2, <1>3, <1>4 DEF History
<1> HIDE DEF k, data, lost
<1>7. rb' \in Seq(Bytes) /\ Len(rb') = Len(rb) + k /\ Len(rb') <= RxSize
  <2>1. rb \o data \in Seq(Bytes) /\ Len(rb \o data) = Len(rb) + k
    BY <1>2, <1>5, ConcatProperties
  <2> QED
    BY <1>1, <1>2, <1>4, <2>1 DEF Room
<1>8. s' \in Serial
  BY <1>1, <1>2, Told
<1>9. s'.index = s.index /\ s'.pending = s.pending
  BY <1>1, <1>2 DEF Serial
<1>10. cb' \in Copies /\ ~cb'.busy
  BY <1>1 DEF Waiting, Copies
<1>11. seen' \in History
  BY <1>1, <1>2, <1>6, SetHistory
<1>12. seen'.lost = lost /\ seen'.late = seen.late /\ seen'.moved = seen.moved /\ seen'.refused = seen.refused /\ seen'.on = seen.on
  BY <1>1, <1>2 DEF History
<1>13. TypeOK'
  BY <1>1, <1>7, <1>8, <1>10, <1>11, TypeParts, TypePartsNext DEF SerialInv
<1>14. Buffers' /\ Marked'
  BY <1>1, <1>9, <1>10, <1>12 DEF SerialInv, Buffers, Marked, Submitting
<1>15. RoomKept'
  <2>1. ~seen.late => /\ (~seen.refused => seen.lost = 0) /\ Room >= cb.n
                      /\ (urb.armed => Room >= cb.n + BulkSize) /\ rd \notin Restarting
    BY <1>1 DEF SerialInv, RoomKept, Copying
  <2>2. Room' = Room - k /\ Copying' = 0 /\ Room' \in Nat
    BY <1>2, <1>4, <1>7, <1>10 DEF Room, Copying
  <2> QED
    BY <1>1, <1>3, <1>4, <1>6, <1>12, <2>1, <2>2 DEF RoomKept
<1> QED
  BY <1>13, <1>14, <1>15 DEF SerialInv

-----------------------------------------------------------------------------
(* The thread.                                                             *)

\* A kill leaves the buffer index and the mark.
LEMMA KilledKeeps ==
    SerialInv => Killed \in Serial /\ Killed.index = s.index /\ Killed.pending = s.pending
<1> SUFFICES ASSUME s \in Serial
             PROVE  Killed \in Serial /\ Killed.index = s.index /\ Killed.pending = s.pending
  BY TypeParts DEF SerialInv
<1> DEFINE told == [s EXCEPT !.err = "shutdown", !.sem = 1]
<1>1. told \in Serial
  BY Told
<1>2. told.index = s.index /\ told.pending = s.pending
  BY DEF Serial
<1> QED
  BY <1>1, <1>2 DEF Killed

LEMMA OpenInv == SerialInv /\ Open => SerialInv'
<1> SUFFICES ASSUME SerialInv, NEW b \in BOOLEAN, Open, s' = [s EXCEPT !.open = TRUE, !.nonblock = b]
             PROVE  SerialInv'
  BY DEF Open
<1> USE Sizes
<1>1. s \in Serial /\ rb' = <<>> /\ ~cb.busy /\ UNCHANGED <<urb, iob, cb, rd, line, out, seen>>
  BY TypeParts DEF Open, Runs, SerialInv
<1>2. s' \in Serial
  BY <1>1, SetOne, Zenon
<1>3. s'.index = s.index /\ s'.pending = s.pending
  BY <1>1 DEF Serial
<1>4. rb' \in Seq(Bytes) /\ Len(rb') = 0
  BY <1>1
<1>5. TypeOK'
  BY <1>1, <1>2, <1>4, TypeParts, TypePartsNext DEF SerialInv
<1>6. RoomKept'
  BY <1>1, <1>4 DEF SerialInv, RoomKept, Copying, Room, Restarting
<1> QED
  BY <1>1, <1>3, <1>5, <1>6 DEF SerialInv, Buffers, Marked, Submitting

LEMMA CloseInv == SerialInv /\ Close => SerialInv'
<1> SUFFICES ASSUME SerialInv, Close PROVE SerialInv'
  OBVIOUS
<1> USE Sizes
<1>1. /\ s' = [Killed EXCEPT !.open = FALSE] /\ urb' = Idle /\ seen' = [seen EXCEPT !.on = FALSE]
      /\ ~cb.busy /\ rd = "idle" /\ UNCHANGED <<rb, iob, cb, rd, line, out>> /\ seen \in History
  BY TypeParts DEF Close, Runs, SerialInv
<1>2. s' \in Serial
  BY <1>1, KilledKeeps, SetOne, FALSE \in BOOLEAN, Zenon
<1>3. urb' \in Urbs /\ ~urb'.armed /\ urb'.done = "none"
  BY <1>1 DEF Urbs, Idle
<1>4. seen' \in History
  BY <1>1, SetHistory
<1>5. ~seen'.on /\ seen'.late = seen.late /\ seen'.moved = seen.moved /\ seen'.refused = seen.refused /\ seen'.lost = seen.lost
  BY <1>1 DEF History
<1>6. TypeOK'
  BY <1>1, <1>2, <1>3, <1>4, TypeParts, TypePartsNext DEF SerialInv
<1> QED
  BY <1>1, <1>3, <1>5, <1>6 DEF SerialInv, Buffers, RoomKept, Marked, Copying, Room, Restarting, Submitting

LEMMA SetAttrInv == SerialInv /\ SetAttr => SerialInv'
<1> SUFFICES ASSUME SerialInv, SetAttr, NEW ok \in Gives,
                    s' = [s EXCEPT !.attr = TRUE, !.sem = 0, !.index = 0, !.err = "ok"],
                    urb' = IF ok THEN Submitted(0) ELSE Idle,
                    seen' = [seen EXCEPT !.on = ok, !.untold = FALSE]
             PROVE  SerialInv'
  BY DEF SetAttr
<1> USE Sizes
<1>1. /\ ~cb.busy /\ rd = "idle" /\ line.sets < MaxSets /\ line' = [line EXCEPT !.sets = @ + 1]
      /\ rb' = <<>> /\ UNCHANGED <<iob, cb, rd, out>>
  BY DEF SetAttr, Runs
<1>2. s \in Serial /\ seen \in History /\ line \in Lines /\ ok \in BOOLEAN
  BY TypeParts DEF SerialInv, Gives
<1>3. s' \in Serial
  <2>1. \A p \in BOOLEAN, j \in 0 .. 1, x \in 0 .. 1, e \in Errors :
          [s EXCEPT !.attr = p, !.sem = j, !.index = x, !.err = e] \in Serial
    BY <1>2, SetLine
  <2>2. TRUE \in BOOLEAN /\ 0 \in 0 .. 1 /\ "ok" \in Errors
    BY DEF Errors
  <2> QED
    BY <2>1, <2>2, Zenon
<1>4. s'.index = 0
  BY <1>2 DEF Serial
<1>5. urb' \in Urbs /\ urb'.buf = 0 /\ urb'.done = "none" /\ (ok => urb'.armed)
  <2>1. CASE ok
    BY <1>2, <2>1 DEF Urbs, Submitted
  <2>2. CASE ~ok
    <3>1. urb' = Idle /\ ok = FALSE
      BY <1>2, <2>2
    <3> QED
      BY <3>1 DEF Urbs, Idle
  <2> QED
    BY <2>1, <2>2
<1>6. seen' \in History
  BY <1>2, SetOnUntold
<1>7. seen'.on = ok /\ seen'.late = seen.late /\ seen'.moved = seen.moved /\ seen'.refused = seen.refused /\ seen'.lost = seen.lost
  BY <1>2 DEF History
<1>8. line' \in Lines
  <2> DEFINE j == line.sets + 1
  <2>1. j \in 0 .. MaxSets /\ line' = [line EXCEPT !.sets = j]
    BY <1>1, <1>2 DEF Lines
  <2> HIDE DEF j
  <2> QED
    BY <1>2, <2>1 DEF Lines
<1>9. rb' \in Seq(Bytes) /\ Len(rb') = 0
  BY <1>1
<1>10. TypeOK'
  BY <1>1, <1>3, <1>5, <1>6, <1>8, <1>9, TypeParts, TypePartsNext DEF SerialInv
<1>11. Buffers' /\ Marked'
  BY <1>1, <1>4, <1>5, <1>7 DEF Buffers, Marked
<1>12. RoomKept'
  BY <1>1, <1>7, <1>9 DEF SerialInv, RoomKept, Copying, Room, Restarting
<1> QED
  BY <1>10, <1>11, <1>12 DEF SerialInv

LEMMA SetAttrFailsInv == SerialInv /\ SetAttrFails => SerialInv'
<1> SUFFICES ASSUME SerialInv, SetAttrFails, NEW a \in {s.attr, TRUE}, s' = [Killed EXCEPT !.attr = a]
             PROVE  SerialInv'
  BY DEF SetAttrFails
<1> USE Sizes
<1>1. /\ urb' = Idle /\ seen' = [seen EXCEPT !.on = FALSE]
      /\ ~cb.busy /\ rd = "idle" /\ UNCHANGED <<rb, iob, cb, rd, line, out>> /\ seen \in History
  BY TypeParts DEF SetAttrFails, Runs, SerialInv
<1>2. a \in BOOLEAN
  BY TypeParts DEF SerialInv, Serial
<1>3. s' \in Serial
  BY <1>2, KilledKeeps, SetOne, Zenon
<1>4. urb' \in Urbs /\ ~urb'.armed /\ urb'.done = "none"
  BY <1>1 DEF Urbs, Idle
<1>5. seen' \in History
  BY <1>1, SetHistory
<1>6. ~seen'.on /\ seen'.late = seen.late /\ seen'.moved = seen.moved /\ seen'.refused = seen.refused /\ seen'.lost = seen.lost
  BY <1>1 DEF History
<1>7. TypeOK'
  BY <1>1, <1>3, <1>4, <1>5, TypeParts, TypePartsNext DEF SerialInv
<1> QED
  BY <1>1, <1>4, <1>6, <1>7 DEF SerialInv, Buffers, RoomKept, Marked, Copying, Room, Restarting, Submitting

LEMMA ReadStartsInv == SerialInv /\ ReadStarts => SerialInv'
<1> SUFFICES ASSUME SerialInv, ReadStarts PROVE SerialInv'
  OBVIOUS
<1> USE Sizes
<1>1. /\ rd' = (IF Room >= BulkSize THEN "pending" ELSE "used") /\ seen' = [seen EXCEPT !.ret = "none"]
      /\ ~cb.busy /\ rd = "idle" /\ UNCHANGED <<s, rb, urb, iob, cb, line, out>> /\ seen \in History
  BY TypeParts DEF ReadStarts, Runs, SerialInv
<1>2. rd' \in Places /\ (rd' = "pending" => Room >= BulkSize)
  BY <1>1 DEF Places
<1>3. seen' \in History
  BY <1>1, SetResult, Zenon DEF Results
<1>4. seen'.on = seen.on /\ seen'.late = seen.late /\ seen'.moved = seen.moved /\ seen'.refused = seen.refused /\ seen'.lost = seen.lost
  BY <1>1 DEF History
<1>5. TypeOK'
  BY <1>1, <1>2, <1>3, TypeParts, TypePartsNext DEF SerialInv
<1> QED
  BY <1>1, <1>2, <1>4, <1>5 DEF SerialInv, Buffers, RoomKept, Marked, Copying, Room, Restarting, Submitting

\* The places of the restart one after another.
LEMMA ReadPendingInv == SerialInv /\ ReadPending => SerialInv'
<1> SUFFICES ASSUME SerialInv, ReadPending PROVE SerialInv'
  OBVIOUS
<1>1. /\ rd = "pending" /\ rd' \in {"clear", "used"} /\ UNCHANGED <<s, rb, urb, iob, cb, line, out, seen>>
  BY DEF ReadPending, Runs
<1>2. TypeOK'
  BY <1>1, TypeParts, TypePartsNext DEF SerialInv, Places
<1> QED
  BY <1>1, <1>2 DEF SerialInv, Buffers, RoomKept, Marked, Copying, Room, Restarting, Submitting

LEMMA ReadClearsInv == SerialInv /\ ReadClears => SerialInv'
<1> SUFFICES ASSUME SerialInv, ReadClears PROVE SerialInv'
  OBVIOUS
<1>1. /\ rd = "clear" /\ rd' = "errno" /\ s' = [s EXCEPT !.pending = FALSE] /\ s \in Serial
      /\ UNCHANGED <<rb, urb, iob, cb, line, out, seen>>
  BY TypeParts DEF ReadClears, Runs, SerialInv
<1>2. s' \in Serial
  BY <1>1 DEF Serial
<1>3. s'.index = s.index
  BY <1>1 DEF Serial
<1>4. TypeOK'
  BY <1>1, <1>2, TypeParts, TypePartsNext DEF SerialInv, Places
<1> QED
  BY <1>1, <1>3, <1>4 DEF SerialInv, Buffers, RoomKept, Marked, Copying, Room, Restarting, Submitting

LEMMA ReadForgetsInv == SerialInv /\ ReadForgets => SerialInv'
<1> SUFFICES ASSUME SerialInv, ReadForgets PROVE SerialInv'
  OBVIOUS
<1>1. /\ rd = "errno" /\ rd' = "fill" /\ s' = [s EXCEPT !.err = "ok"] /\ s \in Serial
      /\ UNCHANGED <<rb, urb, iob, cb, line, out, seen>>
  BY TypeParts DEF ReadForgets, Runs, SerialInv
<1>2. s' \in Serial
  BY <1>1 DEF Serial
<1>3. s'.index = s.index
  BY <1>1 DEF Serial
<1>4. TypeOK'
  BY <1>1, <1>2, TypeParts, TypePartsNext DEF SerialInv, Places
<1> QED
  BY <1>1, <1>3, <1>4 DEF SerialInv, Buffers, RoomKept, Marked, Copying, Room, Restarting, Submitting

\* The buffer that is due.
LEMMA ReadFillsInv == SerialInv /\ ReadFills => SerialInv'
<1> SUFFICES ASSUME SerialInv, ReadFills PROVE SerialInv'
  OBVIOUS
<1>1. /\ rd = "fill" /\ rd' = "submit" /\ urb' = [urb EXCEPT !.buf = s.index] /\ s \in Serial /\ urb \in Urbs
      /\ UNCHANGED <<s, rb, iob, cb, line, out, seen>>
  BY TypeParts DEF ReadFills, Runs, SerialInv
<1>2. s.index \in 0 .. 1
  BY <1>1 DEF Serial
<1>3. urb' \in Urbs /\ urb'.armed = urb.armed /\ urb'.done = urb.done /\ urb'.buf = s.index
  BY <1>1, <1>2 DEF Urbs
<1>4. TypeOK'
  BY <1>1, <1>3, TypeParts, TypePartsNext DEF SerialInv, Places
<1> QED
  BY <1>1, <1>3, <1>4 DEF SerialInv, Buffers, RoomKept, Marked, Copying, Room, Restarting, Submitting

\* The URB is submitted with the room that the first half of the condition saw.
LEMMA ReadSubmitsInv == SerialInv /\ ReadSubmits => SerialInv'
<1> SUFFICES ASSUME SerialInv, ReadSubmits PROVE SerialInv'
  OBVIOUS
<1> USE Sizes
<1>1. ~cb.busy /\ rd = "submit" /\ UNCHANGED <<s, rb, iob, cb, line, out>>
  BY DEF ReadSubmits, Runs
<1>2. seen \in History /\ urb \in Urbs /\ Len(rb) \in Nat /\ Len(rb) <= RxSize
  BY TypeParts DEF SerialInv
<1>3. /\ ~seen.late => (~seen.refused => seen.lost = 0) /\ Room >= BulkSize
      /\ ~seen.moved => urb.buf = s.index
  BY <1>1 DEF SerialInv, RoomKept, Buffers, Restarting
<1>4. urb.buf \in 0 .. 1
  BY <1>2 DEF Urbs
<1>5. CASE /\ urb.armed /\ rd' = "idle" /\ UNCHANGED urb
           /\ seen' = [seen EXCEPT !.ret = "busy", !.untold = FALSE]
  <2>1. seen' \in History
    BY <1>2, <1>5, SetResultUntold, FALSE \in BOOLEAN, Zenon DEF Results
  <2>2. seen'.late = seen.late /\ seen'.moved = seen.moved /\ seen'.refused = seen.refused /\ seen'.lost = seen.lost
    BY <1>2, <1>5 DEF History
  <2>3. rd' \in Places
    BY <1>5 DEF Places
  <2>4. TypeOK'
    BY <1>1, <1>5, <2>1, <2>3, TypeParts, TypePartsNext DEF SerialInv
  <2> QED
    BY <1>1, <1>5, <2>2, <2>4 DEF SerialInv, Buffers, RoomKept, Marked, Copying, Room, Restarting
<1>6. CASE /\ ~urb.armed /\ urb' = Submitted(urb.buf)
           /\ rd' = "used" /\ seen' = [seen EXCEPT !.untold = FALSE]
  <2>1. seen' \in History
    BY <1>2, <1>6, SetHistory
  <2>2. seen'.late = seen.late /\ seen'.moved = seen.moved /\ seen'.refused = seen.refused /\ seen'.lost = seen.lost
    BY <1>2, <1>6 DEF History
  <2>3. urb' \in Urbs /\ urb'.armed /\ urb'.done = "none" /\ urb'.buf = urb.buf
    BY <1>4, <1>6 DEF Urbs, Submitted
  <2>4. rd' \in Places
    BY <1>6 DEF Places
  <2>5. TypeOK'
    BY <1>1, <1>6, <2>1, <2>3, <2>4, TypeParts, TypePartsNext DEF SerialInv
  <2>6. RoomKept'
    BY <1>1, <1>2, <1>3, <1>6, <2>2 DEF RoomKept, Copying, Room, Restarting
  <2> QED
    BY <1>1, <1>3, <1>6, <2>2, <2>3, <2>5, <2>6 DEF SerialInv, Buffers, Marked
<1>7. CASE /\ ~urb.armed /\ rd' = "idle" /\ UNCHANGED urb
           /\ seen' = [seen EXCEPT !.ret = "submit", !.on = FALSE, !.untold = FALSE]
  <2>1. seen' \in History
    BY <1>2, <1>7, SetResultOnUntold, FALSE \in BOOLEAN, Zenon DEF Results
  <2>2. /\ seen'.late = seen.late /\ seen'.moved = seen.moved /\ seen'.refused = seen.refused
        /\ seen'.lost = seen.lost /\ ~seen'.on
    BY <1>2, <1>7 DEF History
  <2>3. rd' \in Places
    BY <1>7 DEF Places
  <2>4. TypeOK'
    BY <1>1, <1>7, <2>1, <2>3, TypeParts, TypePartsNext DEF SerialInv
  <2> QED
    BY <1>1, <1>7, <2>2, <2>4 DEF SerialInv, Buffers, RoomKept, Marked, Copying, Room, Restarting
<1> QED
  BY <1>5, <1>6, <1>7 DEF ReadSubmits

LEMMA RestartInv == SerialInv /\ Restart => SerialInv'
  BY ReadPendingInv, ReadClearsInv, ReadForgetsInv, ReadFillsInv, ReadSubmitsInv DEF Restart

LEMMA ReadLooksInv == SerialInv /\ ReadLooks => SerialInv'
<1> SUFFICES ASSUME SerialInv, ReadLooks PROVE SerialInv'
  OBVIOUS
<1>1. /\ rd = "used" /\ rd' \in {"take", "copy"}
      /\ UNCHANGED <<s, rb, urb, iob, cb, line, out, seen>>
  BY DEF ReadLooks, Runs
<1>2. TypeOK'
  BY <1>1, TypeParts, TypePartsNext DEF SerialInv, Places
<1> QED
  BY <1>1, <1>2 DEF SerialInv, Buffers, RoomKept, Marked, Copying, Room, Restarting, Submitting

LEMMA ReadTakesInv == SerialInv /\ ReadTakes => SerialInv'
<1> SUFFICES ASSUME SerialInv, ReadTakes PROVE SerialInv'
  OBVIOUS
<1>1. /\ s' = [s EXCEPT !.sem = 0] /\ rd = "take" /\ rd' = "error" /\ s \in Serial
      /\ UNCHANGED <<rb, urb, iob, cb, line, out, seen>>
  BY TypeParts DEF ReadTakes, Runs, SerialInv
<1>2. s' \in Serial
  BY <1>1 DEF Serial
<1>3. s'.index = s.index /\ s'.pending = s.pending
  BY <1>1 DEF Serial
<1>4. rd' \in Places
  BY <1>1 DEF Places
<1>5. TypeOK'
  BY <1>1, <1>2, <1>4, TypeParts, TypePartsNext DEF SerialInv
<1> QED
  BY <1>1, <1>3, <1>5 DEF SerialInv, Buffers, RoomKept, Marked, Copying, Room, Restarting, Submitting

LEMMA ReadTimesOutInv == SerialInv /\ ReadTimesOut => SerialInv'
<1> SUFFICES ASSUME SerialInv, ReadTimesOut PROVE SerialInv'
  OBVIOUS
<1>1. /\ rd = "take" /\ rd' = "idle" /\ seen' = [seen EXCEPT !.ret = "timeout"] /\ seen \in History
      /\ UNCHANGED <<s, rb, urb, iob, cb, line, out>>
  BY TypeParts DEF ReadTimesOut, Runs, SerialInv
<1>2. seen' \in History
  BY <1>1, SetResult, Zenon DEF Results
<1>3. seen'.on = seen.on /\ seen'.late = seen.late /\ seen'.moved = seen.moved /\ seen'.refused = seen.refused /\ seen'.lost = seen.lost
  BY <1>1 DEF History
<1>4. rd' \in Places
  BY <1>1 DEF Places
<1>5. TypeOK'
  BY <1>1, <1>2, <1>4, TypeParts, TypePartsNext DEF SerialInv
<1> QED
  BY <1>1, <1>3, <1>5 DEF SerialInv, Buffers, RoomKept, Marked, Copying, Room, Restarting, Submitting

LEMMA ReadChecksInv == SerialInv /\ ReadChecks => SerialInv'
<1> SUFFICES ASSUME SerialInv, ReadChecks PROVE SerialInv'
  OBVIOUS
<1>1. /\ rd = "error" /\ rd' \in {"copy", "idle"} /\ UNCHANGED <<s, rb, urb, iob, cb, line, out>>
      /\ s \in Serial /\ seen \in History
  BY TypeParts DEF ReadChecks, Runs, SerialInv
<1>2. rd' \in Places
  BY <1>1 DEF Places
<1>3. /\ seen' \in History
      /\ seen'.on = seen.on /\ seen'.late = seen.late /\ seen'.moved = seen.moved /\ seen'.refused = seen.refused /\ seen'.lost = seen.lost
  <2>1. CASE s.err = "ok"
    BY <1>1, <2>1 DEF ReadChecks
  <2>2. CASE s.err # "ok"
    <3>1. seen' = [seen EXCEPT !.ret = s.err, !.untold = FALSE]
      BY <2>2 DEF ReadChecks
    <3>2. s.err \in Results
      BY <1>1 DEF Serial, Results
    <3>3. seen' \in History
      BY <1>1, <3>1, <3>2, SetResultUntold
    <3> QED
      BY <1>1, <3>1, <3>3 DEF History
  <2> QED
    BY <2>1, <2>2
<1>4. TypeOK'
  BY <1>1, <1>2, <1>3, TypeParts, TypePartsNext DEF SerialInv
<1> QED
  BY <1>1, <1>3, <1>4 DEF SerialInv, Buffers, RoomKept, Marked, Copying, Room, Restarting, Submitting

LEMMA ReadCopiesInv == SerialInv /\ ReadCopies => SerialInv'
<1> SUFFICES ASSUME SerialInv, ReadCopies PROVE SerialInv'
  OBVIOUS
<1> USE Sizes
<1> DEFINE k == Least(BufLen, Len(rb))
<1>1. /\ ~cb.busy /\ out' = out \o SubSeq(rb, 1, k) /\ rb' = SubSeq(rb, k + 1, Len(rb))
      /\ rd = "copy" /\ rd' = "idle" /\ seen' = [seen EXCEPT !.ret = "ok"]
      /\ UNCHANGED <<s, urb, iob, cb, line>>
  BY DEF ReadCopies, Runs
<1>2. /\ seen \in History /\ rb \in Seq(Bytes) /\ Len(rb) \in Nat /\ Len(rb) <= RxSize
      /\ out \in Seq(Bytes)
  BY TypeParts DEF SerialInv
<1>3. k \in 0 .. Len(rb)
  BY <1>2 DEF Least
<1> HIDE DEF k
<1>4. SubSeq(rb, 1, k) \in Seq(Bytes) /\ out' \in Seq(Bytes)
  BY <1>1, <1>2, <1>3, ConcatProperties, SMTT(30)
<1>5. rb' \in Seq(Bytes) /\ Len(rb') <= Len(rb) /\ Len(rb') \in Nat
  BY <1>1, <1>2, <1>3, SMTT(30)
<1>6. seen' \in History
  BY <1>1, <1>2, SetResult, Zenon DEF Results
<1>7. seen'.on = seen.on /\ seen'.late = seen.late /\ seen'.moved = seen.moved /\ seen'.refused = seen.refused /\ seen'.lost = seen.lost
  BY <1>1, <1>2 DEF History
<1>8. rd' \in Places
  BY <1>1 DEF Places
<1>9. TypeOK'
  BY <1>1, <1>2, <1>4, <1>5, <1>6, <1>8, TypeParts, TypePartsNext, SMTT(30) DEF SerialInv
<1>10. Room' >= Room /\ Copying' = Copying /\ Copying = 0 /\ Room \in Nat /\ Room' \in Nat
  <2>1. Copying' = Copying /\ Copying = 0
    BY <1>1 DEF Copying
  <2> DEFINE u == Len(rb)
             v == Len(rb')
  <2>2. u \in Nat /\ v \in Nat /\ v <= u /\ u <= RxSize
    BY <1>2, <1>5
  <2>3. Room = RxSize - u /\ Room' = RxSize - v
    BY DEF Room
  <2> HIDE DEF u, v
  <2> QED
    BY <2>1, <2>2, <2>3
<1>11. RoomKept'
  BY <1>1, <1>7, <1>10 DEF SerialInv, RoomKept, Restarting
<1> QED
  BY <1>1, <1>7, <1>9, <1>11 DEF SerialInv, Buffers, Marked, Submitting

-----------------------------------------------------------------------------
(* The theorems.                                                           *)

LEMMA StutterInv == SerialInv /\ UNCHANGED vars => SerialInv'
  BY TypeParts, TypePartsNext DEF SerialInv, vars, Buffers, RoomKept, Marked, Copying, Room, Restarting, Submitting

LEMMA StepInv == SerialInv /\ [Next]_vars => SerialInv'
  BY DeviceSendsInv, TransferFailsInv, CallbackErrorInv, CallbackDataInv, CallbackCopiesInv,
     OpenInv, CloseInv, SetAttrInv, SetAttrFailsInv, ReadStartsInv, RestartInv,
     ReadLooksInv, ReadTakesInv, ReadTimesOutInv, ReadChecksInv, ReadCopiesInv, StutterInv
     DEF Next, Callback, Read

\* usbh_serial.c keeps every value in its range: the ring is never written
\* past its size, by the callback or between the steps of a read.
THEOREM SerialTypes == Spec => []TypeOK
<1>1. SerialInv => TypeOK
  BY DEF SerialInv
<1> QED
  BY InitHolds, StepInv, <1>1, PTL DEF Spec

\* No byte of the device is dropped for want of room (line 119), unless the
\* callback came between usbh_serial_read's look at the room (499) and its
\* submission (501), or the URB of a callback was refused (124).
THEOREM SerialNothingLost == Spec => []NothingLost
<1>1. SerialInv => NothingLost
  <2> SUFFICES ASSUME SerialInv, ~seen.late, ~seen.refused PROVE ~(seen.lost > 0)
    BY DEF NothingLost
  <2> QED
    BY DEF SerialInv, RoomKept
<1> QED
  BY InitHolds, StepInv, <1>1, PTL DEF Spec

\* While nothing fails a URB that is not submitted is marked in rx_pending, so
\* the next read that finds room submits it, or a read is submitting it.
THEOREM SerialParked == Spec => []Parked
<1>1. SerialInv => Parked
  BY DEF SerialInv, Marked, Parked, Submitting
<1> QED
  BY InitHolds, StepInv, <1>1, PTL DEF Spec
=============================================================================
