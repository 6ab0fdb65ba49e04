----------------------- MODULE UsbhSerialOrderProofs -----------------------
(***************************************************************************)
(* The proof that UsbhSerial delivers bytes in order, for every size of    *)
(* ring, packet and read.                                                  *)
(*                                                                         *)
(* What the user has, what the ring holds, what the callback still copies  *)
(* and what has arrived behind it form a chain (Ordered): each ascends,    *)
(* each lies before the next, and the device has sent all of it, as long   *)
(* as no callback came between the filling of the URB and its submission   *)
(* (Chained).                                                              *)
(***************************************************************************)
EXTENDS UsbhSerialProofs

\* The sequence a, then m bytes of the buffer b, then n of the buffer c.
Chain(a, b, m, c, n, top) ==
    /\ \A i \in 1 .. Len(a), j \in 1 .. Len(a) : i < j => a[i] < a[j]
    /\ \A i \in 1 .. m, j \in 1 .. m : i < j => b[i] < b[j]
    /\ \A i \in 1 .. n, j \in 1 .. n : i < j => c[i] < c[j]
    /\ \A i \in 1 .. Len(a), j \in 1 .. m : a[i] < b[j]
    /\ \A i \in 1 .. Len(a), j \in 1 .. n : a[i] < c[j]
    /\ \A i \in 1 .. m, j \in 1 .. n : b[i] < c[j]
    /\ \A i \in 1 .. Len(a) : a[i] <= top
    /\ \A i \in 1 .. m : b[i] <= top
    /\ \A i \in 1 .. n : c[i] <= top

All     == out \o rb
Arrived == IF urb.done = "data" THEN urb.n ELSE 0
Ordered == Chain(All, iob[cb.buf], Copying, iob[urb.buf], Arrived, line.sent)
Chained == ~seen.moved => Ordered

Buffer == [1 .. BulkSize -> Bytes]

-----------------------------------------------------------------------------
(* Chains.                                                                 *)

\* A chain may lose its end, its middle or both.
LEMMA ChainLoses ==
    ASSUME NEW a, NEW b, NEW m \in Nat, NEW c, NEW n \in Nat, NEW top, Chain(a, b, m, c, n, top), NEW x
    PROVE  /\ Chain(a, b, m, x, 0, top) /\ Chain(a, x, 0, c, n, top)
           /\ \A y : Chain(a, x, 0, y, 0, top)
  BY DEF Chain

\* What has arrived is what the callback copies next.
LEMMA ChainShifts ==
    ASSUME NEW a, NEW b, NEW c, NEW n \in Nat, NEW top, Chain(a, b, 0, c, n, top), NEW x
    PROVE  Chain(a, c, n, x, 0, top)
  BY DEF Chain

\* The first sequence may lose its end.
LEMMA ChainPrefix ==
    ASSUME NEW a \in Seq(Bytes), NEW p \in Seq(Bytes), Len(p) <= Len(a), \A i \in 1 .. Len(p) : p[i] = a[i],
           NEW b, NEW m \in Nat, NEW c, NEW n \in Nat, NEW top, Chain(a, b, m, c, n, top)
    PROVE  Chain(p, b, m, c, n, top)
<1>1. \A i \in 1 .. Len(p) : i \in 1 .. Len(a)
  OBVIOUS
<1> QED
  BY <1>1 DEF Chain

\* The device sends n bytes behind everything.
LEMMA ChainGrows ==
    ASSUME NEW a \in Seq(Bytes), NEW b \in Buffer, NEW m \in 0 .. BulkSize, NEW c, NEW top \in Nat,
           Chain(a, b, m, c, 0, top), NEW n \in 0 .. BulkSize, NEW d,
           \A i \in 1 .. n : d[i] = top + i
    PROVE  Chain(a, b, m, d, n, top + n)
<1> USE Sizes
<1>1. \A i \in 1 .. Len(a) : a[i] \in Nat /\ a[i] <= top
  BY DEF Chain, Bytes
<1>2. \A i \in 1 .. m : b[i] \in Nat /\ b[i] <= top
  BY DEF Chain, Buffer, Bytes
<1>3. \A i \in 1 .. Len(a), j \in 1 .. n : a[i] < d[j]
  BY <1>1
<1>4. \A i \in 1 .. m, j \in 1 .. n : b[i] < d[j]
  BY <1>2
<1>5. \A i \in 1 .. n, j \in 1 .. n : i < j => d[i] < d[j]
  OBVIOUS
<1>6. \A i \in 1 .. n : d[i] <= top + n
  OBVIOUS
<1>7. /\ \A i \in 1 .. Len(a) : a[i] <= top + n
      /\ \A i \in 1 .. m : b[i] <= top + n
  BY <1>1, <1>2
<1> QED
  BY <1>3, <1>4, <1>5, <1>6, <1>7 DEF Chain

\* The callback appends the first k of its bytes to the ring.
LEMMA ChainAppends ==
    ASSUME NEW a \in Seq(Bytes), NEW b \in Buffer, NEW m \in 0 .. BulkSize, NEW c, NEW n \in Nat, NEW top,
           Chain(a, b, m, c, n, top), NEW k \in 0 .. m, NEW q \in Seq(Bytes), Len(q) = k,
           \A i \in 1 .. k : q[i] = b[i], NEW x
    PROVE  Chain(a \o q, x, 0, c, n, top)
<1> DEFINE w == a \o q
<1>1. Len(w) = Len(a) + k
      /\ \A i \in 1 .. Len(w) : w[i] = IF i <= Len(a) THEN a[i] ELSE q[i - Len(a)]
  <2>1. /\ Len(w) = Len(a) + Len(q)
        /\ \A i \in 1 .. Len(a) + Len(q) : w[i] = IF i <= Len(a) THEN a[i] ELSE q[i - Len(a)]
    BY ConcatProperties
  <2> QED
    BY <2>1
<1>2. Len(a) \in Nat
  OBVIOUS
<1> HIDE DEF w
<1>3. \A i \in 1 .. Len(w) : \/ i \in 1 .. Len(a) /\ w[i] = a[i]
                             \/ i - Len(a) \in 1 .. m /\ w[i] = b[i - Len(a)] /\ i > Len(a)
  BY <1>1, <1>2
<1>4. ASSUME NEW i \in 1 .. Len(w), NEW j \in 1 .. Len(w), i < j PROVE w[i] < w[j]
  <2>1. CASE j \in 1 .. Len(a)
    BY <1>3, <1>4, <2>1 DEF Chain
  <2>2. CASE i \in 1 .. Len(a) /\ j \notin 1 .. Len(a)
    BY <1>3, <2>2 DEF Chain
  <2>3. CASE i \notin 1 .. Len(a) /\ j \notin 1 .. Len(a)
    <3>1. /\ i - Len(a) \in 1 .. m /\ w[i] = b[i - Len(a)]
          /\ j - Len(a) \in 1 .. m /\ w[j] = b[j - Len(a)]
      BY <1>3, <2>3
    <3>2. i - Len(a) < j - Len(a)
      BY <1>2, <1>4
    <3> QED
      BY <3>1, <3>2 DEF Chain
  <2>4. CASE i \notin 1 .. Len(a) /\ j \in 1 .. Len(a)
    BY <1>1, <1>2, <1>4, <2>4
  <2> QED
    BY <2>1, <2>2, <2>3, <2>4
<1>5. \A i \in 1 .. Len(w), j \in 1 .. n : w[i] < c[j]
  BY <1>3 DEF Chain
<1>6. \A i \in 1 .. Len(w) : w[i] <= top
  BY <1>3 DEF Chain
<1> QED
  BY <1>4, <1>5, <1>6 DEF Chain, w

-----------------------------------------------------------------------------
(* The actions.                                                            *)

LEMMA Ranges ==
    ASSUME SerialInv
    PROVE  /\ iob[cb.buf] \in Buffer /\ iob[urb.buf] \in Buffer /\ line.sent \in Nat
           /\ Copying \in 0 .. BulkSize /\ Arrived \in 0 .. BulkSize
           /\ out \in Seq(Bytes) /\ rb \in Seq(Bytes) /\ All \in Seq(Bytes)
<1> USE Sizes
<1>1. /\ iob \in [0 .. 1 -> [1 .. BulkSize -> Bytes]] /\ cb \in Copies /\ urb \in Urbs /\ line \in Lines
      /\ out \in Seq(Bytes) /\ rb \in Seq(Bytes)
  BY TypeParts DEF SerialInv
<1>2. cb.buf \in 0 .. 1 /\ cb.n \in 0 .. BulkSize /\ urb.buf \in 0 .. 1 /\ urb.n \in 0 .. BulkSize
  BY <1>1 DEF Copies, Urbs
<1>3. iob[cb.buf] \in Buffer /\ iob[urb.buf] \in Buffer
  BY <1>1, <1>2 DEF Buffer
<1>4. line.sent \in Nat /\ Copying \in 0 .. BulkSize /\ Arrived \in 0 .. BulkSize
  BY <1>1, <1>2 DEF Lines, Copying, Arrived
<1>5. All \in Seq(Bytes)
  BY <1>1, ConcatProperties DEF All
<1> QED
  BY <1>1, <1>3, <1>4, <1>5

LEMMA InitOrdered == Init => Ordered
<1> SUFFICES ASSUME Init PROVE Ordered
  OBVIOUS
<1>1. Len(All) = 0 /\ Copying = 0 /\ Arrived = 0
  BY DEF Init, All, Copying, Arrived, Waiting, Idle
<1> QED
  BY <1>1 DEF Ordered, Chain

\* Steps that give up what has arrived, or nothing.
LEMMA KeepsOrdered ==
    ASSUME SerialInv, Ordered, out' \o rb' = All, UNCHANGED <<iob, cb>>, line'.sent = line.sent,
           \/ UNCHANGED urb
           \/ urb'.done # "data"
    PROVE  Ordered'
<1>1. All' = All /\ Copying' = Copying
  BY DEF All, Copying
<1>2. CASE UNCHANGED urb
  BY <1>1, <1>2 DEF Ordered, Arrived
<1>3. CASE urb'.done # "data"
  <2>1. Arrived' = 0
    BY <1>3 DEF Arrived
  <2> QED
    <3>1. Copying \in Nat /\ Arrived \in Nat
      BY Ranges, Sizes
    <3>2. Chain(All, iob[cb.buf], Copying, iob[urb'.buf], 0, line.sent)
      BY <3>1, ChainLoses DEF Ordered
    <3> QED
      BY <1>1, <2>1, <3>2 DEF Ordered
<1> QED
  BY <1>2, <1>3

\* Steps that empty the ring, with or without what has arrived.
LEMMA EmptiesOrdered ==
    ASSUME SerialInv, Ordered, rb' = <<>>, UNCHANGED <<iob, out, cb>>, line'.sent = line.sent, ~cb.busy,
           \/ UNCHANGED urb
           \/ urb'.done # "data"
    PROVE  Ordered'
<1>1. out \in Seq(Bytes) /\ rb \in Seq(Bytes) /\ All \in Seq(Bytes)
  BY Ranges
<1>2. All' = out
  BY <1>1, ConcatEmptySeq DEF All
<1>3. Len(out) <= Len(All) /\ \A i \in 1 .. Len(out) : out[i] = All[i]
  BY <1>1, ConcatProperties DEF All
<1>4. Chain(out, iob[cb.buf], Copying, iob[urb.buf], Arrived, line.sent)
  BY <1>1, <1>3, Ranges, ChainPrefix DEF Ordered
<1>5. Copying' = Copying
  BY DEF Copying
<1>6. CASE UNCHANGED urb
  BY <1>2, <1>4, <1>5, <1>6 DEF Ordered, Arrived
<1>7. CASE urb'.done # "data"
  <2>1. Arrived' = 0
    BY <1>7 DEF Arrived
  <2> QED
    <3>1. Copying \in Nat /\ Arrived \in Nat
      BY Ranges, Sizes
    <3>2. Chain(out, iob[cb.buf], Copying, iob[urb'.buf], 0, line.sent)
      BY <1>4, <3>1, ChainLoses
    <3> QED
      BY <1>2, <1>5, <2>1, <3>2 DEF Ordered
<1> QED
  BY <1>6, <1>7

LEMMA DeviceSendsOrdered == SerialInv /\ ~seen.moved /\ Ordered /\ DeviceSends => Ordered'
<1> SUFFICES ASSUME SerialInv, ~seen.moved, Ordered, NEW n \in 0 .. BulkSize, Sends(n) PROVE Ordered'
  BY DEF DeviceSends
<1> USE Sizes
<1> DEFINE data == [i \in 1 .. BulkSize |-> IF i <= n THEN line.sent + i ELSE iob[urb.buf][i]]
<1>1. /\ iob \in [0 .. 1 -> [1 .. BulkSize -> Bytes]] /\ urb \in Urbs /\ line \in Lines /\ cb \in Copies
      /\ urb.buf \in 0 .. 1
  BY TypeParts DEF SerialInv, Urbs
<1>2. /\ urb.armed /\ urb.done = "none" /\ UNCHANGED <<s, rb, cb, rd, out, seen>>
      /\ iob' = [iob EXCEPT ![urb.buf] = data]
  <2>1. iob' = [iob EXCEPT ![urb.buf] = [i \in 1 .. BulkSize |-> IF i <= n THEN line.sent + i ELSE @[i]]]
    BY DEF Sends
  <2>2. iob' = [iob EXCEPT ![urb.buf] = data]
    BY <1>1, <2>1
  <2> QED
    BY <2>2 DEF Sends
<1>3. \A i \in 1 .. n : data[i] = line.sent + i
  BY <1>1 DEF Lines
<1> HIDE DEF data
<1>4. urb'.buf = urb.buf /\ urb'.n = n /\ urb'.done = "data"
  BY <1>1 DEF Sends, Urbs
<1>5. line'.sent = line.sent + n
  BY <1>1 DEF Sends, Lines
<1>6. iob'[urb'.buf] = data /\ Arrived' = n /\ Arrived = 0
  BY <1>1, <1>2, <1>4 DEF Arrived
<1>7. All' = All /\ Copying' = Copying
  BY <1>2 DEF All, Copying
<1>8. Chain(All, iob[cb.buf], Copying, data, n, line.sent + n)
  BY <1>3, <1>6, Ranges, ChainGrows DEF Ordered
<1>9. CASE cb.busy
  <2>1. cb.buf # urb.buf
    BY <1>1, <1>2, <1>9 DEF SerialInv, Buffers
  <2>2. iob'[cb.buf] = iob[cb.buf]
    BY <1>1, <1>2, <2>1 DEF Copies
  <2> QED
    BY <1>2, <1>5, <1>6, <1>7, <1>8, <2>2 DEF Ordered
<1>10. CASE ~cb.busy
  <2>1. Copying = 0
    BY <1>10 DEF Copying
  <2>2. Chain(All, iob'[cb.buf], 0, data, n, line.sent + n)
    BY <1>8, <2>1, ChainLoses
  <2> QED
    BY <1>2, <1>5, <1>6, <1>7, <2>1, <2>2 DEF Ordered
<1> QED
  BY <1>9, <1>10

LEMMA CallbackDataOrdered == SerialInv /\ ~seen.moved /\ Ordered /\ CallbackData => Ordered'
<1> SUFFICES ASSUME SerialInv, ~seen.moved, Ordered, CallbackData PROVE Ordered'
  OBVIOUS
<1>1. /\ ~cb.busy /\ urb.done = "data" /\ urb.buf = s.index /\ UNCHANGED <<rb, iob, rd, line, out>>
  BY DEF CallbackData, Interrupts, SerialInv, Buffers
<1>2. Copying = 0 /\ Arrived = urb.n /\ All' = All
  BY <1>1 DEF Copying, Arrived, All
<1>3. urb'.done # "data"
  <2> DEFINE x == [s EXCEPT !.index = NextBuffer(@)].index
  <2>1. urb' = Over \/ urb' = Submitted(x) \/ urb' = [Over EXCEPT !.buf = x]
    BY DEF CallbackData
  <2>2. urb \in Urbs
    BY TypeParts DEF SerialInv
  <2>3. Over \in Urbs /\ Over.done = "none"
    BY <2>2, OverIs
  <2> HIDE DEF x
  <2> QED
    BY <2>1, <2>3 DEF Submitted, Urbs
<1>4. Arrived' = 0
  BY <1>3 DEF Arrived
<1>5. CASE cb' = [busy |-> TRUE, buf |-> s.index, n |-> urb.n]
  <2>1. cb'.buf = urb.buf /\ Copying' = urb.n
    BY <1>1, <1>5 DEF Copying
  <2>2. Chain(All, iob[urb.buf], urb.n, iob[urb'.buf], 0, line.sent)
    BY <1>2, Ranges, ChainShifts DEF Ordered
  <2> QED
    BY <1>1, <1>2, <1>4, <2>1, <2>2 DEF Ordered
<1>6. CASE UNCHANGED cb
  BY <1>1, <1>3, <1>6, KeepsOrdered DEF All
<1> QED
  BY <1>5, <1>6 DEF CallbackData

LEMMA CallbackCopiesOrdered == SerialInv /\ Ordered /\ CallbackCopies => Ordered'
<1> SUFFICES ASSUME SerialInv, Ordered, CallbackCopies PROVE Ordered'
  OBVIOUS
<1> USE Sizes
<1> DEFINE k == Least(cb.n, Room)
           data == SubSeq(iob[cb.buf], 1, k)
<1>1. /\ cb.busy /\ cb' = Waiting /\ rb' = rb \o data /\ UNCHANGED <<urb, iob, rd, line, out>>
  BY DEF CallbackCopies
<1>2. /\ iob[cb.buf] \in Buffer /\ out \in Seq(Bytes) /\ rb \in Seq(Bytes) /\ All \in Seq(Bytes)
      /\ Copying = cb.n /\ cb.n \in 0 .. BulkSize /\ Arrived \in Nat
  BY <1>1, Ranges DEF Copying
<1>3. k \in 0 .. cb.n
  <2>1. Room \in Nat
    BY TypeParts DEF SerialInv, Room
  <2> QED
    BY <1>2, <2>1 DEF Least
<1> HIDE DEF k
<1>4. data \in Seq(Bytes) /\ Len(data) = k /\ \A i \in 1 .. k : data[i] = iob[cb.buf][i]
  <2>1. \A i \in 1 .. k : iob[cb.buf][i] \in Bytes
    BY <1>2, <1>3 DEF Buffer
  <2>2. k \in Int /\ 1 \in Int
    BY <1>3
  <2> QED
    BY <1>3, <2>1, <2>2, SubSeqProperties
<1> HIDE DEF data
<1>5. All' = All \o data
  <2>1. All' = out \o (rb \o data)
    BY <1>1 DEF All
  <2>2. (out \o rb) \o data = out \o (rb \o data)
    <3>1. out \in Seq(Bytes) /\ rb \in Seq(Bytes) /\ data \in Seq(Bytes)
      BY <1>2, <1>4
    <3> QED
      BY <3>1, ConcatAssociative
  <2> QED
    BY <2>1, <2>2 DEF All
<1>6. Chain(All \o data, iob[cb'.buf], 0, iob[urb.buf], Arrived, line.sent)
  BY <1>2, <1>3, <1>4, ChainAppends DEF Ordered
<1>7. Copying' = 0
  BY <1>1 DEF Copying, Waiting
<1>8. Arrived' = Arrived
  BY <1>1 DEF Arrived
<1> QED
  BY <1>1, <1>5, <1>6, <1>7, <1>8 DEF Ordered

LEMMA ReadCopiesOrdered == SerialInv /\ Ordered /\ ReadCopies => Ordered'
<1> SUFFICES ASSUME SerialInv, Ordered, ReadCopies PROVE Ordered'
  OBVIOUS
<1> USE Sizes
<1> DEFINE k == Least(BufLen, Len(rb))
           taken == SubSeq(rb, 1, k)
           rest == SubSeq(rb, k + 1, Len(rb))
<1>1. out' = out \o taken /\ rb' = rest /\ UNCHANGED <<s, urb, iob, cb, line>>
  BY DEF ReadCopies
<1>2. out \in Seq(Bytes) /\ rb \in Seq(Bytes) /\ Len(rb) \in Nat
  BY Ranges
<1>3. k \in 0 .. Len(rb)
  BY <1>2 DEF Least
<1> HIDE DEF k
<1>4. taken \in Seq(Bytes) /\ rest \in Seq(Bytes)
  BY <1>2, <1>3
<1>5. taken \o rest = rb
  <2>1. 1 \in 1 .. Len(rb) + 1 /\ k \in 1 - 1 .. Len(rb) /\ Len(rb) \in k .. Len(rb)
    BY <1>2, <1>3
  <2>2. SubSeq(rb, 1, k) \o SubSeq(rb, k + 1, Len(rb)) = SubSeq(rb, 1, Len(rb))
    BY <1>2, <2>1, ConcatAdjacentSubSeq
  <2> QED
    BY <1>2, <2>2, SubSeqFull
<1> HIDE DEF taken, rest
<1>6. out' \o rb' = All
  <2>1. (out \o taken) \o rest = out \o (taken \o rest)
    BY <1>2, <1>4, ConcatAssociative
  <2> QED
    BY <1>1, <1>5, <2>1 DEF All
<1> QED
  BY <1>1, <1>6, KeepsOrdered

\* The buffer of a URB that holds data is the one that is due already.
LEMMA ReadFillsOrdered == SerialInv /\ ~seen.moved /\ Ordered /\ ReadFills => Ordered'
<1> SUFFICES ASSUME SerialInv, ~seen.moved, Ordered, ReadFills PROVE Ordered'
  OBVIOUS
<1>1. /\ urb' = [urb EXCEPT !.buf = s.index] /\ urb \in Urbs /\ UNCHANGED <<s, rb, iob, cb, line, out, seen>>
      /\ urb.done = "data" => urb.buf = s.index
  BY TypeParts DEF ReadFills, SerialInv, Buffers
<1>2. UNCHANGED urb \/ urb'.done # "data"
  BY <1>1 DEF Urbs
<1> QED
  BY <1>1, <1>2, KeepsOrdered DEF All

LEMMA StepOrdered == SerialInv /\ ~seen.moved /\ Ordered /\ [Next]_vars => Ordered'
<1> SUFFICES ASSUME SerialInv, ~seen.moved, Ordered, [Next]_vars PROVE Ordered'
  OBVIOUS
<1>1. CASE TransferFails
  <2>1. urb'.done = "error"
    BY <1>1, TypeParts DEF TransferFails, SerialInv, Urbs
  <2> QED
    BY <1>1, <2>1, KeepsOrdered DEF TransferFails, All
<1>2. CASE CallbackError
  <2>1. urb'.done # "data"
    BY <1>2, OverIs, TypeParts DEF CallbackError, SerialInv
  <2> QED
    BY <1>2, <2>1, KeepsOrdered DEF CallbackError, All
<1>3. CASE Open
  BY <1>3, EmptiesOrdered DEF Open, Runs
<1>4. CASE Close
  BY <1>4, KeepsOrdered DEF Close, All, Idle
<1>5. CASE SetAttr
  <2>1. line'.sent = line.sent
    BY <1>5, TypeParts DEF SetAttr, SerialInv, Lines
  <2>2. urb'.done # "data"
    BY <1>5 DEF SetAttr, Submitted, Idle
  <2> QED
    BY <1>5, <2>1, <2>2, EmptiesOrdered DEF SetAttr, Runs
<1>6. CASE SetAttrFails
  BY <1>6, KeepsOrdered DEF SetAttrFails, All, Idle
<1>7. CASE ReadSubmits
  <2>1. UNCHANGED urb \/ urb'.done # "data"
    <3>1. UNCHANGED urb \/ urb' = Submitted(urb.buf)
      BY <1>7 DEF ReadSubmits
    <3> QED
      BY <3>1 DEF Submitted
  <2> QED
    BY <1>7, <2>1, KeepsOrdered DEF ReadSubmits, All
<1>8. CASE ReadStarts \/ ReadPending \/ ReadClears \/ ReadForgets
  BY <1>8, KeepsOrdered DEF ReadStarts, ReadPending, ReadClears, ReadForgets, All
<1>9. CASE ReadLooks \/ ReadTakes \/ ReadTimesOut \/ ReadChecks
  BY <1>9, KeepsOrdered DEF ReadLooks, ReadTakes, ReadTimesOut, ReadChecks, All
<1>10. CASE UNCHANGED vars
  BY <1>10, KeepsOrdered DEF vars, All
<1> QED
  BY <1>1, <1>2, <1>3, <1>4, <1>5, <1>6, <1>7, <1>8, <1>9, <1>10, DeviceSendsOrdered, CallbackDataOrdered,
     CallbackCopiesOrdered, ReadFillsOrdered, ReadCopiesOrdered DEF Next, Callback, Read, Restart

\* Nothing forgets that a callback came at the wrong place.
LEMMA MovedStays == SerialInv /\ [Next]_vars /\ seen.moved => seen'.moved
<1> SUFFICES ASSUME SerialInv, [Next]_vars, seen.moved PROVE seen'.moved
  OBVIOUS
<1>1. seen \in History
  BY TypeParts DEF SerialInv
<1>2. CASE UNCHANGED seen
  BY <1>2
<1>3. CASE CallbackError \/ CallbackCopies \/ Close \/ SetAttr \/ SetAttrFails
  BY <1>1, <1>3 DEF CallbackError, CallbackCopies, Close, SetAttr, SetAttrFails, History
<1>4. CASE CallbackData
  <2>1. Moved
    BY DEF Moved
  <2> QED
    BY <1>1, <1>4, <2>1 DEF CallbackData, History
<1>5. CASE ReadStarts \/ ReadSubmits \/ ReadTimesOut \/ ReadChecks \/ ReadCopies
  BY <1>1, <1>5 DEF ReadStarts, ReadSubmits, ReadTimesOut, ReadChecks, ReadCopies, History
<1>6. CASE DeviceSends \/ TransferFails \/ Open \/ ReadPending \/ ReadClears \/ ReadForgets \/ ReadFills
           \/ ReadLooks \/ ReadTakes \/ UNCHANGED vars
  BY <1>2, <1>6 DEF DeviceSends, Sends, TransferFails, Open, ReadPending, ReadClears, ReadForgets, ReadFills,
                    ReadLooks, ReadTakes, vars
<1> QED
  BY <1>3, <1>4, <1>5, <1>6 DEF Next, Callback, Read, Restart

LEMMA StepChained == SerialInv /\ Chained /\ [Next]_vars => Chained'
  BY StepOrdered, MovedStays DEF Chained

\* The bytes the user was given and those in the ring are in the order in
\* which the device sent them, none twice: the two receive buffers
\* (rx_buf_index, line 117) are never mistaken for each other, unless a callback
\* came between the filling of the URB (85) and its submission (87) by a read.
THEOREM SerialInOrder == Spec => []InOrder
<1>1. SerialInv /\ Chained => InOrder
  <2> SUFFICES ASSUME SerialInv, Ordered, NEW i \in 2 .. Len(All) PROVE All[i - 1] < All[i]
    BY DEF InOrder, All, Chained
  <2>1. Len(All) \in Nat
    BY Ranges
  <2>2. i - 1 \in 1 .. Len(All) /\ i \in 1 .. Len(All) /\ i - 1 < i
    BY <2>1
  <2> QED
    BY <2>2 DEF Ordered, Chain
<1>2. Init => Chained
  BY InitOrdered DEF Chained
<1> QED
  BY InitHolds, <1>2, StepInv, StepChained, <1>1, PTL DEF Spec
=============================================================================
