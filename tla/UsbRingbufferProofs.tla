------------------------ MODULE UsbRingbufferProofs ------------------------
(***************************************************************************)
(* Proofs about UsbRingbuffer for every size, counter width, alphabet and  *)
(* request bound that SizeAssumption and DataAssumption admit.             *)
(*                                                                         *)
(* The inductive invariant is RingInv: the types, the fill level that fits *)
(* the pool, and the clamps that stay valid while the other side moves.    *)
(* UsedFits alone is not inductive: PublishIn adds a size that was clamped *)
(* several steps earlier, so the clamp has to be carried along.            *)
(* The refinement needs Data besides: where the bytes of the two calls in  *)
(* progress lie, relative to the unread ones.                              *)
(***************************************************************************)
EXTENDS UsbRingbuffer, TLAPS, SequenceTheorems

RingInv == TypeOK /\ UsedFits /\ ClampStaysValid

-----------------------------------------------------------------------------
(* Arithmetic on the free-running counters.                                *)

\* The pool is smaller than the counters' range, so full differs from empty.
LEMMA Widths == Size \in Nat /\ Size >= 2 /\ Modulus \in Nat /\ Size < Modulus
  BY SizeAssumption

\* Unsigned subtraction and addition wrap at most once.
LEMMA SubWrap ==
    ASSUME NEW m \in Nat, m > 0, NEW a \in 0 .. m - 1, NEW b \in 0 .. m - 1
    PROVE  (a - b) % m = IF b <= a THEN a - b ELSE a - b + m
  OBVIOUS

\* The same for addition.
LEMMA AddWrap ==
    ASSUME NEW m \in Nat, m > 0, NEW a \in 0 .. m - 1, NEW n \in 0 .. m
    PROVE  (a + n) % m = IF a + n < m THEN a + n ELSE a + n - m
  OBVIOUS

\* A remainder is below its modulus.
LEMMA ModRange ==
    ASSUME NEW m \in Nat, m > 0, NEW a \in Int
    PROVE  a % m \in 0 .. m - 1
  OBVIOUS

\* What the counters say is stored.
Distance(a, b) == (a - b) % Modulus

\* Advancing the write counter by n adds n to the distance, as long as it
\* stays below the range; advancing the read counter takes n off it.
LEMMA AdvanceIn ==
    ASSUME NEW a \in 0 .. Modulus - 1, NEW b \in 0 .. Modulus - 1,
           NEW n \in 0 .. Modulus, Distance(a, b) + n < Modulus
    PROVE  /\ (a + n) % Modulus \in 0 .. Modulus - 1
           /\ Distance((a + n) % Modulus, b) = Distance(a, b) + n
<1>1. (a + n) % Modulus = IF a + n < Modulus THEN a + n ELSE a + n - Modulus
  BY Widths, AddWrap
<1>2. (a + n) % Modulus \in 0 .. Modulus - 1
  BY <1>1, Widths
<1>3. Distance(a, b) = IF b <= a THEN a - b ELSE a - b + Modulus
  BY Widths, SubWrap DEF Distance
<1>4. Distance((a + n) % Modulus, b)
        = IF b <= (a + n) % Modulus THEN ((a + n) % Modulus) - b
                                    ELSE ((a + n) % Modulus) - b + Modulus
  BY <1>2, Widths, SubWrap DEF Distance
<1> QED
  BY <1>1, <1>2, <1>3, <1>4, Widths

\* The same for the read counter.
LEMMA AdvanceOut ==
    ASSUME NEW a \in 0 .. Modulus - 1, NEW b \in 0 .. Modulus - 1,
           NEW n \in 0 .. Distance(a, b)
    PROVE  /\ (b + n) % Modulus \in 0 .. Modulus - 1
           /\ Distance(a, (b + n) % Modulus) = Distance(a, b) - n
<1>1. Distance(a, b) = IF b <= a THEN a - b ELSE a - b + Modulus
  BY Widths, SubWrap DEF Distance
<1>2. n \in 0 .. Modulus
  BY <1>1, Widths
<1>3. (b + n) % Modulus = IF b + n < Modulus THEN b + n ELSE b + n - Modulus
  BY <1>2, Widths, AddWrap
<1>4. (b + n) % Modulus \in 0 .. Modulus - 1
  BY <1>2, <1>3, Widths
<1> DEFINE s == (b + n) % Modulus
<1> HIDE DEF s
<1>5. s = IF b + n < Modulus THEN b + n ELSE b + n - Modulus
  BY <1>3 DEF s
<1>6. s \in 0 .. Modulus - 1
  BY <1>4 DEF s
<1>7. Distance(a, s) = IF s <= a THEN a - s ELSE a - s + Modulus
  BY <1>6, Widths, SubWrap DEF Distance
<1>8. s \in 0 .. Modulus - 1 /\ Distance(a, s) = Distance(a, b) - n
  BY <1>1, <1>2, <1>5, <1>6, <1>7, Widths
<1> QED
  BY <1>8 DEF s

\* A transfer no longer than the pool stays inside it, wrapped or not.
LEMMA SlotRange ==
    ASSUME NEW c \in 0 .. Modulus - 1, NEW n \in 0 .. Size, NEW k \in 0 .. n - 1
    PROVE  Slot(c, n, k) \in 0 .. Size - 1
<1>1. c % Size \in 0 .. Size - 1
  BY Widths, ModRange
<1> QED
  BY <1>1, Widths DEF Slot, Remain, Least

\* The two memcpys take the caller's bytes one after the other.
LEMMA SourceIsNext ==
    ASSUME NEW c \in 0 .. Modulus - 1, NEW n \in 0 .. Size, NEW k \in 0 .. n - 1
    PROVE  Source(c, n, k) = k + 1
<1>1. c % Size \in 0 .. Size - 1
  BY Widths, ModRange
<1>2. Remain(c, n) \in Int
  BY <1>1, Widths DEF Remain, Least
<1> QED
  BY <1>2 DEF Source

-----------------------------------------------------------------------------
(* The invariant.                                                          *)

\* An empty ring satisfies the invariant.
LEMMA RingInit == Init => RingInv
<1> SUFFICES ASSUME Init PROVE RingInv
  OBVIOUS
<1>1. Used = 0
  BY Widths, SubWrap DEF Init, Used
<1> QED
  BY <1>1, Widths DEF Init, RingInv, TypeOK, UsedFits, ClampStaysValid, Free

\* The fill level is a number of the width of the counters.
LEMMA UsedRange == TypeOK => Used \in 0 .. Modulus - 1
  BY Widths, ModRange DEF TypeOK, Used

\* No step of either side breaks the invariant.
LEMMA RingStep == RingInv /\ [Next]_vars => RingInv'
<1> SUFFICES ASSUME RingInv, [Next]_vars PROVE RingInv'
  OBVIOUS
<1> USE Widths
<1>t. TypeOK /\ UsedFits /\ ClampStaysValid /\ Used \in 0 .. Size
  BY UsedRange DEF RingInv, UsedFits
<1>f. Free \in 0 .. Size
  BY <1>t DEF Free
<1>d. Used = Distance(in, out) /\ Used' = Distance(in', out')
  BY DEF Used, Distance
<1>c. in \in 0 .. Modulus - 1 /\ out \in 0 .. Modulus - 1
  BY <1>t DEF TypeOK
<1>start. ASSUME NEW data \in Seq(Byte), NEW size \in 0 .. Len(data), size <= Free,
                 NEW how \in {"copy", "linear"}, StartCopy(data, size, how), out' = out
          PROVE  RingInv'
  BY <1>t, <1>f, <1>start
     DEF StartCopy, readerVars, RingInv, TypeOK, UsedFits, ClampStaysValid, Used, Free
<1>1. ASSUME NEW data \in Runs(MaxReq), Write(data)
      PROVE  RingInv'
  <2>1. data \in Seq(Byte) /\ Len(data) \in Nat
    BY <1>1, DataAssumption DEF Runs
  <2>2. Least(Len(data), Free) \in 0 .. Len(data) /\ Least(Len(data), Free) <= Free
    BY <2>1, <1>f DEF Least
  <2> QED
    BY <1>1, <1>start, <2>1, <2>2 DEF Write
<1>2. ASSUME NEW data \in Runs(MaxReq), LinearWriteSetup(data)
      PROVE  RingInv'
  <2> DEFINE n == Least(Len(data), Least(Size - (in % Size), Free))
  <2>1. data \in Seq(Byte) /\ Len(data) \in Nat
    BY <1>2, DataAssumption DEF Runs
  <2>2. in % Size \in 0 .. Size - 1
    BY <1>t, ModRange DEF TypeOK
  <2>3. n \in 0 .. Len(data) /\ n <= Free
    BY <2>1, <2>2, <1>f DEF Least
  <2> QED
    BY <1>2, <1>start, <2>1, <2>3 DEF LinearWriteSetup
<1>3. ASSUME NEW b \in Byte, WriteByte(b)
      PROVE  RingInv'
  <2>1. 1 <= Free /\ 1 \in 0 .. Len(<<b>>) /\ <<b>> \in Seq(Byte)
    BY <1>3, <1>t DEF WriteByte, Free
  <2> QED
    BY <1>3, <1>start, <2>1 DEF WriteByte
<1>4. CASE CopyIn
  <2>1. /\ Slot(in, wsize, wdone) \in 0 .. Size - 1
        /\ Source(in, wsize, wdone) = wdone + 1
    <3>1. wdone \in 0 .. wsize - 1 /\ wsize \in 0 .. Size
      BY <1>4, <1>t, <1>f DEF CopyIn, TypeOK, ClampStaysValid
    <3> QED
      BY <3>1, <1>c, SlotRange, SourceIsNext
  <2>2. wdone + 1 \in 0 .. wsize /\ wdata[wdone + 1] \in Byte
    BY <1>4, <1>t DEF CopyIn, TypeOK
  <2> QED
    BY <1>4, <1>t, <2>1, <2>2
       DEF CopyIn, readerVars, RingInv, TypeOK, UsedFits, ClampStaysValid, Used, Free
<1>5. CASE PublishIn
  <2> DEFINE size == IF wpc = "linear" THEN Least(wdone, Free) ELSE wdone
  <2>0. /\ wdone = wsize /\ wdone \in Nat
        /\ wsize <= Free /\ Free = Size - Used
    BY <1>5, <1>t DEF PublishIn, TypeOK, ClampStaysValid, Free
  <2>1. size = wsize /\ size \in Nat /\ Used + size <= Size
    BY <2>0, <1>t, <1>f DEF Least
  <2>2. in' = (in + size) % Modulus /\ out' = out
    BY <1>5 DEF PublishIn, WriteEnds
  <2>3. in' \in 0 .. Modulus - 1 /\ Used' = Used + size
    <3> HIDE DEF size
    <3>1. size \in 0 .. Modulus /\ Distance(in, out) + size < Modulus
      BY <2>1, <1>t, <1>d
    <3> QED
      BY <2>2, <3>1, <1>c, <1>d, AdvanceIn
  <2>4. rpc' = rpc /\ rsize' = rsize /\ wpc' = "idle"
    BY <1>5 DEF PublishIn, WriteEnds, readerVars
  <2>5. TypeOK'
    BY <1>5, <1>t, <2>2, <2>3 DEF PublishIn, WriteEnds, readerVars, TypeOK
  <2>6. UsedFits'
    BY <2>1, <2>3 DEF UsedFits
  <2>7. ClampStaysValid'
    BY <1>t, <2>1, <2>3, <2>4 DEF ClampStaysValid, TypeOK
  <2> QED
    BY <2>5, <2>6, <2>7 DEF RingInv
<1>startr. ASSUME NEW size \in Nat, size <= Used, NEW how \in {"read", "peek"},
                  StartRead(size, how)
           PROVE  RingInv'
  BY <1>t, <1>startr
     DEF StartRead, ReaderMayEnter, writerVars, RingInv, TypeOK, UsedFits, ClampStaysValid, Used, Free
<1>least. ASSUME NEW a \in Nat PROVE Least(a, Used) \in Nat /\ Least(a, Used) <= Used
  BY <1>t DEF Least
<1>6. ASSUME NEW size \in 1 .. MaxReq, Read(size)
      PROVE  RingInv'
  BY <1>6, <1>startr, <1>least, DataAssumption DEF Read
<1>7. ASSUME NEW size \in 1 .. MaxReq, Peek(size)
      PROVE  RingInv'
  BY <1>7, <1>startr, <1>least, DataAssumption DEF Peek
<1>8. ASSUME NEW size \in 1 .. MaxReq, LinearRead(size)
      PROVE  RingInv'
  <2> DEFINE n == Least(size, Least(Size - (out % Size), Used))
  <2>1. out % Size \in 0 .. Size - 1
    BY <1>t, ModRange DEF TypeOK
  <2>2. n \in Nat /\ n <= Used
    BY <2>1, <1>t, DataAssumption DEF Least
  <2> QED
    BY <1>8, <1>startr, <2>2 DEF LinearRead
<1>out. ASSUME NEW n \in 0 .. Used, out' = (out + n) % Modulus, in' = in
        PROVE  out' \in 0 .. Modulus - 1 /\ Used' = Used - n
  BY <1>out, <1>c, <1>d, AdvanceOut
<1>9. ASSUME NEW size \in 1 .. MaxReq, Drop(size)
      PROVE  RingInv'
  <2> DEFINE n == Least(size, Used)
  <2>1. n \in 0 .. Used
    BY <1>t, DataAssumption DEF Least
  <2>2. out' \in 0 .. Modulus - 1 /\ Used' = Used - n
    BY <1>9, <1>out, <2>1 DEF Drop
  <2>3. TypeOK'
    BY <1>9, <1>t, <2>2 DEF Drop, writerVars, readerVars, TypeOK
  <2>4. UsedFits'
    BY <1>t, <2>1, <2>2 DEF UsedFits
  <2>5. ClampStaysValid'
    <3>1. rpc' = "idle" /\ UNCHANGED <<wpc, wsize>> /\ wsize \in Nat
      BY <1>9, <1>t DEF Drop, ReaderMayEnter, writerVars, readerVars, TypeOK
    <3> QED
      BY <1>t, <2>1, <2>2, <3>1 DEF ClampStaysValid, Free
  <2> QED
    BY <2>3, <2>4, <2>5 DEF RingInv
<1>10. CASE ReadByte \/ PeekByte
  <2>1. in # out /\ (StartRead(1, "read") \/ StartRead(1, "peek"))
    BY <1>10 DEF ReadByte, PeekByte
  <2>2. Used = IF out <= in THEN in - out ELSE in - out + Modulus
    BY <1>c, SubWrap DEF Used
  <2>3. 1 <= Used
    BY <2>1, <2>2, <1>c
  <2> QED
    BY <2>1, <2>3, <1>startr
<1>11. CASE CopyOut
  <2>1. Slot(out, rsize, Len(rbuf)) \in 0 .. Size - 1
    <3>1. /\ Len(rbuf) \in 0 .. rsize - 1
          /\ rsize \in 0 .. Size
      BY <1>11, <1>t DEF CopyOut, TypeOK, ClampStaysValid
    <3>2. out \in 0 .. Modulus - 1
      BY <1>t DEF TypeOK
    <3> QED
      BY <3>1, <3>2, SlotRange
  <2>2. pool[Slot(out, rsize, Len(rbuf))] \in Byte \cup {Junk}
    BY <2>1, <1>t DEF TypeOK
  <2>3. /\ rbuf' \in Seq(Byte \cup {Junk})
        /\ Len(rbuf') <= rsize
    BY <1>11, <2>2, <1>t DEF CopyOut, TypeOK
  <2> QED
    BY <1>11, <1>t, <2>3
       DEF CopyOut, writerVars, RingInv, TypeOK, UsedFits, ClampStaysValid, Used, Free
<1>12. CASE PublishOut
  <2> DEFINE n == IF rpc = "read" THEN rsize ELSE 0
  <2>1. n \in 0 .. Used
    BY <1>12, <1>t DEF PublishOut, TypeOK, ClampStaysValid
  <2>2. out' = (out + n) % Modulus /\ in' = in
    <3>1. (out + 0) % Modulus = out
      BY <1>c, AddWrap
    <3> QED
      BY <1>12, <3>1 DEF PublishOut
  <2>3. out' \in 0 .. Modulus - 1 /\ Used' = Used - n
    BY <2>1, <2>2, <1>out
  <2>4. TypeOK'
    BY <1>12, <1>t, <2>3 DEF PublishOut, writerVars, TypeOK
  <2>5. UsedFits'
    BY <1>t, <2>1, <2>3 DEF UsedFits
  <2>6. ClampStaysValid'
    <3>1. rpc' = "idle" /\ UNCHANGED <<wpc, wsize>> /\ wsize \in Nat
      BY <1>12, <1>t DEF PublishOut, writerVars, TypeOK
    <3> HIDE DEF n
    <3> QED
      BY <1>t, <2>1, <2>3, <3>1 DEF ClampStaysValid, Free
  <2> QED
    BY <2>4, <2>5, <2>6 DEF RingInv
<1>zero. ASSUME NEW a \in 0 .. Modulus - 1, in' = a, out' = a PROVE Used' = 0
  <2>1. (a - a) % Modulus = 0
    BY SubWrap
  <2> QED
    BY <2>1, <1>zero DEF Used
<1>13. CASE ResetRead
  <2>1. Used' = 0
    BY <1>13, <1>c, <1>zero DEF ResetRead
  <2> QED
    BY <1>13, <1>t, <1>f, <2>1
       DEF ResetRead, ReaderMayEnter, writerVars, readerVars, RingInv, TypeOK, UsedFits, ClampStaysValid, Free
<1>14. CASE Reset
  <2>1. Used' = 0
    BY <1>14, <1>zero DEF Reset
  <2> QED
    BY <1>14, <1>t, <2>1
       DEF Reset, Locked, writerVars, readerVars, RingInv, TypeOK, UsedFits, ClampStaysValid
<1>15. ASSUME NEW data \in Runs(Size + 1), Overwrite(data)
       PROVE  RingInv'
  <2> DEFINE n == Least(Len(data), Size)
             k == IF n > Free THEN n - Free ELSE 0
  <2>1. data \in Seq(Byte) /\ Len(data) \in Nat
    BY <1>15 DEF Runs
  <2>2. n \in 0 .. Len(data) /\ n <= Size
    BY <2>1 DEF Least
  <2>3. k \in 0 .. Used /\ n <= Size - (Used - k)
    BY <1>t, <2>2 DEF Free
  <2>4. out' = (out + k) % Modulus
    <3>1. CASE n > Free
      BY <1>15, <3>1, <1>f, <2>2 DEF Overwrite
    <3>2. CASE ~(n > Free)
      <4>1. (out + 0) % Modulus = out
        BY <1>c, AddWrap
      <4> QED
        BY <1>15, <3>2, <4>1 DEF Overwrite
    <3> QED
      BY <3>1, <3>2
  <2>5. /\ in' = in /\ pool' = pool /\ wpc' = "overwrite" /\ rpc' = "idle"
        /\ wdata' = data /\ wsize' = n /\ wdone' = 0
        /\ UNCHANGED <<rsize, rbuf, got>>
    BY <1>15 DEF Overwrite, Locked, StartCopy, readerVars
  <2> HIDE DEF n, k
  <2>6. out' \in 0 .. Modulus - 1 /\ Used' = Used - k
    BY <2>3, <2>4, <2>5, <1>out
  <2>7. TypeOK'
    BY <1>t, <2>1, <2>2, <2>5, <2>6 DEF TypeOK
  <2>8. UsedFits' /\ ClampStaysValid'
    BY <1>t, <2>2, <2>3, <2>5, <2>6 DEF UsedFits, ClampStaysValid, Free
  <2> QED
    BY <2>7, <2>8 DEF RingInv
<1>16. CASE UNCHANGED vars
  BY <1>16, <1>t
     DEF vars, writerVars, readerVars, RingInv, TypeOK, UsedFits, ClampStaysValid, Used, Free
<1> QED
  BY <1>1, <1>2, <1>3, <1>4, <1>5, <1>6, <1>7, <1>8, <1>9, <1>10, <1>11, <1>12, <1>13,
     <1>14, <1>15, <1>16
     DEF Next, WriterNext, ReaderNext, LockedNext

\* The ring's type invariant: every counter, slot and buffer of the calls of
\* usb_ringbuffer.h keeps its type in every reachable state.
THEOREM RingTypes == Spec => []TypeOK
  BY RingInit, RingStep, PTL DEF Spec, RingInv

\* The unread bytes never outnumber the pool, for any width and wrap-around.
THEOREM RingUsedFits == Spec => []UsedFits
  BY RingInit, RingStep, PTL DEF Spec, RingInv

\* The room a writer saw and the fill level a reader saw stay good until the
\* end of the call: the calls need no lock between one writer and one reader.
THEOREM RingClamps == Spec => []ClampStaysValid
  BY RingInit, RingStep, PTL DEF Spec, RingInv
-----------------------------------------------------------------------------
(* Slots: the lock-free claim.                                             *)

\* Quotient and remainder, and that the remainder is unique.
LEMMA DivMod ==
    ASSUME NEW m \in Nat, m > 0, NEW c \in Int
    PROVE  /\ c \div m \in Int
           /\ c % m \in 0 .. m - 1
           /\ c = m * (c \div m) + (c % m)
<1>1. c \div m \in Int
  OBVIOUS
<1>2. c % m \in 0 .. m - 1
  OBVIOUS
<1>3. c = m * (c \div m) + (c % m)
  OBVIOUS
<1> QED
  BY <1>1, <1>2, <1>3

\* A larger quotient is larger by at least one divisor.
LEMMA MulMono ==
    ASSUME NEW m \in Nat, NEW p \in Int, NEW q \in Int, p + 1 <= q
    PROVE  m * p + m <= m * q
<1>1. PICK d \in Nat : q = p + 1 + d
  <2>1. q - p - 1 \in Nat /\ q = p + 1 + (q - p - 1)
    OBVIOUS
  <2> QED
    BY <2>1
<1>2. m * q = m * p + m + m * d
  BY <1>1
<1>3. m * d >= 0 /\ m * d \in Int /\ m * p \in Int
  BY <1>1
<1> QED
  BY <1>2, <1>3

\* Quotient and remainder are unique.
LEMMA ModUnique ==
    ASSUME NEW m \in Nat, m > 0, NEW x \in Int, NEW q \in Int, NEW r \in 0 .. m - 1,
           x = m * q + r
    PROVE  x % m = r
<1> DEFINE p == x \div m
           s == x % m
<1>1. p \in Int /\ s \in 0 .. m - 1 /\ x = m * p + s
  BY DivMod
<1> HIDE DEF p, s
<1> DEFINE mp == m * p
           mq == m * q
<1>2. mp \in Int /\ mq \in Int /\ x = mp + s /\ x = mq + r
  BY <1>1
<1>3. CASE p + 1 <= q
  <2>1. mp + m <= mq
    BY <1>1, <1>3, MulMono
  <2> HIDE DEF mp, mq
  <2> QED
    BY <1>1, <1>2, <2>1
<1>4. CASE q + 1 <= p
  <2>1. mq + m <= mp
    BY <1>1, <1>4, MulMono
  <2> HIDE DEF mp, mq
  <2> QED
    BY <1>1, <1>2, <2>1
<1>5. CASE p = q
  BY <1>2, <1>5 DEF s
<1> QED
  BY <1>1, <1>3, <1>4, <1>5

\* Walking j slots from a slot wraps at most once.
LEMMA WalkWraps ==
    ASSUME NEW m \in Nat, m > 0, NEW c \in Nat, NEW j \in 0 .. m
    PROVE  (c + j) % m = IF (c % m) + j < m THEN (c % m) + j ELSE (c % m) + j - m
<1> DEFINE q == c \div m
           r == c % m
<1>1. q \in Int /\ r \in 0 .. m - 1 /\ c = m * q + r
  BY DivMod
<1> HIDE DEF q, r
<1>2. CASE r + j < m
  <2>1. r + j \in 0 .. m - 1 /\ c + j = m * q + (r + j) /\ c + j \in Int
    BY <1>1, <1>2
  <2>2. (c + j) % m = r + j
    BY <1>1, <2>1, ModUnique
  <2> QED
    BY <1>2, <2>2 DEF r
<1>3. CASE ~(r + j < m)
  <2>1. r + j - m \in 0 .. m - 1 /\ c + j = m * (q + 1) + (r + j - m) /\ c + j \in Int /\ q + 1 \in Int
    BY <1>1, <1>3
  <2>2. (c + j) % m = r + j - m
    BY <2>1, ModUnique
  <2> QED
    BY <1>3, <2>2 DEF r
<1> QED
  BY <1>2, <1>3

\* Whole turns do not change the slot.
LEMMA WholeTurns ==
    ASSUME NEW m \in Nat, m > 0, NEW c \in Nat, NEW k \in Nat
    PROVE  (c + k * m) % m = c % m
<1> DEFINE q == c \div m
           r == c % m
<1>1. q \in Int /\ r \in 0 .. m - 1 /\ c = m * q + r
  BY DivMod
<1> HIDE DEF q, r
<1>2. c + k * m = m * (q + k) + r /\ q + k \in Int /\ c + k * m \in Int
  BY <1>1
<1>3. (c + k * m) % m = r
  BY <1>1, <1>2, ModUnique
<1> QED
  BY <1>3 DEF r

\* The same for the slots of the pool, from any counter value.
LEMMA SlotWalk ==
    ASSUME NEW c \in Nat, NEW j \in 0 .. Size
    PROVE  /\ c % Size \in 0 .. Size - 1
           /\ (c + j) % Size
                = IF (c % Size) + j < Size THEN (c % Size) + j ELSE (c % Size) + j - Size
<1>1. Size \in Nat /\ Size > 0
  BY Widths
<1>2. c % Size \in 0 .. Size - 1
  BY <1>1, ModRange
<1> QED
  BY <1>1, <1>2, WalkWraps

\* The two-memcpy address of byte k is the slot k places further.
LEMMA SlotIsWalk ==
    ASSUME NEW c \in Nat, NEW n \in 0 .. Size, NEW k \in 0 .. n - 1
    PROVE  Slot(c, n, k) = (c + k) % Size
<1> DEFINE o == c % Size
<1>1. k \in 0 .. Size
  BY Widths
<1>2. o \in 0 .. Size - 1
  BY <1>1, SlotWalk
<1>3. (c + k) % Size = IF o + k < Size THEN o + k ELSE o + k - Size
  BY <1>1, SlotWalk
<1>4. Slot(c, n, k) = LET remain == Least(Size - o, n)
                      IN  IF k < remain THEN o + k ELSE k - remain
  BY DEF Slot, Remain
<1> HIDE DEF o
<1> QED
  BY <1>2, <1>3, <1>4, Widths DEF Least

\* The write counter's slot is Used slots past the read counter's.
LEMMA InSlot ==
    ASSUME RingInv
    PROVE  in % Size = (out + Used) % Size
<1>1. in \in 0 .. Modulus - 1 /\ out \in 0 .. Modulus - 1
  BY DEF RingInv, TypeOK
<1>2. Used = IF out <= in THEN in - out ELSE in - out + Modulus
  BY <1>1, Widths, SubWrap DEF Used
<1>3. CASE out <= in
  BY <1>1, <1>2, <1>3
<1>4. CASE ~(out <= in)
  <2>1. PICK k \in 2 .. Modulus : Modulus = k * Size
    BY SizeAssumption
  <2>2. out + Used = in + k * Size
    BY <1>1, <1>2, <1>4, <2>1, Widths
  <2>3. Size \in Nat /\ Size > 0 /\ in \in Nat /\ k \in Nat
    BY <1>1, <2>1, Widths
  <2>4. (in + k * Size) % Size = in % Size
    BY <2>3, WholeTurns
  <2> QED
    BY <2>2, <2>4
<1> QED
  BY <1>3, <1>4

\* A slot fewer than Free places after the write counter is none of the
\* Used slots that start at the read counter.
LEMMA FillingIsFree ==
    ASSUME RingInv, NEW j \in 0 .. Free - 1, NEW i \in 0 .. Used - 1
    PROVE  (in + j) % Size # (out + i) % Size
<1>1. /\ in \in Nat /\ out \in Nat /\ Used \in 0 .. Size /\ Free = Size - Used
  BY UsedRange, Widths DEF RingInv, TypeOK, UsedFits, Free
<1> DEFINE o == out % Size
           w == in % Size
<1>2. o \in 0 .. Size - 1 /\ w \in 0 .. Size - 1
  <2>1. 0 \in 0 .. Size
    BY Widths
  <2> QED
    BY <1>1, <2>1, SlotWalk
<1>3. w = IF o + Used < Size THEN o + Used ELSE o + Used - Size
  BY <1>1, InSlot, SlotWalk
<1>4. (out + i) % Size = IF o + i < Size THEN o + i ELSE o + i - Size
  <2>1. i \in 0 .. Size
    BY <1>1, Widths
  <2> QED
    BY <1>1, <2>1, SlotWalk
<1>5. (in + j) % Size = IF w + j < Size THEN w + j ELSE w + j - Size
  <2>1. j \in 0 .. Size
    BY <1>1, Widths
  <2> QED
    BY <1>1, <2>1, SlotWalk
<1> HIDE DEF o, w
<1> QED
  BY <1>1, <1>2, <1>3, <1>4, <1>5, Widths

\* The invariant keeps reads and writes in progress apart.
LEMMA OverlapFree == RingInv => NoOverlap
<1> SUFFICES ASSUME RingInv PROVE NoOverlap
  OBVIOUS
<1>1. /\ in \in Nat /\ out \in Nat /\ Used \in 0 .. Size /\ Free = Size - Used
  BY UsedRange, Widths DEF RingInv, TypeOK, UsedFits, Free
<1>2. ASSUME wpc # "idle" PROVE Filling \cap Unread = {}
  <2>1. wsize \in 0 .. Size /\ wsize <= Free
    BY <1>1, <1>2, Widths DEF RingInv, TypeOK, ClampStaysValid
  <2>2. ASSUME NEW k \in 0 .. wsize - 1, NEW i \in 0 .. Used - 1
        PROVE  Slot(in, wsize, k) # (out + i) % Size
    <3>1. Slot(in, wsize, k) = (in + k) % Size
      BY <1>1, <2>1, SlotIsWalk
    <3>2. k \in 0 .. Free - 1
      BY <2>1, <1>1
    <3> QED
      BY <3>1, <3>2, FillingIsFree
  <2> QED
    BY <2>2 DEF Filling, Unread
<1>3. ASSUME rpc # "idle" PROVE Draining \subseteq Unread
  <2>1. rsize \in 0 .. Size /\ rsize <= Used
    BY <1>1, <1>3, Widths DEF RingInv, TypeOK, ClampStaysValid
  <2>2. ASSUME NEW k \in 0 .. rsize - 1
        PROVE  Slot(out, rsize, k) = (out + k) % Size /\ k \in 0 .. Used - 1
    BY <1>1, <2>1, SlotIsWalk
  <2> QED
    BY <2>2 DEF Draining, Unread
<1> QED
  BY <1>2, <1>3 DEF NoOverlap

\* The lock-free claim of the header, for every ring: a writer never stores
\* into a slot that holds unread bytes, and a reader copies only from those.
THEOREM RingNoOverlap == Spec => []NoOverlap
  BY RingInit, RingStep, OverlapFree, PTL DEF Spec
-----------------------------------------------------------------------------
(* The contents: the ring implements the bounded byte queue.               *)

\* What the copies have moved so far is where it should be: every unread
\* slot holds a written byte, the writer's stored bytes lie behind the
\* unread ones, and the reader's bytes are the oldest unread ones.
UnreadAreBytes == \A i \in 0 .. Used - 1 : pool[(out + i) % Size] \in Byte
StoredInPlace  == \A k \in 0 .. wdone - 1 : pool[(in + k) % Size] = wdata[k + 1]
CopiedOldest   == \A k \in 1 .. Len(rbuf) : rbuf[k] = pool[(out + k - 1) % Size]
IdleIsClean    == /\ wpc = "idle" => (wdone = 0 /\ wdata = <<>>)
                  /\ rpc = "idle" => (rbuf = <<>> /\ rsize = 0)
Data == UnreadAreBytes /\ StoredInPlace /\ CopiedOldest /\ IdleIsClean

\* A step of the counter is a walk through the slots, across the wrap.
LEMMA TurnWalk ==
    ASSUME NEW c \in 0 .. Modulus - 1, NEW n \in 0 .. Modulus, NEW i \in Nat
    PROVE  (((c + n) % Modulus) + i) % Size = (c + n + i) % Size
<1>1. (c + n) % Modulus = IF c + n < Modulus THEN c + n ELSE c + n - Modulus
  BY Widths, AddWrap
<1>2. CASE c + n < Modulus
  BY <1>1, <1>2
<1>3. CASE ~(c + n < Modulus)
  <2>1. PICK k \in 2 .. Modulus : Modulus = k * Size
    BY SizeAssumption
  <2> DEFINE x == c + n - Modulus + i
  <2>2. x \in Nat /\ Size \in Nat /\ Size > 0 /\ k \in Nat
    BY <1>3, <2>1, Widths
  <2>3. (x + k * Size) % Size = x % Size
    <3> HIDE DEF x
    <3> QED
      BY <2>2, WholeTurns
  <2>4. x + k * Size = c + n + i
    BY <2>1, Widths
  <2> QED
    BY <1>1, <1>3, <2>3, <2>4
<1> QED
  BY <1>2, <1>3

\* The slots from the write counter on are the ones behind the unread ones.
LEMMA InWalk ==
    ASSUME RingInv, NEW j \in Nat
    PROVE  (in + j) % Size = (out + Used + j) % Size
<1>1. in \in 0 .. Modulus - 1 /\ out \in 0 .. Modulus - 1
  BY DEF RingInv, TypeOK
<1>2. Used = IF out <= in THEN in - out ELSE in - out + Modulus
  BY <1>1, Widths, SubWrap DEF Used
<1>3. CASE out <= in
  BY <1>1, <1>2, <1>3
<1>4. CASE ~(out <= in)
  <2>1. PICK k \in 2 .. Modulus : Modulus = k * Size
    BY SizeAssumption
  <2>2. out + Used + j = (in + j) + k * Size
    BY <1>1, <1>2, <1>4, <2>1, Widths
  <2>3. Size \in Nat /\ Size > 0 /\ in + j \in Nat /\ k \in Nat
    BY <1>1, <2>1, Widths
  <2>4. ((in + j) + k * Size) % Size = (in + j) % Size
    BY <2>3, WholeTurns
  <2> QED
    BY <2>2, <2>4
<1> QED
  BY <1>3, <1>4

\* Slots fewer than Size places apart are different ones.
LEMMA Apart ==
    ASSUME NEW c \in Nat, NEW a \in Nat, NEW b \in Nat, a < b, b - a < Size
    PROVE  (c + a) % Size # (c + b) % Size
<1> DEFINE d == b - a
           x == c + a
<1>1. d \in 0 .. Size /\ d > 0 /\ d < Size /\ x \in Nat /\ c + b = x + d
  BY Widths
<1> HIDE DEF d, x
<1>2. /\ x % Size \in 0 .. Size - 1
      /\ (x + d) % Size = IF (x % Size) + d < Size THEN (x % Size) + d ELSE (x % Size) + d - Size
  BY <1>1, SlotWalk
<1>3. x % Size # (x + d) % Size
  BY <1>1, <1>2, Widths
<1> QED
  BY <1>1, <1>3 DEF x

\* The u bytes from counter c on, in pool p: Content is one of them.
Queue(p, c, u)   == [i \in 1 .. u |-> p[(c + i - 1) % Size]]
Holds(p, c, u)   == \A i \in 0 .. u - 1 : p[(c + i) % Size] \in Byte

\* Such a queue is a sequence of bytes whose places are the slots in order.
LEMMA QueueShape ==
    ASSUME NEW p, NEW c \in Nat, NEW u \in Nat, Holds(p, c, u)
    PROVE  /\ Queue(p, c, u) \in Seq(Byte) /\ Len(Queue(p, c, u)) = u
           /\ \A i \in 1 .. u : Queue(p, c, u)[i] = p[(c + i - 1) % Size]
<1> DEFINE at(i) == p[(c + i - 1) % Size]
           q == Queue(p, c, u)
<1>1. ASSUME NEW i \in 1 .. u PROVE at(i) \in Byte
  <2>1. i - 1 \in 0 .. u - 1 /\ c + i - 1 = c + (i - 1)
    OBVIOUS
  <2> QED
    BY <2>1 DEF Holds
<1>2. q = [i \in 1 .. u |-> at(i)]
  BY DEF Queue
<1> HIDE DEF at, q
<1>3. q \in Seq(Byte) /\ Len(q) = u /\ \A i \in 1 .. u : q[i] = at(i)
  BY <1>1, <1>2
<1> QED
  BY <1>3 DEF at, q

\* A queue that lost its n oldest bytes.
LEMMA Shortened ==
    ASSUME NEW S, NEW q \in Seq(S), NEW r \in Seq(S), NEW n \in 0 .. Len(q),
           Len(r) = Len(q) - n, \A i \in 1 .. Len(r) : r[i] = q[n + i]
    PROVE  r = SubSeq(q, n + 1, Len(q))
<1> DEFINE t == SubSeq(q, n + 1, Len(q))
<1>1. \A i \in n + 1 .. Len(q) : q[i] \in S
  OBVIOUS
<1>2. /\ t \in Seq(S)
      /\ Len(t) = IF n + 1 <= Len(q) THEN Len(q) - (n + 1) + 1 ELSE 0
      /\ \A i \in 1 .. Len(q) - (n + 1) + 1 : t[i] = q[n + 1 + i - 1]
  BY <1>1, SubSeqProperties
<1> HIDE DEF t
<1>3. Len(t) = Len(r) /\ \A i \in 1 .. Len(r) : t[i] = r[i]
  BY <1>2
<1>4. r = t
  BY <1>2, <1>3, SeqEqual
<1> QED
  BY <1>4 DEF t

\* A queue's n oldest bytes.
LEMMA Beginning ==
    ASSUME NEW S, NEW q \in Seq(S), NEW r, NEW n \in 0 .. Len(q), NEW T, r \in Seq(T),
           Len(r) = n, \A i \in 1 .. n : r[i] = q[i]
    PROVE  r = SubSeq(q, 1, n)
<1> DEFINE t == SubSeq(q, 1, n)
<1>1. \A i \in 1 .. n : q[i] \in S
  OBVIOUS
<1>2. /\ t \in Seq(S)
      /\ Len(t) = IF 1 <= n THEN n - 1 + 1 ELSE 0
      /\ \A i \in 1 .. n - 1 + 1 : t[i] = q[1 + i - 1]
  BY <1>1, SubSeqProperties
<1> HIDE DEF t
<1>3. Len(t) = Len(r) /\ \A i \in 1 .. Len(r) : t[i] = r[i]
  BY <1>2
<1>4. r \in Seq(S)
  BY <1>1
<1>5. r = t
  BY <1>2, <1>3, <1>4, SeqEqual
<1> QED
  BY <1>5 DEF t
\* Slots that keep their bytes keep the queue.
LEMMA QueueKept ==
    ASSUME NEW p, NEW q, NEW c \in Nat, NEW u \in Nat,
           \A i \in 0 .. u - 1 : q[(c + i) % Size] = p[(c + i) % Size]
    PROVE  Queue(q, c, u) = Queue(p, c, u) /\ (Holds(p, c, u) => Holds(q, c, u))
<1>1. ASSUME NEW i \in 1 .. u PROVE q[(c + i - 1) % Size] = p[(c + i - 1) % Size]
  <2>1. i - 1 \in 0 .. u - 1 /\ c + i - 1 = c + (i - 1)
    OBVIOUS
  <2> QED
    BY <2>1
<1>2. Queue(q, c, u) = Queue(p, c, u)
  BY <1>1 DEF Queue
<1> QED
  BY <1>2 DEF Holds

\* Moving the read counter by n takes the n oldest bytes off.
LEMMA QueueShortened ==
    ASSUME NEW p, NEW c \in 0 .. Modulus - 1, NEW u \in 0 .. Size, NEW n \in 0 .. u,
           Holds(p, c, u)
    PROVE  /\ Holds(p, (c + n) % Modulus, u - n)
           /\ Queue(p, (c + n) % Modulus, u - n)
                = SubSeq(Queue(p, c, u), n + 1, Len(Queue(p, c, u)))
<1> DEFINE d == (c + n) % Modulus
           q == Queue(p, c, u)
           r == Queue(p, d, u - n)
<1>1. c \in Nat /\ u \in Nat /\ n \in 0 .. Modulus /\ u - n \in Nat
  BY Widths
<1>2. \A i \in Nat : (d + i) % Size = (c + n + i) % Size
  BY <1>1, TurnWalk
<1>3. d \in 0 .. Modulus - 1
  BY <1>1, Widths, ModRange
<1>4. d \in Nat
  BY <1>3, Widths
<1> HIDE DEF d
<1>5. Holds(p, d, u - n)
  <2>1. ASSUME NEW i \in 0 .. u - n - 1 PROVE p[(d + i) % Size] \in Byte
    <3>1. n + i \in 0 .. u - 1 /\ i \in Nat /\ c + n + i = c + (n + i)
      OBVIOUS
    <3> QED
      BY <3>1, <1>2 DEF Holds
  <2> QED
    BY <2>1 DEF Holds
<1>6. /\ q \in Seq(Byte) /\ Len(q) = u
      /\ \A i \in 1 .. u : q[i] = p[(c + i - 1) % Size]
  BY <1>1, QueueShape
<1>7. /\ r \in Seq(Byte) /\ Len(r) = u - n
      /\ \A i \in 1 .. u - n : r[i] = p[(d + i - 1) % Size]
  BY <1>1, <1>4, <1>5, QueueShape
<1>8. ASSUME NEW i \in 1 .. u - n PROVE r[i] = q[n + i]
  <2>1. i - 1 \in Nat /\ d + i - 1 = d + (i - 1) /\ c + n + (i - 1) = c + (n + i) - 1
        /\ n + i \in 1 .. u
    BY <1>4
  <2>2. (d + i - 1) % Size = (c + (n + i) - 1) % Size
    BY <2>1, <1>2
  <2> QED
    BY <2>1, <2>2, <1>6, <1>7
<1> HIDE DEF q, r
<1>9. r = SubSeq(q, n + 1, Len(q))
  BY <1>1, <1>6, <1>7, <1>8, Shortened
<1> QED
  BY <1>5, <1>9 DEF d, q, r

\* Bytes behind the unread ones leave those as they are.
LEMMA QueueExtended ==
    ASSUME NEW p, NEW c \in Nat, NEW u \in Nat, NEW n \in Nat, Holds(p, c, u + n)
    PROVE  Queue(p, c, u) = SubSeq(Queue(p, c, u + n), 1, u)
<1>1. Holds(p, c, u) /\ u + n \in Nat
  BY DEF Holds
<1> DEFINE q == Queue(p, c, u + n)
           r == Queue(p, c, u)
<1>2. /\ q \in Seq(Byte) /\ Len(q) = u + n
      /\ \A i \in 1 .. u + n : q[i] = p[(c + i - 1) % Size]
  BY <1>1, QueueShape
<1>3. /\ r \in Seq(Byte) /\ Len(r) = u
      /\ \A i \in 1 .. u : r[i] = p[(c + i - 1) % Size]
  BY <1>1, QueueShape
<1> HIDE DEF q, r
<1>4. r = SubSeq(q, 1, u)
  <2>1. u \in 0 .. Len(q) /\ \A i \in 1 .. u : r[i] = q[i]
    BY <1>2, <1>3
  <2> QED
    BY <2>1, <1>2, <1>3, Beginning
<1> QED
  BY <1>4 DEF q, r

\* What the proofs of the steps use of the invariant.
LEMMA RingFacts ==
    ASSUME RingInv
    PROVE  /\ in \in 0 .. Modulus - 1 /\ out \in 0 .. Modulus - 1 /\ in \in Nat /\ out \in Nat
           /\ Used \in 0 .. Size /\ Used \in Nat /\ Free = Size - Used /\ Free \in 0 .. Size
           /\ wdata \in Seq(Byte) /\ Len(wdata) \in Nat /\ wsize \in 0 .. Len(wdata)
           /\ wsize \in Nat /\ wdone \in 0 .. wsize
           /\ rbuf \in Seq(Byte \cup {Junk}) /\ Len(rbuf) \in 0 .. rsize /\ rsize \in Nat
           /\ wpc # "idle" => wsize <= Free
           /\ rpc # "idle" => rsize <= Used
  BY UsedRange, Widths DEF RingInv, TypeOK, UsedFits, ClampStaysValid, Free

\* The counters move the fill level.
LEMMA MoveIn ==
    ASSUME RingInv, NEW n \in 0 .. Free, in' = (in + n) % Modulus, out' = out
    PROVE  Used' = Used + n
<1>0. n \in 0 .. Modulus /\ Used + n < Modulus
  <2>1. Used \in Nat /\ Free = Size - Used /\ Size < Modulus /\ Modulus \in Nat
    BY RingFacts, Widths
  <2> QED
    BY <2>1, Widths
<1>1. n \in 0 .. Modulus /\ Distance(in, out) + n < Modulus
  BY <1>0 DEF Distance, Used
<1>2. Distance((in + n) % Modulus, out) = Distance(in, out) + n
  BY <1>1, RingFacts, AdvanceIn
<1> QED
  BY <1>2 DEF Distance, Used

\* The same for the reader's counter.
LEMMA MoveOut ==
    ASSUME RingInv, NEW n \in 0 .. Used, out' = (out + n) % Modulus, in' = in
    PROVE  Used' = Used - n
<1>1. n \in 0 .. Distance(in, out)
  BY DEF Distance, Used
<1>2. Distance(in, (out + n) % Modulus) = Distance(in, out) - n
  BY <1>1, RingFacts, AdvanceOut
<1> QED
  BY <1>2 DEF Distance, Used

\* The invariant's data part and the queue, in the terms of the lemmas.
LEMMA DataFacts ==
    /\ UnreadAreBytes <=> Holds(pool, out, Used)
    /\ Content = Queue(pool, out, Used)
    /\ UnreadAreBytes' <=> Holds(pool', out', Used')
    /\ Content' = Queue(pool', out', Used')
  BY DEF UnreadAreBytes, Holds, Content, Queue
-----------------------------------------------------------------------------
(* The steps: each keeps Data and is a step of the queue or a stutter.     *)

QueueStep == Fifo!FifoNext \/ UNCHANGED <<Content, wdata, got>>

\* A step that leaves the counters, the pool and what was delivered alone
\* leaves the queue alone.
LEMMA Quiet ==
    ASSUME Data, UNCHANGED <<in, out, pool, wdata, got>>
    PROVE  UnreadAreBytes' /\ QueueStep /\ Used' = Used
<1>1. Used' = Used
  BY DEF Used
<1>2. Content' = Content
  BY <1>1 DEF Content
<1>3. UnreadAreBytes'
  BY <1>1 DEF Data, UnreadAreBytes
<1> QED
  BY <1>1, <1>2, <1>3 DEF QueueStep

\* A call of the writer starts where the last one left nothing.
LEMMA StartCopyMakes ==
    ASSUME Data, NEW data, NEW size, NEW how \in {"copy", "linear", "overwrite"},
           StartCopy(data, size, how)
    PROVE  /\ UNCHANGED <<in, pool, rpc, rsize, rbuf, got>>
           /\ wdata = <<>> /\ wdata' = data
           /\ StoredInPlace' /\ IdleIsClean'
<1>1. /\ UNCHANGED <<in, pool, rpc, rsize, rbuf, got>>
      /\ wpc = "idle" /\ wdone' = 0 /\ wpc' = how /\ wdata' = data
  BY DEF StartCopy, readerVars
<1>2. StoredInPlace'
  BY <1>1 DEF StoredInPlace
<1>3. wdata = <<>> /\ IdleIsClean'
  BY <1>1 DEF Data, IdleIsClean
<1> QED
  BY <1>1, <1>2, <1>3

\* The start of a write: the queue learns what its caller handed in.
LEMMA StartCopyStep ==
    ASSUME RingInv, Data, NEW data \in Seq(Byte), data # <<>>, NEW size,
           NEW how \in {"copy", "linear"}, StartCopy(data, size, how), out' = out
    PROVE  Data' /\ QueueStep
<1>1. /\ UNCHANGED <<in, pool, rpc, rsize, rbuf, got>>
      /\ wdata = <<>> /\ wdata' = data
      /\ StoredInPlace' /\ IdleIsClean'
  BY StartCopyMakes
<1>2. Used' = Used
  BY <1>1 DEF Used
<1>3. Content' = Content /\ UnreadAreBytes'
  BY <1>1, <1>2 DEF Content, Data, UnreadAreBytes
<1>4. CopiedOldest'
  BY <1>1 DEF Data, CopiedOldest
<1>5. QueueStep
  BY <1>1, <1>3 DEF QueueStep, Fifo!FifoNext, Fifo!Call, Fifo!HandIn
<1> QED
  BY <1>1, <1>3, <1>4, <1>5 DEF Data

\* The same for the reader's calls.
LEMMA StartReadStep ==
    ASSUME RingInv, Data, NEW size, NEW how \in {"read", "peek"}, StartRead(size, how)
    PROVE  Data' /\ QueueStep
<1>1. UNCHANGED <<in, out, pool, got>> /\ UNCHANGED <<wpc, wdata, wsize, wdone>>
      /\ rbuf' = <<>> /\ rpc' # "idle"
  BY DEF StartRead, writerVars
<1>2. UnreadAreBytes' /\ QueueStep
  BY <1>1, Quiet
<1>3. StoredInPlace' /\ IdleIsClean'
  BY <1>1 DEF Data, StoredInPlace, IdleIsClean
<1>4. CopiedOldest'
  BY <1>1 DEF CopiedOldest
<1> QED
  BY <1>2, <1>3, <1>4 DEF Data

\* A byte stored behind the unread ones: none of those, none of the reader's,
\* and none of the bytes this call stored before.
LEMMA CopyInStep ==
    ASSUME RingInv, Data, CopyIn
    PROVE  Data' /\ QueueStep
<1> DEFINE s == (in + wdone) % Size
<1>1. /\ wpc # "idle" /\ wdone \in 0 .. wsize - 1 /\ wsize <= Free
      /\ wsize \in 0 .. Size /\ wdone \in 0 .. Free - 1 /\ wdone \in Nat
  <2>1. wpc # "idle" /\ wdone < wsize
    BY DEF CopyIn
  <2> QED
    BY <2>1, RingFacts, Widths
<1>2. /\ pool' = [pool EXCEPT ![s] = wdata[wdone + 1]] /\ wdone' = wdone + 1
      /\ UNCHANGED <<in, out, wpc, wdata, wsize, rpc, rsize, rbuf, got>>
  <2>1. Slot(in, wsize, wdone) = s /\ Source(in, wsize, wdone) = wdone + 1
    BY <1>1, RingFacts, SlotIsWalk, SourceIsNext
  <2> QED
    BY <2>1 DEF CopyIn, readerVars
<1>3. s \in 0 .. Size - 1 /\ DOMAIN pool = 0 .. Size - 1
  <2>1. in + wdone \in Int /\ Size \in Nat /\ Size > 0
    BY <1>1, RingFacts, Widths
  <2>2. s \in 0 .. Size - 1
    BY <2>1, ModRange
  <2> QED
    BY <2>2 DEF RingInv, TypeOK
<1>4. ASSUME NEW i \in 0 .. Used - 1 PROVE (out + i) % Size # s
  BY <1>1, FillingIsFree
<1>5. ASSUME NEW k \in 0 .. wdone - 1 PROVE (in + k) % Size # s
  <2>1. k \in Nat /\ k < wdone /\ wdone - k < Size
    BY <1>1, Widths
  <2> QED
    BY <2>1, <1>1, RingFacts, Apart
<1> HIDE DEF s
<1>6. pool'[s] = wdata[wdone + 1] /\ \A t : t # s => pool'[t] = pool[t]
  BY <1>2, <1>3
<1>7. Used' = Used
  BY <1>2 DEF Used
<1>8. \A i \in 0 .. Used - 1 : pool'[(out + i) % Size] = pool[(out + i) % Size]
  BY <1>4, <1>6
<1>9. Content' = Content /\ UnreadAreBytes'
  <2>1. Queue(pool', out, Used) = Queue(pool, out, Used)
        /\ (Holds(pool, out, Used) => Holds(pool', out, Used))
    BY <1>8, RingFacts, QueueKept
  <2> QED
    BY <2>1, <1>2, <1>7, DataFacts DEF Data
<1>10. StoredInPlace'
  <2>1. ASSUME NEW k \in 0 .. wdone' - 1 PROVE pool'[(in + k) % Size] = wdata[k + 1]
    <3>1. CASE k = wdone
      BY <3>1, <1>6 DEF s
    <3>2. CASE k # wdone
      <4>1. k \in 0 .. wdone - 1
        BY <3>2, <1>1, <1>2
      <4> QED
        BY <4>1, <1>5, <1>6 DEF Data, StoredInPlace
    <3> QED
      BY <3>1, <3>2
  <2> QED
    BY <2>1, <1>2 DEF StoredInPlace
<1>11. CopiedOldest'
  <2>1. ASSUME NEW k \in 1 .. Len(rbuf) PROVE rbuf[k] = pool'[(out + k - 1) % Size]
    <3>1. rpc # "idle"
      BY DEF Data, IdleIsClean
    <3>2. k - 1 \in 0 .. Used - 1 /\ out + k - 1 = out + (k - 1)
      BY <3>1, RingFacts
    <3>3. pool'[(out + k - 1) % Size] = pool[(out + k - 1) % Size]
      BY <3>2, <1>8
    <3> QED
      BY <3>3 DEF Data, CopiedOldest
  <2> QED
    BY <2>1, <1>2 DEF CopiedOldest
<1>12. IdleIsClean'
  BY <1>1, <1>2 DEF Data, IdleIsClean
<1> QED
  BY <1>2, <1>9, <1>10, <1>11, <1>12 DEF Data, QueueStep

\* A byte copied out is the oldest one not copied yet.
LEMMA CopyOutStep ==
    ASSUME RingInv, Data, CopyOut
    PROVE  Data' /\ QueueStep
<1> DEFINE n == Len(rbuf)
<1>1. /\ rpc # "idle" /\ n \in 0 .. rsize - 1 /\ rsize \in 0 .. Size /\ n \in Nat
  <2>1. rpc # "idle" /\ Len(rbuf) < rsize
    BY DEF CopyOut
  <2> QED
    BY <2>1, RingFacts, Widths
<1>2. /\ rbuf' = Append(rbuf, pool[(out + n) % Size])
      /\ UNCHANGED <<in, out, pool, wpc, wdata, wsize, wdone, rpc, rsize, got>>
  <2>1. Slot(out, rsize, n) = (out + n) % Size
    BY <1>1, RingFacts, SlotIsWalk
  <2> QED
    BY <2>1 DEF CopyOut, writerVars
<1>3. UnreadAreBytes' /\ QueueStep
  BY <1>2, Quiet
<1>4. StoredInPlace' /\ IdleIsClean'
  BY <1>1, <1>2 DEF Data, StoredInPlace, IdleIsClean
<1>5. CopiedOldest'
  <2>1. /\ Len(rbuf') = n + 1
        /\ \A k \in 1 .. n : rbuf'[k] = rbuf[k]
        /\ rbuf'[n + 1] = pool[(out + n) % Size]
    BY <1>2, RingFacts
  <2>2. ASSUME NEW k \in 1 .. n + 1 PROVE rbuf'[k] = pool[(out + k - 1) % Size]
    <3>1. CASE k = n + 1
      <4>1. out + k - 1 = out + n
        BY <3>1, <1>1, RingFacts
      <4> QED
        BY <4>1, <3>1, <2>1
    <3>2. CASE k # n + 1
      <4>1. k \in 1 .. n
        BY <3>2, <1>1
      <4> QED
        BY <4>1, <2>1 DEF Data, CopiedOldest
    <3> QED
      BY <3>1, <3>2
  <2> QED
    BY <2>1, <2>2, <1>2 DEF CopiedOldest
<1> QED
  BY <1>3, <1>4, <1>5 DEF Data

\* A queue that grew by the first n of the bytes handed in.
LEMMA Joined ==
    ASSUME NEW S, NEW q \in Seq(S), NEW d \in Seq(S), NEW n \in 0 .. Len(d),
           NEW r \in Seq(S), Len(r) = Len(q) + n,
           \A i \in 1 .. Len(q) : r[i] = q[i],
           \A j \in 1 .. n : r[Len(q) + j] = d[j]
    PROVE  r = q \o SubSeq(d, 1, n)
<1> DEFINE t == SubSeq(d, 1, n)
           c == q \o t
<1>1. \A i \in 1 .. n : d[i] \in S
  OBVIOUS
<1>2. /\ t \in Seq(S)
      /\ Len(t) = IF 1 <= n THEN n - 1 + 1 ELSE 0
      /\ \A i \in 1 .. n - 1 + 1 : t[i] = d[1 + i - 1]
  BY <1>1, SubSeqProperties
<1> HIDE DEF t
<1>3. Len(t) = n /\ \A i \in 1 .. n : t[i] = d[i]
  BY <1>2
<1>4. /\ c \in Seq(S) /\ Len(c) = Len(q) + Len(t)
      /\ \A i \in 1 .. Len(q) + Len(t) : c[i] = IF i <= Len(q) THEN q[i] ELSE t[i - Len(q)]
  BY <1>2, ConcatProperties
<1> HIDE DEF c
<1>5. ASSUME NEW i \in 1 .. Len(r) PROVE r[i] = c[i]
  <2>1. CASE i <= Len(q)
    <3>1. i \in 1 .. Len(q) /\ i \in 1 .. Len(q) + Len(t)
      BY <2>1, <1>3
    <3> QED
      BY <3>1, <2>1, <1>4
  <2>2. CASE ~(i <= Len(q))
    <3> DEFINE j == i - Len(q)
    <3>1. j \in 1 .. n /\ i = Len(q) + j /\ i \in 1 .. Len(q) + Len(t)
      BY <2>2, <1>3
    <3>2. c[i] = t[j]
      BY <3>1, <2>2, <1>4
    <3> HIDE DEF j
    <3> QED
      BY <3>1, <3>2, <1>3
  <2> QED
    BY <2>1, <2>2
<1>6. r = c
  BY <1>3, <1>4, <1>5, SeqEqual
<1> QED
  BY <1>6 DEF c, t

\* The bytes become visible together, behind the ones that were there.
LEMMA PublishInStep ==
    ASSUME RingInv, RingInv', Data, PublishIn
    PROVE  Data' /\ QueueStep
<1> DEFINE n == wsize
<1>1. wpc # "idle" /\ wdone = n /\ n \in 0 .. Free /\ n \in Nat
  <2>1. wpc # "idle" /\ wdone = n
    BY DEF PublishIn
  <2> QED
    BY <2>1, RingFacts
<1>2. /\ in' = (in + n) % Modulus /\ wpc' = "idle" /\ wdata' = <<>> /\ wdone' = 0
      /\ UNCHANGED <<out, pool, rpc, rsize, rbuf, got>>
  <2>1. Least(wdone, Free) = wdone
    BY <1>1, RingFacts DEF Least
  <2> QED
    BY <1>1, <2>1 DEF PublishIn, WriteEnds, readerVars
<1>3. Used' = Used + n
  BY <1>1, <1>2, MoveIn
<1>r. /\ Used \in Nat /\ out \in Nat /\ Used + n \in Nat /\ Used + n <= Size
      /\ wdata \in Seq(Byte) /\ Size \in Nat /\ n \in 0 .. Len(wdata)
  <2>1. Free = Size - Used /\ Used \in Nat /\ Size \in Nat /\ n \in 0 .. Len(wdata)
    BY RingFacts, Widths
  <2> HIDE DEF n
  <2>2. Used + n \in Nat /\ Used + n <= Size
    BY <1>1, <2>1
  <2> QED
    BY <2>1, <2>2, RingFacts
<1>4. Holds(pool, out, Used + n)
  <2>1. ASSUME NEW i \in 0 .. (Used + n) - 1 PROVE pool[(out + i) % Size] \in Byte
    <3>1. CASE i \in 0 .. Used - 1
      BY <3>1 DEF Data, UnreadAreBytes
    <3>2. CASE i \notin 0 .. Used - 1
      <4> DEFINE j == i - Used
      <4>1. j \in 0 .. n - 1 /\ j \in Nat /\ out + Used + j = out + i
        BY <3>2, <1>1, <1>r
      <4>2. (in + j) % Size = (out + i) % Size
        <5> HIDE DEF j
        <5> QED
          BY <4>1, InWalk
      <4>3. pool[(in + j) % Size] = wdata[j + 1]
        BY <4>1, <1>1 DEF Data, StoredInPlace
      <4>4. wdata[j + 1] \in Byte
        <5> HIDE DEF j
        <5> QED
          BY <4>1, <1>r
      <4> QED
        BY <4>2, <4>3, <4>4
    <3> QED
      BY <3>1, <3>2
  <2> HIDE DEF n
  <2> QED
    BY <2>1 DEF Holds
<1>5. Data'
  <2>1. UnreadAreBytes'
    BY <1>2, <1>3, <1>4, DataFacts
  <2>2. StoredInPlace' /\ IdleIsClean'
    BY <1>2 DEF Data, StoredInPlace, IdleIsClean
  <2>3. CopiedOldest'
    BY <1>2 DEF Data, CopiedOldest
  <2> QED
    BY <2>1, <2>2, <2>3 DEF Data
<1>6. QueueStep
  <2>2. Content = Queue(pool, out, Used) /\ Content' = Queue(pool, out, Used + n)
    BY <1>2, <1>3, DataFacts
  <2>3. Holds(pool, out, Used)
    BY DataFacts DEF Data
  <2>4. /\ Content \in Seq(Byte) /\ Len(Content) = Used
        /\ \A i \in 1 .. Used : Content[i] = pool[(out + i - 1) % Size]
        /\ \A i \in 1 .. Used + n : Content'[i] = pool[(out + i - 1) % Size]
        /\ Content' \in Seq(Byte) /\ Len(Content') = Used + n
    BY <1>r, <2>2, <2>3, <1>4, QueueShape
  <2>5. ASSUME NEW j \in 1 .. n PROVE Content'[Used + j] = wdata[j]
    <3>1. j - 1 \in Nat /\ j - 1 \in 0 .. wdone - 1 /\ Used + j \in 1 .. Used + n
          /\ out + (Used + j) - 1 = out + Used + (j - 1) /\ (j - 1) + 1 = j
      BY <1>1, <1>r
    <3>2. pool[(in + (j - 1)) % Size] = wdata[j]
      BY <3>1 DEF Data, StoredInPlace
    <3>3. (in + (j - 1)) % Size = (out + Used + (j - 1)) % Size
      BY <3>1, InWalk
    <3>4. Content'[Used + j] = pool[(out + (Used + j) - 1) % Size]
      BY <3>1, <2>4
    <3> QED
      BY <3>1, <3>2, <3>3, <3>4
  <2>6. ASSUME NEW i \in 1 .. Used PROVE Content'[i] = Content[i]
    <3>1. i \in 1 .. Used + n
      BY <1>1, <1>r
    <3> QED
      BY <3>1, <2>4
  <2> HIDE DEF n
  <2>7. Content' = Content \o SubSeq(wdata, 1, n)
    <3> DEFINE new == Content'
    <3>1. /\ Content \in Seq(Byte) /\ wdata \in Seq(Byte) /\ n \in 0 .. Len(wdata)
          /\ new \in Seq(Byte) /\ Len(new) = Len(Content) + n
          /\ \A i \in 1 .. Len(Content) : new[i] = Content[i]
          /\ \A j \in 1 .. n : new[Len(Content) + j] = wdata[j]
      BY <2>4, <2>5, <2>6, <1>r
    <3> HIDE DEF new
    <3>2. new = Content \o SubSeq(wdata, 1, n)
      BY <3>1, Joined
    <3> QED
      BY <3>2 DEF new
  <2>8. n <= Size - Len(Content)
    BY <2>4, <1>1, <1>r
  <2> QED
    BY <2>7, <2>8, <1>r, <1>2 DEF QueueStep, Fifo!FifoNext, Fifo!Put, Fifo!Room
<1> QED
  BY <1>5, <1>6

\* Only the read counter moves, over bytes that are there.
LEMMA ConsumedQueue ==
    ASSUME RingInv, Data, NEW n \in 0 .. Used, out' = (out + n) % Modulus,
           UNCHANGED <<in, pool>>
    PROVE  /\ UnreadAreBytes'
           /\ Content \in Seq(Byte) /\ Len(Content) = Used /\ n \in 0 .. Len(Content)
           /\ \A i \in 1 .. Used : Content[i] = pool[(out + i - 1) % Size]
           /\ Content' = SubSeq(Content, n + 1, Len(Content))
<1>1. Used' = Used - n
  BY MoveOut
<1>2. Content = Queue(pool, out, Used) /\ Content' = Queue(pool, out', Used - n)
  BY <1>1, DataFacts
<1>3. Holds(pool, out, Used)
  BY DataFacts DEF Data
<1>4. /\ Content \in Seq(Byte) /\ Len(Content) = Used
      /\ \A i \in 1 .. Used : Content[i] = pool[(out + i - 1) % Size]
  BY <1>2, <1>3, RingFacts, QueueShape
<1>5. /\ Holds(pool, (out + n) % Modulus, Used - n)
      /\ Queue(pool, (out + n) % Modulus, Used - n)
           = SubSeq(Queue(pool, out, Used), n + 1, Len(Queue(pool, out, Used)))
  BY <1>3, RingFacts, QueueShortened
<1>6. UnreadAreBytes'
  BY <1>1, <1>5, DataFacts
<1> QED
  BY <1>2, <1>4, <1>5, <1>6

\* A drop, or a reset of the reader.
LEMMA ConsumeStep ==
    ASSUME RingInv, Data, NEW n \in 0 .. Used, out' = (out + n) % Modulus,
           UNCHANGED <<in, pool, wpc, wdata, wsize, wdone, rpc, rsize, rbuf, got>>, rpc = "idle"
    PROVE  Data' /\ QueueStep
<1>1. /\ UnreadAreBytes' /\ n \in 0 .. Len(Content)
      /\ Content' = SubSeq(Content, n + 1, Len(Content))
  BY ConsumedQueue
<1>2. StoredInPlace' /\ IdleIsClean'
  BY DEF Data, StoredInPlace, IdleIsClean
<1>3. CopiedOldest'
  BY DEF Data, CopiedOldest, IdleIsClean
<1>4. QueueStep
  BY <1>1 DEF QueueStep, Fifo!FifoNext, Fifo!Discard, Fifo!Without
<1> QED
  BY <1>1, <1>2, <1>3, <1>4 DEF Data

\* A read hands out the oldest bytes and takes them off, a peek leaves them.
LEMMA PublishOutStep ==
    ASSUME RingInv, Data, PublishOut
    PROVE  Data' /\ QueueStep
<1> DEFINE n == IF rpc = "read" THEN rsize ELSE 0
<1>1. rpc # "idle" /\ Len(rbuf) = rsize /\ rsize \in 0 .. Used
  <2>1. rpc # "idle" /\ Len(rbuf) = rsize
    BY DEF PublishOut
  <2> QED
    BY <2>1, RingFacts
<1>2. /\ got' = rbuf /\ rpc' = "idle" /\ rbuf' = <<>> /\ rsize' = 0
      /\ UNCHANGED <<in, pool, wpc, wdata, wsize, wdone>>
  BY DEF PublishOut, writerVars
<1>3. n \in 0 .. Used /\ out' = (out + n) % Modulus
  <2>1. (out + 0) % Modulus = out
    <3>1. out \in 0 .. Modulus - 1 /\ 0 \in 0 .. Modulus /\ Modulus \in Nat /\ Modulus > 0
      BY RingFacts, Widths
    <3> QED
      BY <3>1, AddWrap
  <2> QED
    BY <1>1, <2>1, RingFacts DEF PublishOut
<1>4. /\ UnreadAreBytes'
      /\ Content \in Seq(Byte) /\ Len(Content) = Used
      /\ \A i \in 1 .. Used : Content[i] = pool[(out + i - 1) % Size]
      /\ Content' = SubSeq(Content, n + 1, Len(Content))
  <2> HIDE DEF n
  <2> QED
    BY <1>2, <1>3, ConsumedQueue
<1>5. StoredInPlace' /\ IdleIsClean'
  BY <1>2 DEF Data, StoredInPlace, IdleIsClean
<1>6. CopiedOldest'
  BY <1>2 DEF CopiedOldest
<1>7. rbuf = SubSeq(Content, 1, rsize)
  <2>1. \A i \in 1 .. rsize : rbuf[i] = Content[i]
    <3>1. \A i \in 1 .. rsize : rbuf[i] = pool[(out + i - 1) % Size] /\ i \in 1 .. Used
      <4>1. Used \in Nat /\ rsize \in Nat
        BY RingFacts
      <4> QED
        BY <1>1, <4>1 DEF Data, CopiedOldest
    <3> QED
      BY <3>1, <1>4
  <2>2. rsize \in 0 .. Len(Content) /\ rbuf \in Seq(Byte \cup {Junk})
    BY <1>1, <1>4, RingFacts
  <2> QED
    BY <1>1, <1>4, <2>1, <2>2, Beginning
<1>8. rsize \in 0 .. Len(Content)
  BY <1>1, <1>4
<1>9. QueueStep
  <2>1. CASE rpc = "read"
    BY <1>2, <1>4, <1>7, <1>8, <2>1
       DEF QueueStep, Fifo!FifoNext, Fifo!Take, Fifo!Without, Fifo!Oldest
  <2>2. CASE rpc # "read"
    <3>1. out' = out
      BY <2>2 DEF PublishOut
    <3>2. Content' = Content
      BY <3>1, <1>2 DEF Content, Used
    <3> QED
      BY <1>2, <1>7, <1>8, <3>2 DEF QueueStep, Fifo!FifoNext, Fifo!PeekAt, Fifo!Oldest
  <2> QED
    BY <2>1, <2>2
<1> QED
  BY <1>4, <1>5, <1>6, <1>9 DEF Data

\* A step over nothing but idle calls that empties the ring.
LEMMA EmptyStep ==
    ASSUME RingInv, Data, Reset
    PROVE  Data' /\ QueueStep
<1>1. /\ in' = 0 /\ out' = 0 /\ wpc = "idle" /\ rpc = "idle"
      /\ UNCHANGED <<pool, wpc, wdata, wsize, wdone, rpc, rsize, rbuf, got>>
  BY DEF Reset, Locked, writerVars, readerVars
<1>2. Used' = 0
  <2>1. (0 - 0) % Modulus = 0
    BY Widths, SubWrap
  <2> QED
    BY <2>1, <1>1 DEF Used
<1>3. UnreadAreBytes' /\ IdleIsClean'
  BY <1>1, <1>2 DEF UnreadAreBytes, Data, IdleIsClean
<1>4. StoredInPlace' /\ CopiedOldest'
  BY <1>1 DEF StoredInPlace, CopiedOldest, Data, IdleIsClean
<1>5. Content \in Seq(Byte) /\ Len(Content) = Used
  <2>1. Holds(pool, out, Used) /\ Content = Queue(pool, out, Used)
    BY DataFacts DEF Data
  <2> QED
    BY <2>1, RingFacts, QueueShape
<1>6. Content' \in Seq(Byte) /\ Len(Content') = 0
  <2>1. Holds(pool', out', 0) /\ Content' = Queue(pool', out', 0) /\ out' \in Nat
    BY <1>1, <1>2, <1>3, DataFacts
  <2> QED
    BY <2>1, QueueShape
<1>7. Content' = SubSeq(Content, Len(Content) + 1, Len(Content))
  <2>1. Len(Content) \in 0 .. Len(Content) /\ Len(Content') = Len(Content) - Len(Content)
    BY <1>5, <1>6, RingFacts
  <2> QED
    BY <1>5, <1>6, <2>1, Shortened
<1>8. QueueStep
  <2>1. Len(Content) \in 0 .. Len(Content)
    BY <1>5, RingFacts
  <2> QED
    BY <2>1, <1>1, <1>7 DEF QueueStep, Fifo!FifoNext, Fifo!Discard, Fifo!Without
<1> QED
  BY <1>3, <1>4, <1>8 DEF Data

\* An overwrite starts by discarding just the bytes its own lack room for.
LEMMA OverwriteStep ==
    ASSUME RingInv, Data, NEW data \in Runs(Size + 1), Overwrite(data)
    PROVE  Data' /\ QueueStep
<1> DEFINE n == Least(Len(data), Size)
           m == IF n > Free THEN n - Free ELSE 0
<1>1. data \in Seq(Byte) /\ Len(data) \in Nat /\ data # <<>> /\ n \in 1 .. Size
  BY Widths DEF Runs, Least
<1>2. /\ m \in 0 .. Used /\ Used \in Nat /\ Free = Size - Used
      /\ out \in 0 .. Modulus - 1
  <2>1. Used \in Nat /\ Used <= Size /\ Free = Size - Used /\ out \in 0 .. Modulus - 1
    BY RingFacts, Widths
  <2> HIDE DEF n
  <2> QED
    BY <1>1, <2>1, Widths
<1>3. out' = (out + m) % Modulus
  <2>1. (out + 0) % Modulus = out
    <3>1. 0 \in 0 .. Modulus /\ Modulus \in Nat /\ Modulus > 0
      BY Widths
    <3> QED
      BY <3>1, <1>2, AddWrap
  <2> QED
    BY <2>1 DEF Overwrite
<1>4. rpc = "idle" /\ StartCopy(data, n, "overwrite")
  BY DEF Overwrite, Locked
<1>5. /\ UNCHANGED <<in, pool, rpc, rsize, rbuf, got>>
      /\ wdata = <<>> /\ wdata' = data
      /\ StoredInPlace' /\ IdleIsClean'
  BY <1>4, StartCopyMakes
<1>6. /\ UnreadAreBytes'
      /\ Content \in Seq(Byte) /\ Len(Content) = Used
      /\ Content' = SubSeq(Content, m + 1, Len(Content))
  <2> HIDE DEF m
  <2> QED
    BY <1>2, <1>3, <1>5, ConsumedQueue
<1>7. CopiedOldest'
  BY <1>4, <1>5 DEF Data, IdleIsClean, CopiedOldest
<1>8. QueueStep
  <2>1. Fifo!HandIn
    BY <1>1, <1>5 DEF Fifo!HandIn
  <2>2. CASE n > Free
    <3> DEFINE size == IF Len(wdata') < Size THEN Len(wdata') ELSE Size
    <3>1. size = n /\ Size - Len(Content) = Free /\ m = n - Free
      BY <2>2, <1>1, <1>2, <1>5, <1>6, Widths DEF Least
    <3> HIDE DEF m, n
    <3>2. Fifo!Displace
      BY <2>1, <2>2, <3>1, <1>6 DEF Fifo!Displace, Fifo!Room, Fifo!Without
    <3> QED
      BY <3>2 DEF QueueStep, Fifo!FifoNext
  <2>3. CASE ~(n > Free)
    <3>1. out' = out
      BY <2>3 DEF Overwrite
    <3>2. Content' = Content
      BY <3>1, <1>5 DEF Content, Used
    <3> QED
      BY <2>1, <3>2 DEF QueueStep, Fifo!FifoNext, Fifo!Call
  <2> QED
    BY <2>2, <2>3
<1> QED
  BY <1>5, <1>6, <1>7, <1>8 DEF Data

\* Every step of the ring keeps Data and is a step of the queue.
LEMMA ContentStep ==
    ASSUME RingInv, RingInv', Data, [Next]_vars
    PROVE  Data' /\ QueueStep
<1>1. ASSUME NEW data \in Runs(MaxReq), Write(data) \/ LinearWriteSetup(data)
      PROVE  Data' /\ QueueStep
  <2>1. data \in Seq(Byte) /\ data # <<>>
    BY DataAssumption DEF Runs
  <2> QED
    BY <1>1, <2>1, StartCopyStep DEF Write, LinearWriteSetup
<1>2. ASSUME NEW b \in Byte, WriteByte(b)
      PROVE  Data' /\ QueueStep
  <2>1. <<b>> \in Seq(Byte) /\ <<b>> # <<>>
    OBVIOUS
  <2> QED
    BY <1>2, <2>1, StartCopyStep DEF WriteByte
<1>3. CASE CopyIn
  BY <1>3, CopyInStep
<1>4. CASE PublishIn
  BY <1>4, PublishInStep
<1>5. ASSUME NEW size, Read(size) \/ Peek(size) \/ LinearRead(size)
      PROVE  Data' /\ QueueStep
  BY <1>5, StartReadStep DEF Read, Peek, LinearRead
<1>6. CASE ReadByte \/ PeekByte
  BY <1>6, StartReadStep DEF ReadByte, PeekByte
<1>7. ASSUME NEW size \in 1 .. MaxReq, Drop(size)
      PROVE  Data' /\ QueueStep
  <2>1. Least(size, Used) \in 0 .. Used
    BY RingFacts, DataAssumption DEF Least
  <2>2. /\ out' = (out + Least(size, Used)) % Modulus /\ rpc = "idle"
        /\ UNCHANGED <<in, pool, wpc, wdata, wsize, wdone, rpc, rsize, rbuf, got>>
    BY <1>7 DEF Drop, ReaderMayEnter, writerVars, readerVars
  <2> QED
    BY <2>1, <2>2, ConsumeStep
<1>8. CASE CopyOut
  BY <1>8, CopyOutStep
<1>9. CASE PublishOut
  BY <1>9, PublishOutStep
<1>10. CASE ResetRead
  <2>1. Used \in 0 .. Used /\ (out + Used) % Modulus = in
    <3>1. Used = IF out <= in THEN in - out ELSE in - out + Modulus
      <4>1. /\ in \in 0 .. Modulus - 1 /\ out \in 0 .. Modulus - 1
            /\ Modulus \in Nat /\ Modulus > 0
        BY RingFacts, Widths
      <4> QED
        BY <4>1, SubWrap DEF Used
    <3>2. /\ Used \in 0 .. Modulus /\ Used \in Nat
          /\ in \in 0 .. Modulus - 1 /\ out \in 0 .. Modulus - 1
      BY RingFacts, Widths
    <3>3. (out + Used) % Modulus
            = IF out + Used < Modulus THEN out + Used ELSE out + Used - Modulus
      BY <3>2, Widths, AddWrap
    <3> QED
      BY <3>1, <3>2, <3>3, Widths
  <2>2. /\ out' = (out + Used) % Modulus /\ rpc = "idle"
        /\ UNCHANGED <<in, pool, wpc, wdata, wsize, wdone, rpc, rsize, rbuf, got>>
    BY <1>10, <2>1 DEF ResetRead, ReaderMayEnter, writerVars, readerVars
  <2> QED
    BY <2>1, <2>2, ConsumeStep
<1>11. CASE Reset
  BY <1>11, EmptyStep
<1>12. ASSUME NEW data \in Runs(Size + 1), Overwrite(data)
       PROVE  Data' /\ QueueStep
  BY <1>12, OverwriteStep
<1>13. CASE UNCHANGED vars
  <2>1. UNCHANGED <<in, out, pool, got>> /\ UNCHANGED <<wpc, wdata, wsize, wdone, rpc, rsize, rbuf>>
    BY <1>13 DEF vars, writerVars, readerVars
  <2>2. UnreadAreBytes' /\ QueueStep
    BY <2>1, Quiet
  <2>3. StoredInPlace' /\ CopiedOldest' /\ IdleIsClean'
    BY <2>1 DEF Data, StoredInPlace, CopiedOldest, IdleIsClean
  <2> QED
    BY <2>2, <2>3 DEF Data
<1> QED
  BY <1>1, <1>2, <1>3, <1>4, <1>5, <1>6, <1>7, <1>8, <1>9, <1>10, <1>11, <1>12, <1>13
     DEF Next, WriterNext, ReaderNext, LockedNext

\* An empty ring is an empty queue.
LEMMA ContentInit == Init => (Data /\ Fifo!FifoInit)
<1> SUFFICES ASSUME Init PROVE Data /\ Fifo!FifoInit
  OBVIOUS
<1>1. Used = 0
  BY Widths, SubWrap DEF Init, Used
<1>2. Data
  BY <1>1 DEF Init, Data, UnreadAreBytes, StoredInPlace, CopiedOldest, IdleIsClean
<1>3. Content \in Seq(Byte) /\ Len(Content) = 0
  <2>1. Holds(pool, 0, 0) /\ Content = Queue(pool, 0, 0)
    BY <1>1, <1>2, DataFacts DEF Data, Init
  <2> QED
    BY <2>1, QueueShape
<1>4. Content = <<>>
  BY <1>3
<1> QED
  BY <1>2, <1>4 DEF Init, Fifo!FifoInit

\* For every ring size, counter width and alphabet, and whatever the order in
\* which the two sides copy their bytes, the lock-free ring is a bounded
\* first-in first-out queue of the bytes its writers were handed: none is
\* lost once stored, none invented, repeated or reordered.
THEOREM RingRefines == Spec => RefinesFifo
<1>1. ASSUME RingInv, RingInv', Data, [Next]_vars
      PROVE  Data' /\ [Fifo!FifoNext]_(Fifo!fifoVars)
  BY <1>1, ContentStep DEF QueueStep, Fifo!fifoVars
<1> QED
  BY <1>1, RingInit, RingStep, ContentInit, PTL DEF Spec, RefinesFifo, Fifo!FifoSpec
=============================================================================
