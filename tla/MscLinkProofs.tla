--------------------------- MODULE MscLinkProofs ---------------------------
(***************************************************************************)
(* Proofs about MscLink for every size of the medium and of the buffer,    *)
(* every set of builds, of calls and of faults without "busy": a reset     *)
(* while the medium is accessed really gives the device two places at once *)
(* (the worker ends after the endpoint was armed again).                   *)
(*                                                                         *)
(* OneToken is not inductive: configuring arms the OUT endpoint whatever   *)
(* is armed already, so nothing is before it (Deconfigured).  TypeOK needs *)
(* the two bounds of the data: what goes out was put in the buffer         *)
(* (WholeBlocks), which nobody else fills meanwhile by OneToken, and no    *)
(* URB has more left than its call (LeftOfCall).                           *)
(*                                                                         *)
(* InStep and NothingFails hold where no timeout comes before the device   *)
(* is at rest and no length wraps (Patient).  PaceInv says which place of  *)
(* the device belongs to which phase of the host, with as much left on     *)
(* both sides, while no endpoint is halted (Together) and while one is     *)
(* (Apart).                                                                *)
(*                                                                         *)
(* Storage adds what the blocks hold (StoreInv): a write has left all its  *)
(* blocks before the chunk under way (Writing), a read has got them        *)
(* (Reading), and a call whose status is on its way has done all of it     *)
(* (Done).  No address may wrap either (NoAddressWraps).                   *)
(***************************************************************************)
EXTENDS MscLink, SequenceTheorems, TLAPS

\* At most one of four.
One(a, b, c, f) == /\ a => ~b /\ ~c /\ ~f
                   /\ b => ~c /\ ~f
                   /\ c => ~f

\* The device e has no transfer armed and no message for the worker.
Silent(e) == e.out.buf = "none" /\ e.in.buf = "none" /\ e.event = "none"

\* The device e is at one place at most.
Single(e) == One(e.out.buf # "none", e.in.buf # "none", e.event # "none", FALSE)

\* What e sends out is in its buffer.
WholeBlocks(e) == e.in.buf = "block" => e.in.len \div BlkSize <= Len(e.block_buffer)

Deconfigured == ~d.configured => Silent(d) /\ worker.event = "none"
LeftOf(g) == g.phase = "data" => g.left <= g.cmd.len
LeftOfCall == LeftOf(h)

MscInv ==
    /\ TypeOK /\ OneToken /\ Deconfigured
    /\ WholeBlocks(d) /\ LeftOfCall

\* What an operation of a silent device makes of it.
Fine(e, f) == f \in Dev /\ Single(f) /\ WholeBlocks(f) /\ f.configured = e.configured

-----------------------------------------------------------------------------
(* Arithmetic of the lengths.                                              *)

LEMMA Sizes == /\ BlkSize \in Nat /\ BlkSize > 1 /\ BufSize \in Nat /\ BufSize > 0
               /\ InfoLen \in Nat /\ InfoLen > 0 /\ InfoLen <= BufSize
               /\ U32 \in Nat /\ U32 > BufSize /\ Blocks \in Nat
               /\ CbwLen = 1 /\ CswLen = 1
  BY MscAssumption DEF MscAssumption, CbwLen, CswLen

\* Arithmetic modulo 2^32 stays in 32 bits.
LEMMA Modulo == \A x \in Int : x % U32 \in Number
  BY Sizes DEF Number

\* Whole blocks in a length.
LEMMA Division == \A x \in Nat : x \div BlkSize \in Nat
  BY Sizes

\* More length, more blocks.
LEMMA DivisionGrows ==
    ASSUME NEW x \in Nat, NEW y \in Nat, x <= y
    PROVE  x \div BlkSize <= y \div BlkSize
  BY Sizes

LEMMA LowRange ==
    ASSUME NEW x \in Nat, NEW y \in Nat
    PROVE  Low(x, y) \in Nat /\ Low(x, y) <= x /\ Low(x, y) <= y
  BY DEF Low

-----------------------------------------------------------------------------
(* What the functions of the device make of it.                            *)

\* What the host makes of a call of its user.
LEMMA CbwParts ==
    ASSUME NEW c \in Cbws
    PROVE  /\ c.op \in {"read", "write", "other"} /\ (c.in <=> c.op # "write") /\ c.in \in BOOLEAN
           /\ c.lba \in Number /\ c.n \in Number /\ c.ver \in Nat
           /\ c.len = (c.n * BlkSize) % U32 /\ c.len \in Number
           /\ CallsFit => c.asked = c.n
<1>1. PICK a \in UserCalls : c = Cbw(a)
  BY DEF Cbws
<1> DEFINE k == a.n % U16
           l == (BlkSize * k) % U32
<1>2. /\ a.op \in {"read", "write", "other"} /\ a.lba \in Number /\ a.n \in Number /\ a.ver \in Nat
      /\ U16 \in 1 .. U32
  BY LinkAssumption DEF LinkAssumption, Number
<1>3. k \in Number /\ (CallsFit => k = a.n)
  <2>1. a.n \in Nat /\ U16 \in Nat \ {0} /\ U16 <= U32 /\ U32 \in Nat
    BY <1>2, Sizes DEF Number
  <2>2. k \in 0 .. U16 - 1 /\ (a.n < U16 => k = a.n)
    BY <2>1
  <2> QED
    BY <2>1, <2>2 DEF Number, CallsFit
<1>4. l = (k * BlkSize) % U32 /\ l \in Number
  <2>1. BlkSize * k = k * BlkSize /\ k * BlkSize \in Int
    BY <1>3, Sizes DEF Number
  <2> QED
    BY <2>1, Modulo
<1>5. /\ c.op = a.op /\ c.lba = a.lba /\ c.n = k /\ c.len = l
      /\ c.asked = a.n /\ c.ver = a.ver
  BY <1>1 DEF Cbw
<1>6. c.in = (a.op # "write")
  BY <1>1, Zenon DEF Cbw
<1> HIDE DEF k, l
<1>7. (c.in <=> c.op # "write") /\ c.in \in BOOLEAN
  BY <1>5, <1>6
<1> QED
  BY <1>2, <1>3, <1>4, <1>5, <1>7

\* Whatever the host sends as a command is a command.
LEMMA CommandParts ==
    ASSUME NEW c \in Command
    PROVE  /\ c.lba \in Number /\ c.n \in Number /\ c.len \in Number
           /\ c.in \in BOOLEAN /\ c.ver \in Nat
           /\ c.op \in {"none", "info", "read", "write", "other"}
<1>1. CASE c \in Cbws
  BY <1>1, CbwParts
<1>2. CASE c \in {NoCommand, NoData, Info}
  <2>1. 0 \in Number /\ InfoLen \in Number
    BY Sizes DEF Number
  <2>2. CASE c = NoCommand
    <3>1. c.in = FALSE
      BY <2>2, Zenon DEF NoCommand
    <3> QED
      BY <2>1, <2>2, <3>1 DEF NoCommand
  <2>3. CASE c = NoData
    <3>1. c.in = FALSE
      BY <2>3, Zenon DEF NoData
    <3> QED
      BY <2>1, <2>3, <3>1 DEF NoData
  <2>4. CASE c = Info
    <3>1. c.in = TRUE
      BY <2>4, Zenon DEF Info
    <3> QED
      BY <2>1, <2>4, <3>1 DEF Info
  <2> QED
    BY <1>2, <2>2, <2>3, <2>4
<1> QED
  BY <1>1, <1>2 DEF Command

\* usbd_ep_start_read on a silent device.
LEMMA ReadArmedFine ==
    ASSUME NEW e \in Dev, Silent(e), NEW buf \in {"cbw", "block"}, NEW n \in 0 .. BufSize
    PROVE  Fine(e, ReadArmed(e, buf, n))
  BY DEF Fine, Dev, Silent, Single, One, WholeBlocks, ReadArmed

\* usbd_ep_start_write of something that is not in block_buffer.
LEMMA WriteArmedFine ==
    ASSUME NEW e \in Dev, Silent(e), NEW buf \in {"info", "csw"}, NEW n \in 0 .. BufSize
    PROVE  Fine(e, WriteArmed(e, buf, n))
  BY DEF Fine, Dev, Silent, Single, One, WholeBlocks, WriteArmed

\* usbd_msc_send_csw arms the IN endpoint, and nothing else.
LEMMA SendCswFine ==
    ASSUME NEW e \in Dev, Silent(e), NEW s \in {"passed", "failed"}
    PROVE  Fine(e, SendCsw(e, s))
<1> DEFINE f == WriteArmed(e, "csw", CswLen)
<1>1. Fine(e, f)
  BY WriteArmedFine, Sizes
<1>2. SendCsw(e, s) = [f EXCEPT !.stage = "WAIT_CSW", !.status = s]
  BY DEF SendCsw
<1> HIDE DEF f
<1> QED
  BY <1>1, <1>2, ZenonT(30) DEF Fine, Dev, Single, One, WholeBlocks

\* usbd_msc_bot_abort arms the OUT endpoint for a command.
LEMMA BotAbortFine ==
    ASSUME NEW e \in Dev, Silent(e)
    PROVE  Fine(e, BotAbort(e))
<1>1. Fine(e, ReadArmed(e, "cbw", CbwLen))
  BY ReadArmedFine, Sizes
<1> QED
  BY <1>1 DEF Fine, Dev, Single, One, WholeBlocks, ReadArmed, BotAbort

\* usbd_msc_send_info sends no more than the buffer holds.
LEMMA SendInfoFine ==
    ASSUME NEW e \in Dev, Silent(e)
    PROVE  Fine(e, SendInfo(e, InfoLen))
<1> DEFINE n == Low(InfoLen, e.cbw.len)
<1>1. e.cbw \in Command /\ e.cbw.len \in Nat
  BY CommandParts DEF Dev, Number
<1>2. n \in 0 .. BufSize
  BY <1>1, Sizes DEF Low
<1>3. (e.residue - n) % U32 \in Number
  <2>1. e.residue - n \in Int
    BY <1>2 DEF Dev, Number
  <2> QED
    BY <2>1, Modulo
<1> DEFINE f == WriteArmed(e, "info", n)
<1>4. Fine(e, f) /\ f.residue = e.residue
  <2>1. Fine(e, f)
    BY <1>2, WriteArmedFine
  <2>2. f.residue = e.residue
    BY DEF WriteArmed, Dev
  <2> QED
    BY <2>1, <2>2
<1> DEFINE r == (f.residue - n) % U32
<1>5. SendInfo(e, InfoLen) = [f EXCEPT !.stage = "SEND_CSW", !.residue = r, !.status = "passed"]
  BY DEF SendInfo
<1>6. r \in Number
  BY <1>3, <1>4
<1> HIDE DEF n, f, r
<1> QED
  BY <1>4, <1>5, <1>6, ZenonT(30) DEF Fine, Dev, Single, One, WholeBlocks

\* A message put in an empty queue is the only one.
LEMMA PostFine ==
    ASSUME NEW e \in Dev, Silent(e), NEW v \in {"DATA_IN", "DATA_OUT"}
    PROVE  Fine(e, Post(e, v))
  BY DEF Fine, Dev, Silent, Single, One, WholeBlocks, Post

\* A chunk fits the buffer.
LEMMA TransferLenRange ==
    ASSUME NEW e \in Dev
    PROVE  TransferLen(e) \in 0 .. BufSize
<1>1. e.nsectors * BlkSize \in Int
  BY Sizes DEF Dev, Number
<1>2. (e.nsectors * BlkSize) % U32 \in Nat
  BY <1>1, Modulo DEF Number
<1> QED
  BY <1>2, Sizes DEF TransferLen, Low

\* Counting what was transferred arms nothing.
LEMMA CountedFine ==
    ASSUME NEW e \in Dev, Silent(e), NEW n \in 0 .. BufSize
    PROVE  Counted(e, n) \in Dev /\ Silent(Counted(e, n)) /\ Counted(e, n).configured = e.configured
<1>1. n \div BlkSize \in Nat
  BY Division
<1>2. /\ (e.start_sector + n \div BlkSize) % U32 \in Number
      /\ (e.nsectors - n \div BlkSize) % U32 \in Number
      /\ (e.residue - n) % U32 \in Number
  <2>1. /\ e.start_sector + n \div BlkSize \in Int
        /\ e.nsectors - n \div BlkSize \in Int
        /\ e.residue - n \in Int
    BY <1>1 DEF Dev, Number
  <2> QED
    BY <2>1, Modulo
<1> QED
  BY <1>2 DEF Counted, Dev, Silent

\* The blocks that are read fill the transfer.
LEMMA ReadDoneFine ==
    ASSUME NEW e \in Dev, Silent(e), NEW n \in 0 .. BufSize,
           NEW data \in Seq(Nat \X Nat), Len(data) = n \div BlkSize
    PROVE  Fine(e, ReadDone(e, n, data))
<1> DEFINE f == Counted(e, n)
           g == [f EXCEPT !.stage = IF f.nsectors = 0 THEN "SEND_CSW" ELSE @,
                          !.block_buffer = data]
<1>1. f \in Dev /\ Silent(f) /\ f.configured = e.configured
  BY CountedFine
<1>2. /\ g \in Dev /\ Silent(g) /\ g.configured = e.configured /\ g.block_buffer = data
  <2> HIDE DEF f
  <2> QED
    BY <1>1 DEF Dev, Silent
<1>3. ReadDone(e, n, data) = WriteArmed(g, "block", n)
  BY DEF ReadDone
<1>4. Fine(g, WriteArmed(g, "block", n))
  <2> HIDE DEF g
  <2> QED
    <3>1. DOMAIN g.in = {"buf", "len"}
      BY <1>2 DEF Dev
    <3>2. WriteArmed(g, "block", n) \in Dev
      BY <1>2 DEF Dev, WriteArmed
    <3>3. LET k == WriteArmed(g, "block", n)
          IN  /\ k.in.len = n /\ k.block_buffer = data /\ k.configured = g.configured
              /\ k.out = g.out /\ k.event = g.event
      BY <1>2 DEF Dev, WriteArmed
    <3> QED
      BY <1>2, <3>2, <3>3 DEF Fine, Silent, Single, One, WholeBlocks
<1> HIDE DEF f, g
<1> QED
  BY <1>2, <1>3, <1>4 DEF Fine

\* After an access that wrote, the next chunk is asked for or the answer
\* goes out: not both.
LEMMA WriteDoneFine ==
    ASSUME NEW e \in Dev, Silent(e), NEW n \in 0 .. BufSize
    PROVE  Fine(e, WriteDone(e, n))
<1> DEFINE f == Counted(e, n)
<1>1. f \in Dev /\ Silent(f) /\ f.configured = e.configured
  BY CountedFine
<1>2. WriteDone(e, n) = IF f.nsectors = 0 THEN SendCsw(f, "passed")
                                          ELSE ReadArmed(f, "block", TransferLen(f))
  BY DEF WriteDone
<1> HIDE DEF f
<1>3. Fine(f, SendCsw(f, "passed")) /\ Fine(f, ReadArmed(f, "block", TransferLen(f)))
  BY <1>1, SendCswFine, ReadArmedFine, TransferLenRange
<1> QED
  BY <1>1, <1>2, <1>3 DEF Fine

\* What the medium gives.
LEMMA StoredFine ==
    ASSUME TypeOK, NEW a \in Nat, NEW n \in Nat
    PROVE  Stored(a, n) \in Seq(Nat \X Nat) /\ Len(Stored(a, n)) = n \div BlkSize
<1>1. n \div BlkSize \in Nat
  BY Division
<1>2. \A i \in 1 .. n \div BlkSize :
        (IF a + i - 1 \in DOMAIN disk THEN disk[a + i - 1] ELSE Junk) \in Nat \X Nat
  BY DEF TypeOK, Junk
<1> QED
  BY <1>1, <1>2 DEF Stored

\* What the medium takes.
LEMMA WrittenFine ==
    ASSUME TypeOK, NEW a \in Nat, NEW n \in Nat, NEW data \in Seq(Nat \X Nat)
    PROVE  Written(a, n, data) \in [0 .. Blocks - 1 -> Nat \X Nat]
<1>1. \A i \in DOMAIN data : data[i] \in Nat \X Nat
  OBVIOUS
<1> QED
  BY <1>1 DEF Written, TypeOK, Junk

\* Reading the next chunk from the medium.
LEMMA ReadNextFine ==
    ASSUME TypeOK, NEW e \in Dev, Silent(e), NEW a \in Nat
    PROVE  Fine(e, ReadDone(e, TransferLen(e), Stored(a, TransferLen(e))))
<1>1. TransferLen(e) \in 0 .. BufSize
  BY TransferLenRange
<1> DEFINE n == TransferLen(e)
<1> HIDE DEF n
<1>2. n \in 0 .. BufSize /\ n \in Nat
  BY <1>1, Sizes DEF n
<1>3. Stored(a, n) \in Seq(Nat \X Nat) /\ Len(Stored(a, n)) = n \div BlkSize
  BY <1>2, StoredFine
<1>4. Fine(e, ReadDone(e, n, Stored(a, n)))
  BY <1>2, <1>3, ReadDoneFine
<1> QED
  BY <1>4 DEF n

\* The addresses of a command are taken over, and nothing is armed.
LEMMA ParsedFine ==
    ASSUME NEW e \in Dev, Silent(e)
    PROVE  Parsed(e) \in Dev /\ Silent(Parsed(e)) /\ Parsed(e).configured = e.configured
           /\ Parsed(e).cbw = e.cbw
<1>1. e.cbw \in Command /\ e.cbw.lba \in Number /\ e.cbw.n \in Number
  BY CommandParts DEF Dev
<1> QED
  BY <1>1 DEF Parsed, Dev, Silent

\* Every operation on a device that differs in the stage is as good.
LEMMA StageFine ==
    ASSUME NEW e \in Dev, Silent(e),
           NEW s \in {"READ_CBW", "DATA_OUT", "DATA_IN", "SEND_CSW", "WAIT_CSW"}
    PROVE  /\ [e EXCEPT !.stage = s] \in Dev /\ Silent([e EXCEPT !.stage = s])
           /\ [e EXCEPT !.stage = s].configured = e.configured
           /\ [e EXCEPT !.stage = s].cbw = e.cbw
  BY DEF Dev, Silent

\* A command that is served puts the device at one place.
LEMMA DecodedFine ==
    ASSUME TypeOK, NEW e \in Dev, Silent(e), NEW ok \in BOOLEAN
    PROVE  Fine(e, Decoded(e, ok))
<1> DEFINE f == Parsed(e)
           g == [f EXCEPT !.stage = "DATA_IN"]
           k == [f EXCEPT !.stage = "DATA_OUT"]
<1>1. f \in Dev /\ Silent(f) /\ f.configured = e.configured /\ f.cbw = e.cbw
  BY ParsedFine
<1> HIDE DEF f
<1>2. /\ g \in Dev /\ Silent(g) /\ g.configured = e.configured
      /\ k \in Dev /\ Silent(k) /\ k.configured = e.configured
  BY <1>1, StageFine
<1>3. TransferLen(f) \in 0 .. BufSize
  BY <1>1, TransferLenRange
<1>4. e.cbw.lba \in Nat
  BY CommandParts DEF Dev, Number
<1>5. Decoded(e, ok) \in
        {SendCsw(e, "passed"), SendInfo(e, InfoLen), ReadArmed(k, "block", TransferLen(f)),
         Post(g, "DATA_IN"), ReadDone(g, TransferLen(g), Stored(e.cbw.lba, TransferLen(g))),
         BotAbort(g)}
  BY DEF Decoded, f
<1> HIDE DEF g, k
<1>6. /\ Fine(e, SendCsw(e, "passed")) /\ Fine(e, SendInfo(e, InfoLen))
      /\ Fine(k, ReadArmed(k, "block", TransferLen(f))) /\ Fine(g, Post(g, "DATA_IN"))
      /\ Fine(g, ReadDone(g, TransferLen(g), Stored(e.cbw.lba, TransferLen(g))))
      /\ Fine(g, BotAbort(g))
  BY <1>2, <1>3, <1>4, SendCswFine, SendInfoFine, ReadArmedFine, PostFine, ReadNextFine, BotAbortFine
<1> QED
  BY <1>2, <1>5, <1>6 DEF Fine

\* mass_storage_bulk_out, once the endpoint has given up its transfer.
LEMMA BulkOutFine ==
    ASSUME TypeOK, NEW e \in Dev, Silent(e), NEW n \in 0 .. BufSize, NEW ok \in BOOLEAN
    PROVE  Fine(e, BulkOut(e, n, ok))
<1> DEFINE f == IF n = CbwLen THEN [e EXCEPT !.residue = e.cbw.len] ELSE e
           a == IF n = CbwLen THEN Parsed(f) ELSE f
           b == [e EXCEPT !.nbytes = n]
<1>1. f \in Dev /\ Silent(f) /\ f.configured = e.configured
  <2>1. e.cbw.len \in Number
    BY CommandParts DEF Dev
  <2> QED
    BY <2>1 DEF Dev, Silent
<1>2. b \in Dev /\ Silent(b) /\ b.configured = e.configured
  BY DEF Dev, Silent
<1>3. BulkOut(e, n, ok) \in
        {Decoded(f, ok), BotAbort(a), Post(b, "DATA_OUT"), WriteDone(e, n), SendCsw(e, "failed"), e}
  BY DEF BulkOut
<1> HIDE DEF f
<1>4. a \in Dev /\ Silent(a) /\ a.configured = e.configured
  BY <1>1, ParsedFine
<1> HIDE DEF a, b
<1>5. /\ Fine(f, Decoded(f, ok)) /\ Fine(a, BotAbort(a)) /\ Fine(b, Post(b, "DATA_OUT"))
      /\ Fine(e, WriteDone(e, n)) /\ Fine(e, SendCsw(e, "failed"))
  BY <1>1, <1>2, <1>4, DecodedFine, BotAbortFine, PostFine, WriteDoneFine, SendCswFine
<1>6. Fine(e, e)
  BY DEF Fine, Silent, Single, One, WholeBlocks
<1> QED
  BY <1>1, <1>2, <1>3, <1>4, <1>5, <1>6 DEF Fine

\* mass_storage_bulk_in, once the endpoint has given up its transfer.
LEMMA BulkInFine ==
    ASSUME TypeOK, NEW e \in Dev, Silent(e), NEW ok \in BOOLEAN
    PROVE  Fine(e, BulkIn(e, ok))
<1> DEFINE f == [e EXCEPT !.stage = "READ_CBW"]
<1>1. f \in Dev /\ Silent(f) /\ f.configured = e.configured
  BY StageFine
<1>2. e.start_sector \in Nat /\ CbwLen \in 0 .. BufSize
  BY Sizes DEF Dev, Number
<1>3. BulkIn(e, ok) \in
        {Post(e, "DATA_IN"), ReadDone(e, TransferLen(e), Stored(e.start_sector, TransferLen(e))),
         SendCsw(e, "failed"), SendCsw(e, "passed"), ReadArmed(f, "cbw", CbwLen), e}
  BY DEF BulkIn
<1> HIDE DEF f
<1>4. /\ Fine(e, Post(e, "DATA_IN")) /\ Fine(f, ReadArmed(f, "cbw", CbwLen))
      /\ Fine(e, ReadDone(e, TransferLen(e), Stored(e.start_sector, TransferLen(e))))
      /\ Fine(e, SendCsw(e, "failed")) /\ Fine(e, SendCsw(e, "passed"))
  BY <1>1, <1>2, PostFine, ReadArmedFine, ReadNextFine, SendCswFine
<1>5. Fine(e, e)
  BY DEF Fine, Silent, Single, One, WholeBlocks
<1> QED
  BY <1>1, <1>3, <1>4, <1>5 DEF Fine

-----------------------------------------------------------------------------
(* What the host makes of its call.                                        *)

\* A call returns.
LEMMA ReturnedFine ==
    ASSUME NEW g \in Host, NEW r \in {"ok", "failed", "stall", "timeout", "shutdown"}
    PROVE  /\ Returned(g, r) \in Host /\ Returned(g, r).phase = "idle"
           /\ [Returned(g, r) EXCEPT !.prog = "gone"] \in Host
           /\ [Returned(g, r) EXCEPT !.prog = "gone"].phase = "idle"
<1> DEFINE q == AfterCall(g, r)
           t == IF g.prog = "sense" THEN g.tries + 1 ELSE g.tries
           m == IF r = "ok" THEN g.got ELSE <<>>
<1>1. q \in {"gone", "tur", "sense", "inquiry", "capacity", "ready", "failed"}
  BY DEF AfterCall, Host
<1>2. t \in Nat /\ m \in Seq(Nat \X Nat) /\ 0 \in Number
  BY Sizes DEF Host, Number
<1>3. Returned(g, r) = [g EXCEPT !.prog = q, !.phase = "idle", !.ret = r, !.left = 0,
                                 !.tries = t, !.got = m]
  BY DEF Returned, Host
<1> HIDE DEF q, t, m
<1> QED
  BY <1>1, <1>2, <1>3 DEF Host

\* The status is asked for.
LEMMA ToCswFine ==
    ASSUME NEW g \in Host
    PROVE  ToCsw(g) \in Host /\ LeftOf(ToCsw(g))
<1>1. CswLen \in Number
  BY Sizes DEF Number
<1> QED
  BY <1>1 DEF ToCsw, Host, LeftOf

\* The wrapper is out.
LEMMA AfterCbwFine ==
    ASSUME NEW g \in Host
    PROVE  AfterCbw(g) \in Host /\ LeftOf(AfterCbw(g))
<1> DEFINE k == [g EXCEPT !.phase = "data", !.left = g.cmd.len]
<1>1. g.cmd \in Command /\ g.cmd.len \in Number
  BY CommandParts DEF Host
<1>2. k \in Host /\ k.left = k.cmd.len
  BY <1>1 DEF Host
<1>3. k.cmd.len \in Nat
  BY <1>2, CommandParts DEF Host, Number
<1>4. LeftOf(k)
  BY <1>2, <1>3 DEF LeftOf
<1> HIDE DEF k
<1> QED
  BY <1>2, <1>4, ToCswFine DEF AfterCbw, k

\* Some of an URB is done.
LEMMA LessLeft ==
    ASSUME NEW g \in Host, LeftOf(g), NEW n \in Nat, n <= g.left
    PROVE  [g EXCEPT !.left = @ - n] \in Host /\ LeftOf([g EXCEPT !.left = @ - n])
<1> DEFINE left == g.left - n
           f == [g EXCEPT !.left = left]
<1>0. g.left \in 0 .. U32 - 1 /\ g.cmd \in Command
  BY DEF Host, Number
<1>1. left \in Number /\ left \in Nat /\ left <= g.left
  BY <1>0, Sizes DEF Number
<1>2. g.cmd.len \in Nat
  BY <1>0, CommandParts DEF Number
<1>3. g.phase = "data" => left <= g.cmd.len
  BY <1>0, <1>1, <1>2 DEF LeftOf
<1> HIDE DEF left
<1>4. f \in Host /\ f.left = left /\ f.cmd = g.cmd /\ f.phase = g.phase
  BY <1>1 DEF Host
<1>5. f = [g EXCEPT !.left = @ - n]
  BY DEF Host, left
<1> QED
  BY <1>3, <1>4, <1>5 DEF LeftOf

\* An OUT transfer.
LEMMA SentFine ==
    ASSUME NEW g \in Host, LeftOf(g), NEW n \in Nat, n <= g.left
    PROVE  Sent(g, n) \in Host /\ LeftOf(Sent(g, n))
<1> DEFINE f == [g EXCEPT !.left = @ - n]
<1>1. f \in Host /\ LeftOf(f)
  BY LessLeft
<1>2. Sent(g, n) \in {f, AfterCbw(f), ToCsw(f)}
  BY DEF Sent
<1> HIDE DEF f
<1> QED
  BY <1>1, <1>2, AfterCbwFine, ToCswFine

\* An IN transfer.
LEMMA ReceivedFine ==
    ASSUME TypeOK, WholeBlocks(d), NEW g \in Host, LeftOf(g),
           NEW n \in Nat, n <= g.left, n <= d.in.len
    PROVE  Received(g, d.in.buf, n) \in Host /\ LeftOf(Received(g, d.in.buf, n))
<1> DEFINE more == CASE g.cmd.op # "read" -> g.got
                     [] g.cmd.op = "read" /\ d.in.buf = "block" -> g.got \o SubSeq(d.block_buffer, 1, n \div BlkSize)
                     [] OTHER -> Append(g.got, Junk)
           f == [g EXCEPT !.left = @ - n, !.got = more]
<1>1. d.block_buffer \in Seq(Nat \X Nat) /\ d.in.len \in Nat /\ g.got \in Seq(Nat \X Nat)
  BY DEF TypeOK, Dev, Host
<1>2. more \in Seq(Nat \X Nat)
  <2>1. CASE g.cmd.op = "read" /\ d.in.buf = "block"
    <3>1. n \div BlkSize \in Nat /\ n \div BlkSize <= Len(d.block_buffer)
      <4>1. n \div BlkSize \in Nat /\ d.in.len \div BlkSize \in Nat /\ Len(d.block_buffer) \in Nat
        <5>1. n \div BlkSize \in Nat
          BY Division
        <5>2. d.in.len \div BlkSize \in Nat
          BY <1>1, Division
        <5>3. Len(d.block_buffer) \in Nat
          BY <1>1
        <5> QED
          BY <5>1, <5>2, <5>3
      <4>2. n \div BlkSize <= d.in.len \div BlkSize
        BY <1>1, DivisionGrows
      <4>3. d.in.len \div BlkSize <= Len(d.block_buffer)
        BY <2>1 DEF WholeBlocks
      <4> QED
        BY <4>1, <4>2, <4>3
    <3>2. SubSeq(d.block_buffer, 1, n \div BlkSize) \in Seq(Nat \X Nat)
      BY <1>1, <3>1
    <3> QED
      BY <1>1, <3>2, <2>1
  <2>2. CASE g.cmd.op = "read" /\ d.in.buf # "block"
    <3>1. Junk \in Nat \X Nat
      BY DEF Junk
    <3> QED
      BY <3>1, <2>2, <1>1
  <2>3. CASE g.cmd.op # "read"
    <3>1. more = g.got
      BY <2>3
    <3> QED
      BY <3>1, <1>1
  <2> QED
    BY <2>1, <2>2, <2>3
<1> HIDE DEF more
<1>3. f \in Host /\ LeftOf(f)
  <2>1. [g EXCEPT !.left = @ - n] \in Host /\ LeftOf([g EXCEPT !.left = @ - n])
    BY LessLeft
  <2>2. f = [[g EXCEPT !.left = @ - n] EXCEPT !.got = more]
    BY DEF Host
  <2> HIDE DEF f
  <2> QED
    BY <2>1, <2>2, <1>2 DEF Host, LeftOf
<1>4. Received(g, d.in.buf, n) \in {Returned(g, "ok"), Returned(g, "failed"), ToCsw(f), f}
                                     \cup {Returned(f, "ok"), Returned(f, "failed")}
  BY DEF Received, more
<1> HIDE DEF f
<1>5. \A k \in {g, f} : \A r \in {"ok", "failed"} : Returned(k, r) \in Host /\ LeftOf(Returned(k, r))
  BY <1>3, ReturnedFine DEF LeftOf
<1> QED
  BY <1>3, <1>4, <1>5, ToCswFine

-----------------------------------------------------------------------------
(* The invariant.                                                          *)

Working == [event : {"none", "DATA_IN", "DATA_OUT"}, lba : Number, len : 0 .. BufSize]
Medium == [0 .. Blocks - 1 -> Nat \X Nat]

\* OneToken counts; the proofs compare in pairs.
LEMMA TokenPairs ==
    OneToken <=> One(d.out.buf # "none", d.in.buf # "none", d.event # "none", worker.event # "none")
  BY DEF OneToken, Bit, One

\* The same after a step.
LEMMA TokenPairsNext ==
    OneToken' <=> One(d'.out.buf # "none", d'.in.buf # "none", d'.event # "none", worker'.event # "none")
  BY DEF OneToken, Bit, One

\* The invariant of the next state, from its parts.
LEMMA InvNext ==
    ASSUME mode' \in Modes, clean' \in BOOLEAN, d' \in Dev, h' \in Host, worker' \in Working,
           disk' \in Medium, WholeBlocks(d'), LeftOf(h'),
           One(d'.out.buf # "none", d'.in.buf # "none", d'.event # "none", worker'.event # "none"),
           ~d'.configured => Silent(d') /\ worker'.event = "none"
    PROVE  MscInv'
<1>1. TypeOK'
  BY Zenon DEF TypeOK, Working, Medium
<1>2. OneToken'
  BY TokenPairsNext
<1>3. Deconfigured' /\ WholeBlocks(d)' /\ LeftOfCall'
  BY DEF Deconfigured, LeftOfCall, WholeBlocks, Silent, LeftOf
<1> QED
  BY <1>1, <1>2, <1>3, Zenon DEF MscInv

\* What every action starts from.
LEMMA InvParts ==
    ASSUME MscInv
    PROVE  /\ mode \in Modes /\ clean \in BOOLEAN /\ d \in Dev /\ h \in Host
           /\ worker \in Working /\ disk \in Medium
           /\ WholeBlocks(d) /\ LeftOf(h)
           /\ One(d.out.buf # "none", d.in.buf # "none", d.event # "none", worker.event # "none")
           /\ ~d.configured => Silent(d) /\ worker.event = "none"
  BY TokenPairs DEF MscInv, TypeOK, Working, Medium, Deconfigured, LeftOfCall

\* A step of the host alone.
LEMMA HostStep ==
    ASSUME MscInv, h' \in Host, LeftOf(h'), clean' \in BOOLEAN, UNCHANGED mscVars
    PROVE  MscInv'
  BY InvParts, InvNext DEF mscVars, WholeBlocks, Silent

\* A step that leaves the medium and the worker to themselves.
LEMMA DeviceStep ==
    ASSUME MscInv, h' \in Host, LeftOf(h'), clean' \in BOOLEAN, d' \in Dev, disk' \in Medium,
           UNCHANGED <<mode, worker>>, WholeBlocks(d'), Single(d'),
           worker.event # "none" => Silent(d'),
           d'.configured \/ (Silent(d') /\ worker.event = "none")
    PROVE  MscInv'
<1>1. One(d'.out.buf # "none", d'.in.buf # "none", d'.event # "none", worker'.event # "none")
  BY DEF Single, Silent, One
<1> QED
  BY <1>1, InvParts, InvNext

\* Nothing is armed before the first configuration.
LEMMA InitHolds == Init => MscInv
<1> SUFFICES ASSUME Init PROVE MscInv
  OBVIOUS
<1>1. 0 \in Number /\ 0 \in 0 .. BufSize
  BY Sizes DEF Number
<1>2. NoCommand \in Command /\ NoData \in Command
  BY DEF Command
<1>3. <<>> \in Seq(Nat \X Nat) /\ \A s \in 0 .. Blocks - 1 : <<0, s + 1>> \in Nat \X Nat
  BY Sizes
<1>4. d \in Dev
  BY <1>1, <1>2, <1>3 DEF Init, MscInit, Dev, Unarmed
<1>5. h \in Host
  <2>1. PICK heals \in BOOLEAN :
          h = [prog |-> "gone", tries |-> 0, phase |-> "idle", cmd |-> NoData,
               left |-> 0, got |-> <<>>, ret |-> "none", heals |-> heals]
    BY Zenon DEF Init
  <2> QED
    BY <1>1, <1>2, <1>3, <2>1 DEF Host
<1>6. mode \in Modes /\ clean \in BOOLEAN /\ worker \in Working /\ disk \in Medium
  BY <1>1, <1>3 DEF Init, MscInit, Working, Medium, Resting
<1>7. /\ Silent(d) /\ worker.event = "none"
  BY DEF Init, MscInit, Silent, Resting, Unarmed
<1>8. WholeBlocks(d) /\ LeftOfCall /\ Deconfigured
  <2>1. h.phase = "idle"
    BY DEF Init
  <2> QED
    BY <1>7, <2>1 DEF WholeBlocks, LeftOfCall, LeftOf, Deconfigured, Silent
<1>9. OneToken
  BY <1>7, TokenPairs DEF One, Silent
<1> QED
  BY <1>4, <1>5, <1>6, <1>8, <1>9 DEF MscInv, TypeOK, Working, Medium

-----------------------------------------------------------------------------
(* Every action preserves it.                                              *)

LEMMA HostCallInv == MscInv /\ HostCall => MscInv'
<1> SUFFICES ASSUME MscInv, HostCall PROVE MscInv'
  OBVIOUS
<1>1. PICK c \in Calls :
        /\ h' = [h EXCEPT !.phase = "cbw", !.cmd = c, !.left = CbwLen, !.got = <<>>, !.ret = "none"]
        /\ clean' = (clean /\ Served(c))
  BY Zenon DEF HostCall
<1>2. c \in Command
  BY <1>1 DEF Calls, Command
<1>3. CbwLen \in Number /\ <<>> \in Seq(Nat \X Nat)
  BY Sizes DEF Number
<1>4. h' \in Host /\ LeftOf(h')
  BY <1>1, <1>2, <1>3, InvParts DEF Host, LeftOf
<1>5. clean' \in BOOLEAN
  <2>1. Served(c) \in BOOLEAN
    BY Zenon DEF Served
  <2> QED
    BY <1>1, <2>1, InvParts
<1>6. UNCHANGED mscVars
  BY DEF HostCall
<1> QED
  BY <1>4, <1>5, <1>6, HostStep

\* What the wire leaves in the armed buffer is of the buffer's kind.
LEMMA FilledFine ==
    ASSUME MscInv, NEW n \in Nat, n <= h.left, Sending, d.out.buf # "none"
    PROVE  LET e == [Filled(d, n) EXCEPT !.out = Unarmed]
           IN  e \in Dev /\ Silent(e) /\ e.configured = d.configured
<1>1. Payload(n) \in Seq(Nat \X Nat) \/ h.phase # "data"
  <2> SUFFICES ASSUME h.phase = "data" PROVE Payload(n) \in Seq(Nat \X Nat)
    OBVIOUS
  <2>1. /\ h.cmd.ver \in Nat /\ h.cmd.len \in Nat /\ h.left \in Nat /\ h.left <= h.cmd.len
    BY InvParts, CommandParts DEF Host, Number, LeftOf
  <2>2. h.cmd.len - h.left \in Nat
    BY <2>1
  <2>3. (h.cmd.len - h.left) \div BlkSize \in Nat /\ n \div BlkSize \in Nat
    BY <2>2, Division
  <2>4. \A i \in 1 .. n \div BlkSize :
          <<h.cmd.ver, (h.cmd.len - h.left) \div BlkSize + i>> \in Nat \X Nat
    BY <2>1, <2>3
  <2> QED
    BY <2>3, <2>4 DEF Payload
<1>2. <<Junk>> \in Seq(Nat \X Nat) /\ NoCommand \in Command
  BY DEF Junk, Command
<1>3. d \in Dev /\ h.cmd \in Command
  BY InvParts DEF Host
<1> DEFINE k == Filled(d, n)
<1>4. k \in Dev /\ k.configured = d.configured /\ k.in = d.in /\ k.event = d.event
  BY <1>1, <1>2, <1>3 DEF Filled, Dev
<1>5. Unarmed \in [buf : {"none", "cbw", "block"}, len : 0 .. BufSize] /\ Unarmed.buf = "none"
  BY Sizes DEF Unarmed
<1>6. d.in.buf = "none" /\ d.event = "none"
  BY InvParts DEF One
<1> HIDE DEF k
<1>7. /\ [k EXCEPT !.out = Unarmed] \in Dev /\ Silent([k EXCEPT !.out = Unarmed])
      /\ [k EXCEPT !.out = Unarmed].configured = d.configured
  BY <1>4, <1>5, <1>6 DEF Dev, Silent
<1> QED
  BY <1>7 DEF k

LEMMA WireOutInv == MscInv /\ WireOut => MscInv'
<1> SUFFICES ASSUME MscInv, WireOut PROVE MscInv'
  OBVIOUS
<1> DEFINE n == Low(h.left, d.out.len)
           e == [Filled(d, n) EXCEPT !.out = Unarmed]
<1>1. n \in Nat /\ n <= h.left /\ n \in 0 .. BufSize
  <2>1. h.left \in Nat /\ d.out.len \in 0 .. BufSize /\ BufSize \in Nat
    BY InvParts, Sizes DEF Host, Dev, Number
  <2> QED
    BY <2>1 DEF Low
<1>2. PICK ok \in Answers :
        /\ d' = BulkOut(e, n, ok)
        /\ disk' = IF WritesHere(e) /\ ok THEN Written(e.start_sector, n, e.block_buffer) ELSE disk
        /\ clean' = (clean /\ ok)
        /\ h' = Sent(h, n)
  BY Zenon DEF WireOut
<1>3. e \in Dev /\ Silent(e) /\ e.configured = d.configured
  <2>1. Sending /\ d.out.buf # "none"
    BY DEF WireOut
  <2> HIDE DEF n
  <2> QED
    BY <1>1, <2>1, FilledFine
<1> HIDE DEF e, n
<1>4. ok \in BOOLEAN /\ TypeOK
  BY DEF Answers, MscInv
<1>5. Fine(e, d')
  BY <1>1, <1>2, <1>3, <1>4, BulkOutFine
<1>6. disk' \in Medium
  <2>1. e.start_sector \in Nat /\ e.block_buffer \in Seq(Nat \X Nat)
    BY <1>3 DEF Dev, Number
  <2>2. Written(e.start_sector, n, e.block_buffer) \in Medium
    BY <1>1, <1>4, <2>1, WrittenFine DEF Medium
  <2> QED
    BY <1>2, <2>2, InvParts
<1>7. h' \in Host /\ LeftOf(h')
  BY <1>1, <1>2, SentFine, InvParts
<1>8. worker.event = "none" /\ d.configured /\ UNCHANGED <<mode, worker>>
  BY InvParts DEF WireOut, One, Silent
<1>9. clean' \in BOOLEAN
  BY <1>2, <1>4, InvParts
<1> QED
  BY <1>3, <1>5, <1>6, <1>7, <1>8, <1>9, DeviceStep DEF Fine

LEMMA WireInInv == MscInv /\ WireIn => MscInv'
<1> SUFFICES ASSUME MscInv, WireIn PROVE MscInv'
  OBVIOUS
<1> DEFINE n == Low(h.left, d.in.len)
           e == [d EXCEPT !.in = Unarmed]
<1>1. n \in Nat /\ n <= h.left /\ n <= d.in.len
  <2>1. h.left \in Nat /\ d.in.len \in Nat
    BY InvParts, Sizes DEF Host, Dev, Number
  <2> QED
    BY <2>1 DEF Low
<1>2. PICK ok \in Answers :
        d' = BulkIn(e, ok) /\ clean' = (clean /\ ok) /\ h' = Received(h, d.in.buf, n)
  BY Zenon DEF WireIn
<1>3. e \in Dev /\ Silent(e) /\ e.configured = d.configured
  <2>1. Unarmed \in [buf : {"none", "info", "block", "csw"}, len : 0 .. BufSize] /\ Unarmed.buf = "none"
    BY Sizes DEF Unarmed
  <2>2. d \in Dev /\ d.out.buf = "none" /\ d.event = "none"
    BY InvParts DEF WireIn, One
  <2> QED
    BY <2>1, <2>2 DEF Dev, Silent
<1> HIDE DEF e, n
<1>4. ok \in BOOLEAN /\ TypeOK
  BY DEF Answers, MscInv
<1>5. Fine(e, d')
  BY <1>2, <1>3, <1>4, BulkInFine
<1>7. h' \in Host /\ LeftOf(h')
  BY <1>1, <1>2, <1>4, ReceivedFine, InvParts
<1>8. worker.event = "none" /\ d.configured /\ UNCHANGED <<mode, worker, disk>>
  BY InvParts DEF WireIn, One, Silent
<1>9. clean' \in BOOLEAN /\ disk' \in Medium
  BY <1>2, <1>4, <1>8, InvParts
<1> QED
  BY <1>3, <1>5, <1>7, <1>8, <1>9, DeviceStep DEF Fine

LEMMA WireStallInv == MscInv /\ WireStall => MscInv'
  BY InvParts, ReturnedFine, HostStep DEF WireStall, LeftOf

LEMMA HostTimeoutInv == MscInv /\ HostTimeout => MscInv'
<1> SUFFICES ASSUME MscInv, HostTimeout PROVE MscInv'
  OBVIOUS
<1>1. clean' \in BOOLEAN
  BY Zenon DEF HostTimeout, Quiet, DeviceIdle
<1> QED
  BY <1>1, InvParts, ReturnedFine, HostStep DEF HostTimeout, LeftOf

LEMMA WorkerStartsInv == MscInv /\ WorkerStarts => MscInv'
<1> SUFFICES ASSUME MscInv, WorkerStarts PROVE MscInv'
  OBVIOUS
<1> DEFINE n == IF d.event = "DATA_IN" THEN TransferLen(d) ELSE d.nbytes
<1>1. /\ worker' = [event |-> d.event, lba |-> d.start_sector, len |-> n]
      /\ d' = [d EXCEPT !.event = "none"] /\ UNCHANGED <<mode, disk, h, clean>>
      /\ d.event # "none" /\ worker.event = "none"
  BY DEF WorkerStarts, WorkerTake
<1>2. n \in 0 .. BufSize
  BY InvParts, TransferLenRange DEF Dev
<1> HIDE DEF n
<1>3. d' \in Dev /\ d'.event = "none" /\ d'.out = d.out /\ d'.in = d.in
      /\ d'.block_buffer = d.block_buffer /\ d'.configured = d.configured
  BY <1>1, InvParts DEF Dev
<1>4. worker' \in Working
  BY <1>1, <1>2, InvParts DEF Working, Dev
<1>5. d.configured /\ d.out.buf = "none" /\ d.in.buf = "none"
  BY <1>1, InvParts DEF One, Silent
<1>6. /\ WholeBlocks(d')
      /\ One(d'.out.buf # "none", d'.in.buf # "none", d'.event # "none", worker'.event # "none")
      /\ d'.configured
  BY <1>3, <1>5 DEF WholeBlocks, One
<1> QED
  BY <1>1, <1>3, <1>4, <1>6, InvParts, InvNext

LEMMA WorkerEndsInv == MscInv /\ WorkerEnds => MscInv'
<1> SUFFICES ASSUME MscInv, WorkerEnds PROVE MscInv'
  OBVIOUS
<1>1. PICK ok \in Answers : WorkerDone(ok) /\ clean' = (clean /\ ok) /\ UNCHANGED h
  BY Zenon DEF WorkerEnds
<1>2. ok \in BOOLEAN /\ TypeOK /\ worker.event # "none"
  BY <1>1 DEF Answers, MscInv, WorkerDone
<1>3. /\ worker.lba \in Nat /\ worker.len \in 0 .. BufSize /\ worker.len \in Nat
      /\ d.block_buffer \in Seq(Nat \X Nat)
  BY InvParts, Sizes DEF Working, Number, Dev
<1>4. d \in Dev /\ Silent(d) /\ d.configured
  BY <1>2, InvParts DEF One, Silent
<1>5. d' \in {SendCsw(d, "failed"), WriteDone(d, worker.len),
              ReadDone(d, worker.len, Stored(worker.lba, worker.len))}
  BY <1>1 DEF WorkerDone
<1>6. Fine(d, d')
  <2>1. Stored(worker.lba, worker.len) \in Seq(Nat \X Nat)
        /\ Len(Stored(worker.lba, worker.len)) = worker.len \div BlkSize
    BY <1>2, <1>3, StoredFine
  <2> QED
    BY <1>3, <1>4, <1>5, <2>1, SendCswFine, WriteDoneFine, ReadDoneFine
<1>7. disk' \in Medium
  <2>1. Written(worker.lba, worker.len, d.block_buffer) \in Medium
    BY <1>2, <1>3, WrittenFine DEF Medium
  <2> QED
    BY <1>1, <2>1, InvParts DEF WorkerDone
<1>8. worker' \in Working /\ worker'.event = "none"
  <2>1. 0 \in Number /\ 0 \in 0 .. BufSize
    BY Sizes DEF Number
  <2> QED
    BY <1>1, <2>1 DEF WorkerDone, Resting, Working
<1>9. clean' \in BOOLEAN /\ UNCHANGED <<mode, h>>
  BY <1>1, <1>2, InvParts DEF WorkerDone
<1>10. One(d'.out.buf # "none", d'.in.buf # "none", d'.event # "none", worker'.event # "none")
  BY <1>6, <1>8 DEF Fine, Single, One
<1> QED
  BY <1>4, <1>6, <1>7, <1>8, <1>9, <1>10, InvParts, InvNext DEF Fine

\* A reset finds the worker at rest.
LEMMA BusResetInv == "busy" \notin Faults /\ MscInv /\ BusReset => MscInv'
<1> SUFFICES ASSUME "busy" \notin Faults, MscInv, BusReset PROVE MscInv'
  OBVIOUS
<1>1. d.event = "none" /\ worker.event = "none"
  BY DEF BusReset, DeviceIdle
<1>2. /\ d' = [UsbdMscReset(d) EXCEPT !.out = Unarmed, !.in = Unarmed,
                                      !.halted = {}, !.configured = FALSE]
      /\ UNCHANGED <<mode, worker, disk>> /\ clean' = FALSE
  BY DEF BusReset, NotifyReset
<1>3. d' \in Dev /\ Silent(d')
  <2>1. /\ Unarmed \in [buf : {"none", "info", "block", "csw"}, len : 0 .. BufSize]
        /\ Unarmed \in [buf : {"none", "cbw", "block"}, len : 0 .. BufSize]
        /\ Unarmed.buf = "none"
    BY Sizes DEF Unarmed
  <2> QED
    BY <1>1, <1>2, <2>1, InvParts DEF UsbdMscReset, Dev, Silent
<1>4. h' \in Host /\ LeftOf(h')
  <2>1. PICK r \in {"ok", "failed", "stall", "timeout", "shutdown", "none"} :
          h' = [Returned(h, r) EXCEPT !.prog = "gone"]
    BY InvParts DEF BusReset, Host
  <2>2. CASE r # "none"
    BY <2>1, <2>2, InvParts, ReturnedFine DEF LeftOf
  <2>3. CASE r = "none"
    <3> DEFINE t == IF h.prog = "sense" THEN h.tries + 1 ELSE h.tries
    <3>1. t \in Nat /\ 0 \in Number /\ <<>> \in Seq(Nat \X Nat)
      BY InvParts, Sizes DEF Host, Number
    <3>2. h' = [h EXCEPT !.prog = "gone", !.phase = "idle", !.ret = "none", !.left = 0,
                         !.tries = t, !.got = <<>>]
      BY <2>1, <2>3, InvParts DEF Returned, Host
    <3> HIDE DEF t
    <3> QED
      BY <3>1, <3>2, InvParts DEF Host, LeftOf
  <2> QED
    BY <2>2, <2>3
<1>5. WholeBlocks(d') /\ Single(d')
  BY <1>3 DEF WholeBlocks, Single, Silent, One
<1> QED
  BY <1>1, <1>2, <1>3, <1>4, <1>5, InvParts, DeviceStep

LEMMA ConfigureInv == MscInv /\ Configure => MscInv'
<1> SUFFICES ASSUME MscInv, Configure PROVE MscInv'
  OBVIOUS
<1> DEFINE e == [d EXCEPT !.configured = TRUE]
<1>1. /\ d' = ReadArmed(e, "cbw", CbwLen) /\ UNCHANGED <<mode, worker, disk>> /\ clean' = TRUE
      /\ h' = [h EXCEPT !.prog = "tur", !.tries = 0, !.ret = "none"]
      /\ Silent(d) /\ worker.event = "none"
  BY InvParts DEF Configure, NotifyConfigured
<1>2. e \in Dev /\ Silent(e) /\ e.configured
  BY <1>1, InvParts DEF Dev, Silent
<1> HIDE DEF e
<1>3. Fine(e, d')
  BY <1>1, <1>2, ReadArmedFine, Sizes
<1>4. h' \in Host /\ LeftOf(h')
  BY <1>1, InvParts DEF Host, LeftOf
<1> QED
  BY <1>1, <1>2, <1>3, <1>4, InvParts, DeviceStep DEF Fine

LEMMA RecoverInv == MscInv /\ Recover => MscInv'
<1> SUFFICES ASSUME MscInv, Recover PROVE MscInv'
  OBVIOUS
<1>1. /\ d' = [UsbdMscReset(d) EXCEPT !.halted = {}] /\ UNCHANGED <<mode, worker, disk>>
      /\ h' = [h EXCEPT !.ret = "none"] /\ clean' = TRUE
  BY DEF Recover
<1>2. /\ d' \in Dev /\ d'.out = d.out /\ d'.in = d.in /\ d'.event = d.event
      /\ d'.block_buffer = d.block_buffer /\ d'.configured = d.configured
  BY <1>1, InvParts DEF UsbdMscReset, Dev
<1>3. h' \in Host /\ LeftOf(h')
  BY <1>1, InvParts DEF Host, LeftOf
<1>4. /\ WholeBlocks(d')
      /\ One(d'.out.buf # "none", d'.in.buf # "none", d'.event # "none", worker'.event # "none")
      /\ ~d'.configured => Silent(d') /\ worker'.event = "none"
  BY <1>1, <1>2, InvParts DEF WholeBlocks, Silent
<1> QED
  BY <1>1, <1>2, <1>3, <1>4, InvParts, InvNext

\* A step that changes nothing.
LEMMA StutterInv == MscInv /\ UNCHANGED vars => MscInv'
  BY InvParts, HostStep DEF vars, mscVars

\* MscInv is inductive.
LEMMA StepInv == "busy" \notin Faults /\ MscInv /\ [Next]_vars => MscInv'
  BY HostCallInv, WireOutInv, WireInInv, WireStallInv, HostTimeoutInv, WorkerStartsInv,
     WorkerEndsInv, BusResetInv, ConfigureInv, RecoverInv, StutterInv, Zenon DEF Next

\* MscInv always holds, with any faults but a reset during an access.
LEMMA Inductive == ASSUME "busy" \notin Faults PROVE Spec => []MscInv
<1>1. Init => MscInv
  BY InitHolds
<1>2. MscInv /\ [Next]_vars => MscInv'
  BY StepInv
<1> QED
  BY <1>1, <1>2, PTL DEF Spec

-----------------------------------------------------------------------------

\* Unless a reset comes while the medium is accessed, every length the
\* device hands to its endpoints fits the block buffer, every count stays in
\* 32 bits and the host never copies more than it asked for, whatever the
\* size of the medium and whatever commands the user makes (TransferLen is
\* MIN(nsectors * block size, CONFIG_USBDEV_MSC_MAX_BUFSIZE)).
THEOREM MscTypes == ASSUME "busy" \notin Faults PROVE Spec => []TypeOK
<1>1. MscInv => TypeOK
  BY DEF MscInv
<1> QED
  BY <1>1, Inductive, PTL

\* Unless a reset comes while the medium is accessed, the device is at one
\* place of a command at a time, also when a host gives up a call and starts
\* the next one meanwhile: no endpoint is armed on block_buffer while the
\* worker uses it, and the queue of one message never overflows.
THEOREM MscOneToken == ASSUME "busy" \notin Faults PROVE Spec => []OneToken
<1>1. MscInv => OneToken
  BY DEF MscInv
<1> QED
  BY <1>1, Inductive, PTL
-----------------------------------------------------------------------------
(* Host and device in step.                                                *)
(*                                                                         *)
(* InStep and NothingFails need to know where the two are.  While no       *)
(* endpoint is halted there are six places of a data phase and three of    *)
(* the answer, each with what is left on both sides (Together).  A host    *)
(* that cannot clear a halt goes on calling a device that it no longer     *)
(* understands (Apart); one that can finds it listening.                   *)

\* The length of k blocks.
Size(k) == k * BlkSize

\* No call is longer than the 32 bits its length is computed in.
NoCallWraps == \A c \in Cbws : Size(c.n) < U32

\* The device e with worker w: no message and no access.
Rests(e, w) == e.event = "none" /\ w.event = "none"
Listens(e, w) ==
    /\ e.stage = "READ_CBW" /\ e.out.buf = "cbw" /\ e.out.len = CbwLen
    /\ e.in.buf = "none" /\ Rests(e, w)
Replies(e, w) ==
    /\ e.stage = "WAIT_CSW" /\ e.in.buf = "csw" /\ e.in.len = CswLen
    /\ e.out.buf = "none" /\ Rests(e, w)

\* A place of the data phase of the host g: the answer from memory is armed.
Informs(e, w, g) ==
    /\ g.cmd.op = "info" /\ e.stage = "SEND_CSW"
    /\ e.in.buf = "info" /\ e.in.len <= g.left /\ e.out.buf = "none" /\ Rests(e, w)

\* The next chunk is read from the medium.
Reads(e, w, g) ==
    /\ g.cmd.op = "read" /\ e.stage = "DATA_IN" /\ e.in.buf = "none" /\ e.out.buf = "none"
    /\ \/ e.event = "DATA_IN" /\ w.event = "none"
       \/ e.event = "none" /\ w.event = "DATA_IN" /\ w.len = TransferLen(e)
    /\ e.nsectors # 0 /\ g.left = Size(e.nsectors)

\* A chunk is armed, and more follow.
Sends(e, w, g) ==
    /\ g.cmd.op = "read" /\ e.stage = IF e.nsectors = 0 THEN "SEND_CSW" ELSE "DATA_IN"
    /\ e.in.buf = "block" /\ g.left = e.in.len + Size(e.nsectors)
    /\ e.out.buf = "none" /\ Rests(e, w)

\* The next chunk is asked for.
Asks(e, w, g) ==
    /\ g.cmd.op = "write" /\ e.stage = "DATA_OUT"
    /\ e.out.buf = "block" /\ e.out.len = TransferLen(e) /\ e.in.buf = "none" /\ Rests(e, w)
    /\ e.nsectors # 0 /\ g.left = Size(e.nsectors)

\* The medium failed, and the host has yet to learn it.
Fails(e, w, g) == g.cmd.op \in {"read", "write"} /\ g.left # 0 /\ Replies(e, w)

\* A chunk waits for the medium, in the data phase or, the last, after it.
Stores(e, w, g) ==
    /\ g.cmd.op = "write" /\ e.stage = "DATA_OUT" /\ e.in.buf = "none" /\ e.out.buf = "none"
    /\ \E j \in 1 .. e.nsectors :
         /\ \/ e.event = "DATA_OUT" /\ w.event = "none" /\ e.nbytes = Size(j)
            \/ e.event = "none" /\ w.event = "DATA_OUT" /\ w.len = Size(j)
         /\ IF j = e.nsectors THEN g.phase = "csw"
                              ELSE g.phase = "data" /\ g.left = Size(e.nsectors - j)

\* Where host and device are while nothing is halted.
Together(e, w, g) ==
    /\ g.ret # "stall"
    /\ g.phase \in {"idle", "cbw"} => Listens(e, w) \/ Replies(e, w)
    /\ g.phase = "data" =>
          /\ Served(g.cmd)
          /\ \/ Informs(e, w, g) \/ Reads(e, w, g) \/ Sends(e, w, g)
             \/ Asks(e, w, g) \/ Stores(e, w, g) \/ Fails(e, w, g)
    /\ g.phase = "csw" => /\ g.left = CswLen
                          /\ Listens(e, w) \/ Replies(e, w) \/ Stores(e, w, g)

\* The host of a heard STALL waits for nothing but its recovery.
Stalled(e, g) == /\ e.out.buf = "cbw"
                 /\ (g.phase = "idle" /\ g.ret = "stall") \/ g.phase \in {"data", "csw"}

\* ... and while something is halted.
Apart(e, w, g) ==
    /\ "in" \in e.halted
    /\ e.out.buf = "cbw" => /\ e.stage \in {"READ_CBW", "DATA_IN"} /\ e.out.len = CbwLen
                            /\ g.phase = "data" /\ ~g.cmd.in => "out" \in e.halted
    /\ e.out.buf = "block" => e.stage = "DATA_OUT"
    /\ "DATA_OUT" \in {e.event, w.event} => e.stage = "DATA_OUT"
    /\ g.heals => Stalled(e, g)

\* Nothing has failed.
Sane(e, g) ==
    /\ e.halted = {} /\ g.ret \in {"none", "ok"}
    /\ g.phase # "idle" => Served(g.cmd)
    /\ g.phase \in {"idle", "cbw"} => e.stage = "READ_CBW"
    /\ g.phase = "data" => e.stage # "WAIT_CSW"
    /\ g.phase = "csw" => e.stage # "READ_CBW"
    /\ e.stage = "WAIT_CSW" => e.status = "passed"

\* The commands of the thread that gets the medium ready do not fail.
First == {"tur", "inquiry", "capacity"}
Starting(g, c) ==
    /\ g.prog \in {"gone", "ready"} \cup First
    /\ g.prog \in First =>
          c /\ (g.phase # "idle" => g.cmd \in {NoData, Info})

\* Device, worker, host, and whether nothing has failed.
Pace(e, w, g, c) ==
    /\ ~e.configured => /\ g.prog = "gone" /\ g.phase = "idle"
                        /\ e.stage = "READ_CBW" /\ e.halted = {}
    /\ e.configured => IF e.halted = {} THEN Together(e, w, g) ELSE Apart(e, w, g)
    /\ g.phase = "cbw" => g.left = CbwLen
    /\ e.in.buf = "none" => e.in.len = 0
    /\ c => Sane(e, g)
    /\ Starting(g, c)
PaceInv == Pace(d, worker, h, clean)

\* Lengths of whole blocks, without multiplication.
LEMMA SizeFacts ==
    /\ Size(0) = 0
    /\ \A k \in Nat : Size(k) \in Nat /\ Size(k) \div BlkSize = k /\ (k # 0 => Size(k) > 1)
<1>1. BlkSize \in Nat /\ BlkSize > 1
  BY Sizes
<1>2. ASSUME NEW k \in Nat PROVE Size(k) \in Nat /\ (k # 0 => Size(k) > 1)
  BY <1>1 DEF Size
<1>3. ASSUME NEW k \in Nat PROVE Size(k) \div BlkSize = k
  <2>1. (k * BlkSize) \div BlkSize = k
    BY <1>1
  <2> QED
    BY <2>1 DEF Size
<1>4. Size(0) = 0
  BY <1>1 DEF Size
<1> QED
  BY <1>2, <1>3, <1>4

\* More blocks, more length.
LEMMA SizeMinus ==
    ASSUME NEW k \in Nat, NEW j \in 0 .. k
    PROVE  Size(k - j) = Size(k) - Size(j) /\ Size(j) <= Size(k)
<1>1. BlkSize \in Nat /\ j \in Nat /\ k - j \in Nat
  BY Sizes
<1>2. (k - j) * BlkSize = k * BlkSize - j * BlkSize
  BY <1>1
<1>3. (k - j) * BlkSize >= 0
  BY <1>1
<1>4. k * BlkSize \in Int /\ j * BlkSize \in Int
  BY <1>1
<1> QED
  BY <1>2, <1>3, <1>4 DEF Size

\* The buffer is whole blocks.
LEMMA BufferSize == \E m \in Nat \ {0} : BufSize = Size(m)
<1>1. BufSize \in Nat /\ BlkSize \in Nat \ {0} /\ BufSize % BlkSize = 0 /\ BufSize # 0
  BY MscAssumption DEF MscAssumption
<1> DEFINE m == BufSize \div BlkSize
<1>2. m \in Nat /\ BufSize = m * BlkSize
  BY <1>1
<1>3. m # 0
  BY <1>1, <1>2
<1> QED
  BY <1>2, <1>3 DEF Size

\* A chunk is whole blocks of what is left.
LEMMA Chunk ==
    ASSUME NEW e, e.nsectors \in Nat, e.nsectors # 0, Size(e.nsectors) < U32
    PROVE  \E j \in 1 .. e.nsectors : TransferLen(e) = Size(j)
<1> DEFINE k == e.nsectors
<1>1. PICK m \in Nat \ {0} : BufSize = Size(m)
  BY BufferSize
<1>2. TransferLen(e) = Low(Size(k), BufSize)
  <2>1. Size(k) \in Nat /\ U32 \in Nat /\ Size(k) < U32
    BY SizeFacts, Sizes
  <2> HIDE DEF k
  <2>2. Size(k) % U32 = Size(k)
    BY <2>1
  <2> QED
    BY <2>2 DEF TransferLen, Size, k
<1> HIDE DEF k
<1>3. k \in Nat /\ k # 0
  BY DEF k
<1>4. CASE Size(k) < Size(m)
  <2>1. TransferLen(e) = Size(k)
    BY <1>1, <1>2, <1>4 DEF Low
  <2> QED
    BY <2>1, <1>3 DEF k
<1>5. CASE ~(Size(k) < Size(m))
  <2>1. TransferLen(e) = Size(m)
    BY <1>1, <1>2, <1>5 DEF Low
  <2>2. m <= k
    <3> SUFFICES ASSUME k < m PROVE FALSE
      BY <1>1, <1>3
    <3>1. Size(m - k) = Size(m) - Size(k) /\ m - k \in Nat /\ m - k # 0
      BY <1>1, <1>3, SizeMinus
    <3>2. Size(m - k) > 1 /\ Size(m) \in Nat /\ Size(k) \in Nat
      BY <3>1, <1>1, <1>3, SizeFacts
    <3> QED
      BY <3>1, <3>2, <1>5
  <2>3. m \in 1 .. k
    BY <2>2, <1>1, <1>3
  <2> QED
    BY <2>1, <2>3 DEF k
<1> QED
  BY <1>4, <1>5

\* What is counted after an access of j blocks.
LEMMA CountedBlocks ==
    ASSUME NEW k \in Number, NEW j \in 0 .. k
    PROVE  (k - Size(j) \div BlkSize) % U32 = k - j
<1>1. k \in 0 .. U32 - 1 /\ U32 \in Nat
  BY Sizes DEF Number
<1>2. Size(j) \div BlkSize = j
  BY SizeFacts, <1>1
<1>3. k - j \in 0 .. U32 - 1
  BY <1>1
<1>4. (k - j) % U32 = k - j
  BY <1>1, <1>3
<1> QED
  BY <1>2, <1>4

\* A command that is served is one of four kinds.
LEMMA ServedKinds ==
    ASSUME NoCallWraps, NEW c \in Command, Served(c)
    PROVE  /\ c.op = "none" => c.len = 0
           /\ c.op = "info" => c.in /\ c.len # 0
           /\ c.op \in {"read", "write"} => c.n # 0 /\ c.len = Size(c.n) /\ c.len # 0
           /\ c.op = "read" => c.in
           /\ c.op = "write" => ~c.in
           /\ c.op \in {"none", "info", "read", "write"}
<1>1. CASE c \in Cbws
  <2>1. /\ c.n \in Number /\ c.len = (c.n * BlkSize) % U32 /\ (c.in <=> c.op # "write")
        /\ c.op \in {"read", "write", "other"} /\ Size(c.n) < U32
    BY <1>1, CbwParts DEF NoCallWraps
  <2>2. c.n \in Nat /\ U32 \in Nat /\ Size(c.n) \in Nat
    BY <2>1, Sizes, SizeFacts DEF Number
  <2>3. Size(c.n) % U32 = Size(c.n)
    BY <2>1, <2>2
  <2>4. c.len = Size(c.n)
    BY <2>1, <2>3 DEF Size
  <2>5. c.op \in {"read", "write"} /\ c.len # 0
    BY <2>1 DEF Served, InRange
  <2>6. c.n # 0
    BY <2>4, <2>5, SizeFacts
  <2> QED
    BY <2>1, <2>4, <2>5, <2>6
<1>2. CASE c = NoCommand
  BY <1>2 DEF NoCommand, Served
<1>3. CASE c = NoData
  BY <1>3 DEF NoData
<1>4. CASE c = Info
  <2>1. c.op = "info" /\ c.len # 0
    BY <1>4, Sizes DEF Info
  <2>2. c.in
    BY <1>4 DEF Info
  <2> QED
    BY <2>1, <2>2
<1> QED
  BY <1>1, <1>2, <1>3, <1>4 DEF Command

\* The first calls are served.
LEMMA FirstServed == Served(NoData) /\ Served(Info)
  BY Sizes DEF Served, NoData, Info

-----------------------------------------------------------------------------
(* What the functions of the device leave, field by field.                 *)

\* What no operation changes.
Same(e, f) == f.cbw = e.cbw /\ f.configured = e.configured

LEMMA SendCswMakes ==
    ASSUME NEW e \in Dev, NEW s, NEW f, f = SendCsw(e, s)
    PROVE  /\ Same(e, f) /\ f.halted = e.halted /\ f.stage = "WAIT_CSW" /\ f.status = s
           /\ f.in.buf = "csw" /\ f.in.len = CswLen /\ f.out = e.out /\ f.event = e.event
  BY DEF SendCsw, WriteArmed, Dev, Same

LEMMA BotAbortMakes ==
    ASSUME NEW e \in Dev, NEW f, f = BotAbort(e)
    PROVE  /\ Same(e, f) /\ "in" \in f.halted
           /\ ~e.cbw.in /\ e.cbw.len # 0 => "out" \in f.halted
           /\ f.stage = e.stage /\ f.out.buf = "cbw" /\ f.out.len = CbwLen
           /\ f.in = e.in /\ f.event = e.event
<1> DEFINE k == IF ~e.cbw.in /\ e.cbw.len # 0 THEN {"out"} ELSE {}
<1>1. f = [ReadArmed(e, "cbw", CbwLen) EXCEPT !.halted = @ \cup {"in"} \cup k]
  BY DEF BotAbort
<1>2. ~e.cbw.in /\ e.cbw.len # 0 => "out" \in k
  OBVIOUS
<1> HIDE DEF k
<1> QED
  BY <1>1, <1>2 DEF ReadArmed, Dev, Same

LEMMA SendInfoMakes ==
    ASSUME NEW e \in Dev, NEW f, f = SendInfo(e, InfoLen)
    PROVE  /\ Same(e, f) /\ f.halted = e.halted /\ f.stage = "SEND_CSW" /\ f.status = "passed"
           /\ f.in.buf = "info" /\ f.in.len = Low(InfoLen, e.cbw.len)
           /\ f.out = e.out /\ f.event = e.event
<1> DEFINE n == Low(InfoLen, e.cbw.len)
           r == (e.residue - n) % U32
<1>1. f = [WriteArmed(e, "info", n) EXCEPT !.stage = "SEND_CSW", !.residue = r, !.status = "passed"]
  BY DEF SendInfo, WriteArmed, Dev
<1> HIDE DEF r
<1>2. f.in.len = n
  <2> HIDE DEF n
  <2> QED
    BY <1>1 DEF WriteArmed, Dev
<1> HIDE DEF n
<1> QED
  BY <1>1, <1>2 DEF WriteArmed, Dev, Same, n

LEMMA PostMakes ==
    ASSUME NEW e \in Dev, e.event = "none", NEW v, NEW f, f = Post(e, v)
    PROVE  /\ Same(e, f) /\ f.halted = e.halted /\ f.stage = e.stage /\ f.event = v
           /\ f.in = e.in /\ f.out = e.out /\ f.nsectors = e.nsectors /\ f.nbytes = e.nbytes
           /\ f.status = e.status
  BY DEF Post, Dev, Same

LEMMA CountedMakes ==
    ASSUME NEW e \in Dev, NEW n, NEW f, f = Counted(e, n)
    PROVE  /\ Same(e, f) /\ f.halted = e.halted /\ f.stage = e.stage /\ f.event = e.event
           /\ f.in = e.in /\ f.out = e.out /\ f.status = e.status
           /\ f.nsectors = (e.nsectors - n \div BlkSize) % U32
<1> DEFINE a == (e.start_sector + n \div BlkSize) % U32
           b == (e.nsectors - n \div BlkSize) % U32
           c == (e.residue - n) % U32
<1>1. f = [e EXCEPT !.start_sector = a, !.nsectors = b, !.residue = c]
  BY DEF Counted, Dev
<1> HIDE DEF a, b, c
<1> QED
  BY <1>1 DEF Dev, Same, b

LEMMA ReadDoneMakes ==
    ASSUME NEW e \in Dev, NEW n, NEW data, NEW f, f = ReadDone(e, n, data)
    PROVE  /\ Same(e, f) /\ f.halted = e.halted /\ f.event = e.event /\ f.out = e.out
           /\ f.nsectors = (e.nsectors - n \div BlkSize) % U32
           /\ f.stage = IF f.nsectors = 0 THEN "SEND_CSW" ELSE e.stage
           /\ f.in.buf = "block" /\ f.in.len = n /\ f.status = e.status
<1> DEFINE k == Counted(e, n)
           b == IF k.nsectors = 0 THEN "SEND_CSW" ELSE k.stage
<1>1. /\ Same(e, k) /\ k.halted = e.halted /\ k.stage = e.stage /\ k.event = e.event
      /\ k.in = e.in /\ k.out = e.out /\ k.status = e.status
      /\ k.nsectors = (e.nsectors - n \div BlkSize) % U32
  BY CountedMakes
<1>2. DOMAIN k = DOMAIN e /\ DOMAIN k.in = {"buf", "len"}
  <2>1. DOMAIN k = DOMAIN e
    BY DEF Counted, Dev
  <2> HIDE DEF k
  <2> QED
    BY <1>1, <2>1 DEF Dev
<1>3. f = WriteArmed([k EXCEPT !.stage = b, !.block_buffer = data], "block", n)
  <2>1. k.stage = k["stage"]
    OBVIOUS
  <2> QED
    BY <1>2 DEF ReadDone, Dev
<1> HIDE DEF k
<1>4. b = IF k.nsectors = 0 THEN "SEND_CSW" ELSE e.stage
  BY <1>1
<1> HIDE DEF b
<1>5. DOMAIN e = {"stage", "cbw", "residue", "status", "start_sector", "nsectors", "block_buffer",
                  "event", "nbytes", "out", "in", "halted", "configured"}
  BY DEF Dev
<1>6. /\ f.cbw = k.cbw /\ f.configured = k.configured /\ f.halted = k.halted
      /\ f.event = k.event /\ f.out = k.out /\ f.nsectors = k.nsectors
      /\ f.stage = b /\ f.status = k.status /\ f.in = [buf |-> "block", len |-> n]
  BY <1>2, <1>3, <1>5 DEF WriteArmed
<1> QED
  BY <1>1, <1>4, <1>6 DEF Same

LEMMA WriteDoneMakes ==
    ASSUME NEW e \in Dev, NEW n \in 0 .. BufSize, Silent(e), NEW f, f = WriteDone(e, n),
           NEW left, left = (e.nsectors - n \div BlkSize) % U32
    PROVE  /\ Same(e, f) /\ f.halted = e.halted /\ f.event = e.event
           /\ left = 0 => /\ f.stage = "WAIT_CSW" /\ f.status = "passed" /\ f.out = e.out
                          /\ f.in.buf = "csw" /\ f.in.len = CswLen
           /\ left # 0 => /\ f.stage = e.stage /\ f.in = e.in /\ f.nsectors = left
                          /\ f.status = e.status
                          /\ f.out.buf = "block" /\ f.out.len = TransferLen(f)
<1> DEFINE k == Counted(e, n)
<1>1. k \in Dev
  BY CountedFine
<1>2. /\ Same(e, k) /\ k.halted = e.halted /\ k.stage = e.stage /\ k.event = e.event
      /\ k.in = e.in /\ k.out = e.out /\ k.status = e.status
      /\ k.nsectors = left
  BY CountedMakes
<1>3. f = IF k.nsectors = 0 THEN SendCsw(k, "passed")
                            ELSE ReadArmed(k, "block", TransferLen(k))
  BY DEF WriteDone
<1> HIDE DEF k
<1>4. CASE left = 0
  <2>1. f = SendCsw(k, "passed")
    BY <1>2, <1>3, <1>4
  <2> QED
    BY <1>1, <1>2, <1>4, <2>1, SendCswMakes DEF Same
<1>5. CASE left # 0
  <2> DEFINE m == TransferLen(k)
  <2>1. f = [k EXCEPT !.out = [buf |-> "block", len |-> m]]
    BY <1>2, <1>3, <1>5 DEF ReadArmed
  <2> HIDE DEF m
  <2>2. /\ Same(e, f) /\ f.halted = e.halted /\ f.event = e.event
        /\ f.stage = e.stage /\ f.in = e.in /\ f.nsectors = left /\ f.status = e.status
        /\ f.out.buf = "block" /\ f.out.len = m
    BY <1>1, <1>2, <2>1 DEF Dev, Same
  <2>3. m = TransferLen(f)
    BY <1>2, <2>2 DEF TransferLen, m
  <2> QED
    BY <1>5, <2>2, <2>3
<1> QED
  BY <1>4, <1>5

LEMMA ParsedMakes ==
    ASSUME NEW e \in Dev, NEW f, f = Parsed(e)
    PROVE  /\ Same(e, f) /\ f.halted = e.halted /\ f.stage = e.stage /\ f.event = e.event
           /\ f.in = e.in /\ f.out = e.out /\ f.status = e.status
           /\ e.cbw.op \in {"read", "write"} /\ e.cbw.len # 0 => f.nsectors = e.cbw.n
  BY DEF Parsed, Dev, Same

-----------------------------------------------------------------------------
(* What the functions of the host leave, field by field.                   *)

\* What only a new call or the end of one changes.
Keeps(g, k) == k.cmd = g.cmd /\ k.heals = g.heals /\ k.prog = g.prog /\ k.ret = g.ret

LEMMA ReturnedMakes ==
    ASSUME NEW g \in Host, NEW r, NEW k, k = Returned(g, r)
    PROVE  /\ k.phase = "idle" /\ k.ret = r /\ k.cmd = g.cmd /\ k.heals = g.heals
           /\ k.prog = AfterCall(g, r)
<1> DEFINE q == AfterCall(g, r)
           t == IF g.prog = "sense" THEN g.tries + 1 ELSE g.tries
           m == IF r = "ok" THEN g.got ELSE <<>>
<1>1. k = [g EXCEPT !.prog = q, !.phase = "idle", !.ret = r, !.left = 0, !.tries = t, !.got = m]
  BY DEF Returned, Host
<1> HIDE DEF q, t, m
<1>2. k.phase = "idle" /\ k.ret = r /\ k.cmd = g.cmd /\ k.heals = g.heals /\ k.prog = q
  BY <1>1 DEF Host
<1> QED
  BY <1>2 DEF q

\* The wrapper is out, or some data.
LEMMA SentMakes ==
    ASSUME NEW g \in Host, NEW n \in Nat, NEW k, k = Sent(g, n)
    PROVE  /\ Keeps(g, k)
           /\ g.left # n => k.phase = g.phase /\ k.left = g.left - n
           /\ g.left = n /\ g.phase = "cbw" /\ g.cmd.len # 0 =>
                 k.phase = "data" /\ k.left = g.cmd.len
           /\ g.left = n /\ (g.phase = "cbw" => g.cmd.len = 0) =>
                 k.phase = "csw" /\ k.left = CswLen
<1> DEFINE f == [g EXCEPT !.left = @ - n]
<1>1. g.left \in Nat
  BY DEF Host, Number
<1>2. /\ Keeps(g, f) /\ f.phase = g.phase /\ f.left = g.left - n
      /\ DOMAIN f = {"prog", "tries", "phase", "cmd", "left", "got", "heals", "ret"}
  BY DEF Keeps, Host
<1>3. k = CASE f.left # 0 -> f
            [] f.left = 0 /\ g.phase = "cbw" -> AfterCbw(f)
            [] OTHER -> ToCsw(f)
  BY DEF Sent
<1> HIDE DEF f
<1>4. CASE g.left # n
  <2>1. k = f
    BY <1>1, <1>2, <1>3, <1>4
  <2> QED
    BY <1>2, <1>4, <2>1
<1>5. CASE g.left = n /\ g.phase = "cbw" /\ g.cmd.len # 0
  <2>1. k = [f EXCEPT !.phase = "data", !.left = g.cmd.len]
    BY <1>1, <1>2, <1>3, <1>5 DEF AfterCbw, Keeps
  <2> QED
    BY <1>2, <1>5, <2>1 DEF Keeps
<1>6. CASE g.left = n /\ (g.phase = "cbw" => g.cmd.len = 0)
  <2>1. k = [f EXCEPT !.phase = "csw", !.left = CswLen]
    BY <1>1, <1>2, <1>3, <1>6 DEF AfterCbw, ToCsw, Keeps
  <2> QED
    BY <1>2, <1>6, <2>1 DEF Keeps
<1> QED
  BY <1>4, <1>5, <1>6

\* Something came in.
LEMMA ReceivedMakes ==
    ASSUME NEW g \in Host, NEW b, NEW n \in Nat, NEW k, k = Received(g, b, n)
    PROVE  /\ g.phase = "csw" =>
                 /\ k.phase = "idle" /\ k.cmd = g.cmd /\ k.heals = g.heals
                 /\ k.ret = IF b = "csw" /\ d.status = "passed" THEN "ok" ELSE "failed"
                 /\ k.prog = AfterCall(g, k.ret)
           /\ g.phase = "data" /\ (b # "block" \/ g.left = n) =>
                 Keeps(g, k) /\ k.phase = "csw" /\ k.left = CswLen
           /\ g.phase = "data" /\ ~(b # "block" \/ g.left = n) =>
                 Keeps(g, k) /\ k.phase = "data" /\ k.left = g.left - n
<1> DEFINE more == CASE g.cmd.op # "read" -> g.got
                     [] g.cmd.op = "read" /\ b = "block" -> g.got \o SubSeq(d.block_buffer, 1, n \div BlkSize)
                     [] OTHER -> Append(g.got, Junk)
           f == [g EXCEPT !.left = @ - n, !.got = more]
           r == IF b = "csw" /\ d.status = "passed" THEN "ok" ELSE "failed"
<1>1. g.left \in Nat
  BY DEF Host, Number
<1>2. k = CASE g.phase = "csw" -> Returned(g, r)
            [] g.phase = "data" /\ (b # "block" \/ f.left = 0) -> ToCsw(f)
            [] OTHER -> f
  BY DEF Received
<1> HIDE DEF more, r
<1>3. /\ Keeps(g, f) /\ f.phase = g.phase /\ f.left = g.left - n
      /\ DOMAIN f = {"prog", "tries", "phase", "cmd", "left", "got", "heals", "ret"}
  BY DEF Keeps, Host
<1> HIDE DEF f
<1>4. CASE g.phase = "csw"
  <2>1. k = Returned(g, r)
    BY <1>2, <1>4
  <2> QED
    BY <1>4, <2>1, ReturnedMakes DEF r
<1>5. CASE g.phase = "data" /\ (b # "block" \/ g.left = n)
  <2>1. k = [f EXCEPT !.phase = "csw", !.left = CswLen]
    BY <1>1, <1>2, <1>3, <1>5 DEF ToCsw
  <2> QED
    BY <1>3, <1>5, <2>1 DEF Keeps
<1>6. CASE g.phase = "data" /\ ~(b # "block" \/ g.left = n)
  <2>1. k = f
    BY <1>1, <1>2, <1>3, <1>6
  <2> QED
    BY <1>3, <1>6, <2>1
<1> QED
  BY <1>4, <1>5, <1>6

-----------------------------------------------------------------------------
(* From one place to the next.                                             *)

\* The device f with worker w and the host k are at some place; c if
\* nothing failed.
Goes(f, w, k, c) ==
    /\ IF f.halted = {} THEN Together(f, w, k) ELSE Apart(f, w, k)
    /\ f.in.buf = "none" => f.in.len = 0
    /\ c => Sane(f, k)

\* The halves of a place.
LEMMA PaceNext == Pace(d', worker', h', clean') => PaceInv'
  BY DEF PaceInv, Pace, Together, Apart, Sane, Starting, Listens, Replies, Informs, Reads, Sends,
         Asks, Fails, Stores, Rests, Stalled, Size, TransferLen, Low, Served, InRange

\* A command arrives at a device that listens, and nothing is halted.
LEMMA CommandArrives ==
    ASSUME NoCallWraps, NEW e \in Dev, NEW w, NEW g \in Host, NEW ok, NEW c,
           Silent(e), w.event = "none", e.in.len = 0, e.stage = "READ_CBW", e.halted = {},
           g.phase = "cbw", g.left = CbwLen, e.cbw = g.cmd, g.ret # "stall",
           c => Served(g.cmd) /\ ok /\ g.ret \in {"none", "ok"},
           NEW f, f = BulkOut(e, CbwLen, ok), NEW k, k = Sent(g, CbwLen)
    PROVE  Goes(f, w, k, c)
<1> DEFINE m == [e EXCEPT !.residue = e.cbw.len]
           q == Parsed(m)
           i == [q EXCEPT !.stage = "DATA_IN"]
           o == [q EXCEPT !.stage = "DATA_OUT"]
           x == g.cmd
<1>1. /\ x \in Command /\ x.len \in Number /\ x.n \in Number /\ m \in Dev /\ Silent(m)
      /\ m.stage = "READ_CBW" /\ m.halted = {} /\ m.cbw = x /\ m.in = e.in /\ m.out = e.out
      /\ m.event = "none" /\ CbwLen \in Nat
  <2>1. /\ e.cbw.len \in Number /\ x.len \in Number /\ x.n \in Number /\ x \in Command
        /\ CbwLen \in Nat
    BY CommandParts, Sizes DEF Host
  <2> HIDE DEF x
  <2>2. m \in Dev
    BY <2>1 DEF Dev
  <2>3. m.out = e.out /\ m.in = e.in /\ m.event = e.event /\ m.stage = e.stage
        /\ m.halted = e.halted /\ m.cbw = e.cbw
    BY DEF Dev
  <2> QED
    BY <2>1, <2>2, <2>3, Zenon DEF Silent, x
<1>2. /\ Keeps(g, k)
      /\ x.len # 0 => k.phase = "data" /\ k.left = x.len
      /\ x.len = 0 => k.phase = "csw" /\ k.left = CswLen
  BY <1>1, SentMakes
<1>3. f = IF Served(x) THEN Decoded(m, ok) ELSE BotAbort(q)
  BY DEF BulkOut
<1> HIDE DEF m
<1>4. /\ q \in Dev /\ Silent(q) /\ q.cbw = x /\ q.halted = {} /\ q.stage = "READ_CBW"
      /\ q.event = "none" /\ q.in = e.in /\ q.out = e.out
      /\ x.op \in {"read", "write"} /\ x.len # 0 => q.nsectors = x.n
  <2>1. q \in Dev /\ Silent(q)
    BY <1>1, ParsedFine
  <2>2. /\ Same(m, q) /\ q.halted = m.halted /\ q.stage = m.stage /\ q.event = m.event
        /\ q.in = m.in /\ q.out = m.out
        /\ m.cbw.op \in {"read", "write"} /\ m.cbw.len # 0 => q.nsectors = m.cbw.n
    BY <1>1, ParsedMakes
  <2> QED
    BY <1>1, <2>1, <2>2 DEF Same
<1>5. ~Served(x) => f = BotAbort(q)
  BY <1>3
<1>6. Served(x) =>
        /\ x.op = "none" => f = SendCsw(m, "passed")
        /\ x.op = "info" => f = SendInfo(m, InfoLen)
        /\ x.op = "write" => f = ReadArmed(o, "block", TransferLen(q))
        /\ x.op = "read" /\ mode # "irq" => f = Post(i, "DATA_IN")
        /\ x.op = "read" /\ mode = "irq" /\ ok =>
              f = ReadDone(i, TransferLen(i), Stored(x.lba, TransferLen(i)))
        /\ x.op = "read" /\ mode = "irq" /\ ~ok => f = BotAbort(i)
  BY <1>1, <1>3 DEF Decoded
<1> HIDE DEF q
<1>7. i \in Dev /\ i.cbw = x /\ i.halted = {} /\ i.stage = "DATA_IN" /\ i.event = "none"
      /\ i.in = e.in /\ i.out = e.out /\ i.nsectors = q.nsectors
  BY <1>4 DEF Dev
<1>8. o \in Dev /\ o.cbw = x /\ o.halted = {} /\ o.stage = "DATA_OUT" /\ o.event = "none"
      /\ o.in = e.in /\ o.out = e.out /\ o.nsectors = q.nsectors
  BY <1>4 DEF Dev
<1> HIDE DEF i, o
<1>9. e.in.buf = "none" /\ e.out.buf = "none"
  BY DEF Silent
<1>10. Served(x) => /\ x.op = "none" => x.len = 0
                    /\ x.op = "info" => x.in /\ x.len # 0
                    /\ x.op \in {"read", "write"} => x.n # 0 /\ x.len = Size(x.n) /\ x.len # 0
                    /\ x.op = "read" => x.in
                    /\ x.op = "write" => ~x.in
                    /\ x.op \in {"none", "info", "read", "write"}
  BY <1>1, ServedKinds
<1>11. CASE ~Served(x)
  <2>1. /\ Same(q, f) /\ "in" \in f.halted /\ (~q.cbw.in /\ q.cbw.len # 0 => "out" \in f.halted)
        /\ f.stage = q.stage /\ f.out.buf = "cbw" /\ f.out.len = CbwLen
        /\ f.in = q.in /\ f.event = q.event
    BY <1>4, <1>5, <1>11, BotAbortMakes
  <2>2. Apart(f, w, k)
    BY <1>2, <1>4, <2>1 DEF Apart, Keeps, Stalled
  <2> QED
    BY <1>4, <1>9, <1>11, <2>1, <2>2 DEF Goes
<1>12. CASE Served(x) /\ x.op = "none"
  <2>1. /\ f.halted = {} /\ f.stage = "WAIT_CSW" /\ f.status = "passed"
        /\ f.in.buf = "csw" /\ f.in.len = CswLen /\ f.out = e.out /\ f.event = "none"
    BY <1>1, <1>6, <1>12, SendCswMakes
  <2>2. k.phase = "csw" /\ k.left = CswLen
    BY <1>2, <1>10, <1>12
  <2> QED
    BY <1>2, <1>9, <1>12, <2>1, <2>2 DEF Goes, Together, Replies, Rests, Sane, Keeps
<1>13. CASE Served(x) /\ x.op = "info"
  <2>1. /\ f.halted = {} /\ f.stage = "SEND_CSW"
        /\ f.in.buf = "info" /\ f.in.len = Low(InfoLen, x.len) /\ f.out = e.out /\ f.event = "none"
    BY <1>1, <1>6, <1>13, SendInfoMakes
  <2>2. k.phase = "data" /\ k.left = x.len
    BY <1>2, <1>10, <1>13
  <2>3. f.in.len <= k.left
    BY <1>1, <2>1, <2>2, Sizes DEF Low, Number
  <2> QED
    BY <1>2, <1>9, <1>13, <2>1, <2>2, <2>3 DEF Goes, Together, Informs, Rests, Sane, Keeps
<1>14. CASE Served(x) /\ x.op = "write"
  <2> DEFINE t == TransferLen(q)
  <2>1. f = [o EXCEPT !.out = [buf |-> "block", len |-> t]]
    BY <1>6, <1>14 DEF ReadArmed
  <2> HIDE DEF t
  <2>2. /\ f.halted = {} /\ f.stage = "DATA_OUT" /\ f.in = e.in /\ f.event = "none"
        /\ f.nsectors = q.nsectors /\ f.out.buf = "block" /\ f.out.len = t
    BY <1>8, <2>1 DEF Dev
  <2>3. t = TransferLen(f)
    BY <2>2 DEF t, TransferLen
  <2>4. k.phase = "data" /\ k.left = Size(f.nsectors) /\ f.nsectors # 0
    BY <1>2, <1>4, <1>10, <1>14, <2>2
  <2> QED
    BY <1>2, <1>9, <1>14, <2>2, <2>3, <2>4 DEF Goes, Together, Asks, Rests, Sane, Keeps
<1>15. CASE Served(x) /\ x.op = "read"
  <2>1. k.phase = "data" /\ k.left = Size(x.n) /\ x.n # 0 /\ i.nsectors = x.n /\ x.in
    BY <1>2, <1>4, <1>7, <1>10, <1>15
  <2>2. CASE mode # "irq"
    <3>1. /\ f.halted = {} /\ f.stage = "DATA_IN" /\ f.event = "DATA_IN"
          /\ f.in = e.in /\ f.out = e.out /\ f.nsectors = x.n
      BY <1>6, <1>7, <1>15, <2>1, <2>2, PostMakes
    <3> QED
      BY <1>2, <1>9, <1>15, <2>1, <3>1 DEF Goes, Together, Reads, Rests, Sane, Keeps
  <2>3. CASE mode = "irq" /\ ok
    <3>1. x.n \in Nat /\ Size(x.n) < U32
      BY <1>1, <1>10, <1>15, Sizes DEF Number
    <3>2. PICK j \in 1 .. x.n : TransferLen(i) = Size(j)
      BY <2>1, <3>1, Chunk
    <3>3. f = ReadDone(i, Size(j), Stored(x.lba, Size(j)))
      BY <1>6, <1>15, <2>3, <3>2
    <3>4. /\ f.halted = {} /\ f.event = "none" /\ f.out = e.out
          /\ f.nsectors = (x.n - Size(j) \div BlkSize) % U32
          /\ f.stage = IF f.nsectors = 0 THEN "SEND_CSW" ELSE "DATA_IN"
          /\ f.in.buf = "block" /\ f.in.len = Size(j)
      BY <1>7, <2>1, <3>3, ReadDoneMakes
    <3>5. f.nsectors = x.n - j
      BY <1>1, <3>1, <3>4, CountedBlocks
    <3>6. k.left = f.in.len + Size(f.nsectors)
      <4>1. Size(x.n - j) = Size(x.n) - Size(j) /\ Size(x.n) \in Nat /\ Size(j) \in Nat
        <5>1. j \in 0 .. x.n /\ j \in Nat
          BY <3>1
        <5> QED
          BY <3>1, <5>1, SizeMinus, SizeFacts
      <4> QED
        BY <4>1, <2>1, <3>4, <3>5
    <3> QED
      BY <1>2, <1>9, <1>15, <2>1, <3>4, <3>6 DEF Goes, Together, Sends, Rests, Sane, Keeps
  <2>4. CASE mode = "irq" /\ ~ok
    <3>1. /\ "in" \in f.halted /\ f.stage = "DATA_IN" /\ f.out.buf = "cbw" /\ f.out.len = CbwLen
          /\ f.in = e.in /\ f.event = "none"
      BY <1>6, <1>7, <1>15, <2>4, BotAbortMakes
    <3>2. Apart(f, w, k)
      BY <1>2, <2>1, <3>1 DEF Apart, Keeps, Stalled
    <3> QED
      BY <1>9, <2>4, <3>1, <3>2 DEF Goes
  <2> QED
    BY <2>2, <2>3, <2>4
<1> QED
  BY <1>10, <1>11, <1>12, <1>13, <1>14, <1>15

\* A chunk of a write is on the medium, or it failed.
LEMMA ChunkStored ==
    ASSUME NEW e \in Dev, NEW w, NEW g, NEW ok, NEW c, NEW j \in 1 .. e.nsectors,
           Size(j) \in 0 .. BufSize,
           Silent(e), w.event = "none", e.in.len = 0, e.stage = "DATA_OUT", e.halted = {},
           g.cmd.op = "write", g.phase = "data" => Served(g.cmd), g.ret # "stall",
           IF j = e.nsectors THEN g.phase = "csw" /\ g.left = CswLen
                             ELSE g.phase = "data" /\ g.left = Size(e.nsectors - j),
           c => ok /\ g.ret \in {"none", "ok"} /\ Served(g.cmd),
           NEW f, f = IF ok THEN WriteDone(e, Size(j)) ELSE SendCsw(e, "failed")
    PROVE  Goes(f, w, g, c)
<1>1. e.event = "none" /\ e.out.buf = "none" /\ e.in.buf = "none"
  BY DEF Silent
<1>2. e.nsectors \in Number /\ e.nsectors \in Nat /\ j \in 0 .. e.nsectors /\ e.nsectors - j \in Nat
  BY DEF Dev, Number
<1>3. CASE ~ok
  <2>1. /\ f.halted = {} /\ f.stage = "WAIT_CSW" /\ f.in.buf = "csw" /\ f.in.len = CswLen
        /\ f.out = e.out /\ f.event = e.event
    BY <1>3, SendCswMakes
  <2>2. Replies(f, w)
    BY <1>1, <2>1 DEF Replies, Rests
  <2>3. g.phase = "data" => g.left # 0
    BY <1>2, SizeFacts
  <2> QED
    BY <1>3, <2>1, <2>2, <2>3 DEF Goes, Together, Fails
<1>4. CASE ok
  <2> DEFINE m == e.nsectors - j
  <2>1. m = (e.nsectors - Size(j) \div BlkSize) % U32
    BY <1>2, CountedBlocks
  <2>2. f = WriteDone(e, Size(j))
    BY <1>4
  <2> HIDE DEF m
  <2>3. /\ f.halted = {} /\ f.event = e.event
        /\ m = 0 => /\ f.stage = "WAIT_CSW" /\ f.status = "passed" /\ f.out = e.out
                    /\ f.in.buf = "csw" /\ f.in.len = CswLen
        /\ m # 0 => /\ f.stage = e.stage /\ f.in = e.in /\ f.nsectors = m
                    /\ f.out.buf = "block" /\ f.out.len = TransferLen(f)
    BY <2>1, <2>2, WriteDoneMakes
  <2>4. CASE m = 0
    <3>1. g.phase = "csw" /\ g.left = CswLen
      BY <1>2, <2>4 DEF m
    <3>2. Replies(f, w)
      BY <1>1, <2>3, <2>4 DEF Replies, Rests
    <3> QED
      BY <2>3, <2>4, <3>1, <3>2 DEF Goes, Together, Sane
  <2>5. CASE m # 0
    <3>1. g.phase = "data" /\ g.left = Size(m)
      BY <1>2, <2>5 DEF m
    <3>2. Asks(f, w, g)
      BY <1>1, <2>3, <2>5, <3>1 DEF Asks, Rests
    <3> QED
      BY <1>1, <2>3, <2>5, <3>1, <3>2 DEF Goes, Together, Sane
  <2> QED
    BY <2>4, <2>5
<1> QED
  BY <1>3, <1>4

\* A chunk of a read comes from the medium, or it failed.
LEMMA ChunkRead ==
    ASSUME NEW e \in Dev, NEW w, NEW g, NEW ok, NEW c, NEW data, Size(e.nsectors) < U32,
           Silent(e), w.event = "none", e.in.len = 0, e.stage = "DATA_IN", e.halted = {},
           e.nsectors # 0, g.cmd.op = "read", Served(g.cmd), g.ret # "stall",
           g.phase = "data", g.left = Size(e.nsectors),
           c => ok /\ g.ret \in {"none", "ok"},
           NEW f, f = IF ok THEN ReadDone(e, TransferLen(e), data) ELSE SendCsw(e, "failed")
    PROVE  Goes(f, w, g, c)
<1>1. e.event = "none" /\ e.out.buf = "none" /\ e.in.buf = "none"
  BY DEF Silent
<1>2. e.nsectors \in Number /\ e.nsectors \in Nat
  BY DEF Dev, Number
<1>3. CASE ~ok
  <2>1. /\ f.halted = {} /\ f.stage = "WAIT_CSW" /\ f.in.buf = "csw" /\ f.in.len = CswLen
        /\ f.out = e.out /\ f.event = e.event
    BY <1>3, SendCswMakes
  <2>2. Replies(f, w)
    BY <1>1, <2>1 DEF Replies, Rests
  <2>3. g.left # 0
    BY <1>2, SizeFacts
  <2> QED
    BY <1>3, <2>1, <2>2, <2>3 DEF Goes, Together, Fails
<1>4. CASE ok
  <2>2. PICK j \in 1 .. e.nsectors : TransferLen(e) = Size(j)
    BY <1>2, Chunk
  <2>3. j \in 0 .. e.nsectors /\ j \in Nat
    BY <1>2
  <2>4. f = ReadDone(e, Size(j), data)
    BY <1>4, <2>2
  <2>5. /\ f.halted = {} /\ f.event = e.event /\ f.out = e.out
        /\ f.nsectors = (e.nsectors - Size(j) \div BlkSize) % U32
        /\ f.stage = IF f.nsectors = 0 THEN "SEND_CSW" ELSE "DATA_IN"
        /\ f.in.buf = "block" /\ f.in.len = Size(j)
    BY <2>4, ReadDoneMakes
  <2>6. f.nsectors = e.nsectors - j
    BY <1>2, <2>3, <2>5, CountedBlocks
  <2>7. g.left = f.in.len + Size(f.nsectors)
    <3>1. /\ Size(e.nsectors - j) = Size(e.nsectors) - Size(j)
          /\ Size(e.nsectors) \in Nat /\ Size(j) \in Nat
      BY <1>2, <2>3, SizeMinus, SizeFacts
    <3> QED
      BY <3>1, <2>5, <2>6
  <2>8. Sends(f, w, g)
    BY <1>1, <2>5, <2>7 DEF Sends, Rests
  <2> QED
    BY <2>5, <2>8 DEF Goes, Together, Sane
<1> QED
  BY <1>3, <1>4

\* A chunk of a write arrives at a device that asked for it.
LEMMA ChunkArrives ==
    ASSUME NEW e \in Dev, NEW w, NEW g \in Host, NEW ok, NEW c, NEW n, n = TransferLen(e),
           Silent(e), w.event = "none", e.in.len = 0, e.stage = "DATA_OUT", e.halted = {},
           e.nsectors # 0, g.cmd.op = "write", Served(g.cmd), g.ret # "stall",
           g.phase = "data", g.left = Size(e.nsectors),
           c => ok /\ g.ret \in {"none", "ok"},
           NEW f, f = BulkOut(e, n, ok), NEW k, k = Sent(g, n)
    PROVE  Goes(f, w, k, c)
<1>1. e.event = "none" /\ e.out.buf = "none" /\ e.in.buf = "none"
  BY DEF Silent
<1>2. e.nsectors \in Number /\ e.nsectors \in Nat
  BY DEF Dev, Number
<1>3. Size(e.nsectors) < U32
  BY Sizes DEF Host, Number
<1>4. PICK j \in 1 .. e.nsectors : n = Size(j)
  BY <1>2, <1>3, Chunk
<1>5. j \in 0 .. e.nsectors /\ j \in Nat /\ n \in Nat /\ n \in 0 .. BufSize
  <2>1. j \in 0 .. e.nsectors /\ j \in Nat
    BY <1>2
  <2>2. n \in Nat
    BY <1>4, <2>1, SizeFacts
  <2>3. n \in 0 .. BufSize
    BY TransferLenRange
  <2> QED
    BY <2>1, <2>2, <2>3
<1>6. /\ Keeps(g, k)
      /\ IF j = e.nsectors THEN k.phase = "csw" /\ k.left = CswLen
                           ELSE k.phase = "data" /\ k.left = Size(e.nsectors - j)
  <2>1. /\ Keeps(g, k)
        /\ g.left # n => k.phase = g.phase /\ k.left = g.left - n
        /\ g.left = n => k.phase = "csw" /\ k.left = CswLen
    BY <1>5, SentMakes
  <2>2. /\ Size(e.nsectors - j) = Size(e.nsectors) - Size(j) /\ e.nsectors - j \in Nat
        /\ Size(e.nsectors) \in Nat /\ Size(j) \in Nat
    <3>1. e.nsectors - j \in Nat
      BY <1>2, <1>5
    <3>2. Size(e.nsectors) \in Nat /\ Size(j) \in Nat
      BY <1>2, <1>5, SizeFacts
    <3> QED
      BY <1>2, <1>5, <3>1, <3>2, SizeMinus
  <2>3. CASE j = e.nsectors
    BY <2>1, <2>3, <1>4
  <2>4. CASE j # e.nsectors
    <3>1. Size(e.nsectors - j) > 1
      BY <2>2, <2>4, <1>2, <1>5, SizeFacts
    <3> QED
      BY <2>1, <2>2, <2>4, <3>1, <1>4
  <2> QED
    BY <2>3, <2>4
<1>7. CASE mode = "irq"
  <2>1. f = IF ok THEN WriteDone(e, Size(j)) ELSE SendCsw(e, "failed")
    BY <1>4, <1>7 DEF BulkOut
  <2>2. k.cmd = g.cmd /\ k.ret = g.ret /\ Size(j) \in 0 .. BufSize
    BY <1>4, <1>5, <1>6 DEF Keeps
  <2> QED
    BY <1>6, <2>1, <2>2, ChunkStored
<1>8. CASE mode # "irq"
  <2> DEFINE m == [e EXCEPT !.nbytes = n]
  <2>1. f = Post(m, "DATA_OUT")
    BY <1>8 DEF BulkOut
  <2>2. /\ m \in Dev /\ m.event = "none" /\ m.nbytes = n /\ m.stage = e.stage /\ m.halted = {}
        /\ m.in = e.in /\ m.out = e.out /\ m.nsectors = e.nsectors /\ m.status = e.status
    BY <1>1, <1>5 DEF Dev
  <2> HIDE DEF m
  <2>3. /\ f.halted = {} /\ f.stage = "DATA_OUT" /\ f.event = "DATA_OUT" /\ f.nbytes = Size(j)
        /\ f.in = e.in /\ f.out = e.out /\ f.nsectors = e.nsectors
    BY <1>4, <2>1, <2>2, PostMakes
  <2>4. Stores(f, w, k)
    BY <1>1, <1>6, <2>3 DEF Stores, Keeps
  <2> QED
    BY <1>1, <1>6, <2>3, <2>4 DEF Goes, Together, Sane, Keeps
<1> QED
  BY <1>7, <1>8

\* A chunk of a read is out.
LEMMA ChunkLeaves ==
    ASSUME NEW e \in Dev, NEW w, NEW g \in Host, NEW ok, NEW c, NEW n \in Nat,
           Silent(e), w.event = "none", e.in.len = 0, e.halted = {},
           e.stage = IF e.nsectors = 0 THEN "SEND_CSW" ELSE "DATA_IN",
           g.cmd.op = "read", Served(g.cmd), g.ret # "stall",
           g.phase = "data", g.left = n + Size(e.nsectors),
           c => ok /\ g.ret \in {"none", "ok"},
           NEW f, f = BulkIn(e, ok), NEW k, k = Received(g, "block", n)
    PROVE  Goes(f, w, k, c)
<1>1. e.event = "none" /\ e.out.buf = "none" /\ e.in.buf = "none"
  BY DEF Silent
<1>2. e.nsectors \in Nat /\ Size(e.nsectors) \in Nat
  BY SizeFacts DEF Dev, Number
<1>3. CASE e.nsectors = 0
  <2>1. g.left = n
    BY <1>3, SizeFacts
  <2>2. Keeps(g, k) /\ k.phase = "csw" /\ k.left = CswLen
    BY <2>1, ReceivedMakes
  <2>3. f = SendCsw(e, "passed")
    BY <1>3 DEF BulkIn
  <2>4. /\ f.halted = {} /\ f.stage = "WAIT_CSW" /\ f.status = "passed"
        /\ f.in.buf = "csw" /\ f.in.len = CswLen /\ f.out = e.out /\ f.event = e.event
    BY <2>3, SendCswMakes
  <2> QED
    BY <1>1, <2>2, <2>4 DEF Goes, Together, Replies, Rests, Sane, Keeps
<1>4. CASE e.nsectors # 0
  <2>1. g.left # n /\ g.left - n = Size(e.nsectors)
    BY <1>2, <1>4, SizeFacts
  <2>2. Keeps(g, k) /\ k.phase = "data" /\ k.left = Size(e.nsectors)
    BY <2>1, ReceivedMakes
  <2>3. Size(e.nsectors) < U32
    BY <1>2, Sizes DEF Host, Number
  <2>4. CASE mode # "irq"
    <3>1. f = Post(e, "DATA_IN")
      BY <1>4, <2>4 DEF BulkIn
    <3>2. /\ f.halted = {} /\ f.stage = "DATA_IN" /\ f.event = "DATA_IN"
          /\ f.in = e.in /\ f.out = e.out /\ f.nsectors = e.nsectors
      BY <1>1, <1>4, <3>1, PostMakes
    <3> QED
      BY <1>1, <1>4, <2>2, <3>2 DEF Goes, Together, Reads, Sane, Keeps
  <2>5. CASE mode = "irq"
    <3>1. f = IF ok THEN ReadDone(e, TransferLen(e), Stored(e.start_sector, TransferLen(e)))
                    ELSE SendCsw(e, "failed")
      BY <1>4, <2>5 DEF BulkIn
    <3> QED
      BY <1>4, <2>2, <2>3, <3>1, ChunkRead DEF Keeps
  <2> QED
    BY <2>4, <2>5
<1> QED
  BY <1>3, <1>4

-----------------------------------------------------------------------------
(* Every action keeps host and device at a place.                          *)

\* What the actions start from.
LEMMA PaceParts ==
    ASSUME PaceInv
    PROVE  /\ ~d.configured => /\ h.prog = "gone" /\ h.phase = "idle"
                               /\ d.stage = "READ_CBW" /\ d.halted = {}
           /\ d.configured /\ d.halted = {} => Together(d, worker, h)
           /\ d.configured /\ d.halted # {} => Apart(d, worker, h)
           /\ h.phase = "cbw" => h.left = CbwLen
           /\ d.in.buf = "none" => d.in.len = 0
           /\ clean => Sane(d, h)
           /\ Starting(h, clean)
  BY Zenon DEF PaceInv, Pace

\* What they have to reach.
LEMMA Arrived ==
    ASSUME d'.configured, Goes(d', worker', h', clean'),
           h'.phase = "cbw" => h'.left = CbwLen, Starting(h', clean')
    PROVE  PaceInv'
  BY PaceNext, Zenon DEF Goes, Pace

\* The first calls go on, or succeed.
LEMMA StartingGoesOn ==
    ASSUME NEW g, NEW c, Starting(g, c), g.phase # "idle", NEW k, Keeps(g, k), NEW a,
           g.prog \in First => a
    PROVE  Starting(k, a)
  BY DEF Starting, Keeps

LEMMA StartingReturns ==
    ASSUME NEW g, NEW c, Starting(g, c), NEW k, NEW r, k.prog = AfterCall(g, r), k.phase = "idle",
           NEW a, g.prog \in First => a /\ r = "ok"
    PROVE  Starting(k, a)
<1>1. CASE g.prog \in First
  <2>1. a /\ AfterCall(g, r) \in {"ready"} \cup First
    BY <1>1 DEF AfterCall, First
  <2> QED
    BY <2>1 DEF Starting
<1>2. CASE g.prog \notin First
  <2>1. g.prog \in {"gone", "ready"} /\ AfterCall(g, r) = g.prog
    BY <1>2 DEF AfterCall, First, Starting
  <2> QED
    BY <2>1 DEF Starting, First
<1> QED
  BY <1>1, <1>2

\* The thread's calls are known, and its first ones are served.
LEMMA HostCallPace == MscInv /\ PaceInv /\ HostCall => PaceInv'
<1> SUFFICES ASSUME MscInv, PaceInv, HostCall PROVE PaceInv'
  OBVIOUS
<1>1. PICK c \in Calls :
        /\ h' = [h EXCEPT !.phase = "cbw", !.cmd = c, !.left = CbwLen, !.got = <<>>, !.ret = "none"]
        /\ clean' = (clean /\ Served(c))
  BY Zenon DEF HostCall
<1>2. /\ h'.phase = "cbw" /\ h'.left = CbwLen /\ h'.cmd = c /\ h'.ret = "none"
      /\ h'.prog = h.prog /\ h'.heals = h.heals
  BY <1>1, InvParts DEF Host
<1>3. h.phase = "idle" /\ ~(h.heals /\ h.ret = "stall") /\ d' = d /\ worker' = worker
  BY DEF HostCall, mscVars
<1>4. h.prog # "gone" /\ (h.prog \in First => c \in {NoData, Info})
  BY <1>1 DEF Calls, First
<1>5. Starting(h', clean')
  BY <1>1, <1>2, <1>4, PaceParts, FirstServed DEF Starting
<1>6. d.configured
  BY <1>4, PaceParts
<1>7. CASE d.halted = {}
  <2>1. Listens(d, worker) \/ Replies(d, worker)
    BY <1>3, <1>6, <1>7, PaceParts DEF Together
  <2>2. Together(d, worker, h')
    BY <1>2, <2>1 DEF Together
  <2>3. clean' => Sane(d, h')
    BY <1>1, <1>2, <1>3, PaceParts DEF Sane
  <2> QED
    BY <1>2, <1>3, <1>5, <1>6, <1>7, <2>2, <2>3, PaceParts, Arrived DEF Goes
<1>8. CASE d.halted # {}
  <2>1. Apart(d, worker, h) /\ ~clean
    BY <1>6, <1>8, PaceParts DEF Sane
  <2>2. Apart(d, worker, h')
    BY <1>2, <1>3, <2>1 DEF Apart, Stalled
  <2> QED
    BY <1>1, <1>2, <1>3, <1>5, <1>6, <1>8, <2>1, <2>2, PaceParts, Arrived DEF Goes
<1> QED
  BY <1>7, <1>8

\* A halted endpoint answers STALL: nothing moves on the device.
LEMMA WireStallPace == MscInv /\ PaceInv /\ WireStall => PaceInv'
<1> SUFFICES ASSUME MscInv, PaceInv, WireStall PROVE PaceInv'
  OBVIOUS
<1>1. /\ h' = Returned(h, "stall") /\ d' = d /\ worker' = worker /\ clean' = clean
      /\ d.halted # {} /\ h.phase # "idle"
  BY DEF WireStall, mscVars, Sending, Receiving
<1>2. /\ h'.phase = "idle" /\ h'.ret = "stall" /\ h'.cmd = h.cmd /\ h'.heals = h.heals
      /\ h'.prog = AfterCall(h, "stall")
  BY <1>1, InvParts, ReturnedMakes
<1>3. d.configured /\ Apart(d, worker, h) /\ ~clean
  BY <1>1, PaceParts DEF Sane
<1>4. Starting(h', clean')
  BY <1>1, <1>2, <1>3, PaceParts, StartingReturns DEF Starting
<1>5. Apart(d, worker, h')
  BY <1>2, <1>3 DEF Apart, Stalled
<1> QED
  BY <1>1, <1>2, <1>3, <1>4, <1>5, PaceParts, Arrived DEF Goes

\* A timeout before the device is at rest is too early.
LEMMA HostTimeoutPace ==
    NoCallWraps /\ "slow" \notin Faults /\ MscInv /\ PaceInv /\ HostTimeout => PaceInv'
<1> SUFFICES ASSUME NoCallWraps, "slow" \notin Faults, MscInv, PaceInv, HostTimeout PROVE PaceInv'
  OBVIOUS
<1>1. /\ h' = Returned(h, "timeout") /\ d' = d /\ worker' = worker
      /\ Quiet /\ h.phase # "idle" /\ (clean' => clean)
  BY DEF HostTimeout, mscVars
<1>2. /\ h'.phase = "idle" /\ h'.ret = "timeout" /\ h'.cmd = h.cmd /\ h'.heals = h.heals
      /\ h'.prog = AfterCall(h, "timeout")
  BY <1>1, InvParts, ReturnedMakes
<1>3. /\ worker.event = "none" /\ d.event = "none"
      /\ Sending => "out" \notin d.halted /\ d.out.buf = "none"
      /\ Receiving => "in" \notin d.halted /\ d.in.buf = "none"
  BY <1>1 DEF Quiet, DeviceIdle
<1>4. d.configured /\ h.cmd \in Command /\ h.phase \in {"cbw", "data", "csw"}
  BY <1>1, InvParts, PaceParts DEF Host
<1>5. CASE d.halted = {}
  <2>1. Together(d, worker, h)
    BY <1>4, <1>5, PaceParts
  <2>2. h.phase = "cbw" => Replies(d, worker) /\ ~Sane(d, h)
    <3> SUFFICES ASSUME h.phase = "cbw" PROVE Replies(d, worker) /\ ~Sane(d, h)
      OBVIOUS
    <3>1. d.out.buf = "none"
      BY <1>3 DEF Sending
    <3>2. Replies(d, worker)
      BY <2>1, <3>1 DEF Together, Listens
    <3> QED
      BY <3>2 DEF Replies, Sane
  <2>3. h.phase = "data" => Replies(d, worker) /\ ~Sane(d, h)
    <3> SUFFICES ASSUME h.phase = "data" PROVE Replies(d, worker) /\ ~Sane(d, h)
      OBVIOUS
    <3>1. Served(h.cmd)
      BY <2>1 DEF Together
    <3>2. /\ h.cmd.op \in {"info", "read"} => Receiving
          /\ h.cmd.op = "write" => Sending
      BY <1>4, <3>1, ServedKinds DEF Sending, Receiving
    <3>3. ~Informs(d, worker, h) /\ ~Sends(d, worker, h)
      BY <1>3, <3>2 DEF Informs, Sends
    <3>4. ~Asks(d, worker, h)
      BY <1>3, <3>2 DEF Asks
    <3>5. ~Reads(d, worker, h) /\ ~Stores(d, worker, h)
      BY <1>3 DEF Reads, Stores
    <3>6. Replies(d, worker)
      BY <2>1, <3>3, <3>4, <3>5 DEF Together, Fails
    <3> QED
      BY <3>6 DEF Replies, Sane
  <2>4. h.phase = "csw" => Listens(d, worker) /\ ~Sane(d, h)
    <3> SUFFICES ASSUME h.phase = "csw" PROVE Listens(d, worker) /\ ~Sane(d, h)
      OBVIOUS
    <3>1. ~Stores(d, worker, h) /\ ~Replies(d, worker)
      BY <1>3 DEF Receiving, Replies, Stores
    <3>2. Listens(d, worker)
      BY <2>1, <3>1 DEF Together
    <3> QED
      BY <3>2 DEF Listens, Sane
  <2>5. (Listens(d, worker) \/ Replies(d, worker)) /\ ~Sane(d, h)
    BY <1>4, <2>2, <2>3, <2>4
  <2>6. Together(d, worker, h')
    BY <1>2, <2>5 DEF Together
  <2>7. Starting(h', clean')
    BY <1>2, <2>5, PaceParts, StartingReturns DEF Starting
  <2> QED
    BY <1>1, <1>2, <1>4, <1>5, <2>5, <2>6, <2>7, PaceParts, Arrived DEF Goes
<1>6. CASE d.halted # {}
  <2>1. Apart(d, worker, h) /\ ~clean
    BY <1>4, <1>6, PaceParts DEF Sane
  <2>2. ~h.heals
    <3> SUFFICES ASSUME Stalled(d, h) PROVE FALSE
      BY <2>1 DEF Apart
    <3>1. h.phase \in {"data", "csw"} /\ d.out.buf = "cbw"
      BY <1>1 DEF Stalled
    <3> QED
      BY <1>3, <2>1, <3>1 DEF Apart, Sending, Receiving
  <2>3. Apart(d, worker, h')
    BY <1>2, <2>1, <2>2 DEF Apart
  <2>4. Starting(h', clean')
    BY <1>2, <2>1, PaceParts, StartingReturns DEF Starting
  <2> QED
    BY <1>1, <1>2, <1>4, <1>6, <2>1, <2>3, <2>4, PaceParts, Arrived DEF Goes
<1> QED
  BY <1>5, <1>6

\* The thread takes its message.
LEMMA WorkerStartsPace == MscInv /\ PaceInv /\ WorkerStarts => PaceInv'
<1> SUFFICES ASSUME MscInv, PaceInv, WorkerStarts PROVE PaceInv'
  OBVIOUS
<1> DEFINE n == IF d.event = "DATA_IN" THEN TransferLen(d) ELSE d.nbytes
<1>1. /\ worker' = [event |-> d.event, lba |-> d.start_sector, len |-> n]
      /\ d' = [d EXCEPT !.event = "none"] /\ UNCHANGED <<mode, disk, h, clean>>
      /\ d.event # "none" /\ worker.event = "none"
  BY DEF WorkerStarts, WorkerTake
<1>2. /\ d.event = "DATA_IN" => n = TransferLen(d)
      /\ d.event = "DATA_OUT" => n = d.nbytes
  OBVIOUS
<1> HIDE DEF n
<1>3. /\ d'.event = "none" /\ d'.stage = d.stage /\ d'.out = d.out /\ d'.in = d.in
      /\ d'.nsectors = d.nsectors /\ d'.halted = d.halted /\ d'.configured = d.configured
      /\ d'.status = d.status /\ worker'.event = d.event /\ worker'.len = n
  BY <1>1, InvParts DEF Dev
<1>4. TransferLen(d') = TransferLen(d)
  BY <1>3 DEF TransferLen
<1>5. d.configured
  BY <1>1, InvParts DEF Silent
<1>6. Together(d, worker, h) => Together(d', worker', h)
  <2> SUFFICES ASSUME Together(d, worker, h) PROVE Together(d', worker', h)
    OBVIOUS
  <2>1. ~Listens(d, worker) /\ ~Replies(d, worker)
    BY <1>1 DEF Listens, Replies, Rests
  <2>2. ~Informs(d, worker, h) /\ ~Sends(d, worker, h) /\ ~Asks(d, worker, h) /\ ~Fails(d, worker, h)
    BY <1>1, <2>1 DEF Informs, Sends, Asks, Fails, Rests
  <2>3. Reads(d, worker, h) => Reads(d', worker', h)
    BY <1>1, <1>2, <1>3, <1>4 DEF Reads
  <2>4. Stores(d, worker, h) => Stores(d', worker', h)
    BY <1>1, <1>2, <1>3 DEF Stores
  <2> QED
    BY <2>1, <2>2, <2>3, <2>4 DEF Together
<1>7. Apart(d, worker, h) => Apart(d', worker', h)
  BY <1>1, <1>3 DEF Apart, Stalled
<1>8. Sane(d, h) => Sane(d', h)
  BY <1>3 DEF Sane
<1> QED
  BY <1>1, <1>3, <1>5, <1>6, <1>7, <1>8, PaceParts, Arrived DEF Goes

\* The access is over.
LEMMA WorkerEndsPace == NoCallWraps /\ MscInv /\ PaceInv /\ WorkerEnds => PaceInv'
<1> SUFFICES ASSUME NoCallWraps, MscInv, PaceInv, WorkerEnds PROVE PaceInv'
  OBVIOUS
<1>1. PICK ok \in Answers : WorkerDone(ok) /\ clean' = (clean /\ ok) /\ UNCHANGED h
  BY Zenon DEF WorkerEnds
<1>2. /\ worker.event \in {"DATA_IN", "DATA_OUT"} /\ worker'.event = "none" /\ h' = h
      /\ worker.len \in 0 .. BufSize /\ d \in Dev /\ ok \in BOOLEAN
  BY <1>1, InvParts DEF WorkerDone, Resting, Working, Answers
<1>3. Silent(d) /\ d.configured /\ d.in.len = 0
  BY <1>2, InvParts, PaceParts DEF One, Silent
<1> DEFINE data == Stored(worker.lba, worker.len)
<1>4. /\ ~ok => d' = SendCsw(d, "failed")
      /\ ok /\ worker.event = "DATA_OUT" => d' = WriteDone(d, worker.len)
      /\ ok /\ worker.event = "DATA_IN" => d' = ReadDone(d, worker.len, data)
  BY <1>1 DEF WorkerDone
<1> HIDE DEF data
<1>5. /\ d.event = "none" /\ d.out.buf = "none" /\ d.in.buf = "none"
  BY <1>3 DEF Silent
<1>6. d'.configured
  BY <1>2, <1>3, <1>4, SendCswMakes, WriteDoneMakes, ReadDoneMakes DEF Same
<1>7. Together(d, worker, h) =>
        /\ ~(h.phase \in {"idle", "cbw"})
        /\ h.phase = "data" => Reads(d, worker, h) \/ Stores(d, worker, h)
        /\ h.phase = "csw" => Stores(d, worker, h)
  <2>1. ~Listens(d, worker) /\ ~Replies(d, worker)
    BY <1>2 DEF Listens, Replies, Rests
  <2>2. ~Informs(d, worker, h) /\ ~Sends(d, worker, h) /\ ~Asks(d, worker, h) /\ ~Fails(d, worker, h)
    BY <1>2, <2>1 DEF Informs, Sends, Asks, Fails, Rests
  <2> QED
    BY <2>1, <2>2 DEF Together
<1>8. h.phase \in {"idle", "cbw", "data", "csw"}
  BY InvParts DEF Host
<1>9. Starting(h', clean')
  <2>1. h.prog \in First => clean /\ (h.phase # "idle" => h.cmd \in {NoData, Info})
    BY PaceParts DEF Starting
  <2>2. h.prog \in First => Together(d, worker, h)
    BY <1>3, <2>1, PaceParts DEF Sane
  <2>3. h.prog \in First => h.cmd.op \in {"none", "info"} /\ h.cmd.op \in {"read", "write"}
    BY <1>7, <1>8, <2>1, <2>2 DEF Reads, Stores, NoData, Info
  <2> QED
    BY <1>2, <2>3, PaceParts DEF Starting
<1>10. CASE d.halted = {}
  <2>1. Together(d, worker, h)
    BY <1>3, <1>10, PaceParts
  <2>2. clean' => ok /\ h.ret \in {"none", "ok"} /\ (h.phase # "idle" => Served(h.cmd))
    BY <1>1, PaceParts DEF Sane
  <2>3. h.ret # "stall"
    BY <2>1 DEF Together
  <2>4. CASE h.phase = "data" /\ Reads(d, worker, h)
    <3>1. /\ h.cmd.op = "read" /\ d.stage = "DATA_IN" /\ worker.event = "DATA_IN"
          /\ worker.len = TransferLen(d) /\ d.nsectors # 0 /\ h.left = Size(d.nsectors)
      BY <1>2, <1>5, <2>4 DEF Reads
    <3>2. Served(h.cmd)
      BY <2>1, <2>4 DEF Together
    <3>3. d' = IF ok THEN ReadDone(d, TransferLen(d), data) ELSE SendCsw(d, "failed")
      BY <1>4, <3>1
    <3>4. Size(d.nsectors) < U32
      BY <3>1, InvParts, Sizes DEF Host, Number
    <3>5. Goes(d', worker', h, clean')
      BY <1>2, <1>3, <1>10, <2>2, <2>3, <2>4, <3>1, <3>2, <3>3, <3>4, ChunkRead
    <3> QED
      BY <1>2, <1>6, <1>9, <2>4, <3>5, Arrived
  <2>5. CASE Stores(d, worker, h)
    <3>1. /\ h.cmd.op = "write" /\ d.stage = "DATA_OUT"
      BY <2>5 DEF Stores
    <3>2. PICK j \in 1 .. d.nsectors :
            /\ \/ d.event = "DATA_OUT" /\ worker.event = "none" /\ d.nbytes = Size(j)
               \/ d.event = "none" /\ worker.event = "DATA_OUT" /\ worker.len = Size(j)
            /\ IF j = d.nsectors THEN h.phase = "csw"
                                 ELSE h.phase = "data" /\ h.left = Size(d.nsectors - j)
      BY <2>5, Zenon DEF Stores
    <3>3. worker.event = "DATA_OUT" /\ worker.len = Size(j)
      BY <1>5, <3>2
    <3>4. d' = IF ok THEN WriteDone(d, Size(j)) ELSE SendCsw(d, "failed")
      BY <1>4, <3>3
    <3>5. IF j = d.nsectors THEN h.phase = "csw" /\ h.left = CswLen
                            ELSE h.phase = "data" /\ h.left = Size(d.nsectors - j)
      BY <2>1, <3>2 DEF Together
    <3>6. h.phase = "data" => Served(h.cmd)
      BY <2>1 DEF Together
    <3>7. Goes(d', worker', h, clean')
      BY <1>2, <1>3, <1>10, <2>2, <2>3, <3>1, <3>3, <3>4, <3>5, <3>6, ChunkStored
    <3>8. h.phase # "cbw"
      BY <3>5
    <3> QED
      BY <1>2, <1>6, <1>9, <3>7, <3>8, Arrived
  <2> QED
    BY <1>7, <1>8, <2>1, <2>4, <2>5
<1>11. CASE d.halted # {}
  <2>1. Apart(d, worker, h) /\ ~clean
    BY <1>3, <1>11, PaceParts DEF Sane
  <2>2. ~h.heals
    BY <1>5, <2>1 DEF Apart, Stalled
  <2>3. "in" \in d.halted /\ (worker.event = "DATA_OUT" => d.stage = "DATA_OUT")
    BY <2>1 DEF Apart
  <2>4. /\ d'.halted = d.halted /\ d'.event = "none" /\ (d'.in.buf = "none" => d'.in.len = 0)
        /\ d'.out.buf = "none" \/ (d'.out.buf = "block" /\ d'.stage = "DATA_OUT")
    <3>1. CASE ~ok
      <4>1. /\ d'.halted = d.halted /\ d'.event = d.event /\ d'.out = d.out /\ d'.in.buf = "csw"
        BY <1>2, <1>4, <3>1, SendCswMakes
      <4> QED
        BY <1>5, <4>1
    <3>2. CASE ok /\ worker.event = "DATA_OUT"
      <4> DEFINE left == (d.nsectors - worker.len \div BlkSize) % U32
      <4>1. /\ d'.halted = d.halted /\ d'.event = d.event
            /\ left = 0 => d'.out = d.out /\ d'.in.buf = "csw"
            /\ left # 0 => d'.stage = d.stage /\ d'.in = d.in /\ d'.out.buf = "block"
        BY <1>2, <1>3, <1>4, <3>2, WriteDoneMakes
      <4> HIDE DEF left
      <4> QED
        BY <1>3, <1>5, <2>3, <3>2, <4>1
    <3>3. CASE ok /\ worker.event = "DATA_IN"
      <4>1. /\ d'.halted = d.halted /\ d'.event = d.event /\ d'.out = d.out /\ d'.in.buf = "block"
        BY <1>2, <1>4, <3>3, ReadDoneMakes
      <4> QED
        BY <1>5, <4>1
    <3> QED
      BY <1>2, <3>1, <3>2, <3>3
  <2>5. Apart(d', worker', h)
    BY <1>2, <2>2, <2>3, <2>4 DEF Apart
  <2> QED
    BY <1>1, <1>2, <1>6, <1>9, <1>11, <2>1, <2>3, <2>4, <2>5, PaceParts, Arrived DEF Goes
<1> QED
  BY <1>10, <1>11

\* The device forgets everything, and so does the host.
LEMMA BusResetPace == MscInv /\ PaceInv /\ BusReset => PaceInv'
<1> SUFFICES ASSUME MscInv, PaceInv, BusReset PROVE PaceInv'
  OBVIOUS
<1>1. /\ d' = [UsbdMscReset(d) EXCEPT !.out = Unarmed, !.in = Unarmed,
                                      !.halted = {}, !.configured = FALSE]
      /\ clean' = FALSE
  BY DEF BusReset, NotifyReset
<1>2. /\ d'.stage = "READ_CBW" /\ d'.halted = {} /\ ~d'.configured
      /\ d'.in.len = 0
  <2>1. Unarmed.len = 0
    BY DEF Unarmed
  <2> QED
    BY <1>1, <2>1, InvParts DEF UsbdMscReset, Dev
<1> DEFINE r == IF h.phase = "idle" THEN h.ret ELSE "shutdown"
           k == Returned(h, r)
<1>3. h' = [k EXCEPT !.prog = "gone"]
  BY DEF BusReset
<1>4. k.phase = "idle" /\ DOMAIN k = DOMAIN h
  <2>1. k.phase = "idle"
    BY InvParts, ReturnedMakes
  <2>2. DOMAIN k = DOMAIN h
    BY InvParts DEF Returned, Host
  <2> QED
    BY <2>1, <2>2
<1> HIDE DEF k
<1>5. h'.phase = "idle" /\ h'.prog = "gone"
  BY <1>3, <1>4, InvParts DEF Host
<1>6. Starting(h', clean')
  BY <1>5 DEF Starting, First
<1>7. Pace(d', worker', h', clean')
  BY <1>1, <1>2, <1>5, <1>6 DEF Pace
<1> QED
  BY <1>7, PaceNext

\* The first call starts anew.
LEMMA ConfigurePace == MscInv /\ PaceInv /\ Configure => PaceInv'
<1> SUFFICES ASSUME MscInv, PaceInv, Configure PROVE PaceInv'
  OBVIOUS
<1>1. /\ d' = ReadArmed([d EXCEPT !.configured = TRUE], "cbw", CbwLen)
      /\ worker' = worker /\ clean' = TRUE
      /\ h' = [h EXCEPT !.prog = "tur", !.tries = 0, !.ret = "none"]
      /\ ~d.configured
  BY DEF Configure, NotifyConfigured
<1>2. /\ Silent(d) /\ worker.event = "none" /\ h.phase = "idle"
      /\ d.stage = "READ_CBW" /\ d.halted = {} /\ (d.in.buf = "none" => d.in.len = 0)
  BY <1>1, InvParts, PaceParts
<1>3. /\ d'.out.buf = "cbw" /\ d'.out.len = CbwLen /\ d'.in = d.in /\ d'.event = d.event
      /\ d'.stage = d.stage /\ d'.halted = d.halted /\ d'.configured
  BY <1>1, InvParts DEF ReadArmed, Dev
<1>4. h'.phase = "idle" /\ h'.prog = "tur" /\ h'.ret = "none"
  BY <1>1, <1>2, InvParts DEF Host
<1>5. Listens(d', worker')
  BY <1>1, <1>2, <1>3 DEF Listens, Rests, Silent
<1>6. Together(d', worker', h')
  BY <1>4, <1>5 DEF Together
<1>7. Sane(d', h')
  BY <1>2, <1>3, <1>4 DEF Sane
<1>8. Starting(h', clean')
  BY <1>1, <1>4 DEF Starting, First
<1> QED
  BY <1>2, <1>3, <1>4, <1>6, <1>7, <1>8, Arrived DEF Goes

\* A host that heals finds the device listening.
LEMMA RecoverPace == MscInv /\ PaceInv /\ Recover => PaceInv'
<1> SUFFICES ASSUME MscInv, PaceInv, Recover PROVE PaceInv'
  OBVIOUS
<1>1. /\ d' = [UsbdMscReset(d) EXCEPT !.halted = {}] /\ worker' = worker
      /\ h' = [h EXCEPT !.ret = "none"] /\ clean' = TRUE
      /\ h.heals /\ h.phase = "idle" /\ h.ret = "stall"
  BY DEF Recover
<1>2. /\ d'.out = d.out /\ d'.in = d.in /\ d'.event = d.event /\ d'.stage = "READ_CBW"
      /\ d'.halted = {} /\ d'.configured = d.configured
  BY <1>1, InvParts DEF UsbdMscReset, Dev
<1>3. h'.phase = "idle" /\ h'.prog = h.prog /\ h'.ret = "none"
  BY <1>1, InvParts DEF Host
<1>4. Sane(d', h')
  BY <1>2, <1>3 DEF Sane
<1>5. Starting(h', clean')
  BY <1>1, <1>3, PaceParts DEF Starting
<1>6. CASE d.configured
  <2>1. d.halted # {}
    BY <1>1, <1>6, PaceParts DEF Together
  <2>2. Apart(d, worker, h)
    BY <1>6, <2>1, PaceParts
  <2>3. d.out.buf = "cbw" /\ d.out.len = CbwLen
    BY <1>1, <2>2 DEF Apart, Stalled
  <2>4. d.in.buf = "none" /\ d.event = "none" /\ worker.event = "none"
    BY <2>3, InvParts DEF One
  <2>5. Listens(d', worker')
    BY <1>1, <1>2, <2>3, <2>4 DEF Listens, Rests
  <2>6. Together(d', worker', h')
    BY <1>3, <2>5 DEF Together
  <2> QED
    BY <1>2, <1>3, <1>4, <1>5, <1>6, <2>6, PaceParts, Arrived DEF Goes
<1>7. CASE ~d.configured
  <2>1. Pace(d', worker', h', clean')
    BY <1>2, <1>3, <1>4, <1>5, <1>7, PaceParts DEF Pace
  <2> QED
    BY <2>1, PaceNext
<1> QED
  BY <1>6, <1>7

LEMMA StutterPace == PaceInv /\ UNCHANGED vars => PaceInv'
<1> SUFFICES ASSUME PaceInv, UNCHANGED vars PROVE PaceInv'
  OBVIOUS
<1>1. d' = d /\ worker' = worker /\ h' = h /\ clean' = clean
  BY DEF vars, mscVars
<1>2. Pace(d', worker', h', clean')
  BY <1>1 DEF PaceInv
<1> QED
  BY <1>2, PaceNext

\* Nothing is armed and no thread runs at the start.
LEMMA PaceStarts == Init => PaceInv
<1> SUFFICES ASSUME Init PROVE PaceInv
  OBVIOUS
<1>1. ~d.configured /\ d.stage = "READ_CBW" /\ d.halted = {} /\ d.in.len = 0 /\ clean = FALSE
  BY DEF Init, MscInit, Unarmed
<1>2. h.prog = "gone" /\ h.phase = "idle"
  BY DEF Init
<1> QED
  BY <1>1, <1>2 DEF PaceInv, Pace, Starting, First

\* A device that no longer understands its host: whatever arrives, the IN
\* endpoint stays halted, and it listens only where it took a command.
LEMMA ApartArrives ==
    ASSUME TypeOK, NEW e \in Dev, Silent(e), e.in.len = 0, "in" \in e.halted,
           NEW n \in 0 .. BufSize, NEW ok \in BOOLEAN, NEW f, f = BulkOut(e, n, ok),
           \/ e.stage = "READ_CBW" /\ n = CbwLen
           \/ e.stage = "DATA_IN"
           \/ e.stage = "DATA_OUT"
    PROVE  /\ "in" \in f.halted
           /\ f.out.buf = "cbw" =>
                 /\ e.stage = "READ_CBW" /\ f.stage \in {"READ_CBW", "DATA_IN"}
                 /\ f.out.len = CbwLen /\ (~e.cbw.in /\ e.cbw.len # 0 => "out" \in f.halted)
           /\ f.out.buf = "block" => f.stage = "DATA_OUT"
           /\ f.event = "DATA_OUT" => f.stage = "DATA_OUT"
           /\ f.in.buf = "none" => f.in.len = 0
<1>1. e.event = "none" /\ e.out.buf = "none" /\ e.in.buf = "none"
  BY DEF Silent
<1>2. CASE e.stage = "DATA_IN"
  <2>1. f = e
    BY <1>2 DEF BulkOut
  <2> QED
    BY <1>1, <2>1
<1>3. CASE e.stage = "DATA_OUT"
  <2>1. CASE mode # "irq"
    <3> DEFINE m == [e EXCEPT !.nbytes = n]
    <3>1. f = Post(m, "DATA_OUT")
      BY <1>3, <2>1 DEF BulkOut
    <3>2. /\ m \in Dev /\ m.event = "none" /\ m.stage = e.stage /\ m.halted = e.halted
          /\ m.in = e.in /\ m.out = e.out
      BY <1>1 DEF Dev
    <3> HIDE DEF m
    <3>3. /\ f.halted = e.halted /\ f.stage = "DATA_OUT" /\ f.in = e.in /\ f.out = e.out
      BY <1>3, <3>1, <3>2, PostMakes
    <3> QED
      BY <1>1, <3>3
  <2>2. CASE mode = "irq" /\ ~ok
    <3>1. f = SendCsw(e, "failed")
      BY <1>3, <2>2 DEF BulkOut
    <3>2. f.halted = e.halted /\ f.in.buf = "csw" /\ f.out = e.out /\ f.event = e.event
      BY <3>1, SendCswMakes
    <3> QED
      BY <1>1, <3>2
  <2>3. CASE mode = "irq" /\ ok
    <3> DEFINE left == (e.nsectors - n \div BlkSize) % U32
    <3>1. f = WriteDone(e, n)
      BY <1>3, <2>3 DEF BulkOut
    <3>2. /\ f.halted = e.halted /\ f.event = e.event
          /\ left = 0 => f.out = e.out /\ f.in.buf = "csw"
          /\ left # 0 => f.stage = e.stage /\ f.in = e.in /\ f.out.buf = "block"
      BY <3>1, WriteDoneMakes
    <3> HIDE DEF left
    <3> QED
      BY <1>1, <1>3, <3>2
  <2> QED
    BY <2>1, <2>2, <2>3
<1>4. CASE e.stage = "READ_CBW" /\ n = CbwLen
  <2> DEFINE m == [e EXCEPT !.residue = e.cbw.len]
             q == Parsed(m)
             i == [q EXCEPT !.stage = "DATA_IN"]
             o == [q EXCEPT !.stage = "DATA_OUT"]
             x == e.cbw
  <2>1. /\ m \in Dev /\ m.stage = "READ_CBW" /\ m.halted = e.halted /\ m.cbw = x /\ m.in = e.in
        /\ m.out = e.out /\ m.event = "none"
    <3>1. e.cbw.len \in Number
      BY CommandParts DEF Dev
    <3> QED
      BY <1>1, <1>4, <3>1 DEF Dev
  <2>2. f = IF Served(x) THEN Decoded(m, ok) ELSE BotAbort(q)
    BY <1>4 DEF BulkOut
  <2> HIDE DEF m
  <2>3. /\ q \in Dev /\ q.cbw = x /\ q.halted = e.halted /\ q.stage = "READ_CBW"
        /\ q.event = "none" /\ q.in = e.in /\ q.out = e.out
    <3>1. Silent(m)
      BY <1>1, <2>1 DEF Silent
    <3>2. q \in Dev
      BY <2>1, <3>1, ParsedFine
    <3>3. /\ Same(m, q) /\ q.halted = m.halted /\ q.stage = m.stage /\ q.event = m.event
          /\ q.in = m.in /\ q.out = m.out
      BY <2>1, ParsedMakes
    <3> QED
      BY <2>1, <3>2, <3>3 DEF Same
  <2>4. Decoded(m, ok) \in
          {SendCsw(m, "passed"), SendInfo(m, InfoLen), ReadArmed(o, "block", TransferLen(q)),
           Post(i, "DATA_IN"), ReadDone(i, TransferLen(i), Stored(x.lba, TransferLen(i))),
           BotAbort(i)}
    BY <2>1 DEF Decoded
  <2> HIDE DEF q, x
  <2>5. i \in Dev /\ i.cbw = x /\ i.halted = e.halted /\ i.stage = "DATA_IN" /\ i.event = "none"
        /\ i.in = e.in /\ i.out = e.out
    BY <2>3 DEF Dev
  <2>6. o \in Dev /\ o.halted = e.halted /\ o.stage = "DATA_OUT" /\ o.event = "none"
        /\ o.in = e.in /\ o.out = e.out
    BY <2>3 DEF Dev
  <2> HIDE DEF i, o
  <2>7. CASE f = SendCsw(m, "passed")
    <3>1. f.halted = e.halted /\ f.in.buf = "csw" /\ f.out = e.out /\ f.event = "none"
      BY <2>1, <2>7, SendCswMakes
    <3> QED
      BY <1>1, <3>1
  <2>8. CASE f = SendInfo(m, InfoLen)
    <3>1. f.halted = e.halted /\ f.in.buf = "info" /\ f.out = e.out /\ f.event = "none"
      BY <2>1, <2>8, SendInfoMakes
    <3> QED
      BY <1>1, <3>1
  <2>9. CASE f = ReadArmed(o, "block", TransferLen(q))
    <3> DEFINE t == TransferLen(q)
    <3>1. f = [o EXCEPT !.out = [buf |-> "block", len |-> t]]
      BY <2>9 DEF ReadArmed
    <3> HIDE DEF t
    <3>2. /\ f.halted = e.halted /\ f.stage = "DATA_OUT" /\ f.in = e.in /\ f.out.buf = "block"
      BY <2>6, <3>1 DEF Dev
    <3> QED
      BY <1>1, <3>2
  <2>10. CASE f = Post(i, "DATA_IN")
    <3>1. f.halted = e.halted /\ f.event = "DATA_IN" /\ f.in = e.in /\ f.out = e.out
      BY <2>5, <2>10, PostMakes
    <3> QED
      BY <1>1, <3>1
  <2>11. CASE f = ReadDone(i, TransferLen(i), Stored(x.lba, TransferLen(i)))
    <3>1. f.halted = e.halted /\ f.in.buf = "block" /\ f.out = e.out /\ f.event = "none"
      BY <2>5, <2>11, ReadDoneMakes
    <3> QED
      BY <1>1, <3>1
  <2>12. CASE f \in {BotAbort(i), BotAbort(q)}
    <3>1. \A a \in {i, q} : a \in Dev /\ a.cbw = x /\ a.stage \in {"READ_CBW", "DATA_IN"}
                            /\ a.event = "none" /\ a.in = e.in
      BY <2>3, <2>5
    <3>2. PICK a \in {i, q} : f = BotAbort(a)
      BY <2>12
    <3>3. /\ "in" \in f.halted /\ (~a.cbw.in /\ a.cbw.len # 0 => "out" \in f.halted)
          /\ f.stage = a.stage /\ f.out.buf = "cbw" /\ f.out.len = CbwLen
          /\ f.in = a.in /\ f.event = a.event
      BY <3>1, <3>2, BotAbortMakes
    <3> QED
      BY <1>4, <3>1, <3>3 DEF x
  <2> QED
    BY <2>2, <2>4, <2>7, <2>8, <2>9, <2>10, <2>11, <2>12
<1> QED
  BY <1>2, <1>3, <1>4

\* What the device is when its OUT endpoint has given up the transfer.
LEMMA FilledMakes ==
    ASSUME d \in Dev, NEW n, NEW e, e = [Filled(d, n) EXCEPT !.out = Unarmed]
    PROVE  /\ e.out.buf = "none" /\ e.in = d.in /\ e.event = d.event /\ e.stage = d.stage
           /\ e.halted = d.halted /\ e.nsectors = d.nsectors /\ e.configured = d.configured
           /\ d.out.buf = "cbw" => e.cbw = IF h.phase = "cbw" THEN h.cmd ELSE NoCommand
<1> DEFINE k == Filled(d, n)
<1>1. /\ k.in = d.in /\ k.event = d.event /\ k.stage = d.stage /\ k.halted = d.halted
      /\ k.nsectors = d.nsectors /\ k.configured = d.configured /\ DOMAIN k = DOMAIN d
      /\ d.out.buf = "cbw" => k.cbw = IF h.phase = "cbw" THEN h.cmd ELSE NoCommand
  <2>1. CASE d.out.buf = "cbw"
    <3> DEFINE c == IF h.phase = "cbw" THEN h.cmd ELSE NoCommand
    <3>1. k = [d EXCEPT !.cbw = c]
      BY <2>1 DEF Filled
    <3>2. k.cbw = c
      <4> HIDE DEF c, k
      <4> QED
        BY <3>1 DEF Dev
    <3> HIDE DEF c, k
    <3>3. /\ k.in = d.in /\ k.event = d.event /\ k.stage = d.stage /\ k.halted = d.halted
          /\ k.nsectors = d.nsectors /\ k.configured = d.configured /\ DOMAIN k = DOMAIN d
      BY <3>1 DEF Dev
    <3> QED
      BY <3>2, <3>3 DEF c
  <2>2. CASE d.out.buf # "cbw"
    <3> DEFINE b == IF h.phase = "data" THEN Payload(n) ELSE <<Junk>>
    <3>1. k = [d EXCEPT !.block_buffer = b]
      BY <2>2 DEF Filled
    <3> HIDE DEF b, k
    <3> QED
      BY <2>2, <3>1 DEF Dev
  <2> QED
    BY <2>1, <2>2
<1> HIDE DEF k
<1>2. e = [k EXCEPT !.out = Unarmed] /\ Unarmed.buf = "none"
  BY DEF k, Unarmed
<1>3. DOMAIN k = {"stage", "cbw", "residue", "status", "start_sector", "nsectors", "block_buffer",
                  "event", "nbytes", "out", "in", "halted", "configured"}
  BY <1>1 DEF Dev
<1>4. /\ e.out = Unarmed /\ e.in = k.in /\ e.event = k.event /\ e.stage = k.stage
      /\ e.halted = k.halted /\ e.nsectors = k.nsectors /\ e.configured = k.configured
      /\ e.cbw = k.cbw
  BY <1>2, <1>3
<1> QED
  BY <1>1, <1>2, <1>4

\* What the host sends arrives at a place that takes it, or at a device that
\* is apart.
LEMMA WireOutPace == NoCallWraps /\ MscInv /\ PaceInv /\ WireOut => PaceInv'
<1> SUFFICES ASSUME NoCallWraps, MscInv, PaceInv, WireOut PROVE PaceInv'
  OBVIOUS
<1> DEFINE n == Low(h.left, d.out.len)
           e == [Filled(d, n) EXCEPT !.out = Unarmed]
<1>1. PICK ok \in Answers :
        /\ ok \/ ReadsHere(e, n) \/ WritesHere(e)
        /\ d' = BulkOut(e, n, ok)
        /\ clean' = (clean /\ ok)
        /\ h' = Sent(h, n)
  BY Zenon DEF WireOut
<1>2. /\ Sending /\ "out" \notin d.halted /\ d.out.buf # "none"
      /\ worker' = worker /\ ok \in BOOLEAN /\ TypeOK
      /\ h \in Host /\ d \in Dev
  BY InvParts DEF WireOut, Answers, MscInv
<1>3. /\ h.left \in Nat /\ d.out.len \in 0 .. BufSize /\ n \in Nat /\ n <= h.left
      /\ n \in 0 .. BufSize
  <2>1. h.left \in Nat /\ d.out.len \in 0 .. BufSize /\ BufSize \in Nat
    BY <1>2, Sizes DEF Host, Dev, Number
  <2> QED
    BY <2>1 DEF Low
<1>4. n = Low(h.left, d.out.len)
  OBVIOUS
<1> HIDE DEF n
<1>5. e \in Dev /\ Silent(e) /\ e.configured = d.configured
  BY <1>2, <1>3, FilledFine
<1>6. /\ e.in = d.in /\ e.stage = d.stage /\ e.halted = d.halted /\ e.nsectors = d.nsectors
      /\ d.out.buf = "cbw" => e.cbw = IF h.phase = "cbw" THEN h.cmd ELSE NoCommand
  BY <1>2, FilledMakes, ZenonT(30)
<1> HIDE DEF e
<1>7. worker.event = "none" /\ d.event = "none" /\ d.in.buf = "none" /\ d.in.len = 0
  BY <1>2, InvParts, PaceParts DEF One
<1>8. h.phase \in {"cbw", "data"} /\ (h.phase = "data" => ~h.cmd.in)
  BY <1>2 DEF Sending
<1>9. d.configured /\ d'.configured
  <2>1. d.configured
    BY <1>8, PaceParts
  <2>2. Fine(e, d')
    BY <1>1, <1>2, <1>3, <1>5, BulkOutFine
  <2> QED
    BY <1>5, <2>1, <2>2 DEF Fine
<1>10. CASE d.halted = {}
  <2>1. Together(d, worker, h) /\ h.ret # "stall"
    BY <1>9, <1>10, PaceParts DEF Together
  <2>2. clean' => ok /\ h.ret \in {"none", "ok"} /\ Served(h.cmd)
    BY <1>1, <1>8, PaceParts DEF Sane
  <2>3. CASE h.phase = "cbw"
    <3>1. /\ d.stage = "READ_CBW" /\ d.out.buf = "cbw" /\ d.out.len = CbwLen /\ h.left = CbwLen
      BY <1>2, <2>1, <2>3, PaceParts DEF Together, Listens, Replies
    <3>2. n = CbwLen
      BY <1>4, <3>1 DEF Low
    <3>3. Goes(d', worker, h', clean')
      BY <1>1, <1>2, <1>5, <1>6, <1>7, <1>10, <2>1, <2>2, <2>3, <3>1, <3>2, CommandArrives
    <3>4. /\ Keeps(h, h') /\ h'.phase # "cbw"
      BY <1>1, <1>2, <1>3, <2>3, <3>1, <3>2, SentMakes
    <3>5. h.prog \in First => clean'
      <4>1. h.prog \in First => clean /\ h.cmd \in {NoData, Info}
        BY <2>3, PaceParts DEF Starting
      <4>2. e.stage = "READ_CBW" /\ e.cbw = h.cmd
        BY <1>6, <2>3, <3>1
      <4>3. h.prog \in First => ok
        BY <1>1, <4>1, <4>2 DEF ReadsHere, WritesHere, NoData, Info
      <4> QED
        BY <1>1, <4>1, <4>3
    <3>6. Starting(h', clean')
      BY <2>3, <3>4, <3>5, PaceParts, StartingGoesOn
    <3> QED
      BY <1>2, <1>9, <3>3, <3>4, <3>6, Arrived
  <2>4. CASE h.phase = "data"
    <3>1. Served(h.cmd)
      BY <2>1, <2>4 DEF Together
    <3>2. h.cmd.op # "read" /\ h.cmd.op # "info"
      BY <1>2, <1>8, <2>4, <3>1, ServedKinds DEF Host
    <3>3. ~Replies(d, worker) /\ ~Stores(d, worker, h)
      BY <1>2 DEF Replies, Stores
    <3>4. Asks(d, worker, h)
      BY <2>1, <2>4, <3>2, <3>3 DEF Together, Informs, Reads, Sends, Fails
    <3>5. /\ h.cmd.op = "write" /\ d.stage = "DATA_OUT" /\ d.out.len = TransferLen(d)
          /\ d.nsectors # 0 /\ h.left = Size(d.nsectors)
      BY <3>4 DEF Asks
    <3>6. n = TransferLen(e)
      <4>1. d.nsectors \in Nat /\ Size(d.nsectors) < U32
        BY <1>2, <3>5, Sizes DEF Host, Dev, Number
      <4>2. PICK j \in 1 .. d.nsectors : TransferLen(d) = Size(j)
        BY <3>5, <4>1, Chunk
      <4>3. Size(j) <= Size(d.nsectors) /\ Size(j) \in Nat /\ Size(d.nsectors) \in Nat
        <5>1. j \in Nat /\ j \in 0 .. d.nsectors
          BY <4>1
        <5>2. Size(j) <= Size(d.nsectors)
          BY <4>1, <5>1, SizeMinus
        <5> QED
          BY <4>1, <5>1, <5>2, SizeFacts
      <4>4. n = TransferLen(d)
        BY <1>4, <3>5, <4>2, <4>3 DEF Low
      <4> QED
        BY <1>6, <4>4 DEF TransferLen
    <3>7. e.in.len = 0 /\ e.stage = "DATA_OUT" /\ e.halted = {} /\ e.nsectors # 0
          /\ h.left = Size(e.nsectors)
      BY <1>6, <1>7, <1>10, <3>5
    <3>8. Goes(d', worker, h', clean')
      BY <1>1, <1>2, <1>5, <1>7, <2>1, <2>2, <2>4, <3>1, <3>5, <3>6, <3>7, ChunkArrives
    <3>9. Keeps(h, h') /\ h'.phase # "cbw"
      BY <1>1, <1>2, <1>3, <2>4, SentMakes
    <3>10. h.prog \notin First
      BY <2>4, <3>5, PaceParts DEF Starting, NoData, Info
    <3>11. Starting(h', clean')
      BY <2>4, <3>9, <3>10, PaceParts, StartingGoesOn
    <3> QED
      BY <1>2, <1>9, <3>8, <3>9, <3>11, Arrived
  <2> QED
    BY <1>8, <2>3, <2>4
<1>11. CASE d.halted # {}
  <2>1. Apart(d, worker, h) /\ ~clean /\ "in" \in d.halted
    BY <1>9, <1>11, PaceParts DEF Sane, Apart
  <2>2. d.out.buf \in {"cbw", "block"}
    BY <1>2 DEF Dev
  <2>3. d.out.buf = "cbw" => h.phase = "cbw" /\ d.stage \in {"READ_CBW", "DATA_IN"} /\ d.out.len = CbwLen
    BY <1>2, <1>8, <2>1 DEF Apart
  <2>4. d.out.buf = "block" => d.stage = "DATA_OUT"
    BY <2>1 DEF Apart
  <2>5. ~h.heals
    BY <1>8, <2>1, <2>3 DEF Apart, Stalled
  <2>6. d.out.buf = "cbw" => n = CbwLen /\ h.left = CbwLen /\ e.cbw = h.cmd
    BY <1>4, <1>6, <2>3, PaceParts DEF Low
  <2>7. /\ "in" \in d'.halted
        /\ d'.out.buf = "cbw" =>
              /\ e.stage = "READ_CBW" /\ d'.stage \in {"READ_CBW", "DATA_IN"}
              /\ d'.out.len = CbwLen /\ (~e.cbw.in /\ e.cbw.len # 0 => "out" \in d'.halted)
        /\ d'.out.buf = "block" => d'.stage = "DATA_OUT"
        /\ d'.event = "DATA_OUT" => d'.stage = "DATA_OUT"
        /\ d'.in.buf = "none" => d'.in.len = 0
    <3>1. \/ e.stage = "READ_CBW" /\ n = CbwLen
          \/ e.stage = "DATA_IN"
          \/ e.stage = "DATA_OUT"
      BY <1>6, <2>2, <2>3, <2>4, <2>6
    <3>2. e.in.len = 0 /\ "in" \in e.halted
      BY <1>6, <1>7, <2>1
    <3> QED
      BY <1>1, <1>2, <1>3, <1>5, <3>1, <3>2, ApartArrives
  <2>8. /\ Keeps(h, h') /\ (h'.phase = "cbw" => h'.left = CbwLen)
        /\ d.out.buf = "cbw" /\ h'.phase = "data" => h.cmd.len # 0
    <3>1. /\ Keeps(h, h')
          /\ h.left # n => h'.phase = h.phase /\ h'.left = h.left - n
          /\ h.left = n /\ h.phase = "cbw" /\ h.cmd.len # 0 => h'.phase = "data"
          /\ h.left = n /\ (h.phase = "cbw" => h.cmd.len = 0) => h'.phase = "csw"
      BY <1>1, <1>2, <1>3, SentMakes
    <3>2. h.phase = "cbw" => n \in {0, 1} /\ h.left = 1 /\ CbwLen = 1
      BY <1>3, PaceParts, Sizes
    <3>3. h'.phase = "cbw" => h'.left = CbwLen
      BY <1>8, <3>1, <3>2
    <3>4. d.out.buf = "cbw" /\ h'.phase = "data" => h.cmd.len # 0
      BY <2>3, <2>6, <3>1
    <3> QED
      BY <3>1, <3>3, <3>4
  <2>9. Apart(d', worker, h')
    BY <1>6, <1>7, <2>2, <2>3, <2>4, <2>5, <2>6, <2>7, <2>8 DEF Apart, Keeps
  <2>10. Starting(h', clean')
    BY <1>8, <2>1, <2>8, PaceParts, StartingGoesOn DEF Starting
  <2> QED
    BY <1>1, <1>2, <1>9, <2>1, <2>7, <2>8, <2>9, <2>10, Arrived DEF Goes
<1> QED
  BY <1>10, <1>11

\* After an answer the device listens.
LEMMA ListensAgain ==
    ASSUME NEW e \in Dev, e.stage = "WAIT_CSW", NEW ok, NEW f, f = BulkIn(e, ok)
    PROVE  /\ f.stage = "READ_CBW" /\ f.out.buf = "cbw" /\ f.out.len = CbwLen
           /\ f.in = e.in /\ f.event = e.event /\ f.halted = e.halted
<1>1. f = ReadArmed([e EXCEPT !.stage = "READ_CBW"], "cbw", CbwLen)
  BY DEF BulkIn
<1> QED
  BY <1>1 DEF ReadArmed, Dev

\* What the device sends is what the host waits for.
LEMMA WireInPace == NoCallWraps /\ MscInv /\ PaceInv /\ WireIn => PaceInv'
<1> SUFFICES ASSUME NoCallWraps, MscInv, PaceInv, WireIn PROVE PaceInv'
  OBVIOUS
<1> DEFINE n == Low(h.left, d.in.len)
           e == [d EXCEPT !.in = Unarmed]
<1>1. PICK ok \in Answers :
        /\ ok \/ ReadsNext(d)
        /\ d' = BulkIn(e, ok) /\ clean' = (clean /\ ok) /\ h' = Received(h, d.in.buf, n)
  BY Zenon DEF WireIn
<1>2. /\ Receiving /\ "in" \notin d.halted /\ d.in.buf # "none"
      /\ worker' = worker /\ ok \in BOOLEAN /\ TypeOK /\ h \in Host /\ d \in Dev
  BY InvParts DEF WireIn, Answers, MscInv
<1>3. h.left \in Nat /\ d.in.len \in Nat /\ n \in Nat /\ n = Low(h.left, d.in.len)
  <2>1. h.left \in Nat /\ d.in.len \in Nat
    BY <1>2, Sizes DEF Host, Dev, Number
  <2> QED
    BY <2>1 DEF Low
<1> HIDE DEF n
<1>4. d.out.buf = "none" /\ d.event = "none" /\ worker.event = "none"
  BY <1>2, InvParts DEF One
<1>5. /\ e \in Dev /\ Silent(e) /\ e.in.buf = "none" /\ e.in.len = 0 /\ e.stage = d.stage
      /\ e.halted = d.halted /\ e.nsectors = d.nsectors /\ e.out = d.out /\ e.event = d.event
      /\ e.configured = d.configured
  <2>1. /\ Unarmed \in [buf : {"none", "info", "block", "csw"}, len : 0 .. BufSize]
        /\ Unarmed.buf = "none" /\ Unarmed.len = 0
    BY Sizes DEF Unarmed
  <2> QED
    BY <1>2, <1>4, <2>1 DEF Dev, Silent
<1> HIDE DEF e
<1>6. h.phase \in {"csw", "data"} /\ (h.phase = "data" => h.cmd.in)
  BY <1>2 DEF Receiving
<1>7. d.configured /\ d'.configured
  <2>1. d.configured
    BY <1>6, PaceParts
  <2>2. Fine(e, d')
    BY <1>1, <1>2, <1>5, BulkInFine
  <2> QED
    BY <1>5, <2>1, <2>2 DEF Fine
<1>8. d.halted = {} /\ Together(d, worker, h) /\ h.ret # "stall"
  BY <1>2, <1>7, PaceParts DEF Apart, Together
<1>9. clean' => ok /\ clean /\ h.ret \in {"none", "ok"} /\ Served(h.cmd)
  BY <1>1, <1>6, PaceParts DEF Sane
<1>10. h.prog \in First => clean /\ clean'
  <2>1. h.prog \in First => clean /\ h.cmd \in {NoData, Info}
    BY <1>6, PaceParts DEF Starting
  <2>2. d.stage = "DATA_IN" => h.cmd.op \in {"read", "write"}
    BY <1>6, <1>8 DEF Together, Listens, Replies, Informs, Reads, Sends, Asks, Stores, Fails
  <2>3. h.prog \in First => ok
    BY <1>1, <2>1, <2>2 DEF ReadsNext, NoData, Info
  <2> QED
    BY <1>1, <2>1, <2>3
<1>11. CASE h.phase = "csw"
  <2>1. Replies(d, worker)
    BY <1>2, <1>8, <1>11 DEF Together, Listens, Stores
  <2>2. d.stage = "WAIT_CSW" /\ d.in.buf = "csw"
    BY <2>1 DEF Replies
  <2>3. /\ d'.stage = "READ_CBW" /\ d'.out.buf = "cbw" /\ d'.out.len = CbwLen
        /\ d'.in = e.in /\ d'.event = e.event /\ d'.halted = e.halted
    BY <1>1, <1>5, <2>2, ListensAgain
  <2>4. /\ h'.phase = "idle" /\ h'.prog = AfterCall(h, h'.ret)
        /\ h'.ret = IF d.status = "passed" THEN "ok" ELSE "failed"
    BY <1>1, <1>2, <1>3, <1>11, <2>2, ReceivedMakes
  <2>5. clean => d.status = "passed"
    BY <2>2, PaceParts DEF Sane
  <2>6. Starting(h', clean')
    BY <1>10, <2>4, <2>5, PaceParts, StartingReturns
  <2>7. Listens(d', worker)
    BY <1>4, <1>5, <2>3 DEF Listens, Rests
  <2>8. Together(d', worker, h') /\ d'.halted = {}
    BY <1>5, <1>8, <2>3, <2>4, <2>7 DEF Together
  <2>9. clean' => Sane(d', h')
    BY <1>9, <2>3, <2>4, <2>5, <2>8 DEF Sane
  <2> QED
    BY <1>2, <1>5, <1>7, <2>3, <2>4, <2>6, <2>8, <2>9, Arrived DEF Goes
<1>12. CASE h.phase = "data"
  <2>1. Served(h.cmd)
    BY <1>8, <1>12 DEF Together
  <2>2. ~Reads(d, worker, h) /\ ~Asks(d, worker, h) /\ ~Stores(d, worker, h)
    BY <1>2, <1>4 DEF Reads, Asks, Stores
  <2>3. \/ d.in.buf # "block" /\ Keeps(h, h') /\ h'.phase = "csw" /\ h'.left = CswLen
        \/ d.in.buf = "block" /\ Keeps(h, h') /\ h'.phase \in {"csw", "data"}
    BY <1>1, <1>2, <1>3, <1>12, ReceivedMakes
  <2>4. Keeps(h, h') /\ h'.phase # "cbw"
    BY <2>3
  <2>5. Starting(h', clean')
    BY <1>10, <1>12, <2>4, PaceParts, StartingGoesOn
  <2>6. CASE Sends(d, worker, h)
    <3>1. /\ h.cmd.op = "read" /\ d.stage = (IF d.nsectors = 0 THEN "SEND_CSW" ELSE "DATA_IN")
          /\ d.in.buf = "block" /\ h.left = d.in.len + Size(d.nsectors)
      BY <2>6 DEF Sends
    <3>2. Size(d.nsectors) \in Nat
      BY <1>2, SizeFacts DEF Dev, Number
    <3>3. n = d.in.len
      BY <1>3, <3>1, <3>2 DEF Low
    <3>4. /\ e.stage = (IF e.nsectors = 0 THEN "SEND_CSW" ELSE "DATA_IN")
          /\ h.left = n + Size(e.nsectors) /\ e.halted = {}
      BY <1>5, <1>8, <3>1, <3>3
    <3>5. h' = Received(h, "block", n)
      BY <1>1, <3>1
    <3>6. Goes(d', worker, h', clean')
      BY <1>1, <1>2, <1>3, <1>4, <1>5, <1>8, <1>9, <1>12, <2>1, <3>1, <3>4, <3>5, ChunkLeaves
    <3> QED
      BY <1>2, <1>7, <2>4, <2>5, <3>6, Arrived
  <2>7. CASE Informs(d, worker, h)
    <3>1. d.stage = "SEND_CSW" /\ d.in.buf = "info"
      BY <2>7 DEF Informs
    <3>2. d' = SendCsw(e, "passed")
      BY <1>1, <1>5, <3>1 DEF BulkIn
    <3>3. /\ d'.halted = e.halted /\ d'.stage = "WAIT_CSW" /\ d'.status = "passed"
          /\ d'.in.buf = "csw" /\ d'.in.len = CswLen /\ d'.out = e.out /\ d'.event = e.event
      BY <1>5, <3>2, SendCswMakes
    <3>4. Replies(d', worker)
      BY <1>4, <1>5, <3>3 DEF Replies, Rests
    <3>5. h'.phase = "csw" /\ h'.left = CswLen
      BY <2>3, <3>1
    <3>6. Goes(d', worker, h', clean')
      BY <1>5, <1>8, <1>9, <2>1, <2>4, <3>3, <3>4, <3>5 DEF Goes, Together, Sane, Keeps
    <3> QED
      BY <1>2, <1>7, <2>4, <2>5, <3>6, Arrived
  <2>8. CASE Fails(d, worker, h)
    <3>1. d.stage = "WAIT_CSW" /\ d.in.buf = "csw"
      BY <2>8 DEF Fails, Replies
    <3>2. ~clean
      BY <1>12, <3>1, PaceParts DEF Sane
    <3>3. /\ d'.stage = "READ_CBW" /\ d'.out.buf = "cbw" /\ d'.out.len = CbwLen
          /\ d'.in = e.in /\ d'.event = e.event /\ d'.halted = e.halted
      BY <1>1, <1>5, <3>1, ListensAgain
    <3>4. Listens(d', worker)
      BY <1>4, <1>5, <3>3 DEF Listens, Rests
    <3>5. h'.phase = "csw" /\ h'.left = CswLen
      BY <2>3, <3>1
    <3>6. Goes(d', worker, h', clean')
      BY <1>1, <1>5, <1>8, <2>4, <3>2, <3>3, <3>4, <3>5 DEF Goes, Together, Keeps
    <3> QED
      BY <1>2, <1>7, <2>4, <2>5, <3>6, Arrived
  <2> QED
    BY <1>8, <1>12, <2>2, <2>6, <2>7, <2>8 DEF Together
<1> QED
  BY <1>6, <1>11, <1>12

-----------------------------------------------------------------------------

\* Resets find the medium at rest, no timeout is too early, and lengths fit.
Patient == "busy" \notin Faults /\ "slow" \notin Faults /\ NoCallWraps

\* PaceInv is inductive, with MscInv.
LEMMA PaceStep == Patient /\ MscInv /\ PaceInv /\ [Next]_vars => PaceInv'
  BY HostCallPace, WireOutPace, WireInPace, WireStallPace, HostTimeoutPace, WorkerStartsPace,
     WorkerEndsPace, BusResetPace, ConfigurePace, RecoverPace, StutterPace, Zenon DEF Next, Patient

LEMMA InPace == ASSUME Patient PROVE Spec => [](MscInv /\ PaceInv)
<1>1. Init => MscInv /\ PaceInv
  BY InitHolds, PaceStarts
<1>2. MscInv /\ PaceInv /\ [Next]_vars => (MscInv /\ PaceInv)'
  BY StepInv, PaceStep DEF Patient
<1> QED
  BY <1>1, <1>2, PTL DEF Spec

\* Unless a timeout or a reset comes while the device works, and for every
\* command whose length fits 32 bits: the device never sends more than the
\* host's URB takes, and never takes the host's data for a command
\* (usbd_msc_bot_abort halts the OUT endpoint before it listens), also after
\* any number of stalls, failures of the medium, resets and recoveries.
THEOREM MscInStep == ASSUME Patient PROVE Spec => []InStep
<1>1. MscInv /\ PaceInv => InStep
  <2> SUFFICES ASSUME MscInv, PaceInv PROVE InStep
    OBVIOUS
  <2>1. h \in Host /\ d \in Dev /\ h.left \in Nat
    BY InvParts DEF Host, Number
  <2>2. (Sending \/ Receiving) => d.configured
    BY PaceParts DEF Sending, Receiving
  <2>3. Receiving /\ "in" \notin d.halted => d.in.len <= h.left
    <3> SUFFICES ASSUME Receiving, "in" \notin d.halted PROVE d.in.len <= h.left
      OBVIOUS
    <3>1. Together(d, worker, h)
      BY <2>2, PaceParts DEF Apart
    <3>2. h.phase \in {"csw", "data"}
      BY DEF Receiving
    <3>3. d.in.buf = "none" => d.in.len <= h.left
      BY <2>1, PaceParts
    <3>4. CASE h.phase = "csw"
      BY <3>1, <3>3, <3>4, Sizes DEF Together, Listens, Replies, Stores
    <3>5. CASE h.phase = "data"
      <4>1. Size(d.nsectors) \in Nat /\ d.in.len \in Nat
        <5>1. d.nsectors \in Nat /\ d.in.len \in Nat
          BY <2>1, Sizes DEF Dev, Number
        <5> QED
          BY <5>1, SizeFacts
      <4>2. Informs(d, worker, h) => d.in.len <= h.left
        BY DEF Informs
      <4>3. Sends(d, worker, h) => d.in.len <= h.left
        BY <4>1 DEF Sends
      <4>4. Fails(d, worker, h) => d.in.len <= h.left
        BY <2>1, Sizes DEF Fails, Replies
      <4>5. Reads(d, worker, h) \/ Asks(d, worker, h) \/ Stores(d, worker, h) => d.in.buf = "none"
        BY DEF Reads, Asks, Stores
      <4> QED
        BY <3>1, <3>3, <3>5, <4>2, <4>3, <4>4, <4>5 DEF Together
    <3> QED
      BY <3>2, <3>4, <3>5
  <2>4. h.phase = "data" /\ Sending /\ "out" \notin d.halted => d.out.buf # "cbw"
    <3> SUFFICES ASSUME h.phase = "data", Sending, "out" \notin d.halted, d.out.buf = "cbw"
                 PROVE  FALSE
      OBVIOUS
    <3>1. ~h.cmd.in
      BY DEF Sending
    <3>2. CASE d.halted = {}
      <4>1. Together(d, worker, h)
        BY <2>2, <3>2, PaceParts
      <4> QED
        BY <4>1 DEF Together, Informs, Reads, Sends, Asks, Stores, Fails, Replies
    <3>3. CASE d.halted # {}
      BY <2>2, <3>1, <3>3, PaceParts DEF Apart
    <3> QED
      BY <3>2, <3>3
  <2> QED
    BY <2>3, <2>4 DEF InStep
<1> QED
  BY <1>1, InPace, PTL

\* Unless a timeout or a reset comes while the device works, and for every
\* command whose length fits 32 bits: as long as nothing goes wrong, no call
\* of the host returns an error and no timeout expires, whatever came before
\* the last configuration or recovery.
THEOREM MscNothingFails == ASSUME Patient PROVE Spec => []NothingFails
<1>1. PaceInv => NothingFails
  BY PaceParts DEF NothingFails, Sane, Starting, First
<1> QED
  BY <1>1, InPace, PTL

-----------------------------------------------------------------------------
(* What the blocks hold.                                                   *)

\* No address is beyond the 32 bits it is computed in: SCSI_read10 and
\* SCSI_write10 check a sum that may wrap.
NoAddressWraps == \A c \in Cbws : c.lba + c.n < U32

\* The k blocks of the medium m from a on, and that a write of ver has left
\* its data in them.
Held(a, k, m) == [i \in 1 .. k |-> m[a + i - 1]]
Kept(a, ver, k, m) == \A i \in 1 .. k : m[a + i - 1] = <<ver, i>>

\* The data of a write of ver that follows its first k blocks.
Follows(data, ver, k) == \A i \in 1 .. Len(data) : data[i] = <<ver, k + i>>

\* The device e is in the middle of a write: the next chunk is asked for, or
\* it is in the buffer and waits for the medium.
Wants(e, g) ==
    /\ e.out.buf = "block" /\ e.out.len = TransferLen(e)
    /\ g.phase = "data" /\ g.cmd = e.cbw /\ g.left = Size(e.nsectors)
Waits(e, w, g, j) ==
    /\ Len(e.block_buffer) = j
    /\ Follows(e.block_buffer, e.cbw.ver, e.cbw.n - e.nsectors)
    /\ \/ e.event = "DATA_OUT" /\ e.nbytes = Size(j)
       \/ w.event = "DATA_OUT" /\ w.len = Size(j) /\ w.lba = e.start_sector
    /\ IF j < e.nsectors THEN g.phase = "data" /\ g.cmd = e.cbw /\ g.left = Size(e.nsectors - j)
                         ELSE g.phase # "data" /\ (g.phase = "csw" => g.cmd = e.cbw)
Writing(e, w, g, m) ==
    /\ e.cbw.op = "write" /\ Served(e.cbw) /\ e.nsectors \in 1 .. e.cbw.n
    /\ e.start_sector = e.cbw.lba + e.cbw.n - e.nsectors
    /\ Kept(e.cbw.lba, e.cbw.ver, e.cbw.n - e.nsectors, m)
    /\ Wants(e, g) \/ \E j \in 1 .. e.nsectors : Waits(e, w, g, j)

\* ... or of a read: what the host has got and what is on its way are the
\* first blocks of the call.
Reading(e, w, g, m) ==
    /\ e.nsectors \in 0 .. g.cmd.n
    /\ e.start_sector = g.cmd.lba + g.cmd.n - e.nsectors
    /\ w.event = "DATA_IN" => w.lba = e.start_sector
    /\ IF e.in.buf = "block"
       THEN /\ e.in.len = Size(Len(e.block_buffer))
            /\ g.got \o e.block_buffer = Held(g.cmd.lba, g.cmd.n - e.nsectors, m)
       ELSE g.got = Held(g.cmd.lba, g.cmd.n - e.nsectors, m)

\* A call that is about to return 0 has done what it was asked for.
Done(g, m) ==
    /\ g.cmd.op = "read" => Served(g.cmd) /\ g.got = Held(g.cmd.lba, g.cmd.n, m)
    /\ g.cmd.op = "write" => Served(g.cmd) /\ Kept(g.cmd.lba, g.cmd.ver, g.cmd.n, m)

\* Only a read gets anything.
Fresh(g) == g.phase = "cbw" \/ (g.phase # "idle" /\ g.cmd.op # "read") => g.got = <<>>

Holds(e, w, g, m) ==
    /\ e.stage = "DATA_OUT" => Writing(e, w, g, m)
    /\ "out" \in e.halted => e.stage = "READ_CBW" /\ e.out.buf = "cbw"
    /\ e.halted = {} /\ g.phase = "data" /\ g.cmd.op = "read" /\ e.stage # "WAIT_CSW"
          => Reading(e, w, g, m)
    /\ e.halted = {} /\ g.phase = "csw" /\ e.stage = "WAIT_CSW" /\ e.status = "passed" => Done(g, m)
    /\ Fresh(g)
StoreInv == Holds(d, worker, h, disk)

\* A served access stays on the medium.
LEMMA ServedRange ==
    ASSUME NoAddressWraps, NEW c \in Command, Served(c), c.op \in {"read", "write"}
    PROVE  c.lba \in Nat /\ c.n \in Nat /\ c.lba + c.n <= Blocks /\ c.lba + c.n < U32
<1>1. CASE c \in Cbws
  <2>1. c.lba \in Number /\ c.n \in Number /\ c.lba + c.n < U32
    BY <1>1, CbwParts DEF NoAddressWraps
  <2>2. c.lba \in Nat /\ c.n \in Nat /\ U32 \in Nat
    BY <2>1, Sizes DEF Number
  <2>3. (c.lba + c.n) % U32 <= Blocks
    BY DEF Served, InRange
  <2>4. (c.lba + c.n) % U32 = c.lba + c.n
    BY <2>1, <2>2
  <2> QED
    BY <2>1, <2>2, <2>3, <2>4
<1>2. CASE c \in {NoCommand, NoData, Info}
  BY <1>2 DEF NoCommand, NoData, Info
<1> QED
  BY <1>1, <1>2 DEF Command

\* Whole blocks are not rounded up.
LEMMA RoundedUp == ASSUME NEW j \in Nat PROVE (Size(j) + BlkSize - 1) \div BlkSize = j
<1>1. BlkSize \in Nat /\ BlkSize > 1
  BY Sizes
<1>2. (j * BlkSize + (BlkSize - 1)) \div BlkSize = j
  BY <1>1
<1>3. Size(j) + BlkSize - 1 = j * BlkSize + (BlkSize - 1)
  <2>1. j * BlkSize \in Nat
    BY <1>1
  <2> QED
    BY <1>1, <2>1 DEF Size
<1> QED
  BY <1>2, <1>3

LEMMA TouchedBlocks ==
    ASSUME NEW a, NEW j \in Nat
    PROVE  Touched(a, Size(j)) = {s \in DOMAIN disk : a <= s /\ s < a + j}
  BY RoundedUp DEF Touched

\* The medium m differs from the one before in some of the n blocks from a on
\* only, and there it has the data of a write of ver.
Puts(a, n, ver, m) ==
    /\ DOMAIN m = DOMAIN disk
    /\ \A s \in DOMAIN disk : \/ m[s] = disk[s]
                              \/ s \in a .. a + n - 1 /\ m[s] = <<ver, s - a + 1>>

\* A chunk of a write on the medium: the blocks before it stay as they are,
\* and nothing but the blocks of the call changes.
LEMMA ChunkWritten ==
    ASSUME disk \in Medium, NEW a \in Nat, NEW n \in Nat, a + n <= Blocks,
           NEW k \in Nat, NEW j \in Nat, k + j <= n, NEW ver, Kept(a, ver, k, disk),
           NEW data \in Seq(Nat \X Nat), Len(data) = j, Follows(data, ver, k),
           NEW m, m = Written(a + k, Size(j), data)
    PROVE  Puts(a, n, ver, m) /\ Kept(a, ver, k + j, m)
<1>1. /\ DOMAIN disk = 0 .. Blocks - 1 /\ DOMAIN data = 1 .. j /\ Blocks \in Nat
      /\ \A i \in 1 .. j : data[i] = <<ver, k + i>>
  BY MscAssumption, SMTT(30) DEF Medium, MscAssumption, Follows
<1> DEFINE b == a + k
<1>2. Touched(b, Size(j)) = {s \in DOMAIN disk : b <= s /\ s < b + j}
  BY TouchedBlocks
<1>3. /\ DOMAIN m = 0 .. Blocks - 1
      /\ \A s \in 0 .. Blocks - 1 : ~(b <= s /\ s < b + j) => m[s] = disk[s]
      /\ \A s \in 0 .. Blocks - 1 :
            b <= s /\ s < b + j => m[s] = IF s - b + 1 \in DOMAIN data THEN data[s - b + 1] ELSE Junk
  BY <1>1, <1>2 DEF Written
<1>4. ASSUME NEW s \in 0 .. Blocks - 1, b <= s, s < b + j
      PROVE  s \in a .. a + n - 1 /\ m[s] = <<ver, s - a + 1>>
  <2>1. s \in Nat /\ s - b + 1 \in 1 .. j
    BY <1>1, <1>4
  <2>2. m[s] = <<ver, k + (s - b + 1)>>
    BY <1>1, <1>3, <1>4, <2>1
  <2>3. k + (s - b + 1) = s - a + 1
    BY <2>1
  <2>4. s \in a .. a + n - 1
    BY <1>4, <2>1
  <2> QED
    BY <2>2, <2>3, <2>4
<1>5. Kept(a, ver, k + j, m)
  <2> SUFFICES ASSUME NEW i \in 1 .. k + j PROVE m[a + i - 1] = <<ver, i>>
    BY DEF Kept
  <2>1. a + i - 1 \in 0 .. Blocks - 1
    BY <1>1
  <2>2. CASE i \in 1 .. k
    <3>1. disk[a + i - 1] = <<ver, i>>
      BY <2>2 DEF Kept
    <3>2. ~(b <= a + i - 1)
      BY <2>2
    <3> QED
      BY <1>3, <2>1, <3>1, <3>2
  <2>3. CASE i \notin 1 .. k
    <3>1. b <= a + i - 1 /\ a + i - 1 < b + j
      BY <2>3
    <3>2. m[a + i - 1] = <<ver, (a + i - 1) - a + 1>>
      BY <1>4, <2>1, <3>1
    <3>3. (a + i - 1) - a + 1 = i
      OBVIOUS
    <3> QED
      BY <3>2, <3>3
  <2> QED
    BY <2>2, <2>3
<1> QED
  BY <1>1, <1>3, <1>4, <1>5 DEF Puts

\* The first blocks of a call, as a sequence.
LEMMA HeldIs ==
    ASSUME disk \in Medium, NEW a \in Nat, NEW k \in Nat, a + k <= Blocks
    PROVE  /\ Held(a, k, disk) \in Seq(Nat \X Nat) /\ Len(Held(a, k, disk)) = k
           /\ \A i \in 1 .. k : Held(a, k, disk)[i] = disk[a + i - 1]
<1>1. ASSUME NEW i \in 1 .. k PROVE disk[a + i - 1] \in Nat \X Nat
  <2>1. a + i - 1 \in 0 .. Blocks - 1
    BY MscAssumption DEF MscAssumption
  <2> QED
    BY <2>1 DEF Medium
<1> QED
  BY <1>1 DEF Held

\* A chunk of a read from the medium goes on where the one before it ended.
LEMMA ChunkHeld ==
    ASSUME TypeOK, NEW a \in Nat, NEW k \in Nat, NEW j \in Nat, a + k + j <= Blocks
    PROVE  /\ Stored(a + k, Size(j)) \in Seq(Nat \X Nat) /\ Len(Stored(a + k, Size(j))) = j
           /\ Held(a, k, disk) \o Stored(a + k, Size(j)) = Held(a, k + j, disk)
<1> DEFINE data == Stored(a + k, Size(j))
<1>1. Size(j) \div BlkSize = j /\ disk \in Medium
  BY SizeFacts DEF TypeOK, Medium
<1>2. \A i \in 1 .. j : a + k + i - 1 \in DOMAIN disk /\ disk[a + k + i - 1] \in Nat \X Nat
  BY <1>1, MscAssumption DEF Medium, MscAssumption
<1>3. data = [i \in 1 .. j |-> disk[a + k + i - 1]]
  BY <1>1, <1>2 DEF Stored
<1>4. data \in Seq(Nat \X Nat) /\ Len(data) = j
  <2>1. a + k \in Nat /\ Size(j) \in Nat
    BY SizeFacts
  <2> QED
    BY <1>1, <2>1, StoredFine
<1> DEFINE x == Held(a, k, disk)
           y == Held(a, k + j, disk)
           z == x \o data
<1>5. x \in Seq(Nat \X Nat) /\ Len(x) = k /\ \A i \in 1 .. k : x[i] = disk[a + i - 1]
  <2>1. a + k <= Blocks
    BY MscAssumption DEF MscAssumption
  <2> QED
    BY <1>1, <2>1, HeldIs
<1>6. /\ y \in Seq(Nat \X Nat) /\ Len(y) = k + j
      /\ \A i \in 1 .. k + j : y[i] = disk[a + i - 1]
  <2>1. k + j \in Nat /\ a + (k + j) <= Blocks
    BY MscAssumption DEF MscAssumption
  <2> QED
    BY <1>1, <2>1, HeldIs
<1>7. \A i \in 1 .. j : data[i] = disk[a + k + i - 1]
  BY <1>3
<1> HIDE DEF x, y
<1>8. /\ z \in Seq(Nat \X Nat) /\ Len(z) = Len(x) + Len(data)
      /\ \A i \in 1 .. Len(x) + Len(data) : z[i] = IF i <= Len(x) THEN x[i] ELSE data[i - Len(x)]
  BY <1>4, <1>5, ConcatProperties, Zenon
<1> HIDE DEF z
<1>9. z = y
  <2>1. Len(z) = k + j /\ Len(z) = Len(y)
    BY <1>4, <1>5, <1>6, <1>8
  <2>2. ASSUME NEW i \in 1 .. k + j PROVE z[i] = y[i]
    <3>1. z[i] = IF i <= k THEN x[i] ELSE data[i - k]
      BY <1>4, <1>5, <1>8
    <3>2. CASE i <= k
      <4>1. i \in 1 .. k /\ z[i] = x[i]
        BY <3>1, <3>2
      <4> QED
        BY <1>5, <1>6, <4>1
    <3>3. CASE ~(i <= k)
      <4>1. i - k \in 1 .. j /\ z[i] = data[i - k]
        BY <3>1, <3>3
      <4>2. data[i - k] = disk[a + k + (i - k) - 1]
        BY <1>7, <4>1
      <4>3. a + k + (i - k) - 1 = a + i - 1
        OBVIOUS
      <4> QED
        BY <1>6, <4>1, <4>2, <4>3
    <3> QED
      BY <3>2, <3>3
  <2> QED
    BY <1>6, <1>8, <2>1, <2>2, SeqEqual
<1> QED
  BY <1>4, <1>9 DEF x, y, z
-----------------------------------------------------------------------------
(* What the operations leave of the data.                                  *)

\* Where the device is in the command, and what is in its buffer.
SameData(e, f) ==
    /\ f.nsectors = e.nsectors /\ f.start_sector = e.start_sector
    /\ f.block_buffer = e.block_buffer /\ f.nbytes = e.nbytes

LEMMA CountedData ==
    ASSUME NEW e \in Dev, NEW j \in 0 .. e.nsectors, e.start_sector + j < U32,
           NEW f, f = Counted(e, Size(j))
    PROVE  f.nsectors = e.nsectors - j /\ f.start_sector = e.start_sector + j
<1>1. e.nsectors \in Number /\ e.start_sector \in Number /\ j \in Nat /\ U32 \in Nat
  BY Sizes DEF Dev, Number
<1> DEFINE a == (e.start_sector + Size(j) \div BlkSize) % U32
           b == (e.nsectors - Size(j) \div BlkSize) % U32
           c == (e.residue - Size(j)) % U32
<1>2. f = [e EXCEPT !.start_sector = a, !.nsectors = b, !.residue = c]
  BY DEF Counted, Dev
<1>3. b = e.nsectors - j
  BY <1>1, CountedBlocks
<1>4. a = e.start_sector + j
  <2>1. Size(j) \div BlkSize = j
    BY <1>1, SizeFacts
  <2>2. e.start_sector + j \in 0 .. U32 - 1
    BY <1>1 DEF Number
  <2>3. (e.start_sector + j) % U32 = e.start_sector + j
    BY <1>1, <2>2
  <2> QED
    BY <2>1, <2>3
<1> HIDE DEF a, b, c
<1>5. f.nsectors = b /\ f.start_sector = a
  BY <1>2 DEF Dev
<1> QED
  BY <1>3, <1>4, <1>5

LEMMA ReadDoneData ==
    ASSUME NEW e \in Dev, NEW j \in 0 .. e.nsectors, e.start_sector + j < U32, NEW data,
           NEW f, f = ReadDone(e, Size(j), data)
    PROVE  /\ f.nsectors = e.nsectors - j /\ f.start_sector = e.start_sector + j
           /\ f.block_buffer = data
<1> DEFINE k == Counted(e, Size(j))
           b == IF k.nsectors = 0 THEN "SEND_CSW" ELSE k.stage
<1>1. k.nsectors = e.nsectors - j /\ k.start_sector = e.start_sector + j
  BY CountedData
<1>2. DOMAIN k = DOMAIN e
  BY DEF Counted, Dev
<1>3. f = WriteArmed([k EXCEPT !.stage = b, !.block_buffer = data], "block", Size(j))
  <2>1. k.stage = k["stage"]
    OBVIOUS
  <2> QED
    BY <1>2 DEF ReadDone, Dev
<1> HIDE DEF k
<1> HIDE DEF b
<1>4. DOMAIN e = {"stage", "cbw", "residue", "status", "start_sector", "nsectors", "block_buffer",
                  "event", "nbytes", "out", "in", "halted", "configured"}
  BY DEF Dev
<1>5. f.nsectors = k.nsectors /\ f.start_sector = k.start_sector /\ f.block_buffer = data
  BY <1>2, <1>3, <1>4 DEF WriteArmed
<1> QED
  BY <1>1, <1>5

LEMMA WriteDoneData ==
    ASSUME NEW e \in Dev, NEW j \in 0 .. e.nsectors, j # e.nsectors, e.start_sector + j < U32,
           Size(j) \in 0 .. BufSize, Silent(e), NEW f, f = WriteDone(e, Size(j))
    PROVE  f.nsectors = e.nsectors - j /\ f.start_sector = e.start_sector + j
<1> DEFINE k == Counted(e, Size(j))
<1>1. k \in Dev /\ k.nsectors = e.nsectors - j /\ k.start_sector = e.start_sector + j
  BY CountedFine, CountedData
<1>2. f = IF k.nsectors = 0 THEN SendCsw(k, "passed")
                            ELSE ReadArmed(k, "block", TransferLen(k))
  BY DEF WriteDone
<1>3. e.nsectors - j # 0
  BY DEF Dev, Number
<1> HIDE DEF k
<1> DEFINE m == TransferLen(k)
<1>4. f = [k EXCEPT !.out = [buf |-> "block", len |-> m]]
  BY <1>1, <1>2, <1>3 DEF ReadArmed
<1> HIDE DEF m
<1>5. f.nsectors = k.nsectors /\ f.start_sector = k.start_sector
  BY <1>1, <1>4 DEF Dev
<1> QED
  BY <1>1, <1>5

LEMMA ParsedData ==
    ASSUME NEW e \in Dev, e.cbw.op \in {"read", "write"}, e.cbw.len # 0, NEW f, f = Parsed(e)
    PROVE  f.nsectors = e.cbw.n /\ f.start_sector = e.cbw.lba
  BY DEF Parsed, Dev

LEMMA PostData ==
    ASSUME NEW e \in Dev, e.event = "none", NEW v, NEW f, f = Post(e, v)
    PROVE  SameData(e, f)
  BY DEF Post, Dev, SameData
\* What the host has got.
LEMMA ReturnedGot ==
    ASSUME NEW g \in Host, NEW r, NEW k, k = Returned(g, r)
    PROVE  k.got = IF r = "ok" THEN g.got ELSE <<>>
<1> DEFINE q == AfterCall(g, r)
           t == IF g.prog = "sense" THEN g.tries + 1 ELSE g.tries
           m == IF r = "ok" THEN g.got ELSE <<>>
<1>1. k = [g EXCEPT !.prog = q, !.phase = "idle", !.ret = r, !.left = 0, !.tries = t, !.got = m]
  BY DEF Returned, Host
<1> HIDE DEF q, t, m
<1>2. k.got = m
  BY <1>1 DEF Host
<1> QED
  BY <1>2 DEF m

LEMMA SentGot ==
    ASSUME NEW g \in Host, NEW n, NEW k, k = Sent(g, n)
    PROVE  k.got = g.got
<1> DEFINE f == [g EXCEPT !.left = @ - n]
<1>1. f.got = g.got /\ DOMAIN f = {"prog", "tries", "phase", "cmd", "left", "got", "heals", "ret"}
  BY DEF Host
<1>2. k = CASE f.left # 0 -> f
            [] f.left = 0 /\ g.phase = "cbw" -> AfterCbw(f)
            [] OTHER -> ToCsw(f)
  BY DEF Sent
<1> HIDE DEF f
<1>3. AfterCbw(f).got = f.got /\ ToCsw(f).got = f.got
  BY <1>1 DEF AfterCbw, ToCsw
<1> QED
  BY <1>1, <1>2, <1>3

LEMMA ReceivedGot ==
    ASSUME NEW g \in Host, NEW b, NEW n, NEW k, k = Received(g, b, n)
    PROVE  /\ g.phase = "csw" =>
                 k.got = IF b = "csw" /\ d.status = "passed" THEN g.got ELSE <<>>
           /\ g.phase = "data" /\ g.cmd.op # "read" => k.got = g.got
           /\ g.phase = "data" /\ g.cmd.op = "read" /\ b = "block" =>
                 k.got = g.got \o SubSeq(d.block_buffer, 1, n \div BlkSize)
<1> DEFINE more == CASE g.cmd.op # "read" -> g.got
                     [] g.cmd.op = "read" /\ b = "block" -> g.got \o SubSeq(d.block_buffer, 1, n \div BlkSize)
                     [] OTHER -> Append(g.got, Junk)
           f == [g EXCEPT !.left = @ - n, !.got = more]
           r == IF b = "csw" /\ d.status = "passed" THEN "ok" ELSE "failed"
<1>1. k = CASE g.phase = "csw" -> Returned(g, r)
            [] g.phase = "data" /\ (b # "block" \/ f.left = 0) -> ToCsw(f)
            [] OTHER -> f
  BY DEF Received
<1>2. /\ g.cmd.op # "read" => more = g.got
      /\ g.cmd.op = "read" /\ b = "block" => more = g.got \o SubSeq(d.block_buffer, 1, n \div BlkSize)
  BY Zenon
<1> HIDE DEF more
<1>3. f.got = more /\ DOMAIN f = {"prog", "tries", "phase", "cmd", "left", "got", "heals", "ret"}
  BY DEF Host
<1> HIDE DEF f
<1>4. ToCsw(f).got = f.got
  BY <1>3 DEF ToCsw
<1>5. g.phase = "csw" => k = Returned(g, r)
  BY <1>1
<1>6. g.phase = "data" => k.got = more
  BY <1>1, <1>3, <1>4
<1>7. g.phase = "csw" => k.got = IF r = "ok" THEN g.got ELSE <<>>
  BY <1>5, ReturnedGot
<1> QED
  BY <1>2, <1>6, <1>7, Zenon

-----------------------------------------------------------------------------
(* From one place to the next.                                             *)

LEMMA StoreNext == Holds(d', worker', h', disk') => StoreInv'
  BY DEF StoreInv, Holds, Fresh, Writing, Follows, Wants, Waits, Kept, Reading, Held, Done, Size, TransferLen,
         Low, Served, InRange

\* What the actions start from.
LEMMA StoreParts ==
    ASSUME StoreInv
    PROVE  /\ d.stage = "DATA_OUT" => Writing(d, worker, h, disk)
           /\ "out" \in d.halted => d.stage = "READ_CBW" /\ d.out.buf = "cbw"
           /\ d.halted = {} /\ h.phase = "data" /\ h.cmd.op = "read" /\ d.stage # "WAIT_CSW"
                 => Reading(d, worker, h, disk)
           /\ d.halted = {} /\ h.phase = "csw" /\ d.stage = "WAIT_CSW" /\ d.status = "passed"
                 => Done(h, disk)
           /\ Fresh(h)
  BY Zenon DEF StoreInv, Holds

\* An answer that is no promise.
LEMMA RefusedHolds ==
    ASSUME NEW e, NEW w, NEW g, NEW m, e.stage # "DATA_OUT", Fresh(g),
           e.halted = {} /\ e.stage = "WAIT_CSW" /\ g.phase = "csw" => e.status = "failed",
           g.phase = "data" => g.cmd.op # "read" \/ e.stage = "WAIT_CSW" \/ e.halted # {},
           "out" \in e.halted => e.stage = "READ_CBW" /\ e.out.buf = "cbw"
    PROVE  Holds(e, w, g, m)
  BY DEF Holds
\* The device e has a chunk of j blocks for the medium in its buffer.
Chunked(e, j) ==
    /\ e.cbw.op = "write" /\ Served(e.cbw) /\ e.nsectors \in 1 .. e.cbw.n
    /\ e.start_sector = e.cbw.lba + e.cbw.n - e.nsectors
    /\ Kept(e.cbw.lba, e.cbw.ver, e.cbw.n - e.nsectors, disk)
    /\ j \in 1 .. e.nsectors /\ Len(e.block_buffer) = j
    /\ Follows(e.block_buffer, e.cbw.ver, e.cbw.n - e.nsectors)

\* The medium took a chunk of a write: the next one is asked for, or the call
\* has kept its promise.
LEMMA WrittenHolds ==
    ASSUME NoAddressWraps, TypeOK, NEW e \in Dev, Silent(e), e.stage = "DATA_OUT",
           "out" \notin e.halted, NEW w, NEW g, Fresh(g), NEW j, Chunked(e, j),
           Size(j) \in 0 .. BufSize,
           IF j < e.nsectors THEN g.phase = "data" /\ g.cmd = e.cbw /\ g.left = Size(e.nsectors - j)
                             ELSE g.phase # "data" /\ (g.phase = "csw" => g.cmd = e.cbw),
           NEW f, f = WriteDone(e, Size(j)),
           NEW m, m = Written(e.start_sector, Size(j), e.block_buffer)
    PROVE  Holds(f, w, g, m) /\ Puts(e.cbw.lba, e.cbw.n, e.cbw.ver, m) /\ (j = e.nsectors => f.stage = "WAIT_CSW")
<1> DEFINE c == e.cbw
           n == c.n
           a == c.lba
           s == e.nsectors
           k == n - s
<1>1. /\ c.op = "write" /\ Served(c) /\ s \in 1 .. n /\ e.start_sector = a + n - s
      /\ Kept(a, c.ver, k, disk) /\ j \in 1 .. s /\ Len(e.block_buffer) = j
      /\ Follows(e.block_buffer, c.ver, k)
  BY DEF Chunked
<1>2. a \in Nat /\ n \in Nat /\ a + n <= Blocks /\ a + n < U32
  <2>1. c \in Command
    BY DEF Dev
  <2> QED
    BY <1>1, <2>1, ServedRange
<1>3. e.block_buffer \in Seq(Nat \X Nat) /\ disk \in Medium
  BY DEF Dev, TypeOK, Medium
<1>4. g.phase # "data" \/ g.cmd = c
  BY <1>1 DEF Chunked
<1> HIDE DEF a, n, s
<1>5. k \in Nat /\ s \in Nat /\ j \in Nat /\ k + j <= n /\ e.start_sector = a + k /\ s = n - k
      /\ j \in 0 .. s
  BY <1>1, <1>2
<1>6. s \in Number
  BY DEF Dev, s
<1> HIDE DEF k
<1>7. Puts(a, n, c.ver, m) /\ Kept(a, c.ver, k + j, m)
  BY <1>1, <1>2, <1>3, <1>5, ChunkWritten
<1>8. Puts(c.lba, c.n, c.ver, m)
  BY <1>7 DEF a, n
<1>9. (s - Size(j) \div BlkSize) % U32 = s - j
  BY <1>5, <1>6, CountedBlocks
<1>10. /\ Same(e, f) /\ f.halted = e.halted /\ f.event = e.event
       /\ s - j = 0 => f.stage = "WAIT_CSW"
       /\ s - j # 0 => /\ f.stage = e.stage
                       /\ f.out.buf = "block" /\ f.out.len = TransferLen(f)
  BY <1>9, WriteDoneMakes DEF s
<1>11. CASE j = s
  <2>1. f.stage = "WAIT_CSW" /\ f.halted = e.halted
    BY <1>5, <1>10, <1>11
  <2>2. g.phase # "data" /\ (g.phase = "csw" => g.cmd = c)
    BY <1>5, <1>11 DEF s
  <2>3. g.phase = "csw" => Done(g, m)
    <3>1. k + j = n
      BY <1>2, <1>5, <1>11
    <3> QED
      BY <1>1, <1>7, <2>2, <3>1 DEF Done, a, n
  <2>4. Holds(f, w, g, m)
    BY <2>1, <2>2, <2>3 DEF Holds
  <2> QED
    BY <1>8, <2>1, <2>4
<1>12. CASE j # s
  <2>1. j < s /\ s - j # 0
    BY <1>5, <1>12
  <2>2. g.phase = "data" /\ g.cmd = c /\ g.left = Size(s - j)
    BY <2>1 DEF s
  <2>3. f.nsectors = s - j /\ f.start_sector = e.start_sector + j
    <3>1. e.start_sector + j < U32
      <4>1. (a + k) + j <= a + n
        BY <1>2, <1>5
      <4> QED
        BY <1>2, <1>5, <4>1, Sizes
    <3> QED
      BY <1>5, <1>12, <3>1, WriteDoneData DEF s
  <2>4. /\ f.cbw = c /\ f.stage = "DATA_OUT" /\ f.halted = e.halted
        /\ f.out.buf = "block" /\ f.out.len = TransferLen(f)
    BY <1>10, <2>1 DEF Same
  <2>5. Wants(f, g)
    BY <2>2, <2>3, <2>4 DEF Wants
  <2>6. /\ f.nsectors \in 1 .. n /\ f.start_sector = a + n - f.nsectors
        /\ n - f.nsectors = k + j
    BY <1>2, <1>5, <2>1, <2>3
  <2>7. Writing(f, w, g, m)
    BY <1>1, <1>7, <2>4, <2>5, <2>6 DEF Writing, a, n
  <2>8. Holds(f, w, g, m)
    BY <1>1, <2>2, <2>4, <2>7 DEF Holds
  <2> QED
    BY <1>8, <1>12, <2>8 DEF s
<1> QED
  BY <1>11, <1>12
\* The medium gave a chunk of a read: it follows what the host has got.
LEMMA ReadHolds ==
    ASSUME NoAddressWraps, TypeOK, NEW e \in Dev, Silent(e), e.stage = "DATA_IN", e.halted = {},
           NEW w, w.event = "none", NEW g, g.phase = "data", g.cmd \in Command,
           g.cmd.op = "read", Served(g.cmd), e.nsectors \in 1 .. g.cmd.n, Size(e.nsectors) < U32,
           e.start_sector = g.cmd.lba + g.cmd.n - e.nsectors,
           g.got = Held(g.cmd.lba, g.cmd.n - e.nsectors, disk),
           NEW f, f = ReadDone(e, TransferLen(e), Stored(e.start_sector, TransferLen(e)))
    PROVE  Holds(f, w, g, disk)
<1> DEFINE n == g.cmd.n
           a == g.cmd.lba
           s == e.nsectors
           k == n - s
<1>1. a \in Nat /\ n \in Nat /\ a + n <= Blocks /\ a + n < U32
  BY ServedRange
<1>2. s \in 1 .. n /\ e.start_sector = a + n - s /\ g.got = Held(a, k, disk) /\ Size(s) < U32
  OBVIOUS
<1> HIDE DEF a, n, s
<1>3. s \in Nat /\ s # 0
  BY <1>1, <1>2
<1>4. PICK j \in 1 .. s : TransferLen(e) = Size(j)
  BY <1>2, <1>3, Chunk DEF s
<1>5. k \in Nat /\ j \in Nat /\ k + j <= n /\ e.start_sector = a + k /\ s = n - k /\ j \in 0 .. s
  BY <1>1, <1>2, <1>3
<1>6. s \in Number
  BY DEF Dev, s
<1>7. e.start_sector + j < U32
  <2>1. (a + k) + j <= a + n
    BY <1>1, <1>5
  <2> QED
    BY <1>1, <1>5, <2>1, Sizes
<1> DEFINE data == Stored(a + k, Size(j))
<1>8. f = ReadDone(e, Size(j), data)
  BY <1>4, <1>5
<1>9. data \in Seq(Nat \X Nat) /\ Len(data) = j /\ Held(a, k, disk) \o data = Held(a, k + j, disk)
  <2> HIDE DEF k
  <2>1. a \in Nat /\ k \in Nat /\ j \in Nat /\ a + k + j <= Blocks
    BY <1>1, <1>5, MscAssumption DEF MscAssumption
  <2> QED
    BY <2>1, ChunkHeld, ZenonT(30)
<1> HIDE DEF data, k
<1>10. f.nsectors = s - j /\ f.start_sector = e.start_sector + j /\ f.block_buffer = data
  BY <1>5, <1>7, <1>8, ReadDoneData DEF s
<1>11. /\ f.halted = e.halted /\ f.in.buf = "block" /\ f.in.len = Size(j)
       /\ f.stage \in {"SEND_CSW", "DATA_IN"}
  BY <1>8, ReadDoneMakes
<1>12. /\ f.nsectors \in 0 .. n /\ f.start_sector = a + n - f.nsectors /\ n - f.nsectors = k + j
  BY <1>1, <1>2, <1>5, <1>10
<1>13. Reading(f, w, g, disk)
  BY <1>2, <1>9, <1>10, <1>11, <1>12 DEF Reading, a, n
<1> QED
  BY <1>11, <1>13 DEF Holds, Fresh
\* usbd_msc_bot_abort of a read leaves the OUT endpoint alone.
LEMMA BotAbortSpares ==
    ASSUME NEW e \in Dev, e.cbw.in, "out" \notin e.halted, NEW f, f = BotAbort(e)
    PROVE  "out" \notin f.halted
<1> DEFINE b == ReadArmed(e, "cbw", CbwLen)
           k == IF ~e.cbw.in /\ e.cbw.len # 0 THEN {"out"} ELSE {}
<1>1. f = [b EXCEPT !.halted = b.halted \cup {"in"} \cup k] /\ k = {}
  <2>1. b.halted = b["halted"]
    OBVIOUS
  <2> QED
    BY DEF BotAbort
<1>2. b.halted = e.halted /\ "halted" \in DOMAIN b
  BY DEF ReadArmed, Dev
<1> HIDE DEF b, k
<1>3. f.halted = b.halted \cup {"in"}
  BY <1>1, <1>2
<1> QED
  BY <1>2, <1>3

\* A command arrives at a device that listens.
LEMMA CommandHolds ==
    ASSUME NoCallWraps, NoAddressWraps, TypeOK, NEW e \in Dev, Silent(e), e.stage = "READ_CBW",
           "out" \notin e.halted, NEW w, w.event = "none",
           NEW g \in Host, g.phase = "cbw", g.left = CbwLen, e.cbw = g.cmd, g.got = <<>>,
           NEW ok, NEW f, f = BulkOut(e, CbwLen, ok), NEW k, k = Sent(g, CbwLen)
    PROVE  Holds(f, w, k, disk)
<1> DEFINE m == [e EXCEPT !.residue = e.cbw.len]
           q == Parsed(m)
           i == [q EXCEPT !.stage = "DATA_IN"]
           o == [q EXCEPT !.stage = "DATA_OUT"]
           x == g.cmd
<1>1. /\ x \in Command /\ x.len \in Number /\ x.n \in Number /\ m \in Dev /\ Silent(m)
      /\ m.stage = "READ_CBW" /\ m.halted = e.halted /\ m.cbw = x /\ m.in = e.in /\ m.out = e.out
      /\ m.event = "none" /\ CbwLen \in Nat
  <2>1. /\ e.cbw.len \in Number /\ x.len \in Number /\ x.n \in Number /\ x \in Command
        /\ CbwLen \in Nat
    BY CommandParts, Sizes DEF Host
  <2> HIDE DEF x
  <2>2. m \in Dev
    BY <2>1 DEF Dev
  <2>3. m.out = e.out /\ m.in = e.in /\ m.event = e.event /\ m.stage = e.stage
        /\ m.halted = e.halted /\ m.cbw = e.cbw
    BY DEF Dev
  <2> QED
    BY <2>1, <2>2, <2>3, Zenon DEF Silent, x
<1>2. /\ Keeps(g, k) /\ k.got = <<>>
      /\ x.len # 0 => k.phase = "data" /\ k.left = x.len
      /\ x.len = 0 => k.phase = "csw" /\ k.left = CswLen
  BY <1>1, SentMakes, SentGot
<1>3. f = IF Served(x) THEN Decoded(m, ok) ELSE BotAbort(q)
  BY DEF BulkOut
<1> HIDE DEF m
<1>4. /\ q \in Dev /\ Silent(q) /\ q.cbw = x /\ q.halted = e.halted /\ q.stage = "READ_CBW"
      /\ q.event = "none" /\ q.in = e.in /\ q.out = e.out
      /\ x.op \in {"read", "write"} /\ x.len # 0 => q.nsectors = x.n /\ q.start_sector = x.lba
  <2>1. q \in Dev /\ Silent(q)
    BY <1>1, ParsedFine
  <2>2. /\ Same(m, q) /\ q.halted = m.halted /\ q.stage = m.stage /\ q.event = m.event
        /\ q.in = m.in /\ q.out = m.out
    BY <1>1, ParsedMakes
  <2>3. x.op \in {"read", "write"} /\ x.len # 0 => q.nsectors = x.n /\ q.start_sector = x.lba
    BY <1>1, ParsedData
  <2> QED
    BY <1>1, <2>1, <2>2, <2>3 DEF Same
<1>5. ~Served(x) => f = BotAbort(q)
  BY <1>3
<1>6. Served(x) =>
        /\ x.op = "none" => f = SendCsw(m, "passed")
        /\ x.op = "info" => f = SendInfo(m, InfoLen)
        /\ x.op = "write" => f = ReadArmed(o, "block", TransferLen(q))
        /\ x.op = "read" /\ mode # "irq" => f = Post(i, "DATA_IN")
        /\ x.op = "read" /\ mode = "irq" /\ ok =>
              f = ReadDone(i, TransferLen(i), Stored(x.lba, TransferLen(i)))
        /\ x.op = "read" /\ mode = "irq" /\ ~ok => f = BotAbort(i)
  BY <1>1, <1>3 DEF Decoded
<1> HIDE DEF q
<1>7. /\ i \in Dev /\ i.cbw = x /\ i.halted = e.halted /\ i.stage = "DATA_IN" /\ i.event = "none"
      /\ i.in = e.in /\ i.out = e.out /\ i.nsectors = q.nsectors /\ i.start_sector = q.start_sector
  BY <1>4 DEF Dev
<1>8. /\ o \in Dev /\ o.cbw = x /\ o.halted = e.halted /\ o.stage = "DATA_OUT" /\ o.event = "none"
      /\ o.in = e.in /\ o.out = e.out /\ o.nsectors = q.nsectors /\ o.start_sector = q.start_sector
  BY <1>4 DEF Dev
<1> HIDE DEF i, o
<1>9. e.in.buf = "none" /\ e.out.buf = "none" /\ Fresh(k) /\ k.cmd = x
  BY <1>2 DEF Silent, Fresh, Keeps
<1>10. Served(x) => /\ x.op = "none" => x.len = 0
                    /\ x.op = "info" => x.in /\ x.len # 0
                    /\ x.op \in {"read", "write"} => x.n # 0 /\ x.len = Size(x.n) /\ x.len # 0
                    /\ x.op = "read" => x.in
                    /\ x.op = "write" => ~x.in
                    /\ x.op \in {"none", "info", "read", "write"}
  BY <1>1, ServedKinds
<1>11. CASE ~Served(x)
  <2>1. /\ "in" \in f.halted /\ f.stage = q.stage /\ f.out.buf = "cbw"
    BY <1>4, <1>5, <1>11, BotAbortMakes
  <2> QED
    BY <1>4, <1>9, <2>1, RefusedHolds
<1>12. CASE Served(x) /\ x.op = "none"
  <2>1. f.halted = e.halted /\ f.stage = "WAIT_CSW"
    BY <1>1, <1>6, <1>12, SendCswMakes
  <2>2. k.phase = "csw" /\ Done(k, disk)
    BY <1>2, <1>9, <1>10, <1>12 DEF Done
  <2> QED
    BY <1>9, <2>1, <2>2 DEF Holds
<1>13. CASE Served(x) /\ x.op = "info"
  <2>1. f.halted = e.halted /\ f.stage = "SEND_CSW"
    BY <1>1, <1>6, <1>13, SendInfoMakes
  <2> QED
    BY <1>9, <1>13, <2>1, RefusedHolds
<1>14. CASE Served(x) /\ x.op = "write"
  <2> DEFINE t == TransferLen(q)
  <2>1. f = [o EXCEPT !.out = [buf |-> "block", len |-> t]]
    BY <1>6, <1>14 DEF ReadArmed
  <2> HIDE DEF t
  <2>2. /\ f.halted = e.halted /\ f.stage = "DATA_OUT" /\ f.cbw = x
        /\ f.nsectors = q.nsectors /\ f.start_sector = q.start_sector
        /\ f.out.buf = "block" /\ f.out.len = t
    BY <1>8, <2>1 DEF Dev
  <2>3. t = TransferLen(f)
    BY <2>2 DEF t, TransferLen
  <2>4. /\ k.phase = "data" /\ k.left = Size(f.nsectors)
        /\ f.nsectors = x.n /\ x.n # 0 /\ f.start_sector = x.lba
    BY <1>2, <1>4, <1>10, <1>14, <2>2
  <2>5. x.lba \in Nat /\ x.n \in Nat
    BY <1>1, <1>14, ServedRange
  <2>6. x.n \in 1 .. x.n /\ x.lba = x.lba + x.n - x.n /\ x.n - x.n = 0
    BY <2>4, <2>5
  <2>7. Kept(x.lba, x.ver, x.n - x.n, disk)
    BY <2>6 DEF Kept
  <2>8. Wants(f, k)
    BY <1>9, <2>2, <2>3, <2>4 DEF Wants
  <2>9. Writing(f, w, k, disk)
    BY <1>14, <2>2, <2>4, <2>6, <2>7, <2>8, Zenon DEF Writing
  <2> QED
    BY <1>9, <1>14, <2>2, <2>4, <2>9 DEF Holds
<1>15. CASE Served(x) /\ x.op = "read"
  <2>1. /\ k.phase = "data" /\ k.left = Size(x.n) /\ x.n # 0 /\ x.in
        /\ i.nsectors = x.n /\ i.start_sector = x.lba
    BY <1>2, <1>4, <1>7, <1>10, <1>15
  <2>2. x.lba \in Nat /\ x.n \in Nat
    BY <1>1, <1>15, ServedRange
  <2>3. x.n \in 1 .. x.n /\ x.n \in 0 .. x.n /\ x.lba = x.lba + x.n - x.n /\ x.n - x.n = 0
    BY <2>1, <2>2
  <2>4. k.got = Held(x.lba, x.n - x.n, disk)
    BY <1>2, <2>3 DEF Held
  <2>5. CASE mode # "irq"
    <3>1. /\ f.halted = e.halted /\ f.stage = "DATA_IN" /\ f.in = e.in
      BY <1>6, <1>7, <1>15, <2>1, <2>5, PostMakes
    <3>2. f.nsectors = x.n /\ f.start_sector = x.lba
      BY <1>6, <1>7, <1>15, <2>1, <2>5, PostData DEF SameData
    <3>3. Reading(f, w, k, disk)
      BY <1>9, <2>3, <2>4, <3>1, <3>2, Zenon DEF Reading
    <3> QED
      BY <1>9, <1>15, <2>1, <3>1, <3>3 DEF Holds
  <2>6. CASE mode = "irq" /\ ok
    <3>1. f = ReadDone(i, TransferLen(i), Stored(x.lba, TransferLen(i)))
      BY <1>6, <1>15, <2>6
    <3>2. CASE e.halted = {}
      <4>1. Size(x.n) < U32
        BY <1>1, <1>10, <1>15, Sizes DEF Number
      <4>2. Silent(i) /\ i.halted = {}
        BY <1>7, <1>9, <3>2 DEF Silent
      <4> HIDE DEF x
      <4> QED
        BY <1>1, <1>7, <1>9, <1>15, <2>1, <2>3, <2>4, <3>1, <4>1, <4>2, ReadHolds
    <3>3. CASE e.halted # {}
      <4>1. f.halted = e.halted /\ f.stage \in {"SEND_CSW", "DATA_IN"}
        BY <1>7, <3>1, ReadDoneMakes
      <4> QED
        BY <1>9, <3>3, <4>1, RefusedHolds
    <3> QED
      BY <3>2, <3>3
  <2>7. CASE mode = "irq" /\ ~ok
    <3>1. "in" \in f.halted /\ f.stage = "DATA_IN"
      BY <1>6, <1>7, <1>15, <2>7, BotAbortMakes
    <3>2. "out" \notin f.halted
      BY <1>6, <1>7, <1>15, <2>1, <2>7, BotAbortSpares
    <3> QED
      BY <1>9, <3>1, <3>2, RefusedHolds
  <2> QED
    BY <2>5, <2>6, <2>7
<1> QED
  BY <1>10, <1>11, <1>12, <1>13, <1>14, <1>15
\* A chunk of a write arrives at a device that asked for it, and the irq build
\* gives it to the medium.
LEMMA ChunkTaken ==
    ASSUME NoAddressWraps, TypeOK, NEW e \in Dev, Silent(e), e.stage = "DATA_OUT",
           "out" \notin e.halted, NEW w, w.event = "none",
           NEW g \in Host, g.phase = "data", g.cmd = e.cbw, g.left = Size(e.nsectors), Fresh(g),
           NEW j, Chunked(e, j), Size(j) \in 0 .. BufSize,
           NEW ok, NEW f, f = BulkOut(e, Size(j), ok), NEW k, k = Sent(g, Size(j)),
           NEW m, m = IF mode = "irq" /\ ok THEN Written(e.start_sector, Size(j), e.block_buffer)
                                            ELSE disk
    PROVE  Holds(f, w, k, m) /\ Puts(e.cbw.lba, e.cbw.n, e.cbw.ver, m)
<1> DEFINE s == e.nsectors
<1>1. /\ e.cbw.op = "write" /\ j \in 1 .. s /\ s \in Nat /\ j \in Nat /\ j \in 0 .. s
      /\ s - j \in Nat
  <2>1. e.cbw.op = "write" /\ j \in 1 .. s
    BY DEF Chunked
  <2>2. s \in Nat
    BY DEF Dev, Number
  <2> HIDE DEF s
  <2> QED
    BY <2>1, <2>2
<1> HIDE DEF s
<1>2. Size(s) \in Nat /\ Size(j) \in Nat /\ Size(s - j) = Size(s) - Size(j)
      /\ (s - j # 0 => Size(s - j) > 1)
  <2>1. Size(s) \in Nat /\ Size(j) \in Nat /\ (s - j # 0 => Size(s - j) > 1)
    BY <1>1, SizeFacts
  <2> QED
    BY <1>1, <2>1, SizeMinus
<1>3. /\ k.cmd = e.cbw /\ k.got = g.got
      /\ IF j < s THEN k.phase = "data" /\ k.left = Size(s - j) ELSE k.phase = "csw"
  <2>1. /\ Keeps(g, k)
        /\ g.left # Size(j) => k.phase = g.phase /\ k.left = g.left - Size(j)
        /\ g.left = Size(j) => k.phase = "csw"
    BY <1>2, SentMakes
  <2>2. k.got = g.got
    BY SentGot
  <2>3. g.left = Size(s)
    BY DEF s
  <2>4. CASE j < s
    <3>1. s - j # 0
      BY <1>1, <2>4
    <3>2. Size(s) # Size(j)
      BY <1>2, <3>1
    <3> QED
      BY <1>2, <2>1, <2>2, <2>3, <2>4, <3>2 DEF Keeps
  <2>5. CASE ~(j < s)
    <3>1. j = s
      BY <1>1, <2>5
    <3> QED
      BY <2>1, <2>2, <2>3, <2>5, <3>1 DEF Keeps
  <2> QED
    BY <2>4, <2>5
<1>4. k.phase # "cbw" /\ Fresh(k)
  BY <1>1, <1>3 DEF Fresh
<1>5. CASE mode = "irq" /\ ok
  <2>1. f = WriteDone(e, Size(j))
    BY <1>5 DEF BulkOut
  <2>2. m = Written(e.start_sector, Size(j), e.block_buffer)
    BY <1>5
  <2>3. IF j < e.nsectors THEN k.phase = "data" /\ k.cmd = e.cbw /\ k.left = Size(e.nsectors - j)
                          ELSE k.phase # "data" /\ (k.phase = "csw" => k.cmd = e.cbw)
    BY <1>3 DEF s
  <2> QED
    BY <1>4, <2>1, <2>2, <2>3, WrittenHolds
<1>6. ~(mode = "irq" /\ ok) => m = disk
  OBVIOUS
<1>7. ~(mode = "irq" /\ ok) => Puts(e.cbw.lba, e.cbw.n, e.cbw.ver, m)
  BY <1>6 DEF Puts
<1>8. CASE mode = "irq" /\ ~ok
  <2>1. f = SendCsw(e, "failed")
    BY <1>8 DEF BulkOut
  <2>2. f.stage = "WAIT_CSW" /\ f.status = "failed" /\ f.halted = e.halted
    BY <2>1, SendCswMakes
  <2> QED
    BY <1>4, <1>7, <1>8, <2>2, RefusedHolds
<1>9. CASE mode # "irq"
  <2> DEFINE o == [e EXCEPT !.nbytes = Size(j)]
  <2>1. f = Post(o, "DATA_OUT")
    BY <1>9 DEF BulkOut
  <2>2. /\ o \in Dev /\ o.event = "none" /\ o.nbytes = Size(j) /\ o.stage = e.stage
        /\ o.halted = e.halted /\ o.nsectors = s /\ o.start_sector = e.start_sector
        /\ o.block_buffer = e.block_buffer /\ o.cbw = e.cbw
    BY DEF Silent, Dev, s
  <2> HIDE DEF o
  <2>3. /\ f.halted = e.halted /\ f.stage = "DATA_OUT" /\ f.event = "DATA_OUT"
        /\ f.nbytes = Size(j) /\ f.cbw = e.cbw /\ f.nsectors = s
    BY <2>1, <2>2, PostMakes DEF Same
  <2>4. f.start_sector = e.start_sector /\ f.block_buffer = e.block_buffer
    BY <2>1, <2>2, PostData DEF SameData
  <2>5. Waits(f, w, k, j)
    <3>1. Len(e.block_buffer) = j /\ Follows(e.block_buffer, e.cbw.ver, e.cbw.n - s)
      BY DEF Chunked, s
    <3>2. IF j < s THEN k.phase = "data" /\ k.cmd = e.cbw /\ k.left = Size(s - j)
                   ELSE k.phase # "data" /\ (k.phase = "csw" => k.cmd = e.cbw)
      BY <1>3
    <3> QED
      BY <2>3, <2>4, <3>1, <3>2 DEF Waits
  <2>6. Writing(f, w, k, m)
    <3>1. /\ e.cbw.op = "write" /\ Served(e.cbw) /\ s \in 1 .. e.cbw.n
          /\ e.start_sector = e.cbw.lba + e.cbw.n - s
          /\ Kept(e.cbw.lba, e.cbw.ver, e.cbw.n - s, m)
      BY <1>6, <1>9 DEF Chunked, s
    <3> QED
      BY <1>1, <2>3, <2>4, <2>5, <3>1, Zenon DEF Writing
  <2>7. k.cmd.op = "write"
    BY <1>1, <1>3
  <2> QED
    BY <1>4, <1>7, <1>9, <2>3, <2>6, <2>7 DEF Holds
<1> QED
  BY <1>5, <1>8, <1>9

\* What the device is when its OUT endpoint has given up a block.
LEMMA FilledData ==
    ASSUME d \in Dev, d.out.buf # "cbw", h.phase = "data", NEW n,
           NEW e, e = [Filled(d, n) EXCEPT !.out = Unarmed]
    PROVE  /\ e.cbw = d.cbw /\ e.nsectors = d.nsectors /\ e.start_sector = d.start_sector
           /\ e.block_buffer = Payload(n)
<1> DEFINE b == Payload(n)
<1>1. Filled(d, n) = [d EXCEPT !.block_buffer = b]
  BY DEF Filled
<1> HIDE DEF b
<1>2. e = [[d EXCEPT !.block_buffer = b] EXCEPT !.out = Unarmed]
  BY <1>1
<1> QED
  BY <1>2 DEF b, Dev

\* The host's data is numbered by the blocks of the call.
LEMMA PayloadFollows ==
    ASSUME NEW n \in Nat, NEW s \in 0 .. n, NEW j \in Nat, h.cmd.len = Size(n), h.left = Size(s)
    PROVE  Len(Payload(Size(j))) = j /\ Follows(Payload(Size(j)), h.cmd.ver, n - s)
<1>1. Size(j) \div BlkSize = j
  BY SizeFacts
<1>2. (h.cmd.len - h.left) \div BlkSize = n - s
  <2>1. n - s \in Nat
    OBVIOUS
  <2>2. Size(n - s) = Size(n) - Size(s)
    BY SizeMinus
  <2> QED
    BY <2>1, <2>2, SizeFacts
<1>3. Payload(Size(j)) = [i \in 1 .. j |-> <<h.cmd.ver, (n - s) + i>>]
  BY <1>1, <1>2 DEF Payload
<1> QED
  BY <1>3 DEF Follows
-----------------------------------------------------------------------------
(* The steps of BlockDevice.                                               *)

\* A call that fits the CBW asks for what the CBW says.
LEMMA AskedFits == ASSUME CallsFit, NEW c \in Command PROVE c.asked = c.n
  BY CbwParts DEF Command, NoCommand, NoData, Info

\* What BlockDevice sees of host and device.
Idle == [op |-> "idle", lba |-> 0, n |-> 0, ver |-> 0]
Of(c) == [op |-> c.op, lba |-> c.lba, n |-> c.asked, ver |-> c.ver]
CallOf(g) == IF g.phase = "idle" THEN Idle ELSE Of(g.cmd)
LateOf(e, g) == IF e.stage = "DATA_OUT" /\ g.phase \in {"idle", "cbw"}
                THEN [op |-> "write", lba |-> e.cbw.lba, n |-> e.cbw.asked, ver |-> e.cbw.ver]
                ELSE Idle
ReplyOf(g) == CASE g.phase # "idle" \/ g.ret = "none" -> "none"
                [] g.phase = "idle" /\ g.ret = "ok" -> "ok"
                [] OTHER -> "error"
GotOf(g) == IF g.phase = "idle" /\ g.ret = "ok" THEN g.got ELSE <<>>

LEMMA SeenCall ==
    ASSUME CallOf(h) = Idle, CallOf(h') \in DiskCalls, CallOf(h').op # "idle",
           ReplyOf(h') = "none", GotOf(h') = <<>>, disk' = disk, LateOf(d', h') = LateOf(d, h)
    PROVE  [BD!Next]_BD!vars
<1>1. CallOf(h') # Idle
  BY DEF Idle
<1> QED
  BY <1>1 DEF BD!Next, BD!Call, BD!NoCall, CallOf, LateOf, ReplyOf, GotOf, Idle, Of

LEMMA SeenNothing ==
    ASSUME CallOf(h') = CallOf(h), ReplyOf(h') = ReplyOf(h), GotOf(h') = GotOf(h), disk' = disk,
           LateOf(d', h') = LateOf(d, h)
    PROVE  [BD!Next]_BD!vars
  BY DEF BD!vars, CallOf, LateOf, ReplyOf, GotOf, Idle, Of

LEMMA SeenForget ==
    ASSUME CallOf(h') = CallOf(h), disk' = disk, LateOf(d', h') \in {LateOf(d, h), Idle},
           \/ ReplyOf(h') = ReplyOf(h) /\ GotOf(h') = GotOf(h)
           \/ ReplyOf(h') = "none" /\ GotOf(h') = <<>>
    PROVE  [BD!Next]_BD!vars
  BY DEF BD!Next, BD!Forget, BD!NoCall, CallOf, LateOf, ReplyOf, GotOf, Idle, Of

LEMMA SeenError ==
    ASSUME CallOf(h) # Idle, CallOf(h') = Idle, ReplyOf(h') = "error", GotOf(h') = <<>>,
           disk' = disk, LateOf(d', h') \in {LateOf(d, h), Idle, CallOf(h)}
    PROVE  [BD!Next]_BD!vars
  BY DEF BD!Next, BD!ReturnError, BD!NoCall, CallOf, LateOf, ReplyOf, GotOf, Idle, Of

\* What a chunk does to the medium is a write of BlockDevice.
LEMMA PutsWrites ==
    ASSUME NEW c, c.op = "write", c.lba \in Nat, c.n \in Nat, disk \in Medium,
           Puts(c.lba, c.n, c.ver, disk')
    PROVE  BD!Writes(c)
<1>1. DOMAIN disk' = DOMAIN disk /\ DOMAIN disk = 0 .. Blocks - 1
  BY DEF Puts, Medium
<1>2. ASSUME NEW s \in 0 .. Blocks - 1, disk'[s] # disk[s]
      PROVE  s \in BD!Range(c) /\ disk'[s] = BD!Data(c)[s - c.lba + 1]
  <2>1. s \in c.lba .. c.lba + c.n - 1 /\ disk'[s] = <<c.ver, s - c.lba + 1>>
    BY <1>1, <1>2 DEF Puts
  <2>2. s - c.lba + 1 \in 1 .. c.n
    BY <2>1
  <2> QED
    BY <2>1, <2>2 DEF BD!Range, BD!Data
<1> QED
  BY <1>1, <1>2 DEF BD!Writes

LEMMA SeenWrite ==
    ASSUME h.phase # "idle", h.cmd.op = "write", h.cmd.asked = h.cmd.n, h.cmd.lba \in Nat, h.cmd.n \in Nat, disk \in Medium,
           Puts(h.cmd.lba, h.cmd.n, h.cmd.ver, disk'),
           CallOf(h') = CallOf(h), ReplyOf(h') = ReplyOf(h), GotOf(h') = GotOf(h),
           LateOf(d', h') = LateOf(d, h)
    PROVE  [BD!Next]_BD!vars
<1> DEFINE c == CallOf(h)
<1>1. c.op = "write" /\ c.lba = h.cmd.lba /\ c.n = h.cmd.n /\ c.ver = h.cmd.ver
  BY DEF CallOf, Of
<1>2. BD!Writes(c)
  <2> HIDE DEF c
  <2> QED
    BY <1>1, PutsWrites
<1> QED
  BY <1>2 DEF BD!Next, BD!Write, CallOf, LateOf, ReplyOf, GotOf, Idle, Of

LEMMA SeenLate ==
    ASSUME h.phase \in {"idle", "cbw"}, d.stage = "DATA_OUT", d.cbw.asked = d.cbw.n,
           d.cbw.lba \in Nat, d.cbw.n \in Nat, disk \in Medium,
           Puts(d.cbw.lba, d.cbw.n, d.cbw.ver, disk'),
           CallOf(h') = CallOf(h), ReplyOf(h') = ReplyOf(h), GotOf(h') = GotOf(h),
           LateOf(d', h') = Idle
    PROVE  [BD!Next]_BD!vars
<1> DEFINE c == LateOf(d, h)
<1>1. c.op = "write" /\ c.lba = d.cbw.lba /\ c.n = d.cbw.n /\ c.ver = d.cbw.ver
  BY DEF LateOf
<1>2. BD!Writes(c)
  <2> HIDE DEF c
  <2> QED
    BY <1>1, PutsWrites
<1> QED
  BY <1>2 DEF BD!Next, BD!LateWrite, BD!NoCall, CallOf, LateOf, ReplyOf, GotOf, Idle, Of

LEMMA SeenOk ==
    ASSUME h.phase # "idle", h.cmd.op # "idle", h.cmd.asked = h.cmd.n, LateOf(d, h) = Idle, Done(h, disk), disk \in Medium,
           h.cmd.op \in {"read", "write"} =>
              h.cmd.lba \in Nat /\ h.cmd.n \in Nat /\ h.cmd.lba + h.cmd.n <= Blocks,
           CallOf(h') = Idle, ReplyOf(h') = "ok", disk' = disk, LateOf(d', h') = Idle,
           GotOf(h') = IF h.cmd.op = "read" THEN h.got ELSE <<>>
    PROVE  [BD!Next]_BD!vars
<1> DEFINE c == CallOf(h)
<1>1. c.op = h.cmd.op /\ c.lba = h.cmd.lba /\ c.n = h.cmd.n /\ c.ver = h.cmd.ver /\ c # Idle
  BY DEF CallOf, Of, Idle
<1>2. c.op \in {"read", "write"} => c.lba \in Nat /\ c.n \in Nat /\ c.lba + c.n <= Blocks
  BY <1>1
<1>3. c.op = "read" => h.got = Held(c.lba, c.n, disk)
  BY <1>1 DEF Done
<1>4. c.op = "write" => Kept(c.lba, c.ver, c.n, disk)
  BY <1>1 DEF Done
<1> HIDE DEF c
<1>5. c.op \in {"read", "write"} => BD!Range(c) \subseteq DOMAIN disk
  <2>1. DOMAIN disk = 0 .. Blocks - 1 /\ Blocks \in Nat
    BY MscAssumption DEF Medium, MscAssumption
  <2> SUFFICES ASSUME c.op \in {"read", "write"}, NEW s \in BD!Range(c) PROVE s \in 0 .. Blocks - 1
    BY <2>1
  <2>2. s \in c.lba .. c.lba + c.n - 1
    BY DEF BD!Range
  <2> QED
    BY <1>2, <2>1, <2>2
<1>6. ASSUME c.op = "write", NEW s \in BD!Range(c) PROVE disk[s] = BD!Data(c)[s - c.lba + 1]
  <2>1. s \in c.lba .. c.lba + c.n - 1
    BY <1>6 DEF BD!Range
  <2> DEFINE i == s - c.lba + 1
  <2>2. i \in 1 .. c.n /\ c.lba + i - 1 = s
    BY <1>2, <1>6, <2>1
  <2> HIDE DEF i
  <2>3. disk[s] = <<c.ver, i>>
    BY <1>4, <1>6, <2>2 DEF Kept
  <2>4. BD!Data(c)[i] = <<c.ver, i>>
    BY <2>2 DEF BD!Data
  <2> QED
    BY <2>3, <2>4 DEF i
<1>7. GotOf(h') = IF c.op = "read" THEN [i \in 1 .. c.n |-> disk[c.lba + i - 1]] ELSE <<>>
  BY <1>1, <1>3 DEF Held
<1> QED
  BY <1>1, <1>5, <1>6, <1>7
     DEF BD!Next, BD!ReturnOk, BD!NoCall, CallOf, LateOf, ReplyOf, GotOf, Idle, Of, c
-----------------------------------------------------------------------------
(* Every action keeps what the blocks hold, and is a step of BlockDevice.  *)

\* What a call of BlockDevice sees of the calls.
LEMMA CallsSeen == \A c \in Calls : Of(c) \in DiskCalls /\ c.op # "idle"
<1> SUFFICES ASSUME NEW c \in Calls PROVE Of(c) \in DiskCalls /\ c.op # "idle"
  OBVIOUS
<1>1. c \in {NoData, Info} \cup Cbws
  BY DEF Calls
<1>2. c.op # "idle"
  <2>1. CASE c \in Cbws
    BY <2>1, CbwParts
  <2>2. CASE c \in {NoData, Info}
    BY <2>2 DEF NoData, Info
  <2> QED
    BY <1>1, <2>1, <2>2
<1> QED
  BY <1>1, <1>2 DEF Of, DiskCalls

\* The thread looks at something else: nothing that was late is forgotten.
LEMMA HostCallStore ==
    MscInv /\ PaceInv /\ StoreInv /\ HostCall => StoreInv' /\ [BD!Next]_BD!vars
<1> SUFFICES ASSUME MscInv, PaceInv, StoreInv, HostCall PROVE StoreInv' /\ [BD!Next]_BD!vars
  OBVIOUS
<1>1. PICK c \in Calls :
        h' = [h EXCEPT !.phase = "cbw", !.cmd = c, !.left = CbwLen, !.got = <<>>, !.ret = "none"]
  BY Zenon DEF HostCall
<1>2. h'.phase = "cbw" /\ h'.cmd = c /\ h'.ret = "none" /\ h'.got = <<>>
  BY <1>1, InvParts DEF Host
<1>3. h.phase = "idle" /\ d' = d /\ worker' = worker /\ disk' = disk
  BY DEF HostCall, mscVars
<1>4. d.stage = "DATA_OUT" => Writing(d, worker, h', disk)
  <2> SUFFICES ASSUME d.stage = "DATA_OUT" PROVE Writing(d, worker, h', disk)
    OBVIOUS
  <2>1. Writing(d, worker, h, disk)
    BY StoreParts
  <2>2. PICK j \in 1 .. d.nsectors : Waits(d, worker, h, j)
    BY <1>3, <2>1 DEF Writing, Wants
  <2>3. Waits(d, worker, h', j)
    BY <1>2, <1>3, <2>2 DEF Waits
  <2> QED
    BY <2>1, <2>2, <2>3 DEF Writing
<1>5. Holds(d', worker', h', disk')
  BY <1>2, <1>3, <1>4, StoreParts DEF Holds, Fresh
<1>6. CallOf(h') = Of(c) /\ ReplyOf(h') = "none" /\ GotOf(h') = <<>>
      /\ LateOf(d', h') = LateOf(d, h) /\ CallOf(h) = Idle
  BY <1>2, <1>3 DEF CallOf, ReplyOf, GotOf, LateOf
<1>7. Of(c) \in DiskCalls /\ Of(c).op # "idle"
  BY CallsSeen DEF Of
<1> QED
  BY <1>3, <1>5, <1>6, <1>7, StoreNext, SeenCall

\* A call that returns an error, with the device as it is.
LEMMA ErrorSeen ==
    ASSUME h \in Host, h.phase # "idle", h.cmd \in Command, NEW r, r \notin {"none", "ok"},
           h' = Returned(h, r), disk' = disk,
           LateOf(d', h') \in {LateOf(d, h), Idle, CallOf(h)}
    PROVE  [BD!Next]_BD!vars
<1>1. h'.phase = "idle" /\ h'.ret = r /\ h'.got = <<>>
  BY ReturnedMakes, ReturnedGot
<1>2. CallOf(h') = Idle /\ ReplyOf(h') = "error" /\ GotOf(h') = <<>>
  BY <1>1 DEF CallOf, ReplyOf, GotOf
<1>3. CallOf(h) # Idle
  <2>1. h.cmd.op # "idle"
    BY CbwParts DEF Command, NoCommand, NoData, Info
  <2> QED
    BY <2>1 DEF CallOf, Of, Idle
<1> QED
  BY <1>2, <1>3, SeenError

\* A call that was told a STALL: the chunk that waits for the medium, if one
\* does, is the last of the call.
LEMMA WireStallStore ==
    NoCallWraps /\ MscInv /\ PaceInv /\ StoreInv /\ WireStall => StoreInv' /\ [BD!Next]_BD!vars
<1> SUFFICES ASSUME NoCallWraps, MscInv, PaceInv, StoreInv, WireStall
             PROVE  StoreInv' /\ [BD!Next]_BD!vars
  OBVIOUS
<1>1. /\ h' = Returned(h, "stall") /\ d' = d /\ worker' = worker /\ disk' = disk
      /\ \/ Sending /\ "out" \in d.halted
         \/ Receiving /\ "in" \in d.halted
  BY DEF WireStall, mscVars
<1>2. h \in Host /\ d \in Dev /\ h.cmd \in Command /\ h.phase \in {"cbw", "data", "csw"}
  BY <1>1, InvParts DEF Sending, Receiving, Host
<1>3. h'.phase = "idle" /\ h'.cmd = h.cmd
  BY <1>1, <1>2, ReturnedMakes
<1>4. d.stage = "DATA_OUT" =>
         /\ d.cbw.op = "write" /\ (h.phase \in {"data", "csw"} => d.cbw = h.cmd)
         /\ Writing(d, worker, h', disk)
  <2> SUFFICES ASSUME d.stage = "DATA_OUT"
               PROVE  /\ d.cbw.op = "write" /\ (h.phase \in {"data", "csw"} => d.cbw = h.cmd)
                      /\ Writing(d, worker, h', disk)
    OBVIOUS
  <2>1. Writing(d, worker, h, disk) /\ d.cbw.op = "write"
    BY StoreParts DEF Writing
  <2>2. ~d.cbw.in
    BY <1>2, <2>1, ServedKinds DEF Writing, Dev
  <2>3. "out" \notin d.halted
    BY StoreParts
  <2>4. ~(h.phase = "data" /\ h.cmd = d.cbw)
    BY <1>1, <2>2, <2>3 DEF Receiving
  <2>5. PICK j \in 1 .. d.nsectors : Waits(d, worker, h, j)
    BY <2>1, <2>4 DEF Writing, Wants
  <2>6. h.phase \in {"data", "csw"} => d.cbw = h.cmd
    BY <2>5 DEF Waits
  <2>7. Waits(d, worker, h', j)
    BY <1>3, <2>4, <2>5 DEF Waits
  <2> QED
    BY <2>1, <2>6, <2>7 DEF Writing
<1>5. Holds(d', worker', h', disk')
  BY <1>1, <1>3, <1>4, StoreParts DEF Holds, Fresh
<1>6. LateOf(d', h') \in {LateOf(d, h), Idle, CallOf(h)}
  <2>1. CASE d.stage # "DATA_OUT"
    BY <1>1, <2>1 DEF LateOf
  <2>2. CASE d.stage = "DATA_OUT" /\ h.phase = "cbw"
    BY <1>1, <1>3, <2>2 DEF LateOf
  <2>3. CASE d.stage = "DATA_OUT" /\ h.phase \in {"data", "csw"}
    BY <1>1, <1>3, <1>4, <2>3 DEF LateOf, CallOf, Of
  <2> QED
    BY <1>2, <2>1, <2>2, <2>3
<1> QED
  BY <1>1, <1>2, <1>5, <1>6, StoreNext, ErrorSeen

\* A timeout finds no chunk of a write: the device would be at work.
LEMMA HostTimeoutStore ==
    "slow" \notin Faults /\ MscInv /\ PaceInv /\ StoreInv /\ HostTimeout
        => StoreInv' /\ [BD!Next]_BD!vars
<1> SUFFICES ASSUME "slow" \notin Faults, MscInv, PaceInv, StoreInv, HostTimeout
             PROVE  StoreInv' /\ [BD!Next]_BD!vars
  OBVIOUS
<1>1. /\ h' = Returned(h, "timeout") /\ d' = d /\ worker' = worker /\ disk' = disk
      /\ h.phase # "idle" /\ Quiet
  BY DEF HostTimeout, mscVars
<1>2. h \in Host /\ d \in Dev /\ h.cmd \in Command
  BY InvParts DEF Host
<1>3. h'.phase = "idle"
  BY <1>1, <1>2, ReturnedMakes
<1>4. d.stage # "DATA_OUT"
  <2> SUFFICES ASSUME d.stage = "DATA_OUT" PROVE FALSE
    OBVIOUS
  <2>1. Writing(d, worker, h, disk)
    BY StoreParts
  <2>2. Wants(d, h)
    BY <1>1, <2>1 DEF Writing, Waits, Quiet, DeviceIdle
  <2>3. d.cbw.op = "write" /\ Served(d.cbw) /\ h.cmd = d.cbw
    BY <2>1, <2>2 DEF Writing, Wants
  <2>4. ~h.cmd.in
    BY <2>3 DEF Served
  <2> QED
    BY <1>1, <2>2, <2>4 DEF Wants, Quiet, Sending
<1>5. Holds(d', worker', h', disk')
  BY <1>1, <1>3, <1>4, StoreParts DEF Holds, Fresh
<1>6. LateOf(d', h') = Idle
  BY <1>1, <1>4 DEF LateOf
<1> QED
  BY <1>1, <1>2, <1>5, <1>6, StoreNext, ErrorSeen
\* The worker takes the address of the chunk.
LEMMA WorkerStartsStore ==
    MscInv /\ StoreInv /\ WorkerStarts => StoreInv' /\ [BD!Next]_BD!vars
<1> SUFFICES ASSUME MscInv, StoreInv, WorkerStarts PROVE StoreInv' /\ [BD!Next]_BD!vars
  OBVIOUS
<1> DEFINE t == IF d.event = "DATA_IN" THEN TransferLen(d) ELSE d.nbytes
<1>1. /\ worker.event = "none" /\ d.event # "none" /\ h' = h /\ disk' = disk
      /\ worker' = [event |-> d.event, lba |-> d.start_sector, len |-> t]
      /\ d' = [d EXCEPT !.event = "none"]
  BY DEF WorkerStarts, WorkerTake
<1>2. d.event = "DATA_OUT" => t = d.nbytes
  OBVIOUS
<1> HIDE DEF t
<1>3. /\ d'.cbw = d.cbw /\ d'.stage = d.stage /\ d'.status = d.status /\ d'.nsectors = d.nsectors
      /\ d'.start_sector = d.start_sector /\ d'.block_buffer = d.block_buffer
      /\ d'.out = d.out /\ d'.in = d.in /\ d'.halted = d.halted
      /\ worker'.event = d.event /\ worker'.lba = d.start_sector /\ worker'.len = t
  BY <1>1, InvParts DEF Dev
<1>4. d.stage = "DATA_OUT" => Writing(d', worker', h', disk')
  <2> SUFFICES ASSUME d.stage = "DATA_OUT" PROVE Writing(d', worker', h', disk')
    OBVIOUS
  <2>1. Writing(d, worker, h, disk)
    BY StoreParts
  <2>2. Wants(d, h) => Wants(d', h')
    BY <1>1, <1>3 DEF Wants, TransferLen
  <2>3. ASSUME NEW j \in 1 .. d.nsectors, Waits(d, worker, h, j) PROVE Waits(d', worker', h', j)
    BY <1>1, <1>2, <1>3, <2>3 DEF Waits
  <2>4. Wants(d', h') \/ \E j \in 1 .. d'.nsectors : Waits(d', worker', h', j)
    BY <1>3, <2>1, <2>2, <2>3 DEF Writing
  <2> QED
    BY <1>1, <1>3, <2>1, <2>4 DEF Writing
<1>5. Reading(d, worker, h, disk) => Reading(d', worker', h', disk')
  BY <1>1, <1>3 DEF Reading
<1>6. Holds(d', worker', h', disk')
  BY <1>1, <1>3, <1>4, <1>5, StoreParts DEF Holds
<1>7. LateOf(d', h') = LateOf(d, h)
  BY <1>1, <1>3 DEF LateOf
<1> QED
  BY <1>1, <1>6, <1>7, StoreNext, SeenNothing

\* Nothing of a call outlives a reset.
LEMMA BusResetStore ==
    MscInv /\ StoreInv /\ BusReset => StoreInv' /\ [BD!Next]_BD!vars
<1> SUFFICES ASSUME MscInv, StoreInv, BusReset PROVE StoreInv' /\ [BD!Next]_BD!vars
  OBVIOUS
<1> DEFINE r == IF h.phase = "idle" THEN h.ret ELSE "shutdown"
           k == Returned(h, r)
<1>1. h \in Host /\ d \in Dev /\ h.cmd \in Command
  BY InvParts DEF Host
<1>2. h' = [k EXCEPT !.prog = "gone"] /\ disk' = disk
  BY DEF BusReset
<1>3. /\ k.phase = "idle" /\ k.ret = r /\ k.got = IF r = "ok" THEN h.got ELSE <<>>
      /\ DOMAIN k = DOMAIN h
  <2>1. DOMAIN k = DOMAIN h
    BY DEF Returned
  <2> HIDE DEF r
  <2> QED
    BY <1>1, <2>1, ReturnedMakes, ReturnedGot
<1> HIDE DEF k
<1>4. h'.phase = "idle" /\ h'.ret = r /\ h'.got = IF r = "ok" THEN h.got ELSE <<>>
  BY <1>1, <1>2, <1>3 DEF Host
<1>5. d'.stage = "READ_CBW" /\ d'.halted = {}
  BY <1>1 DEF BusReset, NotifyReset, UsbdMscReset, Dev
<1>6. Holds(d', worker', h', disk')
  BY <1>4, <1>5 DEF Holds, Fresh
<1>7. CallOf(h') = Idle /\ LateOf(d', h') = Idle
  BY <1>4, <1>5 DEF CallOf, LateOf
<1>8. CASE h.phase = "idle"
  <2>1. CallOf(h) = Idle /\ ReplyOf(h') = ReplyOf(h) /\ GotOf(h') = GotOf(h)
    BY <1>4, <1>8 DEF CallOf, ReplyOf, GotOf
  <2> QED
    BY <1>2, <1>6, <1>7, <2>1, StoreNext, SeenForget
<1>9. CASE h.phase # "idle"
  <2>1. ReplyOf(h') = "error" /\ GotOf(h') = <<>>
    BY <1>4, <1>9 DEF ReplyOf, GotOf
  <2>2. CallOf(h) # Idle
    <3>1. h.cmd.op # "idle"
      BY <1>1, CbwParts DEF Command, NoCommand, NoData, Info
    <3> QED
      BY <1>9, <3>1 DEF CallOf, Of, Idle
  <2> QED
    BY <1>2, <1>6, <1>7, <2>1, <2>2, StoreNext, SeenError
<1> QED
  BY <1>8, <1>9

LEMMA ConfigureStore ==
    MscInv /\ PaceInv /\ StoreInv /\ Configure => StoreInv' /\ [BD!Next]_BD!vars
<1> SUFFICES ASSUME MscInv, PaceInv, StoreInv, Configure PROVE StoreInv' /\ [BD!Next]_BD!vars
  OBVIOUS
<1>1. h \in Host /\ d \in Dev
  BY InvParts
<1>2. h.phase = "idle" /\ d.stage = "READ_CBW" /\ d.halted = {}
  BY PaceParts DEF Configure
<1>3. h'.phase = "idle" /\ h'.ret = "none" /\ disk' = disk
  BY <1>1, <1>2 DEF Configure, Host
<1>4. d'.stage = "READ_CBW" /\ d'.halted = {}
  BY <1>1, <1>2 DEF Configure, NotifyConfigured, ReadArmed, Dev
<1>5. Holds(d', worker', h', disk')
  BY <1>3, <1>4 DEF Holds, Fresh
<1>6. /\ CallOf(h') = CallOf(h) /\ LateOf(d', h') = Idle
      /\ ReplyOf(h') = "none" /\ GotOf(h') = <<>>
  BY <1>2, <1>3, <1>4 DEF CallOf, LateOf, ReplyOf, GotOf
<1> QED
  BY <1>3, <1>5, <1>6, StoreNext, SeenForget

LEMMA RecoverStore ==
    MscInv /\ StoreInv /\ Recover => StoreInv' /\ [BD!Next]_BD!vars
<1> SUFFICES ASSUME MscInv, StoreInv, Recover PROVE StoreInv' /\ [BD!Next]_BD!vars
  OBVIOUS
<1>1. h \in Host /\ d \in Dev
  BY InvParts
<1>2. h.phase = "idle" /\ h' = [h EXCEPT !.ret = "none"] /\ disk' = disk
      /\ d' = [UsbdMscReset(d) EXCEPT !.halted = {}]
  BY DEF Recover
<1>3. h'.phase = "idle" /\ h'.ret = "none"
  BY <1>1, <1>2 DEF Host
<1>4. d'.stage = "READ_CBW" /\ d'.halted = {}
  BY <1>1, <1>2 DEF UsbdMscReset, Dev
<1>5. Holds(d', worker', h', disk')
  BY <1>3, <1>4 DEF Holds, Fresh
<1>6. /\ CallOf(h') = CallOf(h) /\ LateOf(d', h') = Idle
      /\ ReplyOf(h') = "none" /\ GotOf(h') = <<>>
  BY <1>2, <1>3, <1>4 DEF CallOf, LateOf, ReplyOf, GotOf
<1> QED
  BY <1>2, <1>5, <1>6, StoreNext, SeenForget

LEMMA StutterStore == StoreInv /\ UNCHANGED vars => StoreInv' /\ [BD!Next]_BD!vars
<1> SUFFICES ASSUME StoreInv, UNCHANGED vars PROVE StoreInv' /\ [BD!Next]_BD!vars
  OBVIOUS
<1>1. d' = d /\ worker' = worker /\ h' = h /\ disk' = disk
  BY DEF vars
<1>2. Holds(d', worker', h', disk')
  BY <1>1, Zenon DEF StoreInv
<1>3. /\ CallOf(h') = CallOf(h) /\ ReplyOf(h') = ReplyOf(h) /\ GotOf(h') = GotOf(h)
      /\ LateOf(d', h') = LateOf(d, h)
  BY <1>1, Zenon
<1> QED
  BY <1>1, <1>2, <1>3, StoreNext, SeenNothing
\* What the worker is busy with.
LEMMA WorkerWrites ==
    ASSUME MscInv, PaceInv, StoreInv, worker.event = "DATA_OUT"
    PROVE  /\ d.stage = "DATA_OUT" /\ "out" \notin d.halted
           /\ \E j : /\ Chunked(d, j) /\ worker.len = Size(j) /\ worker.lba = d.start_sector
                     /\ IF j < d.nsectors
                        THEN h.phase = "data" /\ h.cmd = d.cbw /\ h.left = Size(d.nsectors - j)
                        ELSE h.phase # "data" /\ (h.phase = "csw" => h.cmd = d.cbw)
<1>1. d.configured /\ d.event = "none" /\ d.out.buf = "none"
  BY InvParts DEF One, Deconfigured
<1>2. d.stage = "DATA_OUT"
  <2>1. CASE d.halted = {}
    <3>1. Together(d, worker, h) /\ h.phase \in {"idle", "cbw", "data", "csw"}
      BY <1>1, <2>1, InvParts, PaceParts DEF Host
    <3> QED
      BY <3>1 DEF Together, Listens, Replies, Informs, Reads, Sends, Asks, Fails, Stores, Rests
  <2>2. CASE d.halted # {}
    BY <1>1, <2>2, PaceParts DEF Apart
  <2> QED
    BY <2>1, <2>2
<1>3. Writing(d, worker, h, disk) /\ "out" \notin d.halted
  BY <1>2, StoreParts
<1>4. PICK j \in 1 .. d.nsectors : Waits(d, worker, h, j)
  BY <1>1, <1>3 DEF Writing, Wants
<1>5. Chunked(d, j)
  BY <1>3, <1>4 DEF Writing, Waits, Chunked
<1> QED
  BY <1>1, <1>2, <1>3, <1>4, <1>5 DEF Waits

LEMMA WorkerReads ==
    ASSUME MscInv, PaceInv, StoreInv, worker.event = "DATA_IN"
    PROVE  /\ d.stage # "DATA_OUT" /\ "out" \notin d.halted
           /\ d.halted = {} =>
                 /\ h.phase = "data" /\ h.cmd.op = "read" /\ Served(h.cmd) /\ d.stage = "DATA_IN"
                 /\ d.nsectors \in 1 .. h.cmd.n /\ h.left = Size(d.nsectors)
                 /\ d.start_sector = h.cmd.lba + h.cmd.n - d.nsectors
                 /\ h.got = Held(h.cmd.lba, h.cmd.n - d.nsectors, disk)
                 /\ worker.len = TransferLen(d) /\ worker.lba = d.start_sector
<1>1. d.configured /\ d.event = "none" /\ d.out.buf = "none" /\ d.in.buf = "none"
  BY InvParts DEF One, Deconfigured
<1>2. d.stage # "DATA_OUT" /\ "out" \notin d.halted
  <2>1. ~Writing(d, worker, h, disk)
    BY <1>1 DEF Writing, Wants, Waits
  <2> QED
    BY <1>1, <2>1, StoreParts
<1>3. ASSUME d.halted = {}
      PROVE  /\ h.phase = "data" /\ h.cmd.op = "read" /\ Served(h.cmd) /\ d.stage = "DATA_IN"
             /\ d.nsectors \in 1 .. h.cmd.n /\ h.left = Size(d.nsectors)
             /\ d.start_sector = h.cmd.lba + h.cmd.n - d.nsectors
             /\ h.got = Held(h.cmd.lba, h.cmd.n - d.nsectors, disk)
             /\ worker.len = TransferLen(d) /\ worker.lba = d.start_sector
  <2>1. Together(d, worker, h) /\ h.phase \in {"idle", "cbw", "data", "csw"}
    BY <1>1, <1>3, InvParts, PaceParts DEF Host
  <2>2. h.phase = "data" /\ Served(h.cmd) /\ Reads(d, worker, h)
    BY <2>1 DEF Together, Listens, Replies, Informs, Sends, Asks, Fails, Stores, Rests
  <2>3. /\ h.cmd.op = "read" /\ d.stage = "DATA_IN" /\ d.nsectors # 0
        /\ h.left = Size(d.nsectors) /\ worker.len = TransferLen(d)
    BY <2>2 DEF Reads
  <2>4. Reading(d, worker, h, disk)
    BY <1>3, <2>2, <2>3, StoreParts
  <2>5. /\ d.nsectors \in 0 .. h.cmd.n /\ d.start_sector = h.cmd.lba + h.cmd.n - d.nsectors
        /\ worker.lba = d.start_sector
        /\ h.got = Held(h.cmd.lba, h.cmd.n - d.nsectors, disk)
    BY <1>1, <2>4 DEF Reading
  <2>6. d.nsectors \in 1 .. h.cmd.n
    BY <2>3, <2>5
  <2> QED
    BY <2>2, <2>3, <2>5, <2>6
<1> QED
  BY <1>2, <1>3

\* The worker puts the chunk into the blocks of its call, also when the host
\* has given that call up.
LEMMA WorkerEndsStore ==
    CallsFit /\ NoAddressWraps /\ MscInv /\ PaceInv /\ StoreInv /\ WorkerEnds
        => StoreInv' /\ [BD!Next]_BD!vars
<1> SUFFICES ASSUME CallsFit, NoAddressWraps, MscInv, PaceInv, StoreInv, WorkerEnds
             PROVE  StoreInv' /\ [BD!Next]_BD!vars
  OBVIOUS
<1>1. PICK ok \in Answers : WorkerDone(ok) /\ h' = h
  BY Zenon DEF WorkerEnds
<1>2. /\ TypeOK /\ d \in Dev /\ h \in Host /\ h.cmd \in Command /\ worker.len \in 0 .. BufSize
      /\ disk \in Medium
  BY InvParts DEF MscInv, TypeOK, Host, Medium
<1>3. worker.event \in {"DATA_IN", "DATA_OUT"} /\ worker' = Resting /\ worker'.event = "none"
  BY <1>1, <1>2 DEF WorkerDone, TypeOK, Resting
<1>4. Silent(d) /\ "out" \notin d.halted
  <2>1. d.out.buf = "none" /\ d.in.buf = "none" /\ d.event = "none"
    BY <1>3, InvParts DEF One
  <2> QED
    BY <1>3, <2>1, StoreParts DEF Silent
<1>5. Fresh(h)
  BY StoreParts
<1>6. CallOf(h') = CallOf(h) /\ ReplyOf(h') = ReplyOf(h) /\ GotOf(h') = GotOf(h)
  BY <1>1, Zenon
<1>7. CASE ~ok
  <2>1. d' = SendCsw(d, "failed") /\ disk' = disk
    BY <1>1, <1>7 DEF WorkerDone
  <2>2. d'.stage = "WAIT_CSW" /\ d'.status = "failed" /\ d'.halted = d.halted
    BY <1>2, <2>1, SendCswMakes
  <2>3. Holds(d', worker', h', disk')
    BY <1>1, <1>4, <1>5, <2>2, RefusedHolds
  <2>4. LateOf(d', h') = Idle
    BY <2>2 DEF LateOf
  <2> QED
    BY <1>6, <2>1, <2>3, <2>4, StoreNext, SeenForget
<1>8. CASE ok /\ worker.event = "DATA_OUT"
  <2>1. d.stage = "DATA_OUT"
    BY <1>8, WorkerWrites
  <2>2. PICK j : /\ Chunked(d, j) /\ worker.len = Size(j) /\ worker.lba = d.start_sector
                 /\ IF j < d.nsectors
                    THEN h.phase = "data" /\ h.cmd = d.cbw /\ h.left = Size(d.nsectors - j)
                    ELSE h.phase # "data" /\ (h.phase = "csw" => h.cmd = d.cbw)
    BY <1>8, WorkerWrites, Zenon
  <2>3. d' = WriteDone(d, Size(j)) /\ disk' = Written(d.start_sector, Size(j), d.block_buffer)
    BY <1>1, <1>8, <2>2 DEF WorkerDone
  <2>4. /\ Holds(d', worker', h, disk') /\ Puts(d.cbw.lba, d.cbw.n, d.cbw.ver, disk')
        /\ j = d.nsectors => d'.stage = "WAIT_CSW"
    BY <1>2, <1>4, <1>5, <2>1, <2>2, <2>3, WrittenHolds
  <2>5. StoreInv'
    BY <1>1, <2>4, StoreNext
  <2>6. /\ d.cbw.op = "write" /\ d.cbw.lba \in Nat /\ d.cbw.n \in Nat
        /\ d.cbw.asked = d.cbw.n
    <3>1. d.cbw.op = "write" /\ Served(d.cbw) /\ d.cbw \in Command
      BY <1>2, <2>2 DEF Chunked, Dev
    <3> QED
      BY <3>1, ServedRange, AskedFits
  <2>7. CASE h.phase \in {"data", "csw"}
    <3>1. h.cmd = d.cbw /\ LateOf(d', h') = LateOf(d, h) /\ h.phase # "idle"
      BY <1>1, <2>2, <2>7 DEF LateOf
    <3>2. [BD!Next]_BD!vars
      BY <1>2, <1>6, <2>4, <2>6, <3>1, SeenWrite
    <3> QED
      BY <2>5, <3>2
  <2>8. CASE h.phase \in {"idle", "cbw"}
    <3>1. j = d.nsectors
      <4>1. ~(j < d.nsectors) /\ j \in 1 .. d.nsectors
        BY <2>2, <2>8 DEF Chunked
      <4>2. d.nsectors \in Nat
        BY <1>2 DEF Dev, Number
      <4> QED
        BY <4>1, <4>2
    <3>2. LateOf(d', h') = Idle
      BY <2>4, <3>1 DEF LateOf
    <3>3. [BD!Next]_BD!vars
      BY <1>2, <1>6, <2>1, <2>4, <2>6, <2>8, <3>2, SeenLate
    <3> QED
      BY <2>5, <3>3
  <2> QED
    BY <1>2, <2>7, <2>8 DEF Host
<1>9. CASE ok /\ worker.event = "DATA_IN"
  <2>1. d' = ReadDone(d, worker.len, Stored(worker.lba, worker.len)) /\ disk' = disk
    BY <1>1, <1>9 DEF WorkerDone
  <2>2. d.stage # "DATA_OUT"
    BY <1>9, WorkerReads
  <2>3. d'.halted = d.halted /\ d'.stage \in {"SEND_CSW", d.stage}
    BY <1>2, <2>1, ReadDoneMakes
  <2>4. LateOf(d', h') = LateOf(d, h)
    BY <1>1, <2>2, <2>3 DEF LateOf
  <2>5. Holds(d', worker', h', disk')
    <3>1. CASE d.halted = {}
      <4>1. /\ h.phase = "data" /\ h.cmd.op = "read" /\ Served(h.cmd) /\ d.stage = "DATA_IN"
            /\ d.nsectors \in 1 .. h.cmd.n /\ h.left = Size(d.nsectors)
            /\ d.start_sector = h.cmd.lba + h.cmd.n - d.nsectors
            /\ h.got = Held(h.cmd.lba, h.cmd.n - d.nsectors, disk)
            /\ worker.len = TransferLen(d) /\ worker.lba = d.start_sector
        BY <1>9, <3>1, WorkerReads
      <4>2. d' = ReadDone(d, TransferLen(d), Stored(d.start_sector, TransferLen(d)))
        BY <2>1, <4>1
      <4>3. Size(d.nsectors) < U32
        BY <1>2, <4>1, Sizes DEF Host, Number
      <4>4. Holds(d', worker', h, disk)
        BY <1>2, <1>3, <1>4, <3>1, <4>1, <4>2, <4>3, ReadHolds
      <4> QED
        BY <1>1, <2>1, <4>4
    <3>2. CASE d.halted # {}
      BY <1>1, <1>4, <1>5, <2>2, <2>3, <3>2, RefusedHolds
    <3> QED
      BY <3>1, <3>2
  <2> QED
    BY <1>6, <2>1, <2>4, <2>5, StoreNext, SeenNothing
<1> QED
  BY <1>3, <1>7, <1>8, <1>9
\* Where the device is when something goes out to it.
LEMMA TakesOut ==
    ASSUME NoCallWraps, MscInv, PaceInv, StoreInv, Sending, "out" \notin d.halted, d.out.buf # "none"
    PROVE  /\ h.phase = "cbw" => /\ d.out.buf = "cbw" /\ d.out.len = CbwLen /\ h.left = CbwLen
                                 /\ \/ d.stage = "READ_CBW"
                                    \/ d.stage = "DATA_IN" /\ d.halted # {}
           /\ h.phase = "data" => /\ d.out.buf = "block" /\ d.stage = "DATA_OUT"
                                  /\ Writing(d, worker, h, disk) /\ Wants(d, h)
<1>1. /\ h.phase \in {"cbw", "data"} /\ (h.phase = "data" => ~h.cmd.in) /\ h \in Host /\ d \in Dev
      /\ d.out.buf \in {"cbw", "block"} /\ d.event = "none" /\ worker.event = "none"
      /\ h.cmd \in Command
  BY InvParts DEF Sending, One, Dev, Host
<1>2. d.configured
  BY <1>1, PaceParts
<1>3. d.stage = "DATA_OUT" => Writing(d, worker, h, disk) /\ Wants(d, h) /\ h.phase = "data"
  BY <1>1, StoreParts DEF Writing, Wants, Waits
<1>4. CASE d.halted = {}
  <2>1. Together(d, worker, h)
    BY <1>2, <1>4, PaceParts
  <2>2. h.phase = "cbw" => Listens(d, worker)
    BY <2>1 DEF Together, Replies
  <2>3. h.phase = "data" => Asks(d, worker, h)
    <3>1. ASSUME h.phase = "data" PROVE h.cmd.op # "read" /\ h.cmd.op # "info" /\ Served(h.cmd)
      BY <1>1, <2>1, <3>1, ServedKinds DEF Together
    <3> QED
      BY <2>1, <3>1 DEF Together, Informs, Reads, Sends, Stores, Fails, Replies
  <2> QED
    BY <1>1, <1>3, <2>2, <2>3, PaceParts DEF Listens, Asks
<1>5. CASE d.halted # {}
  <2>1. Apart(d, worker, h)
    BY <1>2, <1>5, PaceParts
  <2>2. d.out.buf = "block" => d.stage = "DATA_OUT"
    BY <2>1 DEF Apart
  <2>3. d.out.buf = "cbw" =>
           d.stage \in {"READ_CBW", "DATA_IN"} /\ d.out.len = CbwLen /\ h.phase # "data"
    BY <1>1, <2>1 DEF Apart
  <2> QED
    BY <1>1, <1>3, <1>5, <2>2, <2>3, PaceParts
<1> QED
  BY <1>4, <1>5

\* What the host sends is a command, or the next chunk of its write.
LEMMA WireOutStore ==
    CallsFit /\ NoCallWraps /\ NoAddressWraps /\ MscInv /\ PaceInv /\ StoreInv /\ WireOut
        => StoreInv' /\ [BD!Next]_BD!vars
<1> SUFFICES ASSUME CallsFit, NoCallWraps, NoAddressWraps, MscInv, PaceInv, StoreInv, WireOut
             PROVE  StoreInv' /\ [BD!Next]_BD!vars
  OBVIOUS
<1> DEFINE n == Low(h.left, d.out.len)
           e == [Filled(d, n) EXCEPT !.out = Unarmed]
<1>1. PICK ok \in Answers :
        /\ d' = BulkOut(e, n, ok)
        /\ disk' = IF WritesHere(e) /\ ok THEN Written(e.start_sector, n, e.block_buffer) ELSE disk
        /\ h' = Sent(h, n)
  BY Zenon DEF WireOut
<1>2. /\ Sending /\ "out" \notin d.halted /\ d.out.buf # "none" /\ worker' = worker /\ TypeOK
      /\ h \in Host /\ d \in Dev /\ h.cmd \in Command /\ disk \in Medium
  BY InvParts DEF WireOut, MscInv, Host, TypeOK, Medium
<1>3. h.left \in Nat /\ d.out.len \in 0 .. BufSize /\ n \in Nat /\ n \in 0 .. BufSize /\ n <= h.left
  <2>1. h.left \in Nat /\ d.out.len \in 0 .. BufSize /\ BufSize \in Nat
    BY <1>2, Sizes DEF Host, Dev, Number
  <2> QED
    BY <2>1 DEF Low
<1>4. n = Low(h.left, d.out.len)
  OBVIOUS
<1> HIDE DEF n
<1>5. e \in Dev /\ Silent(e) /\ e.configured = d.configured
  BY <1>2, <1>3, FilledFine
<1>6. /\ e.stage = d.stage /\ e.halted = d.halted
      /\ d.out.buf = "cbw" => e.cbw = IF h.phase = "cbw" THEN h.cmd ELSE NoCommand
      /\ d.out.buf # "cbw" /\ h.phase = "data" =>
            /\ e.cbw = d.cbw /\ e.nsectors = d.nsectors /\ e.start_sector = d.start_sector
            /\ e.block_buffer = Payload(n)
  <2>1. /\ e.stage = d.stage /\ e.halted = d.halted
        /\ d.out.buf = "cbw" => e.cbw = IF h.phase = "cbw" THEN h.cmd ELSE NoCommand
    BY <1>2, FilledMakes, ZenonT(30)
  <2>2. d.out.buf # "cbw" /\ h.phase = "data" =>
            /\ e.cbw = d.cbw /\ e.nsectors = d.nsectors /\ e.start_sector = d.start_sector
            /\ e.block_buffer = Payload(n)
    BY <1>2, FilledData, ZenonT(30)
  <2> QED
    BY <2>1, <2>2
<1> HIDE DEF e
<1>7. worker.event = "none" /\ h.phase \in {"cbw", "data"}
  BY <1>2, InvParts DEF One, Sending
<1>8. h'.got = h.got /\ h'.cmd = h.cmd
  BY <1>1, <1>2, <1>3, SentGot, SentMakes DEF Keeps
<1>9. CASE h.phase = "cbw"
  <2>1. /\ d.out.buf = "cbw" /\ d.out.len = CbwLen /\ h.left = CbwLen
        /\ d.stage = "READ_CBW" \/ (d.stage = "DATA_IN" /\ d.halted # {})
    BY <1>2, <1>9, TakesOut
  <2>2. n = CbwLen /\ e.cbw = h.cmd /\ h.got = <<>>
    BY <1>4, <1>6, <1>9, <2>1, StoreParts DEF Low, Fresh
  <2>3. h'.phase \in {"data", "csw"}
    BY <1>1, <1>2, <1>3, <1>9, <2>1, <2>2, SentMakes
  <2>4. disk' = disk
    BY <1>1, <1>6, <2>1 DEF WritesHere
  <2>5. Holds(d', worker', h', disk')
    <3>1. CASE d.stage = "READ_CBW"
      BY <1>1, <1>2, <1>5, <1>6, <1>7, <1>9, <2>1, <2>2, <2>4, <3>1, CommandHolds
    <3>2. CASE d.stage = "DATA_IN" /\ d.halted # {}
      <4>1. d' = e
        BY <1>1, <1>6, <3>2 DEF BulkOut
      <4>2. Fresh(h')
        BY <1>8, <2>2 DEF Fresh
      <4> QED
        BY <1>2, <1>6, <3>2, <4>1, <4>2, RefusedHolds
    <3> QED
      BY <2>1, <3>1, <3>2
  <2>6. /\ CallOf(h') = CallOf(h) /\ ReplyOf(h') = ReplyOf(h) /\ GotOf(h') = GotOf(h)
        /\ LateOf(d', h') = LateOf(d, h)
    BY <1>8, <1>9, <2>1, <2>3 DEF CallOf, ReplyOf, GotOf, LateOf
  <2> QED
    BY <2>4, <2>5, <2>6, StoreNext, SeenNothing
<1>10. CASE h.phase = "data"
  <2>1. /\ d.out.buf = "block" /\ d.stage = "DATA_OUT" /\ Writing(d, worker, h, disk) /\ Wants(d, h)
    BY <1>2, <1>10, TakesOut
  <2>2. /\ d.out.len = TransferLen(d) /\ h.cmd = d.cbw /\ h.left = Size(d.nsectors)
        /\ d.cbw.op = "write" /\ Served(d.cbw) /\ d.nsectors \in 1 .. d.cbw.n
        /\ d.start_sector = d.cbw.lba + d.cbw.n - d.nsectors
        /\ Kept(d.cbw.lba, d.cbw.ver, d.cbw.n - d.nsectors, disk)
    BY <2>1 DEF Writing, Wants
  <2>3. /\ d.cbw.lba \in Nat /\ d.cbw.n \in Nat /\ d.nsectors \in Nat /\ d.nsectors # 0
        /\ Size(d.nsectors) < U32 /\ d.cbw.len = Size(d.cbw.n)
    <3>1. d.cbw \in Command
      BY <1>2, <2>2
    <3>2. d.cbw.lba \in Nat /\ d.cbw.n \in Nat /\ d.cbw.len = Size(d.cbw.n)
      BY <2>2, <3>1, ServedRange, ServedKinds
    <3>3. Size(d.nsectors) < U32
      BY <1>2, <2>2, Sizes DEF Host, Number
    <3> QED
      BY <2>2, <3>2, <3>3
  <2>4. PICK j \in 1 .. d.nsectors : TransferLen(d) = Size(j)
    BY <2>3, Chunk
  <2>5. n = Size(j) /\ j \in Nat
    <3>1. j \in Nat /\ j \in 0 .. d.nsectors
      BY <2>3
    <3>2. Size(j) <= Size(d.nsectors) /\ Size(j) \in Nat /\ Size(d.nsectors) \in Nat
      BY <2>3, <3>1, SizeMinus, SizeFacts
    <3> QED
      BY <1>4, <2>2, <2>4, <3>1, <3>2 DEF Low
  <2>6. Len(e.block_buffer) = j /\ Follows(e.block_buffer, d.cbw.ver, d.cbw.n - d.nsectors)
    <3>1. e.block_buffer = Payload(Size(j))
      BY <1>6, <1>10, <2>1, <2>5
    <3>2. d.nsectors \in 0 .. d.cbw.n
      BY <2>2, <2>3
    <3>3. h.cmd.len = Size(d.cbw.n) /\ h.left = Size(d.nsectors) /\ h.cmd.ver = d.cbw.ver
      BY <2>2, <2>3
    <3> QED
      BY <2>3, <2>5, <3>1, <3>2, <3>3, PayloadFollows
  <2>7. e.cbw = d.cbw /\ e.nsectors = d.nsectors /\ e.start_sector = d.start_sector
    BY <1>6, <1>10, <2>1
  <2>8. Chunked(e, j)
    BY <2>2, <2>4, <2>6, <2>7 DEF Chunked
  <2>9. disk' = IF mode = "irq" /\ ok THEN Written(e.start_sector, Size(j), e.block_buffer) ELSE disk
    BY <1>1, <1>6, <2>1, <2>5 DEF WritesHere
  <2>10. Holds(d', worker, h', disk') /\ Puts(e.cbw.lba, e.cbw.n, e.cbw.ver, disk')
    <3>1. e.stage = "DATA_OUT" /\ "out" \notin e.halted /\ h.cmd = e.cbw /\ h.left = Size(e.nsectors)
      BY <1>2, <1>6, <2>1, <2>2, <2>7
    <3>2. d' = BulkOut(e, Size(j), ok) /\ h' = Sent(h, Size(j)) /\ Size(j) \in 0 .. BufSize
      BY <1>1, <1>3, <2>5
    <3> QED
      BY <1>2, <1>5, <1>7, <1>10, <2>8, <2>9, <3>1, <3>2, StoreParts, ChunkTaken
  <2>11. h'.phase \in {"data", "csw"}
    BY <1>1, <1>2, <1>3, <1>10, SentMakes
  <2>12. /\ CallOf(h') = CallOf(h) /\ ReplyOf(h') = ReplyOf(h) /\ GotOf(h') = GotOf(h)
         /\ LateOf(d', h') = LateOf(d, h)
    BY <1>8, <1>10, <2>11 DEF CallOf, ReplyOf, GotOf, LateOf
  <2>13. Puts(h.cmd.lba, h.cmd.n, h.cmd.ver, disk') /\ h.cmd.op = "write" /\ h.phase # "idle"
         /\ h.cmd.lba \in Nat /\ h.cmd.n \in Nat /\ h.cmd.asked = h.cmd.n
    BY <1>2, <1>10, <2>2, <2>3, <2>7, <2>10, AskedFits
  <2>14. StoreInv'
    BY <1>2, <2>10, StoreNext
  <2>15. [BD!Next]_BD!vars
    BY <1>2, <2>12, <2>13, SeenWrite
  <2> QED
    BY <2>14, <2>15
<1> QED
  BY <1>7, <1>9, <1>10
\* A chunk of a read has come in: what the host has got is the beginning of
\* the call, whatever the device does next.
LEMMA ChunkSent ==
    ASSUME NoAddressWraps, TypeOK, NEW e \in Dev, Silent(e), e.halted = {},
           e.stage = IF e.nsectors = 0 THEN "SEND_CSW" ELSE "DATA_IN",
           NEW w, w.event = "none", NEW g \in Host, g.phase \in {"data", "csw"}, g.cmd \in Command,
           g.cmd.op = "read", Served(g.cmd), e.nsectors \in 0 .. g.cmd.n, Size(e.nsectors) < U32,
           e.start_sector = g.cmd.lba + g.cmd.n - e.nsectors,
           g.got = Held(g.cmd.lba, g.cmd.n - e.nsectors, disk),
           g.phase = IF e.nsectors = 0 THEN "csw" ELSE "data",
           NEW ok, NEW f, f = BulkIn(e, ok)
    PROVE  Holds(f, w, g, disk)
<1>1. e.event = "none" /\ e.out.buf = "none" /\ e.in.buf = "none"
  BY DEF Silent
<1>2. g.cmd.lba \in Nat /\ g.cmd.n \in Nat
  BY ServedRange
<1>3. CASE e.nsectors = 0
  <2>1. f = SendCsw(e, "passed")
    BY <1>3 DEF BulkIn
  <2>2. f.halted = {} /\ f.stage = "WAIT_CSW"
    BY <2>1, SendCswMakes
  <2>3. Done(g, disk)
    BY <1>2, <1>3 DEF Done
  <2> QED
    BY <1>3, <2>2, <2>3 DEF Holds, Fresh
<1>4. CASE e.nsectors # 0 /\ mode # "irq"
  <2>1. f = Post(e, "DATA_IN")
    BY <1>4 DEF BulkIn
  <2>2. f.halted = {} /\ f.stage = "DATA_IN" /\ f.in = e.in /\ f.nsectors = e.nsectors
    BY <1>1, <1>4, <2>1, PostMakes
  <2>3. f.start_sector = e.start_sector
    BY <1>1, <2>1, PostData DEF SameData
  <2>4. Reading(f, w, g, disk)
    BY <1>1, <2>2, <2>3 DEF Reading
  <2> QED
    BY <1>4, <2>2, <2>4 DEF Holds, Fresh
<1>5. CASE e.nsectors # 0 /\ mode = "irq" /\ ok
  <2>1. f = ReadDone(e, TransferLen(e), Stored(e.start_sector, TransferLen(e)))
    BY <1>5 DEF BulkIn
  <2>2. e.nsectors \in 1 .. g.cmd.n /\ e.stage = "DATA_IN" /\ g.phase = "data"
    BY <1>2, <1>5
  <2> QED
    BY <2>1, <2>2, ReadHolds
<1>6. CASE e.nsectors # 0 /\ mode = "irq" /\ ~ok
  <2>1. f = SendCsw(e, "failed")
    BY <1>6 DEF BulkIn
  <2>2. f.halted = {} /\ f.stage = "WAIT_CSW"
    BY <2>1, SendCswMakes
  <2> QED
    BY <1>6, <2>2, RefusedHolds DEF Fresh
<1> QED
  BY <1>3, <1>4, <1>5, <1>6

\* What comes in is the next chunk of a read, or the end of a call: one that
\* passed has done what it promised.
LEMMA WireInStore ==
    CallsFit /\ NoCallWraps /\ NoAddressWraps /\ MscInv /\ PaceInv /\ StoreInv /\ WireIn
        => StoreInv' /\ [BD!Next]_BD!vars
<1> SUFFICES ASSUME CallsFit, NoCallWraps, NoAddressWraps, MscInv, PaceInv, StoreInv, WireIn
             PROVE  StoreInv' /\ [BD!Next]_BD!vars
  OBVIOUS
<1> DEFINE n == Low(h.left, d.in.len)
           e == [d EXCEPT !.in = Unarmed]
<1>1. PICK ok \in Answers : d' = BulkIn(e, ok) /\ h' = Received(h, d.in.buf, n)
  BY Zenon DEF WireIn
<1>2. /\ Receiving /\ "in" \notin d.halted /\ d.in.buf # "none" /\ worker' = worker /\ disk' = disk
      /\ TypeOK /\ h \in Host /\ d \in Dev /\ h.cmd \in Command /\ disk \in Medium
  BY InvParts DEF WireIn, MscInv, Host, TypeOK, Medium
<1>3. h.left \in Nat /\ d.in.len \in Nat /\ n \in Nat /\ n = Low(h.left, d.in.len)
  <2>1. h.left \in Nat /\ d.in.len \in Nat
    BY <1>2, Sizes DEF Host, Dev, Number
  <2> QED
    BY <2>1 DEF Low
<1> HIDE DEF n
<1>4. d.out.buf = "none" /\ d.event = "none" /\ worker.event = "none"
  BY <1>2, InvParts DEF One
<1>5. /\ e \in Dev /\ Silent(e) /\ e.in.buf = "none" /\ e.stage = d.stage
      /\ e.halted = d.halted /\ e.nsectors = d.nsectors /\ e.start_sector = d.start_sector
  <2>1. /\ Unarmed \in [buf : {"none", "info", "block", "csw"}, len : 0 .. BufSize]
        /\ Unarmed.buf = "none" /\ Unarmed.len = 0
    BY Sizes DEF Unarmed
  <2> QED
    BY <1>2, <1>4, <2>1 DEF Dev, Silent
<1> HIDE DEF e
<1>6. h.phase \in {"csw", "data"} /\ (h.phase = "data" => h.cmd.in)
  BY <1>2 DEF Receiving
<1>7. d.halted = {} /\ Together(d, worker, h)
  BY <1>2, <1>6, PaceParts DEF Apart
<1>8. CASE h.phase = "csw"
  <2>1. d.stage = "WAIT_CSW" /\ d.in.buf = "csw"
    BY <1>2, <1>7, <1>8 DEF Together, Listens, Stores, Replies
  <2>2. d'.stage = "READ_CBW" /\ d'.halted = {}
    BY <1>1, <1>5, <1>7, <2>1, ListensAgain
  <2>3. /\ h'.phase = "idle" /\ h'.ret = IF d.status = "passed" THEN "ok" ELSE "failed"
        /\ h'.got = IF d.status = "passed" THEN h.got ELSE <<>>
    BY <1>1, <1>2, <1>3, <1>8, <2>1, ReceivedMakes, ReceivedGot
  <2>4. StoreInv'
    <3>1. Holds(d', worker', h', disk')
      BY <2>2, <2>3, RefusedHolds DEF Fresh
    <3> QED
      BY <3>1, StoreNext
  <2>5. LateOf(d, h) = Idle /\ LateOf(d', h') = Idle /\ CallOf(h') = Idle /\ h.cmd.op # "idle"
    <3>1. h.cmd.op # "idle"
      BY <1>2, CbwParts DEF Command, NoCommand, NoData, Info
    <3> QED
      BY <1>8, <2>2, <2>3, <3>1 DEF LateOf, CallOf
  <2>6. CASE d.status = "passed"
    <3>1. Done(h, disk)
      BY <1>7, <1>8, <2>1, <2>6, StoreParts
    <3>2. h.cmd.op \in {"read", "write"} =>
             h.cmd.lba \in Nat /\ h.cmd.n \in Nat /\ h.cmd.lba + h.cmd.n <= Blocks
      BY <1>2, <3>1, ServedRange DEF Done
    <3>3. h.cmd.op # "read" => h.got = <<>>
      BY <1>8, StoreParts DEF Fresh
    <3>4. ReplyOf(h') = "ok" /\ GotOf(h') = IF h.cmd.op = "read" THEN h.got ELSE <<>>
      BY <2>3, <2>6, <3>3 DEF ReplyOf, GotOf
    <3> QED
      BY <1>2, <1>8, <2>4, <2>5, <3>1, <3>2, <3>4, AskedFits, SeenOk
  <2>7. CASE d.status # "passed"
    <3>1. ReplyOf(h') = "error" /\ GotOf(h') = <<>>
      BY <2>3, <2>7 DEF ReplyOf, GotOf
    <3>2. CallOf(h) # Idle
      BY <1>8, <2>5 DEF CallOf, Of, Idle
    <3> QED
      BY <1>2, <2>4, <2>5, <3>1, <3>2, SeenError
  <2> QED
    BY <2>6, <2>7
<1>9. CASE h.phase = "data"
  <2>1. Served(h.cmd) /\ (Informs(d, worker, h) \/ Sends(d, worker, h) \/ Fails(d, worker, h))
    BY <1>2, <1>4, <1>7, <1>9 DEF Together, Reads, Asks, Stores
  <2>2. /\ h' \in Host /\ h'.cmd = h.cmd /\ h'.phase \in {"data", "csw"}
        /\ d.in.buf # "block" => h'.phase = "csw"
    <3>1. MscInv'
      BY WireInInv
    <3>2. h' \in Host
      BY <3>1 DEF MscInv, TypeOK, Host, Command, Number
    <3> QED
      BY <1>1, <1>2, <1>3, <1>9, <3>2, ReceivedMakes DEF Keeps
  <2>3. ASSUME Informs(d, worker, h) PROVE Holds(d', worker, h', disk)
    <3>1. d.stage = "SEND_CSW" /\ h.cmd.op = "info" /\ d.in.buf = "info"
      BY <2>3 DEF Informs
    <3>2. d' = SendCsw(e, "passed")
      BY <1>1, <1>5, <3>1 DEF BulkIn
    <3>3. d'.halted = {} /\ d'.stage = "WAIT_CSW"
      BY <1>5, <1>7, <3>2, SendCswMakes
    <3>4. h'.got = <<>> /\ h'.phase = "csw"
      BY <1>1, <1>2, <1>9, <2>2, <3>1, StoreParts, ReceivedGot DEF Fresh
    <3> QED
      BY <2>2, <3>1, <3>3, <3>4 DEF Holds, Fresh, Done
  <2>4. ASSUME Sends(d, worker, h) PROVE Holds(d', worker, h', disk)
    <3>1. /\ h.cmd.op = "read" /\ d.stage = (IF d.nsectors = 0 THEN "SEND_CSW" ELSE "DATA_IN")
          /\ d.in.buf = "block" /\ h.left = d.in.len + Size(d.nsectors)
      BY <2>4 DEF Sends
    <3>2. d.nsectors \in Nat /\ Size(d.nsectors) \in Nat /\ Size(d.nsectors) < U32
      <4>1. d.nsectors \in Nat /\ Size(d.nsectors) \in Nat
        BY <1>2, SizeFacts DEF Dev, Number
      <4>2. h.left < U32
        BY <1>2, Sizes DEF Host, Number
      <4> QED
        BY <1>3, <3>1, <4>1, <4>2, Sizes
    <3>3. Reading(d, worker, h, disk)
      BY <1>7, <1>9, <3>1, StoreParts
    <3>4. /\ d.nsectors \in 0 .. h.cmd.n /\ d.start_sector = h.cmd.lba + h.cmd.n - d.nsectors
          /\ d.in.len = Size(Len(d.block_buffer))
          /\ h.got \o d.block_buffer = Held(h.cmd.lba, h.cmd.n - d.nsectors, disk)
      BY <3>1, <3>3 DEF Reading
    <3>5. n = d.in.len
      BY <1>3, <3>1, <3>2 DEF Low
    <3>6. h'.got = Held(h.cmd.lba, h.cmd.n - d.nsectors, disk)
      <4>1. d.block_buffer \in Seq(Nat \X Nat)
        BY <1>2 DEF Dev
      <4>2. n \div BlkSize = Len(d.block_buffer)
        BY <3>4, <3>5, <4>1, SizeFacts
      <4>3. SubSeq(d.block_buffer, 1, Len(d.block_buffer)) = d.block_buffer
        BY <4>1
      <4>4. h'.got = h.got \o SubSeq(d.block_buffer, 1, n \div BlkSize)
        BY <1>1, <1>2, <1>9, <3>1, ReceivedGot
      <4> QED
        BY <3>4, <4>2, <4>3, <4>4, Zenon
    <3>7. h'.phase = IF d.nsectors = 0 THEN "csw" ELSE "data"
      <4>1. h.left = n <=> d.nsectors = 0
        BY <1>3, <3>1, <3>2, <3>5, SizeFacts
      <4> QED
        BY <1>1, <1>2, <1>3, <1>9, <3>1, <4>1, ReceivedMakes
    <3>8. /\ e.stage = (IF e.nsectors = 0 THEN "SEND_CSW" ELSE "DATA_IN") /\ e.halted = {}
          /\ h'.cmd.op = "read" /\ Served(h'.cmd) /\ e.nsectors \in 0 .. h'.cmd.n
          /\ Size(e.nsectors) < U32 /\ e.start_sector = h'.cmd.lba + h'.cmd.n - e.nsectors
          /\ h'.got = Held(h'.cmd.lba, h'.cmd.n - e.nsectors, disk)
          /\ h'.phase = (IF e.nsectors = 0 THEN "csw" ELSE "data") /\ h'.cmd \in Command
      BY <1>2, <1>5, <1>7, <2>1, <2>2, <3>1, <3>2, <3>4, <3>6, <3>7
    <3> QED
      BY <1>1, <1>2, <1>4, <1>5, <2>2, <3>8, ChunkSent
  <2>5. ASSUME Fails(d, worker, h) PROVE Holds(d', worker, h', disk)
    <3>1. d.stage = "WAIT_CSW" /\ d.in.buf = "csw" /\ h.cmd.op \in {"read", "write"}
      BY <2>5 DEF Fails, Replies
    <3>2. h.cmd.op = "read"
      BY <1>2, <1>6, <1>9, <2>1, <3>1, ServedKinds
    <3>3. d'.stage = "READ_CBW" /\ d'.halted = {}
      BY <1>1, <1>5, <1>7, <3>1, ListensAgain
    <3> QED
      BY <2>2, <3>1, <3>2, <3>3 DEF Holds, Fresh
  <2>6. Holds(d', worker', h', disk')
    BY <1>2, <2>1, <2>3, <2>4, <2>5
  <2>7. /\ CallOf(h') = CallOf(h) /\ ReplyOf(h') = ReplyOf(h) /\ GotOf(h') = GotOf(h)
        /\ LateOf(d', h') = LateOf(d, h)
    BY <1>9, <2>2 DEF CallOf, ReplyOf, GotOf, LateOf
  <2> QED
    BY <1>2, <2>6, <2>7, StoreNext, SeenNothing
<1> QED
  BY <1>6, <1>8, <1>9
-----------------------------------------------------------------------------
(* The refinement.                                                         *)

\* Nothing is read or written at the start.
LEMMA StoreStarts == Init => StoreInv /\ BD!Init
<1> SUFFICES ASSUME Init PROVE StoreInv /\ BD!Init
  OBVIOUS
<1>1. d.stage = "READ_CBW" /\ d.halted = {} /\ disk = [s \in 0 .. Blocks - 1 |-> <<0, s + 1>>]
  BY DEF Init, MscInit
<1>2. h.phase = "idle" /\ h.ret = "none"
  BY DEF Init
<1>3. StoreInv
  BY <1>1, <1>2 DEF StoreInv, Holds, Fresh
<1>4. BD!Init
  BY <1>1, <1>2 DEF BD!Init, BD!NoCall
<1> QED
  BY <1>3, <1>4

LEMMA StoreStep ==
    CallsFit /\ Patient /\ NoAddressWraps /\ MscInv /\ PaceInv /\ StoreInv /\ [Next]_vars
        => StoreInv' /\ [BD!Next]_BD!vars
  BY HostCallStore, WireOutStore, WireInStore, WireStallStore, HostTimeoutStore, WorkerStartsStore,
     WorkerEndsStore, BusResetStore, ConfigureStore, RecoverStore, StutterStore, Zenon
     DEF Next, Patient

\* Unless a timeout or a reset comes while the device works, and for every
\* call of fewer than 65536 blocks whose length and last address fit 32 bits:
\* usbh_msc_scsi_read10 and usbh_msc_scsi_write10 keep what BlockDevice
\* promises.  A call returns 0 only when it has read what all its blocks hold
\* or its data is in all of them; one that fails may leave a write behind that
\* goes on, but none returns 0 before it is over, and no block changes that was
\* not written to.
THEOREM MscStorage == ASSUME Patient, NoAddressWraps, CallsFit PROVE Spec => Storage
<1>1. Init => MscInv /\ PaceInv /\ StoreInv /\ BD!Init
  BY InitHolds, PaceStarts, StoreStarts
<1>2. MscInv /\ PaceInv /\ StoreInv /\ [Next]_vars
        => (MscInv /\ PaceInv /\ StoreInv)' /\ [BD!Next]_BD!vars
  BY StepInv, PaceStep, StoreStep DEF Patient
<1>3. Spec => BD!Init /\ [][BD!Next]_BD!vars
  BY <1>1, <1>2, PTL DEF Spec
<1> QED
  BY <1>3 DEF Storage, BD!Spec

=============================================================================
