--------------------------- MODULE UsbdEp0Proofs ---------------------------
(***************************************************************************)
(* Proofs about UsbdEp0 for every packet size, buffer size, wLength and    *)
(* offered length: its safety properties, and that it implements           *)
(* ControlTransfer.                                                        *)
(*                                                                         *)
(* None of the properties is inductive: what the host has moved and what   *)
(* the core believes meet only through the armed transfer or the           *)
(* completion between them.  Ep0Inv says what both sides know while one of *)
(* these is there (InWork, OutWork), and when there can be none.           *)
(***************************************************************************)
EXTENDS UsbdEp0, TLAPS

\* The core works on the request of the host, once it has seen its SETUP.
Sync == bus # "setup" => setup = [dir |-> host.dir, len |-> host.len]

\* The host has not moved more than it may, and hears no babble.
HostSane ==
    /\ host.stage # "babble" /\ host.moved <= host.len
    /\ host.stage = "data" => host.moved < host.len
    /\ bus = "setup" => host.moved = 0 /\ host.stage \in {"data", "status"}
    /\ bus = "reset" => host.stage = "idle"
    /\ host.dir = "in" => DOMAIN got = 0 .. host.moved - 1

\* At most one of: a transfer armed, a completion pending, EP0 stalled; and
\* nothing armed when a SETUP is taken.
Working(ep) == arm[ep].on \/ done.ep = ep
Exclusive ==
    /\ ~arm.in.on => arm.in = Off
    /\ ~arm.out.on => arm.out = Off
    /\ arm.in.on => ~arm.out.on /\ done.ep = "none"
    /\ arm.out.on => done.ep = "none"
    /\ stall => ~arm.in.on /\ ~arm.out.on /\ done.ep = "none"
    /\ bus = "setup" => ~arm.in.on /\ ~arm.out.on /\ ~stall

AsksForData == setup.dir = "in" /\ setup.len > 0
Total == Reply(setup.len, verdict.len)

InWork == Working("in") =>
    /\ next \in {"IN_DATA", "IN_STATUS"} /\ verdict.st = "accepted"
    /\ ptr + residue <= BufLen
    /\ next = "IN_STATUS" => residue = 0
    /\ arm.in.on => /\ arm.in.sent <= arm.in.len /\ arm.in.len <= residue
                    /\ arm.in.len = residue \/ (arm.in.len = MPS /\ arm.in.sent = 0)
                    /\ arm.in.len > 0 => arm.in.off = ptr
                    /\ arm.in.off + arm.in.len <= BufLen
    /\ done.ep = "in" => done.n <= residue
    /\ AsksForData => ptr + residue = Total /\ host.moved = ptr + InFlight("in")
    /\ ~AsksForData => next = "IN_STATUS" /\ ~zlp

Prefix(n) == \A i \in 0 .. n - 1 : mem[i] = i
OutData ==
    /\ bus # "setup" /\ setup.dir = "out" /\ verdict.st = "pending" /\ zlp = FALSE
    /\ ptr + residue = setup.len /\ setup.len <= BufLen
    /\ host.moved = ptr + InFlight("out") /\ Prefix(host.moved)
    /\ arm.out.on => /\ arm.out.off = ptr /\ arm.out.len <= residue
                     /\ arm.out.sent <= arm.out.len
    /\ done.ep = "out" => done.n > 0 /\ done.n <= residue
OutStatus ==
    /\ residue = 0 /\ AsksForData /\ verdict.st = "accepted" /\ Total <= BufLen
    /\ arm.out.on => arm.out.off = 0 /\ arm.out.len = 0 /\ arm.out.sent = 0
    /\ done.ep = "out" => done.n = 0
OutWork == Working("out") =>
    \/ next = "OUT_DATA" /\ OutData
    \/ next = "OUT_STATUS" /\ OutStatus

\* The completion that a finished transfer, or a SETUP, may leave is the
\* one of the status stage.
LeftOver ==
    bus = "setup" \/ (bus = "none" /\ host.stage = "idle") =>
        /\ done.ep = "in" => ~AsksForData
        /\ done.ep = "out" => next = "OUT_STATUS"

\* When the host is through and all of it was seen, EP0 waits for a SETUP.
Resting == Quiet /\ host.stage = "idle" => next = "SETUP"

\* While the host sends data that fits, the core reads it; a stall says no.
Listening ==
    bus = "none" /\ host.stage = "data" /\ host.dir = "out" /\ host.len <= BufLen =>
        Working("out") /\ next = "OUT_DATA"
Answering ==
    bus = "none" /\ host.stage = "data" /\ host.dir = "in"
    /\ verdict.st = "accepted" /\ ~stall =>
        Working("in") \/ (residue = 0 /\ host.moved = Total)
SaysNo ==
    stall => \/ verdict.st = "refused"
             \/ verdict.st = "accepted" /\ setup.dir = "in" /\ Total > BufLen

\* No OUT request longer than the buffer is accepted.
Fits == verdict.st = "accepted" /\ setup.dir = "out" => setup.len <= BufLen

Ep0Inv ==
    /\ TypeOK /\ HandlerSeesAll /\ Fits /\ InOrder
    /\ Sync /\ HostSane /\ Exclusive /\ InWork /\ OutWork
    /\ LeftOver /\ Resting /\ Listening /\ Answering /\ SaysNo
-----------------------------------------------------------------------------
Transfers == [in : Transfer, out : Transfer]
Dones == [ep : {"none", "in", "out"}, n : 0 .. BufLen]

WriteArmed(off, n) ==
    /\ arm' \in Transfers /\ arm'.out = arm.out /\ stall' = stall
    /\ arm'.in.on = TRUE /\ arm'.in.off = off /\ arm'.in.sent = 0
    /\ arm'.in.len \in 0 .. n /\ (n > 0 => arm'.in.len > 0)
    /\ arm'.in.len = n \/ arm'.in.len = MPS

ReadArmed(off, n) ==
    /\ arm' \in Transfers /\ arm'.in = arm.in /\ stall' = stall
    /\ arm'.out.on = TRUE /\ arm'.out.off = off /\ arm'.out.sent = 0
    /\ arm'.out.len \in 0 .. n /\ (n > 0 => arm'.out.len > 0)

InDone == /\ arm'.in = Off /\ done' = [ep |-> "in", n |-> arm.in.len]
          /\ Least(MPS, arm.in.len - arm.in.sent) = arm.in.len - arm.in.sent
InGoesOn == /\ arm'.in = [on |-> TRUE, off |-> arm.in.off, len |-> arm.in.len,
                          sent |-> arm.in.sent + MPS]
            /\ done' = done /\ arm.in.sent + MPS < arm.in.len
            /\ Least(MPS, arm.in.len - arm.in.sent) = MPS
InMoved == arm' \in Transfers /\ arm'.out = arm.out /\ done' \in Dones
           /\ (InDone \/ InGoesOn)

OutDone(p) == arm'.out = Off /\ done' = [ep |-> "out", n |-> arm.out.sent + p]
OutGoesOn(p) == /\ arm'.out = [on |-> TRUE, off |-> arm.out.off, len |-> arm.out.len,
                               sent |-> arm.out.sent + p]
                /\ done' = done /\ p = MPS
OutMoved(p) == arm' \in Transfers /\ arm'.in = arm.in /\ done' \in Dones
               /\ (OutDone(p) \/ OutGoesOn(p))

LEMMA WriteArms ==
    ASSUME arm \in Transfers, NEW off \in 0 .. BufLen, NEW n \in 0 .. BufLen,
           StartWrite(off, n)
    PROVE  WriteArmed(off, n)
<1>1. PICK c \in Portion(n) :
           arm' = [arm EXCEPT !.in = [on |-> TRUE, off |-> off, len |-> c, sent |-> 0]]
  BY DEF StartWrite
<1>2. c \in 0 .. n /\ (n > 0 => c > 0) /\ (c = n \/ c = MPS)
  BY Ep0Assumption DEF Portion, Least
<1>3. [on |-> TRUE, off |-> off, len |-> c, sent |-> 0] \in Transfer
  BY <1>2, Ep0Assumption DEF Transfer
<1>4. arm' = [in |-> arm'.in, out |-> arm'.out] /\ arm'.out = arm.out
      /\ arm'.in = [on |-> TRUE, off |-> off, len |-> c, sent |-> 0]
  BY <1>1 DEF Transfers
<1>5. arm' \in Transfers /\ stall' = stall
  BY <1>3, <1>4 DEF Transfers, StartWrite
<1> QED BY <1>2, <1>4, <1>5 DEF WriteArmed

LEMMA ReadArms ==
    ASSUME arm \in Transfers, NEW off \in 0 .. BufLen, NEW n \in 0 .. BufLen,
           StartRead(off, n)
    PROVE  ReadArmed(off, n)
<1>1. PICK c \in Portion(n) :
           arm' = [arm EXCEPT !.out = [on |-> TRUE, off |-> off, len |-> c, sent |-> 0]]
  BY DEF StartRead
<1>2. c \in 0 .. n /\ (n > 0 => c > 0) /\ (c = n \/ c = MPS)
  BY Ep0Assumption DEF Portion, Least
<1>3. [on |-> TRUE, off |-> off, len |-> c, sent |-> 0] \in Transfer
  BY <1>2, Ep0Assumption DEF Transfer
<1>4. arm' = [in |-> arm'.in, out |-> arm'.out] /\ arm'.in = arm.in
      /\ arm'.out = [on |-> TRUE, off |-> off, len |-> c, sent |-> 0]
  BY <1>1 DEF Transfers
<1>5. arm' \in Transfers /\ stall' = stall
  BY <1>3, <1>4 DEF Transfers, StartRead
<1> QED BY <1>2, <1>4, <1>5 DEF ReadArmed

LEMMA InMoves ==
    ASSUME arm \in Transfers, done \in Dones,
           arm.in.on, arm.in.sent <= arm.in.len, Moved("in", Least(MPS, arm.in.len - arm.in.sent))
    PROVE  InMoved
<1> DEFINE q == Least(MPS, arm.in.len - arm.in.sent)
           n == arm.in.sent + q
<1>1. q \in 0 .. MPS /\ n \in 0 .. arm.in.len /\ arm.in.len \in 0 .. BufLen
  BY Ep0Assumption DEF Least, Transfers, Transfer
<1>2. \/ /\ q < MPS \/ n = arm.in.len
         /\ arm' = [arm EXCEPT !.in = Off] /\ done' = [ep |-> "in", n |-> n]
      \/ /\ ~(q < MPS \/ n = arm.in.len)
         /\ arm' = [arm EXCEPT !.in.sent = n] /\ UNCHANGED done
  BY DEF Moved
<1>3. arm.in = [on |-> TRUE, off |-> arm.in.off, len |-> arm.in.len, sent |-> arm.in.sent]
  BY DEF Transfers, Transfer
<1>4. arm = [in |-> arm.in, out |-> arm.out]
  BY DEF Transfers
<1> HIDE DEF q, n
<1>5. CASE q < MPS \/ n = arm.in.len
  <2>1. arm'.in = Off /\ arm'.out = arm.out /\ arm' = [in |-> arm'.in, out |-> arm'.out]
    BY <1>2, <1>4, <1>5
  <2>2. Off \in Transfer
    BY Ep0Assumption DEF Off, Transfer
  <2>3. arm' \in Transfers
    BY <2>1, <2>2 DEF Transfers
  <2>4. done' = [ep |-> "in", n |-> n] /\ n \in 0 .. BufLen
    BY <1>1, <1>2, <1>5, Ep0Assumption
  <2>5. arm.in.len \in Nat /\ arm.in.sent \in Nat
    BY Ep0Assumption DEF Transfers, Transfer
  <2>6. n = arm.in.len /\ q = arm.in.len - arm.in.sent
    BY <1>5, <2>5, Ep0Assumption DEF q, n, Least
  <2> QED BY <2>1, <2>3, <2>4, <2>6 DEF q, Dones, InMoved, InDone
<1>6. CASE ~(q < MPS \/ n = arm.in.len)
  <2>1. /\ arm'.in = [on |-> TRUE, off |-> arm.in.off, len |-> arm.in.len, sent |-> n]
        /\ arm'.out = arm.out /\ arm' = [in |-> arm'.in, out |-> arm'.out]
    BY <1>2, <1>3, <1>4, <1>6
  <2>2. arm'.in \in Transfer
    BY <1>1, <2>1, Ep0Assumption DEF Transfers, Transfer
  <2>3. arm' \in Transfers /\ done' = done
    BY <1>2, <1>6, <2>1, <2>2 DEF Transfers
  <2>4. q = MPS /\ n < arm.in.len
    BY <1>1, <1>6, Ep0Assumption
  <2> QED BY <2>1, <2>3, <2>4 DEF q, n, InMoved, InGoesOn
<1> QED BY <1>5, <1>6

LEMMA OutMoves ==
    ASSUME arm \in Transfers, done \in Dones,
           arm.out.on, NEW p \in 0 .. MPS, arm.out.sent + p <= arm.out.len, Moved("out", p)
    PROVE  OutMoved(p)
<1> DEFINE q == p
           n == arm.out.sent + q
<1>1. q \in 0 .. MPS /\ n \in 0 .. arm.out.len /\ arm.out.len \in 0 .. BufLen
  BY Ep0Assumption DEF Least, Transfers, Transfer
<1>2. \/ /\ q < MPS \/ n = arm.out.len
         /\ arm' = [arm EXCEPT !.out = Off] /\ done' = [ep |-> "out", n |-> n]
      \/ /\ ~(q < MPS \/ n = arm.out.len)
         /\ arm' = [arm EXCEPT !.out.sent = n] /\ UNCHANGED done
  BY DEF Moved
<1>3. arm.out = [on |-> TRUE, off |-> arm.out.off, len |-> arm.out.len, sent |-> arm.out.sent]
  BY DEF Transfers, Transfer
<1>4. arm = [in |-> arm.in, out |-> arm.out]
  BY DEF Transfers
<1> HIDE DEF q, n
<1>5. CASE q < MPS \/ n = arm.out.len
  <2>1. arm'.out = Off /\ arm'.in = arm.in /\ arm' = [in |-> arm'.in, out |-> arm'.out]
    BY <1>2, <1>4, <1>5
  <2>2. Off \in Transfer
    BY Ep0Assumption DEF Off, Transfer
  <2>3. arm' \in Transfers
    BY <2>1, <2>2 DEF Transfers
  <2>4. done' = [ep |-> "out", n |-> n] /\ n \in 0 .. BufLen
    BY <1>1, <1>2, <1>5, Ep0Assumption
  <2> QED BY <2>1, <2>3, <2>4 DEF q, n, Dones, OutMoved, OutDone
<1>6. CASE ~(q < MPS \/ n = arm.out.len)
  <2>1. /\ arm'.out = [on |-> TRUE, off |-> arm.out.off, len |-> arm.out.len, sent |-> n]
        /\ arm'.in = arm.in /\ arm' = [in |-> arm'.in, out |-> arm'.out]
    BY <1>2, <1>3, <1>4, <1>6
  <2>2. arm'.out \in Transfer
    BY <1>1, <2>1, Ep0Assumption DEF Transfers, Transfer
  <2>3. arm' \in Transfers /\ done' = done
    BY <1>2, <1>6, <2>1, <2>2 DEF Transfers
  <2>4. q = MPS /\ n < arm.out.len
    BY <1>1, <1>6, Ep0Assumption
  <2> QED BY <2>1, <2>3, <2>4 DEF q, n, OutMoved, OutGoesOn
<1> QED BY <1>5, <1>6

Scalars ==
    /\ setup.dir \in {"in", "out"} /\ setup.len \in Nat
    /\ ptr \in 0 .. BufLen /\ residue \in Nat
    /\ zlp \in BOOLEAN /\ stall \in BOOLEAN /\ arm.in.on \in BOOLEAN /\ arm.out.on \in BOOLEAN
    /\ arm.in.off \in 0 .. BufLen /\ arm.in.len \in 0 .. BufLen /\ arm.in.sent \in 0 .. BufLen
    /\ arm.out.off \in 0 .. BufLen /\ arm.out.len \in 0 .. BufLen /\ arm.out.sent \in 0 .. BufLen
    /\ done.ep \in {"none", "in", "out"} /\ done.n \in 0 .. BufLen
    /\ host.dir \in {"in", "out"} /\ host.len \in Nat /\ host.moved \in Nat
    /\ verdict.len \in Nat
    /\ MPS \in Nat /\ MPS > 0 /\ BufLen \in Nat

LEMMA TypedScalars == TypeOK => Scalars
BY Ep0Assumption DEF TypeOK, Transfer, Scalars

LEMMA TypedScalarsNext == TypeOK' => Scalars'
BY Ep0Assumption DEF TypeOK, Transfer, Scalars

-----------------------------------------------------------------------------
(* What holds between two steps.                                           *)

LEMMA NothingArmed ==
    ASSUME Ep0Inv, bus = "setup" \/ done.ep # "none"
    PROVE  /\ arm.in = Off /\ arm.in.on = FALSE /\ arm.in.sent = 0
           /\ arm.out = Off /\ arm.out.on = FALSE /\ arm.out.sent = 0
           /\ stall = FALSE
<1>1. Scalars
  BY TypedScalars DEF Ep0Inv
<1> QED BY <1>1 DEF Ep0Inv, Exclusive, Off, Scalars

\* The part of the invariant a SETUP handler cannot disturb.
LEMMA SetupTaken ==
    ASSUME Ep0Inv, Taken, setup' = NewSetup, UNCHANGED <<mem, hostVars>>
    PROVE  /\ bus = "setup" /\ bus' = "none" /\ done' = done /\ done'.ep = "none"
           /\ setup'.dir = host.dir /\ setup'.len = host.len /\ host.len \in Nat
           /\ setup' \in [dir : {"in", "out"}, len : 0 .. MaxLen]
           /\ host.moved = 0 /\ (host.stage = "data" => host.len > 0)
           /\ Sync' /\ HostSane' /\ InOrder' /\ LeftOver' /\ Resting'
<1>1. bus = "setup" /\ bus' = "none" /\ done' = done /\ done.ep = "none"
  BY DEF Taken
<1>2. setup' = [dir |-> host.dir, len |-> host.len] /\ host' = host /\ got' = got
  BY DEF NewSetup, hostVars
<1>3. /\ host.moved = 0 /\ (host.stage = "data" => host.len > 0)
      /\ host.stage \in {"data", "status"}
  BY <1>1 DEF Ep0Inv, HostSane
<1>4. HostSane'
  BY <1>1, <1>2 DEF Ep0Inv, HostSane
<1>5. Sync' /\ InOrder' /\ LeftOver' /\ Resting'
  BY <1>1, <1>2, <1>3 DEF Ep0Inv, Sync, InOrder, LeftOver, Resting
<1>6. setup' \in [dir : {"in", "out"}, len : 0 .. MaxLen] /\ host.len \in Nat
  BY <1>2, Ep0Assumption DEF Ep0Inv, TypeOK
<1> QED BY <1>1, <1>2, <1>3, <1>4, <1>5, <1>6

\* The part of the invariant the completion handlers cannot disturb.
LEMMA CompletionTaken ==
    ASSUME Ep0Inv, NEW ep, Completed(ep), UNCHANGED <<setup, hostVars>>
    PROVE  /\ done.ep = ep /\ done'.ep = "none" /\ done' \in Dones /\ bus' = bus
           /\ Sync' /\ HostSane' /\ InOrder' /\ LeftOver'
<1>1. done.ep = ep /\ done' = [ep |-> "none", n |-> 0] /\ bus' = bus
  BY DEF Completed, NoDone
<1>2. done'.ep = "none" /\ done' \in Dones
  BY <1>1, Ep0Assumption DEF Dones
<1>3. host' = host /\ got' = got /\ setup' = setup
  BY DEF hostVars
<1> QED BY <1>1, <1>2, <1>3 DEF Ep0Inv, Sync, HostSane, InOrder, LeftOver

\* A completion of EP0 IN during the data stage.
LEMMA InDataCompleted ==
    ASSUME Ep0Inv, done.ep = "in", residue # done.n \/ zlp \/ AsksForData
    PROVE  /\ AsksForData /\ bus # "setup" /\ ~(bus = "none" /\ host.stage = "idle")
           /\ next \in {"IN_DATA", "IN_STATUS"} /\ (next = "IN_STATUS" => residue = 0)
           /\ verdict.st = "accepted" /\ done.n \in Nat /\ done.n <= residue
           /\ ptr + residue = Total /\ ptr + residue <= BufLen
           /\ host.moved = ptr + done.n
<1>1. Scalars /\ arm.in.sent = 0
  BY NothingArmed, TypedScalars DEF Ep0Inv
<1>2. AsksForData
  BY <1>1 DEF Ep0Inv, InWork, Working, Scalars
<1> QED BY <1>1, <1>2 DEF Ep0Inv, InWork, Working, LeftOver, InFlight, Scalars

\* A completion of EP0 OUT with data.
LEMMA OutDataCompleted ==
    ASSUME Ep0Inv, done.ep = "out", done.n > 0
    PROVE  /\ next = "OUT_DATA" /\ bus # "setup" /\ ~(bus = "none" /\ host.stage = "idle")
           /\ setup.dir = "out" /\ verdict.st = "pending" /\ zlp = FALSE
           /\ ptr + residue = setup.len /\ setup.len <= BufLen
           /\ done.n \in Nat /\ done.n <= residue
           /\ host.moved = ptr + done.n /\ Prefix(host.moved)
<1>1. Scalars /\ arm.out.sent = 0
  BY NothingArmed, TypedScalars DEF Ep0Inv
<1>2. next = "OUT_DATA" /\ OutData
  BY <1>1 DEF Ep0Inv, OutWork, OutStatus, Working, Scalars
<1>3. bus # "setup" /\ ~(bus = "none" /\ host.stage = "idle")
  BY <1>2 DEF Ep0Inv, LeftOver
<1> QED BY <1>1, <1>2, <1>3 DEF OutData, InFlight, Scalars

-----------------------------------------------------------------------------
(* The SETUP handler.                                                      *)

LEMMA SetupTooLongKeeps == ASSUME Ep0Inv, SetupTooLong PROVE Ep0Inv'
<1>1. /\ setup' = NewSetup /\ UNCHANGED <<mem, hostVars>> /\ Taken
      /\ UNCHANGED <<next, ptr, residue, zlp, host, got>>
      /\ verdict' = [st |-> "refused", len |-> 0] /\ verdict'.st = "refused"
      /\ arm' = arm /\ stall' = TRUE /\ host.dir = "out" /\ host.len > BufLen
  BY DEF SetupTooLong, SetStall, Refused, hostVars
<1>2. /\ bus' = "none" /\ done' = done /\ done'.ep = "none"
      /\ Sync' /\ HostSane' /\ InOrder' /\ LeftOver' /\ Resting'
  BY <1>1, SetupTaken
<1>3. arm' = arm /\ arm'.in = Off /\ arm'.in.on = FALSE /\ arm'.out = Off /\ arm'.out.on = FALSE
  BY <1>1, NothingArmed DEF Taken
<1>4. TypeOK'
  BY <1>1, <1>2 DEF Ep0Inv, TypeOK, NewSetup
<1>5. HandlerSeesAll' /\ Fits' /\ InWork' /\ OutWork' /\ Answering' /\ SaysNo'
  BY <1>1, <1>2, <1>3 DEF HandlerSeesAll, Fits, InWork, OutWork, Working, Answering, SaysNo
<1>6. Exclusive'
  BY <1>2, <1>3 DEF Exclusive
<1>7. Listening'
  BY <1>1, Ep0Assumption DEF Ep0Inv, TypeOK, Listening
<1> QED BY <1>2, <1>4, <1>5, <1>6, <1>7 DEF Ep0Inv

LEMMA SetupRefusedKeeps == ASSUME Ep0Inv, SetupRefused PROVE Ep0Inv'
<1>1. /\ setup' = NewSetup /\ UNCHANGED <<mem, hostVars>> /\ Taken
      /\ host' = host /\ got' = got /\ mem' = mem
      /\ ptr' = 0 /\ residue' = host.len /\ zlp' = FALSE /\ next' = "SETUP"
      /\ verdict' = [st |-> "refused", len |-> 0] /\ verdict'.st = "refused"
      /\ arm' = arm /\ stall' = TRUE /\ (host.dir = "in" \/ host.len = 0)
  BY DEF SetupRefused, SetStall, Refused, hostVars
<1>2. /\ bus' = "none" /\ done' = done /\ done'.ep = "none"
      /\ (host.stage = "data" => host.len > 0) /\ host.len \in Nat
      /\ setup' \in [dir : {"in", "out"}, len : 0 .. MaxLen]
      /\ Sync' /\ HostSane' /\ InOrder' /\ LeftOver' /\ Resting'
  BY <1>1, SetupTaken
<1>3. arm'.in = Off /\ arm'.in.on = FALSE /\ arm'.out = Off /\ arm'.out.on = FALSE
  BY <1>1, NothingArmed DEF Taken
<1>4. TypeOK'
  <2>1. verdict' \in [st : {"pending", "accepted", "refused"}, len : Nat]
    BY <1>1
  <2>2. /\ next' \in {"SETUP", "IN_DATA", "OUT_DATA", "IN_STATUS", "OUT_STATUS"}
        /\ zlp' \in BOOLEAN /\ stall' \in BOOLEAN /\ bus' \in {"none", "setup", "reset"}
    BY <1>1, <1>2
  <2>3. ptr' \in 0 .. BufLen /\ residue' \in Nat
    BY <1>1, <1>2, Ep0Assumption
  <2>4. UNCHANGED <<mem, arm, done, host>>
    BY <1>1, <1>2
  <2> QED BY <1>2, <2>1, <2>2, <2>3, <2>4 DEF Ep0Inv, TypeOK
<1>5. HandlerSeesAll' /\ Fits' /\ InWork' /\ OutWork' /\ Answering' /\ SaysNo'
  BY <1>1, <1>2, <1>3 DEF HandlerSeesAll, Fits, InWork, OutWork, Working, Answering, SaysNo
<1>6. Exclusive'
  BY <1>2, <1>3 DEF Exclusive
<1>7. Listening'
  BY <1>1, <1>2 DEF Listening
<1> QED BY <1>2, <1>4, <1>5, <1>6, <1>7 DEF Ep0Inv

LEMMA SetupOutDataKeeps == ASSUME Ep0Inv, SetupOutData PROVE Ep0Inv'
<1>1. /\ setup' = NewSetup /\ UNCHANGED <<mem, hostVars>> /\ Taken
      /\ host' = host /\ got' = got /\ mem' = mem
      /\ ptr' = 0 /\ residue' = host.len /\ zlp' = FALSE /\ next' = "OUT_DATA"
      /\ verdict' = [st |-> "pending", len |-> 0] /\ verdict'.st = "pending"
      /\ StartRead(0, host.len) /\ host.dir = "out" /\ host.len \in 1 .. BufLen
  BY DEF SetupOutData, Pending, hostVars
<1>2. /\ bus' = "none" /\ done' = done /\ done'.ep = "none"
      /\ setup'.dir = host.dir /\ setup'.len = host.len /\ host.moved = 0
      /\ setup' \in [dir : {"in", "out"}, len : 0 .. MaxLen] /\ host.len \in Nat
      /\ Sync' /\ HostSane' /\ InOrder' /\ LeftOver' /\ Resting'
  BY <1>1, SetupTaken
<1>3. ReadArmed(0, host.len)
  <2>1. arm \in Transfers /\ 0 \in 0 .. BufLen /\ host.len \in 0 .. BufLen
    BY <1>1, Ep0Assumption DEF Ep0Inv, TypeOK, Transfers
  <2> QED BY <1>1, <2>1, ReadArms
<1>4. /\ arm'.in = Off /\ arm'.in.on = FALSE /\ stall' = FALSE
      /\ arm'.out.on = TRUE /\ arm'.out.off = 0 /\ arm'.out.sent = 0
      /\ arm'.out.len \in 0 .. host.len
  BY <1>1, <1>3, NothingArmed DEF Taken, ReadArmed
<1>5. TypeOK'
  <2>1. verdict' \in [st : {"pending", "accepted", "refused"}, len : Nat]
    BY <1>1
  <2>2. arm' \in Transfers /\ stall' \in BOOLEAN
    BY <1>3, <1>4 DEF ReadArmed
  <2>3. /\ next' \in {"SETUP", "IN_DATA", "OUT_DATA", "IN_STATUS", "OUT_STATUS"}
        /\ zlp' \in BOOLEAN /\ bus' \in {"none", "setup", "reset"}
    BY <1>1, <1>2
  <2>4. ptr' \in 0 .. BufLen /\ residue' \in Nat
    BY <1>1, <1>2, Ep0Assumption
  <2>5. UNCHANGED <<mem, done, host>>
    BY <1>1, <1>2
  <2> QED BY <1>2, <2>1, <2>2, <2>3, <2>4, <2>5 DEF Ep0Inv, TypeOK, Transfers
<1>6. HandlerSeesAll' /\ Fits' /\ InWork' /\ Answering' /\ SaysNo'
  BY <1>1, <1>2, <1>4 DEF HandlerSeesAll, Fits, InWork, Working, Answering, SaysNo
<1>7. Exclusive'
  BY <1>2, <1>4 DEF Exclusive
<1>8. OutWork'
  <2>1. InFlight("out")' = 0
    BY <1>2, <1>4 DEF InFlight
  <2>2. Prefix(host.moved)'
    BY <1>1, <1>2 DEF Prefix
  <2>3. OutData'
    BY <1>1, <1>2, <1>4, <2>1, <2>2, Ep0Assumption DEF OutData
  <2> QED BY <1>1, <2>3 DEF OutWork
<1>9. Listening'
  BY <1>1, <1>4 DEF Listening, Working
<1> QED BY <1>2, <1>5, <1>6, <1>7, <1>8, <1>9 DEF Ep0Inv

LEMMA SetupAcceptedKeeps ==
    ASSUME Ep0Inv, NEW offered \in Offers, SetupAccepted(offered)
    PROVE  Ep0Inv'
<1>1. /\ setup' = NewSetup /\ UNCHANGED <<mem, hostVars>> /\ Taken
      /\ UNCHANGED <<host, got>>
      /\ ptr' = 0 /\ residue' = Reply(host.len, offered)
      /\ verdict' = [st |-> "accepted", len |-> offered]
      /\ verdict'.st = "accepted" /\ verdict'.len = offered
      /\ host.dir = "in" \/ host.len = 0
  BY DEF SetupAccepted, Accepted, hostVars
<1>2. /\ bus' = "none" /\ done' = done /\ done'.ep = "none"
      /\ setup'.dir = host.dir /\ setup'.len = host.len /\ host.moved = 0
      /\ (host.stage = "data" => host.len > 0)
      /\ Sync' /\ HostSane' /\ InOrder' /\ LeftOver' /\ Resting'
  BY <1>1, SetupTaken
<1>3. /\ arm.in = Off /\ arm.in.on = FALSE /\ arm.out = Off /\ arm.out.on = FALSE
      /\ stall = FALSE
  BY <1>1, NothingArmed DEF Taken
<1>4. /\ offered \in Nat /\ host.len \in Nat /\ residue' \in Nat /\ arm \in Transfers
      /\ Total' = residue' /\ (host.len = 0 => residue' = 0)
  BY <1>1, <1>2, Ep0Assumption DEF Ep0Inv, TypeOK, Transfers, Reply, Least, Total
<1>5. zlp' \in BOOLEAN /\ (host.len = 0 => ~zlp')
  <2>1. zlp' = FALSE \/ zlp' = NeedsZlp(host.len, offered)
    BY DEF SetupAccepted
  <2>2. NeedsZlp(host.len, offered) \in BOOLEAN
    BY DEF NeedsZlp
  <2>3. host.len = 0 => NeedsZlp(host.len, offered) = FALSE
    BY <1>4 DEF NeedsZlp
  <2> QED BY <2>1, <2>2, <2>3
<1>6. TypeOK' /\ Exclusive' /\ InWork' /\ OutWork' /\ Answering' /\ SaysNo'
  <2>1. CASE ReplyFits(residue')
    <3>1. /\ residue' \in 0 .. BufLen /\ StartWrite(0, residue')
          /\ next' = IF residue' > 0 THEN "IN_DATA" ELSE "IN_STATUS"
      BY <1>4, <2>1 DEF SetupAccepted, ReplyFits
    <3>2. WriteArmed(0, residue')
      BY <1>4, <3>1, WriteArms, Ep0Assumption
    <3>3. /\ arm'.out = Off /\ arm'.out.on = FALSE /\ stall' = FALSE
          /\ arm'.in.on = TRUE /\ arm'.in.off = 0 /\ arm'.in.sent = 0
          /\ arm'.in.len \in 0 .. residue' /\ (arm'.in.len = residue' \/ arm'.in.len = MPS)
      BY <1>3, <3>2 DEF WriteArmed
    <3>4. TypeOK'
      BY <1>1, <1>2, <1>4, <1>5, <3>1, <3>2, <3>3, Ep0Assumption
         DEF Ep0Inv, TypeOK, NewSetup, WriteArmed, Transfers
    <3>5. Exclusive' /\ OutWork' /\ Answering' /\ SaysNo'
      BY <1>2, <3>3 DEF Exclusive, OutWork, Answering, SaysNo, Working
    <3>6. InWork'
      <4>1. InFlight("in")' = 0
        BY <1>2, <3>3 DEF InFlight
      <4>2. AsksForData' \/ (next' = "IN_STATUS" /\ ~zlp')
        BY <1>1, <1>2, <1>4, <1>5, <3>1 DEF AsksForData
      <4> QED BY <1>1, <1>2, <1>4, <3>1, <3>3, <4>1, <4>2, Ep0Assumption DEF InWork
    <3> QED BY <3>4, <3>5, <3>6
  <2>2. CASE ~ReplyFits(residue')
    <3>1. residue' > BufLen /\ next' = "SETUP" /\ arm' = arm /\ stall' = TRUE
      BY <1>4, <2>2, Ep0Assumption DEF SetupAccepted, ReplyFits, SetStall
    <3>2. TypeOK'
      BY <1>1, <1>2, <1>4, <1>5, <3>1, Ep0Assumption DEF Ep0Inv, TypeOK, NewSetup
    <3>3. Exclusive' /\ InWork' /\ OutWork' /\ Answering'
      BY <1>2, <1>3, <3>1 DEF Exclusive, InWork, OutWork, Answering, Working
    <3>4. SaysNo'
      BY <1>1, <1>2, <1>4, <3>1, Ep0Assumption DEF SaysNo
    <3> QED BY <3>2, <3>3, <3>4
  <2> QED BY <2>1, <2>2
<1>7. HandlerSeesAll' /\ Listening'
  BY <1>1, <1>2 DEF HandlerSeesAll, Listening
<1>8. Fits'
  BY <1>2, <1>4, <1>1, Ep0Assumption DEF Fits
<1> QED BY <1>2, <1>6, <1>7, <1>8 DEF Ep0Inv

-----------------------------------------------------------------------------
(* The completion handler of EP0 IN.                                       *)

LEMMA InMoreKeeps == ASSUME Ep0Inv, InMore PROVE Ep0Inv'
<1>1. /\ Completed("in") /\ UNCHANGED <<setup, hostVars>>
      /\ setup' = setup /\ next' = next /\ zlp' = zlp /\ mem' = mem
      /\ verdict' = verdict /\ host' = host /\ got' = got
      /\ residue # done.n /\ ptr' = ptr + done.n /\ residue' = residue - done.n
      /\ StartWrite(ptr', residue')
  BY DEF InMore, AdvancePtr, hostVars
<1>2. /\ done.ep = "in" /\ done'.ep = "none" /\ done' \in Dones /\ bus' = bus
      /\ Sync' /\ HostSane' /\ InOrder' /\ LeftOver'
  BY <1>1, CompletionTaken
<1>3. /\ AsksForData /\ bus # "setup" /\ ~(bus = "none" /\ host.stage = "idle")
      /\ next \in {"IN_DATA", "IN_STATUS"} /\ (next = "IN_STATUS" => residue = 0)
      /\ verdict.st = "accepted" /\ done.n \in Nat /\ done.n <= residue
      /\ ptr + residue = Total /\ ptr + residue <= BufLen
      /\ host.moved = ptr + done.n
  BY <1>1, <1>2, InDataCompleted
<1>4. Scalars
  BY TypedScalars DEF Ep0Inv
<1>5. /\ ptr' \in 0 .. BufLen /\ residue' \in 0 .. BufLen /\ ptr' + residue' = Total
      /\ host'.moved = ptr' /\ (next' = "IN_STATUS" => residue' = 0)
  BY <1>1, <1>3, <1>4 DEF Scalars
<1>6. WriteArmed(ptr', residue')
  BY <1>1, <1>5, WriteArms DEF Ep0Inv, TypeOK, Transfers
<1>7. /\ arm'.out = Off /\ arm'.out.on = FALSE /\ stall' = FALSE
      /\ arm'.in.on = TRUE /\ arm'.in.off = ptr' /\ arm'.in.sent = 0
      /\ arm'.in.len \in 0 .. residue' /\ (arm'.in.len = residue' \/ arm'.in.len = MPS)
  BY <1>2, <1>6, NothingArmed DEF WriteArmed
<1>8. TypeOK'
  BY <1>1, <1>2, <1>5, <1>6, <1>7 DEF Ep0Inv, TypeOK, WriteArmed, Transfers, Dones
<1>9. Exclusive' /\ OutWork' /\ Answering' /\ SaysNo' /\ Resting'
  BY <1>1, <1>2, <1>3, <1>7
     DEF Exclusive, OutWork, Answering, SaysNo, Working, Resting, Quiet
<1>10. InWork'
  <2>1. InFlight("in")' = 0 /\ Total' = Total /\ AsksForData'
    BY <1>1, <1>2, <1>3, <1>7 DEF InFlight, Total, AsksForData
  <2> QED BY <1>1, <1>2, <1>3, <1>4, <1>5, <1>7, <2>1 DEF InWork, Scalars
<1>11. HandlerSeesAll' /\ Fits' /\ Listening'
  BY <1>1, <1>2, <1>3 DEF Ep0Inv, HandlerSeesAll, Fits, Listening, Sync, AsksForData
<1> QED BY <1>2, <1>8, <1>9, <1>10, <1>11 DEF Ep0Inv

LEMMA InZlpKeeps == ASSUME Ep0Inv, InZlp PROVE Ep0Inv'
<1>1. /\ Completed("in") /\ UNCHANGED <<setup, hostVars>>
      /\ setup' = setup /\ next' = next /\ mem' = mem
      /\ verdict' = verdict /\ host' = host /\ got' = got
      /\ residue = done.n /\ zlp /\ ptr' = ptr + done.n /\ residue' = 0 /\ zlp' = FALSE
      /\ StartWrite(0, 0)
  BY DEF InZlp, AdvancePtr, hostVars
<1>2. /\ done.ep = "in" /\ done'.ep = "none" /\ done' \in Dones /\ bus' = bus
      /\ Sync' /\ HostSane' /\ InOrder' /\ LeftOver'
  BY <1>1, CompletionTaken
<1>3. /\ AsksForData /\ bus # "setup" /\ ~(bus = "none" /\ host.stage = "idle")
      /\ next \in {"IN_DATA", "IN_STATUS"} /\ verdict.st = "accepted"
      /\ ptr + residue = Total /\ ptr + residue <= BufLen
      /\ host.moved = ptr + done.n
  BY <1>1, <1>2, InDataCompleted
<1>4. Scalars
  BY TypedScalars DEF Ep0Inv
<1>5. ptr' \in 0 .. BufLen /\ ptr' = Total /\ host'.moved = ptr'
  BY <1>1, <1>3, <1>4 DEF Scalars
<1>6. WriteArmed(0, 0)
  <2>1. arm \in Transfers /\ 0 \in 0 .. BufLen
    BY Ep0Assumption DEF Ep0Inv, TypeOK, Transfers
  <2> QED BY <1>1, <2>1, WriteArms
<1>7. /\ arm'.out = Off /\ arm'.out.on = FALSE /\ stall' = FALSE
      /\ arm'.in.on = TRUE /\ arm'.in.off = 0 /\ arm'.in.sent = 0 /\ arm'.in.len = 0
  <2>1. arm'.in.len = 0
    BY <1>6 DEF WriteArmed
  <2> QED BY <1>2, <1>6, <2>1, NothingArmed DEF WriteArmed
<1>8. TypeOK'
  <2>1. residue' \in Nat /\ zlp' \in BOOLEAN /\ arm' \in Transfers /\ stall' \in BOOLEAN
    BY <1>1, <1>6, <1>7 DEF WriteArmed
  <2> QED BY <1>1, <1>2, <1>5, <2>1 DEF Ep0Inv, TypeOK, Transfers, Dones
<1>9. Exclusive' /\ OutWork' /\ Answering' /\ SaysNo' /\ Resting'
  BY <1>1, <1>2, <1>3, <1>7
     DEF Exclusive, OutWork, Answering, SaysNo, Working, Resting, Quiet
<1>10. InWork'
  <2>1. InFlight("in")' = 0 /\ Total' = Total /\ AsksForData'
    BY <1>1, <1>2, <1>3, <1>7 DEF InFlight, Total, AsksForData
  <2> QED BY <1>1, <1>2, <1>3, <1>4, <1>5, <1>7, <2>1 DEF InWork, Scalars
<1>11. HandlerSeesAll' /\ Fits' /\ Listening'
  BY <1>1, <1>2, <1>3 DEF Ep0Inv, HandlerSeesAll, Fits, Listening, Sync, AsksForData
<1> QED BY <1>2, <1>8, <1>9, <1>10, <1>11 DEF Ep0Inv

LEMMA InDataDoneKeeps == ASSUME Ep0Inv, InDataDone PROVE Ep0Inv'
<1>1. /\ Completed("in") /\ UNCHANGED <<setup, hostVars>>
      /\ setup' = setup /\ zlp' = zlp /\ mem' = mem
      /\ verdict' = verdict /\ host' = host /\ got' = got
      /\ residue = done.n /\ ptr' = ptr + done.n /\ residue' = 0 /\ next' = "OUT_STATUS"
      /\ StartRead(0, 0) /\ AsksForData
  BY DEF InDataDone, AdvancePtr, hostVars, AsksForData
<1>2. /\ done.ep = "in" /\ done'.ep = "none" /\ done' \in Dones /\ bus' = bus
      /\ Sync' /\ HostSane' /\ InOrder' /\ LeftOver'
  BY <1>1, CompletionTaken
<1>3. /\ bus # "setup" /\ ~(bus = "none" /\ host.stage = "idle")
      /\ verdict.st = "accepted" /\ ptr + residue = Total /\ ptr + residue <= BufLen
      /\ host.moved = ptr + done.n
  BY <1>1, <1>2, InDataCompleted
<1>4. Scalars
  BY TypedScalars DEF Ep0Inv
<1>5. ptr' \in 0 .. BufLen /\ host'.moved = Total /\ Total <= BufLen
  BY <1>1, <1>3, <1>4 DEF Scalars
<1>6. ReadArmed(0, 0)
  <2>1. arm \in Transfers /\ 0 \in 0 .. BufLen
    BY Ep0Assumption DEF Ep0Inv, TypeOK, Transfers
  <2> QED BY <1>1, <2>1, ReadArms
<1>7. /\ arm'.in = Off /\ arm'.in.on = FALSE /\ stall' = FALSE
      /\ arm'.out.on = TRUE /\ arm'.out.off = 0 /\ arm'.out.sent = 0 /\ arm'.out.len = 0
  <2>1. arm'.out.len = 0
    BY <1>6 DEF ReadArmed
  <2> QED BY <1>2, <1>6, <2>1, NothingArmed DEF ReadArmed
<1>8. TypeOK'
  <2>1. residue' \in Nat /\ arm' \in Transfers /\ stall' \in BOOLEAN
    BY <1>1, <1>6, <1>7 DEF ReadArmed
  <2> QED BY <1>1, <1>2, <1>5, <2>1 DEF Ep0Inv, TypeOK, Transfers, Dones
<1>9. Total' = Total /\ AsksForData'
  BY <1>1 DEF Total, AsksForData
<1>10. Exclusive' /\ InWork' /\ SaysNo' /\ Resting'
  BY <1>1, <1>2, <1>3, <1>7
     DEF Exclusive, InWork, SaysNo, Working, Resting, Quiet
<1>11. OutWork' /\ Answering'
  BY <1>1, <1>2, <1>3, <1>5, <1>7, <1>9 DEF OutWork, OutStatus, Answering
<1>12. HandlerSeesAll' /\ Fits' /\ Listening'
  BY <1>1, <1>2 DEF Ep0Inv, HandlerSeesAll, Fits, Listening, Sync, AsksForData
<1> QED BY <1>2, <1>8, <1>10, <1>11, <1>12 DEF Ep0Inv

LEMMA InStatusDoneKeeps == ASSUME Ep0Inv, InStatusDone PROVE Ep0Inv'
<1>1. /\ Completed("in") /\ UNCHANGED <<setup, hostVars>>
      /\ setup' = setup /\ zlp' = zlp /\ mem' = mem /\ arm' = arm /\ stall' = stall
      /\ verdict' = verdict /\ host' = host /\ got' = got
      /\ residue = done.n /\ ptr' = ptr + done.n /\ residue' = 0 /\ ~AsksForData
      /\ next' = IF next = "IN_STATUS" THEN "SETUP" ELSE next
  BY DEF InStatusDone, AdvancePtr, hostVars, AsksForData
<1>2. /\ done.ep = "in" /\ done'.ep = "none" /\ done' \in Dones /\ bus' = bus
      /\ Sync' /\ HostSane' /\ InOrder' /\ LeftOver'
  BY <1>1, CompletionTaken
<1>3. Scalars
  BY TypedScalars DEF Ep0Inv
<1>4. residue = 0 /\ done.n = 0 /\ next' = "SETUP" /\ ptr' = ptr
  BY <1>1, <1>2, <1>3 DEF Ep0Inv, InWork, Working, Scalars
<1>5. /\ arm'.in = Off /\ arm'.in.on = FALSE /\ arm'.out = Off /\ arm'.out.on = FALSE
      /\ stall' = FALSE
  BY <1>1, <1>2, NothingArmed
<1>6. TypeOK'
  BY <1>1, <1>2, <1>4 DEF Ep0Inv, TypeOK, Dones
<1>7. Exclusive' /\ InWork' /\ OutWork' /\ SaysNo' /\ Resting'
  BY <1>2, <1>4, <1>5 DEF Exclusive, InWork, OutWork, SaysNo, Working, Resting
<1>8. HandlerSeesAll' /\ Fits'
  BY <1>1, <1>2 DEF Ep0Inv, HandlerSeesAll, Fits
<1>9. Answering' /\ Listening'
  <2>1. bus = "none" => ~(host.stage = "data" /\ host.dir = "in")
    BY <1>1, <1>3 DEF Ep0Inv, Sync, HostSane, AsksForData, Scalars
  <2>2. bus = "none" => ~(host.stage = "data" /\ host.dir = "out" /\ host.len <= BufLen)
    BY <1>2, NothingArmed DEF Ep0Inv, Listening, Working
  <2> QED BY <1>1, <1>2, <2>1, <2>2 DEF Answering, Listening
<1> QED BY <1>2, <1>6, <1>7, <1>8, <1>9 DEF Ep0Inv

-----------------------------------------------------------------------------
(* The completion handler of EP0 OUT.                                      *)

LEMMA OutMoreKeeps == ASSUME Ep0Inv, OutMore PROVE Ep0Inv'
<1>1. /\ Completed("out") /\ UNCHANGED <<setup, hostVars>>
      /\ setup' = setup /\ next' = next /\ zlp' = zlp /\ mem' = mem
      /\ verdict' = verdict /\ host' = host /\ got' = got
      /\ done.n > 0 /\ ptr' = ptr + done.n /\ residue' = residue - done.n
      /\ StartRead(ptr', residue')
  BY DEF OutMore, AdvancePtr, hostVars
<1>2. /\ done.ep = "out" /\ done'.ep = "none" /\ done' \in Dones /\ bus' = bus
      /\ Sync' /\ HostSane' /\ InOrder' /\ LeftOver'
  BY <1>1, CompletionTaken
<1>3. /\ next = "OUT_DATA" /\ bus # "setup" /\ ~(bus = "none" /\ host.stage = "idle")
      /\ setup.dir = "out" /\ verdict.st = "pending" /\ zlp = FALSE
      /\ ptr + residue = setup.len /\ setup.len <= BufLen
      /\ done.n \in Nat /\ done.n <= residue
      /\ host.moved = ptr + done.n /\ Prefix(host.moved)
  BY <1>1, <1>2, OutDataCompleted
<1>4. Scalars
  BY TypedScalars DEF Ep0Inv
<1>5. /\ ptr' \in 0 .. BufLen /\ residue' \in 0 .. BufLen /\ ptr' + residue' = setup.len
      /\ host'.moved = ptr'
  BY <1>1, <1>3, <1>4 DEF Scalars
<1>6. ReadArmed(ptr', residue')
  BY <1>1, <1>5, ReadArms DEF Ep0Inv, TypeOK, Transfers
<1>7. /\ arm'.in = Off /\ arm'.in.on = FALSE /\ stall' = FALSE
      /\ arm'.out.on = TRUE /\ arm'.out.off = ptr' /\ arm'.out.sent = 0
      /\ arm'.out.len \in 0 .. residue'
  BY <1>2, <1>6, NothingArmed DEF ReadArmed
<1>8. TypeOK'
  BY <1>1, <1>2, <1>5, <1>6, <1>7 DEF Ep0Inv, TypeOK, ReadArmed, Transfers, Dones
<1>9. Exclusive' /\ InWork' /\ Answering' /\ SaysNo' /\ Resting' /\ HandlerSeesAll' /\ Fits'
  BY <1>1, <1>2, <1>3, <1>7
     DEF Exclusive, InWork, Answering, SaysNo, Working, Resting, Quiet, HandlerSeesAll, Fits
<1>10. OutWork' /\ Listening'
  <2>1. InFlight("out")' = 0 /\ Prefix(host.moved)'
    BY <1>1, <1>2, <1>3, <1>7 DEF InFlight, Prefix
  <2>2. OutData'
    BY <1>1, <1>2, <1>3, <1>4, <1>5, <1>7, <2>1 DEF OutData, Scalars
  <2> QED BY <1>1, <1>3, <1>7, <2>2 DEF OutWork, Listening, Working
<1> QED BY <1>2, <1>8, <1>9, <1>10 DEF Ep0Inv

LEMMA OutAllKeeps == ASSUME Ep0Inv, OutAll PROVE Ep0Inv'
<1>1. /\ Completed("out") /\ UNCHANGED <<setup, hostVars>>
      /\ setup' = setup /\ zlp' = zlp /\ mem' = mem /\ host' = host /\ got' = got
      /\ done.n > 0 /\ residue = done.n /\ ptr' = 0 /\ residue' = 0
  BY DEF OutAll, hostVars
<1>2. /\ done.ep = "out" /\ done'.ep = "none" /\ done' \in Dones /\ bus' = bus
      /\ Sync' /\ HostSane' /\ InOrder' /\ LeftOver'
  BY <1>1, CompletionTaken
<1>3. /\ bus # "setup" /\ ~(bus = "none" /\ host.stage = "idle")
      /\ setup.dir = "out" /\ zlp = FALSE /\ setup.len <= BufLen
      /\ ptr + residue = setup.len /\ host.moved = ptr + done.n /\ Prefix(host.moved)
  BY <1>1, <1>2, OutDataCompleted
<1>4. host.moved = setup.len
  BY <1>1, <1>3
<1>5. /\ arm.in = Off /\ arm.in.on = FALSE /\ arm.out = Off /\ arm.out.on = FALSE
      /\ stall = FALSE
  BY <1>2, NothingArmed
<1>6. /\ ptr' \in 0 .. BufLen /\ residue' \in Nat /\ zlp' \in BOOLEAN
      /\ bus' \in {"none", "setup", "reset"}
  BY <1>1, <1>2, Ep0Assumption DEF Ep0Inv, TypeOK
<1>7. \/ verdict' = Refused /\ next' = "SETUP" /\ SetStall
      \/ /\ \E offered \in Offers : verdict' = Accepted(offered)
         /\ next' = "IN_STATUS" /\ StartWrite(0, 0)
  BY DEF OutAll
<1>8. TypeOK' /\ Exclusive' /\ InWork' /\ OutWork' /\ Resting' /\ SaysNo'
  <2>1. CASE verdict' = Refused /\ next' = "SETUP" /\ SetStall
    <3>1. /\ verdict' \in [st : {"pending", "accepted", "refused"}, len : Nat]
          /\ verdict'.st = "refused" /\ arm' = arm /\ stall' = TRUE
      BY <2>1 DEF Refused, SetStall
    <3>2. TypeOK'
      BY <1>1, <1>2, <1>6, <2>1, <3>1 DEF Ep0Inv, TypeOK, Dones
    <3> QED BY <1>2, <1>3, <1>5, <2>1, <3>1, <3>2
            DEF Exclusive, InWork, OutWork, Resting, SaysNo, Working
  <2>2. CASE /\ \E offered \in Offers : verdict' = Accepted(offered)
             /\ next' = "IN_STATUS" /\ StartWrite(0, 0)
    <3>1. /\ verdict' \in [st : {"pending", "accepted", "refused"}, len : Nat]
          /\ verdict'.st = "accepted"
      BY <2>2, Ep0Assumption DEF Accepted
    <3>2. WriteArmed(0, 0)
      <4>1. arm \in Transfers /\ 0 \in 0 .. BufLen
        BY Ep0Assumption DEF Ep0Inv, TypeOK, Transfers
      <4> QED BY <2>2, <4>1, WriteArms
    <3>3. /\ arm' \in Transfers /\ arm'.out = Off /\ arm'.out.on = FALSE
          /\ stall' = FALSE /\ stall' \in BOOLEAN
          /\ arm'.in.on = TRUE /\ arm'.in.off = 0 /\ arm'.in.sent = 0 /\ arm'.in.len = 0
      <4>1. arm'.in.len = 0
        BY <3>2 DEF WriteArmed
      <4> QED BY <1>5, <3>2, <4>1 DEF WriteArmed
    <3>4. TypeOK'
      BY <1>1, <1>2, <1>6, <2>2, <3>1, <3>3 DEF Ep0Inv, TypeOK, Transfers, Dones
    <3>5. Exclusive' /\ OutWork' /\ Resting' /\ SaysNo'
      BY <1>1, <1>2, <1>3, <3>3
         DEF Exclusive, OutWork, Resting, Quiet, SaysNo, Working
    <3>6. InWork'
      BY <1>1, <1>2, <1>3, <2>2, <3>1, <3>3, Ep0Assumption DEF InWork, AsksForData
    <3> QED BY <3>4, <3>5, <3>6
  <2> QED BY <1>7, <2>1, <2>2
<1>9. HandlerSeesAll' /\ Fits'
  BY <1>1, <1>3, <1>4 DEF HandlerSeesAll, Fits, Prefix
<1>10. bus = "none" => host.dir = "out" /\ host.stage # "data"
  <2>1. Scalars
    BY TypedScalars DEF Ep0Inv
  <2> QED BY <1>3, <1>4, <2>1 DEF Ep0Inv, Sync, HostSane, Scalars
<1>11. Answering' /\ Listening'
  BY <1>1, <1>2, <1>10 DEF Answering, Listening
<1> QED BY <1>2, <1>8, <1>9, <1>11 DEF Ep0Inv

LEMMA OutStatusDoneKeeps == ASSUME Ep0Inv, OutStatusDone PROVE Ep0Inv'
<1>1. /\ Completed("out") /\ UNCHANGED <<setup, hostVars>>
      /\ setup' = setup /\ ptr' = ptr /\ residue' = residue /\ zlp' = zlp /\ mem' = mem
      /\ verdict' = verdict /\ arm' = arm /\ stall' = stall /\ host' = host /\ got' = got
      /\ done.n = 0 /\ next' = "SETUP"
  BY DEF OutStatusDone, hostVars
<1>2. /\ done.ep = "out" /\ done'.ep = "none" /\ done' \in Dones /\ bus' = bus
      /\ Sync' /\ HostSane' /\ InOrder' /\ LeftOver'
  BY <1>1, CompletionTaken
<1>3. /\ arm'.in = Off /\ arm'.in.on = FALSE /\ arm'.out = Off /\ arm'.out.on = FALSE
      /\ stall' = FALSE
  BY <1>1, <1>2, NothingArmed
<1>4. TypeOK'
  BY <1>1, <1>2 DEF Ep0Inv, TypeOK, Dones
<1>5. Exclusive' /\ InWork' /\ OutWork' /\ SaysNo' /\ Resting'
  BY <1>1, <1>2, <1>3 DEF Exclusive, InWork, OutWork, SaysNo, Working, Resting
<1>6. HandlerSeesAll' /\ Fits' /\ Answering'
  BY <1>1, <1>2, <1>3 DEF Ep0Inv, HandlerSeesAll, Fits, Answering, Working, Total
<1>7. Listening'
  BY <1>1, <1>2 DEF Ep0Inv, Listening, OutWork, OutData, Working
<1> QED BY <1>2, <1>4, <1>5, <1>6, <1>7 DEF Ep0Inv

-----------------------------------------------------------------------------
(* Resets and a new SETUP.                                                 *)

LEMMA Disarmed ==
    ASSUME arm' = NoArms, stall' = FALSE
    PROVE  /\ arm' \in Transfers /\ stall' \in BOOLEAN
           /\ arm'.in = Off /\ arm'.in.on = FALSE /\ arm'.in.sent = 0
           /\ arm'.out = Off /\ arm'.out.on = FALSE /\ arm'.out.sent = 0
<1>1. arm' = [in |-> Off, out |-> Off]
  BY DEF NoArms
<1>2. Off \in Transfer /\ Off.on = FALSE /\ Off.sent = 0
  BY Ep0Assumption DEF Off, Transfer
<1>3. arm'.in = Off /\ arm'.out = Off
  BY <1>1
<1>4. arm' \in Transfers
  BY <1>1, <1>2 DEF Transfers
<1> QED BY <1>2, <1>3, <1>4

LEMMA HandleResetKeeps == ASSUME Ep0Inv, HandleReset PROVE Ep0Inv'
<1>1. /\ done.ep = "none" /\ bus = "reset" /\ bus' = "none" /\ next' = "SETUP"
      /\ arm' = NoArms /\ stall' = FALSE
      /\ UNCHANGED <<setup, ptr, residue, zlp, mem, verdict, done, host, got>>
  BY DEF HandleReset, hostVars
<1>2. /\ arm' \in Transfers /\ stall' \in BOOLEAN
      /\ arm'.in = Off /\ arm'.in.on = FALSE /\ arm'.out = Off /\ arm'.out.on = FALSE
  BY <1>1, Disarmed
<1>3. host.stage = "idle"
  BY <1>1 DEF Ep0Inv, HostSane
<1>4. TypeOK'
  BY <1>1, <1>2 DEF Ep0Inv, TypeOK, Transfers
<1>5. Exclusive' /\ InWork' /\ OutWork' /\ LeftOver' /\ Resting' /\ SaysNo'
  BY <1>1, <1>2 DEF Exclusive, InWork, OutWork, LeftOver, Resting, SaysNo, Working
<1>6. Sync' /\ HostSane' /\ HandlerSeesAll' /\ Fits' /\ InOrder'
  BY <1>1 DEF Ep0Inv, Sync, HostSane, HandlerSeesAll, Fits, InOrder
<1>7. Listening' /\ Answering'
  BY <1>1, <1>3 DEF Listening, Answering
<1> QED BY <1>4, <1>5, <1>6, <1>7 DEF Ep0Inv

LEMMA BusResetKeeps == ASSUME Ep0Inv, BusReset PROVE Ep0Inv'
<1>1. /\ bus = "none" /\ bus' = "reset" /\ arm' = NoArms /\ stall' = FALSE
      /\ UNCHANGED <<setup, next, ptr, residue, zlp, mem, verdict, done, got>>
      /\ host' = [stage |-> "idle", dir |-> host.dir, len |-> host.len,
                  moved |-> host.moved]
  BY DEF BusReset, coreVars, Ep0Inv, TypeOK
<1>2. /\ arm' \in Transfers /\ stall' \in BOOLEAN
      /\ arm'.in = Off /\ arm'.in.on = FALSE /\ arm'.in.sent = 0
      /\ arm'.out = Off /\ arm'.out.on = FALSE /\ arm'.out.sent = 0
  BY <1>1, Disarmed
<1>3. TypeOK'
  BY <1>1, <1>2 DEF Ep0Inv, TypeOK, Transfers
<1>4. done.ep # "none" => arm.in.sent = 0 /\ arm.out.sent = 0
  BY NothingArmed
<1>5. Sync' /\ HostSane' /\ HandlerSeesAll' /\ Fits' /\ InOrder'
  BY <1>1 DEF Ep0Inv, Sync, HostSane, HandlerSeesAll, Fits, InOrder
<1>6. Exclusive' /\ LeftOver' /\ Resting' /\ Listening' /\ Answering' /\ SaysNo'
  BY <1>1, <1>2 DEF Exclusive, LeftOver, Resting, Quiet, Listening, Answering, SaysNo
<1>7. InWork'
  <2>1. done.ep = "in" => InFlight("in")' = InFlight("in")
    BY <1>1, <1>2, <1>4 DEF InFlight
  <2> QED BY <1>1, <1>2, <2>1 DEF Ep0Inv, InWork, Working, AsksForData, Total
<1>8. OutWork'
  <2>1. done.ep = "out" => InFlight("out")' = InFlight("out")
    BY <1>1, <1>2, <1>4 DEF InFlight
  <2>2. done.ep = "out" /\ OutData => OutData'
    BY <1>1, <1>2, <2>1 DEF OutData, Prefix
  <2>3. done.ep = "out" /\ OutStatus => OutStatus'
    BY <1>1, <1>2 DEF OutStatus, AsksForData, Total
  <2> QED BY <1>1, <1>2, <2>2, <2>3 DEF Ep0Inv, OutWork, Working
<1> QED BY <1>3, <1>5, <1>6, <1>7, <1>8 DEF Ep0Inv

LEMMA HostSetupKeeps ==
    ASSUME Ep0Inv, NEW dir \in {"in", "out"}, NEW len \in 0 .. MaxLen, HostSetup(dir, len)
    PROVE  Ep0Inv'
<1>1. /\ bus = "none" /\ bus' = "setup" /\ arm' = NoArms /\ stall' = FALSE
      /\ done.ep = "none" \/ host.stage = "idle"
      /\ UNCHANGED <<setup, next, ptr, residue, zlp, verdict, done>>
      /\ host' = [stage |-> IF len = 0 THEN "status" ELSE "data",
                  dir |-> dir, len |-> len, moved |-> 0]
      /\ got' = [i \in {} |-> 0] /\ mem' = Clean
  BY DEF HostSetup
<1>2. /\ arm' \in Transfers /\ stall' \in BOOLEAN
      /\ arm'.in = Off /\ arm'.in.on = FALSE /\ arm'.out = Off /\ arm'.out.on = FALSE
  BY <1>1, Disarmed
<1>3. len \in Nat
  BY Ep0Assumption
<1>4. TypeOK'
  <2>1. mem' \in [0 .. BufLen - 1 -> {Stale} \cup 0 .. MaxLen]
    BY <1>1 DEF Clean
  <2>2. host' \in [stage : {"idle", "data", "status", "stalled", "babble"},
                   dir : {"in", "out"}, len : 0 .. MaxLen, moved : Nat]
    BY <1>1
  <2> QED BY <1>1, <1>2, <2>1, <2>2 DEF Ep0Inv, TypeOK, Transfers
<1>5. HostSane'
  BY <1>1, <1>3 DEF HostSane
<1>6. done.ep # "none" => (done.ep = "in" => ~AsksForData)
                       /\ (done.ep = "out" => next = "OUT_STATUS")
  BY <1>1 DEF Ep0Inv, LeftOver
<1>7. LeftOver' /\ Exclusive'
  BY <1>1, <1>2, <1>6 DEF LeftOver, Exclusive, AsksForData
<1>8. Sync' /\ HandlerSeesAll' /\ InOrder' /\ Resting' /\ Listening' /\ Answering' /\ SaysNo'
  BY <1>1 DEF Sync, HandlerSeesAll, InOrder, Resting, Quiet, Listening, Answering, SaysNo
<1>11. Fits'
  BY <1>1 DEF Ep0Inv, Fits
<1>9. InWork'
  BY <1>1, <1>2, <1>6 DEF Ep0Inv, InWork, Working, AsksForData
<1>10. OutWork'
  <2>1. done.ep = "out" /\ OutStatus => OutStatus'
    BY <1>1, <1>2 DEF OutStatus, AsksForData, Total
  <2> QED BY <1>1, <1>2, <1>6, <2>1 DEF Ep0Inv, OutWork, Working
<1> QED BY <1>4, <1>5, <1>7, <1>8, <1>9, <1>10, <1>11 DEF Ep0Inv

-----------------------------------------------------------------------------
(* Tokens of the host.                                                     *)

\* A stalled transfer: EP0 has nothing armed, only the host moves.
LEMMA StalledKeeps ==
    ASSUME Ep0Inv, stall = TRUE, bus = "none", done.ep = "none",
           UNCHANGED <<setup, next, ptr, residue, zlp, mem, verdict,
                       arm, stall, done, bus, got>>,
           host' = [stage |-> "stalled", dir |-> host.dir, len |-> host.len,
                    moved |-> host.moved]
    PROVE  Ep0Inv'
<1>1. ~arm.in.on /\ ~arm.out.on
  BY DEF Ep0Inv, Exclusive
<1>2. TypeOK'
  BY DEF Ep0Inv, TypeOK
<1>3. Sync' /\ HostSane' /\ HandlerSeesAll' /\ Fits' /\ InOrder'
  BY DEF Ep0Inv, Sync, HostSane, HandlerSeesAll, Fits, InOrder
<1>4. Exclusive' /\ InWork' /\ OutWork' /\ LeftOver'
  BY <1>1 DEF Ep0Inv, Exclusive, InWork, OutWork, LeftOver, Working
<1>5. Resting' /\ Listening' /\ Answering'
  BY DEF Resting, Listening, Answering
<1>6. SaysNo'
  BY DEF Ep0Inv, SaysNo, Total
<1> QED BY <1>2, <1>3, <1>4, <1>5, <1>6 DEF Ep0Inv

LEMMA HostReadsStallKeeps == ASSUME Ep0Inv, HostReadsStall PROVE Ep0Inv'
<1>1. /\ stall = TRUE /\ bus = "none" /\ done.ep = "none"
      /\ UNCHANGED <<setup, next, ptr, residue, zlp, mem, verdict, arm, stall, done, bus, got>>
      /\ host' = [stage |-> "stalled", dir |-> host.dir, len |-> host.len,
                  moved |-> host.moved]
  BY DEF HostReadsStall, Quiet, coreVars, dcdVars, Ep0Inv, TypeOK
<1> QED BY <1>1, StalledKeeps

LEMMA HostWritesStallKeeps == ASSUME Ep0Inv, HostWritesStall PROVE Ep0Inv'
<1>1. /\ stall = TRUE /\ bus = "none" /\ done.ep = "none"
      /\ UNCHANGED <<setup, next, ptr, residue, zlp, mem, verdict, arm, stall, done, bus, got>>
      /\ host' = [stage |-> "stalled", dir |-> host.dir, len |-> host.len,
                  moved |-> host.moved]
  BY DEF HostWritesStall, Quiet, coreVars, dcdVars, Ep0Inv, TypeOK
<1> QED BY <1>1, StalledKeeps

\* EP0 IN is armed in the data stage of a request that asks for data.
DataIn ==
    /\ setup.dir = "in" /\ setup.len = host.len /\ setup.len > 0
    /\ host.moved < host.len /\ DOMAIN got = 0 .. host.moved - 1
    /\ next \in {"IN_DATA", "IN_STATUS"} /\ (next = "IN_STATUS" => residue = 0)
    /\ verdict.st = "accepted" /\ ptr + residue = Total /\ Total <= host.len
    /\ ptr + residue <= BufLen /\ host.moved = ptr + arm.in.sent
    /\ arm.in.sent <= arm.in.len /\ arm.in.len <= residue
    /\ arm.in.len = residue \/ (arm.in.len = MPS /\ arm.in.sent = 0)
    /\ arm.in.len > 0 => arm.in.off = ptr

LEMMA InDataArmed ==
    ASSUME Ep0Inv, bus = "none", done.ep = "none", arm.in.on,
           host.stage = "data", host.dir = "in"
    PROVE  DataIn
<1>1. Scalars
  BY TypedScalars DEF Ep0Inv
<1>2. /\ setup.dir = "in" /\ setup.len = host.len /\ setup.len > 0
      /\ host.moved < host.len /\ DOMAIN got = 0 .. host.moved - 1
  BY <1>1 DEF Ep0Inv, Sync, HostSane, Scalars
<1>3. InFlight("in") = arm.in.sent /\ AsksForData /\ Working("in")
  BY <1>1, <1>2 DEF InFlight, AsksForData, Working, Scalars
<1>4. Total <= host.len
  BY <1>1, <1>2 DEF Total, Reply, Least, Scalars
<1> QED BY <1>2, <1>3, <1>4 DEF Ep0Inv, InWork, DataIn

LEMMA HostReadsStatusKeeps == ASSUME Ep0Inv, HostReadsStatus PROVE Ep0Inv'
<1> DEFINE p == Least(MPS, arm.in.len - arm.in.sent)
<1>1. /\ done.ep = "none" /\ bus = "none" /\ bus' = "none" /\ arm.in.on
      /\ stall' = stall /\ host.stage = "status" /\ (host.dir = "out" \/ host.len = 0)
      /\ Moved("in", p)
      /\ host' = [stage |-> IF p > 0 THEN "babble" ELSE "idle", dir |-> host.dir,
                  len |-> host.len, moved |-> host.moved]
      /\ UNCHANGED <<setup, next, ptr, residue, zlp, mem, verdict, got>>
  BY DEF HostReadsStatus, Quiet, coreVars, Ep0Inv, TypeOK
<1>2. Scalars
  BY TypedScalars DEF Ep0Inv
<1>3. ~AsksForData
  BY <1>1, <1>2 DEF Ep0Inv, Sync, AsksForData, Scalars
<1>4. /\ next = "IN_STATUS" /\ verdict.st = "accepted" /\ ~zlp /\ residue = 0
      /\ arm.in.len = 0 /\ arm.in.sent = 0 /\ ptr + residue <= BufLen
  BY <1>1, <1>2, <1>3 DEF Ep0Inv, InWork, Working, Scalars
<1>5. p = 0
  BY <1>4, Ep0Assumption DEF Least
<1>6. InMoved
  <2>1. arm \in Transfers /\ done \in Dones /\ arm.in.sent <= arm.in.len
    BY <1>4 DEF Ep0Inv, TypeOK, Transfers, Dones
  <2> QED BY <1>1, <2>1, InMoves
<1>7. /\ arm' \in Transfers /\ done' \in Dones /\ done' = [ep |-> "in", n |-> 0]
      /\ arm'.in = Off /\ arm'.out = arm.out
  BY <1>4, <1>5, <1>6, Ep0Assumption DEF InMoved, InDone, InGoesOn
<1>8. /\ done'.ep = "in" /\ done'.n = 0 /\ arm'.in.on = FALSE /\ arm'.out = Off
      /\ arm'.out.on = FALSE /\ stall' = FALSE
  BY <1>1, <1>2, <1>7 DEF Ep0Inv, Exclusive, Off, Scalars
<1> HIDE DEF p
<1>9. /\ host' = [stage |-> "idle", dir |-> host.dir, len |-> host.len,
                  moved |-> host.moved]
      /\ host'.stage = "idle"
  BY <1>1, <1>5
<1>10. TypeOK'
  BY <1>1, <1>7, <1>9 DEF Ep0Inv, TypeOK, Transfers, Dones
<1>11. Sync' /\ HostSane' /\ HandlerSeesAll' /\ Fits' /\ InOrder'
  BY <1>1, <1>9 DEF Ep0Inv, Sync, HostSane, HandlerSeesAll, Fits, InOrder
<1>12. Exclusive' /\ OutWork' /\ LeftOver' /\ Resting'
  BY <1>1, <1>3, <1>7, <1>8
     DEF Exclusive, OutWork, Working, LeftOver, Resting, Quiet, AsksForData
<1>13. InWork'
  BY <1>1, <1>3, <1>4, <1>8 DEF InWork, AsksForData
<1>14. Listening' /\ Answering' /\ SaysNo'
  BY <1>8, <1>9 DEF Listening, Answering, SaysNo
<1> QED BY <1>10, <1>11, <1>12, <1>13, <1>14 DEF Ep0Inv

LEMMA HostWritesStatusKeeps == ASSUME Ep0Inv, HostWritesStatus PROVE Ep0Inv'
<1>1. /\ done.ep = "none" /\ bus = "none" /\ bus' = "none" /\ arm.out.on
      /\ stall' = stall /\ host.dir = "in" /\ host.len > 0 /\ Moved("out", 0)
      /\ host' = [stage |-> "idle", dir |-> host.dir, len |-> host.len,
                  moved |-> host.moved]
      /\ host'.stage = "idle"
      /\ UNCHANGED <<setup, next, ptr, residue, zlp, mem, verdict, got>>
  BY DEF HostWritesStatus, Quiet, coreVars, Ep0Inv, TypeOK
<1>2. Scalars
  BY TypedScalars DEF Ep0Inv
<1>3. setup.dir = "in"
  BY <1>1 DEF Ep0Inv, Sync
<1>4. /\ next = "OUT_STATUS" /\ OutStatus
      /\ arm.out.off = 0 /\ arm.out.len = 0 /\ arm.out.sent = 0
  BY <1>1, <1>3 DEF Ep0Inv, OutWork, OutData, OutStatus, Working
<1>5. OutMoved(0)
  <2>1. /\ arm \in Transfers /\ done \in Dones /\ 0 \in 0 .. MPS
        /\ arm.out.sent + 0 <= arm.out.len
    BY <1>4, Ep0Assumption DEF Ep0Inv, TypeOK, Transfers, Dones
  <2> QED BY <1>1, <2>1, OutMoves
<1>6. /\ arm' \in Transfers /\ done' \in Dones /\ done' = [ep |-> "out", n |-> 0]
      /\ arm'.out = Off /\ arm'.in = arm.in
  BY <1>4, <1>5, Ep0Assumption DEF OutMoved, OutDone, OutGoesOn
<1>7. /\ done'.ep = "out" /\ done'.n = 0 /\ arm'.out.on = FALSE /\ arm'.in = Off
      /\ arm'.in.on = FALSE /\ stall' = FALSE
  BY <1>1, <1>2, <1>6 DEF Ep0Inv, Exclusive, Off, Scalars
<1>8. TypeOK'
  BY <1>1, <1>6 DEF Ep0Inv, TypeOK, Transfers, Dones
<1>9. Sync' /\ HostSane' /\ HandlerSeesAll' /\ Fits' /\ InOrder'
  BY <1>1 DEF Ep0Inv, Sync, HostSane, HandlerSeesAll, Fits, InOrder
<1>10. Exclusive' /\ InWork' /\ LeftOver' /\ Resting'
  BY <1>1, <1>4, <1>6, <1>7
     DEF Exclusive, InWork, Working, LeftOver, Resting, Quiet
<1>11. OutWork'
  BY <1>1, <1>4, <1>7 DEF OutWork, OutStatus, AsksForData, Total
<1>12. Listening' /\ Answering' /\ SaysNo'
  BY <1>1, <1>7 DEF Listening, Answering, SaysNo
<1> QED BY <1>8, <1>9, <1>10, <1>11, <1>12 DEF Ep0Inv

LEMMA HostReadsDataKeeps == ASSUME Ep0Inv, HostReadsData PROVE Ep0Inv'
<1> DEFINE p == Least(MPS, arm.in.len - arm.in.sent)
           m == host.moved + p
<1>1. /\ done.ep = "none" /\ bus = "none" /\ bus' = "none" /\ arm.in.on
      /\ stall = FALSE /\ stall' = FALSE /\ host.stage = "data" /\ host.dir = "in"
      /\ Moved("in", p)
      /\ UNCHANGED <<setup, next, ptr, residue, zlp, mem, verdict>>
  BY DEF HostReadsData, Quiet, coreVars, Ep0Inv, TypeOK
<1>2. host' = [stage |-> IF m > host.len THEN "babble"
                         ELSE IF p < MPS \/ m = host.len THEN "status" ELSE "data",
               dir |-> host.dir, len |-> host.len, moved |-> m]
  BY DEF HostReadsData, Ep0Inv, TypeOK
<1>3. got' = [i \in 0 .. m - 1 |->
                IF i < host.moved THEN got[i]
                ELSE arm.in.off + arm.in.sent + i - host.moved]
  BY DEF HostReadsData
<1>4. Scalars
  BY TypedScalars DEF Ep0Inv
<1>5. DataIn
  BY <1>1, InDataArmed
<1>6. /\ host.moved = ptr + arm.in.sent /\ arm.in.sent <= arm.in.len
      /\ arm.in.len <= residue /\ ptr + residue = Total /\ Total <= host.len
      /\ arm.in.len = residue \/ (arm.in.len = MPS /\ arm.in.sent = 0)
      /\ arm.in.len > 0 => arm.in.off = ptr
  BY <1>5 DEF DataIn
<1>7. /\ p \in Nat /\ p <= MPS /\ p <= arm.in.len - arm.in.sent
      /\ p = MPS \/ p = arm.in.len - arm.in.sent
  BY <1>4, <1>6 DEF Scalars, Least
<1>8. InMoved
  <2>1. arm \in Transfers /\ done \in Dones /\ arm.in.sent <= arm.in.len
    BY <1>5 DEF Ep0Inv, TypeOK, Transfers, Dones, DataIn
  <2> QED BY <1>1, <2>1, InMoves
<1>9. /\ arm' \in Transfers /\ done' \in Dones /\ arm'.out = arm.out
      /\ \/ /\ arm'.in = Off /\ done' = [ep |-> "in", n |-> arm.in.len]
            /\ p = arm.in.len - arm.in.sent
         \/ /\ arm'.in = [on |-> TRUE, off |-> arm.in.off, len |-> arm.in.len,
                          sent |-> arm.in.sent + MPS]
            /\ done' = done /\ arm.in.sent + MPS < arm.in.len /\ p = MPS
  BY <1>8 DEF InMoved, InDone, InGoesOn
<1> HIDE DEF p
<1>10. /\ m \in Nat /\ m - 1 \in Int /\ m <= Total /\ m <= host.len
      /\ m = ptr + arm.in.sent + p
  BY <1>4, <1>6, <1>7 DEF Scalars
<1> HIDE DEF m
<1>11. /\ host'.stage \in {"data", "status"} /\ (host'.stage = "data" => m < host.len)
       /\ host'.dir = "in" /\ host'.len = host.len /\ host'.moved = m
  BY <1>1, <1>2, <1>4, <1>10 DEF Scalars
<1>12. /\ arm'.out = Off /\ arm'.out.on = FALSE
       /\ \/ /\ arm'.in.on = FALSE /\ arm'.in = Off /\ arm'.in.sent = 0
             /\ done'.ep = "in" /\ done'.n = arm.in.len /\ m = ptr + arm.in.len
          \/ /\ arm'.in.on = TRUE /\ arm'.in.off = arm.in.off
             /\ arm'.in.len = arm.in.len /\ arm'.in.sent = arm.in.sent + MPS
             /\ done'.ep = "none" /\ arm.in.sent + MPS < arm.in.len
             /\ m = ptr + arm.in.sent + MPS
  BY <1>1, <1>4, <1>9, <1>10 DEF Ep0Inv, Exclusive, Off, Scalars
<1>13. TypeOK'
  <2>1. host' \in [stage : {"idle", "data", "status", "stalled", "babble"},
                   dir : {"in", "out"}, len : 0 .. MaxLen, moved : Nat]
    BY <1>2, <1>10 DEF Ep0Inv, TypeOK
  <2> QED BY <1>1, <1>9, <2>1 DEF Ep0Inv, TypeOK, Transfers, Dones
<1>14. InOrder'
  <2> SUFFICES ASSUME NEW i \in 0 .. m - 1 PROVE got'[i] = i
    BY <1>3 DEF InOrder
  <2>1. CASE i < host.moved
    <3>1. i \in 0 .. host.moved - 1
      BY <1>4, <1>10, <2>1 DEF Scalars
    <3>2. got[i] = i
      BY <1>5, <3>1 DEF Ep0Inv, InOrder, DataIn
    <3> QED BY <1>3, <2>1, <3>2
  <2>2. CASE ~(i < host.moved)
    <3>1. i \in Int /\ arm.in.len > 0
      BY <1>4, <1>6, <1>7, <1>10, <2>2 DEF Scalars
    <3>2. got'[i] = arm.in.off + arm.in.sent + i - host.moved
      BY <1>3, <2>2
    <3>3. arm.in.off = ptr
      BY <1>6, <3>1
    <3> QED BY <1>4, <1>6, <3>1, <3>2, <3>3 DEF Scalars
  <2> QED BY <2>1, <2>2
<1>15. HostSane'
  BY <1>1, <1>3, <1>10, <1>11 DEF HostSane
<1>16. InWork'
  <2>1. Total' = Total /\ AsksForData'
    BY <1>1, <1>5 DEF Total, AsksForData, DataIn
  <2>2. InFlight("in")' = m - ptr
    BY <1>4, <1>10, <1>12 DEF InFlight, Scalars
  <2>3. arm'.in.on => /\ arm'.in.sent <= arm'.in.len /\ arm'.in.len <= residue'
                      /\ arm'.in.len = residue' /\ arm'.in.off = ptr'
    BY <1>1, <1>4, <1>6, <1>12 DEF Scalars
  <2>4. done'.ep = "in" => done'.n <= residue'
    BY <1>1, <1>4, <1>6, <1>12 DEF Scalars
  <2>5. host'.moved = ptr' + InFlight("in")'
    BY <1>1, <1>4, <1>10, <1>11, <2>2 DEF Scalars
  <2> QED BY <1>1, <1>4, <1>5, <2>1, <2>3, <2>4, <2>5 DEF InWork, Scalars, DataIn
<1>17. Sync' /\ HandlerSeesAll' /\ Fits' /\ LeftOver' /\ Resting'
  BY <1>1, <1>4, <1>5, <1>11
     DEF Ep0Inv, Sync, HandlerSeesAll, Fits, LeftOver, Resting, DataIn, AsksForData, Scalars
<1>18. Exclusive' /\ OutWork' /\ Listening' /\ Answering' /\ SaysNo'
  BY <1>1, <1>11, <1>12
     DEF Exclusive, OutWork, Listening, Answering, SaysNo, Working
<1> QED BY <1>13, <1>14, <1>15, <1>16, <1>17, <1>18 DEF Ep0Inv

LEMMA HostWritesDataKeeps == ASSUME Ep0Inv, HostWritesData PROVE Ep0Inv'
<1> DEFINE p == Least(MPS, host.len - host.moved)
           m == host.moved + p
           at == arm.out.off + arm.out.sent
<1>1. /\ done.ep = "none" /\ bus = "none" /\ bus' = "none" /\ arm.out.on
      /\ stall' = stall /\ host.stage = "data" /\ host.dir = "out"
      /\ p <= arm.out.len - arm.out.sent /\ Moved("out", p)
      /\ UNCHANGED <<setup, next, ptr, residue, zlp, verdict, got>>
  BY DEF HostWritesData, Quiet
<1>2. host' = [stage |-> IF m = host.len THEN "status" ELSE "data",
               dir |-> host.dir, len |-> host.len, moved |-> m]
  BY DEF HostWritesData, Ep0Inv, TypeOK
<1>3. mem' = [i \in 0 .. BufLen - 1 |->
                IF i \in at .. at + p - 1 THEN host.moved + i - at ELSE mem[i]]
  BY DEF HostWritesData, Ep0Inv, TypeOK
<1>4. Scalars
  BY TypedScalars DEF Ep0Inv
<1>5. /\ setup.dir = "out" /\ setup.len = host.len /\ host.moved < host.len
      /\ next = "OUT_DATA" /\ OutData
  BY <1>1 DEF Ep0Inv, Sync, HostSane, OutWork, OutStatus, Working, AsksForData
<1>6. /\ host.moved = ptr + arm.out.sent /\ ptr + residue = setup.len
      /\ setup.len <= BufLen /\ Prefix(host.moved) /\ arm.out.off = ptr
      /\ arm.out.len <= residue /\ verdict.st = "pending" /\ zlp = FALSE
  BY <1>1, <1>4, <1>5 DEF OutData, InFlight, Scalars
<1>7. p \in Nat /\ p > 0 /\ p <= MPS /\ p <= host.len - host.moved
  BY <1>4, <1>5 DEF Scalars, Least
<1>8. OutMoved(p)
  <2>1. arm \in Transfers /\ done \in Dones
    BY DEF Ep0Inv, TypeOK, Transfers, Dones
  <2>2. p \in 0 .. MPS /\ arm.out.sent + p <= arm.out.len
    BY <1>1, <1>4, <1>7 DEF Scalars
  <2> QED BY <1>1, <2>1, <2>2, OutMoves
<1> HIDE DEF p
<1>9. at = host.moved
  BY <1>4, <1>6 DEF Scalars
<1>10. m \in Nat /\ m <= host.len
  BY <1>4, <1>5, <1>7 DEF Scalars
<1>11. m = ptr + arm.out.sent + p
  BY <1>6
<1> HIDE DEF m, at
<1>12. /\ host'.stage \in {"data", "status"} /\ (host'.stage = "data" => m < host.len)
       /\ host'.dir = "out" /\ host'.len = host.len /\ host'.moved = m
  BY <1>1, <1>2, <1>4, <1>10 DEF Scalars
<1>13. /\ arm'.in = Off /\ arm'.in.on = FALSE /\ stall' = FALSE
       /\ \/ /\ arm'.out.on = FALSE /\ arm'.out = Off /\ arm'.out.sent = 0
             /\ done'.ep = "out" /\ done'.n = arm.out.sent + p
          \/ /\ arm'.out.on = TRUE /\ arm'.out.off = arm.out.off
             /\ arm'.out.len = arm.out.len /\ arm'.out.sent = arm.out.sent + p
             /\ done'.ep = "none"
  BY <1>1, <1>4, <1>8 DEF Ep0Inv, Exclusive, Off, Scalars, OutMoved, OutDone, OutGoesOn
<1>14. \A i \in 0 .. m - 1 : mem'[i] = i
  <2> SUFFICES ASSUME NEW i \in 0 .. m - 1 PROVE mem'[i] = i
    OBVIOUS
  <2>1. i \in 0 .. BufLen - 1 /\ i \in Int /\ i < m
    BY <1>4, <1>5, <1>6, <1>10 DEF Scalars
  <2>2. CASE i < host.moved
    <3>1. ~(i \in at .. at + p - 1) /\ i \in 0 .. host.moved - 1
      BY <1>4, <1>9, <2>1, <2>2 DEF Scalars
    <3> QED BY <1>3, <1>6, <2>1, <3>1 DEF Prefix
  <2>3. CASE ~(i < host.moved)
    <3>1. i \in at .. at + p - 1
      BY <1>4, <1>6, <1>7, <1>9, <1>11, <2>1, <2>3 DEF Scalars
    <3> QED BY <1>3, <1>4, <1>9, <2>1, <3>1 DEF Scalars
  <2> QED BY <2>2, <2>3
<1>15. TypeOK'
  <2>1. host' \in [stage : {"idle", "data", "status", "stalled", "babble"},
                   dir : {"in", "out"}, len : 0 .. MaxLen, moved : Nat]
    BY <1>2, <1>10 DEF Ep0Inv, TypeOK
  <2>2. mem' \in [0 .. BufLen - 1 -> {Stale} \cup 0 .. MaxLen]
    <3> SUFFICES ASSUME NEW i \in 0 .. BufLen - 1
                 PROVE  mem'[i] \in {Stale} \cup 0 .. MaxLen
      BY <1>3
    <3>1. CASE i \in at .. at + p - 1
      <4>1. i \in 0 .. m - 1 /\ i < host.len
        BY <1>4, <1>6, <1>7, <1>9, <1>10, <1>11, <3>1 DEF Scalars
      <4>2. host.len \in 0 .. MaxLen
        BY DEF Ep0Inv, TypeOK
      <4> QED BY <1>14, <4>1, <4>2, Ep0Assumption
    <3>2. CASE ~(i \in at .. at + p - 1)
      BY <1>3, <3>2 DEF Ep0Inv, TypeOK
    <3> QED BY <3>1, <3>2
  <2>3. arm' \in Transfers /\ done' \in Dones
    BY <1>8 DEF OutMoved
  <2> QED BY <1>1, <2>1, <2>2, <2>3 DEF Ep0Inv, TypeOK, Transfers, Dones
<1>16. OutWork' /\ Listening'
  <2>1. InFlight("out")' = arm.out.sent + p
    BY <1>4, <1>7, <1>13 DEF InFlight, Scalars
  <2>2. Prefix(host.moved)'
    BY <1>12, <1>14 DEF Prefix
  <2>3. arm'.out.on => /\ arm'.out.off = ptr' /\ arm'.out.len <= residue'
                       /\ arm'.out.sent <= arm'.out.len
    BY <1>1, <1>4, <1>6, <1>7, <1>13 DEF Scalars
  <2>4. done'.ep = "out" => done'.n > 0 /\ done'.n <= residue'
    BY <1>1, <1>4, <1>6, <1>7, <1>13 DEF Scalars
  <2>5. host'.moved = ptr' + InFlight("out")'
    BY <1>1, <1>4, <1>7, <1>11, <1>12, <2>1 DEF Scalars
  <2>6. OutData'
    BY <1>1, <1>5, <1>6, <2>2, <2>3, <2>4, <2>5 DEF OutData
  <2> QED BY <1>1, <1>5, <1>13, <2>6 DEF OutWork, Listening, Working
<1>17. Sync' /\ HostSane' /\ HandlerSeesAll' /\ Fits' /\ InOrder'
  BY <1>1, <1>5, <1>6, <1>10, <1>12
     DEF Ep0Inv, Sync, HostSane, HandlerSeesAll, Fits, InOrder
<1>18. Exclusive' /\ InWork' /\ LeftOver' /\ Resting' /\ Answering' /\ SaysNo'
  BY <1>1, <1>12, <1>13
     DEF Exclusive, InWork, LeftOver, Resting, Answering, SaysNo, Working
<1> QED BY <1>15, <1>16, <1>17, <1>18 DEF Ep0Inv


-----------------------------------------------------------------------------
(* The invariant.                                                          *)

LEMMA Ep0Init == Init => Ep0Inv
<1> SUFFICES ASSUME Init PROVE Ep0Inv
  OBVIOUS
<1>1. /\ setup = [dir |-> "out", len |-> 0] /\ next = "SETUP" /\ ptr = 0 /\ residue = 0
      /\ zlp = FALSE /\ mem = [i \in 0 .. BufLen - 1 |-> -1]
      /\ verdict = [st |-> "refused", len |-> 0]
      /\ arm.in = Off /\ arm.out = Off /\ arm = [in |-> Off, out |-> Off]
      /\ Off = [on |-> FALSE, off |-> 0, len |-> 0, sent |-> 0]
      /\ stall = FALSE /\ done = [ep |-> "none", n |-> 0] /\ bus = "none"
      /\ host = [stage |-> "idle", dir |-> "out", len |-> 0, moved |-> 0]
      /\ got = [i \in {} |-> 0]
  BY DEF Init, Clean, Stale, Refused, NoArms, NoDone, Off
<1>2. TypeOK
  <2>1. Off \in Transfer /\ ptr \in 0 .. BufLen /\ residue \in Nat
    BY <1>1, Ep0Assumption DEF Transfer
  <2>2. arm \in [in : Transfer, out : Transfer]
    BY <1>1, <2>1
  <2>3. mem \in [0 .. BufLen - 1 -> {Stale} \cup 0 .. MaxLen]
    BY <1>1 DEF Stale
  <2>4. setup \in [dir : {"in", "out"}, len : 0 .. MaxLen]
    BY <1>1, Ep0Assumption
  <2>5. done \in [ep : {"none", "in", "out"}, n : 0 .. BufLen]
    BY <1>1, Ep0Assumption
  <2>6. host \in [stage : {"idle", "data", "status", "stalled", "babble"},
                 dir : {"in", "out"}, len : 0 .. MaxLen, moved : Nat]
    BY <1>1, Ep0Assumption
  <2>7. /\ next \in {"SETUP", "IN_DATA", "OUT_DATA", "IN_STATUS", "OUT_STATUS"}
        /\ zlp \in BOOLEAN /\ stall \in BOOLEAN /\ bus \in {"none", "setup", "reset"}
        /\ verdict \in [st : {"pending", "accepted", "refused"}, len : Nat]
    BY <1>1
  <2> QED BY <2>1, <2>2, <2>3, <2>4, <2>5, <2>6, <2>7 DEF TypeOK
<1>3. HandlerSeesAll /\ Fits /\ InOrder /\ Sync /\ HostSane /\ Exclusive
  BY <1>1 DEF HandlerSeesAll, Fits, InOrder, Sync, HostSane, Exclusive
<1>4. InWork /\ OutWork /\ LeftOver /\ Resting /\ Listening /\ Answering /\ SaysNo
  BY <1>1 DEF InWork, OutWork, Working, LeftOver, Resting, Listening, Answering, SaysNo
<1> QED BY <1>2, <1>3, <1>4 DEF Ep0Inv

LEMMA Ep0Step == Ep0Inv /\ [Next]_vars => Ep0Inv'
<1> SUFFICES ASSUME Ep0Inv, [Next]_vars PROVE Ep0Inv'
  OBVIOUS
<1>1. CASE Handle
  BY <1>1, SetupTooLongKeeps, SetupOutDataKeeps, SetupRefusedKeeps, SetupAcceptedKeeps,
     InMoreKeeps, InZlpKeeps, InDataDoneKeeps, InStatusDoneKeeps, OutMoreKeeps,
     OutAllKeeps, OutStatusDoneKeeps, HandleResetKeeps DEF Handle
<1>2. CASE \E dir \in {"in", "out"}, len \in 0 .. MaxLen : HostSetup(dir, len)
  BY <1>2, HostSetupKeeps
<1>3. CASE BusReset
  BY <1>3, BusResetKeeps
<1>4. CASE Token \/ HostWritesStall
  BY <1>4, HostReadsDataKeeps, HostWritesDataKeeps, HostReadsStatusKeeps,
     HostWritesStatusKeeps, HostReadsStallKeeps, HostWritesStallKeeps DEF Token
<1>5. CASE UNCHANGED vars
  <2>1. /\ UNCHANGED <<setup, next, ptr, residue, zlp, mem, verdict>>
        /\ UNCHANGED <<arm, stall, done, bus, host, got>>
    BY <1>5 DEF vars, coreVars, dcdVars, hostVars
  <2> QED BY <2>1
      DEF Ep0Inv, TypeOK, HandlerSeesAll, Fits, InOrder, Sync, HostSane, Exclusive, InWork,
          OutWork, OutData, OutStatus, Prefix, LeftOver, Resting, Quiet, Listening,
          Answering, SaysNo, Working, AsksForData, Total, InFlight
<1> QED BY <1>1, <1>2, <1>3, <1>4, <1>5 DEF Next

LEMMA Ep0Inductive == Spec => []Ep0Inv
BY Ep0Init, Ep0Step, PTL DEF Spec

LEMMA Derived == Ep0Inv => ResidueAccounts /\ NextStateAgrees /\ BufferBounds
<1> SUFFICES ASSUME Ep0Inv PROVE ResidueAccounts /\ NextStateAgrees /\ BufferBounds
  OBVIOUS
<1>1. Scalars
  BY TypedScalars DEF Ep0Inv
<1>2. ResidueAccounts
  <2> SUFFICES ASSUME bus = "none", host.stage = "data"
               PROVE  /\ host.dir = "in" /\ verdict.st = "accepted" /\ ~stall =>
                           host.moved = Total - residue + InFlight("in")
                      /\ host.dir = "out" /\ host.len <= BufLen =>
                           host.moved = host.len - residue + InFlight("out")
    BY DEF ResidueAccounts, Total
  <2>1. setup.dir = host.dir /\ setup.len = host.len /\ host.len > 0
    BY <1>1 DEF Ep0Inv, Sync, HostSane, Scalars
  <2>2. InFlight("in") \in Int /\ InFlight("out") \in Int
    BY <1>1 DEF InFlight, Scalars
  <2>3. ASSUME host.dir = "in", verdict.st = "accepted", ~stall
        PROVE  host.moved = Total - residue + InFlight("in")
    <3>1. CASE Working("in")
      <4>1. ptr + residue = Total /\ host.moved = ptr + InFlight("in")
        BY <2>1, <2>3, <3>1 DEF Ep0Inv, InWork, AsksForData
      <4> QED BY <1>1, <2>2, <4>1 DEF Scalars
    <3>2. CASE ~Working("in")
      <4>1. residue = 0 /\ host.moved = Total
        BY <2>3, <3>2 DEF Ep0Inv, Answering
      <4>2. InFlight("in") = 0
        BY <3>2 DEF Ep0Inv, Exclusive, Working, InFlight, Off
      <4> QED BY <1>1, <4>1, <4>2 DEF Scalars
    <3> QED BY <3>1, <3>2
  <2>4. ASSUME host.dir = "out", host.len <= BufLen
        PROVE  host.moved = host.len - residue + InFlight("out")
    <3>1. ptr + residue = setup.len /\ host.moved = ptr + InFlight("out")
      BY <2>1, <2>4 DEF Ep0Inv, Listening, OutWork, OutData
    <3> QED BY <1>1, <2>1, <2>2, <3>1 DEF Scalars
  <2> QED BY <2>3, <2>4
<1>3. NextStateAgrees
  BY <1>1 DEF Ep0Inv, NextStateAgrees, Resting, InWork, OutWork, Working
<1>4. BufferBounds
  <2>1. arm.in.on => arm.in.off + arm.in.len <= BufLen
    BY DEF Ep0Inv, InWork, Working
  <2>2. arm.out.on => arm.out.off + arm.out.len <= BufLen
    BY <1>1 DEF Ep0Inv, OutWork, OutData, OutStatus, Working, Scalars
  <2> QED BY <2>1, <2>2 DEF BufferBounds
<1> QED BY <1>2, <1>3, <1>4

-----------------------------------------------------------------------------
(* What holds of the pipe, whatever the packet and buffer sizes.           *)

\* Core, driver and host keep their types; in particular the residue, an
\* unsigned subtraction in both completion handlers, never underflows.
THEOREM Ep0Types == Spec => []TypeOK
<1>1. Ep0Inv => TypeOK
  BY DEF Ep0Inv
<1> QED BY <1>1, Ep0Inductive, PTL

\* The handlers never arm a transfer that reaches past the request buffer,
\* whatever length the request handler offers.
THEOREM Ep0BufferBounds == Spec => []BufferBounds
BY Derived, Ep0Inductive, PTL

\* However the driver splits a transfer into completions, ep0_data_buf_residue
\* and what is in flight add up to what the host has moved.
THEOREM Ep0ResidueAccounts == Spec => []ResidueAccounts
BY Derived, Ep0Inductive, PTL

\* A request handler that accepted host-to-device data was called with every
\* byte the host sent, each in its place in req_data.
THEOREM Ep0HandlerSeesAll == Spec => []HandlerSeesAll
<1>1. Ep0Inv => HandlerSeesAll
  BY DEF Ep0Inv
<1> QED BY <1>1, Ep0Inductive, PTL

\* The host receives the bytes of the reply in order, none lost or repeated
\* where one completion ends and the next transfer starts.
THEOREM Ep0InOrder == Spec => []InOrder
<1>1. Ep0Inv => InOrder
  BY DEF Ep0Inv
<1> QED BY <1>1, Ep0Inductive, PTL

\* ep0_next_state, which drivers read, says SETUP when the host is through,
\* and only while EP0 has nothing armed.
THEOREM Ep0NextStateAgrees == Spec => []NextStateAgrees
BY Derived, Ep0Inductive, PTL

-----------------------------------------------------------------------------
(* The pipe implements ControlTransfer.                                    *)

LEMMA InitMaps == Init => Ct!CtInit
BY DEF Init, Refused, Ct!CtInit, NewRequest

\* Of a request under way Goal is Total, and TooLong what SaysNo says.
LEMMA GoalIsTotal ==
    ASSUME Ep0Inv, bus # "setup"
    PROVE  /\ host.dir = "in" => Ct!Goal = Total
           /\ host.dir = "out" => Ct!Goal = host.len
           /\ setup.dir = host.dir /\ setup.len = host.len
<1>1. Scalars /\ setup.dir = host.dir /\ setup.len = host.len
  BY TypedScalars DEF Ep0Inv, Sync
<1>2. ~NewRequest
  BY DEF NewRequest
<1> QED BY <1>1, <1>2 DEF Ct!Goal, Total, Reply, Least, Scalars

\* Steps of the core that the host and the handlers do not notice.
LEMMA UnnoticedMaps ==
    ASSUME UNCHANGED <<host, verdict>>, NewRequest' = NewRequest
    PROVE  UNCHANGED Ct!ctVars
BY DEF Ct!ctVars

LEMMA HandleMaps == ASSUME Ep0Inv, Handle PROVE Ct!Decide \/ UNCHANGED Ct!ctVars
<1>1. ASSUME Taken, host' = host, verdict'.st \in {"accepted", "refused"},
             verdict'.len \in Nat,
             host.dir = "out" => host.len = 0 \/ (host.len > BufLen /\ verdict'.st = "refused")
      PROVE  Ct!Decide
  <2>1. NewRequest /\ ~NewRequest' /\ host.moved = 0
    BY <1>1 DEF Taken, NewRequest, Ep0Inv, HostSane
  <2> QED BY <1>1, <2>1 DEF Ct!Decide
<1>2. CASE SetupTooLong
  BY <1>1, <1>2 DEF SetupTooLong, Refused, hostVars
<1>3. CASE SetupRefused
  <2>1. host.dir = "in" \/ host.len = 0
    BY <1>3 DEF SetupRefused
  <2>2. verdict'.st = "refused" /\ verdict'.len = 0 /\ host' = host /\ Taken
    BY <1>3 DEF SetupRefused, Refused, hostVars
  <2> QED BY <1>1, <2>1, <2>2
<1>4. ASSUME NEW n \in Offers, SetupAccepted(n) PROVE Ct!Decide
  <2>1. host.dir = "in" \/ host.len = 0
    BY <1>4 DEF SetupAccepted
  <2>2. verdict'.st = "accepted" /\ verdict'.len = n /\ host' = host /\ Taken
    BY <1>4 DEF SetupAccepted, Accepted, hostVars
  <2> QED BY <1>1, <2>1, <2>2, Ep0Assumption
<1>5. CASE SetupOutData
  <2>1. NewRequest /\ ~NewRequest' /\ host' = host
    BY <1>5 DEF SetupOutData, Taken, NewRequest, hostVars
  <2>2. verdict'.st = "pending" /\ verdict'.len = 0
    BY <1>5 DEF SetupOutData, Pending
  <2> QED BY <2>1, <2>2 DEF Ct!ctVars
<1>6. CASE OutAll
  <2>1. Scalars /\ done.ep = "out" /\ done.n > 0 /\ residue = done.n
    BY <1>6, TypedScalars DEF OutAll, Completed, Ep0Inv
  <2>2. /\ bus # "setup" /\ verdict.st = "pending" /\ ptr + residue = setup.len
        /\ host.moved = ptr + done.n
    BY <2>1, OutDataCompleted
  <2>3. host' = host /\ bus' = bus
    BY <1>6 DEF OutAll, Completed, hostVars
  <2>4. verdict'.st \in {"accepted", "refused"} /\ verdict'.len \in Nat
    BY <1>6, Ep0Assumption DEF OutAll, Accepted, Refused
  <2>5. host.moved = host.len
    BY <2>1, <2>2 DEF Ep0Inv, Sync
  <2> QED BY <2>2, <2>3, <2>4, <2>5 DEF Ct!Decide, NewRequest
<1>7. CASE InMore \/ InZlp \/ InDataDone \/ InStatusDone \/ OutMore \/ OutStatusDone
  <2>1. host' = host /\ verdict' = verdict /\ bus' = bus
    BY <1>7 DEF InMore, InZlp, InDataDone, InStatusDone, OutMore, OutStatusDone,
                Completed, hostVars
  <2> QED BY <2>1, UnnoticedMaps DEF NewRequest
<1>8. CASE HandleReset
  <2>1. host' = host /\ verdict' = verdict /\ bus = "reset" /\ bus' = "none"
    BY <1>8 DEF HandleReset, hostVars
  <2> QED BY <2>1, UnnoticedMaps DEF NewRequest
<1> QED BY <1>2, <1>3, <1>4, <1>5, <1>6, <1>7, <1>8 DEF Handle

LEMMA HostSetupMaps ==
    ASSUME NEW dir \in {"in", "out"}, NEW len \in 0 .. MaxLen, HostSetup(dir, len)
    PROVE  Ct!Setup
<1>1. host' = [stage |-> IF len = 0 THEN "status" ELSE "data",
               dir |-> dir, len |-> len, moved |-> 0]
  BY DEF HostSetup
<1>2. NewRequest'
  BY DEF HostSetup, NewRequest
<1> QED BY <1>1, <1>2 DEF Ct!Setup

LEMMA BusResetMaps == ASSUME Ep0Inv, BusReset PROVE Ct!Abandon
<1>1. host' = [stage |-> "idle", dir |-> host.dir, len |-> host.len,
               moved |-> host.moved]
  BY DEF BusReset, Ep0Inv, TypeOK
<1>2. verdict' = verdict /\ ~NewRequest /\ ~NewRequest'
  BY DEF BusReset, NewRequest, coreVars
<1> QED BY <1>1, <1>2 DEF Ct!Abandon

\* A token is answered only when no SETUP is pending, and the verdict stays.
LEMMA TokenKeepsVerdict ==
    ASSUME Token \/ HostWritesStall
    PROVE  /\ bus = "none" /\ done.ep = "none" /\ ~NewRequest /\ ~NewRequest'
           /\ verdict' = verdict
BY DEF Token, HostWritesStall, HostReadsData, HostWritesData, HostReadsStatus,
       HostWritesStatus, HostReadsStall, Quiet, NewRequest, coreVars, dcdVars

LEMMA StallMaps == ASSUME Ep0Inv, HostReadsStall \/ HostWritesStall PROVE Ct!Stall
<1>1. /\ bus = "none" /\ verdict' = verdict /\ ~NewRequest /\ ~NewRequest'
  BY TokenKeepsVerdict DEF Token
<1>2. /\ stall = TRUE /\ host.stage \in {"data", "status"}
      /\ host' = [stage |-> "stalled", dir |-> host.dir, len |-> host.len,
                  moved |-> host.moved]
  BY DEF HostReadsStall, HostWritesStall, Ep0Inv, TypeOK
<1>3. verdict.st = "refused" \/ (verdict.st = "accepted" /\ setup.dir = "in" /\ Total > BufLen)
  BY <1>2 DEF Ep0Inv, SaysNo
<1>4. verdict.st = "refused" \/ Ct!TooLong
  BY <1>1, <1>3, GoalIsTotal DEF Ct!TooLong
<1> QED BY <1>1, <1>2, <1>4 DEF Ct!Stall

LEMMA HostReadsStatusMaps == ASSUME Ep0Inv, HostReadsStatus PROVE Ct!Finish
<1> DEFINE p == Least(MPS, arm.in.len - arm.in.sent)
<1>1. /\ bus = "none" /\ verdict' = verdict /\ ~NewRequest /\ ~NewRequest'
  BY TokenKeepsVerdict DEF Token
<1>2. /\ arm.in.on /\ host.stage = "status" /\ (host.dir = "out" \/ host.len = 0)
      /\ host' = [stage |-> IF p > 0 THEN "babble" ELSE "idle", dir |-> host.dir,
                  len |-> host.len, moved |-> host.moved]
  BY DEF HostReadsStatus, Ep0Inv, TypeOK
<1>3. Scalars /\ setup.dir = host.dir /\ setup.len = host.len
  BY <1>1, TypedScalars DEF Ep0Inv, Sync
<1>4. /\ verdict.st = "accepted" /\ arm.in.len = 0 /\ arm.in.sent = 0
  BY <1>2, <1>3 DEF Ep0Inv, InWork, Working, AsksForData, Scalars
<1>5. p = 0
  BY <1>4, Ep0Assumption DEF Least
<1>6. ~Ct!TooLong
  <2>1. CASE host.dir = "out"
    BY <1>1, <1>3, <1>4, <2>1 DEF Ep0Inv, Fits, Ct!TooLong, Scalars
  <2>2. CASE host.dir # "out"
    <3>1. Ct!Goal = 0
      BY <1>1, <1>2, <1>3, <2>2 DEF Ct!Goal, Scalars
    <3> QED BY <1>3, <2>2, <3>1 DEF Ct!TooLong, Scalars
  <2> QED BY <2>1, <2>2
<1> QED BY <1>1, <1>2, <1>4, <1>5, <1>6 DEF Ct!Finish

LEMMA HostWritesStatusMaps == ASSUME Ep0Inv, HostWritesStatus PROVE Ct!Finish
<1>1. /\ bus = "none" /\ done.ep = "none" /\ verdict' = verdict
      /\ ~NewRequest /\ ~NewRequest'
  BY TokenKeepsVerdict DEF Token
<1>2. /\ arm.out.on /\ host.stage = "status" /\ host.dir = "in"
      /\ host' = [stage |-> "idle", dir |-> host.dir, len |-> host.len,
                  moved |-> host.moved]
  BY DEF HostWritesStatus, Ep0Inv, TypeOK
<1>3. Scalars /\ setup.dir = "in"
  BY <1>1, <1>2, TypedScalars DEF Ep0Inv, Sync
<1>4. OutStatus
  BY <1>2, <1>3 DEF Ep0Inv, OutWork, OutData, Working
<1>5. verdict.st = "accepted" /\ Total <= BufLen
  BY <1>4 DEF OutStatus
<1>6. Total \in Nat /\ Ct!Goal = Total
  BY <1>1, <1>2, <1>3, GoalIsTotal DEF Total, Reply, Least, Scalars
<1>7. ~Ct!TooLong
  BY <1>2, <1>3, <1>5, <1>6 DEF Ct!TooLong, Scalars
<1> QED BY <1>1, <1>2, <1>5, <1>7 DEF Ct!Finish

LEMMA HostReadsDataMaps == ASSUME Ep0Inv, HostReadsData PROVE Ct!Deliver
<1> DEFINE p == Least(MPS, arm.in.len - arm.in.sent)
           m == host.moved + p
<1>1. /\ bus = "none" /\ done.ep = "none" /\ verdict' = verdict
      /\ ~NewRequest /\ ~NewRequest'
  BY TokenKeepsVerdict DEF Token
<1>2. /\ arm.in.on /\ host.stage = "data" /\ host.dir = "in"
      /\ host' = [stage |-> IF m > host.len THEN "babble"
                            ELSE IF p < MPS \/ m = host.len THEN "status" ELSE "data",
                  dir |-> host.dir, len |-> host.len, moved |-> m]
  BY DEF HostReadsData, Ep0Inv, TypeOK
<1>3. Scalars
  BY TypedScalars DEF Ep0Inv
<1>4. DataIn
  BY <1>1, <1>2, InDataArmed
<1>5. /\ host.moved = ptr + arm.in.sent /\ arm.in.sent <= arm.in.len
      /\ arm.in.len <= residue /\ ptr + residue = Total /\ Total <= host.len
      /\ arm.in.len = residue \/ (arm.in.len = MPS /\ arm.in.sent = 0)
      /\ verdict.st = "accepted"
  BY <1>4 DEF DataIn
<1>6. /\ p \in Nat /\ p <= MPS /\ p <= arm.in.len - arm.in.sent
      /\ p = MPS \/ p = arm.in.len - arm.in.sent
  BY <1>3, <1>5 DEF Scalars, Least
<1> HIDE DEF p
<1>7. /\ m \in Nat /\ m >= host.moved /\ m <= Total /\ m <= host.len /\ Total \in Nat
      /\ (p < MPS \/ m = host.len) => m = Total
  BY <1>3, <1>5, <1>6 DEF Scalars
<1> HIDE DEF m
<1>8. Ct!Goal = Total
  BY <1>1, <1>2, GoalIsTotal
<1>9. \/ host'.stage = "data" /\ m < host.len
      \/ host'.stage = "status" /\ m = Total
  BY <1>2, <1>3, <1>6, <1>7 DEF Scalars
<1>10. m \in host.moved .. Total
  BY <1>3, <1>7 DEF Scalars
<1>11. host'.moved = m /\ host'.dir = host.dir /\ host'.len = host.len
  BY <1>2
<1> QED BY <1>1, <1>2, <1>5, <1>8, <1>9, <1>10, <1>11 DEF Ct!Deliver

LEMMA HostWritesDataMaps == ASSUME Ep0Inv, HostWritesData PROVE Ct!Deliver
<1> DEFINE p == Least(MPS, host.len - host.moved)
           m == host.moved + p
<1>1. /\ bus = "none" /\ verdict' = verdict /\ ~NewRequest /\ ~NewRequest'
  BY TokenKeepsVerdict DEF Token
<1>2. /\ host.stage = "data" /\ host.dir = "out"
      /\ host' = [stage |-> IF m = host.len THEN "status" ELSE "data",
                  dir |-> host.dir, len |-> host.len, moved |-> m]
  BY DEF HostWritesData, Ep0Inv, TypeOK
<1>3. Scalars /\ host.moved < host.len
  BY <1>2, TypedScalars DEF Ep0Inv, HostSane
<1>4. p \in Nat /\ p <= host.len - host.moved
  BY <1>3 DEF Scalars, Least
<1> HIDE DEF p
<1>5. m \in host.moved .. host.len /\ m \in Nat
  BY <1>3, <1>4 DEF Scalars
<1> HIDE DEF m
<1>6. Ct!Goal = host.len
  BY <1>1, <1>2, GoalIsTotal
<1>7. \/ host'.stage = "data" /\ m < host.len
      \/ host'.stage = "status" /\ m = host.len
  BY <1>2, <1>3, <1>5 DEF Scalars
<1>8. host'.moved = m /\ host'.dir = host.dir /\ host'.len = host.len
  BY <1>2
<1> QED BY <1>1, <1>2, <1>5, <1>6, <1>7, <1>8 DEF Ct!Deliver

LEMMA StepMaps == Ep0Inv /\ [Next]_vars => [Ct!CtNext]_Ct!ctVars
<1> SUFFICES ASSUME Ep0Inv, [Next]_vars PROVE Ct!CtNext \/ UNCHANGED Ct!ctVars
  OBVIOUS
<1>1. CASE Handle
  BY <1>1, HandleMaps DEF Ct!CtNext
<1>2. CASE \E dir \in {"in", "out"}, len \in 0 .. MaxLen : HostSetup(dir, len)
  BY <1>2, HostSetupMaps DEF Ct!CtNext
<1>3. CASE BusReset
  BY <1>3, BusResetMaps DEF Ct!CtNext
<1>4. CASE Token \/ HostWritesStall
  BY <1>4, StallMaps, HostReadsStatusMaps, HostWritesStatusMaps, HostReadsDataMaps,
     HostWritesDataMaps DEF Token, Ct!CtNext
<1>5. CASE UNCHANGED vars
  <2>1. UNCHANGED <<host, verdict, bus>>
    BY <1>5 DEF vars, coreVars, dcdVars, hostVars
  <2> QED BY <2>1, UnnoticedMaps DEF NewRequest
<1> QED BY <1>1, <1>2, <1>3, <1>4, <1>5 DEF Next

\* The three EP0 handlers implement the abstract control transfer: whatever
\* the packet size, the driver's completions and the host's abandonments, a
\* handler runs at most once per SETUP and with all its data, the host gets
\* the smaller of the offered and the requested length, and STALL answers
\* only what was refused or does not fit.
THEOREM Ep0Refines == Spec => RefinesControlTransfer
<1>1. Spec => Ct!CtInit /\ [][Ct!CtNext]_Ct!ctVars
  BY InitMaps, StepMaps, Ep0Inductive, PTL DEF Spec
<1> QED BY <1>1 DEF RefinesControlTransfer, Ct!CtSpec

=============================================================================
