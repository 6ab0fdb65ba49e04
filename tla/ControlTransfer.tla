-------------------------- MODULE ControlTransfer --------------------------
(***************************************************************************)
(* What the device's control pipe promises the host and the request        *)
(* handlers: a handler runs at most once per SETUP; for a host-to-device   *)
(* request it runs only when all wLength bytes are there; the host is      *)
(* handed the smaller of the offered and the requested length, no more;    *)
(* the status stage succeeds only after the handler accepted, and STALL    *)
(* answers only a request that was refused or does not fit the request     *)
(* buffer.  UsbdEp0 is shown to implement this module.                     *)
(***************************************************************************)
EXTENDS Integers

CONSTANTS MaxLen,  (* bound: the largest wLength of a host                 *)
          BufLen   (* the size of the device's request buffer              *)

VARIABLES stage,    (* where the host is: idle, data, status or stalled    *)
          dir,      (* the direction bit of the current request            *)
          want,     (* its wLength                                         *)
          moved,    (* the data bytes the host has sent or received        *)
          verdict,  (* of the handler: pending, accepted or refused        *)
          offered   (* the length an accepting handler offered             *)

ctVars == <<stage, dir, want, moved, verdict, offered>>

Goal == IF dir = "out" \/ want < offered THEN want ELSE offered
TooLong == IF dir = "out" THEN want > BufLen
                          ELSE verdict = "accepted" /\ Goal > BufLen

CtInit ==
    /\ stage = "idle" /\ dir = "out" /\ want = 0 /\ moved = 0
    /\ verdict = "refused" /\ offered = 0

\* A SETUP may come at any time and abandons what went before.
Setup ==
    /\ dir' \in {"in", "out"} /\ want' \in 0 .. MaxLen
    /\ stage' = IF want' = 0 THEN "status" ELSE "data"
    /\ moved' = 0 /\ verdict' = "pending" /\ offered' = 0

\* The handler runs once; the host may have abandoned the request by then.
Decide ==
    /\ verdict = "pending"
    /\ dir = "out" => (moved = want \/ (want > BufLen /\ verdict' = "refused"))
    /\ verdict' \in {"accepted", "refused"} /\ offered' \in Nat
    /\ UNCHANGED <<stage, dir, want, moved>>

\* Data moves; the packet that completes it may end the stage, and the one
\* that brings wLength bytes does.
Deliver ==
    /\ stage = "data"
    /\ dir = "in" => verdict = "accepted"
    /\ moved' \in moved .. Goal
    /\ \/ stage' = "data" /\ moved' < want
       \/ stage' = "status" /\ moved' = Goal
    /\ UNCHANGED <<dir, want, verdict, offered>>

Finish ==
    /\ stage = "status" /\ verdict = "accepted" /\ ~TooLong
    /\ stage' = "idle"
    /\ UNCHANGED <<dir, want, moved, verdict, offered>>

Stall ==
    /\ stage \in {"data", "status"} /\ (verdict = "refused" \/ TooLong)
    /\ stage' = "stalled"
    /\ UNCHANGED <<dir, want, moved, verdict, offered>>

\* A bus reset abandons the transfer too.
Abandon == stage' = "idle" /\ UNCHANGED <<dir, want, moved, verdict, offered>>

CtNext == Setup \/ Decide \/ Deliver \/ Finish \/ Stall \/ Abandon

CtSpec == CtInit /\ [][CtNext]_ctVars
=============================================================================
