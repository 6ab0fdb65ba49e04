---------------------------- MODULE BlockDevice ----------------------------
(***************************************************************************)
(* What a caller of usbh_msc_scsi_read10 and usbh_msc_scsi_write10 is      *)
(* promised of the medium: a call that returns 0 has read what the blocks  *)
(* hold, or has left its data in them; a call that returns an error may    *)
(* have written some of its blocks and may still write the others, but no  *)
(* call returns 0 before that is over; and no other block ever changes.    *)
(***************************************************************************)
EXTENDS Integers, Sequences

CONSTANTS Blocks, Commands

VARIABLES disk,   (* what the blocks hold                                  *)
          call,   (* the call under way, or NoCall                         *)
          late,   (* a write that goes on after its call gave up, or NoCall *)
          reply,  (* what the last call returned                           *)
          got     (* what a read that returned 0 got                       *)

vars == <<disk, call, late, reply, got>>

NoCall == [op |-> "idle", lba |-> 0, n |-> 0, ver |-> 0]
Range(c) == c.lba .. c.lba + c.n - 1
Data(c) == [i \in 1 .. c.n |-> <<c.ver, i>>]

\* One step puts some of the data of c into its blocks.
Writes(c) == /\ DOMAIN disk' = DOMAIN disk
             /\ \A s \in DOMAIN disk : \/ disk'[s] = disk[s]
                                       \/ /\ c.op = "write" /\ s \in Range(c)
                                          /\ disk'[s] = Data(c)[s - c.lba + 1]

Init ==
    /\ disk = [s \in 0 .. Blocks - 1 |-> <<0, s + 1>>]
    /\ call = NoCall /\ late = NoCall /\ reply = "none" /\ got = <<>>

Call == /\ call = NoCall
        /\ call' \in Commands \ {NoCall} /\ reply' = "none" /\ got' = <<>>
        /\ UNCHANGED <<disk, late>>

Write == Writes(call) /\ UNCHANGED <<call, late, reply, got>>

LateWrite == Writes(late) /\ late' \in {late, NoCall} /\ UNCHANGED <<call, reply, got>>

\* The caller looks at something else.
Forget == /\ <<reply', got'>> \in {<<reply, got>>, <<"none", <<>>>>}
          /\ late' \in {late, NoCall}
          /\ UNCHANGED <<disk, call>>

ReturnOk ==
    /\ call # NoCall /\ late = NoCall
    /\ call.op \in {"read", "write"} => Range(call) \subseteq DOMAIN disk
    /\ call.op = "write" => \A s \in Range(call) : disk[s] = Data(call)[s - call.lba + 1]
    /\ got' = IF call.op = "read" THEN [i \in 1 .. call.n |-> disk[call.lba + i - 1]] ELSE <<>>
    /\ call' = NoCall /\ reply' = "ok"
    /\ UNCHANGED <<disk, late>>

ReturnError ==
    /\ call # NoCall
    /\ call' = NoCall /\ reply' = "error" /\ got' = <<>>
    /\ late' \in {late, NoCall, call}
    /\ UNCHANGED disk

Next == Call \/ Write \/ LateWrite \/ Forget \/ ReturnOk \/ ReturnError
Spec == Init /\ [][Next]_vars
=============================================================================
