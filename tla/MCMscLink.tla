----------------------------- MODULE MCMscLink -----------------------------
(* Instances of MscLink for TLC. *)
EXTENDS MscLink

Call(op, lba, n, ver) == [op |-> op, lba |-> lba, n |-> n, ver |-> ver]

\* Calls of one chunk and of two, that overlap, a write past the end, one of no
\* block and one command that is not served.
UserCallsMC == {Call("read", 0, 3, 0), Call("read", 1, 1, 0), Call("write", 1, 3, 3),
                Call("write", 0, 3, 1), Call("write", 1, 2, 2),
                Call("write", 0, 0, 1), Call("other", 0, 1, 0)}
=============================================================================
