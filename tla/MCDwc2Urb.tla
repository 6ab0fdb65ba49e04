----------------------------- MODULE MCDwc2Urb -----------------------------
(* The requests of a control pipe, a class's bulk pipes and an interrupt   *)
(* pipe, by name.                                                          *)
EXTENDS Dwc2Urb

KindOf(u) == CASE u = "get"   -> "ctlin"  [] u = "set"  -> "ctlout"
               [] u = "feature" -> "ctl0" [] u = "read" -> "bulkin"
               [] u = "write" -> "bulkout" [] OTHER     -> "intin"
Kinds == [u \in Urb |-> KindOf(u)]

AllEvents == {"xfrc", "short", "nak", "ack", "nyet", "stall", "io"}
Plain     == {"xfrc", "stall"}

\* Bound: after a completion that came too late nothing is promised.
NotStale == ~past.stale
=============================================================================
