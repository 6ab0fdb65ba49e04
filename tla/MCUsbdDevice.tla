---------------------------- MODULE MCUsbdDevice ----------------------------
(* A control interface with an interrupt endpoint and a streaming one whose *)
(* alternate 0 has an endpoint that alternate 1 has too; any endpoint may   *)
(* fail to open.                                                            *)
EXTENDS UsbdDevice

Desc(i, a, e) == [intf |-> i, alt |-> a, ep |-> e]

StreamAlternates == {<<0, 0>>, <<1, 0>>, <<1, 1>>}
StreamSelectable == {<<0, 0>>, <<1, 0>>, <<1, 1>>}
StreamDescs == <<Desc(0, 0, "intIn"), Desc(1, 0, "ctlIn"), Desc(1, 1, "ctlIn"), Desc(1, 1, "isoIn")>>
StreamOutcomes == SUBSET {"intIn", "ctlIn", "isoIn"}

ASSUME StreamAssumption == OwnEndpoints
=============================================================================
