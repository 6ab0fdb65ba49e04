----------------------------- MODULE UsbdDevice -----------------------------
(***************************************************************************)
(* src/core/usbd_core.c, the device behind the control pipe: the standard  *)
(* requests that change state and the bus events.  Each runs to its end in *)
(* the interrupt handler, so each is one step; UsbdEp0 models how the      *)
(* request got there and how its answer goes back.  Requests that only     *)
(* report (GET_STATUS, GET_CONFIGURATION, GET_INTERFACE, the descriptors   *)
(* but the configuration's) change nothing and are left out.               *)
(* External: the driver's endpoints, as in usb_dc_dwc2.c: open keeps a     *)
(* stall, close and a bus reset clear everything.                          *)
(***************************************************************************)
EXTENDS Integers

CONSTANTS Intf,       (* the registered interfaces                         *)
          Alternates, (* <<interface, alternate>> with a descriptor        *)
          Descs,      (* the endpoint descriptors, in order                *)
          Selectable, (* bound: the <<interface, alternate>> a host selects *)
          Outcomes,   (* the sets of endpoints usbd_ep_open may succeed for *)
          Config,     (* bConfigurationValue                               *)
          WakeupBit,  (* bmAttributes has USB_CONFIG_REMOTE_WAKEUP         *)
          MaxAddress  (* bound: the largest address a host assigns         *)

Endpoint == {Descs[k].ep : k \in DOMAIN Descs}
Setting  == {p[2] : p \in Alternates \cup Selectable}

ASSUME DeviceAssumption ==
    /\ \A k \in DOMAIN Descs : <<Descs[k].intf, Descs[k].alt>> \in Alternates
    /\ Selectable \subseteq Intf \X Nat
    /\ \A i \in Intf : <<i, 0>> \in Alternates
    /\ Config \in Nat \ {0} /\ MaxAddress \in Nat /\ WakeupBit \in BOOLEAN

VARIABLES address, configuration,   (* core.device_address, .configuration *)
          alt,        (* core.intf_altsetting                              *)
          support, enabled, suspended,  (* core.remote_wakeup_support,     *)
                      (* .remote_wakeup_enabled, .is_suspend               *)
          opened, halted,   (* driver: the endpoints open, and stalled     *)
          view,       (* the last event each interface's class driver got  *)
          chosen,     (* history: the alternate the host last selected     *)
                      (* since it configured the device                    *)
          refused,    (* history: the endpoints the driver did not open    *)
                      (* when the core last asked                          *)
          zeroed      (* history: the interfaces whose alternate 0 was     *)
                      (* selected by a SET_INTERFACE of its own            *)

powerVars == <<support, enabled, suspended>>
epVars    == <<opened, halted>>
history   == <<chosen, refused, zeroed>>
vars == <<address, configuration, alt, powerVars, epVars, view, history>>

Init ==
    /\ address = 0 /\ configuration = 0
    /\ alt = [i \in Intf |-> 0] /\ chosen = [i \in Intf |-> 0]
    /\ support = FALSE /\ enabled = FALSE /\ suspended = FALSE
    /\ opened = {} /\ halted = {} /\ refused = {} /\ zeroed = {}
    /\ view = [i \in Intf |-> "init"]

\* usbd_class_event_notify_handler without an argument: every interface.
Notify(event) == view' = [i \in Intf |-> event]

EndpointsOf(i, a) ==
    {Descs[k].ep : k \in {d \in DOMAIN Descs : Descs[d].intf = i /\ Descs[d].alt = a}}

-----------------------------------------------------------------------------
(* usbd_std_device_req_handler.                                            *)

SetAddress(value) ==
    /\ address' = value
    /\ UNCHANGED <<configuration, alt, powerVars, epVars, view, history>>

\* GET_DESCRIPTOR of the configuration notes what its attributes support.
GetConfigDescriptor ==
    /\ support' = WakeupBit
    /\ UNCHANGED <<address, configuration, alt, enabled, suspended, epVars, view, history>>

RemoteWakeupFeature(set) ==
    /\ enabled' = set
    /\ UNCHANGED <<address, configuration, alt, support, suspended, epVars, view, history>>

SetConfigurationZero ==
    /\ configuration' = 0
    /\ UNCHANGED <<address, alt, powerVars, epVars, view, history>>

\* usbd_set_configuration opens the endpoints of every alternate 0 and
\* returns what opening the last one of them returned.
ZeroAt == {k \in DOMAIN Descs : Descs[k].alt = 0}
ZeroEndpoints == {Descs[k].ep : k \in ZeroAt}
ConfigFound(ok) == \A k \in ZeroAt : (\A j \in ZeroAt : j <= k) => Descs[k].ep \in ok

\* usbd_set_endpoint for each of a set of endpoints.
Opens(all, ok) ==
    /\ opened' = opened \cup (all \cap ok)
    /\ refused' = (refused \ all) \cup (all \ ok)

SetConfiguration(ok) ==
    /\ Opens(ZeroEndpoints, ok)
    /\ \/ /\ ConfigFound(ok)
          /\ configuration' = Config /\ suspended' = FALSE
          /\ chosen' = [i \in Intf |-> 0] /\ zeroed' = {}
          /\ Notify("configured")
       \/ /\ ~ConfigFound(ok)
          /\ UNCHANGED <<configuration, suspended, chosen, zeroed, view>>
    /\ UNCHANGED <<address, alt, support, enabled, halted>>

-----------------------------------------------------------------------------
(* usbd_std_interface_req_handler and usbd_std_endpoint_req_handler.       *)

IsConfigured == configuration # 0

\* Faulty variant: every interface's endpoints are closed.
ClosedBySettingAll(i) == Endpoint

ClosedBySetting(i) == UNION {EndpointsOf(i, b) : b \in Setting}

\* usbd_set_interface: alternate 0 closes every endpoint of the interface,
\* another one opens its own.  The result is ignored: a setting without a
\* descriptor is accepted, and then every class driver is told.
SetInterface(i, a, ok) ==
    /\ IsConfigured
    /\ alt' = [alt EXCEPT ![i] = a] /\ chosen' = [chosen EXCEPT ![i] = a]
    /\ \/ /\ a = 0 /\ zeroed' = zeroed \cup {i}
          /\ opened' = opened \ ClosedBySetting(i) /\ halted' = halted \ ClosedBySetting(i)
          /\ UNCHANGED refused
       \/ /\ a # 0 /\ zeroed' = zeroed \ {i}
          /\ Opens(EndpointsOf(i, a), ok) /\ UNCHANGED halted
    /\ IF <<i, a>> \in Alternates
       THEN view' = [view EXCEPT ![i] = "alternate"]
       ELSE Notify("alternate")
    /\ UNCHANGED <<address, configuration, powerVars>>

EndpointHalt(e, set) ==
    /\ IsConfigured
    /\ halted' = IF set THEN halted \cup {e} ELSE halted \ {e}
    /\ UNCHANGED <<address, configuration, alt, powerVars, opened, view, history>>

-----------------------------------------------------------------------------
(* The usbd_event handlers.                                                *)

\* Faulty variant: a reset that keeps the configuration.
ResetKeepsConfiguration ==
    /\ address' = 0
    /\ opened' = {} /\ halted' = {}
    /\ Notify("reset")
    /\ UNCHANGED <<configuration, alt, powerVars, history>>

\* The driver has closed everything; the core reopens only EP0 and keeps
\* intf_altsetting, remote_wakeup_enabled and is_suspend.
Reset ==
    /\ address' = 0 /\ configuration' = 0
    /\ opened' = {} /\ halted' = {}
    /\ Notify("reset")
    /\ UNCHANGED <<alt, powerVars, history>>

Suspend ==
    /\ address > 0
    /\ suspended' = TRUE
    /\ UNCHANGED <<address, configuration, alt, support, enabled, epVars, view, history>>

Resume ==
    /\ suspended' = FALSE
    /\ UNCHANGED <<address, configuration, alt, support, enabled, epVars, view, history>>

\* Class drivers are not told of a disconnect.
Disconnect ==
    /\ configuration' = 0
    /\ UNCHANGED <<address, alt, powerVars, epVars, view, history>>

\* usbd_send_remote_wakeup: the host answers the signal with a resume.
SendRemoteWakeup == support /\ enabled /\ suspended /\ Resume

Next ==
    \/ \E value \in 0 .. MaxAddress : SetAddress(value)
    \/ GetConfigDescriptor
    \/ \E set \in BOOLEAN : RemoteWakeupFeature(set)
    \/ SetConfigurationZero
    \/ \E ok \in Outcomes :
         SetConfiguration(ok) \/ \E p \in Selectable : SetInterface(p[1], p[2], ok)
    \/ \E e \in Endpoint, set \in BOOLEAN : EndpointHalt(e, set)
    \/ Reset \/ Suspend \/ Resume \/ Disconnect
    \/ SendRemoteWakeup

Spec == Init /\ [][Next]_vars

-----------------------------------------------------------------------------
(* Properties.                                                             *)

\* The values of the variables.
TypeOK ==
    /\ address \in 0 .. MaxAddress /\ configuration \in {0, Config}
    /\ alt \in [Intf -> Setting] /\ chosen \in [Intf -> Setting]
    /\ support \in BOOLEAN /\ enabled \in BOOLEAN /\ suspended \in BOOLEAN
    /\ opened \subseteq Endpoint /\ halted \subseteq Endpoint
    /\ refused \subseteq Endpoint /\ zeroed \subseteq Intf
    /\ view \in [Intf -> {"init", "reset", "configured", "alternate"}]

\* No two interfaces of a configuration share an endpoint (USB 2.0, 9.6.5).
OwnEndpoints == \A k, l \in DOMAIN Descs : Descs[k].ep = Descs[l].ep => Descs[k].intf = Descs[l].intf

\* While the device is configured the endpoints of the alternate the host
\* selected are open, whatever it selected before and for the other interfaces,
\* but for those the driver refused, and those of an alternate 0 selected by a
\* SET_INTERFACE of its own (usbd_set_configuration tells only of the last open;
\* usbd_set_interface closes alternate 0 and does not open it).
SelectedAreOpen ==
    configuration # 0 =>
        \A i \in Intf \ zeroed : EndpointsOf(i, chosen[i]) \subseteq opened \cup refused

\* A class driver of a configured device has been told so since the last
\* bus reset, in whatever order resets, disconnects and requests come.
ClassInformed ==
    configuration # 0 => \A i \in Intf : view[i] \in {"configured", "alternate"}

=============================================================================
