-------------------------- MODULE UsbdDeviceProofs --------------------------
(***************************************************************************)
(* Proofs about UsbdDevice, for any descriptors, requests and bus events:  *)
(* the types; that class drivers are informed; and that the endpoints of   *)
(* the selected alternates are open.                                       *)
(***************************************************************************)
EXTENDS UsbdDevice, TLAPS

\* The order in which Next offers its actions.
LEMMA Steps ==
    ASSUME Next
    PROVE  \/ \E value \in 0 .. MaxAddress : SetAddress(value)
           \/ GetConfigDescriptor \/ SetConfigurationZero \/ Suspend \/ Resume
           \/ \E set \in BOOLEAN : RemoteWakeupFeature(set)
           \/ \E ok \in Outcomes : SetConfiguration(ok)
           \/ \E ok \in Outcomes, p \in Selectable : SetInterface(p[1], p[2], ok)
           \/ \E e \in Endpoint, set \in BOOLEAN : EndpointHalt(e, set)
           \/ Reset \/ Disconnect
BY DEF Next, SendRemoteWakeup

LEMMA SelectableParts ==
    ASSUME NEW p \in Selectable
    PROVE  p[1] \in Intf /\ p[2] \in Setting
BY DeviceAssumption DEF Setting

LEMMA EndpointSets ==
    /\ ZeroEndpoints \subseteq Endpoint
    /\ \A i, a : EndpointsOf(i, a) \subseteq Endpoint
    /\ \A i \in Intf : EndpointsOf(i, 0) \subseteq ZeroEndpoints
BY DEF ZeroEndpoints, ZeroAt, EndpointsOf, Endpoint

LEMMA ZeroIsSetting == \A i \in Intf : 0 \in Setting
<1> SUFFICES ASSUME NEW i \in Intf PROVE 0 \in Setting
  OBVIOUS
<1>1. <<i, 0>> \in Alternates \cup Selectable /\ <<i, 0>>[2] = 0
  BY DeviceAssumption
<1> QED BY <1>1 DEF Setting

LEMMA TypesInit == Init => TypeOK
<1> SUFFICES ASSUME Init PROVE TypeOK
  OBVIOUS
<1>1. alt \in [Intf -> Setting] /\ chosen \in [Intf -> Setting]
  BY ZeroIsSetting DEF Init
<1>2. view \in [Intf -> {"init", "reset", "configured", "alternate"}]
  BY DEF Init
<1>3. address \in 0 .. MaxAddress
  BY DeviceAssumption DEF Init
<1>4. configuration \in {0, Config} /\ opened \subseteq Endpoint /\ halted \subseteq Endpoint
      /\ support \in BOOLEAN /\ enabled \in BOOLEAN /\ suspended \in BOOLEAN
      /\ refused \subseteq Endpoint /\ zeroed \subseteq Intf
  BY DEF Init
<1> QED BY <1>1, <1>2, <1>3, <1>4 DEF TypeOK

LEMMA TypesStep == TypeOK /\ [Next]_vars => TypeOK'
<1> SUFFICES ASSUME TypeOK, [Next]_vars PROVE TypeOK'
  OBVIOUS
<1>1. ASSUME NEW value \in 0 .. MaxAddress, SetAddress(value) PROVE TypeOK'
  BY <1>1 DEF SetAddress, TypeOK, powerVars, epVars, history
<1>2. CASE GetConfigDescriptor
  BY <1>2, DeviceAssumption DEF GetConfigDescriptor, TypeOK, epVars, history
<1>3. CASE SetConfigurationZero \/ Disconnect
  BY <1>3 DEF SetConfigurationZero, Disconnect, TypeOK, powerVars, epVars, history
<1>4. CASE Suspend \/ Resume
  BY <1>4 DEF Suspend, Resume, TypeOK, epVars, history
<1>5. ASSUME NEW set \in BOOLEAN, RemoteWakeupFeature(set) PROVE TypeOK'
  BY <1>5 DEF RemoteWakeupFeature, TypeOK, epVars, history
<1>6. ASSUME NEW ok \in Outcomes, SetConfiguration(ok) PROVE TypeOK'
  <2>1. opened' \subseteq Endpoint /\ refused' \subseteq Endpoint
    BY <1>6, EndpointSets DEF SetConfiguration, Opens, TypeOK
  <2>2. /\ configuration' \in {0, Config} /\ suspended' \in BOOLEAN
        /\ chosen' \in [Intf -> Setting] /\ zeroed' \subseteq Intf
        /\ view' \in [Intf -> {"init", "reset", "configured", "alternate"}]
    BY <1>6, ZeroIsSetting DEF SetConfiguration, Notify, TypeOK
  <2> QED BY <1>6, <2>1, <2>2 DEF SetConfiguration, TypeOK
<1>7. ASSUME NEW ok \in Outcomes, NEW p \in Selectable, SetInterface(p[1], p[2], ok)
      PROVE  TypeOK'
  <2>1. p[1] \in Intf /\ p[2] \in Setting
    BY SelectableParts
  <2>2. alt' \in [Intf -> Setting] /\ chosen' \in [Intf -> Setting]
    BY <1>7, <2>1 DEF SetInterface, TypeOK
  <2>3. /\ opened' \subseteq Endpoint /\ halted' \subseteq Endpoint
        /\ refused' \subseteq Endpoint /\ zeroed' \subseteq Intf
    BY <1>7, <2>1, EndpointSets DEF SetInterface, Opens, TypeOK
  <2>4. view' \in [Intf -> {"init", "reset", "configured", "alternate"}]
    BY <1>7, <2>1 DEF SetInterface, Notify, TypeOK
  <2> QED BY <1>7, <2>2, <2>3, <2>4 DEF SetInterface, TypeOK, powerVars
<1>8. ASSUME NEW e \in Endpoint, NEW set \in BOOLEAN, EndpointHalt(e, set) PROVE TypeOK'
  BY <1>8 DEF EndpointHalt, TypeOK, powerVars, history
<1>9. CASE Reset
  BY <1>9, DeviceAssumption DEF Reset, Notify, TypeOK, powerVars, history
<1>10. CASE UNCHANGED vars
  BY <1>10 DEF vars, TypeOK, powerVars, epVars, history
<1> QED
  BY <1>1, <1>2, <1>3, <1>4, <1>5, <1>6, <1>7, <1>8, <1>9, <1>10, Steps

\* The core's fields, the endpoints of the driver and what the class drivers
\* were told keep their types.
THEOREM DeviceTypes == Spec => []TypeOK
BY TypesInit, TypesStep, PTL DEF Spec

-----------------------------------------------------------------------------
LEMMA InformedStep == TypeOK /\ ClassInformed /\ [Next]_vars => ClassInformed'
<1> SUFFICES ASSUME TypeOK, ClassInformed, [Next]_vars PROVE ClassInformed'
  OBVIOUS
<1>1. CASE UNCHANGED <<configuration, view>>
  BY <1>1 DEF ClassInformed
<1>2. CASE configuration' = 0
  BY <1>2 DEF ClassInformed
<1>3. ASSUME NEW ok \in Outcomes, SetConfiguration(ok) PROVE ClassInformed'
  BY <1>3 DEF SetConfiguration, Notify, ClassInformed
<1>4. ASSUME NEW ok \in Outcomes, NEW p \in Selectable, SetInterface(p[1], p[2], ok)
      PROVE  ClassInformed'
  <2>1. configuration # 0 /\ configuration' = configuration
    BY <1>4 DEF SetInterface, IsConfigured
  <2>2. \A i \in Intf : view'[i] = "alternate" \/ view'[i] = view[i]
    BY <1>4 DEF SetInterface, Notify, TypeOK
  <2> QED BY <2>1, <2>2 DEF ClassInformed
<1>5. ASSUME NEW value \in 0 .. MaxAddress, SetAddress(value)
      PROVE  UNCHANGED <<configuration, view>>
  BY <1>5 DEF SetAddress
<1>6. ASSUME NEW set \in BOOLEAN, RemoteWakeupFeature(set)
      PROVE  UNCHANGED <<configuration, view>>
  BY <1>6 DEF RemoteWakeupFeature
<1>7. ASSUME NEW e \in Endpoint, NEW set \in BOOLEAN, EndpointHalt(e, set)
      PROVE  UNCHANGED <<configuration, view>>
  BY <1>7 DEF EndpointHalt
<1>8. GetConfigDescriptor \/ Suspend \/ Resume \/ UNCHANGED vars
        => UNCHANGED <<configuration, view>>
  BY DEF GetConfigDescriptor, Suspend, Resume, vars
<1>9. SetConfigurationZero \/ Reset \/ Disconnect => configuration' = 0
  BY DEF SetConfigurationZero, Reset, Disconnect
<1> QED
  BY <1>1, <1>2, <1>3, <1>4, <1>5, <1>6, <1>7, <1>8, <1>9, Steps

\* Whatever resets, disconnects, configurations and settings come and in
\* whatever order, the class drivers of a configured device have been told so
\* since the last bus reset.
THEOREM DeviceClassInformed == Spec => []ClassInformed
<1>1. Init => ClassInformed
  BY DEF Init, ClassInformed
<1> QED BY <1>1, InformedStep, DeviceTypes, PTL DEF Spec

-----------------------------------------------------------------------------
\* A setting of one interface leaves the endpoints of the others alone.
LEMMA Disjoint ==
    ASSUME OwnEndpoints, NEW i, NEW j, i # j, NEW a, NEW b
    PROVE  EndpointsOf(i, a) \cap EndpointsOf(j, b) = {}
BY DEF OwnEndpoints, EndpointsOf

LEMMA SelectedStep ==
    ASSUME OwnEndpoints, TypeOK, SelectedAreOpen, [Next]_vars
    PROVE  SelectedAreOpen'
<1>1. CASE UNCHANGED <<configuration, chosen, opened, refused, zeroed>>
  BY <1>1 DEF SelectedAreOpen
<1>2. CASE configuration' = 0
  BY <1>2 DEF SelectedAreOpen
<1>3. ASSUME NEW ok \in Outcomes, SetConfiguration(ok) PROVE SelectedAreOpen'
  <2>1. /\ opened' = opened \cup (ZeroEndpoints \cap ok)
        /\ refused' = (refused \ ZeroEndpoints) \cup (ZeroEndpoints \ ok)
    BY <1>3 DEF SetConfiguration, Opens
  <2>2. CASE ConfigFound(ok)
    <3>1. ZeroEndpoints \subseteq opened' \cup refused' /\ chosen' = [i \in Intf |-> 0]
      BY <1>3, <2>1, <2>2 DEF SetConfiguration
    <3> QED BY <3>1, EndpointSets DEF SelectedAreOpen
  <2>3. CASE ~ConfigFound(ok)
    <3>1. opened \cup refused \subseteq opened' \cup refused'
      BY <2>1
    <3> QED BY <1>3, <2>3, <3>1 DEF SetConfiguration, SelectedAreOpen
  <2> QED BY <2>2, <2>3
<1>4. ASSUME NEW ok \in Outcomes, NEW p \in Selectable, SetInterface(p[1], p[2], ok)
      PROVE  SelectedAreOpen'
  <2> SUFFICES ASSUME NEW j \in Intf, j \notin zeroed'
               PROVE  EndpointsOf(j, chosen'[j]) \subseteq opened' \cup refused'
    BY DEF SelectedAreOpen
  <2>1. /\ configuration # 0 /\ chosen' = [chosen EXCEPT ![p[1]] = p[2]]
        /\ p[1] \in Intf
    BY <1>4, SelectableParts DEF SetInterface, IsConfigured
  <2>2. CASE j = p[1]
    <3>1. chosen'[j] = p[2] /\ p[2] # 0
      BY <1>4, <2>1, <2>2 DEF TypeOK, SetInterface
    <3>2. Opens(EndpointsOf(p[1], p[2]), ok)
      BY <1>4, <3>1 DEF SetInterface
    <3> QED BY <2>2, <3>1, <3>2 DEF Opens
  <2>3. CASE j # p[1]
    <3>1. chosen'[j] = chosen[j] /\ j \notin zeroed
      BY <1>4, <2>1, <2>3 DEF TypeOK, SetInterface
    <3>2. EndpointsOf(j, chosen[j]) \subseteq opened \cup refused
      BY <2>1, <3>1 DEF SelectedAreOpen
    <3>3. CASE p[2] = 0
      <4>1. opened' = opened \ ClosedBySetting(p[1]) /\ refused' = refused
        BY <1>4, <3>3 DEF SetInterface
      <4>2. EndpointsOf(j, chosen[j]) \cap ClosedBySetting(p[1]) = {}
        BY <2>3, Disjoint DEF ClosedBySetting
      <4> QED BY <3>1, <3>2, <4>1, <4>2
    <3>4. CASE p[2] # 0
      <4>1. Opens(EndpointsOf(p[1], p[2]), ok)
        BY <1>4, <3>4 DEF SetInterface
      <4> QED BY <3>1, <3>2, <4>1 DEF Opens
    <3> QED BY <3>3, <3>4
  <2> QED BY <2>2, <2>3
<1>5. ASSUME NEW value \in 0 .. MaxAddress, SetAddress(value)
      PROVE  UNCHANGED <<configuration, chosen, opened, refused, zeroed>>
  BY <1>5 DEF SetAddress, epVars, history
<1>6. ASSUME NEW set \in BOOLEAN, RemoteWakeupFeature(set)
      PROVE  UNCHANGED <<configuration, chosen, opened, refused, zeroed>>
  BY <1>6 DEF RemoteWakeupFeature, epVars, history
<1>7. ASSUME NEW e \in Endpoint, NEW set \in BOOLEAN, EndpointHalt(e, set)
      PROVE  UNCHANGED <<configuration, chosen, opened, refused, zeroed>>
  BY <1>7 DEF EndpointHalt, history
<1>8. GetConfigDescriptor \/ Suspend \/ Resume \/ UNCHANGED vars
        => UNCHANGED <<configuration, chosen, opened, refused, zeroed>>
  BY DEF GetConfigDescriptor, Suspend, Resume, vars, epVars, history
<1>9. SetConfigurationZero \/ Reset \/ Disconnect => configuration' = 0
  BY DEF SetConfigurationZero, Reset, Disconnect
<1> QED
  BY <1>1, <1>2, <1>3, <1>4, <1>5, <1>6, <1>7, <1>8, <1>9, Steps

\* For every descriptor set in which no two interfaces share an endpoint, every
\* outcome of every open, and requests and bus events in every order: while the
\* device is configured the endpoints of the selected alternates are open, but
\* for those the driver refused and those of an alternate 0 that a
\* SET_INTERFACE selected.
THEOREM DeviceSelectedAreOpen == ASSUME OwnEndpoints PROVE Spec => []SelectedAreOpen
<1>1. Init => SelectedAreOpen
  BY DEF Init, SelectedAreOpen
<1>2. TypeOK /\ SelectedAreOpen /\ [Next]_vars => SelectedAreOpen'
  BY SelectedStep
<1> QED BY <1>1, <1>2, DeviceTypes, PTL DEF Spec
=============================================================================
