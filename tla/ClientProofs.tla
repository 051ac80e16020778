---------------------------- MODULE ClientProofs ----------------------------
(***************************************************************************)
(* Proofs about the client's settings, its window, its capture dialog and  *)
(* what its other dialogs take apart and put together again, for any       *)
(* servers, names, lists, datagrams and sets of dialogs.                   *)
(***************************************************************************)
EXTENDS ClientDialogs, SequenceTheorems, WellFoundedInduction, TLAPS

Fields == {"IsStart", "Server", "Domains", "Devices", "Protocols"}

\* The settings and the file have their parts, whatever is in them.
Shaped ==
  /\ DOMAIN settings = Fields
  /\ DOMAIN config = {"Controller", "Servers"}
  /\ DOMAIN config.Controller = Fields

SettingsInv == Shaped /\ WindowCurrent /\ SavedUnlessTold

\* No other dialog has left the button as a running capture has it.
CaptureInv == CaptureShown /\ (dialog # "capture" => button = "start")

IInv == SettingsInv /\ CaptureInv

LEMMA InitIInv == Init => IInv
<1> SUFFICES ASSUME Init PROVE IInv
  OBVIOUS
<1>1. Shaped
  BY DEF Init, ControllerInit, FirstSettings, Shaped, Fields
<1>2. WindowCurrent /\ SavedUnlessTold
  BY DEF Init, ControllerInit, FirstSettings, WindowCurrent, SavedUnlessTold
<1>3. CaptureInv
  BY DEF Init, ControllerInit, NothingShown, CaptureInv, CaptureShown
<1> QED
  BY <1>1, <1>2, <1>3 DEF IInv, SettingsInv

-----------------------------------------------------------------------------
(* The settings *)

LEMMA UntouchedKeeps ==
  ASSUME SettingsInv, UNCHANGED <<settings, config, window, unsaved>>
  PROVE  SettingsInv'
BY DEF SettingsInv, Shaped, WindowCurrent, SavedUnlessTold, View

\* A setter that writes: `file' differs from config.ini in its servers at most.
LEMMA SetFieldKeeps ==
  ASSUME SettingsInv, NEW file, NEW field, NEW value, SetField(file, field, value),
         DOMAIN file = DOMAIN config, file.Controller = config.Controller
  PROVE  SettingsInv'
<1>1. CASE settings[field] = value
  BY <1>1 DEF SetField, SettingsInv, Shaped, WindowCurrent, SavedUnlessTold, View
<1>2. CASE settings[field] # value
  <2>1. /\ settings' = [settings EXCEPT ![field] = value]
        /\ config' = [file EXCEPT !.Controller = settings']
        /\ unsaved' = {}
        /\ window' = View(settings')
    BY <1>2 DEF SetField, WriteConfig, EmitChanged
  <2>2. DOMAIN settings' = Fields /\ DOMAIN config' = {"Controller", "Servers"}
    BY <2>1 DEF SettingsInv, Shaped
  <2>3. config'.Controller = settings'
    BY <2>1 DEF SettingsInv, Shaped
  <2> QED
    BY <2>1, <2>2, <2>3 DEF SettingsInv, Shaped, WindowCurrent, SavedUnlessTold
<1> QED
  BY <1>1, <1>2

LEMMA SetDeviceListKeeps ==
  ASSUME SettingsInv, NEW devices, SetDeviceList(devices)
  PROVE  SettingsInv'
<1>1. /\ settings' = [settings EXCEPT !.Devices = devices]
      /\ "devices" \in unsaved'
      /\ \A r \in Reasons : r \in unsaved => r \in unsaved'
      /\ UNCHANGED <<config, window>>
  BY DEF SetDeviceList
<1>2. /\ DOMAIN settings' = Fields
      /\ \A f \in Fields : f # "Devices" => settings'[f] = settings[f]
  BY <1>1 DEF SettingsInv, Shaped
<1> QED
  BY <1>1, <1>2 DEF SettingsInv, Shaped, Fields, Reasons, WindowCurrent, SavedUnlessTold, View

LEMMA ReadDatagramKeeps ==
  ASSUME SettingsInv, NEW start, NEW server, ReadDatagram(start, server)
  PROVE  SettingsInv'
<1>1. /\ settings' = [settings EXCEPT !.IsStart = start, !.Server = server]
      /\ "told" \in unsaved'
      /\ \A r \in Reasons : r \in unsaved => r \in unsaved'
      /\ window' = View(settings')
      /\ UNCHANGED config
  BY DEF ReadDatagram, EmitChanged
<1>2. /\ DOMAIN settings' = Fields
      /\ \A f \in Fields : f \notin {"IsStart", "Server"} => settings'[f] = settings[f]
  BY <1>1 DEF SettingsInv, Shaped
<1> QED
  BY <1>1, <1>2 DEF SettingsInv, Shaped, Fields, Reasons, WindowCurrent, SavedUnlessTold

LEMMA ReadBlankKeeps ==
  ASSUME SettingsInv, ReadBlank
  PROVE  SettingsInv'
<1>1. /\ settings' = [f \in DOMAIN settings |->
                        IF f \in Lists THEN settings[f] \o config.Controller[f]
                                       ELSE config.Controller[f]]
      /\ "blank" \in unsaved'
      /\ window' = View(settings')
      /\ UNCHANGED config
  BY DEF ReadBlank, EmitChanged
<1>2. /\ DOMAIN settings' = Fields
      /\ \A f \in {"IsStart", "Server"} : settings'[f] = config.Controller[f]
  BY <1>1 DEF SettingsInv, Shaped, Fields, Lists
<1> QED
  BY <1>1, <1>2 DEF SettingsInv, Shaped, WindowCurrent, SavedUnlessTold

LEMMA StartAgainKeeps ==
  ASSUME SettingsInv, StartAgain
  PROVE  SettingsInv'
BY DEF StartAgain, SettingsInv, Shaped, WindowCurrent, SavedUnlessTold

-----------------------------------------------------------------------------
(* The steps of the event loop *)

\* Everything that leaves the settings alone and does not touch the capture.
Widgets ==
  \/ Reject
  \/ OpenDomains \/ AddDomain \/ EditDomain \/ DeleteRow("domains")
  \/ OpenDevices \/ AddDevice \/ EditDevice \/ DeleteRow("devices")
  \/ OpenServers \/ AddServer \/ EditServer \/ TickServer \/ DeleteServer
  \/ OpenProtocols \/ TickProtocol
  \/ OpenCapture \/ CaptureItem

LEMMA WidgetsKeep == IInv /\ Widgets => IInv'
<1> SUFFICES ASSUME IInv, Widgets PROVE IInv'
  OBVIOUS
<1>1. ASSUME NEW kind, kind # "none", Open(kind), button' = button
      PROVE  UNCHANGED controllerVars /\ CaptureInv'
  BY <1>1 DEF Open, controllerVars, IInv, CaptureInv, CaptureShown
<1>2. ASSUME NEW kind, Edit(kind)
      PROVE  UNCHANGED controllerVars /\ CaptureInv'
  BY <1>2 DEF Edit, controllerVars, IInv, CaptureInv, CaptureShown
<1>3. CASE Reject \/ DeleteServer \/ CaptureItem
  <2>1. UNCHANGED controllerVars /\ CaptureInv'
    BY <1>3 DEF Reject, Close, DeleteServer, CaptureItem, controllerVars, IInv, CaptureInv,
         CaptureShown
  <2> QED
    BY <2>1, UntouchedKeeps DEF IInv, controllerVars
<1>4. CASE OpenDomains \/ OpenDevices \/ OpenServers \/ OpenProtocols \/ OpenCapture
  <2>1. UNCHANGED controllerVars /\ CaptureInv'
    BY <1>1, <1>4 DEF OpenDomains, OpenDevices, OpenList, OpenServers, OpenProtocols, OpenCapture
  <2> QED
    BY <2>1, UntouchedKeeps DEF IInv, controllerVars
<1>5. CASE \/ AddDomain \/ EditDomain \/ DeleteRow("domains")
           \/ AddDevice \/ EditDevice \/ DeleteRow("devices")
           \/ AddServer \/ EditServer \/ TickServer \/ TickProtocol
  <2>1. UNCHANGED controllerVars /\ CaptureInv'
    BY <1>2, <1>5 DEF AddDomain, EditDomain, DeleteRow, AddDevice, EditDevice, AddRow, EditRow,
         AddServer, EditServer, TickServer, TickProtocol
  <2> QED
    BY <2>1, UntouchedKeeps DEF IInv, controllerVars
<1> QED
  BY <1>3, <1>4, <1>5 DEF Widgets

LEMMA AcceptKeeps ==
  IInv /\ (AcceptDomains \/ AcceptDevices \/ AcceptServers \/ AcceptProtocols) => IInv'
<1> SUFFICES ASSUME IInv, AcceptDomains \/ AcceptDevices \/ AcceptServers \/ AcceptProtocols
             PROVE  IInv'
  OBVIOUS
<1>1. ASSUME NEW kind, kind # "capture", Accept(kind) PROVE CaptureInv'
  BY <1>1 DEF Accept, Close, IInv, CaptureInv, CaptureShown
<1>2. CaptureInv'
  BY <1>1 DEF AcceptDomains, AcceptDevices, AcceptServers, AcceptProtocols
<1>3. CASE AcceptDomains \/ AcceptProtocols
  BY <1>2, <1>3, SetFieldKeeps DEF AcceptDomains, AcceptProtocols, SetDomainList, SetProtocolList, IInv
<1>4. CASE AcceptDevices
  BY <1>2, <1>4, SetDeviceListKeeps DEF AcceptDevices, IInv
<1>5. CASE AcceptServers
  <2> DEFINE file == [config EXCEPT !.Servers = AllOf(rows, Stored)]
  <2>1. DOMAIN file = DOMAIN config /\ file.Controller = config.Controller
    BY DEF IInv, SettingsInv, Shaped
  <2>2. CASE ticked = 0
    <3>1. config' = file /\ UNCHANGED <<settings, window, unsaved>>
      BY <1>5, <2>2 DEF AcceptServers
    <3> HIDE DEF file
    <3>2. SettingsInv'
      BY <2>1, <3>1 DEF IInv, SettingsInv, Shaped, WindowCurrent, SavedUnlessTold, View
    <3> QED
      BY <1>2, <3>2 DEF IInv
  <2>3. CASE ticked # 0
    <3>1. SetField(file, "Server", Text[rows[ticked]])
      BY <1>5, <2>3 DEF AcceptServers, SetServer
    <3> HIDE DEF file
    <3> QED
      BY <1>2, <2>1, <3>1, SetFieldKeeps DEF IInv
  <2> QED
    BY <2>2, <2>3
<1> QED
  BY <1>3, <1>4, <1>5

LEMMA CaptureKeeps ==
  IInv /\ (CaptureButton \/ CaptureClose \/ CaptureEscape) => IInv'
<1> SUFFICES ASSUME IInv, CaptureButton \/ CaptureClose \/ CaptureEscape PROVE IInv'
  OBVIOUS
<1>1. UNCHANGED <<settings, config, window, unsaved>>
  BY DEF CaptureButton, CaptureClose, CaptureEscape, controllerVars
<1>2. CaptureInv'
  BY DEF CaptureButton, CaptureClose, CaptureEscape, Close, StartCapture, StopCapture,
       controllerVars, IInv, CaptureInv, CaptureShown
<1> QED
  BY <1>1, <1>2, UntouchedKeeps DEF IInv

LEMMA MenuKeeps == IInv /\ Menu => IInv'
<1> SUFFICES ASSUME IInv, Menu PROVE IInv'
  OBVIOUS
<1>1. SettingsInv'
  BY SetFieldKeeps DEF Menu, StartService, StopService, IInv
<1>2. CaptureInv'
  <2>1. UNCHANGED <<IsCapture, dialog, button, escaped>>
    BY DEF Menu, StartService, StopService, dialogVars
  <2> QED
    BY <2>1 DEF IInv, CaptureInv, CaptureShown
<1> QED
  BY <1>1, <1>2 DEF IInv

LEMMA DatagramKeeps == IInv /\ Datagram => IInv'
<1> SUFFICES ASSUME IInv, Datagram PROVE IInv'
  OBVIOUS
<1>1. SettingsInv'
  BY ReadDatagramKeeps, ReadBlankKeeps DEF Datagram, IInv
<1>2. CaptureInv'
  <2>1. UNCHANGED <<IsCapture, dialog, button, escaped>>
    BY DEF Datagram, ReadDatagram, ReadBlank, dialogVars
  <2> QED
    BY <2>1 DEF IInv, CaptureInv, CaptureShown
<1> QED
  BY <1>1, <1>2 DEF IInv

LEMMA RestartKeeps == IInv /\ Restart => IInv'
<1> SUFFICES ASSUME IInv, Restart PROVE IInv'
  OBVIOUS
<1>1. SettingsInv'
  BY StartAgainKeeps DEF Restart, IInv
<1>2. CaptureInv'
  BY DEF Restart, StartAgain, Close, CaptureInv, CaptureShown
<1> QED
  BY <1>1, <1>2 DEF IInv

LEMMA StepKeeps == IInv /\ [Next]_vars => IInv'
<1> SUFFICES ASSUME IInv, [Next]_vars PROVE IInv'
  OBVIOUS
<1>1. CASE UNCHANGED vars
  <2>1. UNCHANGED <<settings, config, window, unsaved>> /\ CaptureInv'
    BY <1>1 DEF vars, controllerVars, dialogVars, IInv, CaptureInv, CaptureShown
  <2> QED
    BY <2>1, UntouchedKeeps DEF IInv
<1>2. CASE Next
  BY <1>2, WidgetsKeep, AcceptKeeps, CaptureKeeps, MenuKeeps, DatagramKeeps, RestartKeeps
     DEF Next, Widgets
<1> QED
  BY <1>1, <1>2

LEMMA Invariance == Spec => []IInv
BY InitIInv, StepKeeps, PTL DEF Spec

-----------------------------------------------------------------------------
(***************************************************************************)
(* Setters emit what they changed, datagrams too, and setDeviceList, which *)
(* emits nothing, changes nothing that is shown: the main window shows the *)
(* settings in force.                                                      *)
(***************************************************************************)
THEOREM WindowStaysCurrent == Spec => []WindowCurrent
<1>1. IInv => WindowCurrent
  BY DEF IInv, SettingsInv
<1> QED
  BY <1>1, Invariance, PTL

(***************************************************************************)
(* config.ini holds the settings in memory at every moment, but for what   *)
(* ReadConfig and setDeviceList have changed since the last WriteConfig.   *)
(***************************************************************************)
THEOREM RestartLosesNoMore == Spec => []SavedUnlessTold
<1>1. IInv => SavedUnlessTold
  BY DEF IInv, SettingsInv
<1> QED
  BY <1>1, Invariance, PTL

(***************************************************************************)
(* The capture dialog offers to stop exactly while the client captures,    *)
(* unless Esc, which sends no closeEvent, has left a capture running.      *)
(***************************************************************************)
THEOREM CaptureStaysShown == Spec => []CaptureShown
<1>1. IInv => CaptureShown
  BY DEF IInv, CaptureInv
<1> QED
  BY <1>1, Invariance, PTL

-----------------------------------------------------------------------------
(* Induction, for what is said of numbers one after the other *)

LEMMA HasLeast ==
  ASSUME NEW S \in SUBSET Nat, S # {}
  PROVE  \E k \in S : \A j \in S : k <= j
<1> DEFINE R == {x \in Nat \X Nat : x[1] < x[2]}
<1>1. IsWellFoundedOn(R, Nat)
  BY NatLessThanWellFounded, Zenon DEF OpToRel
<1>2. PICK x \in S : \A y \in S : ~(<<y, x>> \in R)
  <2> HIDE DEF R
  <2> QED
    BY <1>1, WFMin
<1>3. ASSUME NEW y \in S PROVE x <= y
  <2>1. x \in Nat /\ y \in Nat /\ <<y, x>> \in Nat \X Nat
        /\ <<y, x>>[1] = y /\ <<y, x>>[2] = x
    OBVIOUS
  <2>2. y < x => <<y, x>> \in R
    BY <2>1
  <2>3. ~(y < x)
    BY <1>2, <2>2
  <2> QED
    BY <2>1, <2>3
<1> QED
  BY <1>3

LEMMA Upward ==
  ASSUME NEW n \in Nat, NEW S, 0 \in S, \A m \in 1 .. n : m - 1 \in S => m \in S
  PROVE  \A m \in 0 .. n : m \in S
<1> DEFINE bad == {m \in 0 .. n : m \notin S}
<1> SUFFICES ASSUME bad # {} PROVE FALSE
  OBVIOUS
<1>1. bad \in SUBSET Nat
  OBVIOUS
<1>2. PICK k \in bad : \A j \in bad : k <= j
  BY <1>1, HasLeast
<1>3. k \in 0 .. n /\ k \notin S /\ \A j \in bad : k <= j
  BY <1>2
<1>4. k \in 1 .. n /\ k - 1 \in 0 .. n /\ ~(k <= k - 1)
  BY <1>3
<1>5. k - 1 \in S
  BY <1>3, <1>4
<1> QED
  BY <1>3, <1>4, <1>5

LEMMA HasMost ==
  ASSUME NEW n \in Nat, NEW S \in SUBSET (1 .. n), S # {}
  PROVE  \E k \in S : \A j \in S : j <= k
<1> DEFINE T == {n - j : j \in S}
<1>1. T \in SUBSET Nat /\ T # {}
  <2>1. \A j \in S : n - j \in Nat
    OBVIOUS
  <2> QED
    BY <2>1
<1>2. PICK x \in T : \A y \in T : x <= y
  BY <1>1, HasLeast
<1>3. PICK k \in S : x = n - k
  BY <1>2
<1>4. ASSUME NEW j \in S PROVE j <= k
  <2>1. n - k <= n - j
    BY <1>2, <1>3
  <2> QED
    BY <2>1
<1> QED
  BY <1>4

-----------------------------------------------------------------------------
(* Sequences of sequences, put together *)

\* g[m] is the first m of these sequences, one behind the other.
IsFlat(g, seqs) ==
  g = [i \in 1 .. Len(seqs) |-> IF i = 1 THEN seqs[i] ELSE g[i - 1] \o seqs[i]]

LEMMA FlattenIs ==
  ASSUME NEW seqs, Len(seqs) # 0, \E g : IsFlat(g, seqs)
  PROVE  \E h : IsFlat(h, seqs) /\ FlattenSeq(seqs) = h[Len(seqs)]
BY Zenon DEF FlattenSeq, IsFlat

LEMMA FlatExists ==
  ASSUME NEW E, NEW seqs \in Seq(Seq(E))
  PROVE  \E g : IsFlat(g, seqs)
<1> DEFINE n == Len(seqs)
           Flat(k, g) == /\ g \in [1 .. k -> Seq(E)]
                         /\ \A m \in 1 .. k :
                              g[m] = IF m = 1 THEN seqs[m] ELSE g[m - 1] \o seqs[m]
           S == {k \in 0 .. n : \E g : Flat(k, g)}
<1>1. n \in Nat /\ \A m \in 1 .. n : seqs[m] \in Seq(E)
  OBVIOUS
<1>2. 0 \in S
  <2>1. Flat(0, [m \in 1 .. 0 |-> <<>>])
    OBVIOUS
  <2>2. 0 \in 0 .. n
    BY <1>1
  <2> HIDE DEF Flat
  <2> QED
    BY <2>1, <2>2
<1>3. ASSUME NEW m \in 1 .. n, m - 1 \in S PROVE m \in S
  <2>1. PICK g : Flat(m - 1, g)
    BY <1>3
  <2> DEFINE last == IF m = 1 THEN seqs[m] ELSE g[m - 1] \o seqs[m]
             h == [j \in 1 .. m |-> IF j = m THEN last ELSE g[j]]
  <2>2. last \in Seq(E)
    BY <2>1, <1>1, ConcatProperties
  <2>3. h \in [1 .. m -> Seq(E)]
    <3> HIDE DEF last
    <3> QED
      BY <2>1, <2>2
  <2>4. ASSUME NEW j \in 1 .. m
        PROVE  h[j] = IF j = 1 THEN seqs[j] ELSE h[j - 1] \o seqs[j]
    <3>1. j # 1 => h[j - 1] = g[j - 1]
      OBVIOUS
    <3>2. CASE j = m
      <4>1. h[j] = last
        BY <3>2, Zenon
      <4>2. CASE j = 1
        BY <3>2, <4>1, <4>2
      <4>3. CASE j # 1
        BY <3>1, <3>2, <4>1, <4>3
      <4> QED
        BY <4>2, <4>3
    <3>3. CASE j # m
      <4>1. j \in 1 .. m - 1 /\ h[j] = g[j]
        BY <3>3
      <4>2. g[j] = IF j = 1 THEN seqs[j] ELSE g[j - 1] \o seqs[j]
        BY <4>1, <2>1
      <4> QED
        BY <3>1, <4>1, <4>2
    <3> QED
      BY <3>2, <3>3
  <2>5. Flat(m, h)
    BY <2>3, <2>4
  <2> HIDE DEF Flat, h
  <2> QED
    BY <2>5
<1> HIDE DEF Flat, S
<1>4. n \in S
  <2>1. \A m \in 0 .. n : m \in S
    BY <1>1, <1>2, <1>3, Upward
  <2> QED
    BY <1>1, <2>1
<1>5. PICK g : Flat(n, g)
  BY <1>4 DEF S
<1> QED
  BY <1>5, Zenon DEF Flat, IsFlat

LEMMA FlatTyped ==
  ASSUME NEW E, NEW seqs \in Seq(Seq(E))
  PROVE  FlattenSeq(seqs) \in Seq(E)
<1> DEFINE n == Len(seqs)
<1>1. n \in Nat /\ \A m \in 1 .. n : seqs[m] \in Seq(E)
  OBVIOUS
<1>2. CASE n = 0
  <2>1. FlattenSeq(seqs) = seqs
    BY <1>2, Zenon DEF FlattenSeq
  <2>2. seqs = <<>>
    BY <1>2
  <2> QED
    BY <2>1, <2>2
<1>3. CASE n # 0
  <2>1. \E g : IsFlat(g, seqs)
    BY FlatExists
  <2>2. PICK g : IsFlat(g, seqs) /\ FlattenSeq(seqs) = g[n]
    BY <1>3, <2>1, FlattenIs
  <2>3. \A m \in 1 .. n : g[m] = IF m = 1 THEN seqs[m] ELSE g[m - 1] \o seqs[m]
    <3>1. g = [i \in 1 .. n |-> IF i = 1 THEN seqs[i] ELSE g[i - 1] \o seqs[i]]
      BY <2>2, Zenon DEF IsFlat
    <3> QED
      BY <3>1, Zenon
  <2> DEFINE S == {m \in 0 .. n : m = 0 \/ g[m] \in Seq(E)}
  <2>4. ASSUME NEW m \in 1 .. n, m - 1 \in S PROVE m \in S
    <3>1. CASE m = 1
      BY <1>1, <2>3, <3>1
    <3>2. CASE m # 1
      <4>1. seqs[m] \in Seq(E) /\ g[m] = g[m - 1] \o seqs[m]
        BY <1>1, <2>3, <3>2
      <4>0. g[m - 1] \in Seq(E)
        <5>1. m - 1 # 0
          BY <1>1, <3>2
        <5> QED
          BY <2>4, <5>1
      <4>2. g[m] \in Seq(E)
        BY <4>0, <4>1, ConcatProperties
      <4> QED
        BY <1>1, <4>2
    <3> QED
      BY <3>1, <3>2
  <2>5. 0 \in S
    BY <1>1
  <2> HIDE DEF S
  <2>6. \A m \in 0 .. n : m \in S
    BY <1>1, <2>4, <2>5, Upward
  <2>7. g[n] \in Seq(E)
    BY <1>1, <1>3, <2>6 DEF S
  <2> QED
    BY <2>2, <2>7
<1> QED
  BY <1>2, <1>3

\* One element each: the list comes back.
LEMMA FlatSingles ==
  ASSUME NEW E, NEW list \in Seq(E), NEW seqs, seqs = [i \in 1 .. Len(list) |-> <<list[i]>>]
  PROVE  FlattenSeq(seqs) = list
<1> DEFINE n == Len(list)
<1>1. n \in Nat /\ list = [i \in 1 .. n |-> list[i]] /\ \A i \in 1 .. n : list[i] \in E
  OBVIOUS
<1>2. seqs \in Seq(Seq(E)) /\ Len(seqs) = n /\ \A i \in 1 .. n : seqs[i] = <<list[i]>>
  OBVIOUS
<1>3. CASE n = 0
  <2>1. FlattenSeq(seqs) = seqs
    BY <1>2, <1>3, Zenon DEF FlattenSeq
  <2>2. seqs = <<>> /\ list = <<>>
    BY <1>1, <1>2, <1>3
  <2> QED
    BY <2>1, <2>2
<1>4. CASE n # 0
  <2>1. \E g : IsFlat(g, seqs)
    BY <1>2, FlatExists
  <2>2. PICK g : IsFlat(g, seqs) /\ FlattenSeq(seqs) = g[Len(seqs)]
    BY <1>2, <1>4, <2>1, FlattenIs
  <2>3. \A m \in 1 .. n : g[m] = IF m = 1 THEN seqs[m] ELSE g[m - 1] \o seqs[m]
    <3>1. g = [i \in 1 .. n |-> IF i = 1 THEN seqs[i] ELSE g[i - 1] \o seqs[i]]
      BY <1>2, <2>2, Zenon DEF IsFlat
    <3> QED
      BY <3>1, Zenon
  <2> DEFINE Good(m) == /\ g[m] \in Seq(E) /\ Len(g[m]) = m
                        /\ \A i \in 1 .. m : g[m][i] = list[i]
             S == {m \in 0 .. n : m = 0 \/ Good(m)}
  <2>4. ASSUME NEW m \in 1 .. n, m - 1 \in S PROVE m \in S
    <3>1. <<list[m]>> \in Seq(E) /\ Len(<<list[m]>>) = 1 /\ <<list[m]>>[1] = list[m]
      BY <1>1
    <3>2. CASE m = 1
      <4>1. g[m] = <<list[m]>>
        BY <1>2, <2>3, <3>2
      <4>2. Good(m)
        BY <3>1, <3>2, <4>1
      <4> HIDE DEF Good
      <4> QED
        BY <1>1, <4>2
    <3>3. CASE m # 1
      <4>1. Good(m - 1)
        <5> HIDE DEF Good
        <5> QED
          BY <1>1, <2>4, <3>3
      <4>2. g[m] = g[m - 1] \o <<list[m]>>
        BY <1>2, <2>3, <3>3
      <4> DEFINE a == g[m - 1]
                 b == <<list[m]>>
      <4>3. a \in Seq(E) /\ Len(a) = m - 1 /\ \A i \in 1 .. m - 1 : a[i] = list[i]
        BY <4>1
      <4>4. b \in Seq(E) /\ Len(b) = 1 /\ b[1] = list[m] /\ g[m] = a \o b
        BY <3>1, <4>2
      <4> HIDE DEF a, b
      <4>5. /\ a \o b \in Seq(E) /\ Len(a \o b) = Len(a) + Len(b)
            /\ \A i \in 1 .. Len(a) + Len(b) :
                 (a \o b)[i] = IF i <= Len(a) THEN a[i] ELSE b[i - Len(a)]
        BY <4>3, <4>4, ConcatProperties
      <4>6. Good(m)
        BY <1>1, <4>3, <4>4, <4>5
      <4> HIDE DEF Good
      <4> QED
        BY <1>1, <4>6
    <3> QED
      BY <3>2, <3>3
  <2>5. 0 \in S
    BY <1>1
  <2> HIDE DEF S, Good
  <2>6. \A m \in 0 .. n : m \in S
    BY <1>1, <2>4, <2>5, Upward
  <2>7. Good(n)
    BY <1>1, <1>4, <2>6 DEF S
  <2>8. g[n] = list
    BY <1>1, <2>7 DEF Good
  <2> QED
    BY <1>2, <2>2, <2>8
<1> QED
  BY <1>3, <1>4

\* Every sequence has an element: the whole is no shorter than their number, longer
\* if one of them has two, and begins as the first of them does.
LEMMA FlatGrows ==
  ASSUME NEW E, NEW seqs \in Seq(Seq(E)), Len(seqs) # 0,
         \A i \in 1 .. Len(seqs) : Len(seqs[i]) >= 1
  PROVE  /\ Len(FlattenSeq(seqs)) >= Len(seqs)
         /\ FlattenSeq(seqs)[1] = seqs[1][1]
         /\ \A k \in 1 .. Len(seqs) : Len(seqs[k]) >= 2 => Len(FlattenSeq(seqs)) > Len(seqs)
<1> DEFINE n == Len(seqs)
<1>1. n \in Nat /\ n # 0 /\ \A m \in 1 .. n : seqs[m] \in Seq(E) /\ Len(seqs[m]) >= 1
  OBVIOUS
<1>2. PICK g : IsFlat(g, seqs) /\ FlattenSeq(seqs) = g[n]
  <2>1. \E g : IsFlat(g, seqs)
    BY FlatExists
  <2> QED
    BY <2>1, FlattenIs
<1>3. \A m \in 1 .. n : g[m] = IF m = 1 THEN seqs[m] ELSE g[m - 1] \o seqs[m]
  <2>1. g = [i \in 1 .. n |-> IF i = 1 THEN seqs[i] ELSE g[i - 1] \o seqs[i]]
    BY <1>2, Zenon DEF IsFlat
  <2> QED
    BY <2>1, Zenon
<1> DEFINE Good(m) == /\ g[m] \in Seq(E) /\ Len(g[m]) >= m
                      /\ g[m][1] = seqs[1][1]
                      /\ \A k \in 1 .. m : Len(seqs[k]) >= 2 => Len(g[m]) > m
           S == {m \in 0 .. n : m = 0 \/ Good(m)}
<1>4. ASSUME NEW m \in 1 .. n, m - 1 \in S PROVE m \in S
  <2>1. CASE m = 1
    <3>1. g[m] = seqs[m]
      BY <1>3, <2>1
    <3>2. Good(m)
      BY <1>1, <2>1, <3>1
    <3> HIDE DEF Good
    <3> QED
      BY <1>1, <3>2
  <2>2. CASE m # 1
    <3>1. Good(m - 1)
      <4> HIDE DEF Good
      <4> QED
        BY <1>1, <1>4, <2>2
    <3> DEFINE a == g[m - 1]
               b == seqs[m]
    <3>2. /\ a \in Seq(E) /\ Len(a) >= m - 1 /\ a[1] = seqs[1][1]
          /\ \A k \in 1 .. m - 1 : Len(seqs[k]) >= 2 => Len(a) > m - 1
      BY <3>1
    <3>3. b \in Seq(E) /\ Len(b) >= 1 /\ b = seqs[m] /\ g[m] = a \o b
      BY <1>1, <1>3, <2>2
    <3> HIDE DEF a, b
    <3>4. /\ a \o b \in Seq(E) /\ Len(a \o b) = Len(a) + Len(b)
          /\ \A i \in 1 .. Len(a) + Len(b) :
               (a \o b)[i] = IF i <= Len(a) THEN a[i] ELSE b[i - Len(a)]
      BY <3>2, <3>3, ConcatProperties
    <3>5. Len(a) \in Nat /\ Len(b) \in Nat /\ m \in Nat /\ m > 1
      BY <1>1, <2>2, <3>2, <3>3
    <3>6. g[m] \in Seq(E) /\ Len(g[m]) >= m
      BY <3>2, <3>3, <3>4, <3>5
    <3>7. g[m][1] = seqs[1][1]
      BY <3>2, <3>3, <3>4, <3>5
    <3>8. ASSUME NEW k \in 1 .. m, Len(seqs[k]) >= 2 PROVE Len(g[m]) > m
      <4>1. CASE k = m
        BY <3>2, <3>3, <3>4, <3>5, <3>8, <4>1
      <4>2. CASE k # m
        <5>1. k \in 1 .. m - 1
          BY <3>5, <4>2
        <5>2. Len(a) > m - 1
          BY <3>2, <3>8, <5>1
        <5> QED
          BY <3>3, <3>4, <3>5, <5>2
      <4> QED
        BY <4>1, <4>2
    <3>9. Good(m)
      BY <3>6, <3>7, <3>8
    <3> HIDE DEF Good
    <3> QED
      BY <1>1, <3>9
  <2> QED
    BY <2>1, <2>2
<1>5. 0 \in S
  BY <1>1
<1> HIDE DEF S, Good
<1>6. \A m \in 0 .. n : m \in S
  BY <1>1, <1>4, <1>5, Upward
<1>7. Good(n)
  BY <1>1, <1>6 DEF S
<1> QED
  BY <1>2, <1>7 DEF Good

-----------------------------------------------------------------------------
(* Chained QString::arg *)

Parts == STRING \cup Combos \cup {"0", ""} \cup Markers
Texts == Seq(Parts) \ {<<>>}
Indices == Combos \cup {"0"}

LEMMA ArgGrows ==
  ASSUME NEW template \in Seq(Parts), template # <<>>, NEW value \in Texts
  PROVE  /\ Arg(template, value) \in Seq(Parts)
         /\ Len(Arg(template, value)) >= Len(template)
         /\ template[1] # Lowest(template) => Arg(template, value)[1] = template[1]
         /\ template[1] = Lowest(template) => Arg(template, value)[1] = value[1]
         /\ Lowest(template) \in ToSet(template) /\ Len(value) >= 2
              => Len(Arg(template, value)) > Len(template)
<1> DEFINE n == Len(template)
           low == Lowest(template)
           seqs == [i \in DOMAIN template |->
                      IF template[i] = low THEN value ELSE <<template[i]>>]
<1>1. n \in Nat /\ n # 0 /\ DOMAIN template = 1 .. n /\ \A i \in 1 .. n : template[i] \in Parts
  OBVIOUS
<1>2. value \in Seq(Parts) /\ Len(value) \in Nat /\ Len(value) >= 1
  BY DEF Texts
<1>3. Arg(template, value) = FlattenSeq(seqs)
  BY DEF Arg
<1>4. ToSet(template) = {template[i] : i \in 1 .. n}
  BY <1>1 DEF ToSet
<1> HIDE DEF low
<1>5. ASSUME NEW i \in 1 .. n
      PROVE  /\ seqs[i] = IF template[i] = low THEN value ELSE <<template[i]>>
             /\ seqs[i] \in Seq(Parts) /\ Len(seqs[i]) >= 1
  <2>1. <<template[i]>> \in Seq(Parts) /\ Len(<<template[i]>>) = 1
    BY <1>1
  <2>2. seqs[i] = IF template[i] = low THEN value ELSE <<template[i]>>
    BY <1>1
  <2> QED
    BY <1>2, <2>1, <2>2
<1>6. seqs = [i \in 1 .. n |-> seqs[i]]
  BY <1>1
<1> HIDE DEF seqs
<1>7. seqs \in Seq(Seq(Parts)) /\ Len(seqs) = n
  BY <1>1, <1>5, <1>6
<1>8. /\ Len(FlattenSeq(seqs)) >= n /\ FlattenSeq(seqs)[1] = seqs[1][1]
      /\ \A k \in 1 .. n : Len(seqs[k]) >= 2 => Len(FlattenSeq(seqs)) > n
  <2>1. Len(seqs) # 0 /\ \A i \in 1 .. Len(seqs) : Len(seqs[i]) >= 1
    BY <1>1, <1>5, <1>7
  <2> QED
    BY <1>7, <2>1, FlatGrows
<1>9. FlattenSeq(seqs) \in Seq(Parts)
  BY <1>7, FlatTyped
<1>10. /\ template[1] # low => seqs[1] = <<template[1]>>
       /\ template[1] = low => seqs[1] = value
  <2>1. 1 \in 1 .. n
    BY <1>1
  <2>2. seqs[1] = IF template[1] = low THEN value ELSE <<template[1]>>
    BY <1>5, <2>1
  <2> QED
    BY <2>2
<1>11. ASSUME low \in ToSet(template), Len(value) >= 2 PROVE Len(FlattenSeq(seqs)) > n
  <2>1. PICK k \in 1 .. n : template[k] = low
    BY <1>4, <1>11
  <2>2. seqs[k] = value
    BY <1>5, <2>1
  <2> QED
    BY <1>8, <1>11, <2>2
<1> QED
  BY <1>3, <1>8, <1>9, <1>10, <1>11 DEF low

\* One field in the places of a template of three.
LEMMA ArgThree ==
  ASSUME NEW a \in Parts, NEW b \in Parts, NEW d \in Parts, NEW v \in Parts,
         NEW low, low = Lowest(<<a, b, d>>)
  PROVE  /\ Arg(<<a, b, d>>, <<v>>) = <<IF a = low THEN v ELSE a, IF b = low THEN v ELSE b,
                                        IF d = low THEN v ELSE d>>
         /\ low = IF "%1" \in {a, b, d} THEN "%1" ELSE IF "%2" \in {a, b, d} THEN "%2" ELSE "%3"
<1> DEFINE template == <<a, b, d>>
           result == <<IF a = low THEN v ELSE a, IF b = low THEN v ELSE b,
                       IF d = low THEN v ELSE d>>
           seqs == [i \in DOMAIN template |->
                      IF template[i] = Lowest(template) THEN <<v>> ELSE <<template[i]>>]
<1>1. DOMAIN template = 1 .. 3 /\ \A i \in 1 .. 3 : i = 1 \/ i = 2 \/ i = 3
  OBVIOUS
<1>2. ToSet(template) = {a, b, d}
  BY <1>1 DEF ToSet
<1>3. low = IF "%1" \in {a, b, d} THEN "%1" ELSE IF "%2" \in {a, b, d} THEN "%2" ELSE "%3"
  <2>1. low = LET has == ToSet(template) IN
              IF "%1" \in has THEN "%1" ELSE IF "%2" \in has THEN "%2" ELSE "%3"
    BY Zenon DEF Lowest
  <2> QED
    BY <1>2, <2>1, Zenon
<1>4. Arg(template, <<v>>) = FlattenSeq(seqs)
  BY DEF Arg
<1>5. seqs = [i \in 1 .. 3 |-> IF template[i] = low THEN <<v>> ELSE <<template[i]>>]
  BY <1>1
<1>6. result \in Seq(Parts) /\ Len(result) = 3
  OBVIOUS
<1>7. ASSUME NEW i \in 1 .. 3
      PROVE  (IF template[i] = low THEN <<v>> ELSE <<template[i]>>) = <<result[i]>>
  <2>1. CASE i = 1
    BY <2>1
  <2>2. CASE i = 2
    BY <2>2
  <2>3. CASE i = 3
    BY <2>3
  <2> QED
    BY <1>1, <2>1, <2>2, <2>3
<1>8. seqs = [i \in 1 .. Len(result) |-> <<result[i]>>]
  BY <1>5, <1>6, <1>7
<1>9. FlattenSeq(seqs) = result
  <2> HIDE DEF seqs, result
  <2> QED
    BY <1>6, <1>8, FlatSingles
<1> QED
  BY <1>3, <1>4, <1>9

-----------------------------------------------------------------------------
(* Entries, as they are kept, and rows, as they are shown *)

\* The names of the devices' rows are addresses.
Unmarked == {t \in Texts : t[1] \notin Markers}
NameSet(kind) == IF kind = "devices" THEN Unmarked ELSE Texts
RowSet(kind) == [name : NameSet(kind), combo : Indices, note : Texts]

\* What Join writes: three fields, and then the second is an index, or more, or
\* what a marker has left.
Plain(e) == Len(e) = 3 /\ ToSet(e) \cap Markers = {}
Entries == {e \in Seq(Parts) : Len(e) >= 3 /\ (Plain(e) => e[2] \in Indices)}
Addressed == {e \in Entries : e[1] \notin Markers /\ (Plain(e) => e[1] # "")}

LEMMA SeqGrows ==
  ASSUME NEW S, NEW T, S \subseteq T
  PROVE  Seq(S) \subseteq Seq(T)
<1> SUFFICES ASSUME NEW s \in Seq(S) PROVE s \in Seq(T)
  OBVIOUS
<1>1. Len(s) \in Nat /\ s = [i \in 1 .. Len(s) |-> s[i]] /\ \A i \in 1 .. Len(s) : s[i] \in T
  OBVIOUS
<1> QED
  BY <1>1

LEMMA Single ==
  ASSUME NEW S, NEW x \in S
  PROVE  <<x>> \in Seq(S) /\ <<x>> # <<>> /\ Len(<<x>>) = 1 /\ <<x>>[1] = x
OBVIOUS

LEMMA SingleIs ==
  ASSUME NEW S, NEW s \in Seq(S), Len(s) = 1, NEW x, s[1] = x
  PROVE  s = <<x>>
OBVIOUS

LEMMA TripleIs ==
  ASSUME NEW S, NEW s \in Seq(S), Len(s) = 3
  PROVE  s = <<s[1], s[2], s[3]>> /\ ToSet(s) = {s[1], s[2], s[3]}
<1>1. DOMAIN s = 1 .. 3 /\ \A i \in 1 .. 3 : i = 1 \/ i = 2 \/ i = 3
  OBVIOUS
<1>2. ToSet(s) = {s[1], s[2], s[3]}
  BY <1>1 DEF ToSet
<1> QED
  BY <1>2

LEMMA TextsGiven ==
  /\ Names \subseteq Texts /\ Notes \subseteq Texts /\ Macs \subseteq Texts
  /\ DefaultName \in Texts /\ DefaultNote \in Texts /\ ZeroMac \in Texts /\ BadMac \in Texts
  /\ <<"">> \in Texts /\ Combos \subseteq Indices /\ "0" \in Indices /\ Indices \subseteq Parts
  /\ Macs \cup {ZeroMac, <<"">>} \subseteq Unmarked
  /\ Indices \cap Markers = {} /\ Markers \subseteq Parts
<1>1. STRING \subseteq Parts /\ "" \in Parts
  BY DEF Parts
<1>2. Seq(STRING) \subseteq Seq(Parts)
  BY <1>1, SeqGrows
<1>3. <<"">> \in Texts
  BY <1>1, Single DEF Texts
<1>4. Combos \subseteq Indices /\ "0" \in Indices /\ Indices \subseteq Parts
  BY DEF Indices, Parts
<1>5. /\ Names \cup Notes \cup Macs \cup {DefaultName, DefaultNote, ZeroMac, BadMac} \subseteq Texts
  BY <1>2, TextsAssumption, Zenon DEF Texts
<1>6. ASSUME NEW mac \in Macs \cup {ZeroMac} PROVE mac \in Unmarked
  <2>1. mac \in Texts /\ ToSet(mac) \cap Markers = {}
    BY <1>5, TextsAssumption
  <2>2. 1 \in DOMAIN mac
    BY <2>1 DEF Texts
  <2>3. mac[1] \in ToSet(mac)
    BY <2>2 DEF ToSet
  <2> QED
    BY <2>1, <2>3 DEF Unmarked
<1>7. <<"">> \in Unmarked
  BY <1>3 DEF Unmarked, Markers
<1>8. Indices \cap Markers = {} /\ Markers \subseteq Parts
  BY TextsAssumption DEF Indices, Parts
<1> QED
  BY <1>3, <1>4, <1>5, <1>6, <1>7, <1>8, Zenon

\* The three steps of Join when the name is one field.
LEMMA JoinName ==
  ASSUME NEW x \in Parts, NEW c \in Indices, NEW y, NEW z,
         y = (IF x \in {"%1", "%2"} THEN c ELSE x),
         z = (IF x = "%1" THEN "%2" ELSE c)
  PROVE  Arg(Arg(<<"%1", "%2", "%3">>, <<x>>), <<c>>) = <<y, z, "%3">>
<1>1. c \in Parts /\ c \notin Markers /\ "%1" \in Parts /\ "%2" \in Parts /\ "%3" \in Parts
  BY TextsGiven DEF Markers
<1>2. Arg(<<"%1", "%2", "%3">>, <<x>>) = <<x, "%2", "%3">>
  <2> DEFINE first == Lowest(<<"%1", "%2", "%3">>)
  <2>1. /\ Arg(<<"%1", "%2", "%3">>, <<x>>)
             = <<IF "%1" = first THEN x ELSE "%1", IF "%2" = first THEN x ELSE "%2",
                 IF "%3" = first THEN x ELSE "%3">>
        /\ first = IF "%1" \in {"%1", "%2", "%3"} THEN "%1"
                   ELSE IF "%2" \in {"%1", "%2", "%3"} THEN "%2" ELSE "%3"
    BY <1>1, ArgThree
  <2> HIDE DEF first
  <2> QED
    BY <2>1
<1> DEFINE low == Lowest(<<x, "%2", "%3">>)
<1>3. /\ Arg(<<x, "%2", "%3">>, <<c>>)
           = <<IF x = low THEN c ELSE x, IF "%2" = low THEN c ELSE "%2",
               IF "%3" = low THEN c ELSE "%3">>
      /\ low = IF "%1" \in {x, "%2", "%3"} THEN "%1"
               ELSE IF "%2" \in {x, "%2", "%3"} THEN "%2" ELSE "%3"
  BY <1>1, ArgThree
<1> HIDE DEF low
<1>4. low = IF x = "%1" THEN "%1" ELSE "%2"
  BY <1>3
<1>5. CASE x = "%1"
  BY <1>2, <1>3, <1>4, <1>5
<1>6. CASE x # "%1"
  BY <1>2, <1>3, <1>4, <1>6
<1> QED
  BY <1>5, <1>6

LEMMA JoinNote ==
  ASSUME NEW y \in Parts, NEW z \in Parts, NEW t \in Parts,
         y # "%1", z # "%1"
  PROVE  Arg(<<y, z, "%3">>, <<t>>) =
           IF "%2" \in {y, z} THEN <<IF y = "%2" THEN t ELSE y, IF z = "%2" THEN t ELSE z, "%3">>
           ELSE <<IF y = "%3" THEN t ELSE y, IF z = "%3" THEN t ELSE z, t>>
<1> DEFINE low == Lowest(<<y, z, "%3">>)
<1>1. "%3" \in Parts
  BY DEF Parts, Markers
<1>2. /\ Arg(<<y, z, "%3">>, <<t>>)
           = <<IF y = low THEN t ELSE y, IF z = low THEN t ELSE z, IF "%3" = low THEN t ELSE "%3">>
      /\ low = IF "%1" \in {y, z, "%3"} THEN "%1"
               ELSE IF "%2" \in {y, z, "%3"} THEN "%2" ELSE "%3"
  BY <1>1, ArgThree
<1> HIDE DEF low
<1>3. CASE "%2" \in {y, z}
  <2>1. low = "%2"
    BY <1>2, <1>3
  <2> QED
    BY <1>2, <1>3, <2>1
<1>4. CASE "%2" \notin {y, z}
  <2>1. low = "%3"
    BY <1>2, <1>4
  <2> QED
    BY <1>2, <1>4, <2>1
<1> QED
  BY <1>3, <1>4

LEMMA JoinOneName ==
  ASSUME NEW x \in Parts, NEW c \in Indices, NEW t \in Texts,
         NEW e, e = Arg(Arg(Arg(<<"%1", "%2", "%3">>, <<x>>), <<c>>), t)
  PROVE  /\ e \in Seq(Parts) /\ Len(e) >= 3
         /\ Plain(e) => e[2] \in Indices
         /\ x \notin Markers /\ Plain(e) => e[1] = x
<1> DEFINE y == IF x \in {"%1", "%2"} THEN c ELSE x
           z == IF x = "%1" THEN "%2" ELSE c
           template == <<y, z, "%3">>
<1>1. c \in Parts /\ c \notin Markers /\ Markers \subseteq Parts
  BY TextsGiven
<1>2. y \in Parts /\ z \in Parts /\ "%3" \in Parts /\ y # "%1" /\ z # "%1"
  BY <1>1 DEF Markers
<1>3. e = Arg(template, t)
  BY JoinName
<1>4. template \in Seq(Parts) /\ template # <<>> /\ Len(template) = 3
  BY <1>2
<1>5. Lowest(template) \in ToSet(template)
  <2>1. ToSet(template) = {y, z, "%3"}
    BY <1>4, TripleIs
  <2> DEFINE low == Lowest(template)
  <2>2. low = IF "%1" \in {y, z, "%3"} THEN "%1" ELSE IF "%2" \in {y, z, "%3"} THEN "%2" ELSE "%3"
    BY <1>2, ArgThree
  <2> HIDE DEF low, template, y, z
  <2>3. low \in {y, z, "%3"}
    BY <2>2
  <2> QED
    BY <2>1, <2>3 DEF low
<1>6. /\ e \in Seq(Parts) /\ Len(e) >= 3
      /\ Len(t) >= 2 => Len(e) > 3
  <2> HIDE DEF template
  <2> QED
    BY <1>3, <1>4, <1>5, ArgGrows
<1>7. ASSUME Len(t) < 2, Plain(e)
      PROVE  e[2] \in Indices /\ (x \notin Markers => e[1] = x)
  <2>1. t \in Seq(Parts) /\ Len(t) = 1 /\ t[1] \in Parts
    BY <1>7 DEF Texts
  <2>2. t = <<t[1]>>
    BY <2>1, SingleIs
  <2> DEFINE v == t[1]
  <2>3. e = IF "%2" \in {y, z} THEN <<IF y = "%2" THEN v ELSE y, IF z = "%2" THEN v ELSE z, "%3">>
            ELSE <<IF y = "%3" THEN v ELSE y, IF z = "%3" THEN v ELSE z, v>>
    <3>1. e = Arg(<<y, z, "%3">>, <<v>>)
      BY <1>3, <2>2
    <3>2. v \in Parts
      BY <2>1
    <3> HIDE DEF v, y, z, template
    <3> QED
      BY <1>2, <3>1, <3>2, JoinNote
  <2>4. e[3] \notin Markers
    <3>1. Len(e) = 3 /\ ToSet(e) \cap Markers = {}
      BY <1>7 DEF Plain
    <3>2. ToSet(e) = {e[1], e[2], e[3]}
      BY <1>6, <3>1, TripleIs
    <3> QED
      BY <3>1, <3>2
  <2>5. "%2" \notin {y, z}
    <3>1. "%3" \in Markers
      BY DEF Markers
    <3>2. "%2" \in {y, z} => e[3] = "%3"
      BY <2>3
    <3> QED
      BY <2>4, <3>1, <3>2
  <2>6. x # "%1" /\ z = c /\ c # "%3"
    BY <1>1, <2>5 DEF Markers
  <2>7. e[2] = c /\ (y # "%3" => e[1] = y)
    BY <2>3, <2>5, <2>6
  <2>8. x \notin Markers => y = x /\ y # "%3"
    BY DEF Markers
  <2> QED
    BY <2>7, <2>8
<1>8. Plain(e) => Len(t) < 2
  <2> HIDE DEF y, z, template
  <2>1. Len(t) \in Nat
    BY DEF Texts
  <2>2. Plain(e) => Len(e) = 3
    BY DEF Plain
  <2>3. ~(Len(t) >= 2) => Len(t) < 2
    BY <2>1
  <2> QED
    BY <1>6, <2>2, <2>3
<1> QED
  BY <1>6, <1>7, <1>8

LEMMA JoinIs ==
  ASSUME NEW kind, NEW row \in RowSet(kind)
  PROVE  /\ Join(row) \in Entries
         /\ kind = "devices" /\ row.name # <<"">> => Join(row) \in Addressed
<1> DEFINE n == row.name
           c == row.combo
           t == row.note
           one == Arg(<<"%1", "%2", "%3">>, n)
           two == Arg(one, <<c>>)
           e == Arg(two, t)
<1>1. /\ n \in Texts /\ c \in Indices /\ t \in Texts
      /\ kind = "devices" => n \in Unmarked
  BY DEF RowSet, NameSet, Unmarked
<1>2. Join(row) = e
  BY DEF Join
<1>3. kind = "devices" => n[1] \notin Markers
  BY <1>1 DEF Unmarked
<1> HIDE DEF n, c, t
<1>4. n \in Seq(Parts) /\ Len(n) \in Nat /\ Len(n) >= 1 /\ n[1] \in Parts
  BY <1>1 DEF Texts
<1>5. <<c>> \in Texts
  <2>1. c \in Parts
    BY <1>1, TextsGiven
  <2> QED
    BY <2>1, Single DEF Texts
<1>6. /\ one \in Seq(Parts) /\ Len(one) >= 3 /\ one[1] = n[1]
      /\ Len(n) >= 2 => Len(one) >= 4
  <2> DEFINE template == <<"%1", "%2", "%3">>
  <2>1. "%1" \in Parts /\ "%2" \in Parts /\ "%3" \in Parts
    BY TextsGiven DEF Markers
  <2>2. template \in Seq(Parts) /\ template # <<>> /\ Len(template) = 3 /\ template[1] = "%1"
    BY <2>1
  <2>3. ToSet(template) = {"%1", "%2", "%3"}
    BY <2>2, TripleIs
  <2>4. Lowest(template) = "%1" /\ Lowest(template) \in ToSet(template)
    BY <2>3 DEF Lowest
  <2>7. template[1] = Lowest(template) /\ n \in Texts
    BY <1>1, <2>2, <2>4
  <2> HIDE DEF template
  <2>5. /\ Arg(template, n) \in Seq(Parts) /\ Len(Arg(template, n)) >= Len(template)
        /\ Arg(template, n)[1] = n[1]
        /\ Len(n) >= 2 => Len(Arg(template, n)) > Len(template)
    <3>1. /\ Arg(template, n) \in Seq(Parts)
          /\ Len(Arg(template, n)) >= Len(template)
          /\ template[1] = Lowest(template) => Arg(template, n)[1] = n[1]
          /\ Lowest(template) \in ToSet(template) /\ Len(n) >= 2
               => Len(Arg(template, n)) > Len(template)
      BY <2>2, <2>7, ArgGrows
    <3> QED
      BY <2>4, <2>7, <3>1
  <2>6. Len(Arg(template, n)) \in Nat
    BY <2>5
  <2> QED
    BY <2>2, <2>5, <2>6 DEF template
<1> HIDE DEF one
<1>7. /\ two \in Seq(Parts) /\ Len(two) >= Len(one)
      /\ one[1] # Lowest(one) => two[1] = one[1]
  <2>1. one # <<>>
    BY <1>6
  <2> QED
    BY <1>5, <1>6, <2>1, ArgGrows
<1> HIDE DEF two
<1>8. /\ e \in Seq(Parts) /\ Len(e) >= Len(two)
      /\ two[1] # Lowest(two) => e[1] = two[1]
  <2>1. two # <<>>
    BY <1>6, <1>7
  <2> QED
    BY <1>1, <1>7, <2>1, ArgGrows
<1>9. n[1] \notin Markers => e[1] = n[1]
  <2>1. Lowest(one) \in Markers /\ Lowest(two) \in Markers
    BY Zenon DEF Lowest, Markers
  <2> QED
    BY <1>6, <1>7, <1>8, <2>1
<1> HIDE DEF e
<1>10. CASE Len(n) >= 2
  <2>1. Len(e) >= 4 /\ Len(e) \in Nat
    BY <1>6, <1>7, <1>8, <1>10
  <2>2. ~Plain(e) /\ Len(e) >= 3
    <3>1. ASSUME NEW k \in Nat, k >= 4 PROVE k >= 3 /\ k # 3
      BY <3>1
    <3> QED
      BY <2>1, <3>1 DEF Plain
  <2>3. e \in Entries /\ (n[1] \notin Markers => e \in Addressed)
    BY <1>8, <1>9, <2>2 DEF Entries, Addressed
  <2> QED
    BY <1>2, <1>3, <2>3 DEF n
<1>11. CASE Len(n) < 2
  <2>1. n = <<n[1]>>
    <3>1. ASSUME NEW k \in Nat, k >= 1, k < 2 PROVE k = 1
      BY <3>1
    <3>2. Len(n) = 1
      BY <1>4, <1>11, <3>1
    <3> QED
      BY <1>4, <3>2, SingleIs
  <2>2. e = Arg(Arg(Arg(<<"%1", "%2", "%3">>, <<n[1]>>), <<c>>), t)
    BY <2>1 DEF one, two, e
  <2>3. /\ e \in Seq(Parts) /\ Len(e) >= 3
        /\ Plain(e) => e[2] \in Indices
        /\ n[1] \notin Markers /\ Plain(e) => e[1] = n[1]
    BY <1>1, <1>4, <2>2, JoinOneName
  <2>4. e \in Entries
    BY <2>3 DEF Entries
  <2>5. n # <<"">> => n[1] # ""
    BY <2>1
  <2>6. n[1] \notin Markers /\ n # <<"">> => e \in Addressed
    BY <1>9, <2>3, <2>4, <2>5 DEF Addressed
  <2> QED
    BY <1>2, <1>3, <2>4, <2>6 DEF n
<1>12. Len(n) >= 2 \/ Len(n) < 2
  BY <1>4
<1> QED
  BY <1>10, <1>11, <1>12

LEMMA SplitIs ==
  ASSUME NEW e \in Entries
  PROVE  /\ Split(e) \in RowSet("domains")
         /\ Plain(e) => Join(Split(e)) = e
         /\ e \in Addressed => Split(e) \in RowSet("devices")
         /\ e \in Addressed /\ Plain(e) => Split(e).name # <<"">>
<1>1. e \in Seq(Parts) /\ Len(e) >= 3 /\ (Plain(e) => e[2] \in Indices)
  BY DEF Entries
<1>2. e[1] \in Parts /\ e[3] \in Parts /\ Len(e) \in Nat
  BY <1>1
<1>3. <<e[1]>> \in Texts /\ <<e[3]>> \in Texts /\ <<e[1]>>[1] = e[1]
  BY <1>2 DEF Texts
<1>4. Index(e[2]) \in Indices
  BY DEF Index, Indices
<1>5. /\ Split(e) \in RowSet("domains")
      /\ e[1] \notin Markers => Split(e) \in RowSet("devices")
  BY <1>3, <1>4 DEF Split, RowSet, NameSet, Unmarked
<1>6. ASSUME Plain(e) PROVE Join(Split(e)) = e
  <2> DEFINE x == e[1]
             c == e[2]
             t == e[3]
  <2>1. Len(e) = 3 /\ ToSet(e) \cap Markers = {}
    BY <1>6 DEF Plain
  <2>2. e = <<x, c, t>> /\ ToSet(e) = {x, c, t}
    BY <1>1, <2>1, TripleIs
  <2>3. x \in Parts /\ c \in Indices /\ c \in Parts /\ t \in Parts
    BY <1>1, <1>2, <1>6, TextsGiven
  <2>4. Split(e) = [name |-> <<x>>, combo |-> c, note |-> <<t>>]
    BY <1>1, <1>6 DEF Index, Indices, Split
  <2> HIDE DEF x, c, t
  <2>5. x \notin Markers /\ c \notin Markers
    BY <2>1, <2>2
  <2>6. x # "%1" /\ x # "%2" /\ x # "%3" /\ c # "%1" /\ c # "%2" /\ c # "%3"
    BY <2>5 DEF Markers
  <2>7. Arg(Arg(<<"%1", "%2", "%3">>, <<x>>), <<c>>) = <<x, c, "%3">>
    BY <2>3, <2>6, JoinName
  <2>8. Arg(<<x, c, "%3">>, <<t>>) = <<x, c, t>>
    BY <2>3, <2>6, JoinNote
  <2>9. Join(Split(e)) = <<x, c, t>>
    BY <2>4, <2>7, <2>8 DEF Join
  <2> QED
    BY <2>2, <2>9
<1>7. ASSUME Plain(e), e \in Addressed PROVE Split(e).name # <<"">>
  <2>1. e[1] # "" /\ Split(e).name = <<e[1]>>
    BY <1>7 DEF Addressed, Split
  <2>2. <<e[1]>>[1] = e[1] /\ <<"">>[1] = ""
    OBVIOUS
  <2> QED
    BY <2>1, <2>2
<1>8. e \in Addressed => e[1] \notin Markers
  BY DEF Addressed
<1> QED
  BY <1>5, <1>6, <1>7, <1>8

LEMMA MadeOf ==
  ASSUME NEW S, NEW n \in Nat, NEW f, f = [i \in 1 .. n |-> f[i]],
         \A i \in 1 .. n : f[i] \in S
  PROVE  f \in Seq(S)
OBVIOUS

LEMMA RowsOfList ==
  ASSUME NEW list
  PROVE  /\ list \in Seq(Entries) => AllOf(list, Split) \in Seq(RowSet("domains"))
         /\ list \in Seq(Addressed) => AllOf(list, Split) \in Seq(RowSet("devices"))
<1>1. AllOf(list, Split) = [i \in DOMAIN list |-> Split(list[i])]
  BY DEF AllOf
<1>2. ASSUME list \in Seq(Entries) PROVE AllOf(list, Split) \in Seq(RowSet("domains"))
  <2>1. ASSUME NEW i \in 1 .. Len(list) PROVE Split(list[i]) \in RowSet("domains")
    <3>1. list[i] \in Entries
      BY <1>2
    <3> QED
      BY <3>1, SplitIs
  <2> QED
    BY <1>1, <1>2, <2>1
<1>3. ASSUME list \in Seq(Addressed) PROVE AllOf(list, Split) \in Seq(RowSet("devices"))
  <2>1. ASSUME NEW i \in 1 .. Len(list) PROVE Split(list[i]) \in RowSet("devices")
    <3>1. list[i] \in Addressed
      BY <1>3
    <3>2. list[i] \in Entries
      BY <3>1 DEF Addressed
    <3> QED
      BY <3>1, <3>2, SplitIs
  <2> QED
    BY <1>1, <1>3, <2>1
<1> QED
  BY <1>2, <1>3

LEMMA ListOfRows ==
  ASSUME NEW kind, NEW shown \in Seq(RowSet(kind))
  PROVE  /\ AllOf(shown, Join) \in Seq(Entries)
         /\ kind = "devices" => FlattenSeq(AllOf(shown, JoinNamed)) \in Seq(Addressed)
<1>1. /\ AllOf(shown, Join) = [i \in 1 .. Len(shown) |-> Join(shown[i])]
      /\ AllOf(shown, JoinNamed) = [i \in 1 .. Len(shown) |-> JoinNamed(shown[i])]
  BY DEF AllOf
<1>2. ASSUME NEW i \in 1 .. Len(shown)
      PROVE  /\ Join(shown[i]) \in Entries
             /\ kind = "devices" /\ shown[i].name # <<"">> => Join(shown[i]) \in Addressed
  <2>1. shown[i] \in RowSet(kind)
    OBVIOUS
  <2> QED
    BY <2>1, JoinIs
<1>3. ASSUME kind = "devices", NEW i \in 1 .. Len(shown)
      PROVE  JoinNamed(shown[i]) \in Seq(Addressed)
  <2>1. <<>> \in Seq(Addressed)
    OBVIOUS
  <2>2. shown[i].name # <<"">> => <<Join(shown[i])>> \in Seq(Addressed)
    BY <1>2, <1>3, Single
  <2> QED
    BY <2>1, <2>2, Zenon DEF JoinNamed
<1> DEFINE n == Len(shown)
           joined == AllOf(shown, Join)
           named == AllOf(shown, JoinNamed)
<1>4. /\ n \in Nat
      /\ joined = [i \in 1 .. n |-> joined[i]] /\ named = [i \in 1 .. n |-> named[i]]
      /\ \A i \in 1 .. n : joined[i] \in Entries
      /\ kind = "devices" => \A i \in 1 .. n : named[i] \in Seq(Addressed)
  <2>1. \A i \in 1 .. n : Join(shown[i]) \in Entries
    BY <1>2
  <2>2. kind = "devices" => \A i \in 1 .. n : JoinNamed(shown[i]) \in Seq(Addressed)
    BY <1>3
  <2>3. n \in Nat /\ \A i \in 1 .. n : joined[i] = Join(shown[i]) /\ named[i] = JoinNamed(shown[i])
    BY <1>1
  <2>4. joined = [i \in 1 .. n |-> joined[i]] /\ named = [i \in 1 .. n |-> named[i]]
    BY <1>1
  <2> HIDE DEF n, joined, named
  <2> QED
    BY <2>1, <2>2, <2>3, <2>4
<1> HIDE DEF n, joined, named
<1>5. joined \in Seq(Entries) /\ (kind = "devices" => named \in Seq(Seq(Addressed)))
  BY <1>4, MadeOf
<1> QED
  BY <1>5, FlatTyped DEF joined, named

\* What is taken apart is put together again.
LEMMA ListComesBack ==
  ASSUME NEW list \in Seq(Entries), Clean(list)
  PROVE  /\ AllOf(AllOf(list, Split), Join) = list
         /\ list \in Seq(Addressed) => FlattenSeq(AllOf(AllOf(list, Split), JoinNamed)) = list
<1> DEFINE n == Len(list)
           shown == [i \in 1 .. n |-> Split(list[i])]
<1>1. n \in Nat /\ DOMAIN list = 1 .. n /\ list = [i \in 1 .. n |-> list[i]]
  OBVIOUS
<1>2. /\ AllOf(AllOf(list, Split), Join) = [i \in 1 .. n |-> Join(Split(list[i]))]
      /\ AllOf(AllOf(list, Split), JoinNamed) = [i \in 1 .. n |-> JoinNamed(Split(list[i]))]
  BY <1>1 DEF AllOf
<1>3. ASSUME NEW i \in 1 .. n PROVE Join(Split(list[i])) = list[i]
  <2>1. list[i] \in Entries /\ Plain(list[i])
    BY <1>1 DEF Clean, Plain
  <2> QED
    BY <2>1, SplitIs
<1>4. AllOf(AllOf(list, Split), Join) = list
  BY <1>1, <1>2, <1>3
<1>5. ASSUME list \in Seq(Addressed)
      PROVE  FlattenSeq(AllOf(AllOf(list, Split), JoinNamed)) = list
  <2>1. ASSUME NEW i \in 1 .. n PROVE JoinNamed(Split(list[i])) = <<list[i]>>
    <3>1. list[i] \in Addressed /\ list[i] \in Entries /\ Plain(list[i])
      BY <1>1, <1>5 DEF Clean, Plain
    <3>2. Split(list[i]).name # <<"">>
      BY <3>1, SplitIs
    <3> QED
      BY <1>3, <3>2 DEF JoinNamed
  <2>2. AllOf(AllOf(list, Split), JoinNamed) = [i \in 1 .. n |-> <<list[i]>>]
    BY <1>2, <2>1
  <2> QED
    BY <2>2, FlatSingles
<1> QED
  BY <1>4, <1>5

-----------------------------------------------------------------------------
(* Lists of protocols *)

\* What the boxes gave, once or several times.
ProtocolLists == {l \in Seq(Protocols) : NoneTwice(l) => l = Boxes(ToSet(l))}

LEMMA EmptyIs ==
  /\ <<>> \in Seq(Protocols) /\ ToSet(<<>>) = {} /\ Boxes({}) = <<>> /\ <<>> \in ProtocolLists
<1>1. <<>> \in Seq(Protocols) /\ DOMAIN <<>> = {}
  OBVIOUS
<1>2. ToSet(<<>>) = {}
  BY <1>1 DEF ToSet
<1>3. Boxes({}) = <<>>
  BY DEF Boxes, Box
<1> QED
  BY <1>1, <1>2, <1>3 DEF ProtocolLists

LEMMA BoxesAre ==
  ASSUME NEW set
  PROVE  Boxes(set) \in ProtocolLists
<1> DEFINE l == Boxes(set)
<1>1. l = Box("DNS", set) \o Box("HTTP", set)
  BY DEF Boxes
<1>2. ASSUME NEW S, NEW s, s = Box("DNS", S) \o Box("HTTP", S) PROVE s = Boxes(S)
  BY <1>2 DEF Boxes
<1>3. CASE "DNS" \in set /\ "HTTP" \in set
  <2> DEFINE a == <<"DNS">>
             b == <<"HTTP">>
  <2>1. l = a \o b
    BY <1>1, <1>3 DEF Box
  <2>0. /\ a \in Seq(Protocols) /\ Len(a) = 1 /\ a[1] = "DNS"
        /\ b \in Seq(Protocols) /\ Len(b) = 1 /\ b[1] = "HTTP"
    BY DEF Protocols
  <2> HIDE DEF a, b, l
  <2>6. /\ a \o b \in Seq(Protocols) /\ Len(a \o b) = Len(a) + Len(b)
        /\ \A i \in 1 .. Len(a) + Len(b) : (a \o b)[i] = IF i <= Len(a) THEN a[i] ELSE b[i - Len(a)]
    BY <2>0, ConcatProperties
  <2>2. l \in Seq(Protocols) /\ DOMAIN l = 1 .. 2 /\ l[1] = "DNS" /\ l[2] = "HTTP"
    BY <2>0, <2>1, <2>6
  <2>3. \A i \in 1 .. 2 : i = 1 \/ i = 2
    OBVIOUS
  <2>4. ToSet(l) = {"DNS", "HTTP"}
    BY <2>2, <2>3 DEF ToSet
  <2>5. l = Box("DNS", ToSet(l)) \o Box("HTTP", ToSet(l))
    BY <1>1, <1>3, <2>4 DEF Box
  <2> QED
    BY <1>2, <2>2, <2>5 DEF ProtocolLists, l
<1>4. CASE "DNS" \in set /\ "HTTP" \notin set
  <2>1. l = <<"DNS">>
    BY <1>1, <1>4 DEF Box
  <2>2. l \in Seq(Protocols) /\ DOMAIN l = {1} /\ l[1] = "DNS"
    BY <2>1 DEF Protocols
  <2> HIDE DEF l
  <2>4. ToSet(l) = {"DNS"}
    BY <2>2 DEF ToSet
  <2>5. l = Box("DNS", ToSet(l)) \o Box("HTTP", ToSet(l))
    BY <1>1, <1>4, <2>4 DEF Box
  <2> QED
    BY <1>2, <2>2, <2>5 DEF ProtocolLists, l
<1>5. CASE "DNS" \notin set /\ "HTTP" \in set
  <2>1. l = <<"HTTP">>
    BY <1>1, <1>5 DEF Box
  <2>2. l \in Seq(Protocols) /\ DOMAIN l = {1} /\ l[1] = "HTTP"
    BY <2>1 DEF Protocols
  <2> HIDE DEF l
  <2>4. ToSet(l) = {"HTTP"}
    BY <2>2 DEF ToSet
  <2>5. l = Box("DNS", ToSet(l)) \o Box("HTTP", ToSet(l))
    BY <1>1, <1>5, <2>4 DEF Box
  <2> QED
    BY <1>2, <2>2, <2>5 DEF ProtocolLists, l
<1>6. CASE "DNS" \notin set /\ "HTTP" \notin set
  <2>1. l = <<>>
    BY <1>1, <1>6 DEF Box
  <2> QED
    BY <2>1, EmptyIs
<1> QED
  BY <1>3, <1>4, <1>5, <1>6

\* What an empty datagram makes of lists that hold the same.
LEMMA ReadTwice ==
  ASSUME NEW l \in ProtocolLists, NEW m \in ProtocolLists, ToSet(l) = ToSet(m)
  PROVE  l \o m \in ProtocolLists /\ ToSet(l \o m) = ToSet(m)
<1>1. /\ l \in Seq(Protocols) /\ m \in Seq(Protocols) /\ Len(l) \in Nat /\ Len(m) \in Nat
      /\ DOMAIN l = 1 .. Len(l) /\ DOMAIN m = 1 .. Len(m)
  BY DEF ProtocolLists
<1> DEFINE b == l \o m
<1>2. /\ b \in Seq(Protocols) /\ Len(b) = Len(l) + Len(m)
      /\ \A i \in 1 .. Len(l) + Len(m) : b[i] = IF i <= Len(l) THEN l[i] ELSE m[i - Len(l)]
  BY <1>1, ConcatProperties
<1> HIDE DEF b
<1>3. DOMAIN b = 1 .. Len(l) + Len(m)
  BY <1>1, <1>2
<1>4. \A i \in 1 .. Len(l) : i \in DOMAIN b /\ b[i] = l[i]
  BY <1>1, <1>2, <1>3
<1>5. \A i \in 1 .. Len(m) : Len(l) + i \in DOMAIN b /\ b[Len(l) + i] = m[i]
  <2>1. ASSUME NEW i \in 1 .. Len(m), NEW k, k = Len(l) + i
        PROVE  k \in DOMAIN b /\ b[k] = m[i]
    <3>1. k \in 1 .. Len(l) + Len(m) /\ ~(k <= Len(l)) /\ k - Len(l) = i
      BY <1>1, <2>1
    <3> QED
      BY <1>2, <1>3, <3>1
  <2> QED
    BY <2>1
<1>6. ToSet(b) = ToSet(m)
  <2>1. ASSUME NEW i \in DOMAIN b PROVE b[i] \in ToSet(m)
    <3>1. CASE i <= Len(l)
      <4>1. i \in DOMAIN l /\ b[i] = l[i]
        BY <1>1, <1>2, <1>3, <3>1
      <4>2. b[i] \in ToSet(l)
        BY <4>1 DEF ToSet
      <4> QED
        BY <4>2
    <3>2. CASE ~(i <= Len(l))
      <4> DEFINE j == i - Len(l)
      <4>1. j \in DOMAIN m /\ b[i] = m[j]
        BY <1>1, <1>2, <1>3, <3>2
      <4> HIDE DEF j
      <4> QED
        BY <4>1 DEF ToSet
    <3> QED
      BY <3>1, <3>2
  <2>2. ASSUME NEW i \in DOMAIN m PROVE m[i] \in ToSet(b)
    <3>1. PICK k \in DOMAIN b : b[k] = m[i]
      BY <1>1, <1>5
    <3> QED
      BY <3>1 DEF ToSet
  <2>3. \A x : x \in ToSet(b) <=> \E i \in DOMAIN b : x = b[i]
    BY DEF ToSet
  <2>4. \A x : x \in ToSet(m) <=> \E i \in DOMAIN m : x = m[i]
    BY DEF ToSet
  <2> QED
    BY <2>1, <2>2, <2>3, <2>4
<1>7. ASSUME NoneTwice(b) PROVE b = Boxes(ToSet(b))
  <2>1. Len(l) = 0
    <3>1. SUFFICES ASSUME Len(l) # 0 PROVE FALSE
      OBVIOUS
    <3>2. 1 \in DOMAIN l /\ l[1] \in ToSet(l)
      BY <1>1, <3>1 DEF ToSet
    <3>3. PICK i \in DOMAIN m : m[i] = l[1]
      BY <3>2 DEF ToSet
    <3> DEFINE k == Len(l) + i
    <3>4. k \in DOMAIN b /\ b[k] = l[1] /\ 1 \in DOMAIN b /\ b[1] = l[1]
      BY <1>1, <1>4, <1>5, <3>2, <3>3
    <3>5. k # 1
      BY <1>1, <3>1, <3>3
    <3> HIDE DEF k
    <3> QED
      BY <1>7, <3>4, <3>5 DEF NoneTwice
  <2>2. l = <<>>
    BY <1>1, <2>1
  <2>3. ToSet(m) = {}
    BY <2>2, EmptyIs
  <2>4. Len(m) = 0
    <3>1. SUFFICES ASSUME Len(m) # 0 PROVE FALSE
      OBVIOUS
    <3>2. 1 \in DOMAIN m
      BY <1>1, <3>1
    <3>3. m[1] \in ToSet(m)
      BY <3>2 DEF ToSet
    <3> QED
      BY <2>3, <3>3
  <2>5. b = <<>>
    BY <1>1, <1>2, <2>1, <2>4
  <2> QED
    BY <2>5, EmptyIs
<1>8. b \in ProtocolLists
  BY <1>2, <1>7 DEF ProtocolLists
<1> QED
  BY <1>6, <1>8 DEF b

-----------------------------------------------------------------------------
(* What the settings, the file and the dialogs hold *)

IsList(l) == \E S : l \in Seq(S)

Listed(s) ==
  /\ s = [f \in Fields |-> s[f]]
  /\ s.Domains \in Seq(Entries)
  /\ s.Devices \in Seq(Addressed)
  /\ s.Protocols \in ProtocolLists

SettingsListed ==
  /\ Listed(settings)
  /\ Listed(config.Controller)
  /\ ToSet(settings.Protocols) = ToSet(config.Controller.Protocols)

RowsListed ==
  /\ IsList(config.Servers)
  /\ dialog \in {"domains", "devices"} => rows \in Seq(RowSet(dialog))
  /\ dialog = "servers" => IsList(rows)

\* A dialog that nobody has touched shows what the settings held when it opened.
ShownAsSet(s) ==
  /\ Listed(s)
  /\ dialog = "domains" => Clean(s.Domains) /\ rows = AllOf(s.Domains, Split)
  /\ dialog = "devices" => Clean(s.Devices) /\ rows = AllOf(s.Devices, Split)
  /\ dialog = "servers" => ticked = 0 \/ Text[rows[ticked]] = s.Server
  /\ dialog = "protocols" => s.Protocols = Boxes(ticked)

DialogInv ==
  /\ SettingsListed
  /\ RowsListed
  /\ asOpened # Touched => ShownAsSet(asOpened[1])

LEMMA FieldSet ==
  ASSUME NEW s, Listed(s), NEW field \in Fields, NEW value,
         field = "Domains" => value \in Seq(Entries),
         field = "Devices" => value \in Seq(Addressed),
         field = "Protocols" => value \in ProtocolLists
  PROVE  /\ Listed([s EXCEPT ![field] = value])
         /\ field # "Protocols" => [s EXCEPT ![field] = value].Protocols = s.Protocols
<1> DEFINE t == [s EXCEPT ![field] = value]
<1>1. /\ t = [f \in Fields |-> t[f]]
      /\ \A f \in Fields : t[f] = IF f = field THEN value ELSE s[f]
  BY DEF Listed
<1>2. "Domains" \in Fields /\ "Devices" \in Fields /\ "Protocols" \in Fields
  BY DEF Fields
<1> HIDE DEF t
<1>3. field # "Protocols" => t.Protocols = s.Protocols
  BY <1>1, <1>2
<1>4. Listed(t)
  BY <1>1, <1>2 DEF Listed
<1> QED
  BY <1>3, <1>4 DEF t

LEMMA EmptyLists == Listed(FirstSettings) /\ IsList(<<>>)
<1>1. <<>> \in Seq(Entries) /\ <<>> \in Seq(Addressed) /\ <<>> \in ProtocolLists
  BY EmptyIs
<1> QED
  BY <1>1 DEF Listed, FirstSettings, Fields, IsList

\* What ReadBlank makes of the settings.
Doubled(s, c) == [f \in DOMAIN s |-> IF f \in Lists THEN s[f] \o c[f] ELSE c[f]]

LEMMA ListsJoined ==
  ASSUME NEW s, NEW c, Listed(s), Listed(c), ToSet(s.Protocols) = ToSet(c.Protocols)
  PROVE  Listed(Doubled(s, c)) /\ ToSet(Doubled(s, c).Protocols) = ToSet(c.Protocols)
<1> DEFINE t == Doubled(s, c)
<1>0. t = [f \in DOMAIN s |-> IF f \in Lists THEN s[f] \o c[f] ELSE c[f]]
  BY DEF Doubled
<1> HIDE DEF t
<1>1. DOMAIN s = Fields
  BY DEF Listed
<1>2. t = [f \in Fields |-> t[f]]
  BY <1>0, <1>1
<1>3. /\ t.Domains = s.Domains \o c.Domains /\ t.Devices = s.Devices \o c.Devices
      /\ t.Protocols = s.Protocols \o c.Protocols
  BY <1>0, <1>1 DEF Fields, Lists
<1>4. s.Domains \o c.Domains \in Seq(Entries)
  BY ConcatProperties DEF Listed
<1>5. s.Devices \o c.Devices \in Seq(Addressed)
  BY ConcatProperties DEF Listed
<1>6. s.Protocols \in ProtocolLists /\ c.Protocols \in ProtocolLists
  BY DEF Listed
<1>7. t.Protocols \in ProtocolLists /\ ToSet(t.Protocols) = ToSet(c.Protocols)
  BY <1>3, <1>6, ReadTwice
<1> QED
  <2>1. Listed(t)
    BY <1>2, <1>3, <1>4, <1>5, <1>7, Zenon DEF Listed
  <2> QED
    BY <1>7, <2>1 DEF t

LEMMA TickIs ==
  ASSUME NEW list, IsList(list)
  PROVE  TickOf(list) = 0 \/ Text[list[TickOf(list)]] = settings.Server
<1> DEFINE hits == {i \in DOMAIN list : Text[list[i]] = settings.Server}
<1>1. PICK S : list \in Seq(S)
  BY DEF IsList
<1>2. CASE hits = {}
  BY <1>2, Zenon DEF TickOf
<1>3. CASE hits # {}
  <2>1. Len(list) \in Nat /\ hits \in SUBSET (1 .. Len(list))
    BY <1>1
  <2>2. \E i \in hits : \A j \in hits : j <= i
    <3> HIDE DEF hits
    <3> QED
      BY <1>3, <2>1, HasMost
  <2>3. TickOf(list) = CHOOSE i \in hits : \A j \in hits : j <= i
    BY <1>3, Zenon DEF TickOf
  <2>4. TickOf(list) \in hits
    <3> HIDE DEF hits
    <3> QED
      BY <2>2, <2>3, Zenon
  <2> QED
    BY <2>4
<1> QED
  BY <1>2, <1>3

LEMMA ListAppended ==
  ASSUME NEW S, NEW l \in Seq(S), NEW e \in S
  PROVE  Append(l, e) \in Seq(S)
OBVIOUS

LEMMA ListEdited ==
  ASSUME NEW S, NEW l \in Seq(S), NEW e \in S, NEW i \in DOMAIN l
  PROVE  [l EXCEPT ![i] = e] \in Seq(S)
OBVIOUS

LEMMA ListShortened ==
  ASSUME NEW S, NEW l \in Seq(S), NEW i \in DOMAIN l
  PROVE  RemoveAt(l, i) \in Seq(S)
<1>1. i \in 1 .. Len(l) /\ Len(l) \in Nat
  OBVIOUS
<1>2. SubSeq(l, 1, i - 1) \in Seq(S) /\ SubSeq(l, i + 1, Len(l)) \in Seq(S)
  <2>1. \A j \in 1 .. i - 1 : l[j] \in S
    BY <1>1
  <2>2. \A j \in i + 1 .. Len(l) : l[j] \in S
    BY <1>1
  <2> QED
    BY <1>1, <2>1, <2>2, SubSeqProperties
<1> QED
  BY <1>2, ConcatProperties DEF RemoveAt

LEMMA SetFieldListed ==
  ASSUME Shaped, SettingsListed, NEW file, NEW field \in Fields, NEW value,
         DOMAIN file = DOMAIN config, file.Controller = config.Controller,
         IsList(file.Servers),
         field = "Domains" => value \in Seq(Entries),
         field = "Devices" => value \in Seq(Addressed),
         field = "Protocols" => value \in ProtocolLists,
         SetField(file, field, value)
  PROVE  SettingsListed' /\ IsList(config'.Servers)
<1>1. CASE settings[field] = value
  <2>1. config' = file /\ settings' = settings
    BY <1>1 DEF SetField
  <2> QED
    BY <2>1 DEF SettingsListed
<1>2. CASE settings[field] # value
  <2>1. /\ settings' = [settings EXCEPT ![field] = value]
        /\ config' = [file EXCEPT !.Controller = settings']
    BY <1>2 DEF SetField, WriteConfig
  <2>2. Listed([settings EXCEPT ![field] = value])
    BY FieldSet DEF SettingsListed
  <2>3. config'.Controller = settings' /\ config'.Servers = file.Servers
    BY <2>1 DEF Shaped
  <2>4. Listed(settings')
    BY <2>1, <2>2
  <2> QED
    BY <2>3, <2>4 DEF SettingsListed
<1> QED
  BY <1>1, <1>2

LEMMA InitDialog == Init => DialogInv
<1> SUFFICES ASSUME Init PROVE DialogInv
  OBVIOUS
<1>1. /\ settings = FirstSettings /\ config.Controller = FirstSettings /\ config.Servers = <<>>
      /\ dialog = "none" /\ asOpened = Touched
  BY DEF Init, ControllerInit
<1> QED
  BY <1>1, EmptyLists DEF DialogInv, SettingsListed, RowsListed

\* A dialog that is closed, or one that shows no list, has nothing to keep.
LEMMA NothingOpen ==
  ASSUME SettingsListed', IsList(config'.Servers), asOpened' = Touched,
         dialog' \notin {"domains", "devices", "servers"}
  PROVE  DialogInv'
BY DEF DialogInv, RowsListed

\* Nothing is edited in the open dialog, but what it shows may have changed.
LEMMA StillOpen ==
  ASSUME DialogInv, SettingsListed', IsList(config'.Servers), asOpened' = Touched,
         UNCHANGED <<dialog, rows>>
  PROVE  DialogInv'
BY DEF DialogInv, RowsListed

\* The widgets stay as they are, whatever becomes of the settings.
LEMMA WidgetsStay ==
  ASSUME DialogInv, SettingsListed', IsList(config'.Servers),
         UNCHANGED <<dialog, rows, ticked, asOpened>>
  PROVE  DialogInv'
<1>1. RowsListed'
  BY DEF DialogInv, RowsListed
<1>2. asOpened' # Touched => ShownAsSet(asOpened[1])'
  BY DEF DialogInv, ShownAsSet
<1> QED
  BY <1>1, <1>2 DEF DialogInv

LEMMA DialogUntouched ==
  ASSUME DialogInv,
         UNCHANGED <<settings, config, dialog, rows, ticked, asOpened>>
  PROVE  DialogInv'
<1> USE DEF DialogInv, SettingsListed, RowsListed
<1>1. SettingsListed' /\ RowsListed'
  OBVIOUS
<1>2. asOpened' # Touched => ShownAsSet(asOpened[1])'
  BY DEF ShownAsSet
<1> QED
  BY <1>1, <1>2

LEMMA OpenKeeps ==
  ASSUME DialogInv, OpenDomains \/ OpenDevices \/ OpenServers \/ OpenProtocols \/ OpenCapture
  PROVE  DialogInv'
<1>1. UNCHANGED <<settings, config>>
  BY DEF OpenDomains, OpenDevices, OpenServers, OpenProtocols, OpenCapture, OpenList, Open,
       controllerVars
<1>2. SettingsListed' /\ IsList(config'.Servers)
  BY <1>1 DEF DialogInv, SettingsListed, RowsListed
<1>3. Listed(settings)
  BY DEF DialogInv, SettingsListed
<1>4. ASSUME asOpened' = <<settings>> \/ asOpened' = Touched,
             asOpened' # Touched => ShownAsSet(settings)', RowsListed'
      PROVE  DialogInv'
  <2>1. <<settings>>[1] = settings
    OBVIOUS
  <2> QED
    BY <1>1, <1>2, <1>4, <2>1 DEF DialogInv
<1>5. CASE OpenDomains
  <2>1. /\ dialog' = "domains" /\ rows' = AllOf(settings.Domains, Split)
        /\ asOpened' = IF Clean(settings.Domains) THEN Untouched ELSE Touched
    BY <1>5 DEF OpenDomains, OpenList, Open
  <2>2. AllOf(settings.Domains, Split) \in Seq(RowSet("domains"))
    BY <1>3, RowsOfList DEF Listed
  <2>3. RowsListed'
    BY <1>2, <2>1, <2>2 DEF RowsListed
  <2>4. asOpened' # Touched => Clean(settings.Domains) /\ asOpened' = <<settings>>
    BY <2>1 DEF Untouched
  <2>5. asOpened' # Touched => ShownAsSet(settings)'
    BY <1>1, <1>3, <2>1, <2>4 DEF ShownAsSet
  <2> QED
    BY <1>4, <2>3, <2>4, <2>5
<1>6. CASE OpenDevices
  <2>1. /\ dialog' = "devices" /\ rows' = AllOf(settings.Devices, Split)
        /\ asOpened' = IF Clean(settings.Devices) THEN Untouched ELSE Touched
    BY <1>6 DEF OpenDevices, OpenList, Open
  <2>2. AllOf(settings.Devices, Split) \in Seq(RowSet("devices"))
    BY <1>3, RowsOfList DEF Listed
  <2>3. RowsListed'
    BY <1>2, <2>1, <2>2 DEF RowsListed
  <2>4. asOpened' # Touched => Clean(settings.Devices) /\ asOpened' = <<settings>>
    BY <2>1 DEF Untouched
  <2>5. asOpened' # Touched => ShownAsSet(settings)'
    BY <1>1, <1>3, <2>1, <2>4 DEF ShownAsSet
  <2> QED
    BY <1>4, <2>3, <2>4, <2>5
<1>7. CASE OpenServers
  <2>1. /\ dialog' = "servers" /\ rows' = config.Servers /\ ticked' = TickOf(config.Servers)
        /\ asOpened' = <<settings>>
    BY <1>7 DEF OpenServers, Open, Untouched
  <2>2. IsList(config.Servers)
    BY DEF DialogInv, RowsListed
  <2>3. RowsListed'
    BY <1>2, <2>1, <2>2 DEF RowsListed
  <2>4. ticked' = 0 \/ Text[rows'[ticked']] = settings.Server
    BY <2>1, <2>2, TickIs
  <2>5. ShownAsSet(settings)'
    BY <1>1, <1>3, <2>1, <2>4 DEF ShownAsSet
  <2> QED
    BY <1>4, <2>1, <2>3, <2>5
<1>8. CASE OpenProtocols
  <2>1. /\ dialog' = "protocols" /\ ticked' = ToSet(settings.Protocols)
        /\ asOpened' = IF NoneTwice(settings.Protocols) THEN Untouched ELSE Touched
    BY <1>8 DEF OpenProtocols, Open
  <2>2. RowsListed'
    BY <1>2, <2>1 DEF RowsListed
  <2>3. asOpened' # Touched => NoneTwice(settings.Protocols) /\ asOpened' = <<settings>>
    BY <2>1 DEF Untouched
  <2>4. NoneTwice(settings.Protocols) => settings.Protocols = Boxes(ToSet(settings.Protocols))
    BY <1>3 DEF Listed, ProtocolLists
  <2>5. asOpened' # Touched => ShownAsSet(settings)'
    BY <1>1, <1>3, <2>1, <2>3, <2>4 DEF ShownAsSet
  <2> QED
    BY <1>4, <2>2, <2>3, <2>5
<1>9. CASE OpenCapture
  <2>1. dialog' = "capture" /\ asOpened' = Touched
    BY <1>9 DEF OpenCapture, Open
  <2> QED
    BY <1>2, <2>1, NothingOpen
<1> QED
  BY <1>5, <1>6, <1>7, <1>8, <1>9

LEMMA EditRowKeeps ==
  ASSUME NEW kind, NEW names, names \subseteq NameSet(kind), EditRow(kind, names),
         rows \in Seq(RowSet(kind))
  PROVE  rows' \in Seq(RowSet(kind))
<1>1. PICK i \in DOMAIN rows :
        \/ \E n \in names : rows' = [rows EXCEPT ![i].name = n]
        \/ \E c \in Combos : rows' = [rows EXCEPT ![i].combo = c]
        \/ \E t \in Notes : rows' = [rows EXCEPT ![i].note = t]
  BY DEF EditRow
<1>2. rows[i] \in RowSet(kind)
  OBVIOUS
<1>3. PICK row \in RowSet(kind) : rows' = [rows EXCEPT ![i] = row]
  <2>1. CASE \E n \in names : rows' = [rows EXCEPT ![i].name = n]
    <3>1. PICK n \in names : rows' = [rows EXCEPT ![i].name = n]
      BY <2>1
    <3>2. rows' = [rows EXCEPT ![i] = [rows[i] EXCEPT !.name = n]]
      BY <3>1
    <3>3. [rows[i] EXCEPT !.name = n] \in RowSet(kind)
      BY <1>2 DEF RowSet
    <3> QED
      BY <3>2, <3>3
  <2>2. CASE \E c \in Combos : rows' = [rows EXCEPT ![i].combo = c]
    <3>1. PICK c \in Combos : rows' = [rows EXCEPT ![i].combo = c]
      BY <2>2
    <3>2. rows' = [rows EXCEPT ![i] = [rows[i] EXCEPT !.combo = c]]
      BY <3>1
    <3>3. [rows[i] EXCEPT !.combo = c] \in RowSet(kind)
      BY <1>2 DEF RowSet, Indices
    <3> QED
      BY <3>2, <3>3
  <2>3. CASE \E t \in Notes : rows' = [rows EXCEPT ![i].note = t]
    <3>1. PICK t \in Notes : rows' = [rows EXCEPT ![i].note = t]
      BY <2>3
    <3>2. rows' = [rows EXCEPT ![i] = [rows[i] EXCEPT !.note = t]]
      BY <3>1
    <3>3. t \in Texts
      BY TextsGiven
    <3>4. [rows[i] EXCEPT !.note = t] \in RowSet(kind)
      BY <1>2, <3>3 DEF RowSet
    <3> QED
      BY <3>2, <3>4
  <2> QED
    BY <1>1, <2>1, <2>2, <2>3
<1> QED
  BY <1>2, <1>3, ListEdited

\* Rows of domains and devices.
LEMMA EditListKeeps ==
  ASSUME DialogInv, NEW kind \in {"domains", "devices"}, Edit(kind),
         rows \in Seq(RowSet(kind)) => rows' \in Seq(RowSet(kind))
  PROVE  DialogInv'
<1>1. /\ dialog = kind /\ dialog' = kind /\ asOpened' = Touched
      /\ UNCHANGED <<settings, config>>
  BY DEF Edit, controllerVars
<1>2. SettingsListed' /\ IsList(config'.Servers) /\ rows' \in Seq(RowSet(kind))
  BY <1>1 DEF DialogInv, SettingsListed, RowsListed
<1> QED
  BY <1>1, <1>2 DEF DialogInv, RowsListed

LEMMA EditsKeep ==
  ASSUME DialogInv,
         \/ AddDomain \/ EditDomain \/ DeleteRow("domains")
         \/ AddDevice \/ EditDevice \/ DeleteRow("devices")
  PROVE  DialogInv'
<1>1. ASSUME NEW kind \in {"domains", "devices"}, NEW row \in RowSet(kind), AddRow(kind, row)
      PROVE  DialogInv'
  <2>1. Edit(kind) /\ rows' = Append(rows, row)
    BY <1>1 DEF AddRow
  <2>2. rows \in Seq(RowSet(kind)) => rows' \in Seq(RowSet(kind))
    BY <2>1, ListAppended
  <2> QED
    BY <2>1, <2>2, EditListKeeps
<1>2. ASSUME NEW kind \in {"domains", "devices"}, NEW names, names \subseteq NameSet(kind),
             EditRow(kind, names)
      PROVE  DialogInv'
  <2>1. Edit(kind)
    BY <1>2 DEF EditRow
  <2>2. rows \in Seq(RowSet(kind)) => rows' \in Seq(RowSet(kind))
    BY <1>2, EditRowKeeps
  <2> QED
    BY <2>1, <2>2, EditListKeeps
<1>3. ASSUME NEW kind \in {"domains", "devices"}, DeleteRow(kind) PROVE DialogInv'
  <2>1. Edit(kind) /\ \E i \in DOMAIN rows : rows' = RemoveAt(rows, i)
    BY <1>3 DEF DeleteRow
  <2>2. rows \in Seq(RowSet(kind)) => rows' \in Seq(RowSet(kind))
    BY <2>1, ListShortened
  <2> QED
    BY <2>1, <2>2, EditListKeeps
<1>4. /\ [name |-> DefaultName, combo |-> "0", note |-> DefaultNote] \in RowSet("domains")
      /\ [name |-> ZeroMac, combo |-> "0", note |-> <<"">>] \in RowSet("devices")
  BY TextsGiven DEF RowSet, NameSet
<1>5. {Checked(m) : m \in Macs \cup {<<"">>, BadMac}} \subseteq NameSet("devices")
  BY TextsGiven DEF Checked, NameSet
<1>6. CASE AddDomain
  BY <1>1, <1>4, <1>6 DEF AddDomain
<1>7. CASE EditDomain
  BY <1>2, <1>7, TextsGiven DEF EditDomain, NameSet
<1>8. CASE AddDevice
  BY <1>1, <1>4, <1>8 DEF AddDevice
<1>9. CASE EditDevice
  BY <1>2, <1>5, <1>9 DEF EditDevice
<1>10. CASE DeleteRow("domains") \/ DeleteRow("devices")
  BY <1>3, <1>10
<1> QED
  BY <1>6, <1>7, <1>8, <1>9, <1>10

\* The servers' rows may be anything.
LEMMA ServerEditsKeep ==
  ASSUME DialogInv, AddServer \/ EditServer \/ TickServer \/ TickProtocol
  PROVE  DialogInv'
<1>1. /\ asOpened' = Touched /\ dialog' = dialog /\ UNCHANGED <<settings, config>>
  BY DEF AddServer, EditServer, TickServer, TickProtocol, Edit, controllerVars
<1>2. SettingsListed' /\ IsList(config'.Servers)
  BY <1>1 DEF DialogInv, SettingsListed, RowsListed
<1>3. CASE TickServer \/ TickProtocol
  <2>1. rows' = rows
    BY <1>3 DEF TickServer, TickProtocol
  <2> QED
    BY <1>1, <1>2, <2>1, StillOpen
<1>4. CASE AddServer \/ EditServer
  <2>1. dialog = "servers"
    BY <1>4 DEF AddServer, EditServer, Edit
  <2>2. PICK S : rows \in Seq(S)
    BY <2>1 DEF DialogInv, RowsListed, IsList
  <2>3. ASSUME NEW e PROVE S \subseteq S \cup {e} /\ e \in S \cup {e}
    OBVIOUS
  <2>4. \E e : rows' \in Seq(S \cup {e})
    <3>1. CASE AddServer
      <4>1. rows' = Append(rows, NewEndpoint)
        BY <3>1 DEF AddServer
      <4>2. rows \in Seq(S \cup {NewEndpoint})
        BY <2>2, <2>3, SeqGrows
      <4>3. rows' \in Seq(S \cup {NewEndpoint})
        BY <2>3, <4>1, <4>2, ListAppended
      <4> QED
        BY <4>3
    <3>2. CASE EditServer
      <4>1. PICK i \in DOMAIN rows, e \in Endpoints : rows' = [rows EXCEPT ![i] = e]
        BY <3>2 DEF EditServer
      <4>2. rows \in Seq(S \cup {e})
        BY <2>2, <2>3, SeqGrows
      <4>3. rows' \in Seq(S \cup {e})
        BY <2>3, <4>1, <4>2, ListEdited
      <4> QED
        BY <4>3
    <3> QED
      BY <1>4, <3>1, <3>2
  <2>5. IsList(rows')
    BY <2>4 DEF IsList
  <2> QED
    BY <1>1, <1>2, <2>1, <2>5 DEF DialogInv, RowsListed
<1> QED
  BY <1>3, <1>4

-----------------------------------------------------------------------------
(* Dialogs that are accepted *)

LEMMA AcceptDialogKeeps ==
  ASSUME IInv, DialogInv, AcceptDomains \/ AcceptDevices \/ AcceptServers \/ AcceptProtocols
  PROVE  DialogInv'
<1>1. dialog' = "none" /\ asOpened' = Touched
  BY DEF AcceptDomains, AcceptDevices, AcceptServers, AcceptProtocols, Accept, Close
<1>2. /\ Shaped /\ SettingsListed /\ IsList(config.Servers)
      /\ {"Domains", "Server", "Protocols", "Devices"} \subseteq Fields
  BY DEF IInv, SettingsInv, DialogInv, RowsListed, Fields
<1>3. CASE AcceptDomains
  <2>1. SetField(config, "Domains", AllOf(rows, Join)) /\ dialog = "domains"
    BY <1>3 DEF AcceptDomains, SetDomainList, Accept
  <2>2. rows \in Seq(RowSet("domains"))
    BY <2>1 DEF DialogInv, RowsListed
  <2>3. AllOf(rows, Join) \in Seq(Entries)
    BY <2>2, ListOfRows
  <2>4. SettingsListed' /\ IsList(config'.Servers)
    BY <1>2, <2>1, <2>3, SetFieldListed
  <2> QED
    BY <1>1, <2>4, NothingOpen
<1>4. CASE AcceptDevices
  <2> DEFINE devices == FlattenSeq(AllOf(rows, JoinNamed))
  <2>1. SetDeviceList(devices) /\ dialog = "devices"
    BY <1>4 DEF AcceptDevices, Accept
  <2>2. rows \in Seq(RowSet("devices"))
    BY <2>1 DEF DialogInv, RowsListed
  <2>3. devices \in Seq(Addressed)
    BY <2>2, ListOfRows
  <2> HIDE DEF devices
  <2>4. config' = config /\ settings' = [settings EXCEPT !["Devices"] = devices]
    BY <2>1 DEF SetDeviceList
  <2>5. /\ Listed([settings EXCEPT !["Devices"] = devices])
        /\ [settings EXCEPT !["Devices"] = devices].Protocols = settings.Protocols
    BY <1>2, <2>3, FieldSet DEF SettingsListed
  <2>6. SettingsListed' /\ IsList(config'.Servers)
    BY <1>2, <2>4, <2>5 DEF SettingsListed
  <2> QED
    BY <1>1, <2>6, NothingOpen
<1>5. CASE AcceptServers
  <2> DEFINE stored == AllOf(rows, Stored)
             file == [config EXCEPT !.Servers = stored]
  <2>1. dialog = "servers"
    BY <1>5 DEF AcceptServers, Accept
  <2>2. IsList(stored)
    <3>1. PICK S : rows \in Seq(S)
      BY <2>1 DEF DialogInv, RowsListed, IsList
    <3>2. stored = [i \in 1 .. Len(rows) |-> Stored(rows[i])] /\ Len(rows) \in Nat
      BY <3>1 DEF AllOf
    <3>3. stored \in Seq({Stored(rows[i]) : i \in 1 .. Len(rows)})
      BY <3>2
    <3> QED
      BY <3>3 DEF IsList
  <2> HIDE DEF stored
  <2>3. DOMAIN file = DOMAIN config /\ file.Controller = config.Controller /\ file.Servers = stored
    BY <1>2 DEF Shaped
  <2>4. CASE ticked = 0
    <3>1. config' = file /\ settings' = settings
      BY <1>5, <2>4 DEF AcceptServers, stored
    <3> HIDE DEF file
    <3>2. SettingsListed' /\ IsList(config'.Servers)
      BY <1>2, <2>2, <2>3, <3>1 DEF SettingsListed
    <3> QED
      BY <1>1, <3>2, NothingOpen
  <2>5. CASE ticked # 0
    <3>1. SetField(file, "Server", Text[rows[ticked]])
      BY <1>5, <2>5 DEF AcceptServers, SetServer, stored
    <3> HIDE DEF file
    <3>2. SettingsListed' /\ IsList(config'.Servers)
      <4>1. /\ IsList(file.Servers)
            /\ "Server" # "Domains" /\ "Server" # "Devices" /\ "Server" # "Protocols"
        BY <2>2, <2>3
      <4> QED
        BY <1>2, <2>3, <3>1, <4>1, SetFieldListed
    <3> QED
      BY <1>1, <3>2, NothingOpen
  <2> QED
    BY <2>4, <2>5
<1>6. CASE AcceptProtocols
  <2>1. SetField(config, "Protocols", Boxes(ticked))
    BY <1>6 DEF AcceptProtocols, SetProtocolList
  <2>2. SettingsListed' /\ IsList(config'.Servers)
    <3>1. "Protocols" # "Domains" /\ "Protocols" # "Devices" /\ Boxes(ticked) \in ProtocolLists
      BY BoxesAre
    <3> QED
      BY <1>2, <2>1, <3>1, SetFieldListed
  <2> QED
    BY <1>1, <2>2, NothingOpen
<1> QED
  BY <1>3, <1>4, <1>5, <1>6

-----------------------------------------------------------------------------
(* The rest of the event loop *)

LEMMA MenuDialog ==
  ASSUME IInv, DialogInv, Menu
  PROVE  DialogInv'
<1>1. PICK start : SetField(config, "IsStart", start)
  BY DEF Menu, StartService, StopService
<1>2. /\ Shaped /\ SettingsListed /\ IsList(config.Servers) /\ "IsStart" \in Fields
      /\ "IsStart" # "Domains" /\ "IsStart" # "Devices" /\ "IsStart" # "Protocols"
  BY DEF IInv, SettingsInv, DialogInv, RowsListed, Fields
<1>3. SettingsListed' /\ IsList(config'.Servers)
  BY <1>1, <1>2, SetFieldListed
<1>4. UNCHANGED <<dialog, rows, ticked, asOpened>>
  BY DEF Menu, dialogVars
<1> QED
  BY <1>3, <1>4, WidgetsStay

LEMMA DatagramDialog ==
  ASSUME DialogInv, Datagram
  PROVE  DialogInv'
<1>1. UNCHANGED <<config, dialog, rows, ticked, asOpened>>
  BY DEF Datagram, ReadDatagram, ReadBlank, dialogVars
<1>2. Listed(settings') /\ ToSet(settings'.Protocols) = ToSet(config.Controller.Protocols)
  <2>1. ASSUME NEW start, NEW server, ReadDatagram(start, server)
        PROVE  /\ Listed(settings')
               /\ ToSet(settings'.Protocols) = ToSet(config.Controller.Protocols)
    <3> DEFINE s == [settings EXCEPT !["IsStart"] = start]
               t == [s EXCEPT !["Server"] = server]
    <3>1. "IsStart" \in Fields /\ "Server" \in Fields
      BY DEF Fields
    <3>2. Listed(s) /\ s.Protocols = settings.Protocols
      BY <3>1, FieldSet DEF DialogInv, SettingsListed
    <3>3. settings' = t
      BY <2>1 DEF ReadDatagram
    <3> HIDE DEF s
    <3>4. Listed(t) /\ t.Protocols = s.Protocols
      BY <3>1, <3>2, FieldSet
    <3> HIDE DEF t
    <3> QED
      BY <3>2, <3>3, <3>4 DEF DialogInv, SettingsListed
  <2>2. ASSUME ReadBlank
        PROVE  /\ Listed(settings')
               /\ ToSet(settings'.Protocols) = ToSet(config.Controller.Protocols)
    <3>1. settings' = Doubled(settings, config.Controller)
      BY <2>2 DEF ReadBlank, Doubled
    <3>2. /\ Listed(settings) /\ Listed(config.Controller)
          /\ ToSet(settings.Protocols) = ToSet(config.Controller.Protocols)
      BY DEF DialogInv, SettingsListed
    <3> QED
      BY <3>1, <3>2, ListsJoined
  <2> QED
    BY <2>1, <2>2 DEF Datagram
<1>3. SettingsListed' /\ IsList(config'.Servers)
  BY <1>1, <1>2 DEF DialogInv, SettingsListed, RowsListed
<1> QED
  BY <1>1, <1>3, WidgetsStay

LEMMA ClosingKeeps ==
  ASSUME DialogInv, Restart \/ Reject \/ CaptureClose \/ CaptureEscape
  PROVE  DialogInv'
<1>1. dialog' = "none" /\ asOpened' = Touched /\ config' = config
      /\ (settings' = settings \/ settings' = config.Controller)
  BY DEF Restart, StartAgain, Reject, CaptureClose, CaptureEscape, Close, controllerVars
<1>2. SettingsListed' /\ IsList(config'.Servers)
  BY <1>1 DEF DialogInv, SettingsListed, RowsListed
<1> QED
  BY <1>1, <1>2, NothingOpen

LEMMA NextDialog ==
  ASSUME IInv, DialogInv, [Next]_vars
  PROVE  DialogInv'
<1>1. CASE UNCHANGED vars
  BY <1>1, DialogUntouched DEF vars, controllerVars, dialogVars
<1>2. CASE DeleteServer \/ CaptureButton \/ CaptureItem
  <2>1. UNCHANGED <<settings, config, dialog, rows, ticked, asOpened>>
    BY <1>2 DEF DeleteServer, CaptureButton, CaptureItem, controllerVars
  <2> QED
    BY <2>1, DialogUntouched
<1> QED
  BY <1>1, <1>2, OpenKeeps, EditsKeep, ServerEditsKeep, AcceptDialogKeeps, MenuDialog,
     DatagramDialog, ClosingKeeps DEF Next

-----------------------------------------------------------------------------
(* What was opened and is accepted *)

LEMMA AcceptedAsShown ==
  ASSUME IInv, DialogInv, asOpened # Touched,
         AcceptServers \/ AcceptDomains \/ AcceptDevices \/ AcceptProtocols
  PROVE  settings' \in {settings, [settings EXCEPT ![Own[dialog]] = asOpened[1][Own[dialog]]]}
<1> DEFINE s == asOpened[1]
<1>1. ShownAsSet(s)
  BY DEF DialogInv
<1> HIDE DEF s
<1>2. ASSUME NEW file, NEW field, NEW value, SetField(file, field, value),
             field = Own[dialog], value = s[field]
      PROVE  settings' \in {settings, [settings EXCEPT ![Own[dialog]] = s[Own[dialog]]]}
  BY <1>2 DEF SetField
<1>3. CASE AcceptDomains
  <2>1. /\ dialog = "domains" /\ rows = AllOf(s.Domains, Split) /\ Clean(s.Domains)
        /\ s.Domains \in Seq(Entries)
    BY <1>1, <1>3 DEF AcceptDomains, Accept, ShownAsSet, Listed
  <2>2. AllOf(rows, Join) = s.Domains
    BY <2>1, ListComesBack
  <2>3. SetField(config, "Domains", s.Domains) /\ "Domains" = Own[dialog]
    BY <1>3, <2>1, <2>2 DEF AcceptDomains, SetDomainList, Own
  <2> QED
    BY <1>2, <2>3 DEF s
<1>4. CASE AcceptDevices
  <2>1. /\ dialog = "devices" /\ rows = AllOf(s.Devices, Split) /\ Clean(s.Devices)
        /\ s.Devices \in Seq(Addressed)
    BY <1>1, <1>4 DEF AcceptDevices, Accept, ShownAsSet, Listed
  <2>2. s.Devices \in Seq(Entries)
    BY <2>1, SeqGrows DEF Addressed
  <2>3. FlattenSeq(AllOf(rows, JoinNamed)) = s.Devices
    BY <2>1, <2>2, ListComesBack
  <2>4. settings' = [settings EXCEPT !.Devices = s.Devices] /\ Own[dialog] = "Devices"
    BY <1>4, <2>1, <2>3 DEF AcceptDevices, SetDeviceList, Own
  <2> QED
    BY <2>4 DEF s
<1>5. CASE AcceptServers
  <2>1. dialog = "servers"
    BY <1>5 DEF AcceptServers, Accept
  <2>2. CASE ticked = 0
    BY <1>5, <2>2 DEF AcceptServers
  <2>3. CASE ticked # 0
    <3>1. Text[rows[ticked]] = s.Server /\ Own[dialog] = "Server"
      BY <1>1, <2>1, <2>3 DEF ShownAsSet, Own
    <3>2. \E file : SetField(file, "Server", s.Server)
      BY <1>5, <2>3, <3>1 DEF AcceptServers, SetServer
    <3> QED
      BY <1>2, <3>1, <3>2 DEF s
  <2> QED
    BY <2>2, <2>3
<1>6. CASE AcceptProtocols
  <2>1. dialog = "protocols" /\ s.Protocols = Boxes(ticked) /\ Own[dialog] = "Protocols"
    BY <1>1, <1>6 DEF AcceptProtocols, Accept, ShownAsSet, Own
  <2>2. SetField(config, "Protocols", s.Protocols)
    BY <1>6, <2>1 DEF AcceptProtocols, SetProtocolList
  <2> QED
    BY <1>2, <2>1, <2>2 DEF s
<1> QED
  BY <1>3, <1>4, <1>5, <1>6

(***************************************************************************)
(* What the constructors of the dialogs take apart, their accept handlers  *)
(* put together again, whatever ReadConfig does in between: accepting a    *)
(* dialog that nobody has touched gives its own setting the value that it  *)
(* had when the dialog opened, or changes nothing.                         *)
(***************************************************************************)
THEOREM AcceptedAsOpened == Spec => UntouchedAccept
<1>1. IInv /\ DialogInv /\ [Next]_vars =>
        [asOpened # Touched
           /\ (AcceptServers \/ AcceptDomains \/ AcceptDevices \/ AcceptProtocols)
         => settings' \in {settings,
                           [settings EXCEPT ![Own[dialog]] = asOpened[1][Own[dialog]]]}]_vars
  BY AcceptedAsShown
<1>2. Init => IInv /\ DialogInv
  BY InitIInv, InitDialog
<1>3. IInv /\ DialogInv /\ [Next]_vars => IInv' /\ DialogInv'
  BY StepKeeps, NextDialog
<1> QED
  BY <1>1, <1>2, <1>3, PTL DEF Spec, UntouchedAccept

=============================================================================
