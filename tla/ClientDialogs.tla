--------------------------- MODULE ClientDialogs ---------------------------
(***************************************************************************)
(* The dialogs of client/: servers, domains, devices, protocols, capture.  *)
(* Each copies settings into widgets when it opens and gives them back     *)
(* when it is accepted.  One dialog is open at a time, but datagrams come  *)
(* in while it is.                                                         *)
(*                                                                         *)
(* A domain or a device is kept as one string with bars in it.  Here that  *)
(* string is the sequence of its fields, and so is a text that the user    *)
(* typed: a text with a bar is two fields.  A field with a place marker of *)
(* QString::arg in it stands as that marker.                               *)
(***************************************************************************)
EXTENDS ClientController, SequencesExt

CONSTANTS
  Names,          \* domain names that are typed: sequences of fields
  Notes,          \* descriptions that are typed
  Combos,         \* indices in the combo box
  MaxRows,        \* bound: no row is added to a dialog that has as many
  DefaultName, DefaultNote,
  Macs, ZeroMac, BadMac,
  Endpoints, NewEndpoint,     \* rows of the server list: [ip, port]
  Text,           \* Text[e] is the string "ip:port" of the endpoint e
  Offered         \* bound: what happens in one behaviour: sets of dialogs, and of
                  \* "service": it is started, stopped, and a server is named

Markers == {"%1", "%2", "%3"}

\* A text has at least one field, which is empty if nothing was typed.  Neither
\* an address nor an index has a marker in it.
ASSUME TextsAssumption ==
  /\ Names \cup Notes \cup Macs \cup {DefaultName, DefaultNote, ZeroMac, BadMac}
       \subseteq Seq(STRING) \ {<<>>}
  /\ \A mac \in Macs \cup {ZeroMac} : ToSet(mac) \cap Markers = {}
  /\ (Combos \cup {"0"}) \cap Markers = {}

VARIABLES
  offered,        \* bound: the set of Offered that happens
  dialog,         \* which dialog is open
  rows,           \* its rows
  ticked,         \* the row or the protocols that are ticked
  button,         \* what the button of the capture dialog offers
  crashed,
  dangling,       \* captureItem is connected to a dialog that is gone
  asOpened,       \* history: the settings when the dialog opened, while nobody
                  \* has touched it
  escaped         \* history: Esc left a capture running

dialogVars == <<dialog, rows, ticked, button, crashed, dangling, asOpened, escaped>>
vars == <<controllerVars, dialogVars, offered>>

Untouched == <<settings>>
Touched == <<>>

Protocols == {"DNS", "HTTP"}

NothingShown == rows = <<>> /\ ticked = 0 /\ button = "start"

Init ==
  /\ ControllerInit
  /\ offered \in Offered
  /\ dialog = "none"
  /\ NothingShown
  /\ crashed = FALSE
  /\ dangling = FALSE
  /\ asOpened = Touched
  /\ escaped = FALSE

-----------------------------------------------------------------------------
(* Rows of domains and devices *)

\* QString::arg puts the value in every place of the lowest marker, those that an
\* earlier value brought with it included.
Lowest(template) ==
  LET has == ToSet(template) IN
  IF "%1" \in has THEN "%1" ELSE IF "%2" \in has THEN "%2" ELSE "%3"

Arg(template, value) ==
  FlattenSeq([i \in DOMAIN template |->
                IF template[i] = Lowest(template) THEN value ELSE <<template[i]>>])

Join(row) ==
  Arg(Arg(Arg(<<"%1", "%2", "%3">>, row.name), <<row.combo>>), row.note)

\* toInt makes 0 of what is no number.
Index(field) == IF field \in Combos THEN field ELSE "0"

\* Faulty form: the combo box is left at its first item.
SplitName(entry) ==
  [name |-> <<entry[1]>>, combo |-> "0", note |-> <<entry[3]>>]

\* The fields after the third are dropped.
Split(entry) ==
  [name |-> <<entry[1]>>, combo |-> Index(entry[2]), note |-> <<entry[3]>>]

AllOf(list, Op(_)) == [i \in DOMAIN list |-> Op(list[i])]

\* Only fields that Join wrote one by one come back as they were.
Clean(list) ==
  \A i \in DOMAIN list : Len(list[i]) = 3 /\ ToSet(list[i]) \cap Markers = {}

Running == ~crashed

Open(kind) ==
  /\ Running
  /\ dialog = "none"
  /\ kind \in offered
  /\ dialog' = kind
  /\ UNCHANGED <<controllerVars, crashed, escaped>>

Close ==
  /\ dialog' = "none"
  /\ rows' = <<>>
  /\ ticked' = 0
  /\ button' = "start"
  /\ asOpened' = Touched

\* A change of the widgets only.
Edit(kind) ==
  /\ Running
  /\ dialog = kind
  /\ asOpened' = Touched
  /\ UNCHANGED <<controllerVars, dialog, button, crashed, dangling, escaped>>

Accept(kind) ==
  /\ Running
  /\ dialog = kind
  /\ Close
  /\ UNCHANGED <<IsCapture, crashed, dangling, escaped>>

Reject ==
  /\ Running
  /\ dialog \notin {"none", "capture"}
  /\ Close
  /\ UNCHANGED <<controllerVars, crashed, dangling, escaped>>

OpenList(kind, list) ==
  /\ Open(kind)
  /\ rows' = AllOf(list, Split)
  /\ asOpened' = IF Clean(list) THEN Untouched ELSE Touched
  /\ UNCHANGED <<ticked, button, dangling>>

OpenDomains == OpenList("domains", settings.Domains)
OpenDevices == OpenList("devices", settings.Devices)

AddRow(kind, row) ==
  /\ Edit(kind)
  /\ Len(rows) < MaxRows
  /\ rows' = Append(rows, row)
  /\ UNCHANGED ticked

DeleteRow(kind) ==
  /\ Edit(kind)
  /\ \E i \in DOMAIN rows : rows' = RemoveAt(rows, i)
  /\ UNCHANGED ticked

EditRow(kind, names) ==
  /\ Edit(kind)
  /\ \E i \in DOMAIN rows :
       \/ \E n \in names : rows' = [rows EXCEPT ![i].name = n]
       \/ \E c \in Combos : rows' = [rows EXCEPT ![i].combo = c]
       \/ \E t \in Notes : rows' = [rows EXCEPT ![i].note = t]
  /\ UNCHANGED ticked

AddDomain == AddRow("domains", [name |-> DefaultName, combo |-> "0", note |-> DefaultNote])
EditDomain == EditRow("domains", Names)

AcceptDomains ==
  /\ Accept("domains")
  /\ SetDomainList(AllOf(rows, Join))

\* on_treeWidget_itemChanged: anything but an address, or nothing, is replaced.
Checked(mac) == IF mac = BadMac THEN ZeroMac ELSE mac

AddDevice == AddRow("devices", [name |-> ZeroMac, combo |-> "0", note |-> <<"">>])
EditDevice == EditRow("devices", {Checked(m) : m \in Macs \cup {<<"">>, BadMac}})

\* Rows without an address are left out.
JoinNamed(row) == IF row.name = <<"">> THEN <<>> ELSE <<Join(row)>>
AcceptDevices ==
  /\ Accept("devices")
  /\ SetDeviceList(FlattenSeq(AllOf(rows, JoinNamed)))

-----------------------------------------------------------------------------
(* The list of servers *)

\* The group of boxes is exclusive: of several that match the last stays ticked.
TickOf(list) ==
  LET hits == {i \in DOMAIN list : Text[list[i]] = settings.Server} IN
  IF hits = {} THEN 0 ELSE CHOOSE i \in hits : \A j \in hits : j <= i

OpenServers ==
  /\ Open("servers")
  /\ rows' = config.Servers
  /\ ticked' = TickOf(config.Servers)
  /\ asOpened' = Untouched
  /\ UNCHANGED <<button, dangling>>

AddServer ==
  /\ Edit("servers")
  /\ Len(rows) < MaxRows
  /\ rows' = Append(rows, NewEndpoint)
  /\ UNCHANGED ticked

EditServer ==
  /\ Edit("servers")
  /\ \E i \in DOMAIN rows, e \in Endpoints : rows' = [rows EXCEPT ![i] = e]
  /\ UNCHANGED ticked

TickServer ==
  /\ Edit("servers")
  /\ \E i \in DOMAIN rows : ticked' = i
  /\ UNCHANGED rows

\* The box is looked for when its row has left the tree: removeButton(NULL).
DeleteServer ==
  /\ Running
  /\ dialog = "servers"
  /\ rows # <<>>
  /\ crashed' = TRUE
  /\ UNCHANGED <<controllerVars, dialog, rows, ticked, button, dangling, asOpened, escaped>>

\* toInt makes port 0 of what is no number; the controller gets the text.
Stored(e) == [e EXCEPT !.port = IF @ = "bad" THEN "0" ELSE @]

\* Faulty form: what SetServer has written is written over.
AcceptServersOver ==
  /\ Accept("servers")
  /\ config' = [config EXCEPT !.Servers = AllOf(rows, Stored)]
  /\ IF ticked = 0
     THEN UNCHANGED <<settings, window, unsaved>>
     ELSE settings' = [settings EXCEPT !.Server = Text[rows[ticked]]] /\ EmitChanged /\ unsaved' = {}

AcceptServers ==
  /\ Accept("servers")
  /\ LET file == [config EXCEPT !.Servers = AllOf(rows, Stored)] IN
     IF ticked = 0
     THEN config' = file /\ UNCHANGED <<settings, window, unsaved>>
     ELSE SetServer(file, Text[rows[ticked]])

-----------------------------------------------------------------------------
(* Protocols *)

\* The boxes in their order: two of the six.
Box(p, set) == IF p \in set THEN <<p>> ELSE <<>>
Boxes(set) == Box("DNS", set) \o Box("HTTP", set)

\* An empty datagram lists protocols twice, which a box cannot show.
NoneTwice(list) == \A i, j \in DOMAIN list : list[i] = list[j] => i = j

OpenProtocols ==
  /\ Open("protocols")
  /\ ticked' = ToSet(settings.Protocols)
  /\ asOpened' = IF NoneTwice(settings.Protocols) THEN Untouched ELSE Touched
  /\ UNCHANGED <<rows, button, dangling>>

TickProtocol ==
  /\ Edit("protocols")
  /\ \E p \in Protocols :
       ticked' = IF p \in ticked THEN ticked \ {p} ELSE ticked \cup {p}
  /\ UNCHANGED rows

AcceptProtocols ==
  /\ Accept("protocols")
  /\ SetProtocolList(Boxes(ticked))

-----------------------------------------------------------------------------
(* The capture dialog *)

OpenCapture ==
  /\ Open("capture")
  /\ asOpened' = Touched
  /\ UNCHANGED <<rows, ticked, button, dangling>>

CaptureButton ==
  /\ Running
  /\ dialog = "capture"
  /\ IF IsCapture THEN StopCapture /\ button' = "start" /\ escaped' = FALSE
                  ELSE StartCapture /\ button' = "stop" /\ escaped' = escaped
  /\ UNCHANGED <<settings, config, window, unsaved, dialog, rows, ticked, crashed,
                 dangling, asOpened>>

\* Faulty form: the window closes and the capture goes on.
CaptureCloseOnly ==
  /\ Running
  /\ dialog = "capture"
  /\ Close
  /\ dangling' = TRUE
  /\ escaped' = FALSE
  /\ UNCHANGED <<controllerVars, crashed>>

\* closeEvent.  The connection to captureItem has no context and stays.
CaptureClose ==
  /\ Running
  /\ dialog = "capture"
  /\ Close
  /\ StopCapture
  /\ dangling' = TRUE
  /\ escaped' = FALSE
  /\ UNCHANGED <<settings, config, window, unsaved, crashed>>

\* Esc hides the dialog without a close event.
CaptureEscape ==
  /\ Running
  /\ dialog = "capture"
  /\ Close
  /\ dangling' = TRUE
  /\ escaped' = IsCapture
  /\ UNCHANGED <<controllerVars, crashed>>

\* A captured packet arrives: the slots of dialogs that are gone run too, and
\* may or may not crash.
CaptureItem ==
  /\ Running
  /\ dangling
  /\ crashed' \in BOOLEAN
  /\ UNCHANGED <<controllerVars, dialog, rows, ticked, button, dangling, asOpened, escaped>>

-----------------------------------------------------------------------------
(* The event loop *)

Menu ==
  /\ Running
  /\ dialog = "none"
  /\ "service" \in offered
  /\ StartService \/ StopService
  /\ UNCHANGED dialogVars

Datagram ==
  /\ Running
  /\ \/ /\ "service" \in offered
        /\ \E start \in BOOLEAN, server \in Told : ReadDatagram(start, server)
     \/ ReadDatagram(FALSE, NoServer)
     \/ ReadBlank
  /\ UNCHANGED dialogVars

Restart ==
  /\ StartAgain
  /\ Close
  /\ crashed' = FALSE
  /\ dangling' = FALSE
  /\ escaped' = FALSE

Next ==
  /\ \/ Menu \/ Datagram \/ Restart \/ Reject
     \/ OpenDomains \/ AddDomain \/ EditDomain \/ DeleteRow("domains") \/ AcceptDomains
     \/ OpenDevices \/ AddDevice \/ EditDevice \/ DeleteRow("devices") \/ AcceptDevices
     \/ OpenServers \/ AddServer \/ EditServer \/ TickServer \/ DeleteServer \/ AcceptServers
     \/ OpenProtocols \/ TickProtocol \/ AcceptProtocols
     \/ OpenCapture \/ CaptureButton \/ CaptureClose \/ CaptureEscape \/ CaptureItem
  /\ UNCHANGED offered

Spec == Init /\ [][Next]_vars

-----------------------------------------------------------------------------
Own == [servers |-> "Server", domains |-> "Domains", devices |-> "Devices",
        protocols |-> "Protocols"]

(***************************************************************************)
(* A dialog that is accepted as it opened changes no setting, unless a     *)
(* datagram has changed its own while it was open: then it puts back what  *)
(* there was when it opened, and leaves the others as the datagram set     *)
(* them.  What it takes apart it puts together again.  Not covered are     *)
(* texts with a bar or a place marker in them, and protocols listed twice, *)
(* which it lists once.                                                    *)
(***************************************************************************)
UntouchedAccept ==
  [][asOpened # Touched /\ (AcceptServers \/ AcceptDomains \/ AcceptDevices \/ AcceptProtocols)
       => settings' \in {settings, [settings EXCEPT ![Own[dialog]] = asOpened[1][Own[dialog]]]}]_vars

(***************************************************************************)
(* The client captures exactly while the capture dialog offers to stop,    *)
(* unless Esc has left a capture running.                                  *)
(***************************************************************************)
CaptureShown ==
  ~escaped => (IsCapture <=> dialog = "capture" /\ button = "stop")

=============================================================================
