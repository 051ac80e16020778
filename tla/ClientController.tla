-------------------------- MODULE ClientController --------------------------
(***************************************************************************)
(* client/Controller.cpp: the settings in memory, their copy in config.ini *)
(* and what the main window (client/MainWindow.cpp) shows of them.         *)
(*                                                                         *)
(* Everything runs in one event loop: a handler is one step.  What is sent *)
(* to the route is left out, for no answer ties the client to it: the      *)
(* datagrams that come in are whatever the route sends.                    *)
(***************************************************************************)
EXTENDS Sequences, Naturals

CONSTANTS
  Told,         \* the servers a datagram may name, NoServer being none
  NoServer,
  DefaultServer,
  MaxList       \* bound: no list of the settings is longer

VARIABLES
  settings,     \* Private: IsStart, Server, Domains, Devices, Protocols
  IsCapture,
  config,       \* config.ini: the group Controller and the array Servers
  window,       \* what the main window shows
  unsaved       \* history: why the settings may differ from config.ini

controllerVars == <<settings, IsCapture, config, window, unsaved>>

Lists == {"Domains", "Devices", "Protocols"}
Reasons == {"told", "blank", "devices"}

View(s) == [start |-> s.IsStart, server |-> s.Server]

FirstSettings ==
  [IsStart |-> FALSE, Server |-> DefaultServer,
   Domains |-> <<>>, Devices |-> <<>>, Protocols |-> <<>>]

\* The first start finds no config.ini.
ControllerInit ==
  /\ settings = FirstSettings
  /\ IsCapture = FALSE
  /\ config = [Controller |-> FirstSettings, Servers |-> <<>>]
  /\ window = View(FirstSettings)
  /\ unsaved = {}

-----------------------------------------------------------------------------
(* Setters *)

\* The group Controller of config.ini is written, the rest is as in file.
WriteConfig(file) ==
  /\ config' = [file EXCEPT !.Controller = settings']
  /\ unsaved' = {}

\* What configChanged makes of the main window.
EmitChanged == window' = View(settings')

\* The setters that write; setting what is set already does nothing.
SetField(file, field, value) ==
  IF settings[field] = value
  THEN config' = file /\ UNCHANGED <<settings, window, unsaved>>
  ELSE /\ settings' = [settings EXCEPT ![field] = value]
       /\ WriteConfig(file)
       /\ EmitChanged

SetServer(file, endpoint) == SetField(file, "Server", endpoint)
SetDomainList(domains) == SetField(config, "Domains", domains)
SetProtocolList(protocols) == SetField(config, "Protocols", protocols)

\* The devices wait for another setter to write them.
SetDeviceList(devices) ==
  /\ settings' = [settings EXCEPT !.Devices = devices]
  /\ unsaved' = unsaved \cup {"devices"}
  /\ UNCHANGED <<config, window>>

StartService ==
  /\ window.start = FALSE
  /\ SetField(config, "IsStart", TRUE)
  /\ UNCHANGED IsCapture

StopService ==
  /\ window.start = TRUE
  /\ SetField(config, "IsStart", FALSE)
  /\ UNCHANGED IsCapture

StartCapture == IsCapture' = TRUE
StopCapture == IsCapture' = FALSE

-----------------------------------------------------------------------------
(* ReadConfig *)

\* Faulty form: the window is not told.
ReadDatagramSilently(start, server) ==
  /\ settings' = [settings EXCEPT !.IsStart = start, !.Server = server]
  /\ unsaved' = unsaved \cup {"told"}
  /\ UNCHANGED <<IsCapture, config, window>>

\* A datagram: JSON whose lists are parsed and forgotten.  What is not JSON, or
\* lacks the values, stops the service and names no server.
ReadDatagram(start, server) ==
  /\ settings' = [settings EXCEPT !.IsStart = start, !.Server = server]
  /\ unsaved' = unsaved \cup {"told"}
  /\ EmitChanged
  /\ UNCHANGED <<IsCapture, config>>

\* An empty datagram reads config.ini again, behind what the lists hold.
ReadBlank ==
  /\ \A l \in Lists :
       Len(settings[l]) + Len(config.Controller[l]) <= MaxList
  /\ settings' = [f \in DOMAIN settings |->
                    IF f \in Lists THEN settings[f] \o config.Controller[f]
                                   ELSE config.Controller[f]]
  /\ unsaved' = (unsaved \ {"told"}) \cup {"blank"}
  /\ EmitChanged
  /\ UNCHANGED <<IsCapture, config>>

\* The process ended, however, and starts again.
StartAgain ==
  /\ settings' = config.Controller
  /\ IsCapture' = FALSE
  /\ window' = View(settings')
  /\ unsaved' = {}
  /\ UNCHANGED config

-----------------------------------------------------------------------------
(***************************************************************************)
(* The main window shows the settings in force, whichever of the setters,  *)
(* dialogs and datagrams changed them last.                                *)
(***************************************************************************)
WindowCurrent == window = View(settings)

(***************************************************************************)
(* A restart, at any moment, brings back the settings, but for a service   *)
(* and server that a datagram has named, lists that an empty datagram has  *)
(* read twice, and devices, when nothing was written since.                *)
(***************************************************************************)
SavedUnlessTold ==
  LET Same(f) == config.Controller[f] = settings[f] IN
  /\ "told" \notin unsaved => Same("IsStart") /\ Same("Server")
  /\ "blank" \notin unsaved => Same("Domains") /\ Same("Protocols")
  /\ {"blank", "devices"} \cap unsaved = {} => Same("Devices")

=============================================================================
