\* Domains, or devices, or servers with protocols, captures and the service;
\* datagrams double the lists, and the client restarts.
SPECIFICATION Spec
CONSTANTS
  Told <- FarOnly
  NoServer = ""
  DefaultServer <- LocalText
  MaxList = 2
  Names <- OddNames
  Notes <- OneNote
  DefaultName <- PlainName
  DefaultNote <- PlainNote
  Combos <- TwoCombos
  MaxRows = 1
  Macs <- OneMac
  ZeroMac <- NoMac
  BadMac <- WrongMac
  Endpoints <- AllEndpoints
  NewEndpoint <- Local
  Text <- TextOf
  Offered <- OneOrThree
INVARIANTS WindowCurrent SavedUnlessTold CaptureShown
PROPERTIES UntouchedAccept
