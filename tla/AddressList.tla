---------------------------- MODULE AddressList ----------------------------
(***************************************************************************)
(* controller/apnic.cpp: the thread that downloads APNIC's list and marks  *)
(* the Chinese networks in it, as they arrive, in two bitmaps              *)
(* (controller/mmap.cpp), and the init and release that surround it.       *)
(*                                                                         *)
(* A read returns up to 512 bytes of the list, wherever that ends, and     *)
(* each read's bytes are looked at alone.  What matters is where it cuts a *)
(* line: inside the prefix that a line is searched for, between that and   *)
(* the bar behind the address, or after that.  So the list is a sequence   *)
(* of such pieces of lines, and a read returns any number of them.         *)
(***************************************************************************)
EXTENDS SequencesExt

CONSTANTS
  List,       \* the list: a sequence of networks [family, key] and of Others
  Other,      \* a line that is no Chinese network
  MaxRead     \* bound: the pieces that one read may return

VARIABLES
  apn,        \* what init or release does next
  maps,       \* the families whose bitmap is mapped
  sync_exit,  \* _exit: the thread is to end
  thread,     \* where the thread of sync stands
  stream,     \* what the server has yet to send
  hungup,     \* the server has closed the connection
  buf,        \* what was received and not looked at
  marked,     \* the bits set
  crashed,    \* the process was ended by an exception or a bad address
  stopped,    \* history: the lines of the last read ended with an empty one
  cut,        \* history: the networks of which a part was looked at alone
  failed,     \* history: the families whose file could not be mapped
  unresolved  \* history: the host had no address

downloadVars == <<thread, stream, hungup, buf, marked, crashed, stopped, cut, unresolved>>
addressVars == <<apn, maps, sync_exit, failed, downloadVars>>

Parts(line) ==
  IF line = Other THEN <<"text", "end">>
  ELSE <<"apnic|", "CN|ipv", "4|address", "|size", "end">>

Pieces(i) == [j \in DOMAIN Parts(List[i]) |-> [line |-> i, part |-> Parts(List[i])[j]]]

Networks == {i \in DOMAIN List : List[i] # Other}

ASSUME ListAssumption ==
  /\ List \in Seq(ToSet(List))
  /\ \A i \in Networks : List[i].family \in {4, 6}

\* The index of an IPv4 network is the two bytes in the middle of its address,
\* that of an IPv6 network its first four: `key' is what these leave of it.
Bit(i) == <<List[i].family, List[i].key>>

AddressInit ==
  /\ apn = "down"
  /\ maps = {}
  /\ sync_exit = FALSE
  /\ thread = "none"
  /\ stream = FlattenSeq([i \in DOMAIN List |-> Pieces(i)])
  /\ hungup = FALSE
  /\ buf = <<>>
  /\ marked = {}
  /\ crashed = FALSE
  /\ stopped = FALSE
  /\ cut = {}
  /\ failed = {}
  /\ unresolved = FALSE

-----------------------------------------------------------------------------
(* init and release, called by the controller *)

ApnGoto(from, to) ==
  /\ apn = from
  /\ apn' = to

\* mmap::open, whose result nobody looks at.
OpenMap(at, family, next) ==
  /\ ApnGoto(at, next)
  /\ \/ maps' = maps \cup {family} /\ UNCHANGED failed
     \/ failed' = failed \cup {family} /\ UNCHANGED maps
  /\ UNCHANGED <<sync_exit, downloadVars>>

StartSync(at, next) ==
  /\ ApnGoto(at, next)
  /\ thread' = "resolve"
  /\ UNCHANGED <<maps, sync_exit, failed, stream, hungup, buf, marked, crashed,
                 stopped, cut, unresolved>>

\* Faulty form: the download starts before there is a place for it.
InitSyncFirst ==
  \/ StartSync("down", "open_ipv4")
  \/ OpenMap("open_ipv4", 4, "open_ipv6")
  \/ OpenMap("open_ipv6", 6, "up")

InitStep ==
  \/ OpenMap("down", 4, "open_ipv6")
  \/ OpenMap("open_ipv6", 6, "sync")
  \/ StartSync("sync", "up")

CloseMap(at, family, next) ==
  /\ ApnGoto(at, next)
  /\ maps' = maps \ {family}
  /\ UNCHANGED <<sync_exit, failed, downloadVars>>

SetSyncExit ==
  /\ ApnGoto("set_exit", "join")
  /\ sync_exit' = TRUE
  /\ UNCHANGED <<maps, failed, downloadVars>>

Join ==
  /\ thread = "done"
  /\ ApnGoto("join", "down")
  /\ UNCHANGED <<maps, sync_exit, failed, downloadVars>>

ReleaseStep ==
  \/ CloseMap("up", 4, "close_ipv6")
  \/ CloseMap("close_ipv6", 6, "set_exit")
  \/ SetSyncExit
  \/ Join

-----------------------------------------------------------------------------
(* The thread *)

ThreadGoto(from, to) ==
  /\ thread = from
  /\ thread' = to
  /\ UNCHANGED <<apn, maps, sync_exit, failed>>

\* resolve is called without an error code: it throws, and nobody catches.
Resolve ==
  /\ ThreadGoto("resolve", "connect")
  /\ unresolved' \in BOOLEAN
  /\ crashed' = unresolved'
  /\ UNCHANGED <<stream, hungup, buf, marked, stopped, cut>>

\* No address answers, or the request cannot be written; or both go well.
Connect ==
  /\ \E next \in {"done", "test"} : ThreadGoto("connect", next)
  /\ UNCHANGED <<stream, hungup, buf, marked, crashed, stopped, cut, unresolved>>

TestSyncExit ==
  /\ ThreadGoto("test", IF sync_exit THEN "done" ELSE "read")
  /\ UNCHANGED <<stream, hungup, buf, marked, crashed, stopped, cut, unresolved>>

\* read_some waits until there is something, or an error, as long as the server
\* lets it.
Read ==
  /\ ThreadGoto("read", "lines")
  /\ \E n \in 1 .. MaxRead :
       /\ n <= Len(stream)
       /\ buf' = buf \o SubSeq(stream, 1, n)
       /\ stream' = SubSeq(stream, n + 1, Len(stream))
  /\ stopped' = FALSE
  /\ UNCHANGED <<hungup, marked, crashed, cut, unresolved>>

ReadFails ==
  /\ hungup
  /\ ThreadGoto("read", "done")
  /\ UNCHANGED <<stream, hungup, buf, marked, crashed, stopped, cut, unresolved>>

\* What getline takes: a line, or all there is when its end is missing.
EndOfLine == SelectInSeq(buf, LAMBDA piece : piece.part = "end")
Line == IF EndOfLine = 0 THEN buf ELSE SubSeq(buf, 1, EndOfLine - 1)
Behind == IF EndOfLine = 0 THEN <<>> ELSE SubSeq(buf, EndOfLine + 1, Len(buf))

\* Faulty form: what is behind the empty line is thrown away.
NoLineMoreDrops ==
  /\ Line = <<>>
  /\ ThreadGoto("lines", "test")
  /\ buf' = <<>>
  /\ stopped' = (EndOfLine # 0)
  /\ UNCHANGED <<stream, hungup, marked, crashed, cut, unresolved>>

\* An empty line ends the loop as the end of the buffer does: what is behind
\* it waits for the next read, if there is one.  A read that begins with the
\* end of a line shows one.
NoLineMore ==
  /\ Line = <<>>
  /\ ThreadGoto("lines", "test")
  /\ buf' = Behind
  /\ stopped' = (EndOfLine # 0)
  /\ UNCHANGED <<stream, hungup, marked, crashed, cut, unresolved>>

\* The prefix must be whole to be found.  When it is, the address is what lies
\* before the next bar; without that bar the two iterators are out of order,
\* and the string they should make is too long.  The bitmap may not be mapped.
TakeLine ==
  LET i == Head(Line).line
      has == {piece.part : piece \in ToSet(Line)}
      hit == {"apnic|", "CN|ipv"} \subseteq has
      whole == hit /\ {"4|address", "|size"} \subseteq has
      open == List[i].family \in maps IN
  /\ Line # <<>>
  /\ ThreadGoto("lines", "lines")
  /\ buf' = Behind
  /\ cut' = IF i \in Networks /\ ~whole THEN cut \cup {i} ELSE cut
  /\ marked' = IF whole /\ open THEN marked \cup {Bit(i)} ELSE marked
  /\ crashed' = (hit /\ ~(whole /\ open))
  /\ UNCHANGED <<stream, hungup, stopped, unresolved>>

\* What the thread does without waiting for the server to send.
OwnStep == Resolve \/ Connect \/ TestSyncExit \/ ReadFails \/ NoLineMore \/ TakeLine

ThreadStep == OwnStep \/ Read

\* The server ends the connection when it likes, before the list is through or
\* after, or never.
HangUp ==
  /\ thread \in {"test", "read", "lines"}
  /\ ~hungup
  /\ hungup' = TRUE
  /\ UNCHANGED <<apn, maps, sync_exit, failed, thread, stream, buf, marked,
                 crashed, stopped, cut, unresolved>>

=============================================================================
