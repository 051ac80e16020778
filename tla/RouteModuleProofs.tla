------------------------- MODULE RouteModuleProofs -------------------------
(***************************************************************************)
(* Proofs about the hook of server/main.c and its map of limits, for any   *)
(* number of CPUs, packets and maps.                                       *)
(***************************************************************************)
EXTENDS RouteModule, SequenceTheorems, TLAPS

Stages == {"idle", "macs_of", "domains_of", "macs", "domains", "free", "install"}
Loaders == [at : Stages, msg : Messages, map : Nat, i : Nat, data : Seq(Pieces),
            strayed : BOOLEAN]

\* The numbers of the maps there are have been given out.
Typed ==
  /\ life \in {"out", "live", "unhooked"}
  /\ made \in Nat
  /\ limit_map \in 0 .. made
  /\ alive \subseteq 0 .. made
  /\ filled \subseteq 0 .. made
  /\ config \in Heads
  /\ cpu \in [Cpus -> Loaders]
  /\ harmed \in BOOLEAN /\ overlapped \in BOOLEAN /\ overtaken \in BOOLEAN
  /\ \A c \in Cpus : cpu[c].map \in 0 .. made

\* A CPU between two calls has nothing left of the last one.
Resting == \A c \in Cpus : ~Loading(c) => cpu[c] = Idle

OneAtATime ==
  ~overlapped => \A c, d \in Cpus : Loading(c) /\ Loading(d) => c = d

\* Nothing writes to a map that is being prepared: entries go to the one in force.
StillEmpty ==
  /\ \A c \in Cpus : Loading(c) => cpu[c].map \notin filled \cup {limit_map}
  /\ \A c, d \in Cpus : Loading(c) /\ Loading(d) /\ c # d => cpu[c].map # cpu[d].map
  /\ Quiet => limit_map \notin filled

NobodyCaptures == capture = {} /\ fate.sent # "copy"

\* The maps there are: the one in force, until it is freed, and the one made.
Accounted ==
  /\ life = "live" => ~overtaken
  /\ ~overlapped /\ ~overtaken => \A c \in Cpus : Loading(c) =>
       /\ life = "live"
       /\ alive = IF cpu[c].at = "install" THEN {cpu[c].map} ELSE {limit_map, cpu[c].map}

\* Call l has stepped over n pieces of its message.
Behind(l, n) ==
  /\ Len(l.data) = Len(l.msg.data) - n
  /\ \A k \in 1 .. Len(l.data) : l.data[k] = l.msg.data[k + n]

\* Where call l is in its message, if that is whole.
OnTrack(l) == Whole(l.msg) =>
  /\ l.at \in {"macs_of", "domains_of"} => ~l.strayed /\ l.i = 0 /\ Behind(l, 0)
  /\ l.at = "macs" => ~l.strayed /\ l.i <= l.msg.macs /\ Behind(l, 1 + l.i)
  /\ l.at = "domains" /\ l.i = 0 => Behind(l, 1 + l.msg.macs)
  /\ l.strayed => l.msg.domains > 1

\* The counts in force are those of the message that is being read.
Following ==
  ~overlapped => \A c \in Cpus : Loading(c) =>
    /\ OnTrack(cpu[c])
    /\ cpu[c].at # "macs_of" => config.macs = cpu[c].msg.macs
    /\ cpu[c].at \notin {"macs_of", "domains_of"} => config.domains = cpu[c].msg.domains

IInv == Typed /\ Resting /\ OneAtATime /\ StillEmpty /\ NobodyCaptures
          /\ Accounted /\ MapsBalanced /\ Following

-----------------------------------------------------------------------------
USE DEF NoConfig, Heads, Loading, maps, history

LEMMA PrefixIs ==
  ASSUME NEW S, NEW s \in Seq(S), NEW t \in Seq(S)
  PROVE  IsPrefix(s, t) <=> Len(s) <= Len(t) /\ \A k \in 1 .. Len(s) : s[k] = t[k]
<1>1. Len(s) \in Nat /\ Len(t) \in Nat /\ 1 \in Int /\ Len(s) \in Int
      /\ (\A k \in 1 .. Len(s) : s[k] \in S) /\ (\A k \in 1 .. Len(t) : t[k] \in S)
  OBVIOUS
<1> DEFINE a == SubSeq(s, 1, Len(s))
           b == SubSeq(t, 1, Len(s))
<1>2. ASSUME Len(s) <= Len(t)
      PROVE  /\ a \in Seq(S) /\ b \in Seq(S) /\ Len(a) = Len(s) /\ Len(b) = Len(s)
             /\ \A k \in 1 .. Len(s) : a[k] = s[k] /\ b[k] = t[k]
  <2>1. \A k \in 1 .. Len(s) : t[k] \in S
    BY <1>1, <1>2
  <2>2. /\ a \in Seq(S) /\ Len(a) = IF 1 <= Len(s) THEN Len(s) - 1 + 1 ELSE 0
        /\ \A k \in 1 .. Len(s) - 1 + 1 : a[k] = s[1 + k - 1]
    BY <1>1, SubSeqProperties
  <2>3. /\ b \in Seq(S) /\ Len(b) = IF 1 <= Len(s) THEN Len(s) - 1 + 1 ELSE 0
        /\ \A k \in 1 .. Len(s) - 1 + 1 : b[k] = t[1 + k - 1]
    BY <1>1, <2>1, SubSeqProperties
  <2> HIDE DEF a, b
  <2> QED
    BY <1>1, <2>2, <2>3
<1> HIDE DEF a, b
<1>3. ASSUME Len(s) <= Len(t) PROVE a = b <=> \A k \in 1 .. Len(s) : s[k] = t[k]
  <2>1. (\A k \in 1 .. Len(s) : a[k] = b[k]) => a = b
    BY <1>2, <1>3, SeqEqual
  <2> QED
    BY <1>2, <1>3, <2>1
<1> QED
  BY <1>3 DEF IsPrefix, a, b

\* What a whole message begins with.
LEMMA WholeIs ==
  ASSUME NEW msg \in Messages, Whole(msg)
  PROVE  /\ Len(msg.data) >= 1 + msg.macs + 2 * msg.domains
         /\ msg.data[1] = "head"
         /\ \A k \in 1 .. msg.macs : msg.data[k + 1] = "mac"
         /\ msg.domains > 0 => /\ msg.data[msg.macs + 2] = "domain"
                               /\ msg.data[msg.macs + 3] = "name"
<1> DEFINE L == Layout(msg)
           m == msg.macs
           d == msg.domains
           n == 1 + m + 2 * d
<1>1. m \in Nat /\ d \in Nat /\ n \in Nat /\ msg.data \in Seq(Pieces)
  BY DEF Messages
<1>2. L \in [1 .. n -> Pieces]
  BY <1>1 DEF Layout, Pieces
<1>3. L \in Seq(Pieces) /\ Len(L) = n
  <2>1. L \in Seq(Pieces)
    BY <1>1, <1>2, SeqDef
  <2> QED
    BY <1>1, <1>2, <2>1, LenProperties
<1>4. \A k \in 1 .. n : L[k] = CASE k = 1 -> "head"
                                 [] k \in 2 .. 1 + m -> "mac"
                                 [] OTHER -> IF (k - m) % 2 = 0 THEN "domain" ELSE "name"
  BY DEF Layout
<1>5. IsPrefix(L, msg.data)
  BY DEF Whole
<1> HIDE DEF L
<1>6. Len(msg.data) >= n /\ \A k \in 1 .. n : msg.data[k] = L[k]
  BY <1>1, <1>3, <1>5, PrefixIs
<1>7. L[1] = "head" /\ 1 \in 1 .. n
  BY <1>1, <1>4
<1>8. \A k \in 1 .. m : L[k + 1] = "mac" /\ k + 1 \in 1 .. n
  BY <1>1, <1>4
<1>9. d > 0 => /\ m + 2 \in 1 .. n /\ L[m + 2] = "domain"
               /\ m + 3 \in 1 .. n /\ L[m + 3] = "name"
  <2> SUFFICES ASSUME d > 0
               PROVE  /\ m + 2 \in 1 .. n /\ L[m + 2] = "domain"
                      /\ m + 3 \in 1 .. n /\ L[m + 3] = "name"
    OBVIOUS
  <2>1. ASSUME NEW k \in 1 .. n, k # 1, k \notin 2 .. 1 + m
        PROVE  L[k] = IF (k - m) % 2 = 0 THEN "domain" ELSE "name"
    BY <1>4, <2>1, Zenon
  <2>2. ASSUME NEW k, k = m + 2 PROVE k \in 1 .. n /\ L[k] = "domain"
    <3>1. k \in 1 .. n /\ k # 1 /\ k \notin 2 .. 1 + m
      BY <1>1, <2>2
    <3>2. (k - m) % 2 = 0
      BY <1>1, <2>2
    <3> QED
      BY <2>1, <3>1, <3>2, Zenon
  <2>3. ASSUME NEW k, k = m + 3 PROVE k \in 1 .. n /\ L[k] = "name"
    <3>1. k \in 1 .. n /\ k # 1 /\ k \notin 2 .. 1 + m
      BY <1>1, <2>3
    <3>2. (k - m) % 2 # 0
      BY <1>1, <2>3
    <3> QED
      BY <2>1, <3>1, <3>2, Zenon
  <2> QED
    BY <2>2, <2>3, Zenon
<1> QED
  BY <1>6, <1>7, <1>8, <1>9

\* A message that long has room for a mac, and for a domain and its name.
LEMMA Room ==
  ASSUME NEW a \in Nat, NEW m \in Nat, NEW d \in Nat, a >= 1 + m + 2 * d
  PROVE  /\ \A i \in Nat : i < m => 1 + i < a
         /\ d > 0 => 1 + m < a /\ 1 + m + 1 < a
OBVIOUS

\* What reading leaves.
LEMMA ReadsTyped ==
  ASSUME NEW c \in Cpus, cpu[c] \in Loaders, NEW pieces, NEW on \in BOOLEAN
  PROVE  LET l == cpu[c]
             r == Reads(c, pieces, on)
         IN /\ r \in Loaders
            /\ r.at = l.at /\ r.msg = l.msg /\ r.map = l.map /\ r.i = l.i
            /\ r.strayed = (l.strayed \/ ~IsPrefix(pieces, l.data))
            /\ r.data = IF on /\ l.data # <<>> THEN Tail(l.data) ELSE l.data
<1> DEFINE l == cpu[c]
           rest == IF on /\ l.data # <<>> THEN Tail(l.data) ELSE l.data
           astray == l.strayed \/ ~IsPrefix(pieces, l.data)
<1>1. l.data \in Seq(Pieces) /\ l.strayed \in BOOLEAN
  BY DEF Loaders
<1>2. rest \in Seq(Pieces)
  BY <1>1, HeadTailProperties
<1>3. astray \in BOOLEAN
  OBVIOUS
<1>4. Reads(c, pieces, on) = [l EXCEPT !.strayed = astray, !.data = rest]
  BY DEF Reads, Loaders
<1> HIDE DEF rest, astray
<1>5. /\ Reads(c, pieces, on).at = l.at /\ Reads(c, pieces, on).msg = l.msg
      /\ Reads(c, pieces, on).map = l.map /\ Reads(c, pieces, on).i = l.i
      /\ Reads(c, pieces, on).data = rest
  BY <1>4 DEF Loaders
<1>6. Reads(c, pieces, on).strayed = astray
  BY <1>4, Zenon DEF Loaders
<1>7. Reads(c, pieces, on) \in Loaders
  BY <1>2, <1>3, <1>4, Zenon DEF Loaders
<1> QED
  BY <1>5, <1>6, <1>7 DEF rest, astray

\* Pieces that are where call l stands in its message are read, and stepped over.
LEMMA ReadsRight ==
  ASSUME NEW l \in Loaders, NEW n \in Nat, Behind(l, n), n < Len(l.msg.data)
  PROVE  /\ l.data # <<>>
         /\ \A x \in Pieces : l.msg.data[n + 1] = x => IsPrefix(<<x>>, l.data)
         /\ \A x, y \in Pieces :
              /\ n + 1 < Len(l.msg.data)
              /\ l.msg.data[n + 1] = x /\ l.msg.data[n + 2] = y
              => IsPrefix(<<x, y>>, l.data)
         /\ \A r : r.msg = l.msg /\ r.data = Tail(l.data) => Behind(r, n + 1)
<1>1. l.data \in Seq(Pieces) /\ l.msg.data \in Seq(Pieces)
  BY DEF Loaders, Messages
<1>2. Len(l.data) = Len(l.msg.data) - n /\ Len(l.data) \in Nat /\ Len(l.msg.data) \in Nat
      /\ Len(l.data) > 0
  BY <1>1 DEF Behind
<1>3. l.data # <<>>
  BY <1>1, <1>2
<1>4. /\ Tail(l.data) \in Seq(Pieces) /\ Len(Tail(l.data)) = Len(l.data) - 1
      /\ \A k \in 1 .. Len(l.data) - 1 : Tail(l.data)[k] = l.data[k + 1]
  BY <1>1, <1>3, HeadTailProperties
<1>5. \A k \in 1 .. Len(l.data) : l.data[k] = l.msg.data[k + n]
  BY DEF Behind
<1>6. l.data[1] = l.msg.data[n + 1]
  <2>1. 1 \in 1 .. Len(l.data) /\ 1 + n = n + 1
    BY <1>2
  <2> QED
    BY <1>5, <2>1
<1>7. ASSUME NEW x \in Pieces, l.msg.data[n + 1] = x PROVE IsPrefix(<<x>>, l.data)
  <2>1. <<x>> \in Seq(Pieces) /\ Len(<<x>>) = 1 /\ <<x>>[1] = x
    OBVIOUS
  <2>2. 1 <= Len(l.data) /\ \A k \in 1 .. 1 : <<x>>[k] = l.data[k]
    BY <1>2, <1>6, <1>7, <2>1
  <2> QED
    BY <1>1, <2>1, <2>2, PrefixIs
<1>8. ASSUME NEW x \in Pieces, NEW y \in Pieces, n + 1 < Len(l.msg.data),
             l.msg.data[n + 1] = x, l.msg.data[n + 2] = y
      PROVE  IsPrefix(<<x, y>>, l.data)
  <2>1. <<x, y>> \in Seq(Pieces) /\ Len(<<x, y>>) = 2 /\ <<x, y>>[1] = x /\ <<x, y>>[2] = y
    OBVIOUS
  <2>2. l.data[2] = l.msg.data[n + 2] /\ 2 <= Len(l.data)
    <3>1. 2 \in 1 .. Len(l.data) /\ 2 + n = n + 2
      BY <1>2, <1>8
    <3> QED
      BY <1>5, <3>1
  <2>3. \A k \in 1 .. 2 : <<x, y>>[k] = l.data[k]
    BY <1>6, <1>8, <2>1, <2>2
  <2> QED
    BY <1>1, <2>1, <2>2, <2>3, PrefixIs
<1>9. ASSUME NEW r, r.msg = l.msg, r.data = Tail(l.data) PROVE Behind(r, n + 1)
  <2>1. Len(r.data) = Len(r.msg.data) - (n + 1)
    BY <1>2, <1>4, <1>9
  <2>2. ASSUME NEW k \in 1 .. Len(r.data) PROVE r.data[k] = r.msg.data[k + (n + 1)]
    <3>1. k \in 1 .. Len(l.data) - 1 /\ k + 1 \in 1 .. Len(l.data)
          /\ (k + 1) + n = k + (n + 1)
      BY <1>2, <1>4, <1>9
    <3> QED
      BY <1>4, <1>5, <1>9, <3>1
  <2> QED
    BY <2>1, <2>2 DEF Behind
<1> QED
  BY <1>3, <1>7, <1>8, <1>9

LEMMA InitIInv == Init => IInv
<1> SUFFICES ASSUME Init PROVE IInv
  OBVIOUS
<1>1. Idle \in Loaders /\ Idle.map = 0
  BY EmptySeq DEF Idle, NoMessage, Messages, Loaders, Stages
<1>2. Typed
  <2>1. cpu \in [Cpus -> Loaders] /\ \A c \in Cpus : cpu[c].map = 0
    BY <1>1 DEF Init
  <2>2. config \in Heads
    BY DEF Init
  <2>3. made = 0 /\ limit_map = 0 /\ alive = {} /\ filled = {} /\ life = "out"
    BY DEF Init
  <2>4. harmed \in BOOLEAN /\ overlapped \in BOOLEAN /\ overtaken \in BOOLEAN
    BY DEF Init
  <2>5. made \in Nat /\ limit_map \in 0 .. made
    BY <2>3
  <2>6. \A c \in Cpus : cpu[c].map \in 0 .. made
    <3>1. 0 \in 0 .. 0
      OBVIOUS
    <3> QED
      BY <2>1, <2>3, <3>1, Zenon
  <2> QED
    BY <2>1, <2>2, <2>3, <2>4, <2>5, <2>6 DEF Typed
<1>3. \A c \in Cpus : cpu[c] = Idle /\ ~Loading(c)
  BY DEF Init, Idle
<1> QED
  BY <1>2, <1>3 DEF Init, IInv, Resting, OneAtATime, StillEmpty, NobodyCaptures, Accounted,
       MapsBalanced, Following

-----------------------------------------------------------------------------
(* The steps of load_config *)

LEMMA RecvConfigKeeps ==
  ASSUME IInv, NEW c \in Cpus, NEW p \in Packets, RecvConfig(c, p)
  PROVE  IInv'
<1>1. p.body \in Messages
  BY PacketAssumption DEF RecvConfig, IsConfig, ToRoute
<1> DEFINE l == [at |-> "macs_of", msg |-> p.body, map |-> made + 1, i |-> 0,
                 data |-> p.body.data, strayed |-> FALSE]
<1>2. l \in Loaders /\ OnTrack(l)
  <2>1. made + 1 \in Nat /\ p.body.data \in Seq(Pieces)
    BY <1>1 DEF IInv, Typed, Messages
  <2>2. l \in Loaders
    BY <1>1, <2>1 DEF Loaders, Stages
  <2>3. Behind(l, 0)
    BY <2>1 DEF Behind
  <2> QED
    BY <2>2, <2>3 DEF OnTrack
<1>3. /\ cpu' = [cpu EXCEPT ![c] = l]
      /\ made' = made + 1
      /\ alive' = alive \cup {made + 1}
      /\ life = "live"
      /\ ~Loading(c)
      /\ overlapped' = (overlapped \/ \E d \in Cpus : Loading(d))
      /\ UNCHANGED <<order, life, limit_map, filled, config, capture, fate, harmed, overtaken>>
  BY DEF RecvConfig
<1> HIDE DEF l
<1>4. l.at = "macs_of" /\ l.map = made + 1
  BY DEF l
<1>5. Typed'
  BY <1>2, <1>3, <1>4 DEF IInv, Typed
<1>6. /\ cpu'[c] = l
      /\ \A d \in Cpus : d # c => cpu'[d] = cpu[d]
      /\ Loading(c)' /\ \A d \in Cpus : d # c => (Loading(d)' <=> Loading(d))
  BY <1>3, <1>4 DEF IInv, Typed
<1>7. Resting' /\ NobodyCaptures'
  BY <1>3, <1>6 DEF IInv, Resting, NobodyCaptures
<1>8. OneAtATime' /\ StillEmpty'
  <2>1. made + 1 \notin filled \cup {limit_map}
    BY DEF IInv, Typed
  <2>2. \A d \in Cpus : cpu[d].map # made + 1
    BY DEF IInv, Typed
  <2>3. OneAtATime'
    BY <1>3, <1>6 DEF IInv, OneAtATime
  <2>4. ~Quiet'
    BY <1>6 DEF Quiet
  <2> QED
    BY <1>3, <1>4, <1>6, <2>1, <2>2, <2>3, <2>4 DEF IInv, StillEmpty
<1>9. ~overlapped' => ~overlapped /\ Quiet
  BY <1>3 DEF Quiet
<1>10. Accounted' /\ MapsBalanced'
  BY <1>3, <1>4, <1>6, <1>9 DEF IInv, Accounted, MapsBalanced, Quiet
<1>11. Following'
  BY <1>2, <1>3, <1>4, <1>6, <1>9 DEF IInv, Following, Quiet
<1> QED
  BY <1>5, <1>7, <1>8, <1>10, <1>11 DEF IInv

\* What the steps that keep a call going have in common: the call goes on, with
\* its message and its map.
LEMMA GoesOn ==
  ASSUME Typed, NEW c \in Cpus, NEW l \in Loaders, cpu' = [cpu EXCEPT ![c] = l],
         Loading(c), l.at # "idle", l.map = cpu[c].map
  PROVE  /\ cpu'[c] = l
         /\ cpu' \in [Cpus -> Loaders]
         /\ \A d \in Cpus : d # c => cpu'[d] = cpu[d]
         /\ \A d \in Cpus : Loading(d)' <=> Loading(d)
         /\ \A d \in Cpus : cpu'[d].map = cpu[d].map
         /\ Quiet' <=> Quiet
         /\ ~Quiet
BY DEF Typed, Quiet

LEMMA CopyHeadKeeps ==
  ASSUME IInv, NEW c \in Cpus,
         NEW at, NEW field, NEW next, CopyHead(c, at, field, next),
         \/ at = "macs_of" /\ field = "macs" /\ next = "domains_of"
         \/ at = "domains_of" /\ field = "domains" /\ next = "macs"
  PROVE  IInv'
<1> DEFINE r == Reads(c, <<"head">>, next = "macs")
           l == [r EXCEPT !.at = next]
<1>0. /\ cpu[c] \in Loaders
      /\ r \in Loaders
      /\ r.msg = cpu[c].msg /\ r.map = cpu[c].map /\ r.i = cpu[c].i
      /\ r.strayed = (cpu[c].strayed \/ ~IsPrefix(<<"head">>, cpu[c].data))
      /\ r.data = IF next = "macs" /\ cpu[c].data # <<>> THEN Tail(cpu[c].data) ELSE cpu[c].data
  BY ReadsTyped DEF IInv, Typed
<1> HIDE DEF r
<1>1. /\ l \in Loaders
      /\ l.at = next /\ l.msg = cpu[c].msg /\ l.map = cpu[c].map /\ l.i = cpu[c].i
      /\ l.data = r.data /\ l.strayed = r.strayed
  BY <1>0 DEF Loaders, Stages
<1>2. /\ cpu' = [cpu EXCEPT ![c] = l]
      /\ cpu[c].at = at
      /\ config' = [config EXCEPT ![field] = cpu[c].msg[field]]
      /\ UNCHANGED <<order, life, limit_map, made, alive, filled, capture, fate, harmed,
                     overlapped, overtaken>>
  BY DEF CopyHead, r
<1> HIDE DEF l
<1>3. /\ cpu'[c] = l /\ cpu' \in [Cpus -> Loaders]
      /\ \A d \in Cpus : d # c => cpu'[d] = cpu[d]
      /\ \A d \in Cpus : Loading(d)' <=> Loading(d)
      /\ \A d \in Cpus : cpu'[d].map = cpu[d].map
      /\ Quiet' <=> Quiet
      /\ ~Quiet
  BY <1>1, <1>2, GoesOn DEF IInv
<1>4. Typed'
  BY <1>0, <1>1, <1>2, <1>3 DEF IInv, Typed, Loaders, Messages
<1>5. Resting' /\ OneAtATime' /\ StillEmpty' /\ NobodyCaptures'
  BY <1>2, <1>3 DEF IInv, Resting, OneAtATime, StillEmpty, NobodyCaptures
<1>6. Accounted' /\ MapsBalanced'
  BY <1>1, <1>2, <1>3 DEF IInv, Accounted, MapsBalanced
<1>7. ~overlapped => OnTrack(cpu[c]) /\ OnTrack(l)
  <2>1. ~overlapped => OnTrack(cpu[c])
    BY <1>2 DEF IInv, Following
  <2>2. ASSUME OnTrack(cpu[c]), Whole(cpu[c].msg)
        PROVE  /\ ~l.strayed /\ l.i = 0
               /\ IF next = "macs" THEN Behind(l, 1) ELSE Behind(l, 0)
    <3>1. ~cpu[c].strayed /\ cpu[c].i = 0 /\ Behind(cpu[c], 0)
      BY <1>2, <2>2 DEF OnTrack
    <3>2. 0 < Len(cpu[c].msg.data) /\ cpu[c].msg.data[0 + 1] = "head" /\ "head" \in Pieces
      BY <1>0, <2>2, WholeIs DEF Loaders, Messages, Pieces
    <3>3. /\ IsPrefix(<<"head">>, cpu[c].data) /\ cpu[c].data # <<>>
          /\ l.data = Tail(cpu[c].data) => Behind(l, 0 + 1)
      BY <1>0, <1>1, <3>1, <3>2, ReadsRight
    <3>4. next # "macs" => Behind(l, 0)
      BY <1>0, <1>1, <3>1 DEF Behind
    <3>5. CASE next = "macs"
      <4>1. ~l.strayed /\ l.i = 0 /\ l.data = Tail(cpu[c].data)
        BY <1>0, <1>1, <3>1, <3>3, <3>5
      <4>2. Behind(l, 0 + 1) /\ 0 + 1 = 1
        BY <3>3, <4>1
      <4>3. Behind(l, 1)
        BY <4>2
      <4> QED
        BY <3>5, <4>1, <4>3
    <3>6. CASE next # "macs"
      BY <1>0, <1>1, <3>1, <3>3, <3>4, <3>6
    <3> QED
      BY <3>5, <3>6
  <2>3. ASSUME OnTrack(cpu[c]), Whole(cpu[c].msg) PROVE OnTrack(l)
    <3>1. cpu[c].msg.macs \in Nat /\ 1 + 0 = 1
      BY <1>0 DEF Loaders, Messages
    <3> QED
      BY <1>0, <1>1, <1>2, <2>2, <2>3, <3>1 DEF OnTrack
  <2> QED
    BY <1>1, <2>1, <2>3 DEF OnTrack
<1>8. Following'
  BY <1>1, <1>2, <1>3, <1>7 DEF IInv, Typed, OneAtATime, Following
<1> QED
  BY <1>4, <1>5, <1>6, <1>8 DEF IInv

LEMMA LoopEndsKeeps ==
  ASSUME IInv, NEW c \in Cpus, NEW next, LoopEnds(c, next),
         \/ cpu[c].at = "macs" /\ next = "domains" /\ ~(cpu[c].i < config.macs)
         \/ cpu[c].at = "domains" /\ next = "free"
  PROVE  IInv'
<1> DEFINE l == [cpu[c] EXCEPT !.at = next, !.i = 0]
<1>1. /\ l \in Loaders
      /\ l.at = next /\ l.msg = cpu[c].msg /\ l.map = cpu[c].map /\ l.i = 0
      /\ l.data = cpu[c].data /\ l.strayed = cpu[c].strayed
      /\ cpu[c] \in Loaders
  BY DEF IInv, Typed, Loaders, Stages
<1>2. /\ cpu' = [cpu EXCEPT ![c] = l]
      /\ UNCHANGED <<order, life, limit_map, made, alive, filled, config, capture, fate, harmed,
                     overlapped, overtaken>>
  BY DEF LoopEnds
<1> HIDE DEF l
<1>3. /\ cpu'[c] = l /\ cpu' \in [Cpus -> Loaders]
      /\ \A d \in Cpus : d # c => cpu'[d] = cpu[d]
      /\ \A d \in Cpus : Loading(d)' <=> Loading(d)
      /\ \A d \in Cpus : cpu'[d].map = cpu[d].map
      /\ Quiet' <=> Quiet
      /\ ~Quiet
  BY <1>1, <1>2, GoesOn DEF IInv
<1>4. Typed'
  BY <1>1, <1>2, <1>3 DEF IInv, Typed
<1>5. Resting' /\ OneAtATime' /\ StillEmpty' /\ NobodyCaptures'
  BY <1>2, <1>3 DEF IInv, Resting, OneAtATime, StillEmpty, NobodyCaptures
<1>6. Accounted' /\ MapsBalanced'
  BY <1>1, <1>2, <1>3 DEF IInv, Accounted, MapsBalanced
<1>7. ~overlapped => OnTrack(cpu[c]) /\ OnTrack(l)
  <2> SUFFICES ASSUME ~overlapped PROVE OnTrack(cpu[c]) /\ OnTrack(l)
    OBVIOUS
  <2>1. OnTrack(cpu[c]) /\ config.macs = cpu[c].msg.macs
    BY DEF IInv, Following
  <2>2. cpu[c].i \in Nat /\ cpu[c].msg.macs \in Nat
    BY <1>1 DEF Loaders, Messages
  <2>3. \A n : Behind(cpu[c], n) => Behind(l, n)
    BY <1>1 DEF Behind
  <2>4. CASE next = "domains" /\ cpu[c].at = "macs"
    <3>1. Whole(cpu[c].msg) => cpu[c].i = cpu[c].msg.macs
      BY <2>1, <2>2, <2>4 DEF OnTrack
    <3>2. Whole(cpu[c].msg) => ~cpu[c].strayed /\ Behind(l, 1 + cpu[c].msg.macs)
      BY <2>1, <2>3, <2>4, <3>1 DEF OnTrack
    <3> QED
      BY <1>1, <2>1, <2>4, <3>2 DEF OnTrack
  <2>5. CASE next = "free"
    BY <1>1, <2>1, <2>5 DEF OnTrack
  <2> QED
    BY <2>4, <2>5
<1>8. Following'
  BY <1>1, <1>2, <1>3, <1>7 DEF IInv, OneAtATime, Following
<1> QED
  BY <1>4, <1>5, <1>6, <1>8 DEF IInv

LEMMA InsertKeeps ==
  ASSUME IInv, NEW c \in Cpus, NEW pieces, Insert(c, pieces),
         \/ cpu[c].at = "macs" /\ pieces = <<"mac">> /\ cpu[c].i < config.macs
         \/ cpu[c].at = "domains" /\ pieces = <<"domain", "name">> /\ cpu[c].i < config.domains
  PROVE  IInv'
<1> DEFINE r == Reads(c, pieces, TRUE)
           l == [r EXCEPT !.i = @ + 1]
<1>1. /\ cpu[c] \in Loaders
      /\ r \in Loaders
      /\ r.at = cpu[c].at /\ r.msg = cpu[c].msg /\ r.map = cpu[c].map /\ r.i = cpu[c].i
      /\ r.strayed = (cpu[c].strayed \/ ~IsPrefix(pieces, cpu[c].data))
      /\ r.data = IF cpu[c].data # <<>> THEN Tail(cpu[c].data) ELSE cpu[c].data
  BY ReadsTyped DEF IInv, Typed
<1> HIDE DEF r
<1>2. /\ l \in Loaders
      /\ l.at = cpu[c].at /\ l.msg = cpu[c].msg /\ l.map = cpu[c].map
      /\ l.i = cpu[c].i + 1 /\ l.data = r.data
      /\ l.strayed = r.strayed
  BY <1>1 DEF Loaders
<1>3. /\ cpu' = [cpu EXCEPT ![c] = l]
      /\ filled' = filled \cup {limit_map}
      /\ harmed' = (harmed \/ limit_map \notin alive)
      /\ UNCHANGED <<order, life, limit_map, made, alive, config, capture, fate,
                     overlapped, overtaken>>
  BY DEF Insert, r
<1> HIDE DEF l
<1>4. /\ cpu'[c] = l /\ cpu' \in [Cpus -> Loaders]
      /\ \A d \in Cpus : d # c => cpu'[d] = cpu[d]
      /\ \A d \in Cpus : Loading(d)' <=> Loading(d)
      /\ \A d \in Cpus : cpu'[d].map = cpu[d].map
      /\ Quiet' <=> Quiet
      /\ ~Quiet
  BY <1>2, <1>3, GoesOn DEF IInv
<1>5. Typed'
  BY <1>3, <1>4 DEF IInv, Typed
<1>6. Resting' /\ OneAtATime' /\ StillEmpty' /\ NobodyCaptures'
  BY <1>3, <1>4 DEF IInv, Resting, OneAtATime, StillEmpty, NobodyCaptures
<1>7. Accounted' /\ MapsBalanced'
  BY <1>2, <1>3, <1>4 DEF IInv, Accounted, MapsBalanced
<1>8. ~overlapped => OnTrack(l)
  <2> SUFFICES ASSUME ~overlapped PROVE OnTrack(l)
    OBVIOUS
  <2>1. /\ OnTrack(cpu[c])
        /\ config.macs = cpu[c].msg.macs
        /\ cpu[c].at = "domains" => config.domains = cpu[c].msg.domains
    BY DEF IInv, Following
  <2>2. /\ cpu[c].i \in Nat /\ cpu[c].msg \in Messages
        /\ cpu[c].msg.macs \in Nat /\ cpu[c].msg.domains \in Nat
        /\ Len(cpu[c].msg.data) \in Nat
        /\ {"mac", "domain", "name"} \subseteq Pieces
    BY <1>1 DEF Loaders, Messages, Pieces
  <2>3. CASE cpu[c].at = "macs"
    <3> DEFINE n == 1 + cpu[c].i
    <3>1. ASSUME Whole(cpu[c].msg)
          PROVE  ~l.strayed /\ l.i <= l.msg.macs /\ Behind(l, 1 + l.i)
      <4>1. /\ ~cpu[c].strayed /\ Behind(cpu[c], n) /\ n \in Nat
            /\ cpu[c].i < cpu[c].msg.macs /\ pieces = <<"mac">>
        BY <2>1, <2>2, <2>3, <3>1 DEF OnTrack
      <4>2. n < Len(cpu[c].msg.data) /\ cpu[c].msg.data[n + 1] = "mac"
        <5>1. n \in 1 .. cpu[c].msg.macs
          BY <2>2, <4>1
        <5>2. /\ Len(cpu[c].msg.data) >= 1 + cpu[c].msg.macs + 2 * cpu[c].msg.domains
              /\ \A k \in 1 .. cpu[c].msg.macs : cpu[c].msg.data[k + 1] = "mac"
          BY <2>2, <3>1, WholeIs
        <5>3. n < Len(cpu[c].msg.data)
          BY <2>2, <4>1, <5>2, Room
        <5> QED
          BY <5>1, <5>2, <5>3
      <4> HIDE DEF n
      <4>3. cpu[c].data # <<>> /\ IsPrefix(<<"mac">>, cpu[c].data)
        BY <1>1, <2>2, <4>1, <4>2, ReadsRight
      <4>4. Behind(l, n + 1)
        BY <1>1, <1>2, <4>1, <4>2, <4>3, ReadsRight
      <4>5. ~l.strayed
        BY <1>1, <1>2, <4>1, <4>3
      <4>6. n + 1 = 1 + l.i /\ l.i <= l.msg.macs
        BY <1>2, <2>2, <4>1 DEF n
      <4> QED
        BY <4>4, <4>5, <4>6
    <3> QED
      BY <1>2, <2>3, <3>1 DEF OnTrack
  <2>4. CASE cpu[c].at = "domains"
    <3>1. cpu[c].i < cpu[c].msg.domains /\ pieces = <<"domain", "name">>
      BY <2>1, <2>4
    <3>2. ASSUME Whole(cpu[c].msg), l.strayed PROVE cpu[c].msg.domains > 1
      <4>1. CASE cpu[c].strayed
        BY <2>1, <3>2, <4>1 DEF OnTrack
      <4>2. CASE cpu[c].i # 0
        BY <2>2, <3>1, <4>2
      <4>3. CASE cpu[c].i = 0
        <5> DEFINE n == 1 + cpu[c].msg.macs
        <5>1. Behind(cpu[c], n) /\ n \in Nat
          BY <2>1, <2>2, <2>4, <3>2, <4>3 DEF OnTrack
        <5>2. /\ n < Len(cpu[c].msg.data) /\ n + 1 < Len(cpu[c].msg.data)
              /\ cpu[c].msg.data[n + 1] = "domain" /\ cpu[c].msg.data[n + 2] = "name"
          <6>1. /\ Len(cpu[c].msg.data) >= 1 + cpu[c].msg.macs + 2 * cpu[c].msg.domains
                /\ cpu[c].msg.data[cpu[c].msg.macs + 2] = "domain"
                /\ cpu[c].msg.data[cpu[c].msg.macs + 3] = "name"
            BY <2>2, <3>1, <3>2, <4>3, WholeIs
          <6>2. n + 1 = cpu[c].msg.macs + 2 /\ n + 2 = cpu[c].msg.macs + 3
            BY <2>2
          <6>3. cpu[c].msg.domains \in Nat /\ cpu[c].msg.domains > 0
            BY <2>2, <3>1, <4>3
          <6>4. n < Len(cpu[c].msg.data) /\ n + 1 < Len(cpu[c].msg.data)
            BY <2>2, <6>1, <6>3, Room
          <6> QED
            BY <6>1, <6>2, <6>4
        <5> HIDE DEF n
        <5>3. IsPrefix(<<"domain", "name">>, cpu[c].data)
          BY <1>1, <2>2, <5>1, <5>2, ReadsRight
        <5> QED
          BY <1>1, <1>2, <3>1, <3>2, <4>1, <5>3
      <4> QED
        BY <4>1, <4>2, <4>3
    <3>3. ~(l.at = "domains" /\ l.i = 0)
      BY <1>2, <2>2
    <3> QED
      BY <1>2, <2>4, <3>2, <3>3 DEF OnTrack
  <2> QED
    BY <2>3, <2>4
<1>9. Following'
  BY <1>2, <1>3, <1>4, <1>8 DEF IInv, OneAtATime, Following
<1> QED
  BY <1>5, <1>6, <1>7, <1>9 DEF IInv

LEMMA FreeKeeps ==
  ASSUME IInv, NEW c \in Cpus, Free(c)
  PROVE  IInv'
<1> DEFINE l == [cpu[c] EXCEPT !.at = "install"]
<1>1. /\ l \in Loaders
      /\ l.at = "install" /\ l.msg = cpu[c].msg /\ l.map = cpu[c].map
      /\ l.strayed = cpu[c].strayed
  BY DEF IInv, Typed, Loaders, Stages
<1>2. /\ cpu' = [cpu EXCEPT ![c] = l]
      /\ cpu[c].at = "free"
      /\ alive' = alive \ {limit_map}
      /\ harmed' = (harmed \/ limit_map \notin alive)
      /\ UNCHANGED <<order, life, limit_map, made, filled, config, capture, fate,
                     overlapped, overtaken>>
  BY DEF Free, FreeMap
<1> HIDE DEF l
<1>3. /\ cpu'[c] = l /\ cpu' \in [Cpus -> Loaders]
      /\ \A d \in Cpus : d # c => cpu'[d] = cpu[d]
      /\ \A d \in Cpus : Loading(d)' <=> Loading(d)
      /\ \A d \in Cpus : cpu'[d].map = cpu[d].map
      /\ Quiet' <=> Quiet
      /\ ~Quiet
  BY <1>1, <1>2, GoesOn DEF IInv
<1>4. Typed'
  BY <1>2, <1>3 DEF IInv, Typed
<1>5. Resting' /\ OneAtATime' /\ StillEmpty' /\ NobodyCaptures'
  BY <1>2, <1>3 DEF IInv, Resting, OneAtATime, StillEmpty, NobodyCaptures
<1>6. cpu[c].map # limit_map
  BY <1>2 DEF IInv, StillEmpty
<1>7. Accounted' /\ MapsBalanced'
  BY <1>1, <1>2, <1>3, <1>6 DEF IInv, OneAtATime, Accounted, MapsBalanced
<1>8. Following'
  BY <1>1, <1>2, <1>3 DEF IInv, OneAtATime, Following, OnTrack
<1> QED
  BY <1>4, <1>5, <1>7, <1>8 DEF IInv

LEMMA InstallKeeps ==
  ASSUME IInv, NEW c \in Cpus, Install(c)
  PROVE  IInv'
<1>1. Idle \in Loaders /\ Idle.at = "idle" /\ Idle.map = 0
  BY EmptySeq DEF Idle, NoMessage, Messages, Loaders, Stages
<1>2. /\ cpu' = [cpu EXCEPT ![c] = Idle]
      /\ cpu[c].at = "install"
      /\ limit_map' = cpu[c].map
      /\ fate'.sent = "none"
      /\ UNCHANGED <<order, life, made, alive, filled, config, capture, harmed,
                     overlapped, overtaken>>
  BY DEF Install, Fate
<1>3. /\ cpu'[c] = Idle
      /\ ~Loading(c)'
      /\ \A d \in Cpus : d # c => cpu'[d] = cpu[d] /\ (Loading(d)' <=> Loading(d))
  BY <1>1, <1>2 DEF IInv, Typed
<1>4. Typed'
  BY <1>1, <1>2, <1>3 DEF IInv, Typed
<1>5. Resting' /\ OneAtATime' /\ NobodyCaptures'
  BY <1>2, <1>3 DEF IInv, Resting, OneAtATime, NobodyCaptures
<1>6. StillEmpty'
  BY <1>2, <1>3 DEF IInv, StillEmpty, Quiet
<1>7. ~overlapped => Quiet'
  BY <1>2, <1>3 DEF IInv, OneAtATime, Quiet
<1>8. Accounted' /\ MapsBalanced' /\ Following'
  BY <1>2, <1>7 DEF IInv, Accounted, MapsBalanced, Following, Quiet
<1> QED
  BY <1>4, <1>5, <1>6, <1>8 DEF IInv

-----------------------------------------------------------------------------
(* The rest of the hook, init and exit *)

\* What came to the capture port did not come to the configuration port.
LEMMA HandleKeeps ==
  ASSUME IInv, NEW c \in Cpus, NEW p \in Packets, RouteNfHandle(c, p)
  PROVE  IInv'
<1>1. UNCHANGED <<order, life, limit_map, made, alive, filled, config, cpu, harmed,
                  overlapped, overtaken>>
  BY DEF RouteNfHandle
<1>2. NobodyCaptures'
  <2>1. CASE RecvDns(p)
    BY <2>1 DEF RecvDns, Fate, IInv, NobodyCaptures
  <2>2. CASE RecvCapture(p)
    <3>1. ~IsConfig(p)
      BY <2>2 DEF RecvCapture, IsSetCapture, IsConfig, ToRoute
    <3> QED
      BY <2>2, <3>1 DEF RecvCapture, Fate, IInv, NobodyCaptures
  <2>3. CASE Accept(p)
    <3>1. ~IsGetCapture(p)
      BY DEF IsGetCapture, IInv, NobodyCaptures
    <3> QED
      BY <2>3, <3>1 DEF Accept, Fate, IInv, NobodyCaptures
  <2> QED
    BY <2>1, <2>2, <2>3 DEF RouteNfHandle
<1>3. Typed' /\ Resting' /\ OneAtATime' /\ StillEmpty' /\ Accounted' /\ MapsBalanced'
  BY <1>1 DEF IInv, Typed, Resting, OneAtATime, StillEmpty, Accounted, MapsBalanced, Quiet
<1>4. Following'
  BY <1>1 DEF IInv, Following, OnTrack
<1> QED
  BY <1>2, <1>3, <1>4 DEF IInv

LEMMA RouteInitKeeps == IInv /\ RouteInit => IInv'
<1> SUFFICES ASSUME IInv, RouteInit PROVE IInv'
  OBVIOUS
<1>1. \A c \in Cpus : cpu'[c] = Idle /\ cpu'[c].map = 0 /\ ~Loading(c)'
  <2>1. Idle.map = 0
    BY DEF Idle
  <2>2. \A c \in Cpus : cpu[c] = Idle /\ ~Loading(c) /\ UNCHANGED cpu
    BY DEF RouteInit, IInv, Resting
  <2> QED
    BY <2>1, <2>2 DEF Loading
<1>2. Typed'
  <2>1. cpu' \in [Cpus -> Loaders]
    BY DEF RouteInit, IInv, Typed
  <2>2. config' \in Heads
    BY DEF RouteInit
  <2>3. 0 \in 0 .. 1 /\ 1 \in 0 .. 1 /\ 1 \in Nat
    OBVIOUS
  <2>4. \A c \in Cpus : cpu'[c].map \in 0 .. made'
    BY <1>1, <2>3, Zenon DEF RouteInit
  <2>5. /\ life' \in {"out", "live", "unhooked"}
        /\ alive' \subseteq 0 .. made' /\ filled' \subseteq 0 .. made'
        /\ limit_map' \in 0 .. made' /\ made' \in Nat
    BY DEF RouteInit
  <2>6. harmed' \in BOOLEAN /\ overlapped' \in BOOLEAN /\ overtaken' \in BOOLEAN
    BY DEF RouteInit
  <2> QED
    BY <2>1, <2>2, <2>4, <2>5, <2>6 DEF Typed
<1> QED
  BY <1>1, <1>2 DEF RouteInit, IInv, Resting, OneAtATime, StillEmpty, NobodyCaptures,
       Accounted, MapsBalanced, Following

LEMMA UnregisterKeeps == IInv /\ Unregister => IInv'
<1> SUFFICES ASSUME IInv, Unregister PROVE IInv'
  OBVIOUS
<1>1. Typed' /\ Resting' /\ OneAtATime' /\ StillEmpty' /\ NobodyCaptures'
  BY DEF Unregister, IInv, Typed, Resting, OneAtATime, StillEmpty, NobodyCaptures, Quiet
<1>2. Accounted' /\ MapsBalanced'
  BY DEF Unregister, IInv, Accounted, MapsBalanced, Quiet
<1>3. Following'
  BY DEF Unregister, IInv, Following, OnTrack
<1> QED
  BY <1>1, <1>2, <1>3 DEF IInv

LEMMA RouteExitKeeps == IInv /\ RouteExit => IInv'
<1> SUFFICES ASSUME IInv, RouteExit PROVE IInv'
  OBVIOUS
<1>1. Typed' /\ Resting' /\ OneAtATime' /\ StillEmpty' /\ NobodyCaptures'
  BY DEF RouteExit, FreeMap, IInv, Typed, Resting, OneAtATime, StillEmpty,
         NobodyCaptures, Quiet
<1>2. ~overlapped /\ ~overtaken => Quiet
  BY DEF RouteExit, IInv, Accounted, Quiet
<1>3. Accounted' /\ MapsBalanced'
  BY <1>2 DEF RouteExit, FreeMap, IInv, Accounted, MapsBalanced, Quiet
<1>4. Following'
  BY DEF RouteExit, IInv, Following, OnTrack
<1> QED
  BY <1>1, <1>3, <1>4 DEF IInv

LEMMA StepKeeps == IInv /\ [Next]_vars => IInv'
<1> SUFFICES ASSUME IInv, [Next]_vars PROVE IInv'
  OBVIOUS
<1>1. CASE RouteInit \/ Unregister \/ RouteExit
  BY <1>1, RouteInitKeeps, UnregisterKeeps, RouteExitKeeps
<1>2. ASSUME NEW c \in Cpus, NEW p \in Packets, RecvConfig(c, p) \/ RouteNfHandle(c, p)
      PROVE  IInv'
  BY <1>2, RecvConfigKeeps, HandleKeeps
<1>3. ASSUME NEW c \in Cpus, LoadStep(c) PROVE IInv'
  <2>1. CASE CopyHead(c, "macs_of", "macs", "domains_of")
    BY <2>1, CopyHeadKeeps
  <2>2. CASE CopyHead(c, "domains_of", "domains", "macs")
    BY <2>2, CopyHeadKeeps
  <2>3. CASE LoadMacs(c)
    BY <2>3, InsertKeeps, LoopEndsKeeps DEF LoadMacs
  <2>4. CASE LoadDomains(c)
    BY <2>4, InsertKeeps, LoopEndsKeeps DEF LoadDomains
  <2>5. CASE Free(c)
    BY <2>5, FreeKeeps
  <2>6. CASE Install(c)
    BY <2>6, InstallKeeps
  <2> QED
    BY <1>3, <2>1, <2>2, <2>3, <2>4, <2>5, <2>6 DEF LoadStep
<1>4. CASE UNCHANGED vars
  <2>1. Typed' /\ Resting' /\ OneAtATime' /\ StillEmpty' /\ NobodyCaptures'
        /\ Accounted' /\ MapsBalanced'
    BY <1>4 DEF vars, IInv, Typed, Resting, OneAtATime, StillEmpty, NobodyCaptures,
         Accounted, MapsBalanced, Quiet
  <2>2. Following'
    BY <1>4 DEF vars, IInv, Following, OnTrack
  <2> QED
    BY <2>1, <2>2 DEF IInv
<1> QED
  BY <1>1, <1>2, <1>3, <1>4 DEF Next

LEMMA Invariance == Spec => []IInv
BY InitIInv, StepKeeps, PTL DEF Spec

-----------------------------------------------------------------------------
(***************************************************************************)
(* load_config makes a map, frees the one in force and installs its own:   *)
(* unless two CPUs are in it at once, or an exit overtakes it, no map is   *)
(* freed twice, written after that, or lost.                               *)
(***************************************************************************)
THEOREM MapsStayBalanced == Spec => []MapsBalanced
<1>1. IInv => MapsBalanced
  BY DEF IInv
<1> QED
  BY <1>1, Invariance, PTL

(***************************************************************************)
(* load_config reads what its own message has and nothing else, unless two *)
(* CPUs are in it at once, the message has a second domain, or the         *)
(* datagram is shorter than its head and its names say: no length is       *)
(* compared (main.c:138-150).                                              *)
(***************************************************************************)
THEOREM NobodyElsesRecords == Spec => []ReadsItsOwn
<1>1. IInv => ReadsItsOwn
  <2> SUFFICES ASSUME IInv, NEW c \in Cpus, cpu[c].strayed, ~overlapped, Whole(cpu[c].msg)
               PROVE  cpu[c].msg.domains > 1
    BY DEF ReadsItsOwn
  <2>1. Loading(c)
    BY DEF IInv, Resting, Idle
  <2> QED
    BY <2>1 DEF IInv, Following, OnTrack
<1> QED
  BY <1>1, Invariance, PTL

(***************************************************************************)
(* The hook asks for the configuration port of what came to the capture    *)
(* port, and load_config fills the map it then frees: whatever comes, no   *)
(* packet is copied to a client and no limit is in force between           *)
(* configurations.                                                         *)
(***************************************************************************)
THEOREM NothingEverTakesEffect == Spec => []NothingTakesEffect
<1>1. IInv => NothingTakesEffect
  BY DEF IInv, StillEmpty, NobodyCaptures, NothingTakesEffect
<1> QED
  BY <1>1, Invariance, PTL

=============================================================================
