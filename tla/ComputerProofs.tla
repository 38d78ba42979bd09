--------------------------- MODULE ComputerProofs ---------------------------
(***************************************************************************)
(* Proofs about Discovery, for any addresses and server processes: the     *)
(* ports have their owners, and what enable reports of the firewall is so. *)
(* Proofs about Machine, for any calls, services, processes, operators and *)
(* events: "ok" is true, and keys do not mix.                              *)
(***************************************************************************)
EXTENDS Machine, Discovery, WellFoundedInduction, TLAPS

-----------------------------------------------------------------------------
(* Discovery.                                                              *)

\* The second rule is added only after the first, and nothing removes rules while
\* an enable goes on.
SecondRule == wizard = "udp" => "TCP" \in rules

DiscoveryInv == DiscoveryTypeOK /\ SecondRule /\ ReportedOpen

LEMMA ResolvedType ==
  ASSUME NEW t \in [host : Addrs \cup {"auto"}, url : Addrs \cup {None}]
  PROVE  Resolved(t) \in [host : Addrs \cup {"auto"}, auto : BOOLEAN, url : Addrs \cup {None}]
  BY DEF Resolved

LEMMA InitDiscoveryInv == DiscoveryInit => DiscoveryInv
<1> SUFFICES ASSUME DiscoveryInit PROVE DiscoveryInv
  OBVIOUS
<1>1. Template \in [host : Addrs \cup {"auto"}, url : Addrs \cup {None}]
  BY DEF Template
<1> QED
  BY <1>1, ResolvedType, NoServerAssumption
  DEF DiscoveryInit, DiscoveryInv, DiscoveryTypeOK, SecondRule, ReportedOpen, Servers

\* The commands of the administrator.
LEMMA AdminKeeps ==
  ASSUME DiscoveryInv,
         \/ EnableBegins \/ Install \/ AddTCP \/ AddUDP \/ Uninstall \/ CloseFirewall
  PROVE  DiscoveryInv'
<1>1. UNCHANGED <<place, life, heard, tcp, udp, file, conf, agent, target>>
  BY DEF EnableBegins, Install, AddTCP, AddUDP, Uninstall, CloseFirewall, server, client
<1>2. boot' \in BOOLEAN
  BY Zenon DEF EnableBegins, Install, AddTCP, AddUDP, Uninstall, CloseFirewall,
     CreateTask, DeleteTask, DiscoveryInv, DiscoveryTypeOK
<1>3. /\ rules' \subseteq {"TCP", "UDP"}
      /\ wizard' \in {"none", "install", "tcp", "udp", "run", "remove"}
      /\ said' \in {"nothing", "open", "blocked", "closed"}
      /\ SecondRule'
      /\ ReportedOpen'
  <2> USE DEF SecondRule, ReportedOpen
  <2>1. /\ rules \subseteq {"TCP", "UDP"}
        /\ wizard \in {"none", "install", "tcp", "udp", "run", "remove"}
        /\ said \in {"nothing", "open", "blocked", "closed"}
        /\ SecondRule
        /\ ReportedOpen
    BY DEF DiscoveryInv, DiscoveryTypeOK
  <2>2. CASE EnableBegins
    BY <2>1, <2>2 DEF EnableBegins
  <2>3. CASE Install
    BY <2>1, <2>3 DEF Install
  <2>4. CASE AddTCP
    BY <2>1, <2>4 DEF AddTCP, AddRule
  <2>5. CASE AddUDP
    BY <2>1, <2>5 DEF AddUDP, AddRule
  <2>6. CASE Uninstall
    BY <2>1, <2>6 DEF Uninstall
  <2>7. CASE CloseFirewall
    BY <2>1, <2>7 DEF CloseFirewall, RemoveRules
  <2> QED
    BY <2>2, <2>3, <2>4, <2>5, <2>6, <2>7
<1> QED
  BY <1>1, <1>2, <1>3 DEF DiscoveryInv, DiscoveryTypeOK

\* The server's processes: a port has one owner, which serves or shuts down.
LEMMA ServerKeeps ==
  ASSUME DiscoveryInv,
         \/ StartTask \/ RunTask \/ ForeignProgram \/ ServerOff
         \/ \E s \in Servers : \/ StartByHand(s) \/ BindUDP(s) \/ Listen(s) \/ Interrupt(s)
                               \/ CloseUDP(s) \/ CloseTCP(s) \/ Ends(s)
  PROVE  DiscoveryInv'
<1> USE NoServerAssumption
    DEF DiscoveryInv, DiscoveryTypeOK, SecondRule, ReportedOpen, admin, server, client
<1>1. ASSUME NEW s \in Servers, Begin(s), UNCHANGED <<boot, rules, said>>,
             wizard' \in {wizard, "none"}
      PROVE  DiscoveryInv'
  BY <1>1 DEF Begin
<1>2. ASSUME NEW ss \in SUBSET Servers, End(ss), UNCHANGED <<boot, rules, said>>,
             place' \in {place, None}, wizard' \in {wizard, "none"}
      PROVE  DiscoveryInv'
  BY <1>2 DEF End
<1>3. "task" \in Servers
  BY DEF Servers
<1>4. CASE StartTask \/ \E s \in Servers : StartByHand(s)
  BY <1>1, <1>3, <1>4 DEF StartTask, StartByHand
<1>5. CASE RunTask
  BY <1>1, <1>3, <1>5 DEF RunTask
<1>6. CASE ForeignProgram
  BY <1>6 DEF ForeignProgram
<1>7. CASE ServerOff \/ \E s \in Servers : Ends(s)
  BY <1>2, <1>7 DEF ServerOff, Ends
<1>8. ASSUME NEW s \in Servers, BindUDP(s) \/ CloseUDP(s) PROVE DiscoveryInv'
  <2>1. /\ heard' \in [Servers -> {"untried", "bound", "failed"}]
        /\ udp' \in Servers \cup {None, Foreign}
    BY <1>8 DEF BindUDP, CloseUDP
  <2>2. UNCHANGED <<life, tcp, place, boot, rules, wizard, said, file, conf, agent, target>>
    BY <1>8 DEF BindUDP, CloseUDP
  <2>3. \A t \in Servers : life'[t] = "serving" <=> tcp' = t /\ life'[t] # "stopping"
    BY <2>2
  <2> QED
    BY <2>1, <2>2, <2>3
<1>9. ASSUME NEW s \in Servers, Listen(s) \/ Interrupt(s) \/ CloseTCP(s) PROVE DiscoveryInv'
  <2>1. UNCHANGED <<heard, udp, place, boot, rules, wizard, said, file, conf, agent, target>>
    BY <1>9 DEF Listen, Interrupt, CloseTCP
  <2>2. /\ life' \in [Servers -> {"off", "starting", "serving", "stopping"}]
        /\ tcp' \in Servers \cup {None}
        /\ \A t \in Servers : life'[t] = "serving" <=> tcp' = t /\ life'[t] # "stopping"
    <3>1. CASE Listen(s)
      BY <3>1 DEF Listen
    <3>2. CASE Interrupt(s)
      BY <3>2 DEF Interrupt
    <3>3. CASE CloseTCP(s)
      BY <3>3 DEF CloseTCP
    <3> QED
      BY <1>9, <3>1, <3>2, <3>3
  <2> QED
    BY <2>1, <2>2
<1> QED
  BY <1>4, <1>5, <1>6, <1>7, <1>8, <1>9

\* The agent, its file and the address of the server.
LEMMA ClientKeeps ==
  ASSUME DiscoveryInv,
         \/ \E a \in Addrs \cup {None} : Moves(a)
         \/ \E t \in Texts : Edit(t)
         \/ Load \/ Discover \/ UseURL \/ Connect \/ Fails \/ Disconnects \/ AgentStops
  PROVE  DiscoveryInv'
<1> USE DEF DiscoveryInv, DiscoveryTypeOK, SecondRule, ReportedOpen, admin, server, client
<1>1. ASSUME NEW a \in Addrs \cup {None}, Moves(a) PROVE DiscoveryInv'
  BY <1>1 DEF Moves
<1>2. ASSUME NEW t \in Texts, Edit(t) PROVE DiscoveryInv'
  BY <1>2, TextsAssumption DEF Edit
<1>3. CASE Load
  BY <1>3, ResolvedType DEF Load
<1>4. CASE Discover \/ UseURL
  BY <1>4, NearAddrsAssumption DEF Discover, UseURL, Dials, Reached
<1>5. CASE Connect
  BY <1>5 DEF Connect
<1>6. CASE Fails \/ Disconnects \/ AgentStops
  BY <1>6 DEF Fails, Disconnects, AgentStops
<1> QED
  BY <1>1, <1>2, <1>3, <1>4, <1>5, <1>6

LEMMA NextDiscoveryInv == DiscoveryInv /\ [DiscoveryNext]_discoveryVars => DiscoveryInv'
<1>1. ASSUME DiscoveryInv, UNCHANGED discoveryVars PROVE DiscoveryInv'
  BY <1>1 DEF DiscoveryInv, DiscoveryTypeOK, SecondRule, ReportedOpen, discoveryVars,
              admin, server, client
<1> QED
  BY <1>1, AdminKeeps, ServerKeeps, ClientKeeps DEF DiscoveryNext

\* The invariant holds in every state of every execution.
THEOREM DiscoveryInvariant == DiscoverySpec => []DiscoveryInv
  BY InitDiscoveryInv, NextDiscoveryInv, PTL DEF DiscoverySpec

\* All that Discovery remembers has its type, and a server process serves exactly
\* while it has the TCP port and does not stop (cmd/server/main.go).
THEOREM DiscoveryTypeCorrect == DiscoverySpec => []DiscoveryTypeOK
<1>1. DiscoveryInv => DiscoveryTypeOK
  BY DEF DiscoveryInv
<1> QED
  BY <1>1, DiscoveryInvariant, PTL

\* What enable has reported as open is open for both protocols, whichever of its
\* earlier attempts failed half-way (setup_windows.go:73-80, 104-119).
THEOREM DiscoveryReportedOpen == DiscoverySpec => []ReportedOpen
<1>1. DiscoveryInv => ReportedOpen
  BY DEF DiscoveryInv
<1> QED
  BY <1>1, DiscoveryInvariant, PTL


-----------------------------------------------------------------------------
(* Induction, for sets instead of predicates.                              *)

LEMMA LeastElement ==
  ASSUME NEW S \in SUBSET Nat, S # {}
  PROVE  \E n \in S : \A m \in S : n <= m
<1> DEFINE Less == {ss \in Nat \X Nat : ss[1] < ss[2]}
<1>1. IsWellFoundedOn(Less, Nat)
  BY NatLessThanWellFounded, Zenon DEF OpToRel
<1>2. PICK n \in S : \A m \in S : ~(<<m, n>> \in Less)
  <2> HIDE DEF Less
  <2> QED
    BY <1>1, WFMin, Zenon
<1>3. ASSUME NEW m \in S PROVE n <= m
  <2>1. <<m, n>> \in Nat \X Nat /\ <<m, n>>[1] = m /\ <<m, n>>[2] = n
    OBVIOUS
  <2>2. ~(m < n)
    BY <1>2, <2>1, Zenon
  <2> QED
    BY <2>2
<1> QED
  BY <1>3

LEMMA SetInduction ==
  ASSUME NEW S, 0 \in S, \A n \in Nat : n \in S => n + 1 \in S
  PROVE  Nat \subseteq S
<1> SUFFICES ASSUME Nat \ S # {} PROVE FALSE
  OBVIOUS
<1>1. PICK n \in Nat \ S : \A m \in Nat \ S : n <= m
  BY LeastElement
<1>2. n - 1 \in Nat /\ n - 1 \notin Nat \ S
  BY <1>1
<1> QED
  BY <1>1, <1>2

-----------------------------------------------------------------------------
(* Strokes.                                                                *)

\* Of a list there remains a list of what is known (the loops of input.Key).
LEMMA FilteredType ==
  ASSUME NEW T, NEW known, NEW list \in Seq(T)
  PROVE  Filtered(list, known) \in Seq(T \cap known)
<1> DEFINE N == Len(list)
           U == Seq(T \cap known)
           Step(f, n) == IF n = 0 THEN <<>>
                         ELSE IF list[n] \in known THEN Append(f[n - 1], list[n]) ELSE f[n - 1]
           Keeps(f, n) == \A i \in 0 .. n : f[i] = Step(f, i)
           Q == {n \in Nat : n <= N => \E f \in [0 .. n -> U] : Keeps(f, n)}
           kept == CHOOSE f : f = [n \in 0 .. N |-> Step(f, n)]
<1>1. 0 \in Q
  <2> DEFINE f == [i \in 0 .. 0 |-> <<>>]
  <2>1. f \in [0 .. 0 -> U] /\ Keeps(f, 0)
    OBVIOUS
  <2> QED
    BY <2>1
<1>2. ASSUME NEW n \in Nat, n \in Q PROVE n + 1 \in Q
  <2>1. SUFFICES ASSUME n + 1 <= N
               PROVE  \E f \in [0 .. n + 1 -> U] : Keeps(f, n + 1)
    OBVIOUS
  <2>2. PICK f \in [0 .. n -> U] : Keeps(f, n)
    <3> HIDE DEF Keeps, U
    <3> QED
      BY <1>2, <2>1
  <2>3. list[n + 1] \in T
    BY <2>1
  <2> DEFINE g == [i \in 0 .. n + 1 |-> IF i <= n THEN f[i] ELSE Step(f, n + 1)]
  <2>4. g \in [0 .. n + 1 -> U]
    BY <2>3
  <2>5. ASSUME NEW i \in 0 .. n PROVE g[i] = Step(g, i)
    <3>1. g[i] = f[i] /\ (i # 0 => g[i - 1] = f[i - 1])
      OBVIOUS
    <3> QED
      BY <2>2, <3>1
  <2>6. g[n + 1] = Step(g, n + 1)
    OBVIOUS
  <2>7. Keeps(g, n + 1)
    <3> HIDE DEF Step, g
    <3> QED
      BY <2>5, <2>6
  <2> QED
    BY <2>4, <2>7
<1>3. N \in Q
  <2> HIDE DEF Q
  <2> QED
    BY <1>1, <1>2, SetInduction
<1>4. PICK f \in [0 .. N -> U] : Keeps(f, N)
  BY <1>3
<1>5. f = [n \in 0 .. N |-> Step(f, n)]
  <2> HIDE DEF Step
  <2> QED
    BY <1>4
<1>6. kept = [n \in 0 .. N |-> Step(kept, n)]
  <2> HIDE DEF Step
  <2> QED
    BY <1>5, Zenon
<1> HIDE DEF kept
<1>7. Keeps(kept, N)
  <2> HIDE DEF Step
  <2> QED
    BY <1>6
<1> DEFINE K == {n \in Nat : n <= N => kept[n] \in U}
<1>8. 0 \in K
  <2>1. kept[0] = Step(kept, 0)
    <3> HIDE DEF Step
    <3> QED
      BY <1>7
  <2> QED
    BY <2>1
<1>9. ASSUME NEW n \in Nat, n \in K PROVE n + 1 \in K
  <2>1. SUFFICES ASSUME n + 1 <= N PROVE kept[n + 1] \in U
    OBVIOUS
  <2>2. kept[n + 1] = Step(kept, n + 1) /\ kept[n] \in U /\ list[n + 1] \in T
    <3> HIDE DEF Step
    <3> QED BY <1>7, <1>9, <2>1
  <2> QED
    BY <2>2
<1>10. N \in K
  <2> HIDE DEF K
  <2> QED
    BY <1>8, <1>9, SetInduction
<1>11. Filtered(list, known) = kept[N]
  BY Zenon DEF Filtered, kept
<1> QED
  BY <1>10, <1>11

StrokeType == [key : KeyCodes \cup Buttons, down : BOOLEAN]

\* What goes down comes up again, later in the same event; only buttons may stay.
Released(strokes) ==
  \A i \in 1 .. Len(strokes) :
    strokes[i].down /\ strokes[i].key \in KeyCodes
      => \E j \in i + 1 .. Len(strokes) : ~strokes[j].down /\ strokes[j].key = strokes[i].key

Clean == {strokes \in Seq(StrokeType) : Released(strokes)}

LEMMA CodesType ==
  ASSUME NEW keys, NEW k \in DOMAIN Codes(keys)
  PROVE  Codes(keys)[k] \in {Code(names) : names \in keys}
<1>1. k \in UNION keys
  BY DEF Codes
<1>2. (CHOOSE names \in keys : k \in names) \in keys
  BY <1>1
<1> QED
  BY <1>1, <1>2 DEF Codes

\* No key has the name of a button.
LEMMA KeysAreNoButtons == KeyCodes \cap Buttons = {}
<1>1. \A names \in NamedKeys \cup FunctionKeys \cup ModifierKeys :
        names # {} /\ "LEFT" \notin names /\ "RIGHT" \notin names
  BY DEF NamedKeys, FunctionKeys, ModifierKeys
<1>2. \A names : names # {} => Code(names) \in names
  BY DEF Code
<1> QED
  BY <1>1, <1>2 DEF KeyCodes, Modifiers, Buttons

LEMMA ThreeParts ==
  ASSUME NEW S, NEW a \in Seq(S), NEW b \in Seq(S), NEW c \in Seq(S)
  PROVE  /\ a \o b \o c \in Seq(S)
         /\ Len(a \o b \o c) = Len(a) + Len(b) + Len(c)
         /\ \A i \in 1 .. Len(a) : (a \o b \o c)[i] = a[i]
         /\ \A i \in 1 .. Len(b) : (a \o b \o c)[Len(a) + i] = b[i]
         /\ \A i \in 1 .. Len(c) : (a \o b \o c)[Len(a) + Len(b) + i] = c[i]
<1>1. a \o b \in Seq(S) /\ Len(a \o b) = Len(a) + Len(b)
  OBVIOUS
<1>2. a \o b \o c \in Seq(S) /\ Len(a \o b \o c) = Len(a \o b) + Len(c)
  BY <1>1
<1>3. \A i \in 1 .. Len(a) : (a \o b \o c)[i] = a[i]
  OBVIOUS
<1>4. \A i \in 1 .. Len(b) : (a \o b \o c)[Len(a) + i] = b[i]
  OBVIOUS
<1>5. \A i \in 1 .. Len(c) : (a \o b \o c)[Len(a) + Len(b) + i] = c[i]
  OBVIOUS
<1> QED
  BY <1>1, <1>2, <1>3, <1>4, <1>5

\* Sequence back releases what press presses, in the opposite order.
Mirrors(back, press) ==
  \A i \in 1 .. Len(press) : ~back[i].down /\ back[Len(press) - i + 1].key = press[i].key

\* A key between modifiers that are released in the opposite order.
LEMMA BracketClean ==
  ASSUME NEW press \in Seq(StrokeType), NEW tap \in Seq(StrokeType), NEW back \in Seq(StrokeType),
         Len(back) = Len(press), Released(tap), Mirrors(back, press)
  PROVE  press \o tap \o back \in Clean
<1> DEFINE all == press \o tap \o back
           n == Len(press)
           m == Len(tap)
<1>1. /\ all \in Seq(StrokeType)
      /\ Len(all) = n + m + n
      /\ \A i \in 1 .. n : all[i] = press[i]
      /\ \A i \in 1 .. m : all[n + i] = tap[i]
      /\ \A i \in 1 .. n : all[n + m + i] = back[i]
  <2>1. Len(press \o tap \o back) = Len(press) + Len(tap) + Len(back)
    <3>1. press \o tap \in Seq(StrokeType) /\ Len(press \o tap) = Len(press) + Len(tap)
      OBVIOUS
    <3> QED
      BY <3>1
  <2>2. all \in Seq(StrokeType)
    OBVIOUS
  <2>3. \A i \in 1 .. n : all[i] = press[i]
    OBVIOUS
  <2>4. \A i \in 1 .. m : all[n + i] = tap[i]
    OBVIOUS
  <2>5. \A i \in 1 .. n : all[n + m + i] = back[i]
    OBVIOUS
  <2> QED
    BY <2>1, <2>2, <2>3, <2>4, <2>5
<1> HIDE DEF all
<1>2. n \in Nat /\ m \in Nat
  OBVIOUS
<1>3. ASSUME NEW i \in 1 .. Len(all), all[i].down, all[i].key \in KeyCodes
      PROVE  \E j \in i + 1 .. Len(all) : ~all[j].down /\ all[j].key = all[i].key
  <2>1. CASE i \in 1 .. n
    <3>1. n - i + 1 \in 1 .. n
      BY <1>2, <2>1
    <3>2. ~all[n + m + (n - i + 1)].down /\ all[n + m + (n - i + 1)].key = press[i].key
      <4>1. ~back[n - i + 1].down /\ back[n - i + 1].key = press[i].key
        BY <2>1, <3>1 DEF Mirrors
      <4> QED
        BY <1>1, <3>1, <4>1
    <3>3. n + m + (n - i + 1) \in i + 1 .. Len(all) /\ all[i] = press[i]
      BY <1>1, <1>2, <2>1
    <3> QED
      BY <3>2, <3>3
  <2>2. CASE i \in n + 1 .. n + m
    <3>1. i - n \in 1 .. m /\ n + (i - n) = i
      BY <1>2, <2>2
    <3>2. PICK j \in i - n + 1 .. m : ~tap[j].down /\ tap[j].key = tap[i - n].key
      BY <1>1, <1>3, <3>1 DEF Released
    <3>3. j \in 1 .. m
      BY <1>2, <3>1, <3>2
    <3>4. all[n + j] = tap[j] /\ all[i] = tap[i - n]
      BY <1>1, <3>1, <3>3
    <3>5. n + j \in i + 1 .. Len(all)
      BY <1>1, <1>2, <3>1, <3>2, <3>3
    <3> QED
      BY <3>2, <3>4, <3>5
  <2>3. CASE i \in n + m + 1 .. n + m + n
    <3>1. i - (n + m) \in 1 .. n /\ n + m + (i - (n + m)) = i
      BY <1>2, <2>3
    <3> QED
      BY <1>1, <1>3, <3>1 DEF Mirrors
  <2> QED
    BY <1>1, <1>2, <2>1, <2>2, <2>3
<1> QED
  BY <1>1, <1>3 DEF Clean, Released, all

\* A key and its modifiers.
LEMMA KeyStrokesClean ==
  ASSUME NEW mods \in Seq(STRING), NEW key \in STRING
  PROVE  KeyStrokes(mods, key) \in Clean
<1> DEFINE known == Filtered(mods, DOMAIN ModVK)
           n == Len(known)
           press == [i \in DOMAIN known |-> Down(ModVK[known[i]])]
           release == [i \in DOMAIN known |-> Up(ModVK[known[i]])]
           back == Reverse(release)
           tap == <<Down(VkFor[key]), Up(VkFor[key])>>
<1>1. known \in Seq(DOMAIN ModVK)
  <2>1. known \in Seq(STRING \cap DOMAIN ModVK)
    BY FilteredType
  <2> QED
    BY <2>1
<1>2. \A i \in 1 .. n : ModVK[known[i]] \in KeyCodes
  BY <1>1, CodesType DEF ModVK, KeyCodes, Modifiers
<1>3. CASE key \notin DOMAIN VkFor
  <2>1. KeyStrokes(mods, key) = <<>>
    BY <1>3 DEF KeyStrokes
  <2> QED
    BY <2>1 DEF Clean, Released
<1>4. CASE key \in DOMAIN VkFor
  <2>1. KeyStrokes(mods, key) = press \o tap \o back
    BY <1>4 DEF KeyStrokes
  <2>2. VkFor[key] \in KeyCodes
    BY <1>4, CodesType DEF VkFor, KeyCodes
  <2> HIDE DEF known
  <2>3. n \in Nat /\ DOMAIN known = 1 .. n
    BY <1>1
  <2>4. /\ press \in Seq(StrokeType) /\ Len(press) = n
        /\ back \in Seq(StrokeType) /\ Len(back) = n
        /\ tap \in Seq(StrokeType) /\ Released(tap)
    BY <1>2, <2>2, <2>3 DEF Down, Up, StrokeType, Reverse, Released
  <2>5. Mirrors(back, press)
    BY <2>3 DEF Mirrors, Reverse, Down, Up
  <2> HIDE DEF press, tap, back, n
  <2> QED
    BY <2>1, <2>4, <2>5, BracketClean
<1> QED
  BY <1>3, <1>4

\* A text, rune after rune.
LEMMA TextStrokesClean ==
  ASSUME NEW runes \in Seq({"bmp", "beyond"})
  PROVE  TextStrokes(runes) \in Clean
<1> DEFINE n == Len(Filtered(runes, {"bmp"}))
           all == TextStrokes(runes)
<1>1. n \in Nat
  BY FilteredType
<1>2. all = [i \in 1 .. 2 * n |-> IF i % 2 = 1 THEN Down("CHAR") ELSE Up("CHAR")]
  BY DEF TextStrokes
<1> HIDE DEF n, all
<1>3. "CHAR" \in KeyCodes
  BY DEF KeyCodes
<1>4. all \in Seq(StrokeType) /\ Len(all) = 2 * n
  BY <1>1, <1>2, <1>3 DEF Down, Up, StrokeType
<1>5. ASSUME NEW i \in 1 .. Len(all), all[i].down
      PROVE  \E j \in i + 1 .. Len(all) : ~all[j].down /\ all[j].key = all[i].key
  <2>1. i % 2 = 1
    BY <1>1, <1>2, <1>4, <1>5 DEF Up
  <2>2. i + 1 \in 1 .. 2 * n /\ (i + 1) % 2 # 1
    BY <1>1, <1>4, <2>1
  <2>3. all[i] = Down("CHAR") /\ all[i + 1] = Up("CHAR")
    BY <1>2, <1>4, <2>1, <2>2
  <2> QED
    BY <1>1, <1>4, <2>2, <2>3 DEF Down, Up
<1> QED
  BY <1>4, <1>5 DEF Clean, Released, all

\* The mouse has no keys.
LEMMA MouseStrokesClean ==
  ASSUME NEW action \in STRING
  PROVE  MouseStrokes(action) \in Clean
<1> DEFINE Click2(b) == Click(b) \o Click(b)
<1>1. ASSUME NEW b \in Buttons
      PROVE  /\ <<Down(b)>> \in Clean /\ <<Up(b)>> \in Clean
             /\ Click(b) \in Clean /\ Click2(b) \in Clean
  <2>1. b \notin KeyCodes /\ Down(b) \in StrokeType /\ Up(b) \in StrokeType
    BY KeysAreNoButtons DEF StrokeType, Down, Up
  <2>3. \A strokes \in Seq({Down(b), Up(b)}) : strokes \in Clean
    <3>1. SUFFICES ASSUME NEW strokes \in Seq({Down(b), Up(b)}) PROVE strokes \in Clean
      OBVIOUS
    <3>2. strokes \in Seq(StrokeType)
      BY <2>1
    <3>3. \A i \in 1 .. Len(strokes) : strokes[i].key = b
      BY DEF Down, Up
    <3> QED
      BY <2>1, <3>2, <3>3 DEF Clean, Released
  <2>4. Click(b) \in Seq({Down(b), Up(b)}) /\ Click2(b) \in Seq({Down(b), Up(b)})
    <3>1. Click(b) \in Seq({Down(b), Up(b)})
      BY DEF Click
    <3> QED
      BY <3>1
  <2>5. <<Down(b)>> \in Seq({Down(b), Up(b)}) /\ <<Up(b)>> \in Seq({Down(b), Up(b)})
    OBVIOUS
  <2> QED
    BY <2>3, <2>4, <2>5, Zenon
<1>2. <<>> \in Clean
  BY DEF Clean, Released
<1>3. "LEFT" \in Buttons /\ "RIGHT" \in Buttons
  BY DEF Buttons
<1> QED
  BY <1>1, <1>2, <1>3 DEF MouseStrokes

LEMMA StrokesClean ==
  ASSUME NEW e \in Events
  PROVE  Strokes(e) \in Clean
<1>1. CASE e \in [kind : {"key"}, mods : Seq(STRING), key : STRING]
  BY <1>1, KeyStrokesClean DEF Strokes
<1>2. CASE e \in [kind : {"text"}, runes : Seq({"bmp", "beyond"})]
  BY <1>2, TextStrokesClean DEF Strokes
<1>3. CASE e \in [kind : {"mouse"}, action : STRING]
  BY <1>3, MouseStrokesClean DEF Strokes
<1> QED
  BY <1>1, <1>2, <1>3, EventsAssumption DEF InputEvents

-----------------------------------------------------------------------------
(* Commands.                                                               *)

JobsTypeOK ==
  /\ svc \in [Services -> {"running", "stopping", "stopped", "starting"}]
  /\ cmd \in [Calls -> Commands \cup {NoCommand}]
  /\ told \in [Calls -> {"idle", "waiting", "ok", "error"}]
  /\ job \in [Calls -> {"none", "sent", "wait", "down", "yes", "no"}]
  /\ did \in [Calls -> SUBSET {"started", "stopping", "stopped", "killed"}]

\* What the goroutine of call c knows to have happened where it has arrived.
Known(c) ==
  /\ job[c] # "none" => cmd[c] \in Commands
  /\ job[c] \in {"wait", "down"} => cmd[c].do = "restart" /\ "stopping" \in did[c]
  /\ job[c] = "wait" /\ svc[cmd[c].to] = "stopped" => "stopped" \in did[c]
  /\ job[c] = "down" => "stopped" \in did[c]
  /\ job[c] = "yes" => Asked(cmd[c]) \subseteq did[c]
  /\ told[c] = "ok" => Asked(cmd[c]) \subseteq did[c]

JobsInv == JobsTypeOK /\ \A c \in Calls : Known(c)

\* A service's new state is known to all who wait for it to stop.
LEMMA EffectKnown ==
  ASSUME JobsInv, NEW s \in Services, NEW c \in Calls, NEW what \in {"started", "stopping"},
         NEW v \in {"starting", "stopping", "stopped"}, Effect(s, v, c, what)
  PROVE  /\ svc' \in [Services -> {"running", "stopping", "stopped", "starting"}]
         /\ did' \in [Calls -> SUBSET {"started", "stopping", "stopped", "killed"}]
         /\ what \in did'[c]
         /\ v = "stopped" /\ cmd[c].to = s => "stopped" \in did'[c]
         /\ \A d \in Calls : did[d] \subseteq did'[d]
         /\ \A d \in Calls : job[d] = "wait" /\ cmd[d].to = s /\ v = "stopped"
                               => "stopped" \in did'[d]
  BY DEF JobsInv, JobsTypeOK, Effect

\* A step of the goroutine of call c that only the others can be disturbed by.
LEMMA OthersKnow ==
  ASSUME JobsInv, NEW s \in Services, NEW c \in Calls, NEW what \in {"started", "stopping"},
         NEW v \in {"starting", "stopping", "stopped"}, Effect(s, v, c, what),
         UNCHANGED <<cmd, told>>, \E next : Goto(c, next), NEW d \in Calls \ {c}
  PROVE  Known(d)'
<1>1. /\ did[d] \subseteq did'[d]
      /\ job[d] = "wait" /\ cmd[d].to = s /\ v = "stopped" => "stopped" \in did'[d]
  BY EffectKnown
<1>2. job'[d] = job[d] /\ cmd'[d] = cmd[d] /\ told'[d] = told[d]
  BY DEF Goto, JobsInv, JobsTypeOK
<1>3. \A r \in Services \ {s} : svc'[r] = svc[r]
  BY DEF Effect, JobsInv, JobsTypeOK
<1>4. svc'[s] = v
  BY DEF Effect, JobsInv, JobsTypeOK
<1>5. Known(d)
  BY DEF JobsInv
<1>6. job[d] = "wait" => cmd[d].to \in Services
  BY <1>5 DEF Known, Commands
<1> QED
  BY <1>1, <1>2, <1>3, <1>4, <1>5, <1>6 DEF Known

\* The goroutine of call c goes on: what it then knows.
LEMMA GoesOn ==
  ASSUME JobsInv, NEW c \in Calls, NEW s \in Services, NEW v \in {"starting", "stopping", "stopped"},
         NEW what \in {"started", "stopping"},
         NEW next \in {"wait", "down", "yes"},
         job[c] \in {"sent", "down"}, cmd[c].to = s,
         Effect(s, v, c, what), Goto(c, next), UNCHANGED <<cmd, told>>,
         \/ next = "yes" /\ Asked(cmd[c]) \subseteq did[c] \cup {what}
         \/ /\ next = IF v = "stopped" THEN "down" ELSE "wait"
            /\ cmd[c].do = "restart" /\ what = "stopping"
  PROVE  JobsInv'
<1>1. JobsTypeOK'
  BY EffectKnown DEF JobsInv, JobsTypeOK, Goto
<1>2. /\ did[c] \cup {what} \subseteq did'[c]
      /\ v = "stopped" => "stopped" \in did'[c]
  BY EffectKnown
<1>3. job'[c] = next /\ cmd'[c] = cmd[c] /\ told'[c] = told[c] /\ svc'[s] = v
  BY DEF Goto, Effect, JobsInv, JobsTypeOK
<1>4. Known(c) /\ cmd[c] \in Commands
  BY DEF JobsInv, Known
<1>5. Known(c)'
  BY <1>2, <1>3, <1>4 DEF Known
<1>6. \A d \in Calls \ {c} : Known(d)'
  BY OthersKnow
<1> QED
  BY <1>1, <1>5, <1>6 DEF JobsInv

LEMMA JobStepKeeps ==
  ASSUME JobsInv, NEW c \in Calls, JobStep(c)
  PROVE  JobsInv'
<1> USE DEF commands, input
<1>0. Known(c)
  BY DEF JobsInv
<1>1. CASE Start(c)
  <2>1. cmd[c].do \in {"start", "restart"} /\ cmd[c] \in Commands
    BY <1>0, <1>1 DEF Start, Doing, Known
  <2>2. cmd[c].to \in Services
    BY <2>1 DEF Commands
  <2>3. Asked(cmd[c]) \subseteq did[c] \cup {"started"}
    BY <1>0, <1>1, <2>1 DEF Start, Doing, Known, Asked
  <2> QED
    BY <1>1, <2>2, <2>3, GoesOn DEF Start, Doing
<1>2. CASE Stop(c)
  <2>1. cmd[c].to \in Services
    BY <1>0, <1>2 DEF Stop, Doing, Known, Commands
  <2>2. Asked(cmd[c]) \subseteq did[c] \cup {"stopping"}
    BY <1>2 DEF Stop, Doing, Asked
  <2> QED
    BY <1>2, <2>1, <2>2, GoesOn DEF Stop, Doing
<1>3. CASE Restart(c)
  <2>1. cmd[c].to \in Services
    BY <1>0, <1>3 DEF Restart, Doing, Known, Commands
  <2> QED
    BY <1>3, <2>1, GoesOn DEF Restart, Doing
<1>4. CASE Query(c)
  BY <1>0, <1>4 DEF Query, Goto, JobsInv, JobsTypeOK, Known
<1>5. CASE Refuse(c) \/ GiveUp(c) \/ StartFails(c)
  BY <1>0, <1>5 DEF Refuse, GiveUp, StartFails, Goto, JobsInv, JobsTypeOK, Known
<1>6. CASE Kill(c)
  <2>1. Asked(cmd[c]) = {"killed"}
    BY <1>6 DEF Kill, Doing, Asked
  <2> QED
    BY <1>0, <1>6, <2>1 DEF Kill, Doing, Goto, JobsInv, JobsTypeOK, Known
<1>7. CASE Answer(c)
  BY <1>0, <1>7 DEF Answer, Goto, JobsInv, JobsTypeOK, Known
<1>8. CASE Lose(c)
  BY <1>0, <1>8 DEF Lose, Goto, JobsInv, JobsTypeOK, Known
<1> QED
  BY <1>1, <1>2, <1>3, <1>4, <1>5, <1>6, <1>7, <1>8 DEF JobStep

LEMMA CallerKeeps ==
  ASSUME JobsInv, NEW c \in Calls, Timeout(c) \/ Forget(c) \/ \E k \in Commands : Call(c, k)
  PROVE  JobsInv'
<1>1. CASE Timeout(c)
  BY <1>1 DEF Timeout, JobsInv, JobsTypeOK, Known
<1>2. CASE Forget(c)
  BY <1>2 DEF Forget, JobsInv, JobsTypeOK, Known
<1>3. ASSUME NEW k \in Commands, Call(c, k) PROVE JobsInv'
  <2>1. UNCHANGED <<svc, did>> /\ cmd' = [cmd EXCEPT ![c] = k]
    BY <1>3 DEF Call
  <2>2. CASE computer = "on"
    BY <1>3, <2>1, <2>2 DEF Call, JobsInv, JobsTypeOK, Known
  <2>3. CASE computer # "on"
    BY <1>3, <2>1, <2>3 DEF Call, JobsInv, JobsTypeOK, Known
  <2> QED
    BY <2>2, <2>3
<1> QED
  BY <1>1, <1>2, <1>3

\* Windows, and all that is not about commands.
LEMMA WindowsKeeps ==
  ASSUME JobsInv,
         \/ \E o \in Operators : Stroke(o) \/ \E e \in Events : Take(o, e)
         \/ \E s \in Services : ServiceChanges(s)
         \/ \E p \in Pids : ProcessChanges(p)
         \/ AgentEnds \/ AgentConnects \/ PowerOff \/ Wake \/ SwitchOn
         \/ UNCHANGED machineVars
  PROVE  JobsInv'
<1>1. ASSUME NEW s \in Services, ServiceChanges(s) PROVE JobsInv'
  <2>1. PICK next \in {"running", "stopped", "starting"} :
          /\ svc' = [svc EXCEPT ![s] = next]
          /\ did' = [c \in Calls |-> did[c] \cup
               {w \in {next} : w = "stopped" /\ job[c] = "wait" /\ cmd[c].to = s}]
    <3>1. svc[s] \in {"running", "stopping", "stopped", "starting"}
      BY DEF JobsInv, JobsTypeOK
    <3> DEFINE nexts == [starting |-> {"running", "stopped"}, stopping |-> {"stopped"},
                         running |-> {"stopped"}, stopped |-> {"starting"}]
    <3>2. nexts[svc[s]] \subseteq {"running", "stopped", "starting"}
      <4>1. /\ nexts.starting = {"running", "stopped"} /\ nexts.stopping = {"stopped"}
            /\ nexts.running = {"stopped"} /\ nexts.stopped = {"starting"}
        OBVIOUS
      <4> HIDE DEF nexts
      <4> QED
        BY <3>1, <4>1
    <3>3. PICK next \in nexts[svc[s]] :
            /\ svc' = [svc EXCEPT ![s] = next]
            /\ did' = [c \in Calls |-> did[c] \cup
                 {w \in {next} : w = "stopped" /\ job[c] = "wait" /\ cmd[c].to = s}]
      BY <1>1, Zenon DEF ServiceChanges
    <3> QED
      BY <3>2, <3>3, Zenon
  <2>2. UNCHANGED <<cmd, told, job>>
    BY <1>1 DEF ServiceChanges
  <2>3. JobsTypeOK'
    BY <2>1, <2>2 DEF JobsInv, JobsTypeOK
  <2>4. ASSUME NEW c \in Calls PROVE Known(c)'
    <3>1. Known(c)
      BY DEF JobsInv
    <3>2. did[c] \subseteq did'[c]
      BY <2>1
    <3>3. job[c] = "wait" => cmd[c].to \in Services
      BY <3>1 DEF Known, Commands
    <3>4. job[c] = "wait" /\ svc'[cmd[c].to] = "stopped" => "stopped" \in did'[c]
      BY <2>1, <3>1, <3>2, <3>3 DEF Known, JobsInv, JobsTypeOK
    <3> QED
      BY <2>2, <3>1, <3>2, <3>4 DEF Known
  <2> QED
    BY <2>3, <2>4 DEF JobsInv
<1>2. CASE AgentEnds \/ PowerOff
  BY <1>2 DEF AgentEnds, PowerOff, NoJobs, JobsInv, JobsTypeOK, Known
<1>3. ASSUME UNCHANGED <<svc, cmd, told, job, did>> PROVE JobsInv'
  BY <1>3 DEF JobsInv, JobsTypeOK, Known
<1> QED
  BY <1>1, <1>2, <1>3 DEF Stroke, Take, ProcessChanges, AgentConnects, Wake, SwitchOn,
                         MagicPacket, machineVars, commands

LEMMA InitJobsInv == MachineInit => JobsInv
<1>1. NoCommand \notin Commands
  BY DEF NoCommand, Commands
<1> QED
  BY DEF MachineInit, JobsInv, JobsTypeOK, Known

\* What a job has seen and what it says of that agree in every state.
THEOREM JobsInvariant == MachineSpec => []JobsInv
<1>1. JobsInv /\ [MachineNext]_machineVars => JobsInv'
  BY JobStepKeeps, CallerKeeps, WindowsKeeps DEF MachineNext
<1> QED
  BY <1>1, InitJobsInv, PTL DEF MachineSpec

\* Whoever is told "ok" is told the truth.  A goroutine that has come as far as
\* "yes" has seen all that its command asks for, and what has been seen cannot be
\* undone; whatever becomes of the connection, no other answer than its own arrives
\* (winservices.go:81-114, dispatch.go:107-148, commands.go:21-36).
THEOREM MachineOkIsTrue == MachineSpec => []OkIsTrue
<1>1. JobsInv => OkIsTrue
  BY DEF JobsInv, Known, OkIsTrue
<1> QED
  BY <1>1, JobsInvariant, PTL

-----------------------------------------------------------------------------
(* Keys.                                                                   *)

\* A key that is down is owed: it comes up before the hand is empty.
Owes(o, k) == \E i \in 1 .. Len(hand[o]) : ~hand[o][i].down /\ hand[o][i].key = k

KeysInv ==
  /\ hand \in [Operators -> Clean]
  /\ held \subseteq KeyCodes \cup Buttons
  /\ stuck \subseteq held
  /\ \A o, p \in Operators : hand[o] # <<>> /\ hand[p] # <<>> => o = p
  /\ \A k \in (held \cap KeyCodes) \ stuck : \E o \in Operators : Owes(o, k)

\* The first stroke leaves a clean rest, which owes the key if it went down.
LEMMA TailClean ==
  ASSUME NEW strokes \in Clean, strokes # <<>>
  PROVE  /\ Head(strokes) \in StrokeType
         /\ Tail(strokes) \in Clean
         /\ Len(Tail(strokes)) = Len(strokes) - 1
         /\ \A i \in 1 .. Len(strokes) - 1 : Tail(strokes)[i] = strokes[i + 1]
         /\ Head(strokes) = strokes[1]
         /\ Len(strokes) \in Nat \ {0}
<1>1. /\ strokes \in Seq(StrokeType) /\ Released(strokes)
      /\ Len(strokes) \in Nat \ {0}
  BY DEF Clean
<1>2. /\ Head(strokes) \in StrokeType
      /\ Tail(strokes) \in Seq(StrokeType)
      /\ Len(Tail(strokes)) = Len(strokes) - 1
      /\ \A i \in 1 .. Len(strokes) - 1 : Tail(strokes)[i] = strokes[i + 1]
      /\ Head(strokes) = strokes[1]
  BY <1>1
<1>3. ASSUME NEW i \in 1 .. Len(Tail(strokes)), Tail(strokes)[i].down,
             Tail(strokes)[i].key \in KeyCodes
      PROVE  \E j \in i + 1 .. Len(Tail(strokes)) :
               ~Tail(strokes)[j].down /\ Tail(strokes)[j].key = Tail(strokes)[i].key
  <2>1. i + 1 \in 1 .. Len(strokes) /\ Tail(strokes)[i] = strokes[i + 1]
    BY <1>1, <1>2
  <2>2. PICK j \in i + 1 + 1 .. Len(strokes) :
          ~strokes[j].down /\ strokes[j].key = strokes[i + 1].key
    BY <1>1, <1>3, <2>1 DEF Released
  <2>3. j - 1 \in i + 1 .. Len(Tail(strokes)) /\ Tail(strokes)[j - 1] = strokes[j]
    BY <1>1, <1>2, <2>2
  <2> QED
    BY <2>1, <2>2, <2>3
<1> QED
  BY <1>1, <1>2, <1>3 DEF Clean, Released

LEMMA StrokeKeeps ==
  ASSUME KeysInv, NEW o \in Operators, Stroke(o)
  PROVE  KeysInv'
<1> DEFINE s == Head(hand[o])
           rest == Tail(hand[o])
<1>1. /\ s \in StrokeType /\ s = hand[o][1]
      /\ rest \in Clean /\ Len(rest) = Len(hand[o]) - 1
      /\ \A i \in 1 .. Len(hand[o]) - 1 : rest[i] = hand[o][i + 1]
      /\ Len(hand[o]) \in Nat \ {0}
      /\ Released(hand[o])
  BY TailClean DEF Stroke, KeysInv, Clean
<1>2. /\ hand' = [hand EXCEPT ![o] = rest]
      /\ held' = IF s.down THEN held \cup {s.key} ELSE held \ {s.key}
      /\ stuck' = IF s.down THEN stuck ELSE stuck \ {s.key}
  BY DEF Stroke
<1>3. hand' \in [Operators -> Clean] /\ hand'[o] = rest
  BY <1>1, <1>2 DEF KeysInv
<1>4. \A p \in Operators \ {o} : hand[p] = <<>> /\ hand'[p] = <<>>
  BY <1>2 DEF KeysInv, Stroke
<1> HIDE DEF s, rest
<1>5. s.key \in KeyCodes \cup Buttons /\ s.down \in BOOLEAN
  BY <1>1 DEF StrokeType
<1>6. held' \subseteq KeyCodes \cup Buttons /\ stuck' \subseteq held'
  BY <1>2, <1>5 DEF KeysInv
<1>7. ASSUME NEW k \in (held' \cap KeyCodes) \ stuck' PROVE Owes(o, k)'
  <2>1. PICK i \in 2 .. Len(hand[o]) : ~hand[o][i].down /\ hand[o][i].key = k
    <3>1. CASE k = s.key /\ s.down
      BY <1>1, <1>7, <3>1 DEF Released
    <3>2. CASE ~(k = s.key /\ s.down)
      <4>1. k \in (held \cap KeyCodes) \ stuck /\ k # s.key
        BY <1>2, <1>5, <1>7, <3>2
      <4>2. PICK p \in Operators : Owes(p, k)
        BY <4>1 DEF KeysInv
      <4>3. p = o
        BY <1>4, <4>2 DEF Owes
      <4>4. PICK i \in 1 .. Len(hand[o]) : ~hand[o][i].down /\ hand[o][i].key = k
        BY <4>2, <4>3 DEF Owes
      <4>5. i # 1
        BY <1>1, <4>1, <4>4
      <4> QED
        BY <1>1, <4>4, <4>5
    <3> QED
      BY <3>1, <3>2
  <2>2. i - 1 \in 1 .. Len(rest) /\ rest[i - 1] = hand[o][i]
    BY <1>1, <2>1
  <2>3. ~rest[i - 1].down /\ rest[i - 1].key = k
    BY <2>1, <2>2
  <2> QED
    BY <1>3, <2>2, <2>3 DEF Owes
<1> QED
  BY <1>3, <1>4, <1>6, <1>7 DEF KeysInv

LEMMA TakeKeeps ==
  ASSUME KeysInv, NEW o \in Operators, NEW e \in Events, Take(o, e)
  PROVE  KeysInv'
<1>1. /\ hand' = [hand EXCEPT ![o] = Strokes(e)]
      /\ UNCHANGED <<held, stuck>>
      /\ \A p \in Operators : hand[p] = <<>>
  BY DEF Take
<1>2. Strokes(e) \in Clean
  BY StrokesClean
<1>3. hand' \in [Operators -> Clean]
  BY <1>1, <1>2 DEF KeysInv
<1>4. \A p, q \in Operators : hand'[p] # <<>> /\ hand'[q] # <<>> => p = q
  BY <1>1, <1>3 DEF KeysInv
<1>5. (held \cap KeyCodes) \ stuck = {}
  BY <1>1 DEF KeysInv, Owes
<1> QED
  BY <1>1, <1>3, <1>4, <1>5 DEF KeysInv

LEMMA NextKeysInv == KeysInv /\ [MachineNext]_machineVars => KeysInv'
<1> SUFFICES ASSUME KeysInv, [MachineNext]_machineVars PROVE KeysInv'
  OBVIOUS
<1>1. ASSUME UNCHANGED <<hand, held, stuck>> PROVE KeysInv'
  BY <1>1 DEF KeysInv, Owes
<1>2. <<>> \in Clean
  BY DEF Clean, Released
<1>3. CASE AgentEnds \/ PowerOff
  <2>1. /\ hand' = [o \in Operators |-> <<>>]
        /\ held' \subseteq held /\ stuck' = held'
    BY <1>3 DEF AgentEnds, PowerOff, NoJobs
  <2> QED
    BY <1>2, <2>1 DEF KeysInv
<1>4. ASSUME NEW c \in Calls,
             Timeout(c) \/ Forget(c) \/ JobStep(c) \/ \E k \in Commands : Call(c, k)
      PROVE  UNCHANGED <<hand, held, stuck>>
  BY <1>4 DEF Timeout, Forget, JobStep, Call, Refuse, Start, Stop, Restart, Query, GiveUp,
              StartFails, Kill, Answer, Lose, input
<1>5. ASSUME \/ \E s \in Services : ServiceChanges(s)
             \/ \E p \in Pids : ProcessChanges(p)
             \/ AgentConnects \/ Wake \/ SwitchOn \/ UNCHANGED machineVars
      PROVE  UNCHANGED <<hand, held, stuck>>
  BY <1>5 DEF ServiceChanges, ProcessChanges, AgentConnects, Wake, SwitchOn, MagicPacket,
              machineVars, input
<1> QED
  BY <1>1, <1>3, <1>4, <1>5, StrokeKeeps, TakeKeeps DEF MachineNext

\* One event is in hand and owes the keys that are down, in every state.
THEOREM KeysInvariant == MachineSpec => []KeysInv
<1>1. <<>> \in Clean
  BY DEF Clean, Released
<1>2. MachineInit => KeysInv
  BY <1>1 DEF MachineInit, KeysInv
<1> QED
  BY <1>2, NextKeysInv, PTL DEF MachineSpec

\* Events of several operators do not mix, whatever they type and click: the reader
\* of the agent has one event in hand, and that event owes all keys that are down,
\* modifiers included (input_windows.go:116-146, dispatch.go:69-78).
THEOREM MachineKeysAreOwn == MachineSpec => []KeysAreOwn
<1>1. KeysInv => KeysAreOwn
  <2> SUFFICES ASSUME KeysInv PROVE KeysAreOwn
    OBVIOUS
  <2>1. \A o \in Operators : \A k : Owes(o, k) <=> k \in Owed(o)
    BY DEF Owes, Owed, KeysInv, Clean
  <2>2. (held \cap KeyCodes) \ stuck \subseteq UNION {Owed(o) : o \in Operators}
    BY <2>1 DEF KeysInv
  <2>3. ASSUME NEW o \in Operators, hand[o] # <<>>
        PROVE  (held \cap Modifiers) \ stuck \subseteq Owed(o)
    <3>1. Modifiers \subseteq KeyCodes
      BY DEF KeyCodes
    <3>2. \A p \in Operators : p # o => hand[p] = <<>>
      BY <2>3 DEF KeysInv
    <3>3. \A p \in Operators : \A k : Owes(p, k) => p = o
      BY <3>2 DEF Owes
    <3> QED
      BY <2>1, <3>1, <3>3 DEF KeysInv
  <2> QED
    BY <2>2, <2>3 DEF KeysAreOwn
<1> QED
  BY <1>1, KeysInvariant, PTL

\* All that Machine remembers has its type.
THEOREM MachineTypeCorrect == MachineSpec => []MachineTypeOK
<1> DEFINE Others == computer \in {"off", "alone", "on"} /\ runs \subseteq Pids
<1>1. MachineInit => Others
  BY DEF MachineInit
<1>2. Others /\ [MachineNext]_machineVars => Others'
  <2> SUFFICES ASSUME Others, [MachineNext]_machineVars PROVE Others'
    OBVIOUS
  <2>1. ASSUME NEW c \in Calls, JobStep(c) PROVE Others'
    BY <2>1 DEF JobStep, Refuse, Start, Stop, Restart, Query, GiveUp, StartFails, Kill,
                Answer, Lose
  <2>2. ASSUME NEW c \in Calls, Timeout(c) \/ Forget(c) \/ \E k \in Commands : Call(c, k)
        PROVE  Others'
    BY <2>2 DEF Timeout, Forget, Call
  <2>3. ASSUME NEW o \in Operators, Stroke(o) \/ \E e \in Events : Take(o, e) PROVE Others'
    BY <2>3 DEF Stroke, Take
  <2>4. ASSUME \/ \E s \in Services : ServiceChanges(s)
               \/ \E p \in Pids : ProcessChanges(p)
               \/ AgentEnds \/ AgentConnects \/ PowerOff \/ Wake \/ SwitchOn
               \/ UNCHANGED machineVars
        PROVE  Others'
    BY <2>4 DEF ServiceChanges, ProcessChanges, AgentEnds, AgentConnects, PowerOff, Wake,
                SwitchOn, MagicPacket, machineVars
  <2> QED
    BY <2>1, <2>2, <2>3, <2>4 DEF MachineNext
<1>3. JobsInv /\ KeysInv /\ Others => MachineTypeOK
  BY DEF JobsInv, JobsTypeOK, KeysInv, Clean, StrokeType, MachineTypeOK
<1> QED
  BY <1>1, <1>2, <1>3, JobsInvariant, KeysInvariant, PTL DEF MachineSpec
=============================================================================
