------------------------------ MODULE LinksProofs ------------------------------
(* Proofs about removed devices: one that was removed stays out until the  *)
(* user pairs again, and the key it may still hold is not shown or         *)
(* accepted again; and about links: those in use are up, and two devices   *)
(* that dialled each other keep the same one; all for any number of links, *)
(* keys and troubles.                                                      *)
EXTENDS Links, SequenceTheorems, WellFoundedInduction, TLAPS

USE LinksAssumption DEF Device

(* Keys are made in order, so that a new one is none that was removed.     *)
KeysInOrder ==
    /\ minted \in Nat
    /\ psk \in [Device -> 0 .. minted]
    /\ key \in [Device -> 0 .. minted]
    /\ revoked \in [Device -> SUBSET (1 .. minted)]
KeyInv == KeysInOrder /\ NoRevokedKeyShown

(* What removal takes away is a key, the link in use and the entry in the  *)
(* list of devices.                                                        *)
TrustTyped ==
    /\ key = [d \in Device |-> key[d]] /\ current = [d \in Device |-> current[d]]
    /\ known \subseteq Device /\ blocked \subseteq Device
OutInv == TrustTyped /\ RemovedStaysOut

-----------------------------------------------------------------------------
(* Keys.                                                                   *)

(* What a step may do to the keys: nothing, or one of four things.         *)
KeysUntouched == UNCHANGED <<key, psk, revoked, minted>>

LEMMA TrustKept == UNCHANGED trust => KeysUntouched
BY DEF trust, KeysUntouched

LEMMA OthersLeaveKeys ==
    ASSUME NEW d \in Device,
           \/ AutoDial(d) \/ UserDial(d) \/ HeartbeatClose(d) \/ EndPairing(d)
           \/ GoOffline(d) \/ GoOnline(d)
    PROVE  KeysUntouched
BY DEF AutoDial, UserDial, HeartbeatClose, EndPairing, GoOffline, GoOnline, trust, KeysUntouched

LEMMA LinksLeaveKeys ==
    ASSUME NEW l, NEW d \in Device,
           Incoming(l) \/ DialTimeout(l) \/ Cut(l) \/ Open(l, d) \/ Notice(l, d)
    PROVE  KeysUntouched
BY DEF Incoming, DialTimeout, Cut, Open, Notice, trust, KeysUntouched

LEMMA KeyStep == KeyInv /\ [Next]_vars => KeyInv'
<1> SUFFICES ASSUME KeyInv, [Next]_vars PROVE KeyInv'
  OBVIOUS
<1> USE DEF KeyInv, KeysInOrder, NoRevokedKeyShown
<1>1. CASE KeysUntouched
  BY <1>1 DEF KeysUntouched
<1>2. CASE UNCHANGED vars
  BY <1>2 DEF vars
<1>3. ASSUME NEW d \in Device, BeginPairing(d) PROVE KeyInv'
  <2>1. CASE psk[d] = 0
    <3>1. minted' = minted + 1 /\ psk' = [psk EXCEPT ![d] = minted + 1] /\ UNCHANGED <<key, revoked>>
      BY <1>3, <2>1 DEF BeginPairing
    <3>2. 0 .. minted \subseteq 0 .. minted' /\ 1 .. minted \subseteq 1 .. minted'
      BY <3>1
    <3>3. \A e \in Device : psk[e] \in 0 .. minted' /\ key'[e] \in 0 .. minted' /\ revoked[e] \subseteq 1 .. minted'
      BY <3>1, <3>2
    <3>4. KeysInOrder'
      BY <3>1, <3>2, <3>3
    <3>5. \A e \in Device : psk'[e] \notin revoked'[e]
      BY <3>1
    <3>6. QED
      BY <3>4, <3>5
  <2>2. CASE psk[d] # 0
    BY <1>3, <2>2 DEF BeginPairing
  <2>3. QED
    BY <2>1, <2>2
<1>4. ASSUME NEW d \in Device, Pair(d) PROVE KeyInv'
  <2>1. Other(d) \in Device
    BY DEF Other
  <2>2. key' \in [Device -> 0 .. minted] /\ UNCHANGED <<psk, minted, revoked>>
    BY <1>4, <2>1 DEF Pair
  <2>3. QED
    BY <2>2
<1>5. ASSUME NEW d \in Device, Forget(d) PROVE KeyInv'
  <2>1. /\ revoked' = [revoked EXCEPT ![d] = @ \cup ({key[d], psk[d]} \ {0})]
        /\ key' = [key EXCEPT ![d] = 0] /\ psk' = [psk EXCEPT ![d] = 0] /\ minted' = minted
    BY <1>5 DEF Forget, PskAfterForget
  <2>2. {key[d], psk[d]} \ {0} \subseteq 1 .. minted
    OBVIOUS
  <2>3. QED
    BY <2>1, <2>2
<1>6. ASSUME NEW d \in Device, Restart(d) PROVE KeyInv'
  BY <1>6 DEF Restart
<1>7. ASSUME NEW l, NEW d \in Device, Receive(l, d) PROVE KeyInv'
  <2>1. /\ key' = [key EXCEPT ![d] = IF Adopts(d, Head(links[l].wire[d])) THEN psk[d] ELSE @]
        /\ UNCHANGED <<psk, minted, revoked>>
    BY <1>7 DEF Receive, Adopts
  <2>2. key' \in [Device -> 0 .. minted]
    BY <2>1
  <2>3. QED
    BY <2>1, <2>2
<1>8. QED
  BY <1>1, <1>2, <1>3, <1>4, <1>5, <1>6, <1>7, OthersLeaveKeys, LinksLeaveKeys DEF Next

(* beginPairingWindow, forgetDevice and handleRawIncomingData: whatever    *)
(* keys were lent, paired and given back, the one shown is never one that  *)
(* a removed device may hold.                                              *)
THEOREM RevokedKeysStaySecret == Spec => []NoRevokedKeyShown
<1>1. Init => KeyInv
  BY DEF Init, KeyInv, KeysInOrder, NoRevokedKeyShown
<1>2. KeyInv => NoRevokedKeyShown
  BY DEF KeyInv
<1>3. QED
  BY <1>1, <1>2, KeyStep, PTL DEF Spec

-----------------------------------------------------------------------------
(* Removed devices.                                                        *)

(* A device's current link only goes from one to none, ...                 *)
Loses(d) == current' = current \/ current' = [current EXCEPT ![d] = 0]

LEMMA LosingIsSafe ==
    ASSUME OutInv, NEW d \in Device, Loses(d), UNCHANGED <<known, blocked, key>>
    PROVE  OutInv'
BY DEF OutInv, TrustTyped, RemovedStaysOut, Loses

LEMMA CloseHandlerLoses ==
    ASSUME OutInv, NEW l, NEW d \in Device, CloseHandler(l, d)
    PROVE  Loses(d)
BY DEF OutInv, TrustTyped, CloseHandler, Loses

(* ... unless a handshake of a device that was not removed comes in.       *)
LEMMA ReceiveIsSafe ==
    ASSUME OutInv, NEW l, NEW d \in Device, Receive(l, d)
    PROVE  OutInv'
<1> DEFINE k == Head(links[l].wire[d])
<1>1. /\ key' = [key EXCEPT ![d] = IF Adopts(d, k) THEN k ELSE @]
      /\ blocked' = blocked
  BY DEF Receive, OutInv, TrustTyped
<1>2. \A e \in blocked : key'[e] = 0
  BY <1>1 DEF Adopts, OutInv, TrustTyped, RemovedStaysOut
<1>3. key' = [e \in Device |-> key'[e]]
  BY <1>1 DEF OutInv, TrustTyped
<1>4. CASE UNCHANGED <<current, known>>
  BY <1>1, <1>2, <1>3, <1>4 DEF OutInv, TrustTyped, RemovedStaysOut
<1>5. CASE UNCHANGED known /\ CloseHandler(l, d)
  <2>1. Loses(d)
    BY <1>5, CloseHandlerLoses
  <2>2. QED
    BY <1>1, <1>2, <1>3, <1>5, <2>1 DEF OutInv, TrustTyped, RemovedStaysOut, Loses
<1>6. CASE ~Refused(d) /\ current' = [current EXCEPT ![d] = l] /\ known' = known \cup {d}
  BY <1>1, <1>2, <1>3, <1>6 DEF OutInv, TrustTyped, RemovedStaysOut, Refused
<1>7. QED
  BY <1>4, <1>5, <1>6 DEF Receive, HandleHandshake

LEMMA OutStep == OutInv /\ [Next]_vars => OutInv'
<1> SUFFICES ASSUME OutInv, [Next]_vars PROVE OutInv'
  OBVIOUS
<1>1. CASE UNCHANGED vars
  BY <1>1 DEF vars, OutInv, TrustTyped, RemovedStaysOut
<1>2. ASSUME NEW d \in Device, Loses(d), UNCHANGED <<known, blocked, key>> PROVE OutInv'
  BY <1>2, LosingIsSafe
<1>3. ASSUME NEW d \in Device, AutoDial(d) \/ UserDial(d) \/ GoOnline(d) PROVE OutInv'
  <2>1. Loses(d) /\ UNCHANGED <<known, blocked, key>>
    BY <1>3 DEF AutoDial, UserDial, GoOnline, Dial, trust, Loses
  <2>2. QED
    BY <2>1, <1>2
<1>4. ASSUME NEW d \in Device, HeartbeatClose(d) \/ GoOffline(d) \/ Restart(d) PROVE OutInv'
  <2>1. Loses(d)
    BY <1>4, CloseHandlerLoses DEF HeartbeatClose, GoOffline, Restart, Loses
  <2>2. UNCHANGED <<known, blocked, key>>
    BY <1>4 DEF HeartbeatClose, GoOffline, Restart, trust
  <2>3. QED
    BY <2>1, <2>2, <1>2
<1>5. ASSUME NEW d \in Device, BeginPairing(d) \/ EndPairing(d) PROVE OutInv'
  <2>1. Loses(d) /\ UNCHANGED <<known, blocked, key>>
    BY <1>5 DEF BeginPairing, EndPairing, Loses
  <2>2. QED
    BY <2>1, <1>2
<1>6. ASSUME NEW d \in Device, Pair(d) PROVE OutInv'
  <2>1. /\ key' = [key EXCEPT ![d] = psk[Other(d)]]
        /\ blocked' = blocked \ {d}
        /\ UNCHANGED <<known, current>>
    BY <1>6 DEF Pair, Dial
  <2>2. QED
    BY <2>1 DEF OutInv, TrustTyped, RemovedStaysOut
<1>7. ASSUME NEW d \in Device, Forget(d) PROVE OutInv'
  <2>1. /\ key' = [key EXCEPT ![d] = 0] /\ current' = [current EXCEPT ![d] = 0]
        /\ blocked' = blocked \cup {d} /\ known' = known \ {d}
    BY <1>7 DEF Forget
  <2>2. QED
    BY <2>1 DEF OutInv, TrustTyped, RemovedStaysOut
<1>8. ASSUME NEW l, Incoming(l) \/ Cut(l) PROVE OutInv'
  <2>1. UNCHANGED <<current, known, blocked, key>>
    BY <1>8 DEF Incoming, Cut, trust
  <2>2. QED
    BY <2>1 DEF OutInv, TrustTyped, RemovedStaysOut
<1>9. ASSUME NEW l, DialTimeout(l) PROVE OutInv'
  <2>1. UNCHANGED <<current, known, blocked, key>>
    BY <1>9 DEF DialTimeout, trust
  <2>2. QED
    BY <2>1 DEF OutInv, TrustTyped, RemovedStaysOut
<1>10. ASSUME NEW l, NEW d \in Device, Open(l, d) \/ Notice(l, d) PROVE OutInv'
  <2>1. Loses(d)
    BY <1>10, CloseHandlerLoses DEF Open, Notice, Loses, OutInv, TrustTyped
  <2>2. UNCHANGED <<known, blocked, key>>
    BY <1>10 DEF Open, Notice, trust
  <2>3. QED
    BY <2>1, <2>2, <1>2
<1>11. QED
  BY <1>1, <1>3, <1>4, <1>5, <1>6, <1>7, <1>8, <1>9, <1>10, ReceiveIsSafe DEF Next

(* forgetDevice, isBlocked and handleHandshake: a removed device stays     *)
(* out, whatever links were open, whatever handshakes were under way and   *)
(* whatever keys were lent.                                                *)
THEOREM RemovedDevicesStayOut == Spec => []RemovedStaysOut
<1>1. Init => OutInv
  BY DEF Init, OutInv, TrustTyped, RemovedStaysOut
<1>2. OutInv => RemovedStaysOut
  BY DEF OutInv
<1>3. QED
  BY <1>1, <1>2, OutStep, PTL DEF Spec

-----------------------------------------------------------------------------
(* Links and their ends.                                                   *)

(* An end only opens when the other end knows of the dial, ...             *)
OpenedLink(k) ==
    \A d \in Device : k.ends[d] = "open" => k.ends[Other(d)] \notin {"none", "never"}
GoodLinks(ls) ==
    /\ DOMAIN ls \subseteq LinkId /\ ls \in [DOMAIN ls -> Link]
    /\ \A l \in DOMAIN ls : OpenedLink(ls[l])

(* ... and a device uses a link whose end is open.                         *)
GoodUse(ls, cur) ==
    /\ cur \in [Device -> {0} \cup DOMAIN ls]
    /\ \A d \in Device : cur[d] # 0 => ls[cur[d]].ends[d] = "open"
RestTyped ==
    /\ pending \subseteq Device /\ online \subseteq Device
    /\ known \subseteq Device /\ blocked \subseteq Device /\ window \subseteq Device
    /\ key \in [Device -> Key] /\ psk \in [Device -> Key] /\ revoked \in [Device -> SUBSET Key]
    /\ minted \in Key /\ redialled \in BOOLEAN /\ trouble \in 0 .. MaxTrouble
EndsInv == RestTyped /\ GoodLinks(links) /\ GoodUse(links, current)

LEMMA OtherIs ==
    ASSUME NEW d \in Device
    PROVE  /\ Other(d) \in Device /\ Other(d) # d /\ Other(Other(d)) = d
           /\ \A e \in Device : e = d \/ e = Other(d)
BY DEF Other

LEMMA LinkIs ==
    ASSUME NEW k \in Link
    PROVE  /\ k.dialler \in Device /\ k.auto \in BOOLEAN /\ k.dead \in BOOLEAN
           /\ k.ends \in [Device -> End] /\ k.wire \in [Device -> Seq(Key)]
BY DEF Link

Edited(k, E, W) ==
    [dialler |-> k.dialler, auto |-> k.auto, dead |-> k.dead, ends |-> E, wire |-> W]

LEMMA EditedLink ==
    ASSUME NEW k \in Link, NEW E \in [Device -> End], NEW W \in [Device -> Seq(Key)]
    PROVE  /\ Edited(k, E, W) \in Link
           /\ Edited(k, E, W).ends = E /\ Edited(k, E, W).wire = W
           /\ Edited(k, E, W).dialler = k.dialler /\ Edited(k, E, W).auto = k.auto
           /\ Edited(k, E, W).dead = k.dead
BY DEF Link, Edited

LEMMA TidiedIs ==
    ASSUME NEW ls
    PROVE  /\ DOMAIN Tidied(ls) \subseteq DOMAIN ls
           /\ \A l \in DOMAIN Tidied(ls) : Tidied(ls)[l] = ls[l]
           /\ \A l \in DOMAIN ls : Alive(ls[l]) => l \in DOMAIN Tidied(ls)
           /\ Tidied(ls) = [l \in DOMAIN Tidied(ls) |-> Tidied(ls)[l]]
BY DEF Tidied

(* A link that is open somewhere is not forgotten.                         *)
LEMMA OpenIsAlive ==
    ASSUME NEW k \in Link, OpenedLink(k), NEW d \in Device, k.ends[d] = "open"
    PROVE  Alive(k)
<1>1. k.ends[Other(d)] # "never"
  BY DEF OpenedLink
<1>2. k.dialler \in Device
  BY LinkIs
<1>3. k.ends[Other(k.dialler)] # "never"
  BY <1>1, <1>2, OtherIs
<1>4. QED
  BY <1>3 DEF Alive

LEMMA TidiedGood ==
    ASSUME NEW ls, NEW cur, GoodLinks(ls), GoodUse(ls, cur)
    PROVE  GoodLinks(Tidied(ls)) /\ GoodUse(Tidied(ls), cur)
<1>1. GoodLinks(Tidied(ls))
  BY TidiedIs DEF GoodLinks
<1>2. ASSUME NEW d \in Device, cur[d] # 0
      PROVE  cur[d] \in DOMAIN Tidied(ls) /\ Tidied(ls)[cur[d]].ends[d] = "open"
  <2>1. cur[d] \in DOMAIN ls /\ ls[cur[d]].ends[d] = "open"
    BY <1>2 DEF GoodUse
  <2>2. ls[cur[d]] \in Link /\ OpenedLink(ls[cur[d]])
    BY <2>1 DEF GoodLinks
  <2>3. Alive(ls[cur[d]])
    BY <2>1, <2>2, OpenIsAlive
  <2>4. QED
    BY <2>1, <2>3, TidiedIs
<1>3. QED
  BY <1>1, <1>2 DEF GoodUse

LEMMA ShutEndIs ==
    ASSUME NEW k \in Link, NEW d \in Device
    PROVE  /\ ShutEnd(k, d) \in Link /\ ShutEnd(k, d).dialler = k.dialler
           /\ ShutEnd(k, d).ends[Other(d)] = k.ends[Other(d)]
           /\ ShutEnd(k, d).ends[d] = IF k.ends[d] = "none" THEN "never" ELSE "closed"
           /\ OpenedLink(k) => OpenedLink(ShutEnd(k, d))
           /\ ShutEnd(k, d).dead = k.dead
           /\ \A e \in Device : ShutEnd(k, d).wire[e] \in {k.wire[e], <<>>}
<1> DEFINE E == [k.ends EXCEPT ![d] = IF @ = "none" THEN "never" ELSE "closed"]
           W == [k.wire EXCEPT ![d] = <<>>]
<1>1. k.ends \in [Device -> End] /\ k.wire \in [Device -> Seq(Key)]
  BY LinkIs
<1>2. E \in [Device -> End] /\ W \in [Device -> Seq(Key)]
  BY <1>1 DEF End
<1>3. /\ E[Other(d)] = k.ends[Other(d)]
      /\ E[d] = IF k.ends[d] = "none" THEN "never" ELSE "closed"
  BY <1>1, OtherIs
<1>4. ShutEnd(k, d) = Edited(k, E, W)
  <2> DEFINE k1 == [k EXCEPT !.ends[d] = IF k.ends[d] = "none" THEN "never" ELSE "closed"]
  <2>1. k1 = Edited(k, E, k.wire)
    <3>1. k1 = [k EXCEPT !.ends = E]
      BY DEF Link
    <3> HIDE DEF k1, E
    <3>2. [k EXCEPT !.ends = E] = Edited(k, E, k.wire)
      BY DEF Link, Edited
    <3>3. QED
      BY <3>1, <3>2
  <2>2. ShutEnd(k, d) = [k1 EXCEPT !.wire[d] = <<>>]
    BY DEF ShutEnd
  <2> HIDE DEF k1
  <2>3. QED
    BY <2>1, <2>2 DEF Edited
<1>0. \A e \in Device : W[e] \in {k.wire[e], <<>>}
  BY <1>1
<1> HIDE DEF E, W
<1>5. /\ ShutEnd(k, d) \in Link /\ ShutEnd(k, d).dialler = k.dialler
      /\ ShutEnd(k, d).ends = E /\ ShutEnd(k, d).wire = W /\ ShutEnd(k, d).dead = k.dead
  <2>1. /\ Edited(k, E, W) \in Link /\ Edited(k, E, W).ends = E /\ Edited(k, E, W).wire = W
        /\ Edited(k, E, W).dialler = k.dialler /\ Edited(k, E, W).dead = k.dead
    BY <1>2, EditedLink
  <2>2. QED
    BY <1>4, <2>1
<1>6. OpenedLink(k) => OpenedLink(ShutEnd(k, d))
  <2>1. ASSUME OpenedLink(k), NEW e \in Device, E[e] = "open"
        PROVE  E[Other(e)] \notin {"none", "never"}
    <3>1. e = Other(d)
      BY <1>3, <2>1, OtherIs
    <3>2. k.ends[d] \notin {"none", "never"}
      BY <1>3, <2>1, <3>1, OtherIs DEF OpenedLink
    <3>3. QED
      BY <1>3, <3>1, <3>2, OtherIs
  <2>2. QED
    BY <1>5, <2>1 DEF OpenedLink
<1>7. QED
  BY <1>0, <1>3, <1>5, <1>6

(* Closing an end takes it out of use; nothing else is lost.               *)
Without(cur, l, d) == [cur EXCEPT ![d] = IF @ = l THEN 0 ELSE @]

LEMMA ShutGood ==
    ASSUME NEW ls, NEW cur, GoodLinks(ls), GoodUse(ls, cur), NEW l \in DOMAIN ls, NEW d \in Device
    PROVE  /\ GoodLinks(Shut(ls, l, d)) /\ GoodUse(Shut(ls, l, d), Without(cur, l, d))
           /\ DOMAIN Shut(ls, l, d) \subseteq DOMAIN ls
           /\ \A m \in DOMAIN Shut(ls, l, d) : m # l => Shut(ls, l, d)[m] = ls[m]
           /\ l \in DOMAIN Shut(ls, l, d) => Shut(ls, l, d)[l] = ShutEnd(ls[l], d)
           /\ \A m \in DOMAIN ls, e \in Device :
                 (m # l /\ ls[m].ends[e] = "open") => m \in DOMAIN Shut(ls, l, d)
<1> DEFINE ms == [ls EXCEPT ![l] = ShutEnd(@, d)]
<1>1. /\ ls[l] \in Link /\ OpenedLink(ls[l]) /\ DOMAIN ls \subseteq LinkId
      /\ ls \in [DOMAIN ls -> Link] /\ ShutEnd(ls[l], d) \in Link
  BY ShutEndIs DEF GoodLinks
<1>2. /\ DOMAIN ms = DOMAIN ls /\ ms[l] = ShutEnd(ls[l], d)
      /\ \A m \in DOMAIN ls : m # l => ms[m] = ls[m]
      /\ ms \in [DOMAIN ls -> Link]
  BY <1>1
<1> HIDE DEF ms
<1>3. GoodLinks(ms)
  BY <1>1, <1>2, ShutEndIs DEF GoodLinks
<1>4. GoodUse(ms, Without(cur, l, d))
  <2>1. /\ Without(cur, l, d) \in [Device -> {0} \cup DOMAIN ms]
        /\ Without(cur, l, d)[d] # l \/ Without(cur, l, d)[d] = 0
        /\ \A e \in Device : Without(cur, l, d)[e] # 0 => Without(cur, l, d)[e] = cur[e]
    BY <1>2 DEF GoodUse, Without
  <2>2. ASSUME NEW e \in Device, Without(cur, l, d)[e] # 0
        PROVE  ms[Without(cur, l, d)[e]].ends[e] = "open"
    <3>1. /\ Without(cur, l, d)[e] = cur[e] /\ cur[e] \in DOMAIN ls
          /\ ls[cur[e]].ends[e] = "open"
      BY <2>1, <2>2 DEF GoodUse
    <3>2. CASE cur[e] # l
      BY <1>2, <3>1, <3>2
    <3>3. CASE cur[e] = l
      <4>1. e = Other(d)
        BY <2>1, <2>2, <3>1, <3>3, OtherIs
      <4>2. QED
        BY <1>1, <1>2, <3>1, <3>3, <4>1, ShutEndIs
    <3>4. QED
      BY <3>2, <3>3
  <2>3. QED
    BY <2>1, <2>2 DEF GoodUse
<1>5. Shut(ls, l, d) = Tidied(ms)
  BY DEF Shut, ms
<1>6. GoodLinks(Tidied(ms)) /\ GoodUse(Tidied(ms), Without(cur, l, d))
  BY <1>3, <1>4, TidiedGood
<1>7. /\ DOMAIN Tidied(ms) \subseteq DOMAIN ls
      /\ \A m \in DOMAIN Tidied(ms) : Tidied(ms)[m] = ms[m]
  BY <1>2, TidiedIs
<1>8. ASSUME NEW m \in DOMAIN ls, NEW e \in Device, m # l, ls[m].ends[e] = "open"
      PROVE  m \in DOMAIN Tidied(ms)
  <2>1. ls[m] \in Link /\ OpenedLink(ls[m]) /\ ms[m] = ls[m]
    BY <1>2, <1>8 DEF GoodLinks
  <2>2. QED
    BY <1>2, <1>8, <2>1, OpenIsAlive, TidiedIs
<1>9. QED
  BY <1>2, <1>5, <1>6, <1>7, <1>8

-----------------------------------------------------------------------------
(* What steps do to a link.                                                *)

Replaced(ls, ms, l, k) ==
    /\ DOMAIN ms = DOMAIN ls /\ ms \in [DOMAIN ls -> Link]
    /\ ms[l] = k /\ \A m \in DOMAIN ls : m # l => ms[m] = ls[m]

LEMMA ReplaceGood ==
    ASSUME NEW ls, NEW cur, GoodLinks(ls), GoodUse(ls, cur), NEW l \in DOMAIN ls,
           NEW k \in Link, OpenedLink(k), NEW ms, Replaced(ls, ms, l, k),
           \A d \in Device : ls[l].ends[d] = "open" => k.ends[d] = "open"
    PROVE  GoodLinks(ms) /\ GoodUse(ms, cur)
<1>1. GoodLinks(ms)
  BY DEF GoodLinks, Replaced
<1>2. ASSUME NEW d \in Device, cur[d] # 0 PROVE ms[cur[d]].ends[d] = "open"
  BY <1>2 DEF GoodUse, Replaced
<1>3. QED
  BY <1>1, <1>2 DEF GoodUse, Replaced

LEMMA EndsEdit ==
    ASSUME NEW ls, GoodLinks(ls), NEW l \in DOMAIN ls, NEW d \in Device, NEW v \in End
    PROVE  Replaced(ls, [ls EXCEPT ![l].ends[d] = v], l, Edited(ls[l], [ls[l].ends EXCEPT ![d] = v], ls[l].wire))
<1> DEFINE E == [ls[l].ends EXCEPT ![d] = v]
           k == [ls[l] EXCEPT !.ends = E]
<1>1. ls[l] \in Link
  BY DEF GoodLinks
<1>2. [ls EXCEPT ![l].ends[d] = v] = [ls EXCEPT ![l] = [ls[l] EXCEPT !.ends = E]]
  BY <1>1 DEF Link
<1>3. E \in [Device -> End]
  BY <1>1 DEF Link
<1> HIDE DEF E
<1>4. k = Edited(ls[l], E, ls[l].wire)
  BY <1>1 DEF Link, Edited
<1>5. k \in Link
  BY <1>1, <1>3, <1>4, EditedLink, LinkIs
<1> HIDE DEF k
<1>6. ls \in [DOMAIN ls -> Link]
  BY DEF GoodLinks
<1>7. Replaced(ls, [ls EXCEPT ![l] = k], l, k)
  BY <1>5, <1>6 DEF Replaced
<1>8. QED
  BY <1>2, <1>4, <1>7 DEF k, E

LEMMA WireEdit ==
    ASSUME NEW ls, GoodLinks(ls), NEW l \in DOMAIN ls, NEW d \in Device, NEW w \in Seq(Key)
    PROVE  Replaced(ls, [ls EXCEPT ![l].wire[d] = w], l, Edited(ls[l], ls[l].ends, [ls[l].wire EXCEPT ![d] = w]))
<1> DEFINE W == [ls[l].wire EXCEPT ![d] = w]
           k == [ls[l] EXCEPT !.wire = W]
<1>1. ls[l] \in Link
  BY DEF GoodLinks
<1>2. [ls EXCEPT ![l].wire[d] = w] = [ls EXCEPT ![l] = [ls[l] EXCEPT !.wire = W]]
  BY <1>1 DEF Link
<1>3. W \in [Device -> Seq(Key)]
  BY <1>1 DEF Link
<1> HIDE DEF W
<1>4. k = Edited(ls[l], ls[l].ends, W)
  BY <1>1 DEF Link, Edited
<1>5. k \in Link
  BY <1>1, <1>3, <1>4, EditedLink, LinkIs
<1> HIDE DEF k
<1>6. ls \in [DOMAIN ls -> Link]
  BY DEF GoodLinks
<1>7. Replaced(ls, [ls EXCEPT ![l] = k], l, k)
  BY <1>5, <1>6 DEF Replaced
<1>8. QED
  BY <1>2, <1>4, <1>7 DEF k, W

(* What an edited link keeps.                                              *)
SameLink(k, n) == n.dialler = k.dialler /\ n.auto = k.auto /\ n.dead = k.dead

LEMMA WireGood ==
    ASSUME NEW ls, NEW cur, GoodLinks(ls), GoodUse(ls, cur), NEW l \in DOMAIN ls,
           NEW W \in [Device -> Seq(Key)], NEW ms,
           Replaced(ls, ms, l, Edited(ls[l], ls[l].ends, W))
    PROVE  /\ GoodLinks(ms) /\ GoodUse(ms, cur)
           /\ SameLink(ls[l], ms[l]) /\ ms[l].ends = ls[l].ends /\ ms[l].wire = W
<1> DEFINE k == Edited(ls[l], ls[l].ends, W)
<1>1. ls[l] \in Link /\ OpenedLink(ls[l])
  BY DEF GoodLinks
<1>2. ls[l].ends \in [Device -> End]
  BY <1>1, LinkIs
<1>3. k \in Link /\ k.ends = ls[l].ends /\ k.wire = W /\ SameLink(ls[l], k)
  BY <1>1, <1>2, EditedLink DEF SameLink
<1> HIDE DEF k
<1>4. OpenedLink(k) /\ \A e \in Device : ls[l].ends[e] = "open" => k.ends[e] = "open"
  BY <1>1, <1>3 DEF OpenedLink
<1>5. Replaced(ls, ms, l, k)
  BY DEF k
<1>6. GoodLinks(ms) /\ GoodUse(ms, cur)
  BY <1>3, <1>4, <1>5, ReplaceGood
<1>7. QED
  BY <1>3, <1>5, <1>6 DEF Replaced

LEMMA EndsGood ==
    ASSUME NEW ls, NEW cur, GoodLinks(ls), GoodUse(ls, cur), NEW l \in DOMAIN ls,
           NEW d \in Device, NEW v \in End, NEW E \in [Device -> End], NEW W \in [Device -> Seq(Key)],
           E[d] = v /\ E[Other(d)] = ls[l].ends[Other(d)], NEW ms,
           Replaced(ls, ms, l, Edited(ls[l], E, W)),
           \/ v = "opening" /\ ls[l].ends[d] = "none"
           \/ v = "open" /\ ls[l].ends[Other(d)] \notin {"none", "never"}
    PROVE  /\ GoodLinks(ms) /\ GoodUse(ms, cur)
           /\ SameLink(ls[l], ms[l]) /\ ms[l].ends = E /\ ms[l].wire = W
<1> DEFINE k == Edited(ls[l], E, W)
<1>1. ls[l] \in Link /\ OpenedLink(ls[l])
  BY DEF GoodLinks
<1>2. k \in Link /\ k.ends = E /\ k.wire = W /\ SameLink(ls[l], k)
  BY <1>1, EditedLink DEF SameLink
<1> HIDE DEF k
<1>3. ASSUME NEW e \in Device, E[e] = "open" PROVE E[Other(e)] \notin {"none", "never"}
  <2>1. CASE e = d
    BY <1>3, <2>1
  <2>2. CASE e = Other(d)
    <3>1. ls[l].ends[e] = "open" /\ Other(e) = d
      BY <1>3, <2>2, OtherIs
    <3>2. ls[l].ends[d] \notin {"none", "never"}
      BY <1>1, <3>1 DEF OpenedLink
    <3>3. QED
      BY <3>1, <3>2
  <2>3. QED
    BY <2>1, <2>2, OtherIs
<1>4. OpenedLink(k)
  BY <1>2, <1>3 DEF OpenedLink
<1>5. \A e \in Device : ls[l].ends[e] = "open" => k.ends[e] = "open"
  BY <1>2, OtherIs
<1>6. Replaced(ls, ms, l, k)
  BY DEF k
<1>7. GoodLinks(ms) /\ GoodUse(ms, cur)
  BY <1>2, <1>4, <1>5, <1>6, ReplaceGood
<1>8. QED
  BY <1>2, <1>6, <1>7 DEF Replaced

-----------------------------------------------------------------------------
(* What is said of the devices keeps its type in every step.               *)

LEMMA DialLeaves ==
    ASSUME NEW d \in Device, NEW a, Dial(d, a)
    PROVE  /\ UNCHANGED <<current, online>> /\ pending' = pending \cup {d}
           /\ redialled' = (redialled \/ \E l \in DOMAIN links : links[l].dialler = d)
BY DEF Dial

LEMMA TroubleTyped ==
    ASSUME RestTyped, NEW e, Happens(e)
    PROVE  trouble' \in 0 .. MaxTrouble /\ trouble' # 0
BY DEF RestTyped, Happens

LEMMA HandshakeLeaves ==
    ASSUME NEW l, NEW d \in Device, Receive(l, d)
    PROVE  /\ UNCHANGED <<redialled, online, blocked, psk, window, minted, revoked, trouble>>
           /\ pending' \subseteq pending /\ known' \subseteq known \cup {d}
           /\ key' = [key EXCEPT ![d] = IF Adopts(d, Head(links[l].wire[d])) THEN psk[d] ELSE @]
BY DEF Receive, HandleHandshake, CloseHandler, Adopts

LEMMA RestStep == RestTyped /\ GoodLinks(links) /\ [Next]_vars => RestTyped'
<1> SUFFICES ASSUME RestTyped, GoodLinks(links), [Next]_vars PROVE RestTyped'
  OBVIOUS
<1>1. CASE UNCHANGED vars
  BY <1>1 DEF vars, RestTyped
<1>2. ASSUME NEW d \in Device, AutoDial(d) PROVE RestTyped'
  <2>1. Dial(d, TRUE) /\ UNCHANGED trust /\ (trouble' = trouble \/ Happens("slow"))
    BY <1>2 DEF AutoDial
  <2>2. QED
    BY <2>1, DialLeaves, TroubleTyped DEF RestTyped, trust
<1>3. ASSUME NEW d \in Device, UserDial(d) PROVE RestTyped'
  BY <1>3, DialLeaves, TroubleTyped DEF UserDial, RestTyped, trust
<1>4. ASSUME NEW d \in Device, HeartbeatClose(d) PROVE RestTyped'
  <2>1. /\ UNCHANGED <<redialled, online, trust>> /\ (trouble' = trouble \/ Happens("silence"))
        /\ pending' \subseteq pending
    BY <1>4 DEF HeartbeatClose, CloseHandler
  <2>2. QED
    BY <2>1, TroubleTyped DEF RestTyped, trust
<1>5. ASSUME NEW d \in Device, BeginPairing(d) PROVE RestTyped'
  <2>1. CASE psk[d] = 0
    <3>1. minted' = minted + 1 /\ minted' \in Key
      BY <1>5, <2>1 DEF BeginPairing, RestTyped, Key
    <3>2. psk' \in [Device -> Key]
      BY <1>5, <2>1, <3>1 DEF BeginPairing, RestTyped
    <3>3. QED
      BY <1>5, <3>1, <3>2 DEF BeginPairing, RestTyped
  <2>2. CASE psk[d] # 0
    BY <1>5, <2>2 DEF BeginPairing, RestTyped
  <2>3. QED
    BY <2>1, <2>2
<1>6. ASSUME NEW d \in Device, EndPairing(d) PROVE RestTyped'
  BY <1>6 DEF EndPairing, RestTyped
<1>7. ASSUME NEW d \in Device, Pair(d) PROVE RestTyped'
  <2>1. key' = [key EXCEPT ![d] = psk[Other(d)]] /\ Other(d) \in Device
    BY <1>7, OtherIs DEF Pair
  <2>2. key' \in [Device -> Key]
    BY <2>1 DEF RestTyped
  <2>3. /\ Dial(d, FALSE) /\ Happens("pair") /\ blocked' = blocked \ {d}
        /\ UNCHANGED <<known, psk, window, minted, revoked>>
    BY <1>7 DEF Pair
  <2>4. QED
    BY <2>2, <2>3, DialLeaves, TroubleTyped DEF RestTyped
<1>8. ASSUME NEW d \in Device, Forget(d) PROVE RestTyped'
  <2>1. {key[d], psk[d]} \ {0} \subseteq Key /\ 0 \in Key
    BY DEF RestTyped, Key
  <2>2. /\ revoked' = [revoked EXCEPT ![d] = @ \cup ({key[d], psk[d]} \ {0})]
        /\ key' = [key EXCEPT ![d] = 0] /\ psk' = [psk EXCEPT ![d] = 0]
    BY <1>8 DEF Forget, PskAfterForget
  <2>3. revoked' \in [Device -> SUBSET Key] /\ key' \in [Device -> Key] /\ psk' \in [Device -> Key]
    BY <2>1, <2>2 DEF RestTyped
  <2>4. /\ Happens("forget") /\ UNCHANGED <<redialled, online, minted>> /\ pending' = pending \ {d}
        /\ known' = known \ {d} /\ blocked' = blocked \cup {d} /\ window' = window \ {d}
    BY <1>8 DEF Forget
  <2>5. QED
    BY <2>3, <2>4, TroubleTyped DEF RestTyped
<1>9. ASSUME NEW d \in Device, GoOffline(d) PROVE RestTyped'
  <2>1. /\ Happens("offline") /\ UNCHANGED <<redialled, trust>> /\ pending' \subseteq pending
        /\ online' \subseteq online
    BY <1>9 DEF GoOffline
  <2>2. QED
    BY <2>1, TroubleTyped DEF RestTyped, trust
<1>10. ASSUME NEW d \in Device, GoOnline(d) PROVE RestTyped'
  BY <1>10 DEF GoOnline, RestTyped, trust
<1>11. ASSUME NEW d \in Device, Restart(d) PROVE RestTyped'
  <2>1. psk' = [psk EXCEPT ![d] = 0] /\ 0 \in Key
    BY <1>11 DEF Restart, Key
  <2>2. psk' \in [Device -> Key]
    BY <2>1 DEF RestTyped
  <2>3. /\ Happens("restart") /\ online' = online \cup {d} /\ pending' = pending \ {d}
        /\ window' = window \ {d} /\ UNCHANGED <<redialled, known, blocked, key, minted, revoked>>
    BY <1>11 DEF Restart
  <2>4. QED
    BY <2>2, <2>3, TroubleTyped DEF RestTyped
<1>12. ASSUME NEW l \in DOMAIN links, Incoming(l) PROVE RestTyped'
  <2>1. links[l].dialler \in Device
    BY LinkIs DEF GoodLinks
  <2>2. Other(links[l].dialler) \in Device
    BY <2>1, OtherIs
  <2>3. QED
    BY <1>12, <2>2 DEF Incoming, RestTyped, trust
<1>13. ASSUME NEW l, DialTimeout(l) PROVE RestTyped'
  <2>1. /\ UNCHANGED <<redialled, online, trust>> /\ (trouble' = trouble \/ Happens("slow"))
        /\ pending' \subseteq pending
    BY <1>13 DEF DialTimeout
  <2>2. QED
    BY <2>1, TroubleTyped DEF RestTyped, trust
<1>14. ASSUME NEW l, Cut(l) PROVE RestTyped'
  BY <1>14, TroubleTyped DEF Cut, RestTyped, trust
<1>15. ASSUME NEW l, NEW d \in Device, Open(l, d) \/ Notice(l, d) PROVE RestTyped'
  <2>1. UNCHANGED <<redialled, online, trust, trouble>> /\ pending' \subseteq pending
    BY <1>15 DEF Open, Notice, CloseHandler
  <2>2. QED
    BY <2>1 DEF RestTyped, trust
<1>16. ASSUME NEW l, NEW d \in Device, Receive(l, d) PROVE RestTyped'
  <2>1. key' = [key EXCEPT ![d] = IF Adopts(d, Head(links[l].wire[d])) THEN psk[d] ELSE @]
    BY <1>16, HandshakeLeaves
  <2>2. key' \in [Device -> Key]
    BY <2>1 DEF RestTyped
  <2>3. /\ UNCHANGED <<redialled, online, blocked, psk, window, minted, revoked, trouble>>
        /\ pending' \subseteq pending /\ known' \subseteq known \cup {d}
    BY <1>16, HandshakeLeaves
  <2>4. QED
    BY <2>2, <2>3 DEF RestTyped
<1>17. QED
  BY <1>1, <1>2, <1>3, <1>4, <1>5, <1>6, <1>7, <1>8, <1>9, <1>10, <1>11, <1>12, <1>13, <1>14,
     <1>15, <1>16 DEF Next

-----------------------------------------------------------------------------
(* Links in each step.                                                     *)

LEMMA FreeIsNatural ==
    ASSUME Free # {}
    PROVE  (CHOOSE n \in Free : \A m \in Free : n <= m) \in Free
<1> DEFINE less == {ss \in Nat \X Nat : ss[1] < ss[2]}
<1>0. Free \in SUBSET Nat
  BY DEF Free, LinkId
<1>1. IsWellFoundedOn(less, Nat)
  BY NatLessThanWellFounded DEF OpToRel
<1>2. PICK k \in Free : \A j \in Free : ~(<<j, k>> \in less)
  <2> HIDE DEF less
  <2>1. QED
    BY <1>0, <1>1, WFMin
<1>3. ASSUME NEW j \in Free PROVE k <= j
  <2>1. <<j, k>> \in Nat \X Nat /\ <<j, k>>[1] = j /\ <<j, k>>[2] = k
    BY <1>0
  <2>2. ~(j < k)
    BY <1>2, <2>1
  <2>3. QED
    BY <1>0, <2>2
<1>4. QED
  BY <1>3

LEMMA NewLinkIs ==
    ASSUME NEW d \in Device, NEW a \in BOOLEAN
    PROVE  /\ NewLink(d, a) \in Link /\ NewLink(d, a).dialler = d /\ ~NewLink(d, a).dead
           /\ NewLink(d, a).ends[d] = "opening"
           /\ NewLink(d, a).ends[Other(d)] = IF Other(d) \in online THEN "none" ELSE "never"
           /\ \A e \in Device : NewLink(d, a).wire[e] = <<>>
           /\ OpenedLink(NewLink(d, a))
<1>1. [e \in Device |-> <<>>] \in [Device -> Seq(Key)]
  OBVIOUS
<1>2. [e \in Device |-> IF e = d THEN "opening" ELSE IF e \in online THEN "none" ELSE "never"]
         \in [Device -> End]
  BY DEF End
<1>3. NewLink(d, a) \in Link
  BY <1>1, <1>2 DEF NewLink, Link
<1>4. /\ NewLink(d, a).dialler = d /\ NewLink(d, a).dead = FALSE
      /\ NewLink(d, a).ends =
            [e \in Device |-> IF e = d THEN "opening" ELSE IF e \in online THEN "none" ELSE "never"]
      /\ NewLink(d, a).wire = [e \in Device |-> <<>>]
  BY DEF NewLink
<1>5. /\ NewLink(d, a).ends[d] = "opening"
      /\ NewLink(d, a).ends[Other(d)] = IF Other(d) \in online THEN "none" ELSE "never"
      /\ \A e \in Device : NewLink(d, a).wire[e] = <<>>
  BY <1>4, OtherIs
<1>6. \A e \in Device : NewLink(d, a).ends[e] # "open"
  BY <1>5, OtherIs
<1>7. QED
  BY <1>3, <1>4, <1>5, <1>6 DEF OpenedLink

(* A dial adds a link.                                                     *)
LEMMA DialStep ==
    ASSUME EndsInv, NEW d \in Device, NEW a \in BOOLEAN, Dial(d, a)
    PROVE  /\ GoodLinks(links') /\ GoodUse(links', current')
           /\ \E l \in Free :
                 /\ DOMAIN links' \subseteq DOMAIN links \cup {l}
                 /\ \A m \in DOMAIN links' :
                       links'[m] = IF m = l THEN NewLink(d, a) ELSE links[m]
<1> USE DEF EndsInv
<1> DEFINE l == CHOOSE n \in Free : \A m \in Free : n <= m
           ms == [n \in DOMAIN links \cup {l} |-> IF n = l THEN NewLink(d, a) ELSE links[n]]
<1>1. l \in Free /\ links' = Tidied(ms) /\ current' = current
  BY FreeIsNatural DEF Dial
<1> HIDE DEF l
<1>2. l \in LinkId /\ l \notin DOMAIN links
  BY <1>1 DEF Free
<1>3. /\ DOMAIN ms = DOMAIN links \cup {l} /\ ms[l] = NewLink(d, a)
      /\ \A m \in DOMAIN links : m # l /\ ms[m] = links[m]
      /\ \A m \in DOMAIN ms : ms[m] = IF m = l THEN NewLink(d, a) ELSE links[m]
  BY <1>2
<1>4. ms \in [DOMAIN ms -> Link]
  BY NewLinkIs DEF GoodLinks
<1> HIDE DEF ms
<1>5. GoodLinks(ms)
  BY <1>2, <1>3, <1>4, NewLinkIs DEF GoodLinks
<1>6. GoodUse(ms, current)
  BY <1>3 DEF GoodUse
<1>7. GoodLinks(Tidied(ms)) /\ GoodUse(Tidied(ms), current)
  BY <1>5, <1>6, TidiedGood
<1>8. /\ DOMAIN links' \subseteq DOMAIN links \cup {l}
      /\ \A m \in DOMAIN links' : links'[m] = IF m = l THEN NewLink(d, a) ELSE links[m]
  BY <1>1, <1>3, TidiedIs
<1>9. QED
  BY <1>1, <1>7, <1>8

(* A handshake is taken off the wire, and answered if it brought a key.    *)
Taken(l, d) == [links EXCEPT ![l].wire[d] = Tail(@)]
Introduced(l, d) == [Taken(l, d) EXCEPT ![l].wire[Other(d)] = Append(@, Head(links[l].wire[d]))]
Handed(l, d) == IF Adopts(d, Head(links[l].wire[d])) THEN Introduced(l, d) ELSE Taken(l, d)

LEMMA TakenIs ==
    ASSUME EndsInv, NEW l \in DOMAIN links, NEW d \in Device, links[l].wire[d] # <<>>
    PROVE  /\ GoodLinks(Taken(l, d)) /\ GoodUse(Taken(l, d), current)
           /\ DOMAIN Taken(l, d) = DOMAIN links
           /\ \A m \in DOMAIN links : m # l => Taken(l, d)[m] = links[m]
           /\ SameLink(links[l], Taken(l, d)[l]) /\ Taken(l, d)[l].ends = links[l].ends
           /\ Taken(l, d)[l].wire[d] = Tail(links[l].wire[d])
           /\ Taken(l, d)[l].wire[Other(d)] = links[l].wire[Other(d)]
<1> USE DEF EndsInv
<1> DEFINE w == Tail(links[l].wire[d])
           W == [links[l].wire EXCEPT ![d] = w]
<1>1. links[l] \in Link /\ links[l].wire \in [Device -> Seq(Key)]
  BY LinkIs DEF GoodLinks
<1>2. w \in Seq(Key)
  <2>1. links[l].wire[d] \in Seq(Key)
    BY <1>1
  <2>2. QED
    BY <2>1, HeadTailProperties
<1>3. Taken(l, d) = [links EXCEPT ![l].wire[d] = w]
  BY DEF Taken
<1> HIDE DEF w
<1>4. W \in [Device -> Seq(Key)] /\ W[d] = w /\ W[Other(d)] = links[l].wire[Other(d)]
  BY <1>1, <1>2, OtherIs
<1>5. Replaced(links, [links EXCEPT ![l].wire[d] = w], l, Edited(links[l], links[l].ends, W))
  BY <1>2, WireEdit
<1> HIDE DEF W
<1>6. Replaced(links, Taken(l, d), l, Edited(links[l], links[l].ends, W))
  BY <1>3, <1>5
<1>7. /\ GoodLinks(Taken(l, d)) /\ GoodUse(Taken(l, d), current)
      /\ SameLink(links[l], Taken(l, d)[l]) /\ Taken(l, d)[l].ends = links[l].ends
      /\ Taken(l, d)[l].wire = W
  BY <1>4, <1>6, WireGood
<1>8. QED
  BY <1>4, <1>6, <1>7 DEF Replaced, w

LEMMA IntroducedIs ==
    ASSUME EndsInv, NEW l \in DOMAIN links, NEW d \in Device, links[l].wire[d] # <<>>
    PROVE  GoodLinks(Introduced(l, d)) /\ GoodUse(Introduced(l, d), current)
           /\ DOMAIN Introduced(l, d) = DOMAIN links
           /\ Introduced(l, d)[l].ends = links[l].ends
<1> DEFINE ls == Taken(l, d)
           o == Other(d)
           w == Append(ls[l].wire[o], Head(links[l].wire[d]))
           W == [ls[l].wire EXCEPT ![o] = w]
<1>1. /\ GoodLinks(ls) /\ GoodUse(ls, current) /\ DOMAIN ls = DOMAIN links
      /\ ls[l].ends = links[l].ends
  BY TakenIs
<1>2. o \in Device
  BY OtherIs
<1>3. Introduced(l, d) = [ls EXCEPT ![l].wire[o] = w]
  BY DEF Introduced
<1>4. Head(links[l].wire[d]) \in Key
  <2>1. links[l].wire[d] \in Seq(Key)
    BY LinkIs DEF EndsInv, GoodLinks
  <2>2. QED
    BY <2>1, HeadTailProperties
<1> HIDE DEF ls, o
<1>5. ls[l] \in Link /\ ls[l].wire \in [Device -> Seq(Key)]
  BY <1>1, LinkIs DEF GoodLinks
<1>6. w \in Seq(Key)
  <2>1. ls[l].wire[o] \in Seq(Key)
    BY <1>2, <1>5
  <2>2. QED
    BY <1>4, <2>1, AppendProperties
<1> HIDE DEF w
<1>7. W \in [Device -> Seq(Key)]
  BY <1>5, <1>6
<1>8. Replaced(ls, [ls EXCEPT ![l].wire[o] = w], l, Edited(ls[l], ls[l].ends, W))
  BY <1>1, <1>2, <1>6, WireEdit
<1> HIDE DEF W
<1>9. Replaced(ls, Introduced(l, d), l, Edited(ls[l], ls[l].ends, W))
  BY <1>3, <1>8
<1>10. /\ GoodLinks(Introduced(l, d)) /\ GoodUse(Introduced(l, d), current)
       /\ Introduced(l, d)[l].ends = ls[l].ends
  BY <1>1, <1>7, <1>9, WireGood
<1>11. QED
  BY <1>1, <1>9, <1>10 DEF Replaced

LEMMA ReceiveIs ==
    ASSUME NEW l \in DOMAIN links, NEW d \in Device, Receive(l, d)
    PROVE  /\ Up(l, d) /\ links[l].wire[d] # <<>>
           /\ LET k == Head(links[l].wire[d])
              IN  \/ (Reads(d, k) \/ Adopts(d, k)) /\ HandleHandshake(Handed(l, d), l, d)
                  \/ /\ ~Reads(d, k) /\ ~Adopts(d, k)
                     /\ links' = Taken(l, d) /\ UNCHANGED <<current, pending, known>>
BY DEF Receive, Handed, Introduced, Taken

LEMMA HandedIs ==
    ASSUME EndsInv, NEW l \in DOMAIN links, NEW d \in Device, links[l].wire[d] # <<>>
    PROVE  /\ GoodLinks(Handed(l, d)) /\ GoodUse(Handed(l, d), current)
           /\ DOMAIN Handed(l, d) = DOMAIN links
           /\ Handed(l, d)[l].ends = links[l].ends
BY TakenIs, IntroducedIs DEF Handed

(* The handshake's handler closes at most one end, and may change the link *)
(* in use.                                                                 *)
LEMMA HandledGood ==
    ASSUME NEW ls, GoodLinks(ls), GoodUse(ls, current), DOMAIN ls = DOMAIN links,
           NEW l \in DOMAIN ls, NEW d \in Device, ls[l].ends[d] = "open",
           HandleHandshake(ls, l, d)
    PROVE  GoodLinks(links') /\ GoodUse(links', current')
<1>1. CASE links' = Shut(ls, l, d) /\ CloseHandler(l, d)
  <2>1. current' = Without(current, l, d)
    BY <1>1 DEF CloseHandler, Without
  <2>2. QED
    BY <1>1, <2>1, ShutGood
<1>2. CASE /\ links' = (IF Duplicate(l, d) THEN Shut(ls, current[d], d) ELSE ls)
           /\ current' = [current EXCEPT ![d] = l]
  <2>1. CASE Duplicate(l, d)
    <3> DEFINE e == current[d]
               ms == Shut(ls, e, d)
               cur == Without(current, e, d)
    <3>1. e \in DOMAIN ls /\ e # l
      BY <2>1 DEF Duplicate, GoodUse
    <3> HIDE DEF e
    <3>2. GoodLinks(ms) /\ GoodUse(ms, cur) /\ l \in DOMAIN ms /\ ms[l] = ls[l]
      BY <3>1, ShutGood
    <3>3. links' = ms /\ current' = [cur EXCEPT ![d] = l]
      <4>1. current \in [Device -> {0} \cup DOMAIN ls]
        BY DEF GoodUse
      <4>2. QED
        BY <1>2, <2>1, <4>1 DEF Without, e
    <3> HIDE DEF ms, cur
    <3>4. GoodUse(ms, [cur EXCEPT ![d] = l])
      BY <3>2 DEF GoodUse
    <3>5. QED
      BY <3>2, <3>3, <3>4
  <2>2. CASE ~Duplicate(l, d)
    <3>1. GoodUse(ls, [current EXCEPT ![d] = l])
      BY DEF GoodUse
    <3>2. QED
      BY <1>2, <2>2, <3>1
  <2>3. QED
    BY <2>1, <2>2
<1>3. QED
  BY <1>1, <1>2 DEF HandleHandshake

(* All links of a device close, ...                                        *)
LEMMA ShutAllGood ==
    ASSUME EndsInv, NEW d \in Device, NEW cur, cur = [current EXCEPT ![d] = 0]
    PROVE  GoodLinks(ShutAll(d)) /\ GoodUse(ShutAll(d), cur)
<1> USE DEF EndsInv
<1> DEFINE ms == [l \in DOMAIN links |-> ShutEnd(links[l], d)]
<1>1. /\ DOMAIN ms = DOMAIN links /\ \A l \in DOMAIN links : ms[l] = ShutEnd(links[l], d)
      /\ ms \in [DOMAIN links -> Link]
  BY ShutEndIs DEF GoodLinks
<1> HIDE DEF ms
<1>2. GoodLinks(ms)
  BY <1>1, ShutEndIs DEF GoodLinks
<1>3. /\ cur \in [Device -> {0} \cup DOMAIN ms]
      /\ cur[d] = 0 /\ cur[Other(d)] = current[Other(d)]
  BY <1>1, OtherIs DEF GoodUse
<1>4. ASSUME NEW e \in Device, cur[e] # 0 PROVE ms[cur[e]].ends[e] = "open"
  <2>1. e = Other(d)
    BY <1>3, <1>4, OtherIs
  <2>2. cur[e] \in DOMAIN links /\ links[cur[e]].ends[e] = "open"
    BY <1>3, <1>4, <2>1 DEF GoodUse
  <2>3. links[cur[e]] \in Link
    BY <2>2 DEF GoodLinks
  <2>4. ShutEnd(links[cur[e]], d).ends[e] = links[cur[e]].ends[e]
    BY <2>1, <2>3, ShutEndIs
  <2>5. QED
    BY <1>1, <2>2, <2>4
<1>5. GoodUse(ms, cur)
  BY <1>3, <1>4 DEF GoodUse
<1>6. GoodLinks(Tidied(ms)) /\ GoodUse(Tidied(ms), cur)
  BY <1>2, <1>5, TidiedGood
<1>7. QED
  BY <1>6 DEF ShutAll, ms

(* ... or a link goes silent.                                              *)
LEMMA CutGood ==
    ASSUME EndsInv, NEW l \in DOMAIN links, Cut(l)
    PROVE  GoodLinks(links') /\ GoodUse(links', current')
<1> USE DEF EndsInv
<1> DEFINE E == [d \in Device |-> IF links[l].ends[d] = "none" THEN "never" ELSE links[l].ends[d]]
           W == [d \in Device |-> <<>>]
           k1 == [links[l] EXCEPT !.dead = TRUE]
           k2 == [k1 EXCEPT !.ends = E]
           k == [k2 EXCEPT !.wire = W]
           ms == [links EXCEPT ![l] = k]
<1>1. links' = Tidied(ms) /\ current' = current
  BY DEF Cut, Silenced
<1>2. links[l] \in Link /\ OpenedLink(links[l]) /\ links \in [DOMAIN links -> Link]
  BY DEF GoodLinks
<1>3. links[l].ends \in [Device -> End]
  BY <1>2, LinkIs
<1>4. /\ E \in [Device -> End] /\ W \in [Device -> Seq(Key)]
      /\ \A d \in Device :
            E[d] = IF links[l].ends[d] = "none" THEN "never" ELSE links[l].ends[d]
  BY <1>3 DEF End
<1> HIDE DEF E, W
<1>5. k1 \in Link
  BY <1>2 DEF Link
<1> HIDE DEF k1
<1>6. k2 \in Link /\ k2.ends = E
  BY <1>4, <1>5 DEF Link
<1> HIDE DEF k2
<1>7. k \in Link /\ k.ends = E
  BY <1>4, <1>6 DEF Link
<1> HIDE DEF k
<1>8. OpenedLink(k)
  BY <1>2, <1>4, <1>7, OtherIs DEF OpenedLink
<1>9. \A d \in Device : links[l].ends[d] = "open" => k.ends[d] = "open"
  BY <1>4, <1>7
<1>10. Replaced(links, ms, l, k)
  BY <1>2, <1>7 DEF Replaced
<1> HIDE DEF ms
<1>11. GoodLinks(ms) /\ GoodUse(ms, current)
  BY <1>7, <1>8, <1>9, <1>10, ReplaceGood
<1>12. QED
  BY <1>1, <1>11, TidiedGood

LEMMA IncomingIs ==
    ASSUME EndsInv, NEW l \in DOMAIN links, Incoming(l)
    PROVE  /\ GoodLinks(links') /\ GoodUse(links', current') /\ DOMAIN links' = DOMAIN links
           /\ \A m \in DOMAIN links : m # l => links'[m] = links[m]
           /\ SameLink(links[l], links'[l]) /\ links'[l].wire = links[l].wire
           /\ links'[l].ends[links[l].dialler] = links[l].ends[links[l].dialler]
           /\ links'[l].ends[Other(links[l].dialler)] = "opening"
<1> USE DEF EndsInv
<1> DEFINE d == Other(links[l].dialler)
           E == [links[l].ends EXCEPT ![d] = "opening"]
<1>1. /\ links[l] \in Link /\ links[l].dialler \in Device /\ links[l].ends \in [Device -> End]
      /\ links[l].wire \in [Device -> Seq(Key)]
  BY LinkIs DEF GoodLinks
<1>2. d \in Device /\ Other(d) = links[l].dialler /\ "opening" \in End
  BY <1>1, OtherIs DEF End
<1>3. /\ links[l].ends[d] = "none" /\ links' = [links EXCEPT ![l].ends[d] = "opening"]
      /\ current' = current
  BY DEF Incoming
<1> HIDE DEF d
<1>4. Replaced(links, [links EXCEPT ![l].ends[d] = "opening"], l, Edited(links[l], E, links[l].wire))
  BY <1>2, EndsEdit
<1>5. E \in [Device -> End] /\ E[d] = "opening" /\ E[Other(d)] = links[l].ends[Other(d)]
  BY <1>1, <1>2, OtherIs
<1> HIDE DEF E
<1>6. Replaced(links, links', l, Edited(links[l], E, links[l].wire))
  BY <1>3, <1>4
<1>7. /\ GoodLinks(links') /\ GoodUse(links', current)
      /\ SameLink(links[l], links'[l]) /\ links'[l].ends = E /\ links'[l].wire = links[l].wire
  <2>1. links[l].ends[d] = "none" /\ links[l].wire \in [Device -> Seq(Key)]
    BY <1>1, <1>3
  <2>2. QED
    BY <1>2, <1>5, <1>6, <2>1, EndsGood
<1>8. QED
  BY <1>2, <1>3, <1>5, <1>6, <1>7 DEF Replaced, d

LEMMA OpenIs ==
    ASSUME EndsInv, NEW l \in DOMAIN links, NEW d \in Device, Open(l, d)
    PROVE  /\ GoodLinks(links') /\ GoodUse(links', current') /\ DOMAIN links' = DOMAIN links
           /\ \A m \in DOMAIN links : m # l => links'[m] = links[m]
           /\ SameLink(links[l], links'[l])
           /\ links'[l].ends[d] = "open" /\ links'[l].ends[Other(d)] = links[l].ends[Other(d)]
           /\ links'[l].wire[d] = links[l].wire[d]
           /\ links'[l].wire[Other(d)] = Append(links[l].wire[Other(d)], key[d])
<1> USE DEF EndsInv
<1> DEFINE o == Other(d)
           ls == [links EXCEPT ![l].ends[d] = "open"]
           E == [links[l].ends EXCEPT ![d] = "open"]
           w == Append(links[l].wire[o], key[d])
           W == [ls[l].wire EXCEPT ![o] = w]
<1>1. /\ links[l] \in Link /\ links[l].dialler \in Device /\ links[l].ends \in [Device -> End]
      /\ links[l].wire \in [Device -> Seq(Key)]
  BY LinkIs DEF GoodLinks
<1>2. o \in Device /\ Other(o) = d /\ o # d /\ "open" \in End
  BY OtherIs DEF End
<1>3. links[l].ends[o] \in {"opening", "open"} /\ current' = current
  BY DEF Open, MayOpen
<1>4. Replaced(links, ls, l, Edited(links[l], E, links[l].wire))
  BY <1>2, EndsEdit
<1>5. E \in [Device -> End] /\ E[d] = "open" /\ E[o] = links[l].ends[o]
  BY <1>1, <1>2
<1>6. links' = [ls EXCEPT ![l].wire[o] = Append(ls[l].wire[o], key[d])]
  BY DEF Open
<1> HIDE DEF o, E, ls
<1>7. /\ GoodLinks(ls) /\ GoodUse(ls, current)
      /\ SameLink(links[l], ls[l]) /\ ls[l].ends = E /\ ls[l].wire = links[l].wire
      /\ DOMAIN ls = DOMAIN links
      /\ \A m \in DOMAIN links : m # l => ls[m] = links[m]
  <2>1. "open" \in End /\ E[Other(d)] = links[l].ends[Other(d)] /\ links[l].ends[Other(d)] \notin {"none", "never"}
    BY <1>2, <1>3, <1>5 DEF o
  <2>2. /\ GoodLinks(ls) /\ GoodUse(ls, current)
        /\ SameLink(links[l], ls[l]) /\ ls[l].ends = E /\ ls[l].wire = links[l].wire
    BY <1>1, <1>4, <1>5, <2>1, EndsGood
  <2>3. QED
    BY <1>4, <2>2 DEF Replaced
<1>8. w \in Seq(Key)
  <2>1. links[l].wire[o] \in Seq(Key) /\ key[d] \in Key
    BY <1>1, <1>2 DEF RestTyped
  <2>2. QED
    BY <2>1, AppendProperties
<1>9. links' = [ls EXCEPT ![l].wire[o] = w]
  BY <1>6, <1>7
<1> HIDE DEF w
<1>10. W \in [Device -> Seq(Key)] /\ W[o] = w /\ W[d] = links[l].wire[d]
  BY <1>1, <1>2, <1>7, <1>8
<1>11. Replaced(ls, [ls EXCEPT ![l].wire[o] = w], l, Edited(ls[l], ls[l].ends, W))
  BY <1>2, <1>7, <1>8, WireEdit
<1> HIDE DEF W
<1>12. Replaced(ls, links', l, Edited(ls[l], ls[l].ends, W))
  BY <1>9, <1>11
<1>13. /\ GoodLinks(links') /\ GoodUse(links', current)
       /\ SameLink(ls[l], links'[l]) /\ links'[l].ends = ls[l].ends /\ links'[l].wire = W
  BY <1>7, <1>10, <1>12, WireGood
<1>14. SameLink(links[l], links'[l])
  BY <1>7, <1>13 DEF SameLink
<1>15. DOMAIN links' = DOMAIN links /\ \A m \in DOMAIN links : m # l => links'[m] = links[m]
  BY <1>7, <1>12 DEF Replaced
<1>16. QED
  BY <1>3, <1>5, <1>7, <1>10, <1>13, <1>14, <1>15 DEF o, w

LEMMA CloseStep ==
    ASSUME EndsInv, NEW l \in DOMAIN links, NEW d \in Device,
           links' = Shut(links, l, d), current' = Without(current, l, d)
    PROVE  GoodLinks(links') /\ GoodUse(links', current')
BY ShutGood DEF EndsInv

(* Which steps close an end, and when.                                     *)
LEMMA TimeoutIs ==
    ASSUME EndsInv, NEW l \in DOMAIN links, DialTimeout(l)
    PROVE  links' = Shut(links, l, links[l].dialler)
           /\ current' = Without(current, l, links[l].dialler)
<1>1. links[l].dialler \in Device
  BY LinkIs DEF EndsInv, GoodLinks
<1>2. links[l].ends[links[l].dialler] = "opening" /\ current' = current
      /\ links' = Shut(links, l, links[l].dialler)
  BY DEF DialTimeout
<1>3. current \in [Device -> {0} \cup DOMAIN links]
  BY DEF EndsInv, GoodUse
<1>4. current[links[l].dialler] # l
  <2>1. ASSUME current[links[l].dialler] = l PROVE FALSE
    <3>1. l # 0
      BY DEF EndsInv, GoodLinks, LinkId
    <3>2. links[l].ends[links[l].dialler] = "open"
      BY <1>1, <2>1, <3>1 DEF EndsInv, GoodUse
    <3>3. QED
      BY <1>2, <3>2
  <2>2. QED
    BY <2>1
<1>5. QED
  BY <1>1, <1>2, <1>3, <1>4 DEF Without

LEMMA NoticeIs ==
    ASSUME NEW l, NEW d, Notice(l, d)
    PROVE  links' = Shut(links, l, d) /\ current' = Without(current, l, d)
BY DEF Notice, CloseHandler, Without

LEMMA HeartbeatIs ==
    ASSUME EndsInv, NEW d \in Device, HeartbeatClose(d)
    PROVE  /\ current[d] \in DOMAIN links
           /\ links' = Shut(links, current[d], d) /\ current' = Without(current, current[d], d)
<1>1. /\ current[d] # 0 /\ links' = Shut(links, current[d], d)
      /\ current' = [current EXCEPT ![d] = IF @ = current[d] THEN 0 ELSE @]
  BY DEF HeartbeatClose, CloseHandler
<1>2. QED
  BY <1>1 DEF Without, EndsInv, GoodUse

LEMMA ForgetIs ==
    ASSUME EndsInv, NEW d \in Device, Forget(d)
    PROVE  GoodLinks(links') /\ GoodUse(links', current')
<1>1. /\ links' = IF current[d] = 0 THEN links ELSE Shut(links, current[d], d)
      /\ current' = [current EXCEPT ![d] = 0]
  BY DEF Forget
<1>2. current \in [Device -> {0} \cup DOMAIN links]
  BY DEF EndsInv, GoodUse
<1>3. CASE current[d] = 0
  <2>1. links' = links /\ current' = current
    BY <1>1, <1>2, <1>3
  <2>2. QED
    BY <2>1 DEF EndsInv
<1>4. CASE current[d] # 0
  <2>1. current[d] \in DOMAIN links /\ current' = Without(current, current[d], d)
    BY <1>1, <1>2, <1>4 DEF Without
  <2>2. QED
    BY <1>1, <1>4, <2>1, CloseStep
<1>5. QED
  BY <1>3, <1>4

LEMMA EndsStep == EndsInv /\ [Next]_vars => EndsInv'
<1> SUFFICES ASSUME EndsInv, [Next]_vars PROVE GoodLinks(links') /\ GoodUse(links', current')
  BY RestStep DEF EndsInv
<1>1. CASE UNCHANGED <<links, current>>
  BY <1>1 DEF EndsInv
<1>2. CASE UNCHANGED vars
  BY <1>1, <1>2 DEF vars
<1>3. ASSUME NEW d \in Device, AutoDial(d) \/ UserDial(d) \/ Pair(d)
      PROVE  GoodLinks(links') /\ GoodUse(links', current')
  <2>1. Dial(d, TRUE) \/ Dial(d, FALSE)
    BY <1>3 DEF AutoDial, UserDial, Pair
  <2>2. QED
    BY <2>1, DialStep
<1>4. ASSUME NEW d \in Device, HeartbeatClose(d)
      PROVE  GoodLinks(links') /\ GoodUse(links', current')
  BY <1>4, HeartbeatIs, CloseStep
<1>5. ASSUME NEW d \in Device, BeginPairing(d) \/ EndPairing(d) \/ GoOnline(d)
      PROVE  UNCHANGED <<links, current>>
  BY <1>5 DEF BeginPairing, EndPairing, GoOnline
<1>6. ASSUME NEW d \in Device, Forget(d)
      PROVE  GoodLinks(links') /\ GoodUse(links', current')
  BY <1>6, ForgetIs
<1>7. ASSUME NEW d \in Device, GoOffline(d) \/ Restart(d)
      PROVE  GoodLinks(links') /\ GoodUse(links', current')
  <2>1. links' = ShutAll(d) /\ current' = [current EXCEPT ![d] = 0]
    BY <1>7 DEF GoOffline, Restart
  <2>2. QED
    BY <2>1, ShutAllGood
<1>8. ASSUME NEW l \in DOMAIN links, Incoming(l)
      PROVE  GoodLinks(links') /\ GoodUse(links', current')
  BY <1>8, IncomingIs
<1>9. ASSUME NEW l \in DOMAIN links, DialTimeout(l)
      PROVE  GoodLinks(links') /\ GoodUse(links', current')
  <2>1. links[l].dialler \in Device
    BY LinkIs DEF EndsInv, GoodLinks
  <2>2. QED
    BY <1>9, <2>1, TimeoutIs, CloseStep
<1>10. ASSUME NEW l \in DOMAIN links, Cut(l)
       PROVE  GoodLinks(links') /\ GoodUse(links', current')
  BY <1>10, CutGood
<1>11. ASSUME NEW l \in DOMAIN links, NEW d \in Device, Open(l, d)
       PROVE  GoodLinks(links') /\ GoodUse(links', current')
  BY <1>11, OpenIs
<1>12. ASSUME NEW l \in DOMAIN links, NEW d \in Device, Notice(l, d)
       PROVE  GoodLinks(links') /\ GoodUse(links', current')
  BY <1>12, NoticeIs, CloseStep
<1>13. ASSUME NEW l \in DOMAIN links, NEW d \in Device, Receive(l, d)
       PROVE  GoodLinks(links') /\ GoodUse(links', current')
  <2>1. links[l].wire[d] # <<>> /\ Up(l, d)
    BY <1>13, ReceiveIs
  <2>2. CASE HandleHandshake(Handed(l, d), l, d)
    <3>1. /\ GoodLinks(Handed(l, d)) /\ GoodUse(Handed(l, d), current)
          /\ DOMAIN Handed(l, d) = DOMAIN links /\ Handed(l, d)[l].ends[d] = "open"
      BY <2>1, HandedIs DEF Up
    <3>2. QED
      BY <2>2, <3>1, HandledGood
  <2>3. CASE links' = Taken(l, d) /\ current' = current
    BY <2>1, <2>3, TakenIs
  <2>4. QED
    <3>1. HandleHandshake(Handed(l, d), l, d) \/ (links' = Taken(l, d) /\ UNCHANGED <<current, pending, known>>)
      BY <1>13, ReceiveIs
    <3>2. QED
      BY <2>2, <2>3, <3>1
<1>14. QED
  BY <1>1, <1>2, <1>3, <1>4, <1>5, <1>6, <1>7, <1>8, <1>9, <1>10, <1>11, <1>12, <1>13 DEF Next

LEMMA EndsStart == Init => EndsInv
<1> SUFFICES ASSUME Init PROVE EndsInv
  OBVIOUS
<1>1. DOMAIN links = {} /\ links \in [{} -> Link]
  BY DEF Init
<1>2. GoodLinks(links)
  BY <1>1 DEF GoodLinks
<1>3. current = [d \in Device |-> 0]
  BY DEF Init
<1>4. GoodUse(links, current)
  BY <1>3 DEF GoodUse
<1>5. RestTyped
  <2>1. minted \in Key /\ 0 \in Key
    BY DEF Init, Key
  <2>2. /\ key \in [Device -> Key] /\ psk \in [Device -> Key] /\ revoked \in [Device -> SUBSET Key]
        /\ trouble \in 0 .. MaxTrouble
    BY <2>1 DEF Init
  <2>3. QED
    BY <2>1, <2>2 DEF Init, RestTyped
<1>6. QED
  BY <1>2, <1>4, <1>5 DEF EndsInv

LEMMA EndsTyped == EndsInv => TypeOK
<1> SUFFICES ASSUME EndsInv PROVE TypeOK
  OBVIOUS
<1>1. DOMAIN links \subseteq LinkId /\ links \in [DOMAIN links -> Link]
  BY DEF EndsInv, GoodLinks
<1>2. current \in [Device -> {0} \cup DOMAIN links]
  BY DEF EndsInv, GoodUse
<1>3. QED
  BY <1>1, <1>2 DEF EndsInv, RestTyped, TypeOK

(* Every link in use is one of those that are up: whatever is cut, closed, *)
(* dialled, paired and removed, no device goes on using a link that is     *)
(* forgotten (connections and the close handlers).                         *)
THEOREM LinksTypeCorrect == Spec => []TypeOK
BY EndsStart, EndsStep, EndsTyped, PTL DEF Spec

-----------------------------------------------------------------------------
(* Two links, each dialled by one of the devices.                          *)

(* Until something goes wrong, all that is said on links is the key both   *)
(* have, each device dials once, and nobody closes an end of the link that *)
(* the lower id dialled: whoever is told of it on that link takes it.      *)
SaidOn(ls, k) ==
    \A l \in DOMAIN ls, d \in Device :
        ~ls[l].dead /\ \A i \in DOMAIN ls[l].wire[d] : ls[l].wire[d][i] = k
Lone(ls) == \A l, m \in DOMAIN ls : ls[l].dialler = ls[m].dialler => l = m
SteadyEnd(k, d, uses) ==
    /\ k.ends[d] \in {"none", "opening", "open"} /\ (d = 1 => k.ends[d] # "none")
    /\ k.wire[d] # <<>> => k.ends[Other(d)] = "open"
    /\ k.ends[Other(d)] = "open" => k.wire[d] # <<>> \/ uses
    /\ uses => k.ends[Other(d)] = "open"
Steady(ls, cur) ==
    \A l \in DOMAIN ls : ls[l].dialler = 1 => \A d \in Device : SteadyEnd(ls[l], d, cur[d] = l)
Quiet(ls, cur, k) == SaidOn(ls, k) /\ Lone(ls) /\ Steady(ls, cur)

Untroubled == trouble = 0 /\ ~redialled
Peaceful == blocked = {} /\ online = Device /\ key[1] = key[2]
GlareInv == EndsInv /\ (Untroubled => Peaceful /\ Quiet(links, current, key[1]))

(* Closing an end of another link disturbs nothing.                        *)
LEMMA ShutQuiet ==
    ASSUME NEW ls, NEW cur, NEW k, GoodLinks(ls), GoodUse(ls, cur), Quiet(ls, cur, k),
           NEW l \in DOMAIN ls, NEW d \in Device, ls[l].dialler # 1
    PROVE  Quiet(Shut(ls, l, d), Without(cur, l, d), k)
<1> DEFINE ms == Shut(ls, l, d)
           c == Without(cur, l, d)
<1>1. /\ DOMAIN ms \subseteq DOMAIN ls
      /\ \A m \in DOMAIN ms : m # l => ms[m] = ls[m]
      /\ l \in DOMAIN ms => ms[l] = ShutEnd(ls[l], d)
  BY ShutGood
<1>2. ls[l] \in Link
  BY DEF GoodLinks
<1>3. /\ ShutEnd(ls[l], d).dialler = ls[l].dialler /\ ShutEnd(ls[l], d).dead = ls[l].dead
      /\ \A e \in Device : ShutEnd(ls[l], d).wire[e] \in {ls[l].wire[e], <<>>}
  BY <1>2, ShutEndIs
<1>4. \A e \in Device, m \in DOMAIN ls : m # l => (c[e] = m <=> cur[e] = m)
  <2>1. 0 \notin DOMAIN ls
    BY DEF GoodLinks, LinkId
  <2>2. QED
    BY <2>1 DEF Without, GoodUse
<1> HIDE DEF ms, c
<1>5. SaidOn(ms, k)
  <2>1. ASSUME NEW m \in DOMAIN ms, NEW e \in Device
        PROVE  ~ms[m].dead /\ \A i \in DOMAIN ms[m].wire[e] : ms[m].wire[e][i] = k
    <3>1. m \in DOMAIN ls /\ ~ls[m].dead /\ \A i \in DOMAIN ls[m].wire[e] : ls[m].wire[e][i] = k
      BY <1>1 DEF Quiet, SaidOn
    <3>2. CASE m # l
      BY <1>1, <3>1, <3>2
    <3>3. CASE m = l
      <4>1. ms[m].dead = ls[m].dead /\ ms[m].wire[e] \in {ls[m].wire[e], <<>>}
        BY <1>1, <1>3, <3>3
      <4>2. QED
        BY <3>1, <4>1
    <3>4. QED
      BY <3>2, <3>3
  <2>2. QED
    BY <2>1 DEF SaidOn
<1>6. \A m \in DOMAIN ms : ms[m].dialler = ls[m].dialler
  BY <1>1, <1>3
<1>7. Lone(ms)
  BY <1>1, <1>6 DEF Quiet, Lone
<1>8. Steady(ms, c)
  <2>1. ASSUME NEW m \in DOMAIN ms, ms[m].dialler = 1, NEW e \in Device
        PROVE  SteadyEnd(ms[m], e, c[e] = m)
    <3>1. m \in DOMAIN ls /\ m # l /\ ms[m] = ls[m] /\ ls[m].dialler = 1
      BY <1>1, <1>6, <2>1
    <3>2. SteadyEnd(ls[m], e, cur[e] = m)
      BY <3>1 DEF Quiet, Steady
    <3>3. c[e] = m <=> cur[e] = m
      BY <1>4, <3>1
    <3>4. QED
      BY <3>1, <3>2, <3>3 DEF SteadyEnd
  <2>2. QED
    BY <2>1 DEF Steady
<1>9. QED
  BY <1>5, <1>7, <1>8 DEF Quiet, ms, c

LEMMA NothingHappens ==
    ASSUME RestTyped, NEW e, trouble' = 0
    PROVE  ~Happens(e)
BY TroubleTyped DEF RestTyped, Happens

LEMMA StillUntroubled ==
    ASSUME EndsInv, [Next]_vars, Untroubled'
    PROVE  Untroubled
<1> USE DEF Untroubled
<1>0. RestTyped /\ \A e : ~Happens(e)
  BY NothingHappens DEF EndsInv
<1>1. CASE UNCHANGED <<trouble, redialled>>
  BY <1>1
<1>2. CASE UNCHANGED vars
  BY <1>1, <1>2 DEF vars
<1>3. ASSUME NEW d \in Device, AutoDial(d) PROVE Untroubled
  <2>1. trouble' = trouble /\ Dial(d, TRUE)
    BY <1>0, <1>3 DEF AutoDial
  <2>2. QED
    BY <2>1, DialLeaves
<1>4. ASSUME NEW d \in Device, UserDial(d) \/ Pair(d) \/ Forget(d) \/ GoOffline(d) \/ Restart(d) PROVE FALSE
  BY <1>0, <1>4 DEF UserDial, Pair, Forget, GoOffline, Restart
<1>5. ASSUME NEW d \in Device, HeartbeatClose(d) \/ BeginPairing(d) \/ EndPairing(d) \/ GoOnline(d)
      PROVE  UNCHANGED <<trouble, redialled>>
  BY <1>0, <1>5 DEF HeartbeatClose, BeginPairing, EndPairing, GoOnline
<1>6. ASSUME NEW l, Incoming(l) \/ DialTimeout(l) PROVE UNCHANGED <<trouble, redialled>>
  BY <1>0, <1>6 DEF Incoming, DialTimeout
<1>7. ASSUME NEW l, Cut(l) PROVE FALSE
  BY <1>0, <1>7 DEF Cut
<1>8. ASSUME NEW l, NEW d, Open(l, d) \/ Notice(l, d) \/ Receive(l, d) PROVE UNCHANGED <<trouble, redialled>>
  BY <1>8 DEF Open, Notice, Receive
<1>9. QED
  BY <1>1, <1>2, <1>3, <1>4, <1>5, <1>6, <1>7, <1>8 DEF Next

(* The devices stay online, allowed and with one key.                      *)
Peace == Peaceful /\ Quiet(links, current, key[1])

LEMMA PeaceKept ==
    ASSUME EndsInv, Peace, UNCHANGED <<blocked, online, key>>, Quiet(links', current', key[1])
    PROVE  Peace'
<1>1. Quiet(links', current', key[1]')
  OBVIOUS
<1>2. Quiet(links, current, key[1])'
  BY <1>1 DEF Quiet, SaidOn, Lone, Steady, SteadyEnd
<1>3. Peaceful'
  BY DEF Peace, Peaceful
<1>4. QED
  BY <1>2, <1>3 DEF Peace

(* The end of a link the lower id dialled is open, or opens.               *)
LEMMA SteadyIs ==
    ASSUME Peace, NEW l \in DOMAIN links, links[l].dialler = 1, NEW d \in Device
    PROVE  /\ links[l].ends[d] \in {"none", "opening", "open"} /\ (d = 1 => links[l].ends[d] # "none")
           /\ links[l].wire[d] # <<>> => links[l].ends[Other(d)] = "open"
           /\ links[l].ends[Other(d)] = "open" => links[l].wire[d] # <<>> \/ current[d] = l
           /\ current[d] = l => links[l].ends[Other(d)] = "open"
BY DEF Peace, Quiet, Steady, SteadyEnd

LEMMA ClosePeace ==
    ASSUME EndsInv, Peace, NEW l \in DOMAIN links, NEW d \in Device, links[l].dialler # 1,
           links' = Shut(links, l, d), current' = Without(current, l, d),
           UNCHANGED <<blocked, online, key>>
    PROVE  Peace'
<1>1. Quiet(links', current', key[1])
  BY ShutQuiet DEF EndsInv, Peace
<1>2. QED
  BY <1>1, PeaceKept

LEMMA DialPeace ==
    ASSUME EndsInv, Peace, NEW d \in Device, Dial(d, TRUE), ~redialled',
           UNCHANGED <<blocked, key>>
    PROVE  Peace'
<1>1. PICK l \in Free :
        /\ DOMAIN links' \subseteq DOMAIN links \cup {l}
        /\ \A m \in DOMAIN links' : links'[m] = IF m = l THEN NewLink(d, TRUE) ELSE links[m]
  BY DialStep
<1>2. l # 0 /\ l \notin DOMAIN links /\ UNCHANGED <<current, online>>
      /\ \A m \in DOMAIN links : links[m].dialler # d
  <2>1. l # 0 /\ l \notin DOMAIN links
    BY DEF Free, LinkId
  <2>2. redialled \in BOOLEAN
    BY DEF EndsInv, RestTyped
  <2>3. QED
    BY <2>1, <2>2, DialLeaves
<1> DEFINE n == NewLink(d, TRUE)
<1>3. /\ n.dialler = d /\ ~n.dead /\ n.ends[d] = "opening" /\ n.ends[Other(d)] = "none"
      /\ \A e \in Device : n.wire[e] = <<>>
  BY NewLinkIs, OtherIs DEF Peace, Peaceful
<1> HIDE DEF n
<1>4. \A m \in DOMAIN links' : (m = l /\ links'[m] = n) \/ (m # l /\ m \in DOMAIN links /\ links'[m] = links[m])
  BY <1>1, <1>2 DEF n
<1>5. SaidOn(links', key[1])
  <2>1. ASSUME NEW m \in DOMAIN links', NEW e \in Device
        PROVE  ~links'[m].dead /\ \A i \in DOMAIN links'[m].wire[e] : links'[m].wire[e][i] = key[1]
    <3>1. CASE m = l /\ links'[m] = n
      BY <1>3, <3>1
    <3>2. CASE m # l /\ m \in DOMAIN links /\ links'[m] = links[m]
      BY <3>2 DEF Peace, Quiet, SaidOn
    <3>3. QED
      BY <1>4, <3>1, <3>2
  <2>2. QED
    BY <2>1 DEF SaidOn
<1>6. Lone(links')
  BY <1>2, <1>3, <1>4 DEF Peace, Quiet, Lone
<1>7. Steady(links', current')
  <2>1. ASSUME NEW m \in DOMAIN links', links'[m].dialler = 1, NEW e \in Device
        PROVE  SteadyEnd(links'[m], e, current'[e] = m)
    <3>1. CASE m = l /\ links'[m] = n
      <4>1. current'[e] # l
        BY <1>2 DEF EndsInv, GoodUse
      <4>2. n.ends[e] \in {"none", "opening", "open"} /\ (e = 1 => n.ends[e] # "none")
            /\ n.ends[Other(e)] # "open" /\ n.wire[e] = <<>>
        BY <1>3, <2>1, <3>1, OtherIs
      <4>3. QED
        BY <3>1, <4>1, <4>2 DEF SteadyEnd
    <3>2. CASE m # l /\ m \in DOMAIN links /\ links'[m] = links[m]
      BY <1>2, <2>1, <3>2 DEF Peace, Quiet, Steady
    <3>3. QED
      BY <1>4, <3>1, <3>2
  <2>2. QED
    BY <2>1 DEF Steady
<1>8. Quiet(links', current', key[1])
  BY <1>5, <1>6, <1>7 DEF Quiet
<1>9. QED
  BY <1>2, <1>8, PeaceKept

(* One link changes, and what is said on it is still the key.              *)
LEMMA EditQuiet ==
    ASSUME NEW ls, NEW ms, NEW cur, NEW c, NEW k, Quiet(ls, cur, k), NEW l \in DOMAIN ls,
           DOMAIN ms = DOMAIN ls, \A m \in DOMAIN ls : m # l => ms[m] = ls[m],
           SameLink(ls[l], ms[l]),
           \A e \in Device : \A i \in DOMAIN ms[l].wire[e] : ms[l].wire[e][i] = k,
           ls[l].dialler = 1 => \A e \in Device : SteadyEnd(ms[l], e, c[e] = l),
           \A m \in DOMAIN ls, e \in Device : (m # l /\ ls[m].dialler = 1) => (c[e] = m <=> cur[e] = m)
    PROVE  Quiet(ms, c, k)
<1>1. ms[l].dialler = ls[l].dialler /\ ms[l].dead = ls[l].dead
  BY DEF SameLink
<1>2. SaidOn(ms, k)
  BY <1>1 DEF SaidOn, Quiet
<1>3. Lone(ms)
  BY <1>1 DEF Lone, Quiet
<1>4. Steady(ms, c)
  <2>1. ASSUME NEW m \in DOMAIN ms, ms[m].dialler = 1, NEW e \in Device
        PROVE  SteadyEnd(ms[m], e, c[e] = m)
    <3>1. CASE m = l
      BY <1>1, <2>1, <3>1
    <3>2. CASE m # l
      <4>1. m \in DOMAIN ls /\ ms[m] = ls[m] /\ ls[m].dialler = 1 /\ (c[e] = m <=> cur[e] = m)
        BY <2>1, <3>2
      <4>2. SteadyEnd(ls[m], e, cur[e] = m)
        BY <4>1 DEF Quiet, Steady
      <4>3. QED
        BY <4>1, <4>2 DEF SteadyEnd
    <3>3. QED
      BY <3>1, <3>2
  <2>2. QED
    BY <2>1 DEF Steady
<1>5. QED
  BY <1>2, <1>3, <1>4 DEF Quiet

LEMMA IncomingPeace ==
    ASSUME EndsInv, Peace, NEW l \in DOMAIN links, Incoming(l)
    PROVE  Peace'
<1>1. /\ DOMAIN links' = DOMAIN links
      /\ \A m \in DOMAIN links : m # l => links'[m] = links[m]
      /\ SameLink(links[l], links'[l]) /\ links'[l].wire = links[l].wire
      /\ links'[l].ends[links[l].dialler] = links[l].ends[links[l].dialler]
      /\ links'[l].ends[Other(links[l].dialler)] = "opening"
  BY IncomingIs
<1>2. current' = current /\ UNCHANGED <<blocked, online, key>>
      /\ links[l].ends[Other(links[l].dialler)] = "none"
  BY DEF Incoming, trust
<1>3. \A e \in Device : \A i \in DOMAIN links'[l].wire[e] : links'[l].wire[e][i] = key[1]
  BY <1>1 DEF Peace, Quiet, SaidOn
<1>4. ASSUME links[l].dialler = 1, NEW e \in Device PROVE SteadyEnd(links'[l], e, current'[e] = l)
  <2>1. SteadyEnd(links[l], e, current[e] = l)
    BY <1>4 DEF Peace, Quiet, Steady
  <2>2. links'[l].ends[1] = links[l].ends[1] /\ links'[l].ends[2] = "opening" /\ links[l].ends[2] = "none"
    BY <1>1, <1>2, <1>4 DEF Other
  <2>3. QED
    BY <1>1, <1>2, <2>1, <2>2 DEF SteadyEnd, Other
<1>5. Quiet(links', current', key[1])
  <2>1. Quiet(links, current, key[1])
    BY DEF Peace
  <2>2. QED
    BY <1>1, <1>2, <1>3, <1>4, <2>1, EditQuiet
<1>6. QED
  BY <1>2, <1>5, PeaceKept

LEMMA OpenPeace ==
    ASSUME EndsInv, Peace, NEW l \in DOMAIN links, NEW d \in Device, Open(l, d)
    PROVE  Peace'
<1>1. /\ DOMAIN links' = DOMAIN links
      /\ \A m \in DOMAIN links : m # l => links'[m] = links[m]
      /\ SameLink(links[l], links'[l])
      /\ links'[l].ends[d] = "open" /\ links'[l].ends[Other(d)] = links[l].ends[Other(d)]
      /\ links'[l].wire[d] = links[l].wire[d]
      /\ links'[l].wire[Other(d)] = Append(links[l].wire[Other(d)], key[d])
  BY OpenIs
<1>2. current' = current /\ UNCHANGED <<blocked, online, key>> /\ links[l].ends[d] = "opening"
  BY DEF Open, MayOpen, trust
<1>3. links[l].wire[Other(d)] \in Seq(Key) /\ key[d] \in Key /\ key[d] = key[1] /\ Other(d) \in Device
  <2>1. links[l] \in Link
    BY DEF EndsInv, GoodLinks
  <2>2. links[l].wire \in [Device -> Seq(Key)]
    BY <2>1, LinkIs
  <2>3. QED
    BY <2>2, OtherIs DEF EndsInv, RestTyped, Peace, Peaceful
<1>4. \A e \in Device : \A i \in DOMAIN links[l].wire[e] : links[l].wire[e][i] = key[1]
  BY DEF Peace, Quiet, SaidOn
<1>5. \A i \in DOMAIN links'[l].wire[Other(d)] : links'[l].wire[Other(d)][i] = key[1]
  <2> DEFINE w == links[l].wire[Other(d)]
  <2>1. w \in Seq(Key) /\ \A i \in DOMAIN w : w[i] = key[1]
    BY <1>3, <1>4
  <2>2. links'[l].wire[Other(d)] = Append(w, key[1]) /\ key[1] \in Key
    BY <1>1, <1>3
  <2> HIDE DEF w
  <2>3. \A i \in DOMAIN Append(w, key[1]) : Append(w, key[1])[i] = key[1]
    BY <2>1, <2>2, AppendProperties, LenProperties
  <2>4. QED
    BY <2>2, <2>3
<1>6. \A e \in Device : \A i \in DOMAIN links'[l].wire[e] : links'[l].wire[e][i] = key[1]
  <2>1. \A i \in DOMAIN links'[l].wire[d] : links'[l].wire[d][i] = key[1]
    BY <1>1, <1>4
  <2>2. ASSUME NEW e \in Device PROVE e = d \/ e = Other(d)
    BY OtherIs
  <2>3. QED
    BY <1>5, <2>1, <2>2
<1>7. links'[l].wire[Other(d)] # <<>>
  BY <1>1, <1>3, AppendProperties
<1>8. ASSUME links[l].dialler = 1, NEW e \in Device PROVE SteadyEnd(links'[l], e, current'[e] = l)
  <2>1. SteadyEnd(links[l], e, current[e] = l)
    BY <1>8 DEF Peace, Quiet, Steady
  <2>2. CASE e = d
    BY <1>1, <1>2, <2>1, <2>2 DEF SteadyEnd
  <2>3. CASE e = Other(d)
    BY <1>1, <1>2, <1>7, <2>1, <2>3, OtherIs DEF SteadyEnd
  <2>4. QED
    BY <2>2, <2>3, OtherIs
<1>9. Quiet(links', current', key[1])
  <2>1. Quiet(links, current, key[1])
    BY DEF Peace
  <2>2. QED
    BY <1>1, <1>2, <1>6, <1>8, <2>1, EditQuiet
<1>10. QED
  BY <1>2, <1>9, PeaceKept

(* No timer, no close and no silence ends a link the lower id dialled.     *)
LEMMA TimeoutPeace ==
    ASSUME EndsInv, Peace, trouble' = 0, NEW l \in DOMAIN links, DialTimeout(l)
    PROVE  Peace'
<1> DEFINE d == links[l].dialler
<1>1. d \in Device
  BY LinkIs DEF EndsInv, GoodLinks
<1>2. ~Happens("slow")
  BY NothingHappens DEF EndsInv
<1>3. /\ links[l].dead \/ links[l].ends[Other(d)] \in {"never", "closed"}
      /\ UNCHANGED <<blocked, online, key>>
  BY <1>2 DEF DialTimeout, trust
<1>4. ~links[l].dead
  BY <1>1 DEF Peace, Quiet, SaidOn
<1>5. d # 1
  <2>1. ASSUME d = 1 PROVE FALSE
    <3>1. links[l].ends[Other(d)] \in {"none", "opening", "open"}
      BY <1>1, <2>1, SteadyIs, OtherIs
    <3>2. QED
      BY <1>3, <1>4, <3>1
  <2>2. QED
    BY <2>1
<1>6. links' = Shut(links, l, d) /\ current' = Without(current, l, d)
  BY TimeoutIs
<1> HIDE DEF d
<1>7. links[l].dialler # 1
  BY <1>5 DEF d
<1>8. QED
  BY <1>1, <1>3, <1>6, <1>7, ClosePeace

LEMMA NoticePeace ==
    ASSUME EndsInv, Peace, NEW l \in DOMAIN links, NEW d \in Device, Notice(l, d)
    PROVE  Peace'
<1>1. /\ links[l].dead \/ links[l].ends[Other(d)] = "closed"
      /\ UNCHANGED <<blocked, online, key>>
  BY DEF Notice, trust
<1>2. ~links[l].dead
  BY DEF Peace, Quiet, SaidOn
<1>3. links[l].dialler # 1
  BY <1>1, <1>2, SteadyIs, OtherIs
<1>4. QED
  BY <1>1, <1>3, NoticeIs, ClosePeace

LEMMA HeartbeatPeace ==
    ASSUME EndsInv, Peace, trouble' = 0, NEW d \in Device, HeartbeatClose(d)
    PROVE  Peace'
<1> DEFINE l == current[d]
           o == Other(d)
<1>1. l \in DOMAIN links /\ links' = Shut(links, l, d) /\ current' = Without(current, l, d)
  BY HeartbeatIs
<1>2. ~Happens("silence")
  BY NothingHappens DEF EndsInv
<1>3. ~Hears(d) /\ UNCHANGED <<blocked, online, key>>
  BY <1>2 DEF HeartbeatClose, trust
<1>4. links[l].dialler # 1
  <2>1. ASSUME links[l].dialler = 1 PROVE FALSE
    <3>1. o \in Device /\ Other(o) = d
      BY OtherIs
    <3>2. l # 0 /\ links[l].ends[d] = "open" /\ ~links[l].dead
      BY <1>1 DEF EndsInv, GoodLinks, GoodUse, LinkId, Peace, Quiet, SaidOn
    <3>3. links[l].ends[o] = "open"
      BY <1>1, <2>1, SteadyIs
    <3>4. links[l].wire[o] # <<>> \/ current[o] = l
      BY <1>1, <2>1, <3>1, <3>2, SteadyIs
    <3>5. key[o] = key[d]
      BY <3>1 DEF Peace, Peaceful
    <3>6. Hears(d)
      BY <1>1, <3>2, <3>3, <3>4, <3>5 DEF Hears, Up
    <3>7. QED
      BY <1>3, <3>6
  <2>2. QED
    BY <2>1
<1> HIDE DEF l
<1>5. QED
  BY <1>1, <1>3, <1>4, ClosePeace

(* A handshake never closes an end of that link either.                    *)
LEMMA TakenQuiet ==
    ASSUME EndsInv, Peace, NEW l \in DOMAIN links, NEW d \in Device, links[l].wire[d] # <<>>,
           NEW c, \A m \in DOMAIN links, e \in Device : (m # l /\ links[m].dialler = 1) => (c[e] = m <=> current[e] = m),
           links[l].dialler = 1 => c[d] = l /\ c[Other(d)] = current[Other(d)]
    PROVE  Quiet(Taken(l, d), c, key[1])
<1> DEFINE ls == Taken(l, d)
<1>1. /\ DOMAIN ls = DOMAIN links /\ \A m \in DOMAIN links : m # l => ls[m] = links[m]
      /\ SameLink(links[l], ls[l]) /\ ls[l].ends = links[l].ends
      /\ ls[l].wire[d] = Tail(links[l].wire[d])
      /\ ls[l].wire[Other(d)] = links[l].wire[Other(d)]
  BY TakenIs
<1> HIDE DEF ls
<1>2. \A e \in Device : \A i \in DOMAIN links[l].wire[e] : links[l].wire[e][i] = key[1]
  BY DEF Peace, Quiet, SaidOn
<1>3. links[l].wire[d] \in Seq(Key)
  BY LinkIs DEF EndsInv, GoodLinks
<1>4. \A i \in DOMAIN ls[l].wire[d] : ls[l].wire[d][i] = key[1]
  <2>1. ASSUME NEW i \in DOMAIN Tail(links[l].wire[d]) PROVE Tail(links[l].wire[d])[i] = key[1]
    <3> DEFINE w == links[l].wire[d]
    <3>1. w \in Seq(Key) /\ w # <<>> /\ \A j \in DOMAIN w : w[j] = key[1]
      BY <1>2, <1>3
    <3>2. i \in DOMAIN Tail(w)
      BY <2>1
    <3> HIDE DEF w
    <3>3. i + 1 \in DOMAIN w /\ Tail(w)[i] = w[i + 1]
      BY <3>1, <3>2, HeadTailProperties, LenProperties
    <3>4. QED
      BY <3>1, <3>3 DEF w
  <2>2. QED
    BY <1>1, <2>1
<1>5. \A e \in Device : \A i \in DOMAIN ls[l].wire[e] : ls[l].wire[e][i] = key[1]
  <2>1. \A i \in DOMAIN ls[l].wire[Other(d)] : ls[l].wire[Other(d)][i] = key[1]
    BY <1>1, <1>2, OtherIs
  <2>2. ASSUME NEW e \in Device PROVE e = d \/ e = Other(d)
    BY OtherIs
  <2>3. QED
    BY <1>4, <2>1, <2>2
<1>6. ASSUME links[l].dialler = 1, NEW e \in Device PROVE SteadyEnd(ls[l], e, c[e] = l)
  <2>1. SteadyEnd(links[l], e, current[e] = l)
    BY <1>6 DEF Peace, Quiet, Steady
  <2>2. CASE e = d
    BY <1>1, <1>6, <2>1, <2>2 DEF SteadyEnd
  <2>3. CASE e = Other(d)
    BY <1>1, <1>6, <2>1, <2>3 DEF SteadyEnd
  <2>4. QED
    BY <2>2, <2>3, OtherIs
<1>7. Quiet(links, current, key[1])
  BY DEF Peace
<1>8. Quiet(ls, c, key[1])
  BY <1>1, <1>5, <1>6, <1>7, EditQuiet
<1>9. QED
  BY <1>8 DEF ls

LEMMA ReceivePeace ==
    ASSUME EndsInv, Peace, NEW l \in DOMAIN links, NEW d \in Device, Receive(l, d)
    PROVE  Peace'
<1> DEFINE ls == Taken(l, d)
           e == current[d]
           c == [current EXCEPT ![d] = l]
           k == Head(links[l].wire[d])
<1>1. Up(l, d) /\ links[l].wire[d] # <<>>
  BY ReceiveIs
<1>2. k = key[1] /\ key[d] = key[1]
  <2>1. links[l].wire[d] \in Seq(Key)
    BY LinkIs DEF EndsInv, GoodLinks
  <2>2. 1 \in DOMAIN links[l].wire[d] /\ k = links[l].wire[d][1]
    BY <1>1, <2>1, LenProperties, EmptySeq
  <2>3. \A i \in DOMAIN links[l].wire[d] : links[l].wire[d][i] = key[1]
    BY DEF Peace, Quiet, SaidOn
  <2>4. QED
    BY <2>2, <2>3 DEF Peace, Peaceful
<1>3. Reads(d, k) /\ ~Adopts(d, k)
  BY <1>2 DEF Reads, Adopts
<1>4. HandleHandshake(ls, l, d)
  BY <1>3, ReceiveIs DEF Handed
<1>5. UNCHANGED <<blocked, online, key>>
  <2>1. key' = [key EXCEPT ![d] = key[d]] /\ UNCHANGED <<blocked, online>>
    BY <1>3, HandshakeLeaves
  <2>2. QED
    BY <2>1 DEF EndsInv, RestTyped
<1>6. ~Refused(d)
  BY DEF Refused, Peace, Peaceful
<1>7. /\ GoodLinks(ls) /\ GoodUse(ls, current) /\ DOMAIN ls = DOMAIN links
      /\ \A m \in DOMAIN links : m # l => ls[m] = links[m]
      /\ ls[l].dialler = links[l].dialler /\ ls[l].ends[d] = "open"
  BY <1>1, TakenIs DEF SameLink, Up
<1>8. l # 0 /\ l \in DOMAIN ls /\ links[l].dialler \in Device
      /\ (e # 0 => e \in DOMAIN links /\ links[e].dialler \in Device /\ Up(e, d))
  BY <1>7, LinkIs DEF EndsInv, GoodLinks, GoodUse, LinkId, Up
<1>9. \A m \in DOMAIN links : m # l => links[m].dialler # links[l].dialler
  BY DEF Peace, Quiet, Lone
<1>10. current \in [Device -> {0} \cup DOMAIN links]
  BY DEF EndsInv, GoodUse
<1>11. c[d] = l /\ c[Other(d)] = current[Other(d)] /\ GoodUse(ls, c)
  <2>1. c \in [Device -> {0} \cup DOMAIN ls] /\ c[d] = l /\ c[Other(d)] = current[Other(d)]
    BY <1>7, <1>8, <1>10, OtherIs
  <2> HIDE DEF c, ls
  <2>2. GoodUse(ls, c)
    BY <1>7, <2>1, OtherIs DEF GoodUse
  <2>3. QED
    BY <2>1, <2>2
<1> HIDE DEF ls, e, c, k
<1>12. CASE Duplicate(l, d) /\ ~Keep(l, d)
  <2>1. links[l].dialler # 1
    <3>1. (links[l].dialler = d) # (d < Other(d))
      BY <1>12 DEF Keep
    <3>2. QED
      BY <1>8, <3>1 DEF Other
  <2>2. links' = Shut(ls, l, d) /\ current' = Without(current, l, d)
    BY <1>4, <1>6, <1>12 DEF HandleHandshake, CloseHandler, Without
  <2>3. Quiet(ls, current, key[1])
    BY <1>1, <2>1, TakenQuiet DEF ls
  <2>4. Quiet(links', current', key[1])
    BY <1>7, <1>8, <2>1, <2>2, <2>3, ShutQuiet
  <2>5. QED
    BY <1>5, <2>4, PeaceKept
<1>13. CASE Duplicate(l, d) => Keep(l, d)
  <2>1. links' = (IF Duplicate(l, d) THEN Shut(ls, e, d) ELSE ls) /\ current' = c
    BY <1>4, <1>6, <1>13 DEF HandleHandshake, c, e
  <2>2. Duplicate(l, d) <=> e # 0 /\ e # l
    BY <1>8 DEF Duplicate, e
  <2>3. e # 0 /\ e # l => links[e].dialler # 1
    <3>1. ASSUME e # 0, e # l, links[e].dialler = 1 PROVE FALSE
      <4>1. links[l].dialler = 2 /\ e \in DOMAIN links
        BY <1>8, <1>9, <3>1
      <4>2. Keep(l, d)
        BY <1>13, <2>2, <3>1
      <4>3. QED
        BY <3>1, <4>1, <4>2 DEF Keep, Other, e
    <3>2. QED
      BY <3>1
  <2>4. \A m \in DOMAIN links, f \in Device : (m # l /\ links[m].dialler = 1) => (c[f] = m <=> current[f] = m)
    <3>1. ASSUME NEW m \in DOMAIN links, NEW f \in Device, m # l, links[m].dialler = 1
          PROVE  c[f] = m <=> current[f] = m
      <4>1. CASE f = d
        <5>1. m # 0
          BY DEF EndsInv, GoodLinks, LinkId
        <5>2. current[d] # m
          BY <2>3, <3>1, <5>1 DEF e
        <5>3. QED
          BY <1>11, <3>1, <4>1, <5>2
      <4>2. CASE f = Other(d)
        BY <1>11, <4>2
      <4>3. QED
        BY <4>1, <4>2, OtherIs
    <3>2. QED
      BY <3>1
  <2>5. Quiet(ls, c, key[1])
    BY <1>1, <1>11, <2>4, TakenQuiet DEF ls
  <2>6. CASE Duplicate(l, d)
    <3>1. e \in DOMAIN ls /\ e # l /\ ls[e].dialler # 1
      BY <1>7, <1>8, <2>2, <2>3, <2>6
    <3>2. Quiet(Shut(ls, e, d), Without(c, e, d), key[1])
      BY <1>7, <1>11, <2>5, <3>1, ShutQuiet
    <3>3. Without(c, e, d) = c
      <4>1. c \in [Device -> {0} \cup DOMAIN ls]
        BY <1>11 DEF GoodUse
      <4>2. QED
        BY <1>11, <3>1, <4>1 DEF Without
    <3>4. Quiet(links', current', key[1])
      BY <2>1, <2>6, <3>2, <3>3
    <3>5. QED
      BY <1>5, <3>4, PeaceKept
  <2>7. CASE ~Duplicate(l, d)
    <3>1. Quiet(links', current', key[1])
      BY <2>1, <2>5, <2>7
    <3>2. QED
      BY <1>5, <3>1, PeaceKept
  <2>8. QED
    BY <2>6, <2>7
<1>14. QED
  BY <1>12, <1>13

LEMMA GlareStep == GlareInv /\ [Next]_vars => GlareInv'
<1> SUFFICES ASSUME GlareInv, [Next]_vars, Untroubled' PROVE Peace'
  BY EndsStep DEF GlareInv, Peace
<1>0. EndsInv /\ Untroubled /\ Peace /\ trouble' = 0 /\ ~redialled'
  BY StillUntroubled DEF GlareInv, Peace, Untroubled
<1>00. \A e : ~Happens(e)
  BY <1>0, NothingHappens DEF EndsInv
<1>1. ASSUME UNCHANGED <<links, current, blocked, online, key>> PROVE Peace'
  BY <1>0, <1>1, PeaceKept DEF Peace
<1>2. CASE UNCHANGED vars
  BY <1>1, <1>2 DEF vars
<1>3. ASSUME NEW d \in Device, AutoDial(d) PROVE Peace'
  <2>1. Dial(d, TRUE) /\ UNCHANGED <<blocked, key>>
    BY <1>3 DEF AutoDial, trust
  <2>2. QED
    BY <1>0, <2>1, DialPeace
<1>4. ASSUME NEW d \in Device, UserDial(d) \/ Pair(d) \/ Forget(d) \/ GoOffline(d) \/ Restart(d) PROVE FALSE
  BY <1>00, <1>4 DEF UserDial, Pair, Forget, GoOffline, Restart
<1>5. ASSUME NEW d \in Device, HeartbeatClose(d) PROVE Peace'
  BY <1>0, <1>5, HeartbeatPeace
<1>6. ASSUME NEW d \in Device, BeginPairing(d) \/ EndPairing(d) PROVE Peace'
  BY <1>1, <1>6 DEF BeginPairing, EndPairing
<1>7. ASSUME NEW d \in Device, GoOnline(d) PROVE FALSE
  BY <1>0, <1>7 DEF GoOnline, Peace, Peaceful
<1>8. ASSUME NEW l \in DOMAIN links, Incoming(l) PROVE Peace'
  BY <1>0, <1>8, IncomingPeace
<1>9. ASSUME NEW l \in DOMAIN links, DialTimeout(l) PROVE Peace'
  BY <1>0, <1>9, TimeoutPeace
<1>10. ASSUME NEW l, Cut(l) PROVE FALSE
  BY <1>00, <1>10 DEF Cut
<1>11. ASSUME NEW l \in DOMAIN links, NEW d \in Device, Open(l, d) PROVE Peace'
  BY <1>0, <1>11, OpenPeace
<1>12. ASSUME NEW l \in DOMAIN links, NEW d \in Device, Notice(l, d) PROVE Peace'
  BY <1>0, <1>12, NoticePeace
<1>13. ASSUME NEW l \in DOMAIN links, NEW d \in Device, Receive(l, d) PROVE Peace'
  BY <1>0, <1>13, ReceivePeace
<1>14. QED
  BY <1>2, <1>3, <1>4, <1>5, <1>6, <1>7, <1>8, <1>9, <1>10, <1>11, <1>12, <1>13 DEF Next

LEMMA NeitherCloses == GlareInv => GlareAgrees
<1> SUFFICES ASSUME GlareInv, trouble = 0, ~redialled, Crossed PROVE FALSE
  BY DEF GlareAgrees
<1>1. Peace /\ EndsInv
  BY DEF GlareInv, Peace, Untroubled
<1> DEFINE a == current[1]
           b == current[2]
<1>2. /\ a \in DOMAIN links /\ b \in DOMAIN links /\ a # b
      /\ links[a].ends[2] = "closed" /\ links[b].ends[1] = "closed"
  BY <1>1 DEF Crossed, Other, EndsInv, GoodUse
<1>3. links[a].dialler \in Device /\ links[b].dialler \in Device
  BY <1>1, <1>2, LinkIs DEF EndsInv, GoodLinks
<1>4. links[a].dialler # links[b].dialler
  BY <1>1, <1>2 DEF Peace, Quiet, Lone
<1> HIDE DEF a, b
<1>5. links[a].dialler = 1 \/ links[b].dialler = 1
  BY <1>3, <1>4
<1>6. QED
  BY <1>1, <1>2, <1>5, SteadyIs

LEMMA GlareStart == Init => GlareInv
<1> SUFFICES ASSUME Init PROVE GlareInv
  OBVIOUS
<1>1. EndsInv
  BY EndsStart
<1>2. DOMAIN links = {}
  BY DEF Init
<1>3. Quiet(links, current, key[1])
  BY <1>2 DEF Quiet, SaidOn, Lone, Steady
<1>4. Peaceful
  BY DEF Init, Peaceful
<1>5. QED
  BY <1>1, <1>3, <1>4 DEF GlareInv

(* handleHandshake: when each of two devices has dialled the other, they   *)
(* keep the same link, in whatever order the two open, the handshakes      *)
(* arrive and the timers fire: neither closes the link the other has kept. *)
THEOREM CrossedDialsAgree == Spec => []GlareAgrees
BY GlareStart, GlareStep, NeitherCloses, PTL DEF Spec
=============================================================================
