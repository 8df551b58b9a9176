-------------------------------- MODULE Links --------------------------------
(***************************************************************************)
(* How two devices find each other and stay together (main.ts): dialling,  *)
(* the handshake on both ends of a link, the choice between two links,     *)
(* closing, heartbeats, pairing and removal.                               *)
(*                                                                         *)
(* A link has two ends that open and close at different times.  A device   *)
(* has at most one current link, the one its messages take.  Keys are      *)
(* numbers, 0 is none; a message is sealed with the sender's key and of    *)
(* what is said on a link only the handshake matters here.  What is on its *)
(* way when a link is closed may get through or not.  Sealing and opening  *)
(* a message is one step with what follows it.                             *)
(***************************************************************************)
EXTENDS Naturals, Sequences

CONSTANTS MaxLinks,   \* bound: links at once
          MaxKeys,    \* bound: pairing keys ever made
          Showing,    \* bound: the devices that show a pairing code
          Perils,     \* what may go wrong
          MaxTrouble  \* bound: how often something goes wrong or the user steps in

(* Ids are compared: the lower one's link wins.                            *)
Device == {1, 2}
Other(d) == 3 - d

(* Links go silent, are given up early, devices lose the network or        *)
(* restart; the users dial, pair and remove.                               *)
AllPerils == {"cut", "slow", "silence", "offline", "restart", "dial", "pair", "forget"}

ASSUME LinksAssumption ==
    /\ MaxLinks \in Nat /\ MaxKeys \in Nat \ {0} /\ MaxTrouble \in Nat
    /\ Showing \subseteq Device
    /\ Perils \subseteq AllPerils

VARIABLES
    links,    \* the links of which some end is alive, by number
    current,  \* connections: the link each device uses, 0 for none
    redialled, \* history: a device dialled while a link of its own was up
    pending,  \* pendingConnections: who believes a dial to be under way
    online,   \* who has a Peer
    known,    \* clusterPeers: who has the other in its list
    blocked,  \* blockedPeers: who removed the other
    key,      \* peerKeys: the key each device has for the other
    psk,      \* activePsk: the key each device shows
    window,   \* who still accepts that key
    minted,   \* pairing keys made so far
    revoked,  \* history: keys of removed devices
    trouble   \* how often something went wrong or the user stepped in

vars == <<links, redialled, current, pending, online, known, blocked, key, psk, window,
          minted, revoked, trouble>>
trust == <<known, blocked, key, psk, window, minted, revoked>>

LinkId == 1 .. MaxLinks
Key == 0 .. MaxKeys

(* An end has not heard of the dial, never will, is opening, open, closed. *)
End == {"none", "never", "opening", "open", "closed"}
Link == [dialler : Device, auto : BOOLEAN, dead : BOOLEAN,
         ends : [Device -> End],
         wire : [Device -> Seq(Key)]]   \* handshakes on their way to each device

TypeOK ==
    /\ DOMAIN links \subseteq LinkId /\ links \in [DOMAIN links -> Link]
    /\ current \in [Device -> {0} \cup DOMAIN links]
    /\ pending \subseteq Device /\ online \subseteq Device
    /\ known \subseteq Device /\ blocked \subseteq Device /\ window \subseteq Device
    /\ key \in [Device -> Key] /\ psk \in [Device -> Key] /\ revoked \in [Device -> SUBSET Key]
    /\ minted \in Key /\ redialled \in BOOLEAN /\ trouble \in 0 .. MaxTrouble

(* The devices know each other, with a key, or without one if one heard of *)
(* the other from a third.                                                 *)
Init ==
    /\ links = <<>> /\ redialled = FALSE /\ current = [d \in Device |-> 0]
    /\ pending = {} /\ online = Device /\ known = Device /\ blocked = {}
    /\ minted \in {0, 1}
    /\ key = [d \in Device |-> minted]
    /\ psk = [d \in Device |-> 0] /\ window = {}
    /\ revoked = [d \in Device |-> {}]
    /\ trouble = 0

Happens(e) == e \in Perils /\ trouble < MaxTrouble /\ trouble' = trouble + 1

Up(l, d) == links[l].ends[d] = "open"

-----------------------------------------------------------------------------
(* Ends of links.                                                          *)

(* A link is forgotten when nothing can happen on it any more.  A dial of  *)
(* the user that nobody answers is one: neither an event nor a timer.      *)
Alive(k) ==
    /\ \E d \in Device : k.ends[d] \in {"opening", "open"}
    /\ k.auto \/ k.ends[Other(k.dialler)] # "never"
Tidied(ls) == LET alive == {l \in DOMAIN ls : Alive(ls[l])} IN [l \in alive |-> ls[l]]

ShutEnd(k, d) ==
    [k EXCEPT !.ends[d] = IF @ = "none" THEN "never" ELSE "closed", !.wire[d] = <<>>]
Shut(ls, l, d) == Tidied([ls EXCEPT ![l] = ShutEnd(@, d)])
ShutAll(d) == Tidied([l \in DOMAIN links |-> ShutEnd(links[l], d)])

(* The close handler: only the current link takes anything with it.        *)
CloseHandlerKeeps(l, d) == UNCHANGED current /\ pending' = pending \ {d}   \* mutant: connections keeps the link
CloseHandler(l, d) ==
    /\ current' = [current EXCEPT ![d] = IF @ = l THEN 0 ELSE @]
    /\ pending' = IF current[d] \in {0, l} THEN pending \ {d} ELSE pending

(* dialPeer.                                                               *)
Free == LinkId \ DOMAIN links
NewLink(d, auto) ==
    [dialler |-> d, auto |-> auto, dead |-> FALSE,
     ends |-> [e \in Device |-> IF e = d THEN "opening" ELSE IF e \in online THEN "none" ELSE "never"],
     wire |-> [e \in Device |-> <<>>]]
Dial(d, auto) ==
    /\ Free # {} /\ d \in online
    /\ LET l == CHOOSE n \in Free : \A m \in Free : n <= m
       IN  links' = Tidied([n \in DOMAIN links \cup {l} |-> IF n = l THEN NewLink(d, auto) ELSE links[n]])
    /\ redialled' = (redialled \/ \E l \in DOMAIN links : links[l].dialler = d)
    /\ pending' = pending \cup {d}
    /\ UNCHANGED <<current, online>>

(* attemptConnection, every few seconds.  A dial while the other device's  *)
(* handshake is still on its way comes from a slow link.                   *)
Greeting(d) ==
    \E l \in DOMAIN links :
        /\ ~links[l].dead /\ Up(l, d)
        /\ links[l].ends[Other(d)] = "opening" \/ links[l].wire[d] # <<>>

AutoDial(d) ==
    /\ d \in known \ blocked /\ current[d] = 0 /\ d \notin pending
    /\ IF Greeting(d) THEN Happens("slow") ELSE UNCHANGED trouble
    /\ Dial(d, TRUE)
    /\ UNCHANGED trust

(* "Reconnect" in the settings.                                            *)
UserDial(d) ==
    /\ Happens("dial")
    /\ d \in known /\ key[d] # 0 /\ current[d] = 0
    /\ Dial(d, FALSE)
    /\ UNCHANGED trust

(* The other device hears of the dial.                                     *)
Incoming(l) ==
    LET d == Other(links[l].dialler)
    IN  /\ links[l].ends[d] = "none"
        /\ links' = [links EXCEPT ![l].ends[d] = "opening"]
        /\ pending' = pending \cup {d}
        /\ UNCHANGED <<redialled, current, online, trust, trouble>>

(* An end opens and introduces itself: sendHandshake.                      *)
MayOpen(l, d) ==
    /\ ~links[l].dead /\ links[l].ends[d] = "opening"
    /\ links[l].ends[Other(d)] \in {"opening", "open"}
OpenUnheard(l, d) ==     \* mutant: the listener that introduces the device comes too late
    /\ MayOpen(l, d)
    /\ links' = [links EXCEPT ![l].ends[d] = "open"]
    /\ pending' = pending \ {d}
    /\ UNCHANGED <<redialled, current, online, trust, trouble>>
Open(l, d) ==
    /\ MayOpen(l, d)
    /\ links' = [links EXCEPT ![l].ends[d] = "open", ![l].wire[Other(d)] = Append(@, key[d])]
    /\ pending' = pending \ {d}
    /\ UNCHANGED <<redialled, current, online, trust, trouble>>

(* A dial that is still not open after 15 s is given up: only the dials of *)
(* tryToConnectToClusterPeers have this timer.                             *)
DialTimeout(l) ==
    LET d == links[l].dialler
    IN  /\ links[l].auto /\ links[l].ends[d] = "opening"
        /\ IF links[l].dead \/ links[l].ends[Other(d)] \in {"never", "closed"}
           THEN UNCHANGED trouble ELSE Happens("slow")
        /\ links' = Shut(links, l, d)
        /\ pending' = pending \ {d}
        /\ UNCHANGED <<redialled, current, online, trust>>

(* The other end was closed, or the link is found dead: an error, if the   *)
(* end was not open yet or is cut off, then the close handler.             *)
Notice(l, d) ==
    /\ links[l].ends[d] \in {"opening", "open"}
    /\ links[l].dead \/ links[l].ends[Other(d)] = "closed"
    /\ links' = Shut(links, l, d)
    /\ IF links[l].dead \/ ~Up(l, d)
       THEN /\ pending' = pending \ {d}
            /\ current' = [current EXCEPT ![d] = IF @ = l THEN 0 ELSE @]
       ELSE CloseHandler(l, d)
    /\ UNCHANGED <<redialled, online, trust, trouble>>

(* Whether pings of the other device reach d, or a handshake still decides *)
(* on them: it sends them on its current link, sealed with its key; d      *)
(* notes them whatever its own link is.                                    *)
Hears(d) ==
    LET o == Other(d)
    IN  \E m \in DOMAIN links :
            /\ ~links[m].dead /\ Up(m, d)
            /\ \/ links[m].wire[d] # <<>> \/ links[m].wire[o] # <<>> \/ links[m].ends[o] = "opening"
               \/ /\ current[o] = m /\ Up(m, o) /\ key[o] = key[d]

(* heartbeatTick closes a link that was silent for 20 s.                   *)
HeartbeatClose(d) ==
    /\ current[d] # 0
    /\ IF Hears(d) THEN Happens("silence") ELSE UNCHANGED trouble
    /\ links' = Shut(links, current[d], d)
    /\ CloseHandler(current[d], d)
    /\ UNCHANGED <<redialled, online, trust>>

-----------------------------------------------------------------------------
(* The handshake.                                                          *)

(* handleRawIncomingData: a key for the other device opens what is sealed  *)
(* with it, and nothing else is accepted from then on; without one, an     *)
(* open pairing window lends the key that is shown, but not to a device    *)
(* that was removed.                                                       *)
Reads(d, k) == k = key[d]
Adopts(d, k) ==
    /\ key[d] = 0 /\ k # 0
    /\ d \in window /\ d \notin blocked /\ k = psk[d]

RefusesNobody(d) == FALSE      \* mutant: a removed device may introduce itself
Refused(d) == d \in blocked

(* The choice between two open links: of two dialled by the same device    *)
(* the newer, else the one the lower id dialled.                           *)
KeepNewer(l, d) == TRUE      \* mutant: the newer link always takes over
Keep(l, d) ==
    LET e == current[d]
        dialledThis == links[l].dialler = d
    IN  \/ dialledThis = (links[e].dialler = d)
        \/ dialledThis = (d < Other(d))

Duplicate(l, d) == current[d] \notin {0, l} /\ Up(current[d], d)

HandleHandshake(ls, l, d) ==
    \/ /\ Refused(d)
       /\ links' = Shut(ls, l, d)
       /\ CloseHandler(l, d)
       /\ UNCHANGED known
    \/ /\ ~Refused(d) /\ Duplicate(l, d) /\ ~Keep(l, d)
       /\ links' = Shut(ls, l, d)
       /\ CloseHandler(l, d)
       /\ UNCHANGED known
    \/ /\ ~Refused(d) /\ (Duplicate(l, d) => Keep(l, d))
       /\ links' = IF Duplicate(l, d) THEN Shut(ls, current[d], d) ELSE ls
       /\ current' = [current EXCEPT ![d] = l]
       /\ known' = known \cup {d}
       /\ UNCHANGED pending

Receive(l, d) ==
    LET k == Head(links[l].wire[d])
        taken == [links EXCEPT ![l].wire[d] = Tail(@)]
        introduced == [taken EXCEPT ![l].wire[Other(d)] = Append(@, k)]
    IN  /\ Up(l, d) /\ links[l].wire[d] # <<>>
        /\ key' = [key EXCEPT ![d] = IF Adopts(d, k) THEN k ELSE @]
        /\ \/ /\ Reads(d, k) \/ Adopts(d, k)
              /\ HandleHandshake(IF Adopts(d, k) THEN introduced ELSE taken, l, d)
           \/ /\ ~Reads(d, k) /\ ~Adopts(d, k)
              /\ links' = taken
              /\ UNCHANGED <<current, pending, known>>
        /\ UNCHANGED <<redialled, online, blocked, psk, window, minted, revoked, trouble>>

-----------------------------------------------------------------------------
(* The users.                                                              *)

(* beginPairingWindow: the connect screen shows a key.                     *)
BeginPairing(d) ==
    /\ "pair" \in Perils /\ d \in Showing \ window
    /\ IF psk[d] = 0
       THEN minted < MaxKeys /\ minted' = minted + 1 /\ psk' = [psk EXCEPT ![d] = minted']
       ELSE UNCHANGED <<minted, psk>>
    /\ window' = window \cup {d}
    /\ UNCHANGED <<redialled, links, current, pending, online, known, blocked, key, revoked, trouble>>

(* The window ends after ten minutes.                                      *)
EndPairing(d) ==
    /\ d \in window /\ window' = window \ {d}
    /\ UNCHANGED <<redialled, links, current, pending, online, known, blocked, key, psk, minted, revoked, trouble>>

(* The user gives d the code the other device shows (attemptConnect).      *)
Pair(d) ==
    /\ Happens("pair")
    /\ Other(d) \in window
    /\ key' = [key EXCEPT ![d] = psk[Other(d)]]
    /\ blocked' = blocked \ {d}
    /\ Dial(d, FALSE)
    /\ UNCHANGED <<known, psk, window, minted, revoked>>

(* forgetDevice.  What it broadcasts does not reach the removed device:    *)
(* the link is closed before the queue has sealed the message.             *)
ForgetKeepsPsk(d) == psk      \* mutant: the key that is shown survives
PskAfterForget(d) == [psk EXCEPT ![d] = 0]

Forget(d) ==
    /\ Happens("forget")
    /\ d \in known
    /\ links' = IF current[d] = 0 THEN links ELSE Shut(links, current[d], d)
    /\ current' = [current EXCEPT ![d] = 0]
    /\ pending' = pending \ {d}
    /\ known' = known \ {d}
    /\ blocked' = blocked \cup {d}
    /\ revoked' = [revoked EXCEPT ![d] = @ \cup ({key[d], psk[d]} \ {0})]
    /\ key' = [key EXCEPT ![d] = 0]
    /\ psk' = PskAfterForget(d)
    /\ window' = window \ {d}
    /\ UNCHANGED <<redialled, online, minted>>

-----------------------------------------------------------------------------
(* Networks and restarts.                                                  *)

(* A link goes silent: nothing sent on it arrives any more.                *)
Silenced(k) ==
    [k EXCEPT !.dead = TRUE,
              !.ends = [d \in Device |-> IF k.ends[d] = "none" THEN "never" ELSE k.ends[d]],
              !.wire = [d \in Device |-> <<>>]]
Cut(l) ==
    /\ Happens("cut") /\ ~links[l].dead
    /\ links' = Tidied([links EXCEPT ![l] = Silenced(@)])
    /\ UNCHANGED <<redialled, current, pending, online, trust>>

(* handlePeerError gives the Peer up with all its links; those that never  *)
(* opened close without an event, and only a dial with a timer is removed  *)
(* from pendingConnections.                                                *)
GoOffline(d) ==
    /\ Happens("offline") /\ d \in online
    /\ online' = online \ {d}
    /\ links' = ShutAll(d)
    /\ current' = [current EXCEPT ![d] = 0]
    /\ pending' =
         IF \E l \in DOMAIN links :
                Up(l, d) \/ (links[l].auto /\ links[l].dialler = d /\ links[l].ends[d] = "opening")
         THEN pending \ {d} ELSE pending
    /\ UNCHANGED <<redialled, trust>>

GoOnline(d) ==
    /\ d \notin online /\ online' = online \cup {d}
    /\ UNCHANGED <<redialled, links, current, pending, trust, trouble>>

(* onunload and the next start.                                            *)
Restart(d) ==
    /\ Happens("restart")
    /\ online' = online \cup {d}
    /\ links' = ShutAll(d)
    /\ current' = [current EXCEPT ![d] = 0]
    /\ pending' = pending \ {d}
    /\ psk' = [psk EXCEPT ![d] = 0] /\ window' = window \ {d}
    /\ UNCHANGED <<redialled, known, blocked, key, minted, revoked>>

-----------------------------------------------------------------------------

Next ==
    \/ \E d \in Device :
          \/ AutoDial(d) \/ UserDial(d) \/ HeartbeatClose(d)
          \/ BeginPairing(d) \/ EndPairing(d) \/ Pair(d) \/ Forget(d)
          \/ GoOffline(d) \/ GoOnline(d) \/ Restart(d)
    \/ \E l \in DOMAIN links :
          \/ Incoming(l) \/ DialTimeout(l) \/ Cut(l)
          \/ \E d \in Device : Open(l, d) \/ Notice(l, d) \/ Receive(l, d)

Spec == Init /\ [][Next]_vars

(* Timers fire and what is on its way arrives; nobody else need act.       *)
Fairness ==
    /\ \A d \in Device : WF_vars(AutoDial(d)) /\ WF_vars(HeartbeatClose(d)) /\ WF_vars(GoOnline(d))
    /\ \A l \in LinkId :
          /\ WF_vars(l \in DOMAIN links /\ Incoming(l))
          /\ WF_vars(l \in DOMAIN links /\ DialTimeout(l))
          /\ \A d \in Device :
                /\ WF_vars(l \in DOMAIN links /\ Open(l, d))
                /\ WF_vars(l \in DOMAIN links /\ Notice(l, d))
                /\ WF_vars(l \in DOMAIN links /\ Receive(l, d))

FairSpec == Spec /\ Fairness

-----------------------------------------------------------------------------

(* A removed device stays out until the user pairs again (forgetDevice):   *)
(* no handshake on a link that was already there, no key it still holds    *)
(* and no code it was shown brings it back.                                *)
RemovedStaysOut ==
    \A d \in blocked : current[d] = 0 /\ d \notin known /\ key[d] = 0

(* The key a removed device may still hold is not shown or accepted again. *)
NoRevokedKeyShown == \A d \in Device : psk[d] \notin revoked[d]

(* Each end has closed the link the other one uses.                        *)
Crossed ==
    /\ \A d \in Device : current[d] # 0 /\ links[current[d]].ends[Other(d)] = "closed"
    /\ current[1] # current[2]

(* When each device dialled one of two links, they keep the same one,      *)
(* whatever the order in which they open and handshakes arrive             *)
(* (handleHandshake): neither closes the link the other has kept.          *)
GlareAgrees == trouble = 0 /\ ~redialled => ~Crossed

Linked == current[1] # 0 /\ current[1] = current[2]

(* They know each other, nobody was removed, and their keys agree.         *)
Agree == known = Device /\ blocked = {} /\ key[1] = key[2]

(* A device waits for a dial nobody will answer: it was made by the user,  *)
(* so no timer ends it.                                                    *)
Stuck(d) ==
    /\ d \in pending /\ current[d] = 0
    /\ \A l \in DOMAIN links : links[l].ends[d] # "opening"

(* A device holds on to a link that the other end leaves open but does not *)
(* use: it took the other's handshake, its own was refused for lack of the *)
(* key that has been adopted since.                                        *)
Mistaken(d) ==
    /\ current[d] # 0 /\ current[Other(d)] # current[d]
    /\ links[current[d]].ends[Other(d)] = "open"

(* Two devices that know each other and agree on a key end up with one     *)
(* link in common, through lost and crossed links, time-outs and restarts, *)
(* unless both wait for a dial of their user that nobody will answer, or   *)
(* one is left with such a link: the dials of the other, which it turns    *)
(* down in favour of it, keep its heartbeat content.                       *)
Reconnect ==
    <>[]( \/ Linked \/ ~Agree
          \/ \A d \in Device : Stuck(d)
          \/ \E d \in Device : Mistaken(d) )
=============================================================================
