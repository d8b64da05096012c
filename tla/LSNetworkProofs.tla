-------------------------- MODULE LSNetworkProofs ---------------------------
(***************************************************************************)
(* What holds of a link-state network whatever its routers, its links, its *)
(* [events] section and the bounds of a run: the heap of events is only    *)
(* ever given events of the present or the future, and keeps the three     *)
(* alarms of each router; the routers flood their advertisements as        *)
(* Flooding promises, everybody who has one has the same, and it gets to   *)
(* everybody; the ports, the neighbours and the costs that are advertised  *)
(* agree with each other and with the network; every variable has its      *)
(* type.  On the way, what each handler of a router does to the state and  *)
(* to what is on its way.                                                  *)
(***************************************************************************)
EXTENDS LSNetwork, RouterNetworkProofs, DijkstraProofs

-----------------------------------------------------------------------------
\* The handlers, each on its own.

RouterFields == {"id", "portStatus", "adjacencyList", "forwardingTable", "nodeTable",
                 "costTable", "seqTable", "seqNum"}

\* What the handlers need of the state of router r, and keep.
IsRouter(s, r) ==
  /\ DOMAIN s = RouterFields
  /\ s.id = r
  /\ s.seqNum \in Nat
  /\ s.seqTable \in [Router -> Nat \cup {NoSeq}]
  /\ DOMAIN s.costTable = Router
  /\ DOMAIN s.portStatus \subseteq Ports[r]
  /\ \A n \in DOMAIN s.adjacencyList : s.adjacencyList[n].port \in Ports[r]

\* The links held are links that were told.
Within(held, links) == \A n \in DOMAIN held : n \in DOMAIN links /\ held[n] = links[n]

\* What a handler that hears nothing does with what it heard before: it keeps the
\* numbers, and forgets links at most.
Remembers(t, s) ==
  /\ t.seqTable = s.seqTable
  /\ \A q \in Router : Within(t.costTable[q], s.costTable[q])

\* Outcome o of a handler of r that issues at most one advertisement: it hears nothing,
\* and what it sends goes to ports of r and carries the number it used up, if any.
Own(s, o, r) ==
  /\ IsRouter(o.s, r)
  /\ Remembers(o.s, s)
  /\ o.s.seqNum \in {s.seqNum, s.seqNum + 1}
  /\ \A m \in o.out :
       /\ m.port \in Ports[r]
       /\ m.pkt.type = "LS" => /\ m.pkt.sourceID = r
                               /\ m.pkt.seqNum = s.seqNum
                               /\ o.s.seqNum = s.seqNum + 1
  /\ \A m, k \in o.out : m.pkt.type = "LS" /\ k.pkt.type = "LS" => m.pkt = k.pkt

\* Outcome o of r for an advertisement that is not news.
Ignores(s, o, pkt) ==
  /\ pkt.seqNum <= s.seqTable[pkt.sourceID]
  /\ o.s = s /\ o.out = {}

\* Outcome o of r for an advertisement that is: r holds what it says, and passes it on to
\* every port but the one it came from.
Takes(s, o, r, port, pkt) ==
  /\ IsRouter(o.s, r)
  /\ o.s.seqNum = s.seqNum
  /\ s.seqTable[pkt.sourceID] < pkt.seqNum
  /\ o.s.seqTable = [s.seqTable EXCEPT ![pkt.sourceID] = pkt.seqNum]
  /\ o.s.costTable[pkt.sourceID] = pkt.costTable
  /\ \A q \in Router \ {pkt.sourceID} : o.s.costTable[q] = s.costTable[q]
  /\ o.out = {To(p, pkt) : p \in Ports[r] \ {port}}

\* State t of router r is one it may go on to from s without using up a number.
Continues(t, s, r) == IsRouter(t, r) /\ t.seqNum = s.seqNum /\ Remembers(t, s)

LEMMA SameContinues ==
  ASSUME NEW r, NEW s, NEW t, IsRouter(t, r), t.seqNum = s.seqNum,
         t.seqTable = s.seqTable, t.costTable = s.costTable
  PROVE  Continues(t, s, r)
BY DEF Continues, Remembers, Within

LEMMA ContinuesFurther ==
  ASSUME NEW r, NEW s, NEW t, NEW u, Continues(t, s, r), Continues(u, t, r)
  PROVE  Continues(u, s, r)
BY DEF Continues, Remembers, Within

\* UpdateTable writes two tables only.
LEMMA UpdateTableKeeps ==
  ASSUME NEW r \in Router, NEW s, IsRouter(s, r), NEW now, NEW t \in UpdateTable(s, now)
  PROVE  /\ IsRouter(t, r) /\ t.seqTable = s.seqTable /\ t.seqNum = s.seqNum
         /\ t.costTable = s.costTable /\ t.portStatus = s.portStatus
         /\ t.adjacencyList = s.adjacencyList
<1>1. \A f \in RouterFields \ {"nodeTable", "forwardingTable"} : t[f] = s[f]
  BY DEF UpdateTable, IsRouter, RouterFields
<1>2. DOMAIN t = RouterFields
  BY DEF UpdateTable, IsRouter, RouterFields
<1> QED
  BY <1>1, <1>2 DEF IsRouter, RouterFields

\* RefreshNodeEntry writes one.
LEMMA RefreshKeeps ==
  ASSUME NEW r \in Router, NEW s, IsRouter(s, r), NEW d, NEW now
  PROVE  LET t == RefreshNodeEntry(s, d, now)
         IN  /\ IsRouter(t, r) /\ t.seqTable = s.seqTable /\ t.seqNum = s.seqNum
             /\ t.costTable = s.costTable /\ t.portStatus = s.portStatus
             /\ t.adjacencyList = s.adjacencyList
BY DEF RefreshNodeEntry, IsRouter, RouterFields

\* RemoveNodes forgets links, and is what the checks of ages do to the advertisements.
LEMMA RemoveNodesWithin ==
  ASSUME NEW costTable, NEW gone, NEW q \in Router
  PROVE  /\ DOMAIN RemoveNodes(costTable, gone) = Router
         /\ Within(RemoveNodes(costTable, gone)[q], costTable[q])
BY DEF RemoveNodes, Within, Restrict, NoLinks

LEMMA ExpirePortsContinues ==
  ASSUME NEW r \in Router, NEW s, IsRouter(s, r), NEW now
  PROVE  Continues(ExpirePorts(s, now), s, r)
<1> DEFINE dead == DeadPorts(s, now)
           gone == {s.portStatus[p].destRouterID : p \in dead} \cap DOMAIN s.adjacencyList
           t    == ExpirePorts(s, now)
<1>1. /\ DOMAIN t = RouterFields /\ t.id = s.id /\ t.seqNum = s.seqNum /\ t.seqTable = s.seqTable
      /\ DOMAIN t.portStatus = DOMAIN s.portStatus
      /\ t.adjacencyList = Restrict(s.adjacencyList, DOMAIN s.adjacencyList \ gone)
      /\ t.costTable = RemoveNodes(s.costTable, gone)
  BY DEF ExpirePorts, TakeDown, IsRouter, RouterFields
<1> HIDE DEF t, gone
<1>2. \A n \in DOMAIN t.adjacencyList : /\ n \in DOMAIN s.adjacencyList
                                        /\ t.adjacencyList[n] = s.adjacencyList[n]
  BY <1>1 DEF Restrict
<1>3. IsRouter(t, r)
  BY <1>1, <1>2, RemoveNodesWithin, ZenonT(40) DEF IsRouter
<1>4. Remembers(t, s)
  BY <1>1, RemoveNodesWithin DEF Remembers
<1> QED
  BY <1>1, <1>3, <1>4 DEF Continues, t

LEMMA ExpireNodesContinues ==
  ASSUME NEW r \in Router, NEW s, IsRouter(s, r), NEW stale
  PROVE  /\ Continues(ExpireNodes(s, stale), s, r)
         /\ ExpireNodes(s, stale).portStatus = s.portStatus
         /\ ExpireNodes(s, stale).adjacencyList = s.adjacencyList
<1> DEFINE t == ExpireNodes(s, stale)
<1>1. /\ \A f \in RouterFields \ {"nodeTable", "costTable"} : t[f] = s[f]
      /\ DOMAIN t = RouterFields /\ t.costTable = RemoveNodes(s.costTable, stale)
  BY DEF ExpireNodes, IsRouter, RouterFields
<1> HIDE DEF t
<1>2. IsRouter(t, r)
  BY <1>1, RemoveNodesWithin DEF IsRouter, RouterFields
<1>3. /\ Remembers(t, s) /\ t.seqNum = s.seqNum
      /\ t.portStatus = s.portStatus /\ t.adjacencyList = s.adjacencyList
  BY <1>1, RemoveNodesWithin DEF Remembers, RouterFields
<1> QED
  BY <1>2, <1>3 DEF Continues, t

\* SendUpdates uses up the sequence number it sends.
LEMMA SendUpdatesOwn ==
  ASSUME NEW r \in Router, NEW s, IsRouter(s, r)
  PROVE  Own(s, SendUpdates(s), r)
<1> DEFINE t == [s EXCEPT !.seqNum = @ + 1]
<1>1. IsRouter(t, r) /\ Remembers(t, s) /\ t.seqNum = s.seqNum + 1
  BY DEF IsRouter, RouterFields, Remembers, Within
<1>2. \A m \in SendUpdates(s).out : \E p \in UpPorts(s) : m = To(p, CreatePacket(s))
  BY DEF SendUpdates
<1>3. \A m \in SendUpdates(s).out : m.port \in Ports[r] /\ m.pkt = CreatePacket(s)
  BY <1>2 DEF UpPorts, To, IsRouter
<1>4. CreatePacket(s).sourceID = r /\ CreatePacket(s).seqNum = s.seqNum
  BY DEF CreatePacket, IsRouter
<1>5. SendUpdates(s).s = t
  BY DEF SendUpdates
<1> HIDE DEF t
<1> QED
  BY <1>1, <1>3, <1>4, <1>5 DEF Own

\* So does a handler that ends with it, after changes that leave the numbers alone.
LEMMA SendUpdatesLater ==
  ASSUME NEW r \in Router, NEW s, NEW t, Continues(t, s, r)
  PROVE  Own(s, SendUpdates(t), r)
BY SendUpdatesOwn DEF Own, Continues, Remembers, Within

\* And one that changes more tables after it.
LEMMA ContinuesOwn ==
  ASSUME NEW r \in Router, NEW s, NEW o, Own(s, o, r), NEW t, Continues(t, o.s, r)
  PROVE  Own(s, [s |-> t, out |-> o.out], r)
BY DEF Own, Continues, Remembers, Within

\* One that sends no advertisement.
LEMMA QuietOwn ==
  ASSUME NEW r \in Router, NEW s, NEW t, Continues(t, s, r),
         NEW out, \A m \in out : m.port \in Ports[r] /\ m.pkt.type # "LS"
  PROVE  Own(s, [s |-> t, out |-> out], r)
BY DEF Own, Continues

\* Each handler but the one of advertisements has only such outcomes.
LEMMA SendPingsOwn ==
  ASSUME NEW r \in Router, NEW s, IsRouter(s, r), NEW now
  PROVE  Own(s, [s |-> s, out |-> sendPings(s, now)], r)
<1>1. \A m \in sendPings(s, now) : m.port \in Ports[r] /\ m.pkt.type # "LS"
  BY DEF sendPings, To, IsRouter
<1> QED
  BY <1>1, SameContinues, QuietOwn

LEMMA PingOwn ==
  ASSUME NEW r \in Router, NEW s, IsRouter(s, r), NEW p \in Ports[r], NEW pkt,
         NEW o \in handlePings(s, p, pkt)
  PROVE  Own(s, o, r)
<1>1. o = [s |-> s, out |-> o.out] /\ \A m \in o.out : m.port \in Ports[r] /\ m.pkt.type # "LS"
  BY DEF handlePings, To
<1>2. Own(s, [s |-> s, out |-> o.out], r)
  BY <1>1, SameContinues, QuietOwn
<1> QED
  BY <1>1, <1>2

LEMMA KeepOwn ==
  ASSUME NEW r \in Router, NEW s, NEW t, Continues(t, s, r), NEW o \in Keep(t)
  PROVE  Own(s, o, r)
<1>1. Own(s, [s |-> t, out |-> {}], r)
  BY QuietOwn
<1> QED
  BY <1>1 DEF Keep

LEMMA DataOwn ==
  ASSUME NEW r \in Router, NEW s, IsRouter(s, r), NEW pkt, pkt.type = "DATA",
         NEW o \in handleData(s, pkt)
  PROVE  Own(s, o, r)
<1>1. CASE o \in Keep(s)
  BY <1>1, SameContinues, KeepOwn
<1>2. CASE o \notin Keep(s)
  <2> DEFINE hop == s.forwardingTable[pkt.dst]
             t   == IF hop \in DOMAIN s.adjacencyList THEN s
                    ELSE [s EXCEPT !.adjacencyList = Store(@, hop, [port |-> 0, timeCost |-> 0])]
             out == {To(t.adjacencyList[hop].port, pkt)}
  <2>1. o = [s |-> t, out |-> out]
    BY <1>2 DEF handleData, forwardTo
  <2>2. /\ hop \in DOMAIN t.adjacencyList
        /\ \A n \in DOMAIN t.adjacencyList : t.adjacencyList[n].port \in Ports[r]
    BY PortZero DEF IsRouter, RouterFields, Store
  <2>3. /\ IsRouter(t, r) /\ t.seqTable = s.seqTable /\ t.seqNum = s.seqNum
        /\ t.costTable = s.costTable
    BY <2>2 DEF IsRouter, RouterFields
  <2>4. \A m \in out : m.port \in Ports[r] /\ m.pkt.type # "LS"
    BY <2>2 DEF To
  <2> HIDE DEF t, hop, out
  <2>5. Own(s, [s |-> t, out |-> out], r)
    BY <2>3, <2>4, SameContinues, QuietOwn
  <2> QED
    BY <2>1, <2>5
<1> QED
  BY <1>1, <1>2

LEMMA PongOwn ==
  ASSUME NEW r \in Router, NEW s, IsRouter(s, r), NEW p \in Ports[r], NEW pkt, NEW now,
         NEW o \in handlePongs(s, p, pkt, now)
  PROVE  Own(s, o, r)
<1> DEFINE nbr   == pkt.sourceID
           rtt   == RoundTripCost(now, pkt.stamp)
           wasUp == p \in UpPorts(s) /\ nbr \in DOMAIN s.adjacencyList
           t     == [s EXCEPT
                      !.portStatus = Store(@, p, [destRouterID |-> nbr, isUp |-> TRUE,
                                                  lastUpdate |-> now, timeCost |-> rtt]),
                      !.adjacencyList = Store(@, nbr, [port |-> p, timeCost |-> rtt])]
           u     == IF wasUp THEN RefreshNodeEntry(t, nbr, now) ELSE t
<1>1. o \in Keep(u) \cup {SendUpdates(v) : v \in UpdateTable(u, now)}
  BY DEF handlePongs
<1>2. /\ DOMAIN t.portStatus \subseteq Ports[r]
      /\ \A n \in DOMAIN t.adjacencyList : t.adjacencyList[n].port \in Ports[r]
  BY DEF IsRouter, RouterFields, Store
<1>3. /\ IsRouter(t, r) /\ t.seqTable = s.seqTable /\ t.seqNum = s.seqNum
      /\ t.costTable = s.costTable
  BY <1>2 DEF IsRouter, RouterFields
<1> HIDE DEF t
<1>4. Continues(u, s, r) /\ IsRouter(u, r)
  BY <1>3, RefreshKeeps, SameContinues
<1> HIDE DEF u
<1>5. CASE o \in Keep(u)
  BY <1>4, <1>5, KeepOwn
<1>6. ASSUME NEW v \in UpdateTable(u, now), o = SendUpdates(v)
      PROVE  Own(s, o, r)
  <2>1. Continues(v, u, r)
    BY <1>4, UpdateTableKeeps, SameContinues
  <2>2. Continues(v, s, r)
    BY <1>4, <2>1, ContinuesFurther
  <2> QED
    BY <1>6, <2>2, SendUpdatesLater
<1> QED
  BY <1>1, <1>5, <1>6

LEMMA FreshnessOwn ==
  ASSUME NEW r \in Router, NEW s, IsRouter(s, r), NEW now, NEW o \in checkFreshness(s, now)
  PROVE  Own(s, o, r)
<1> DEFINE dead  == DeadPorts(s, now)
           sent  == IF dead = {} THEN [s |-> s, out |-> {}] ELSE SendUpdates(ExpirePorts(s, now))
           stale == StaleNodes(sent.s, now)
<1>1. Own(s, sent, r) /\ IsRouter(sent.s, r)
  <2>1. CASE dead = {}
    BY <2>1, SameContinues, QuietOwn
  <2>2. CASE dead # {}
    BY <2>2, ExpirePortsContinues, SendUpdatesLater DEF Own
  <2> QED
    BY <2>1, <2>2
<1> HIDE DEF sent
<1>2. CASE o = sent
  BY <1>1, <1>2
<1>3. CASE o # sent
  <2>1. PICK u \in UpdateTable(ExpireNodes(sent.s, stale), now) : o = [s |-> u, out |-> sent.out]
    BY <1>3 DEF checkFreshness, sent
  <2>2. Continues(ExpireNodes(sent.s, stale), sent.s, r)
    BY <1>1, ExpireNodesContinues
  <2>3. Continues(u, ExpireNodes(sent.s, stale), r)
    BY <2>2, UpdateTableKeeps, SameContinues DEF Continues
  <2>4. Continues(u, sent.s, r)
    BY <2>2, <2>3, ContinuesFurther
  <2> QED
    BY <1>1, <2>1, <2>4, ContinuesOwn
<1> QED
  BY <1>2, <1>3

\* An advertisement is taken only if its number is above the last one, and passed on as
\* it is.
LEMMA PacketOutcomes ==
  ASSUME NEW r \in Router, NEW s, IsRouter(s, r), NEW p \in Ports[r],
         NEW pkt, pkt.sourceID \in Router, pkt.seqNum \in Nat, NEW now,
         NEW o \in HandlePacket(s, p, pkt, now)
  PROVE  Ignores(s, o, pkt) \/ Takes(s, o, r, p, pkt)
<1>1. CASE pkt.seqNum <= s.seqTable[pkt.sourceID]
  BY <1>1 DEF HandlePacket, Keep, Ignores
<1>2. CASE ~(pkt.seqNum <= s.seqTable[pkt.sourceID])
  <2> DEFINE took == [s EXCEPT !.seqTable[pkt.sourceID] = pkt.seqNum]
             t    == RefreshNodeEntry(took, pkt.sourceID, now)
             w    == [t EXCEPT !.costTable[pkt.sourceID] = pkt.costTable]
  <2>1. /\ IsRouter(took, r) /\ took.seqNum = s.seqNum /\ took.costTable = s.costTable
        /\ took.seqTable = [s.seqTable EXCEPT ![pkt.sourceID] = pkt.seqNum]
    BY DEF IsRouter, RouterFields
  <2>2. PICK u : /\ o = [s |-> u, out |-> FloodUpdates(s, p, pkt)]
                 /\ IF pkt.costTable = t.costTable[pkt.sourceID] THEN u = t
                    ELSE u \in UpdateTable(w, now)
    BY <1>2 DEF HandlePacket
  <2> HIDE DEF took
  <2>3. /\ IsRouter(t, r) /\ t.seqNum = s.seqNum /\ t.seqTable = took.seqTable
        /\ t.costTable = s.costTable
    BY <2>1, RefreshKeeps
  <2> HIDE DEF t
  <2>4. /\ IsRouter(w, r) /\ w.seqNum = t.seqNum /\ w.seqTable = t.seqTable
        /\ w.costTable = [s.costTable EXCEPT ![pkt.sourceID] = pkt.costTable]
    BY <2>3 DEF IsRouter, RouterFields
  <2> HIDE DEF w
  <2>5. /\ IsRouter(u, r) /\ u.seqNum = s.seqNum /\ u.seqTable = took.seqTable
        /\ \/ pkt.costTable = s.costTable[pkt.sourceID] /\ u.costTable = s.costTable
           \/ u.costTable = [s.costTable EXCEPT ![pkt.sourceID] = pkt.costTable]
    BY <2>2, <2>3, <2>4, UpdateTableKeeps
  <2>6. DOMAIN s.costTable = Router
    BY DEF IsRouter
  <2>7. /\ u.costTable[pkt.sourceID] = pkt.costTable
        /\ \A q \in Router \ {pkt.sourceID} : u.costTable[q] = s.costTable[q]
    BY <2>5, <2>6
  <2>8. s.seqTable[pkt.sourceID] < pkt.seqNum
    BY <1>2 DEF IsRouter, NoSeq
  <2>9. FloodUpdates(s, p, pkt) = {To(q, pkt) : q \in Ports[r] \ {p}}
    BY DEF FloodUpdates, IsRouter
  <2> QED
    BY <2>1, <2>2, <2>5, <2>7, <2>8, <2>9 DEF Takes
<1> QED
  BY <1>1, <1>2

-----------------------------------------------------------------------------
\* The network.

RoutersOK ==
  /\ DOMAIN router = Router
  /\ \A r \in Router : IsRouter(router[r], r)
  /\ \A r, o \in Router : router[r].seqTable[o] < router[o].seqNum

\* An advertisement on its way has been issued, and whoever put it on the link issued it or
\* had heard it.
AdvertsOK ==
  \A e \in LSInFlight :
    /\ e.pkt.sourceID \in Router /\ e.pkt.seqNum \in Nat
    /\ e.pkt.seqNum < router[e.pkt.sourceID].seqNum
    /\ \/ e.pkt.sourceID = Sender(e)
       \/ e.pkt.seqNum <= router[Sender(e)].seqTable[e.pkt.sourceID]

\* The inductive invariant.
NetInv == SimInv /\ RoutersOK /\ AdvertsOK

\* Outcome o of a handler of r is sound: r goes on from where it was, and knows and
\* sends only advertisements that have been issued, its own newest one included.
Sound(o, r) ==
  LET issued == [q \in Router |-> IF q = r THEN o.s.seqNum ELSE router[q].seqNum] IN
  /\ IsRouter(o.s, r)
  /\ o.s.seqNum >= router[r].seqNum
  /\ \A q \in Router : router[r].seqTable[q] <= o.s.seqTable[q] /\ o.s.seqTable[q] < issued[q]
  /\ \A m \in o.out :
       /\ m.port \in Ports[r]
       /\ m.pkt.type = "LS" => /\ m.pkt.sourceID \in Router
                               /\ m.pkt.seqNum \in Nat
                               /\ m.pkt.seqNum < issued[m.pkt.sourceID]
                               /\ \/ m.pkt.sourceID = r
                                  \/ m.pkt.seqNum <= o.s.seqTable[m.pkt.sourceID]

\* Outcomes of all three kinds are sound: those for an advertisement because it has been
\* issued.
LEMMA OwnSound ==
  ASSUME RoutersOK, NEW r \in Router, NEW o, Own(router[r], o, r)
  PROVE  Sound(o, r)
<1> DEFINE issued == [q \in Router |-> IF q = r THEN o.s.seqNum ELSE router[q].seqNum]
<1>1. router[r].seqNum \in Nat /\ o.s.seqNum \in {router[r].seqNum, router[r].seqNum + 1}
  BY DEF RoutersOK, Own, IsRouter
<1>2. ASSUME NEW q \in Router
      PROVE  router[r].seqTable[q] <= o.s.seqTable[q] /\ o.s.seqTable[q] < issued[q]
  <2>1. /\ o.s.seqTable[q] \in Int /\ o.s.seqTable[q] = router[r].seqTable[q]
        /\ o.s.seqTable[q] < router[q].seqNum /\ router[q].seqNum \in Nat
    BY DEF RoutersOK, Own, Remembers, IsRouter, NoSeq
  <2> QED
    BY <1>1, <2>1
<1> QED
  BY <1>1, <1>2 DEF Own, Sound

LEMMA PacketSound ==
  ASSUME RoutersOK, NEW r \in Router, NEW o, NEW port, NEW pkt,
         pkt.sourceID \in Router, pkt.seqNum \in Nat,
         pkt.seqNum < router[pkt.sourceID].seqNum,
         Ignores(router[r], o, pkt) \/ Takes(router[r], o, r, port, pkt)
  PROVE  Sound(o, r)
<1>1. /\ IsRouter(router[r], r) /\ IsRouter(o.s, r)
      /\ router[r].seqNum \in Nat /\ o.s.seqNum = router[r].seqNum
      /\ \A q \in Router : /\ router[r].seqTable[q] \in Int
                           /\ router[r].seqTable[q] < router[q].seqNum
  BY DEF RoutersOK, Ignores, Takes, IsRouter, NoSeq
<1>2. CASE Ignores(router[r], o, pkt)
  BY <1>1, <1>2 DEF Ignores, Sound
<1>3. CASE Takes(router[r], o, r, port, pkt)
  <2>1. \A q \in Router : o.s.seqTable[q] = IF q = pkt.sourceID THEN pkt.seqNum
                                            ELSE router[r].seqTable[q]
    BY <1>1, <1>3 DEF Takes, IsRouter
  <2>2. \A m \in o.out : m.port \in Ports[r] /\ m.pkt = pkt
    BY <1>3 DEF Takes, To
  <2>3. router[r].seqTable[pkt.sourceID] < pkt.seqNum
    BY <1>3 DEF Takes
  <2> QED
    BY <1>1, <2>1, <2>2, <2>3 DEF Sound
<1> QED
  BY <1>2, <1>3

\* A step with a sound outcome keeps the invariant.
LEMMA TurnNetInv ==
  ASSUME NetInv, NEW e, NEW r, NEW o, Turn(e, r, o), Sound(o, r)
  PROVE  NetInv'
<1>1. SimInv'
  BY TurnInv DEF NetInv, Sound
<1>2. r \in Router /\ \A q \in Router : router'[q] = IF q = r THEN o.s ELSE router[q]
  BY DEF Turn, NetInv, RoutersOK
<1>3. \A q \in Router : /\ router'[q].seqNum = IF q = r THEN o.s.seqNum ELSE router[q].seqNum
                        /\ router'[q].seqNum \in Nat /\ router[q].seqNum \in Nat
                        /\ router'[q].seqNum >= router[q].seqNum
  BY <1>2 DEF NetInv, RoutersOK, IsRouter, Sound
<1>4. \A p, q \in Router : /\ router[p].seqTable[q] \in Int /\ router'[p].seqTable[q] \in Int
                           /\ router[p].seqTable[q] <= router'[p].seqTable[q]
                           /\ router'[p].seqTable[q] < router'[q].seqNum
  <2> SUFFICES ASSUME NEW p \in Router, NEW q \in Router
               PROVE  /\ router[p].seqTable[q] \in Int /\ router'[p].seqTable[q] \in Int
                      /\ router[p].seqTable[q] <= router'[p].seqTable[q]
                      /\ router'[p].seqTable[q] < router'[q].seqNum
    OBVIOUS
  <2>1. /\ router[p].seqTable[q] \in Int /\ router[p].seqTable[q] < router[q].seqNum
        /\ o.s.seqTable[q] \in Int
    BY DEF NetInv, RoutersOK, Sound, IsRouter, NoSeq
  <2>2. CASE p = r
    BY <1>2, <1>3, <2>1, <2>2 DEF Sound
  <2>3. CASE p # r
    BY <1>2, <1>3, <2>1, <2>3
  <2> QED
    BY <2>2, <2>3
<1>5. RoutersOK'
  <2>1. \A q \in Router : IsRouter(router'[q], q)
    BY <1>2 DEF NetInv, RoutersOK, Sound
  <2>2. DOMAIN router' = Router
    BY DEF Turn, NetInv, RoutersOK
  <2> QED
    BY <1>4, <2>1, <2>2 DEF RoutersOK
<1>6. ASSUME NEW f \in LSInFlight'
      PROVE  /\ f.pkt.sourceID \in Router /\ f.pkt.seqNum \in Nat
             /\ f.pkt.seqNum < router'[f.pkt.sourceID].seqNum
             /\ \/ f.pkt.sourceID = Sender(f)
                \/ f.pkt.seqNum <= router'[Sender(f)].seqTable[f.pkt.sourceID]
  <2>1. f \in InFlight' /\ f.pkt.type = "LS"
    BY DEF LSInFlight
  <2>2. CASE f \in InFlight
    <3>1. /\ f.pkt.sourceID \in Router /\ f.pkt.seqNum \in Nat
          /\ f.pkt.seqNum < router[f.pkt.sourceID].seqNum
          /\ \/ f.pkt.sourceID = Sender(f)
             \/ f.pkt.seqNum <= router[Sender(f)].seqTable[f.pkt.sourceID]
      BY <2>1, <2>2 DEF NetInv, AdvertsOK, LSInFlight
    <3>2. Sender(f) \in Router
      BY <2>2, SenderFacts DEF NetInv, SimInv, InFlight
    <3> QED
      BY <1>3, <1>4, <3>1, <3>2
  <2>3. ASSUME NEW m \in o.out, Carries(f, r, m)
        PROVE  /\ f.pkt.sourceID \in Router /\ f.pkt.seqNum \in Nat
               /\ f.pkt.seqNum < router'[f.pkt.sourceID].seqNum
               /\ \/ f.pkt.sourceID = Sender(f)
                  \/ f.pkt.seqNum <= router'[Sender(f)].seqTable[f.pkt.sourceID]
    <3>1. m.port \in Ports[r] /\ f.pkt = m.pkt
      BY <2>3 DEF Sound, Carries
    <3>2. Sender(f) = r
      BY <1>2, <2>3, <3>1, CarriesFacts
    <3>3. /\ f.pkt.sourceID \in Router /\ f.pkt.seqNum \in Nat
          /\ f.pkt.seqNum < IF f.pkt.sourceID = r THEN o.s.seqNum
                            ELSE router[f.pkt.sourceID].seqNum
          /\ f.pkt.sourceID = r \/ f.pkt.seqNum <= o.s.seqTable[f.pkt.sourceID]
      BY <2>1, <3>1 DEF Sound
    <3> QED
      BY <1>2, <1>3, <3>2, <3>3
  <2> QED
    BY <2>1, <2>2, <2>3, TurnPackets DEF NetInv
<1>7. AdvertsOK'
  BY <1>6 DEF AdvertsOK, Sender
<1> QED
  BY <1>1, <1>5, <1>7 DEF NetInv

-----------------------------------------------------------------------------
\* The steps of the network.

RouterNext ==
  \/ XmitEndToEnd \/ RecvPing \/ RecvPong \/ RecvData \/ RecvLS
  \/ PingPongAlarm \/ UpdateAlarm \/ FreshnessAlarm

\* Outcome o of router r, in state s, for event e: recv and handle_alarm, by the type.
Handled(s, e, r, o) ==
  \/ /\ e.kind = "XmitEndToEnd" /\ r = e.src
     /\ o \in handleData(s, [type |-> "DATA", src |-> e.src, dst |-> e.dst])
  \/ /\ e.kind = "Recv" /\ r = e.dest
     /\ \/ e.pkt.type = "PING" /\ o \in handlePings(s, e.dport, e.pkt)
        \/ e.pkt.type = "PONG" /\ o \in handlePongs(s, e.dport, e.pkt, e.time)
        \/ e.pkt.type = "DATA" /\ o \in handleData(s, e.pkt)
        \/ e.pkt.type = "LS" /\ o \in HandlePacket(s, e.dport, e.pkt, e.time)
  \/ /\ e.kind = "Alarm" /\ r = e.router
     /\ \/ e.type = "PingPong" /\ o = [s |-> s, out |-> sendPings(s, e.time)]
        \/ e.type = "Update" /\ o = SendUpdates(s)
        \/ e.type = "Freshness" /\ o \in checkFreshness(s, e.time)

\* Every step of a router is one.
LEMMA RouterNextHandled ==
  ASSUME SimInv, RouterNext
  PROVE  \E e, r, o : Turn(e, r, o) /\ Handled(router[r], e, r, o)
<1>1. \A e \in Top(event_q) : EventFits(e, global_time)
  BY TopFacts DEF SimInv
<1>2. CASE XmitEndToEnd
  <2>1. PICK e \in Top(event_q) :
          /\ e.kind = "XmitEndToEnd"
          /\ Handle(e, e.src, handleData(router[e.src], [type |-> "DATA", src |-> e.src, dst |-> e.dst]), {})
    BY <1>2 DEF XmitEndToEnd
  <2>2. e.src \in Router /\ SetAgain(e) = {} /\ e.kind # "Alarm"
    BY <1>1, <2>1 DEF EventFits, SetAgain
  <2>3. PICK o \in handleData(router[e.src], [type |-> "DATA", src |-> e.src, dst |-> e.dst]) :
          Turn(e, e.src, o)
    BY <2>1, <2>2, HandleTurn
  <2>4. Handled(router[e.src], e, e.src, o)
    BY <2>1, <2>3 DEF Handled
  <2> QED
    BY <2>3, <2>4
<1>3. ASSUME NEW type, NEW e \in Arrivals(type), NEW outcomes, Handle(e, e.dest, outcomes, {}),
             \A o \in outcomes : Handled(router[e.dest], e, e.dest, o)
      PROVE  \E f, r, o : Turn(f, r, o) /\ Handled(router[r], f, r, o)
  <2>1. /\ e \in Top(event_q) /\ e.kind = "Recv" /\ e.dest \in Router
        /\ SetAgain(e) = {} /\ e.kind # "Alarm"
    BY <1>1 DEF EventFits, Arrivals, SetAgain
  <2>2. PICK o \in outcomes : Turn(e, e.dest, o)
    BY <1>3, <2>1, HandleTurn
  <2> QED
    BY <1>3, <2>2
<1>4. CASE RecvPing
  <2>1. PICK e \in Arrivals("PING") : Handle(e, e.dest, handlePings(router[e.dest], e.dport, e.pkt), {})
    BY <1>4 DEF RecvPing
  <2>2. \A o \in handlePings(router[e.dest], e.dport, e.pkt) : Handled(router[e.dest], e, e.dest, o)
    BY <2>1 DEF Handled, Arrivals
  <2> QED
    BY <1>3, <2>1, <2>2
<1>5. CASE RecvPong
  <2>1. PICK e \in Arrivals("PONG") : Handle(e, e.dest, handlePongs(router[e.dest], e.dport, e.pkt, e.time), {})
    BY <1>5 DEF RecvPong
  <2>2. \A o \in handlePongs(router[e.dest], e.dport, e.pkt, e.time) : Handled(router[e.dest], e, e.dest, o)
    BY <2>1 DEF Handled, Arrivals
  <2> QED
    BY <1>3, <2>1, <2>2
<1>6. CASE RecvData
  <2>1. PICK e \in Arrivals("DATA") : Handle(e, e.dest, handleData(router[e.dest], e.pkt), {})
    BY <1>6 DEF RecvData
  <2>2. \A o \in handleData(router[e.dest], e.pkt) : Handled(router[e.dest], e, e.dest, o)
    BY <2>1 DEF Handled, Arrivals
  <2> QED
    BY <1>3, <2>1, <2>2
<1>7. CASE RecvLS
  <2>1. PICK e \in Arrivals("LS") : Handle(e, e.dest, HandlePacket(router[e.dest], e.dport, e.pkt, e.time), {})
    BY <1>7 DEF RecvLS
  <2>2. \A o \in HandlePacket(router[e.dest], e.dport, e.pkt, e.time) : Handled(router[e.dest], e, e.dest, o)
    BY <2>1 DEF Handled, Arrivals
  <2> QED
    BY <1>3, <2>1, <2>2
<1>8. ASSUME NEW type, NEW e \in Alarms(type), NEW outcomes, Handle(e, e.router, outcomes, Again(e)),
             \A o \in outcomes : Handled(router[e.router], e, e.router, o)
      PROVE  \E f, r, o : Turn(f, r, o) /\ Handled(router[r], f, r, o)
  <2>1. e \in Top(event_q) /\ e.router \in Router /\ Again(e) = SetAgain(e)
    BY <1>1 DEF EventFits, Alarms, SetAgain
  <2>2. PICK o \in outcomes : Turn(e, e.router, o)
    BY <1>8, <2>1, HandleTurn
  <2> QED
    BY <1>8, <2>2
<1>9. CASE PingPongAlarm
  <2>1. PICK e \in Alarms("PingPong") :
          Handle(e, e.router, {[s |-> router[e.router], out |-> sendPings(router[e.router], e.time)]}, Again(e))
    BY <1>9 DEF PingPongAlarm
  <2>2. \A o \in {[s |-> router[e.router], out |-> sendPings(router[e.router], e.time)]} :
          Handled(router[e.router], e, e.router, o)
    BY <2>1 DEF Handled, Alarms
  <2> QED
    BY <1>8, <2>1, <2>2
<1>10. CASE UpdateAlarm
  <2>1. PICK e \in Alarms("Update") : Handle(e, e.router, {SendUpdates(router[e.router])}, Again(e))
    BY <1>10 DEF UpdateAlarm
  <2>2. \A o \in {SendUpdates(router[e.router])} : Handled(router[e.router], e, e.router, o)
    BY <2>1 DEF Handled, Alarms
  <2> QED
    BY <1>8, <2>1, <2>2
<1>11. CASE FreshnessAlarm
  <2>1. PICK e \in Alarms("Freshness") : Handle(e, e.router, checkFreshness(router[e.router], e.time), Again(e))
    BY <1>11 DEF FreshnessAlarm
  <2>2. \A o \in checkFreshness(router[e.router], e.time) : Handled(router[e.router], e, e.router, o)
    BY <2>1 DEF Handled, Alarms
  <2> QED
    BY <1>8, <2>1, <2>2
<1> QED
  BY <1>2, <1>4, <1>5, <1>6, <1>7, <1>9, <1>10, <1>11 DEF RouterNext

\* A step of router r that has nothing to do with the advertisements of others ...
OwnTurn(e, r, o) == Turn(e, r, o) /\ e \notin LSInFlight /\ Own(router[r], o, r)

\* ... and one that handles an advertisement.
PacketTurn(e, r, o) ==
  /\ Turn(e, r, o) /\ e \in LSInFlight /\ r = e.dest
  /\ Ignores(router[r], o, e.pkt) \/ Takes(router[r], o, r, e.dport, e.pkt)

\* Whatever event a router handles, the step is of one of these kinds.
LEMMA HandledTurns ==
  ASSUME NetInv, NEW e, NEW r, NEW o, Turn(e, r, o), Handled(router[r], e, r, o)
  PROVE  OwnTurn(e, r, o) \/ PacketTurn(e, r, o)
<1>1. Turn(e, r, o) /\ Handled(router[r], e, r, o)
  OBVIOUS
<1>2. /\ r \in Router /\ e \in Pending /\ EventFits(e, global_time)
      /\ IsRouter(router[r], r)
  BY <1>1, TopFacts DEF Turn, NetInv, SimInv, RoutersOK
<1>3. CASE e \in LSInFlight
  <2>1. e.pkt.sourceID \in Router /\ e.pkt.seqNum \in Nat /\ e.pkt.type = "LS"
    BY <1>3 DEF NetInv, AdvertsOK, LSInFlight
  <2>2. r = e.dest /\ o \in HandlePacket(router[r], e.dport, e.pkt, e.time)
    BY <1>1, <1>3, <2>1 DEF Handled, LSInFlight, InFlight
  <2>3. e.dport \in Ports[r]
    BY <1>2, <1>3, <2>2 DEF EventFits, LSInFlight, InFlight
  <2>4. Ignores(router[r], o, e.pkt) \/ Takes(router[r], o, r, e.dport, e.pkt)
    BY <1>2, <2>1, <2>2, <2>3, PacketOutcomes
  <2> QED
    BY <1>1, <1>3, <2>2, <2>4 DEF PacketTurn
<1>4. CASE e \notin LSInFlight
  <2>1. e.kind = "Recv" => e.dport \in Ports[e.dest] /\ e.pkt.type # "LS"
    BY <1>2, <1>4 DEF EventFits, LSInFlight, InFlight
  <2>2. Own(router[r], o, r)
    BY <1>1, <1>2, <2>1, PingOwn, PongOwn, DataOwn, SendPingsOwn, SendUpdatesOwn, FreshnessOwn
       DEF Handled
  <2> QED
    BY <1>1, <1>4, <2>2 DEF OwnTurn
<1> QED
  BY <1>3, <1>4

LEMMA RouterNextTurns ==
  ASSUME NetInv, RouterNext
  PROVE  \E e, r, o : OwnTurn(e, r, o) \/ PacketTurn(e, r, o)
BY RouterNextHandled, HandledTurns DEF NetInv

\* Whatever it is, the router sends on its own ports.
LEMMA HandledPorts ==
  ASSUME NetInv, NEW e, NEW r, NEW o, Turn(e, r, o), Handled(router[r], e, r, o)
  PROVE  \A m \in o.out : m.port \in Ports[r]
<1>1. OwnTurn(e, r, o) \/ PacketTurn(e, r, o)
  BY HandledTurns
<1> QED
  BY <1>1 DEF OwnTurn, PacketTurn, Own, Ignores, Takes, To

\* All of them keep the invariant.
LEMMA RouterNextInv ==
  ASSUME NetInv, RouterNext
  PROVE  NetInv'
<1>1. PICK e, r, o : OwnTurn(e, r, o) \/ PacketTurn(e, r, o)
  BY RouterNextTurns
<1>2. CASE OwnTurn(e, r, o)
  BY <1>2, OwnSound, TurnNetInv DEF OwnTurn, NetInv, Turn
<1>3. CASE PacketTurn(e, r, o)
  <2>1. Sound(o, r)
    BY <1>3, PacketSound DEF PacketTurn, Turn, NetInv, AdvertsOK
  <2> QED
    BY <1>3, <2>1, TurnNetInv DEF PacketTurn
<1> QED
  BY <1>1, <1>2, <1>3

\* The simulator's own events keep it too.
LEMMA SimNetInv ==
  ASSUME NetInv, SimNext, UNCHANGED router
  PROVE  NetInv'
<1>1. SimInv' /\ RoutersOK'
  BY SimNextInv DEF NetInv, RoutersOK
<1>2. ASSUME NEW f \in LSInFlight'
      PROVE  /\ f.pkt.sourceID \in Router /\ f.pkt.seqNum \in Nat
             /\ f.pkt.seqNum < router[f.pkt.sourceID].seqNum
             /\ \/ f.pkt.sourceID = Sender(f)
                \/ f.pkt.seqNum <= router[Sender(f)].seqTable[f.pkt.sourceID]
  <2>1. f \in InFlight' /\ f.pkt.type = "LS"
    BY DEF LSInFlight
  <2>2. PICK e \in InFlight : SamePacket(e, f)
    BY <2>1, SimPackets DEF NetInv
  <2>3. e \in LSInFlight /\ e.pkt = f.pkt /\ Sender(e) = Sender(f)
    BY <2>1, <2>2 DEF SamePacket, Sender, LSInFlight
  <2> QED
    BY <2>3 DEF NetInv, AdvertsOK
<1>3. AdvertsOK'
  BY <1>2 DEF AdvertsOK, Sender
<1> QED
  BY <1>1, <1>3 DEF NetInv

\* A network starts in order, and with nothing but PINGs on their way.
LEMMA InitNetInv ==
  Init => /\ NetInv /\ OneAlarmEach /\ LSInFlight = {}
          /\ ProbesOK /\ \A D \in Nat : ConfiguredWithin(D) => ProbesInTime(D)
<1> SUFFICES ASSUME Init
             PROVE  /\ NetInv /\ OneAlarmEach /\ LSInFlight = {}
                    /\ ProbesOK /\ \A D \in Nat : ConfiguredWithin(D) => ProbesInTime(D)
  OBVIOUS
<1> DEFINE pings == UNION {XmitEvents(r, sendPings(InitRouter(r), 0), 0) : r \in Router}
<1>1. \A f \in pings : /\ f.kind = "Xmit" /\ f.pkt.type = "PING" /\ EventFits(f, 0) /\ ProbeOK(f)
                        /\ \A D \in Nat : InTime(f, D)
  <2> SUFFICES ASSUME NEW r \in Router, NEW f \in XmitEvents(r, sendPings(InitRouter(r), 0), 0)
               PROVE  /\ f.kind = "Xmit" /\ f.pkt.type = "PING" /\ EventFits(f, 0) /\ ProbeOK(f)
                      /\ \A D \in Nat : InTime(f, D)
    OBVIOUS
  <2>1. InitRouter(r).id = r
    BY DEF InitRouter
  <2> QED
    BY <2>1, FirstPings
<1>2. SimInit(pings \cup FirstAlarms)
  BY DEF Init, FirstAlarms
<1> HIDE DEF pings
<1>3. /\ SimInv /\ OneAlarmEach /\ InFlight = pings
      /\ \A D : ConfiguredWithin(D) => DelaysWithin(D)
  BY <1>1, <1>2, StartFacts
<1>4. LSInFlight = {}
  BY <1>1, <1>3 DEF LSInFlight
<1>5. \A r \in Router : IsRouter(InitRouter(r), r)
  BY DEF IsRouter, InitRouter, RouterFields, NoSeq
<1>6. RoutersOK
  BY <1>5 DEF Init, RoutersOK, InitRouter, NoSeq
<1>7. ProbesOK /\ \A D \in Nat : ConfiguredWithin(D) => ProbesInTime(D)
  BY <1>1, <1>3 DEF ProbesOK, ProbesInTime
<1> QED
  BY <1>3, <1>4, <1>6, <1>7 DEF NetInv, AdvertsOK

LEMMA NextNetInv == NetInv /\ [Next]_vars => NetInv'
<1> SUFFICES ASSUME NetInv, [Next]_vars PROVE NetInv'
  OBVIOUS
<1>1. CASE SimNext /\ UNCHANGED router
  BY <1>1, SimNetInv
<1>2. CASE RouterNext
  BY <1>2, RouterNextInv
<1>3. CASE UNCHANGED vars
  BY <1>3 DEF vars, simVars, NetInv, SimInv, SimTypeOK, EventFits, RoutersOK, AdvertsOK, Sender,
              LSInFlight, InFlight, Pending
<1> QED
  BY <1>1, <1>2, <1>3 DEF Next, RouterNext

LEMMA NetInvHolds == Spec => []NetInv
BY InitNetInv, NextNetInv, PTL DEF Spec

-----------------------------------------------------------------------------
\* Every step of a network is a step of Flooding, or none.

\* What Flood takes for the variables of Flooding.
issued == [r \in Router |-> router[r].seqNum]
heard  == [r \in Router |-> router[r].seqTable]

\* A handler that issues at most one advertisement.
LEMMA OwnFlooding ==
  ASSUME RoutersOK, NEW r \in Router, NEW o, Own(router[r], o, r),
         router' = [router EXCEPT ![r] = o.s]
  PROVE  [Flood!Next]_<<issued, heard>>
<1>1. heard' = heard
  BY DEF RoutersOK, Own, Remembers, heard
<1>2. CASE o.s.seqNum = router[r].seqNum
  <2>1. issued' = issued
    BY <1>2 DEF RoutersOK, issued
  <2> QED
    BY <1>1, <2>1
<1>3. CASE o.s.seqNum = router[r].seqNum + 1
  <2>1. issued' = [issued EXCEPT ![r] = @ + 1]
    BY <1>3 DEF RoutersOK, issued
  <2>2. Flood!Issue(r)
    BY <1>1, <2>1 DEF Flood!Issue, issued, heard
  <2> QED
    BY <2>2 DEF Flood!Next
<1> QED
  BY <1>2, <1>3 DEF Own

\* A handler of an advertisement that has been issued.
LEMMA PacketFlooding ==
  ASSUME RoutersOK, NEW r \in Router, NEW o, NEW port, NEW pkt,
         pkt.sourceID \in Router, pkt.seqNum \in Nat,
         pkt.seqNum < router[pkt.sourceID].seqNum,
         Ignores(router[r], o, pkt) \/ Takes(router[r], o, r, port, pkt),
         router' = [router EXCEPT ![r] = o.s]
  PROVE  [Flood!Next]_<<issued, heard>>
<1>1. issued' = issued
  BY DEF RoutersOK, Ignores, Takes, issued
<1>2. CASE Ignores(router[r], o, pkt)
  <2>1. heard' = heard
    BY <1>2 DEF RoutersOK, heard, Ignores
  <2> QED
    BY <1>1, <2>1
<1>3. CASE Takes(router[r], o, r, port, pkt)
  <2>1. heard' = [heard EXCEPT ![r][pkt.sourceID] = pkt.seqNum]
    BY <1>3 DEF RoutersOK, Takes, heard
  <2>2. pkt.seqNum \in heard[r][pkt.sourceID] + 1 .. issued[pkt.sourceID] - 1
    BY <1>3 DEF RoutersOK, Takes, IsRouter, NoSeq, issued, heard
  <2>3. Flood!Hear(r, pkt.sourceID)
    BY <1>1, <2>1, <2>2 DEF Flood!Hear, issued, heard
  <2> QED
    BY <2>3 DEF Flood!Next
<1> QED
  BY <1>2, <1>3

LEMMA NextFlooding == NetInv /\ [Next]_vars => [Flood!Next]_<<issued, heard>>
<1> SUFFICES ASSUME NetInv, [Next]_vars PROVE [Flood!Next]_<<issued, heard>>
  OBVIOUS
<1>1. CASE SimNext /\ UNCHANGED router
  BY <1>1 DEF issued, heard
<1>2. CASE RouterNext
  <2>1. PICK e, r, o : OwnTurn(e, r, o) \/ PacketTurn(e, r, o)
    BY <1>2, RouterNextTurns
  <2>2. CASE OwnTurn(e, r, o)
    BY <2>2, OwnFlooding DEF OwnTurn, Turn, NetInv
  <2>3. CASE PacketTurn(e, r, o)
    BY <2>3, PacketFlooding DEF PacketTurn, Turn, NetInv, AdvertsOK
  <2> QED
    BY <2>1, <2>2, <2>3
<1>3. CASE UNCHANGED vars
  BY <1>3 DEF vars, issued, heard
<1> QED
  BY <1>1, <1>2, <1>3 DEF Next, RouterNext

LEMMA InitFlooding == Init => Flood!Init
BY DEF Init, InitRouter, Flood!Init, Flood!Nothing, NoSeq

-----------------------------------------------------------------------------
\* No event is pending for a time already past, whatever delays are configured or
\* changed to, so no event that run() dispatches pushes one that comes before it.
THEOREM ClockMovesForward == Spec => []NoEventInThePast
<1>1. NetInv => NoEventInThePast
  BY DEF NetInv, SimInv, EventFits, NoEventInThePast
<1> QED
  BY <1>1, NetInvHolds, PTL

\* No router has heard, or is about to hear, a sequence number its origin has yet to
\* use, however many routers and links there are and whatever fails: an origin's
\* next advertisement is never dropped as old.
THEOREM NumbersFromOrigin == Spec => []SeqFromOrigin
<1>1. NetInv => SeqFromOrigin
  BY DEF NetInv, RoutersOK, AdvertsOK, SeqFromOrigin
<1> QED
  BY <1>1, NetInvHolds, PTL

\* Flooding by sequence number works for every network and every run: no router ever
\* goes back to an older advertisement of any origin, or takes one never issued.
THEOREM FloodingImplemented == Spec => ImplementsFlooding
BY InitFlooding, NextFlooding, NetInvHolds, PTL DEF Spec, ImplementsFlooding, Flood!Spec, issued, heard

-----------------------------------------------------------------------------
\* What becomes of an advertisement: everybody who has it has the same, and it gets to
\* everybody.

\* The state after a step of router r.
LEMMA TurnRouters ==
  ASSUME NetInv, NEW e, NEW r, NEW o, Turn(e, r, o)
  PROVE  /\ r \in Router
         /\ \A q \in Router : router'[q] = IF q = r THEN o.s ELSE router[q]
BY DEF NetInv, RoutersOK, Turn

\* The advertisements in flight after a step: those that were, but for the one that
\* arrived, and what the router sent.
LEMMA TurnAdverts ==
  ASSUME NetInv, NEW e, NEW r, NEW o, Turn(e, r, o)
  PROVE  /\ \A f \in LSInFlight' : \/ f \in LSInFlight
                                   \/ \E m \in o.out : m.pkt = f.pkt /\ m.pkt.type = "LS"
         /\ \A f \in LSInFlight : f \in LSInFlight' \/ f = e
         /\ \A m \in o.out : m.pkt.type = "LS" => \E f \in LSInFlight' : Carries(f, r, m)
BY TurnPackets DEF NetInv, LSInFlight, Carries

\* After an event of the simulator, every advertisement in flight was.
LEMMA SimAdverts ==
  ASSUME NetInv, SimNext, NEW f \in LSInFlight'
  PROVE  \E e \in LSInFlight : SamePacket(e, f)
<1>1. PICK e \in InFlight : SamePacket(e, f)
  BY SimPackets DEF NetInv, LSInFlight
<1>2. e \in LSInFlight
  BY <1>1 DEF LSInFlight, SamePacket
<1> QED
  BY <1>1, <1>2

-----------------------------------------------------------------------------
\* One advertisement for each number of an origin.

\* OneContentPerSeq for one pair of copies, and for one copy and one router.
Agrees(e, f) ==
  f.pkt.sourceID = e.pkt.sourceID /\ f.pkt.seqNum = e.pkt.seqNum => f.pkt = e.pkt

Holds(s, pkt) ==
  s.seqTable[pkt.sourceID] = pkt.seqNum => Within(s.costTable[pkt.sourceID], pkt.costTable)

LEMMA ContentParts ==
  OneContentPerSeq <=> \A e \in LSInFlight : /\ \A f \in LSInFlight : Agrees(e, f)
                                             /\ \A r \in Router : Holds(router[r], e.pkt)
BY DEF OneContentPerSeq, Agrees, Holds, Within

LEMMA ContentPartsLater ==
  OneContentPerSeq' <=> \A e \in LSInFlight' : /\ \A f \in LSInFlight' : Agrees(e, f)
                                               /\ \A r \in Router : Holds(router'[r], e.pkt)
BY DEF OneContentPerSeq, Agrees, Holds, Within

\* A router forgets links and no more while the number stays; the copies it issues have a
\* number nobody has seen, and are one packet.
LEMMA OwnContent ==
  ASSUME NetInv, OneContentPerSeq, NEW e, NEW r, NEW o, OwnTurn(e, r, o)
  PROVE  OneContentPerSeq'
<1>1. /\ r \in Router /\ Own(router[r], o, r)
      /\ \A q \in Router : router'[q] = IF q = r THEN o.s ELSE router[q]
  BY TurnRouters DEF OwnTurn
<1>2. \A f \in LSInFlight' : \/ f \in LSInFlight
                             \/ \E m \in o.out : m.pkt = f.pkt /\ m.pkt.type = "LS"
  BY TurnAdverts DEF OwnTurn
<1>3. ASSUME NEW q \in Router, NEW pkt, pkt.sourceID \in Router, Holds(router[q], pkt)
      PROVE  Holds(router'[q], pkt)
  BY <1>1, <1>3 DEF Holds, Own, Remembers, Within
<1>4. ASSUME NEW m \in o.out, m.pkt.type = "LS"
      PROVE  /\ m.pkt.sourceID = r /\ m.pkt.seqNum = router[r].seqNum
             /\ \A k \in o.out : k.pkt.type = "LS" => k.pkt = m.pkt
             /\ \A f \in LSInFlight : f.pkt.sourceID = r => f.pkt.seqNum # m.pkt.seqNum
             /\ \A q \in Router : router'[q].seqTable[r] # m.pkt.seqNum
  <2>1. /\ m.pkt.sourceID = r /\ m.pkt.seqNum = router[r].seqNum
        /\ \A k \in o.out : k.pkt.type = "LS" => k.pkt = m.pkt
    BY <1>1, <1>4 DEF Own
  <2>2. router[r].seqNum \in Nat
    BY <1>1 DEF NetInv, RoutersOK, IsRouter
  <2>3. \A f \in LSInFlight : f.pkt.sourceID = r => f.pkt.seqNum # m.pkt.seqNum
    BY <2>1, <2>2 DEF NetInv, AdvertsOK
  <2>4. ASSUME NEW q \in Router
        PROVE  router'[q].seqTable[r] # m.pkt.seqNum
    <3>1. router[q].seqTable[r] \in Int /\ router[q].seqTable[r] < router[r].seqNum
      BY <1>1 DEF NetInv, RoutersOK, IsRouter, NoSeq
    <3>2. router'[q].seqTable[r] = router[q].seqTable[r]
      BY <1>1 DEF Own, Remembers
    <3> QED
      BY <2>1, <2>2, <3>1, <3>2
  <2> QED
    BY <2>1, <2>3, <2>4
<1>5. ASSUME NEW f \in LSInFlight', NEW g \in LSInFlight'
      PROVE  Agrees(f, g)
  BY <1>2, <1>4, ContentParts DEF Agrees
<1>6. ASSUME NEW f \in LSInFlight', NEW q \in Router
      PROVE  Holds(router'[q], f.pkt)
  <2>1. CASE f \in LSInFlight
    BY <1>3, <2>1, ContentParts DEF NetInv, AdvertsOK
  <2>2. CASE f \notin LSInFlight
    BY <1>2, <1>4, <2>2 DEF Holds
  <2> QED
    BY <2>1, <2>2
<1> QED
  BY <1>5, <1>6, ContentPartsLater

\* A router that takes an advertisement holds just its links, and passes on the same packet.
LEMMA PacketContent ==
  ASSUME NetInv, OneContentPerSeq, NEW e, NEW r, NEW o, PacketTurn(e, r, o)
  PROVE  OneContentPerSeq'
<1>1. /\ r \in Router /\ e \in LSInFlight
      /\ \A q \in Router : router'[q] = IF q = r THEN o.s ELSE router[q]
  BY TurnRouters DEF PacketTurn
<1>2. \A f \in LSInFlight' : \E g \in LSInFlight : f.pkt = g.pkt
  <2>1. \A m \in o.out : m.pkt = e.pkt
    BY DEF PacketTurn, Ignores, Takes, To
  <2> QED
    BY <1>1, <2>1, TurnAdverts DEF PacketTurn
<1>3. \A f \in LSInFlight', g \in LSInFlight' : Agrees(f, g)
  BY <1>2, ContentParts DEF Agrees
<1>4. ASSUME NEW g \in LSInFlight, NEW q \in Router
      PROVE  Holds(router'[q], g.pkt)
  <2>1. Holds(router[q], g.pkt) /\ g.pkt.sourceID \in Router
    BY ContentParts DEF NetInv, AdvertsOK
  <2>2. CASE q # r \/ Ignores(router[r], o, e.pkt)
    BY <1>1, <2>1, <2>2 DEF Ignores
  <2>3. CASE q = r /\ Takes(router[r], o, r, e.dport, e.pkt)
    <3>1. router'[q] = o.s /\ DOMAIN router[r].seqTable = Router
      BY <1>1, <2>3 DEF NetInv, RoutersOK, IsRouter
    <3>2. CASE g.pkt.sourceID = e.pkt.sourceID
      <4>1. /\ o.s.seqTable[g.pkt.sourceID] = e.pkt.seqNum
            /\ o.s.costTable[g.pkt.sourceID] = e.pkt.costTable
        BY <2>1, <2>3, <3>1, <3>2 DEF Takes
      <4>2. Agrees(e, g)
        BY <1>1, ContentParts
      <4> QED
        BY <3>1, <3>2, <4>1, <4>2 DEF Agrees, Holds, Within
    <3>3. CASE g.pkt.sourceID # e.pkt.sourceID
      <4>1. /\ o.s.seqTable[g.pkt.sourceID] = router[r].seqTable[g.pkt.sourceID]
            /\ o.s.costTable[g.pkt.sourceID] = router[r].costTable[g.pkt.sourceID]
        BY <2>1, <2>3, <3>1, <3>3 DEF Takes
      <4> QED
        BY <2>1, <2>3, <3>1, <4>1 DEF Holds
    <3> QED
      BY <3>2, <3>3
  <2> QED
    BY <2>2, <2>3 DEF PacketTurn
<1> QED
  BY <1>2, <1>3, <1>4, ContentPartsLater

LEMMA NextContent == NetInv /\ OneContentPerSeq /\ [Next]_vars => OneContentPerSeq'
<1> SUFFICES ASSUME NetInv, OneContentPerSeq, [Next]_vars PROVE OneContentPerSeq'
  OBVIOUS
<1>1. CASE SimNext /\ UNCHANGED router
  <2>1. \A f \in LSInFlight' : \E e \in LSInFlight : e.pkt = f.pkt
    BY <1>1, SimAdverts DEF SamePacket
  <2>2. \A f \in LSInFlight', g \in LSInFlight' : Agrees(f, g)
    BY <2>1, ContentParts DEF Agrees
  <2> QED
    BY <1>1, <2>1, <2>2, ContentParts, ContentPartsLater
<1>2. CASE RouterNext
  BY <1>2, RouterNextTurns, OwnContent, PacketContent
<1>3. CASE UNCHANGED vars
  BY <1>3 DEF vars, simVars, OneContentPerSeq, LSInFlight, InFlight, Pending
<1> QED
  BY <1>1, <1>2, <1>3 DEF Next, RouterNext

\* An origin and a sequence number stand for one advertisement in any network, whatever
\* overtakes what and however often tables are expired while copies are on their way: a
\* router never holds links of a neighbour that were not in the advertisement whose number
\* it has recorded.
THEOREM ContentIsUnique == Spec => []OneContentPerSeq
<1>1. Init => OneContentPerSeq
  BY InitNetInv DEF OneContentPerSeq
<1> QED
  BY <1>1, NextContent, NetInvHolds, PTL DEF Spec

-----------------------------------------------------------------------------
\* Flooding leaves nobody out.

\* Packet f is an advertisement of o, of at least number n, on its way to b on link l.
Brings(f, b, l, o, n) ==
  /\ f.dest = b /\ f.dport = get_link_port(b, l)
  /\ f.pkt.sourceID = o /\ f.pkt.seqNum >= n

\* FloodingCovers for one end of a link and one origin.
Covered(a, l, o) ==
  LET b == Peer(a, l) IN
  router[b].seqTable[o] < router[a].seqTable[o] =>
    \E f \in LSInFlight : Brings(f, b, l, o, router[a].seqTable[o])

AlwaysAlive(l) == link[l].is_alive /\ link[l].since = NeverChanged

LEMMA CoversParts ==
  FloodingCovers <=>
    (losses = 0 => \A l \in DOMAIN Links : AlwaysAlive(l) =>
       \A a \in {Links[l].node1, Links[l].node2} :
         \A o \in Router \ {a, Peer(a, l)} : Covered(a, l, o))
BY Zenon DEF FloodingCovers, AlwaysAlive, Covered, Brings

LEMMA CoversPartsLater ==
  FloodingCovers' <=>
    (losses' = 0 => \A l \in DOMAIN Links : AlwaysAlive(l)' =>
       \A a \in {Links[l].node1, Links[l].node2} :
         \A o \in Router \ {a, Peer(a, l)} : Covered(a, l, o)')
BY Zenon DEF FloodingCovers, AlwaysAlive, Covered, Brings, Peer, get_link_port, LinksOf

LEMMA EndFacts ==
  ASSUME NEW l \in DOMAIN Links, NEW a \in {Links[l].node1, Links[l].node2}
  PROVE  LET b == Peer(a, l) IN
         /\ a \in Router /\ b \in Router \ {a} /\ Peer(b, l) = a
         /\ get_link_port(a, l) \in Ports[a] /\ get_link_port(b, l) \in Ports[b]
         /\ LinkAt(a, get_link_port(a, l)) = l /\ LinkAt(b, get_link_port(b, l)) = l
<1>1. a \in Router /\ l \in LinksOf(a)
  BY LinksAssumption DEF LinksOf
<1> QED
  BY <1>1, PeerFacts, LinkAtPort

\* A router that hears nothing is as far as it was, and takes no advertisement off a link.
LEMMA OwnCovers ==
  ASSUME NetInv, NEW e, NEW r, NEW o, OwnTurn(e, r, o), NEW l \in DOMAIN Links,
         NEW a \in {Links[l].node1, Links[l].node2}, NEW q \in Router, Covered(a, l, q)
  PROVE  Covered(a, l, q)'
<1> DEFINE b == Peer(a, l)
<1>1. a \in Router /\ b \in Router
  BY EndFacts
<1>2. \A p \in Router : router'[p].seqTable = router[p].seqTable
  BY TurnRouters DEF OwnTurn, Own, Remembers
<1>3. \A f \in LSInFlight : f \in LSInFlight'
  BY TurnAdverts DEF OwnTurn
<1>4. router'[b].seqTable[q] < router'[a].seqTable[q] =>
        \E f \in LSInFlight' : Brings(f, b, l, q, router'[a].seqTable[q])
  BY <1>1, <1>2, <1>3 DEF Covered
<1> QED
  BY <1>4 DEF Covered, Brings, Peer, get_link_port, LinksOf

\* A router that gets an advertisement of q over one link is then as far as the other end
\* of it, and whoever is behind it on another link is sent it there.
LEMMA PacketCovers ==
  ASSUME NetInv, NEW e, NEW r, NEW o, PacketTurn(e, r, o), NEW l \in DOMAIN Links,
         NEW a \in {Links[l].node1, Links[l].node2}, NEW q \in Router \ {a, Peer(a, l)},
         Covered(a, l, q)
  PROVE  Covered(a, l, q)'
<1> DEFINE b == Peer(a, l)
<1>1. /\ a \in Router /\ b \in Router \ {a} /\ Peer(b, l) = a
      /\ get_link_port(a, l) \in Ports[a] /\ LinkAt(a, get_link_port(a, l)) = l
      /\ LinkAt(b, get_link_port(b, l)) = l
  BY EndFacts
<1>2. /\ r \in Router /\ r = e.dest /\ e \in LSInFlight
      /\ \A p \in Router : router'[p] = IF p = r THEN o.s ELSE router[p]
  BY TurnRouters DEF PacketTurn
<1>3. \A p \in Router : /\ router[p].seqTable[q] \in Int /\ router'[p].seqTable[q] \in Int
                        /\ DOMAIN router[p].seqTable = Router
  BY <1>2 DEF PacketTurn, Ignores, Takes, NetInv, RoutersOK, IsRouter, NoSeq
<1>4. /\ e.pkt.seqNum \in Nat /\ e.pkt.sourceID \in Router
      /\ \/ e.pkt.sourceID = Sender(e)
         \/ e.pkt.seqNum <= router[Sender(e)].seqTable[e.pkt.sourceID]
  BY <1>2 DEF NetInv, AdvertsOK
<1>5. \A f \in LSInFlight : f \in LSInFlight' \/ f = e
  BY TurnAdverts DEF PacketTurn
<1> SUFFICES ASSUME router'[b].seqTable[q] < router'[a].seqTable[q]
             PROVE  \E f \in LSInFlight' : Brings(f, b, l, q, router'[a].seqTable[q])
  BY DEF Covered, Brings, Peer, get_link_port, LinksOf
<1>6. CASE Ignores(router[r], o, e.pkt)
  <2>1. \A p \in Router : router'[p] = router[p]
    BY <1>2, <1>6 DEF Ignores
  <2>2. PICK f \in LSInFlight : Brings(f, b, l, q, router[a].seqTable[q])
    BY <1>1, <2>1 DEF Covered
  <2>3. f # e
    BY <1>1, <1>2, <1>3, <1>4, <1>6, <2>1, <2>2 DEF Ignores, Brings
  <2> QED
    BY <1>1, <1>5, <2>1, <2>2, <2>3
<1>7. CASE Takes(router[r], o, r, e.dport, e.pkt)
  <2>1. \A p \in Router : router'[p].seqTable[q] = IF p = r /\ e.pkt.sourceID = q THEN e.pkt.seqNum
                                                  ELSE router[p].seqTable[q]
    BY <1>2, <1>3, <1>7 DEF Takes
  <2>2. router[r].seqTable[e.pkt.sourceID] < e.pkt.seqNum
    BY <1>7 DEF Takes
  <2>3. CASE a = r /\ e.pkt.sourceID = q
    <3>1. router[b].seqTable[q] < e.pkt.seqNum /\ router'[a].seqTable[q] = e.pkt.seqNum
      BY <1>1, <2>1, <2>3
    <3>2. e.dport # get_link_port(a, l)
      <4> SUFFICES ASSUME e.dport = get_link_port(a, l) PROVE FALSE
        OBVIOUS
      <4>1. Sender(e) = b
        BY <1>1, <1>2, <2>3 DEF Sender
      <4> QED
        BY <1>1, <1>3, <1>4, <2>3, <3>1, <4>1
    <3> DEFINE m == To(get_link_port(a, l), e.pkt)
    <3>3. m \in o.out /\ m.pkt.type = "LS" /\ m.port = get_link_port(a, l) /\ m.pkt = e.pkt
      BY <1>1, <1>2, <1>7, <2>3, <3>2 DEF Takes, To, LSInFlight
    <3>4. PICK f \in LSInFlight' : Carries(f, a, m)
      BY <2>3, <3>3, TurnAdverts DEF PacketTurn
    <3>5. Brings(f, b, l, q, e.pkt.seqNum)
      BY <1>1, <1>4, <2>3, <3>3, <3>4 DEF Carries, Brings
    <3> QED
      BY <3>1, <3>5
  <2>4. CASE ~(a = r /\ e.pkt.sourceID = q)
    <3>1. router'[a].seqTable[q] = router[a].seqTable[q]
      BY <1>1, <2>1, <2>4
    <3>2. router[b].seqTable[q] < router[a].seqTable[q]
      BY <1>1, <1>3, <2>1, <2>2, <3>1
    <3>3. PICK f \in LSInFlight : Brings(f, b, l, q, router[a].seqTable[q])
      BY <3>2 DEF Covered
    <3>4. f # e
      <4> SUFFICES ASSUME f = e PROVE FALSE
        OBVIOUS
      <4>1. b = r /\ e.pkt.sourceID = q /\ e.pkt.seqNum >= router[a].seqTable[q]
        BY <1>2, <3>3 DEF Brings
      <4> QED
        BY <1>1, <1>3, <1>4, <2>1, <3>1, <4>1
    <3> QED
      BY <1>5, <3>1, <3>3, <3>4
  <2> QED
    BY <2>3, <2>4
<1> QED
  BY <1>6, <1>7 DEF PacketTurn

\* While the link is alive and nothing is lost, the simulator moves what is on it, and no more.
LEMMA SimCovers ==
  ASSUME NetInv, SimNext, UNCHANGED router, losses' = 0, NEW l \in DOMAIN Links, link[l].is_alive,
         NEW a \in {Links[l].node1, Links[l].node2}, NEW q \in Router, Covered(a, l, q)
  PROVE  Covered(a, l, q)'
<1> DEFINE b == Peer(a, l)
<1>1. LinkAt(b, get_link_port(b, l)) = l
  BY EndFacts
<1>2. ASSUME NEW n, NEW e \in LSInFlight, Brings(e, b, l, q, n)
      PROVE  \E f \in LSInFlight' : Brings(f, b, l, q, n)
  <2>1. e \in InFlight /\ e.pkt.type = "LS" /\ LinkAt(e.dest, e.dport) = l
    BY <1>1, <1>2 DEF LSInFlight, Brings
  <2>2. PICK f \in InFlight' : SamePacket(e, f)
    BY <2>1, SimPackets DEF NetInv
  <2> QED
    BY <1>2, <2>1, <2>2 DEF SamePacket, Brings, LSInFlight
<1> QED
  BY <1>2 DEF Covered, Brings, Peer, get_link_port, LinksOf

LEMMA NextCovers == NetInv /\ FloodingCovers /\ [Next]_vars => FloodingCovers'
<1> SUFFICES ASSUME NetInv, FloodingCovers, [Next]_vars PROVE FloodingCovers'
  OBVIOUS
<1>1. CASE UNCHANGED vars
  BY <1>1 DEF vars, simVars, FloodingCovers, LSInFlight, InFlight, Pending
<1> SUFFICES ASSUME Next, losses' = 0, NEW l \in DOMAIN Links, AlwaysAlive(l)',
                    NEW a \in {Links[l].node1, Links[l].node2}, NEW q \in Router \ {a, Peer(a, l)}
             PROVE  Covered(a, l, q)'
  BY <1>1, CoversPartsLater
<1>2. CASE SimNext /\ UNCHANGED router
  <2>1. link'[l] = link[l]
    BY <1>2, SimLinks DEF NetInv, AlwaysAlive
  <2>2. losses = 0
    BY <1>2, SimLosses DEF NetInv
  <2>3. Covered(a, l, q) /\ link[l].is_alive
    BY <2>1, <2>2, CoversParts DEF AlwaysAlive
  <2> QED
    BY <1>2, <2>3, SimCovers
<1>3. CASE RouterNext
  <2>1. PICK e, r, o : OwnTurn(e, r, o) \/ PacketTurn(e, r, o)
    BY <1>3, RouterNextTurns
  <2>2. UNCHANGED <<link, losses>>
    BY <2>1 DEF OwnTurn, PacketTurn, Turn
  <2>3. Covered(a, l, q)
    BY <2>2, CoversParts DEF AlwaysAlive
  <2> QED
    BY <2>1, <2>3, OwnCovers, PacketCovers
<1> QED
  BY <1>2, <1>3 DEF Next, RouterNext

\* Flooding leaves nobody out of any network, however links of it fail and whatever overtakes
\* what: over a link that stays alive, a router that is behind its neighbour on an origin has
\* the newer advertisement on its way to it there.
THEOREM NobodyLeftOut == Spec => []FloodingCovers
<1>1. Init => FloodingCovers
  <2> SUFFICES ASSUME Init, NEW l \in DOMAIN Links, NEW a \in {Links[l].node1, Links[l].node2},
                      NEW o \in Router
               PROVE  Covered(a, l, o)
    BY CoversParts
  <2>1. a \in Router /\ Peer(a, l) \in Router
    BY EndFacts
  <2>2. router[a].seqTable[o] = NoSeq /\ router[Peer(a, l)].seqTable[o] = NoSeq
    BY <2>1 DEF Init, InitRouter
  <2> QED
    BY <2>2 DEF Covered, NoSeq
<1> QED
  BY <1>1, NextCovers, NetInvHolds, PTL DEF Spec

-----------------------------------------------------------------------------
\* Ports.

PortFields == {"destRouterID", "isUp", "lastUpdate", "timeCost"}

PortsOK(s) ==
  \A p \in DOMAIN s.portStatus :
    DOMAIN s.portStatus[p] = PortFields /\ s.portStatus[p].lastUpdate \in Nat

\* A check at time t is in time for every port of s that is up.
Timely(s, t) ==
  \A p \in UpPorts(s) : t <= s.portStatus[p].lastUpdate + PortLifetime + FreshnessPeriod

\* A handler that runs at time now leaves the checks of the next second in time.
KeepsTimely(s, o, now) ==
  /\ PortsOK(o.s)
  /\ \A t \in Nat : t <= now + FreshnessPeriod /\ Timely(s, t) => Timely(o.s, t)

\* Handlers that leave portStatus alone.
LEMMA SamePorts ==
  ASSUME NEW s, PortsOK(s), NEW o, o.s.portStatus = s.portStatus, NEW now
  PROVE  KeepsTimely(s, o, now)
BY DEF KeepsTimely, PortsOK, Timely, UpPorts

\* They are the answer to a PING, the forwarding of data, the sending of advertisements ...
LEMMA QuietPorts ==
  ASSUME NEW r \in Router, NEW s, IsRouter(s, r), NEW p, NEW pkt, NEW now
  PROVE  /\ \A o \in handlePings(s, p, pkt) : o.s.portStatus = s.portStatus
         /\ \A o \in handleData(s, pkt) : o.s.portStatus = s.portStatus
         /\ SendUpdates(s).s.portStatus = s.portStatus
<1>1. \A o \in handleData(s, pkt) : o.s.portStatus = s.portStatus
  BY DEF handleData, forwardTo, Keep, IsRouter, RouterFields
<1> QED
  BY <1>1 DEF handlePings, SendUpdates, IsRouter, RouterFields

\* ... and what an advertisement of another router causes.
LEMMA PacketPorts ==
  ASSUME NEW r \in Router, NEW s, IsRouter(s, r), NEW p, NEW pkt, pkt.sourceID \in Router,
         pkt.seqNum \in Nat, NEW now, NEW o \in HandlePacket(s, p, pkt, now)
  PROVE  o.s.portStatus = s.portStatus /\ o.s.adjacencyList = s.adjacencyList
<1>1. CASE pkt.seqNum <= s.seqTable[pkt.sourceID]
  BY <1>1 DEF HandlePacket, Keep
<1>2. CASE ~(pkt.seqNum <= s.seqTable[pkt.sourceID])
  <2> DEFINE took == [s EXCEPT !.seqTable[pkt.sourceID] = pkt.seqNum]
             t    == RefreshNodeEntry(took, pkt.sourceID, now)
             w    == [t EXCEPT !.costTable[pkt.sourceID] = pkt.costTable]
  <2>1. PICK u \in {t} \cup UpdateTable(w, now) : o.s = u
    BY <1>2 DEF HandlePacket
  <2>2. /\ IsRouter(took, r)
        /\ took.portStatus = s.portStatus /\ took.adjacencyList = s.adjacencyList
    BY DEF IsRouter, RouterFields
  <2> HIDE DEF took
  <2>3. /\ IsRouter(t, r)
        /\ t.portStatus = s.portStatus /\ t.adjacencyList = s.adjacencyList
    BY <2>2, RefreshKeeps
  <2> HIDE DEF t
  <2>4. /\ IsRouter(w, r)
        /\ w.portStatus = s.portStatus /\ w.adjacencyList = s.adjacencyList
    BY <2>3 DEF IsRouter, RouterFields
  <2> HIDE DEF w
  <2> QED
    BY <2>1, <2>3, <2>4, UpdateTableKeeps
<1> QED
  BY <1>1, <1>2

\* SendUpdates leaves adjacencyList alone too.
LEMMA SendUpdatesAdjacent ==
  ASSUME NEW r \in Router, NEW s, IsRouter(s, r)
  PROVE  SendUpdates(s).s.adjacencyList = s.adjacencyList
BY DEF SendUpdates, IsRouter, RouterFields

\* A PONG writes one entry of both tables.
PongEntry(pkt, now) == [destRouterID |-> pkt.sourceID, isUp |-> TRUE, lastUpdate |-> now,
                        timeCost |-> RoundTripCost(now, pkt.stamp)]

PongWrites(t, s, p, pkt, now) ==
  /\ t.portStatus = Store(s.portStatus, p, PongEntry(pkt, now))
  /\ t.adjacencyList = Store(s.adjacencyList, pkt.sourceID,
                             [port |-> p, timeCost |-> RoundTripCost(now, pkt.stamp)])

LEMMA PongPorts ==
  ASSUME NEW r \in Router, NEW s, IsRouter(s, r), NEW p \in Ports[r], NEW pkt,
         NEW now, NEW o \in handlePongs(s, p, pkt, now)
  PROVE  PongWrites(o.s, s, p, pkt, now)
<1> DEFINE nbr   == pkt.sourceID
           rtt   == RoundTripCost(now, pkt.stamp)
           wasUp == p \in UpPorts(s) /\ nbr \in DOMAIN s.adjacencyList
           t     == [s EXCEPT
                      !.portStatus = Store(@, p, [destRouterID |-> nbr, isUp |-> TRUE,
                                                  lastUpdate |-> now, timeCost |-> rtt]),
                      !.adjacencyList = Store(@, nbr, [port |-> p, timeCost |-> rtt])]
           u     == IF wasUp THEN RefreshNodeEntry(t, nbr, now) ELSE t
<1>1. o \in Keep(u) \cup {SendUpdates(v) : v \in UpdateTable(u, now)}
  BY DEF handlePongs
<1>2. IsRouter(t, r)
  BY DEF IsRouter, RouterFields, Store
<1>3. /\ t.portStatus = Store(s.portStatus, p, PongEntry(pkt, now))
      /\ t.adjacencyList = Store(s.adjacencyList, nbr, [port |-> p, timeCost |-> rtt])
  BY DEF IsRouter, RouterFields, PongEntry
<1> HIDE DEF t
<1>4. IsRouter(u, r) /\ u.portStatus = t.portStatus /\ u.adjacencyList = t.adjacencyList
  BY <1>2, RefreshKeeps
<1> HIDE DEF u
<1>5. o.s.portStatus = t.portStatus /\ o.s.adjacencyList = t.adjacencyList
  <2>1. CASE o \in Keep(u)
    BY <1>4, <2>1 DEF Keep
  <2>2. ASSUME NEW v \in UpdateTable(u, now), o = SendUpdates(v)
        PROVE  o.s.portStatus = t.portStatus /\ o.s.adjacencyList = t.adjacencyList
    <3>1. IsRouter(v, r) /\ v.portStatus = u.portStatus /\ v.adjacencyList = u.adjacencyList
      BY <1>4, UpdateTableKeeps
    <3> QED
      BY <1>4, <2>2, <3>1, QuietPorts, SendUpdatesAdjacent
  <2> QED
    BY <1>1, <2>1, <2>2
<1> QED
  BY <1>3, <1>5 DEF PongWrites

\* So it starts a new lifetime.
LEMMA PongTimely ==
  ASSUME NEW r \in Router, NEW s, IsRouter(s, r), PortsOK(s), NEW p \in Ports[r], NEW pkt,
         NEW now \in Nat, NEW o \in handlePongs(s, p, pkt, now)
  PROVE  KeepsTimely(s, o, now)
<1> DEFINE entry == PongEntry(pkt, now)
<1>1. o.s.portStatus = Store(s.portStatus, p, entry)
  <2>1. PongWrites(o.s, s, p, pkt, now)
    BY PongPorts
  <2> QED
    BY <2>1 DEF PongWrites
<1>2. DOMAIN entry = PortFields /\ entry.lastUpdate = now
  BY DEF PortFields, PongEntry
<1> HIDE DEF entry
<1>3. PortsOK(o.s)
  BY <1>1, <1>2 DEF PortsOK, Store
<1>4. ASSUME NEW time \in Nat, time <= now + FreshnessPeriod, Timely(s, time)
      PROVE  Timely(o.s, time)
  BY <1>1, <1>2, <1>4 DEF Timely, UpPorts, Store, PortLifetime, FreshnessPeriod
<1> QED
  BY <1>3, <1>4 DEF KeepsTimely

\* The check takes down the ports that are too old, and takes their neighbours away.
Down(entry) == [entry EXCEPT !.timeCost = INFINITY_COST, !.isUp = FALSE]

CheckWrites(t, s, dead) ==
  /\ DOMAIN t.portStatus = DOMAIN s.portStatus
  /\ \A p \in DOMAIN s.portStatus :
       t.portStatus[p] = IF p \in dead THEN Down(s.portStatus[p]) ELSE s.portStatus[p]
  /\ \A n \in DOMAIN t.adjacencyList :
       /\ n \in DOMAIN s.adjacencyList
       /\ t.adjacencyList[n] = s.adjacencyList[n]
       /\ \A p \in dead : s.portStatus[p].destRouterID # n

LEMMA CheckPorts ==
  ASSUME NEW r \in Router, NEW s, IsRouter(s, r), NEW now, NEW o \in checkFreshness(s, now)
  PROVE  CheckWrites(o.s, s, DeadPorts(s, now))
<1> DEFINE dead  == DeadPorts(s, now)
           gone  == {s.portStatus[p].destRouterID : p \in dead} \cap DOMAIN s.adjacencyList
           t     == ExpirePorts(s, now)
           sent  == IF dead = {} THEN [s |-> s, out |-> {}] ELSE SendUpdates(t)
           stale == StaleNodes(sent.s, now)
<1>1. /\ IsRouter(t, r)
      /\ DOMAIN t.portStatus = DOMAIN s.portStatus
      /\ \A p \in DOMAIN s.portStatus :
           t.portStatus[p] = IF p \in dead THEN Down(s.portStatus[p]) ELSE s.portStatus[p]
  <2>1. t.portStatus = TakeDown(s, dead).portStatus
    BY DEF ExpirePorts, TakeDown, IsRouter, RouterFields
  <2>2. TakeDown(s, dead).portStatus =
          [p \in DOMAIN s.portStatus |->
            IF p \in dead THEN Down(s.portStatus[p]) ELSE s.portStatus[p]]
    BY DEF TakeDown, Down, IsRouter, RouterFields
  <2>3. IsRouter(t, r)
    BY ExpirePortsContinues DEF Continues
  <2> QED
    BY <2>1, <2>2, <2>3
<1>2. t.adjacencyList = Restrict(s.adjacencyList, DOMAIN s.adjacencyList \ gone)
  BY DEF ExpirePorts, TakeDown, IsRouter, RouterFields
<1> HIDE DEF t
<1>3. \A n \in DOMAIN t.adjacencyList : /\ n \in DOMAIN s.adjacencyList
                                        /\ t.adjacencyList[n] = s.adjacencyList[n]
                                        /\ \A p \in dead : s.portStatus[p].destRouterID # n
  BY <1>2 DEF Restrict
<1>4. CheckWrites(sent.s, s, dead)
  <2>1. CASE dead = {}
    BY <2>1 DEF CheckWrites
  <2>2. CASE dead # {}
    <3>1. sent.s.portStatus = t.portStatus /\ sent.s.adjacencyList = t.adjacencyList
      BY <1>1, <2>2, QuietPorts, SendUpdatesAdjacent
    <3> QED
      BY <1>1, <1>3, <3>1 DEF CheckWrites
  <2> QED
    BY <2>1, <2>2
<1>5. IsRouter(sent.s, r)
  BY <1>1, SendUpdatesOwn DEF Own
<1> HIDE DEF sent, dead
<1>6. o.s.portStatus = sent.s.portStatus /\ o.s.adjacencyList = sent.s.adjacencyList
  <2>1. CASE o = sent
    BY <2>1
  <2>2. CASE o # sent
    <3>1. PICK u \in UpdateTable(ExpireNodes(sent.s, stale), now) : o.s = u
      BY <2>2 DEF checkFreshness, sent, dead, t
    <3>2. LET t1 == ExpireNodes(sent.s, stale)
          IN  /\ IsRouter(t1, r)
              /\ t1.portStatus = sent.s.portStatus /\ t1.adjacencyList = sent.s.adjacencyList
      BY <1>5, ExpireNodesContinues DEF Continues
    <3> QED
      BY <3>1, <3>2, UpdateTableKeeps
  <2> QED
    BY <2>1, <2>2
<1> QED
  BY <1>4, <1>6 DEF CheckWrites, dead

\* So every port is young enough for the next check.
LEMMA FreshnessTimely ==
  ASSUME NEW r \in Router, NEW s, IsRouter(s, r), PortsOK(s), NEW now \in Nat,
         NEW o \in checkFreshness(s, now)
  PROVE  PortsOK(o.s) /\ Timely(o.s, now + FreshnessPeriod)
<1> DEFINE dead == DeadPorts(s, now)
<1>1. /\ DOMAIN o.s.portStatus = DOMAIN s.portStatus
      /\ \A p \in DOMAIN s.portStatus :
           o.s.portStatus[p] = IF p \in dead THEN Down(s.portStatus[p]) ELSE s.portStatus[p]
  BY CheckPorts DEF CheckWrites
<1>2. \A p \in DOMAIN s.portStatus \ dead : now <= s.portStatus[p].lastUpdate + PortLifetime
  BY DEF DeadPorts, PortsOK, PortLifetime
<1> HIDE DEF dead
<1>3. ASSUME NEW p \in DOMAIN o.s.portStatus
      PROVE  /\ DOMAIN o.s.portStatus[p] = PortFields
             /\ o.s.portStatus[p].lastUpdate \in Nat
             /\ o.s.portStatus[p].isUp =>
                  now <= o.s.portStatus[p].lastUpdate + PortLifetime
  <2>1. p \in DOMAIN s.portStatus
    BY <1>1
  <2>2. DOMAIN s.portStatus[p] = PortFields /\ s.portStatus[p].lastUpdate \in Nat
    BY <2>1 DEF PortsOK
  <2>3. CASE p \in dead
    <3>1. o.s.portStatus[p] = Down(s.portStatus[p])
      BY <1>1, <2>1, <2>3
    <3> QED
      BY <2>2, <3>1 DEF Down, PortFields
  <2>4. CASE p \notin dead
    BY <1>1, <1>2, <2>1, <2>2, <2>4
  <2> QED
    BY <2>3, <2>4
<1>4. FreshnessPeriod \in Nat /\ PortLifetime \in Nat
  BY DEF FreshnessPeriod, PortLifetime
<1>5. PortsOK(o.s)
  BY <1>3 DEF PortsOK
<1>6. Timely(o.s, now + FreshnessPeriod)
  BY <1>3, <1>4 DEF Timely, UpPorts
<1> QED
  BY <1>5, <1>6

\* Whatever event a router handles, the checks to come are in time: its own next one, when
\* the event is its check, and any of the next second, when it is not.
LEMMA HandledTimely ==
  ASSUME NEW r \in Router, NEW s, IsRouter(s, r), PortsOK(s), NEW e, NEW o, Handled(s, e, r, o),
         e.time \in Nat, e.kind = "Recv" => e.dport \in Ports[e.dest],
         e.kind = "Recv" /\ e.pkt.type = "LS" => e.pkt.sourceID \in Router /\ e.pkt.seqNum \in Nat
  PROVE  IF AlarmOf(e, r, "Freshness")
         THEN PortsOK(o.s) /\ Timely(o.s, e.time + FreshnessPeriod)
         ELSE KeepsTimely(s, o, e.time)
<1>1. CASE e.kind = "XmitEndToEnd"
  BY <1>1, QuietPorts, SamePorts DEF Handled, AlarmOf
<1>2. CASE e.kind = "Recv"
  <2>1. CASE e.pkt.type \in {"PING", "DATA"}
    <3>1. o.s.portStatus = s.portStatus
      BY <1>2, <2>1, QuietPorts DEF Handled
    <3> QED
      BY <1>2, <3>1, SamePorts DEF AlarmOf
  <2>2. CASE e.pkt.type = "PONG"
    BY <1>2, <2>2, PongTimely DEF Handled, AlarmOf
  <2>3. CASE e.pkt.type = "LS"
    BY <1>2, <2>3, PacketPorts, SamePorts DEF Handled, AlarmOf
  <2> QED
    BY <1>2, <2>1, <2>2, <2>3 DEF Handled
<1>3. CASE e.kind = "Alarm"
  <2>1. CASE e.type = "Freshness"
    BY <1>3, <2>1, FreshnessTimely DEF Handled, AlarmOf
  <2>2. CASE e.type # "Freshness"
    BY <1>3, <2>2, QuietPorts, SamePorts DEF Handled, AlarmOf
  <2> QED
    BY <2>1, <2>2
<1> QED
  BY <1>1, <1>2, <1>3 DEF Handled

-----------------------------------------------------------------------------
\* The network.

\* Every port that is up will be checked before it is more than a second too old.
ChecksTimely ==
  /\ \A r \in Router : PortsOK(router[r])
  /\ \A r \in Router : \A e \in Pending : AlarmOf(e, r, "Freshness") => Timely(router[r], e.time)

\* The invariant of the timers, inductive beside NetInv.
TimerInv == OneAlarmEach /\ ChecksTimely

\* Router r handles e, and when e is its check, takes down what is too old.
LEMMA TurnTimely ==
  ASSUME NetInv, TimerInv, NEW e, NEW r, NEW o, Turn(e, r, o),
         IF AlarmOf(e, r, "Freshness")
         THEN PortsOK(o.s) /\ Timely(o.s, e.time + FreshnessPeriod)
         ELSE KeepsTimely(router[r], o, e.time)
  PROVE  TimerInv'
<1> DEFINE new == XmitEvents(r, o.out, e.time) \cup SetAgain(e)
<1>1. /\ e \in Top(event_q) /\ r \in Router /\ Dispatch(e, new) /\ global_time' = e.time
      /\ e.kind = "Alarm" => e.router = r
  BY DEF Turn, Dispatch
<1>2. OneAlarmEach'
  BY TurnAlarms DEF NetInv, TimerInv
<1>3. EventFits(e, global_time) /\ e.time \in Nat
  BY <1>1, TopFacts DEF NetInv, SimInv, EventFits
<1>4. \A q \in Router : router'[q] = IF q = r THEN o.s ELSE router[q]
  BY DEF Turn, NetInv, RoutersOK
<1>5. \A q \in Router : PortsOK(router'[q])
  BY <1>4 DEF TimerInv, ChecksTimely, KeepsTimely
<1>6. \A f \in new : f.kind = "Alarm" => f \in SetAgain(e)
  BY XmitFacts
<1>7. Pending' \subseteq Pending \cup new /\ new \subseteq Pending'
  BY <1>1, DispatchPending DEF Pending
<1> HIDE DEF new
<1>8. "Freshness" \in AlarmTypes /\ Period["Freshness"] = FreshnessPeriod
  BY DEF AlarmTypes, Period
<1>9. ASSUME NEW q \in Router, NEW f \in Pending', AlarmOf(f, q, "Freshness")
      PROVE  Timely(router'[q], f.time)
  <2>1. CASE q = r /\ AlarmOf(e, r, "Freshness")
    <3> DEFINE a == AlarmEvent(r, "Freshness", e.time, FreshnessPeriod)
    <3>1. a \in SetAgain(e)
      BY <1>8, <2>1 DEF SetAgain, Again, AlarmOf
    <3>2. a.time = e.time + FreshnessPeriod /\ AlarmOf(a, r, "Freshness")
      BY DEF AlarmOf, AlarmEvent
    <3> HIDE DEF a
    <3>3. a \in Pending'
      BY <1>7, <3>1 DEF new
    <3>4. f = a
      BY <1>2, <1>8, <1>9, <2>1, <3>2, <3>3 DEF OneAlarmEach, AlarmOf
    <3> QED
      BY <1>4, <2>1, <3>2, <3>4
  <2>2. CASE ~(q = r /\ AlarmOf(e, r, "Freshness"))
    <3>1. f \in Pending
      <4>1. f \notin SetAgain(e)
        BY <1>1, <1>3, <1>9, <2>2, AgainFacts DEF SetAgain, AlarmOf
      <4> QED
        BY <1>6, <1>7, <1>9, <4>1 DEF AlarmOf
    <3>2. Timely(router[q], f.time)
      BY <1>9, <3>1 DEF TimerInv, ChecksTimely
    <3>3. CASE q # r
      BY <1>4, <3>2, <3>3
    <3>4. CASE q = r
      <4>1. KeepsTimely(router[r], o, e.time)
        BY <2>2, <3>4
      <4>2. f.time \in Nat
        BY <3>1 DEF NetInv, SimInv, EventFits
      <4>3. f.time <= e.time + FreshnessPeriod
        BY <1>1, <1>2, <1>8, <1>9, <3>4 DEF OneAlarmEach, AlarmOf
      <4> QED
        BY <1>4, <3>2, <3>4, <4>1, <4>2, <4>3 DEF KeepsTimely
    <3> QED
      BY <3>3, <3>4
  <2> QED
    BY <2>1, <2>2
<1> QED
  BY <1>2, <1>5, <1>9 DEF TimerInv, ChecksTimely

LEMMA RouterNextTimely ==
  ASSUME NetInv, TimerInv, RouterNext
  PROVE  TimerInv'
<1>1. PICK e, r, o : Turn(e, r, o) /\ Handled(router[r], e, r, o)
  BY RouterNextHandled DEF NetInv
<1>2. /\ r \in Router /\ e \in Pending /\ EventFits(e, global_time)
      /\ IsRouter(router[r], r) /\ PortsOK(router[r])
  BY <1>1, TopFacts DEF Turn, NetInv, SimInv, RoutersOK, TimerInv, ChecksTimely
<1>3. /\ e.time \in Nat
      /\ e.kind = "Recv" => e.dport \in Ports[e.dest]
      /\ e.kind = "Recv" /\ e.pkt.type = "LS" => e.pkt.sourceID \in Router /\ e.pkt.seqNum \in Nat
  BY <1>2 DEF EventFits, NetInv, AdvertsOK, LSInFlight, InFlight
<1> QED
  BY <1>1, <1>2, <1>3, HandledTimely, TurnTimely

\* The simulator's own events neither ring nor set an alarm.
LEMMA SimTimely ==
  ASSUME NetInv, TimerInv, SimNext, UNCHANGED router
  PROVE  TimerInv'
BY SimAlarms DEF NetInv, TimerInv, ChecksTimely, AlarmOf

\* Every router starts with one alarm of each type and no port.
LEMMA InitTimely == Init => TimerInv
BY InitNetInv DEF Init, InitRouter, TimerInv, ChecksTimely, PortsOK, Timely, UpPorts

LEMMA NextTimely == NetInv /\ TimerInv /\ [Next]_vars => TimerInv'
<1> SUFFICES ASSUME NetInv, TimerInv, [Next]_vars PROVE TimerInv'
  OBVIOUS
<1>1. CASE SimNext /\ UNCHANGED router
  BY <1>1, SimTimely
<1>2. CASE RouterNext
  BY <1>2, RouterNextTimely
<1>3. CASE UNCHANGED vars
  BY <1>3 DEF vars, simVars, TimerInv, OneAlarmEach, ChecksTimely, Pending
<1> QED
  BY <1>1, <1>2, <1>3 DEF Next, RouterNext

LEMMA TimerInvHolds == Spec => []TimerInv
BY InitTimely, NextTimely, NetInvHolds, PTL DEF Spec

-----------------------------------------------------------------------------
\* PINGs and PONGs.

\* What a router sends of them: its PINGs when the alarm rings, and the answer to a PING.
LEMMA HandledProbes ==
  ASSUME NEW r \in Router, NEW s, IsRouter(s, r), NEW e, NEW o, Handled(s, e, r, o)
  PROVE  ProbesSent(e, r, o.out)
<1>1. \A t : \A m \in SendUpdates(t).out : m.pkt.type = "LS"
  BY DEF SendUpdates, CreatePacket, To
<1>2. ASSUME \A m \in o.out : m.pkt.type \notin {"PING", "PONG"}
      PROVE  ProbesSent(e, r, o.out)
  BY <1>2 DEF ProbesSent
<1>3. ASSUME NEW pkt, pkt.type = "DATA", o \in handleData(s, pkt)
      PROVE  ProbesSent(e, r, o.out)
  <2>1. \A m \in o.out : m.pkt = pkt
    BY <1>3 DEF handleData, forwardTo, Keep, To
  <2> QED
    BY <1>2, <1>3, <2>1
<1>4. CASE e.kind = "XmitEndToEnd"
  BY <1>3, <1>4 DEF Handled
<1>5. CASE e.kind = "Recv"
  <2>1. CASE e.pkt.type = "PING"
    BY <1>5, <2>1 DEF Handled, handlePings, To, ProbesSent, IsRouter
  <2>2. CASE e.pkt.type = "PONG"
    <3>1. o.out = {} \/ \E t : o = SendUpdates(t)
      BY <1>5, <2>2 DEF Handled, handlePongs, Keep
    <3> QED
      BY <1>1, <1>2, <3>1
  <2>3. CASE e.pkt.type = "DATA"
    BY <1>3, <1>5, <2>3 DEF Handled
  <2>4. CASE e.pkt.type = "LS"
    <3>1. \A m \in o.out : m.pkt = e.pkt
      BY <1>5, <2>4 DEF Handled, HandlePacket, FloodUpdates, Keep, To
    <3> QED
      BY <1>2, <2>4, <3>1
  <2> QED
    BY <1>5, <2>1, <2>2, <2>3, <2>4 DEF Handled
<1>6. CASE e.kind = "Alarm"
  <2>1. CASE e.type = "PingPong"
    BY <1>6, <2>1 DEF Handled, sendPings, To, ProbesSent, IsRouter
  <2>2. CASE e.type = "Update"
    BY <1>1, <1>2, <1>6, <2>2 DEF Handled
  <2>3. CASE e.type = "Freshness"
    <3>1. o.out = {} \/ \E t : o.out = SendUpdates(t).out
      BY <1>6, <2>3 DEF Handled, checkFreshness
    <3> QED
      BY <1>1, <1>2, <3>1
  <2> QED
    BY <1>6, <2>1, <2>2, <2>3 DEF Handled
<1> QED
  BY <1>4, <1>5, <1>6 DEF Handled

LEMMA NextProbes ==
  ASSUME NetInv, ProbesOK, [Next]_vars
  PROVE  /\ ProbesOK'
         /\ \A D \in Nat : ProbesInTime(D) => ProbesInTime(D)'
<1>1. CASE SimNext /\ UNCHANGED router
  BY <1>1, SimProbes, SimProbesInTime DEF NetInv
<1>2. CASE RouterNext
  <2>1. PICK e, r, o : Turn(e, r, o) /\ Handled(router[r], e, r, o)
    BY <1>2, RouterNextHandled DEF NetInv
  <2>2. r \in Router /\ IsRouter(router[r], r)
    BY <2>1 DEF Turn, NetInv, RoutersOK
  <2>3. ProbesSent(e, r, o.out)
    BY <2>1, <2>2, HandledProbes
  <2>4. \A m \in o.out : m.port \in Ports[r]
    BY <2>1, HandledPorts DEF NetInv
  <2> QED
    BY <2>1, <2>3, <2>4, TurnProbes DEF NetInv
<1>3. CASE UNCHANGED vars
  BY <1>3 DEF vars, simVars, ProbesOK, ProbesInTime, DelaysWithin, ProbeOK, Sender, InFlight, Pending
<1> QED
  BY <1>1, <1>2, <1>3 DEF Next, RouterNext

LEMMA ProbesHold == Spec => []ProbesOK
BY InitNetInv, NextProbes, NetInvHolds, PTL DEF Spec

-----------------------------------------------------------------------------
\* Neighbours.

\* What adjacencyList[hop] makes of a next hop that is not there.
MadeUp == [port |-> 0, timeCost |-> 0]

\* Entry n of adjacencyList repeats what portStatus says of a port that is up.
Backs(s, n) ==
  LET a == s.adjacencyList[n] IN
  /\ a.port \in UpPorts(s)
  /\ s.portStatus[a.port].destRouterID = n
  /\ s.portStatus[a.port].timeCost = a.timeCost

\* Every port leads where its link does, and every neighbour is one.
NeighboursOK(s, r) ==
  /\ \A p \in DOMAIN s.portStatus : s.portStatus[p].destRouterID = Peer(r, LinkAt(r, p))
  /\ \A n \in DOMAIN s.adjacencyList : s.adjacencyList[n] = MadeUp \/ Backs(s, n)

\* No neighbour is further than two crossings of a link of delay D.
MeasuredWithin(s, D) ==
  \A n \in DOMAIN s.adjacencyList :
    s.adjacencyList[n].timeCost \in Nat /\ s.adjacencyList[n].timeCost <= D + D

\* A handler that leaves both tables alone, or makes an entry up.
LEMMA SameNeighbours ==
  ASSUME NEW s, NEW r, NEW t, t.portStatus = s.portStatus,
         \A n \in DOMAIN t.adjacencyList :
           \/ t.adjacencyList[n] = MadeUp
           \/ n \in DOMAIN s.adjacencyList /\ t.adjacencyList[n] = s.adjacencyList[n]
  PROVE  /\ NeighboursOK(s, r) => NeighboursOK(t, r)
         /\ \A D \in Nat : MeasuredWithin(s, D) => MeasuredWithin(t, D)
BY DEF NeighboursOK, MeasuredWithin, Backs, UpPorts, MadeUp

LEMMA DataNeighbours ==
  ASSUME NEW r \in Router, NEW s, IsRouter(s, r), NEW pkt, NEW o \in handleData(s, pkt),
         NEW n \in DOMAIN o.s.adjacencyList
  PROVE  \/ o.s.adjacencyList[n] = MadeUp
         \/ n \in DOMAIN s.adjacencyList /\ o.s.adjacencyList[n] = s.adjacencyList[n]
BY DEF handleData, forwardTo, Keep, Store, MadeUp, IsRouter, RouterFields

\* A PONG from where the port leads to.
LEMMA PongNeighbours ==
  ASSUME NEW r \in Router, NEW s, NeighboursOK(s, r), NEW p \in Ports[r], NEW pkt, NEW now,
         NEW t, PongWrites(t, s, p, pkt, now), pkt.sourceID = Peer(r, LinkAt(r, p))
  PROVE  NeighboursOK(t, r)
<1> DEFINE entry == PongEntry(pkt, now)
<1>1. /\ entry.destRouterID = pkt.sourceID /\ entry.isUp
      /\ entry.timeCost = RoundTripCost(now, pkt.stamp)
  BY DEF PongEntry
<1>2. /\ DOMAIN t.portStatus = DOMAIN s.portStatus \cup {p}
      /\ \A q \in DOMAIN t.portStatus :
           t.portStatus[q] = IF q = p THEN entry ELSE s.portStatus[q]
  BY DEF PongWrites, Store
<1>3. /\ DOMAIN t.adjacencyList = DOMAIN s.adjacencyList \cup {pkt.sourceID}
      /\ \A n \in DOMAIN t.adjacencyList :
           t.adjacencyList[n] = IF n = pkt.sourceID
                                THEN [port |-> p, timeCost |-> RoundTripCost(now, pkt.stamp)]
                                ELSE s.adjacencyList[n]
  BY DEF PongWrites, Store
<1> HIDE DEF entry
<1>4. \A q \in DOMAIN t.portStatus : t.portStatus[q].destRouterID = Peer(r, LinkAt(r, q))
  BY <1>1, <1>2 DEF NeighboursOK
<1>5. ASSUME NEW n \in DOMAIN t.adjacencyList
      PROVE  t.adjacencyList[n] = MadeUp \/ Backs(t, n)
  <2>1. CASE n = pkt.sourceID
    BY <1>1, <1>2, <1>3, <2>1 DEF Backs, UpPorts
  <2>2. CASE n # pkt.sourceID
    <3>1. t.adjacencyList[n] = s.adjacencyList[n] /\ n \in DOMAIN s.adjacencyList
      BY <1>3, <2>2
    <3>2. CASE Backs(s, n)
      <4>1. s.adjacencyList[n].port # p
        BY <2>2, <3>2 DEF NeighboursOK, Backs, UpPorts
      <4> QED
        BY <1>2, <3>1, <3>2, <4>1 DEF Backs, UpPorts
    <3> QED
      BY <3>1, <3>2 DEF NeighboursOK
  <2> QED
    BY <2>1, <2>2
<1> QED
  BY <1>4, <1>5 DEF NeighboursOK

\* The check.
LEMMA CheckNeighbours ==
  ASSUME NEW r, NEW s, PortsOK(s), NeighboursOK(s, r), NEW dead, NEW t, CheckWrites(t, s, dead)
  PROVE  NeighboursOK(t, r)
<1>1. \A p \in DOMAIN s.portStatus : /\ p \in DOMAIN t.portStatus
                                     /\ t.portStatus[p].destRouterID = s.portStatus[p].destRouterID
                                     /\ p \notin dead => t.portStatus[p] = s.portStatus[p]
  BY DEF PortsOK, PortFields, CheckWrites, Down
<1>2. \A p \in DOMAIN t.portStatus : t.portStatus[p].destRouterID = Peer(r, LinkAt(r, p))
  BY <1>1 DEF CheckWrites, NeighboursOK
<1>3. ASSUME NEW n \in DOMAIN t.adjacencyList
      PROVE  t.adjacencyList[n] = MadeUp \/ Backs(t, n)
  <2>1. /\ n \in DOMAIN s.adjacencyList /\ t.adjacencyList[n] = s.adjacencyList[n]
        /\ \A p \in dead : s.portStatus[p].destRouterID # n
    BY DEF CheckWrites
  <2>2. CASE Backs(s, n)
    BY <1>1, <2>1, <2>2 DEF Backs, UpPorts
  <2> QED
    BY <2>1, <2>2 DEF NeighboursOK
<1> QED
  BY <1>2, <1>3 DEF NeighboursOK

\* Every handler keeps the neighbours in order, and their costs in bounds.
LEMMA HandledNeighbours ==
  ASSUME NEW r \in Router, NEW s, IsRouter(s, r), PortsOK(s), NeighboursOK(s, r),
         NEW e, NEW o, Handled(s, e, r, o),
         e.kind = "Recv" => e.dport \in Ports[e.dest],
         e.kind = "Recv" /\ e.pkt.type = "LS" => e.pkt.sourceID \in Router /\ e.pkt.seqNum \in Nat,
         e.kind = "Recv" /\ e.pkt.type = "PONG" =>
           /\ e.pkt.sourceID = Peer(r, LinkAt(r, e.dport))
           /\ e.time \in Nat /\ e.pkt.stamp \in Nat /\ e.pkt.stamp <= e.time
  PROVE  /\ NeighboursOK(o.s, r)
         /\ \A D \in Nat :
              /\ D + D < 65536 /\ MeasuredWithin(s, D)
              /\ e.kind = "Recv" /\ e.pkt.type = "PONG" => e.time - e.pkt.stamp <= D + D
              => MeasuredWithin(o.s, D)
<1> DEFINE Same(t) == t.portStatus = s.portStatus /\ t.adjacencyList = s.adjacencyList
           Conclusion ==
             /\ NeighboursOK(o.s, r)
             /\ \A D \in Nat :
                  /\ D + D < 65536 /\ MeasuredWithin(s, D)
                  /\ e.kind = "Recv" /\ e.pkt.type = "PONG" => e.time - e.pkt.stamp <= D + D
                  => MeasuredWithin(o.s, D)
<1>1. ASSUME Same(o.s) PROVE Conclusion
  <2>1. /\ NeighboursOK(s, r) => NeighboursOK(o.s, r)
        /\ \A D \in Nat : MeasuredWithin(s, D) => MeasuredWithin(o.s, D)
    BY <1>1, SameNeighbours
  <2> QED
    BY <2>1
<1>2. ASSUME NEW pkt, o \in handleData(s, pkt) PROVE Conclusion
  <2>1. o.s.portStatus = s.portStatus
    BY <1>2, QuietPorts
  <2>2. \A n \in DOMAIN o.s.adjacencyList :
          \/ o.s.adjacencyList[n] = MadeUp
          \/ n \in DOMAIN s.adjacencyList /\ o.s.adjacencyList[n] = s.adjacencyList[n]
    BY <1>2, DataNeighbours
  <2>3. /\ NeighboursOK(s, r) => NeighboursOK(o.s, r)
        /\ \A D \in Nat : MeasuredWithin(s, D) => MeasuredWithin(o.s, D)
    BY <2>1, <2>2, SameNeighbours
  <2> QED
    BY <2>3
<1>3. CASE e.kind = "XmitEndToEnd"
  BY <1>2, <1>3 DEF Handled
<1>4. CASE e.kind = "Recv"
  <2>1. CASE e.pkt.type = "PING"
    BY <1>1, <1>4, <2>1 DEF Handled, handlePings
  <2>2. CASE e.pkt.type = "PONG"
    <3> DEFINE rtt == RoundTripCost(e.time, e.pkt.stamp)
    <3>1. o \in handlePongs(s, e.dport, e.pkt, e.time) /\ e.dport \in Ports[r]
      BY <1>4, <2>2 DEF Handled
    <3>2. PongWrites(o.s, s, e.dport, e.pkt, e.time)
      BY <3>1, PongPorts
    <3>3. NeighboursOK(o.s, r)
      BY <1>4, <2>2, <3>1, <3>2, PongNeighbours
    <3>4. ASSUME NEW D \in Nat, D + D < 65536, MeasuredWithin(s, D), e.time - e.pkt.stamp <= D + D
          PROVE  MeasuredWithin(o.s, D)
      <4>1. rtt \in Nat /\ rtt <= D + D
        <5>1. e.time - e.pkt.stamp \in Nat /\ e.time - e.pkt.stamp < 65536
          BY <1>4, <2>2, <3>4
        <5> QED
          BY <3>4, <5>1 DEF RoundTripCost, AsCost
      <4> HIDE DEF rtt
      <4>2. \A n \in DOMAIN o.s.adjacencyList :
              \/ o.s.adjacencyList[n].timeCost = rtt
              \/ n \in DOMAIN s.adjacencyList /\ o.s.adjacencyList[n] = s.adjacencyList[n]
        BY <3>2 DEF PongWrites, Store, rtt
      <4> QED
        BY <3>4, <4>1, <4>2 DEF MeasuredWithin
    <3> QED
      BY <1>4, <2>2, <3>3, <3>4
  <2>3. CASE e.pkt.type = "DATA"
    BY <1>2, <1>4, <2>3 DEF Handled
  <2>4. CASE e.pkt.type = "LS"
    BY <1>1, <1>4, <2>4, PacketPorts DEF Handled
  <2> QED
    BY <1>4, <2>1, <2>2, <2>3, <2>4 DEF Handled
<1>5. CASE e.kind = "Alarm"
  <2>1. CASE e.type = "PingPong"
    BY <1>1, <1>5, <2>1 DEF Handled
  <2>2. CASE e.type = "Update"
    BY <1>1, <1>5, <2>2, QuietPorts, SendUpdatesAdjacent DEF Handled
  <2>3. CASE e.type = "Freshness"
    <3>1. CheckWrites(o.s, s, DeadPorts(s, e.time))
      BY <1>5, <2>3, CheckPorts DEF Handled
    <3>2. NeighboursOK(o.s, r)
      BY <3>1, CheckNeighbours
    <3>3. \A D \in Nat : MeasuredWithin(s, D) => MeasuredWithin(o.s, D)
      BY <3>1 DEF CheckWrites, MeasuredWithin
    <3> QED
      BY <3>2, <3>3
  <2> QED
    BY <1>5, <2>1, <2>2, <2>3 DEF Handled
<1> QED
  BY <1>3, <1>4, <1>5 DEF Handled

Neighbours == \A r \in Router : NeighboursOK(router[r], r)
CostsWithin(D) == \A r \in Router : MeasuredWithin(router[r], D)

LEMMA NextNeighbours ==
  ASSUME NetInv, TimerInv, ProbesOK, Neighbours, [Next]_vars
  PROVE  /\ Neighbours'
         /\ \A D \in Nat : D + D < 65536 /\ ProbesInTime(D) /\ CostsWithin(D) => CostsWithin(D)'
<1>1. CASE UNCHANGED router
  BY <1>1 DEF Neighbours, CostsWithin
<1>2. CASE RouterNext
  <2>1. PICK e, r, o : Turn(e, r, o) /\ Handled(router[r], e, r, o)
    BY <1>2, RouterNextHandled DEF NetInv
  <2>2. /\ r \in Router /\ e \in Pending /\ EventFits(e, global_time)
        /\ IsRouter(router[r], r) /\ PortsOK(router[r]) /\ NeighboursOK(router[r], r)
    BY <2>1, TopFacts DEF Turn, NetInv, SimInv, RoutersOK, TimerInv, ChecksTimely, Neighbours
  <2>3. /\ e.time \in Nat
        /\ e.kind = "Recv" => e.dport \in Ports[e.dest]
        /\ e.kind = "Recv" /\ e.pkt.type = "LS" => e.pkt.sourceID \in Router /\ e.pkt.seqNum \in Nat
    BY <2>2 DEF EventFits, NetInv, AdvertsOK, LSInFlight, InFlight
  <2>4. e.kind = "Recv" => e \in InFlight /\ r = e.dest
    BY <2>1, <2>2 DEF InFlight, Handled
  <2>5. e.kind = "Recv" /\ e.pkt.type = "PONG" =>
          /\ e.pkt.sourceID = Peer(r, LinkAt(r, e.dport))
          /\ e.time \in Nat /\ e.pkt.stamp \in Nat /\ e.pkt.stamp <= e.time
    BY <2>3, <2>4 DEF ProbesOK, ProbeOK, Sender
  <2>6. /\ NeighboursOK(o.s, r)
        /\ \A D \in Nat :
              /\ D + D < 65536 /\ MeasuredWithin(router[r], D)
              /\ e.kind = "Recv" /\ e.pkt.type = "PONG" => e.time - e.pkt.stamp <= D + D
              => MeasuredWithin(o.s, D)
    BY <2>1, <2>2, <2>3, <2>5, HandledNeighbours
  <2>7. \A q \in Router : router'[q] = IF q = r THEN o.s ELSE router[q]
    BY <2>1 DEF Turn, NetInv, RoutersOK
  <2>8. \A D \in Nat : ProbesInTime(D) /\ e.kind = "Recv" /\ e.pkt.type = "PONG" =>
                         e.time - e.pkt.stamp <= D + D
    BY <2>4 DEF ProbesInTime, InTime
  <2> QED
    BY <2>2, <2>6, <2>7, <2>8 DEF Neighbours, CostsWithin
<1> QED
  BY <1>1, <1>2 DEF Next, RouterNext, vars

-----------------------------------------------------------------------------
\* No handler loses its alarm or sets it twice, in any network and any order of
\* simultaneous events: each router always has one PingPong, one Update and one
\* Freshness alarm pending, at most a period away.
THEOREM AlarmsKeepRinging == Spec => []OneAlarmEach
BY TimerInvHolds, PTL DEF TimerInv

\* A port that has not had a PONG for more than 16 s is down, in any network: that long
\* at most, a router goes on sending advertisements to a neighbour that is silent.
THEOREM SilentPortsGoDown == Spec => []UpPortsFresh
<1>1. NetInv /\ TimerInv => UpPortsFresh
  <2> SUFFICES ASSUME NetInv, TimerInv, NEW r \in Router, NEW p \in UpPorts(router[r])
               PROVE  global_time - router[r].portStatus[p].lastUpdate
                        <= PortLifetime + FreshnessPeriod
    BY DEF UpPortsFresh
  <2>1. PICK e \in Pending : AlarmOf(e, r, "Freshness")
    BY DEF TimerInv, OneAlarmEach, AlarmOf, AlarmTypes
  <2>2. e.time <= router[r].portStatus[p].lastUpdate + PortLifetime + FreshnessPeriod
    BY <2>1 DEF TimerInv, ChecksTimely, Timely
  <2>3. e.time \in Nat /\ global_time \in Nat /\ global_time <= e.time
    BY DEF NetInv, SimInv, SimTypeOK, EventFits
  <2>4. router[r].portStatus[p].lastUpdate \in Nat
    BY DEF TimerInv, ChecksTimely, PortsOK, UpPorts
  <2> QED
    BY <2>2, <2>3, <2>4 DEF PortLifetime, FreshnessPeriod
<1> QED
  BY <1>1, NetInvHolds, TimerInvHolds, PTL

\* adjacencyList and portStatus are kept apart but agree, in any network and after any
\* failures, as long as no data packet has been for a next hop that is not a neighbour:
\* forwardTo then makes up a neighbour at no cost.  Whether it has or not, every
\* entry that is not made up agrees with its port.
THEOREM NeighboursAgree ==
  Spec => []((\A r \in Router : \A n \in DOMAIN router[r].adjacencyList :
                router[r].adjacencyList[n] # MadeUp) => AdjacencyBacked)
<1>1. Init => Neighbours
  BY DEF Init, InitRouter, Neighbours, NeighboursOK
<1>2. NetInv /\ TimerInv /\ ProbesOK /\ Neighbours /\ [Next]_vars => Neighbours'
  BY NextNeighbours
<1>3. Neighbours =>
        ((\A r \in Router : \A n \in DOMAIN router[r].adjacencyList :
            router[r].adjacencyList[n] # MadeUp) => AdjacencyBacked)
  BY DEF Neighbours, NeighboursOK, Backs, AdjacencyBacked
<1> QED
  BY <1>1, <1>2, <1>3, NetInvHolds, TimerInvHolds, ProbesHold, PTL DEF Spec

\* No cost that is advertised is the infinite one, which CreatePacket asserts, in any
\* network whose links never take more than 32767 ms: a round trip is then no longer
\* than a cost can say.
THEOREM AdvertisedFinite ==
  ASSUME ConfiguredWithin(32767)
  PROVE  Spec => []AdvertisedCostsFinite
<1> DEFINE D == 32767
<1>1. D \in Nat /\ D + D < 65536 /\ ConfiguredWithin(D) /\ D + D < INFINITY_COST
  BY DEF INFINITY_COST
<1> HIDE DEF D
<1>2. Init => ProbesInTime(D) /\ Neighbours /\ CostsWithin(D)
  <2>1. Init => ProbesInTime(D)
    BY <1>1, InitNetInv
  <2> QED
    BY <2>1 DEF Init, InitRouter, Neighbours, NeighboursOK, CostsWithin, MeasuredWithin
<1>3. /\ NetInv /\ TimerInv /\ ProbesOK /\ ProbesInTime(D) /\ Neighbours /\ CostsWithin(D)
      /\ [Next]_vars
      => ProbesInTime(D)' /\ Neighbours' /\ CostsWithin(D)'
  BY <1>1, NextProbes, NextNeighbours
<1>4. CostsWithin(D) => AdvertisedCostsFinite
  BY <1>1 DEF CostsWithin, MeasuredWithin, AdvertisedCostsFinite
<1> QED
  BY <1>2, <1>3, <1>4, NetInvHolds, TimerInvHolds, ProbesHold, PTL DEF Spec
-----------------------------------------------------------------------------
\* Types.  What a router's hash maps have for keys and values, at time now.

PortsTyped(ports, r, now) ==
  IsMap(ports, Ports[r], [destRouterID : Router, isUp : BOOLEAN,
                          lastUpdate : 0 .. now, timeCost : Cost])
NeighboursTyped(adjacent, r) == IsMap(adjacent, Router \ {r}, [port : Ports[r], timeCost : Cost])
HopsTyped(hops, r)           == IsMap(hops, Router \ {r}, Router \ {r})
NodesTyped(nodes, now)       == IsMap(nodes, Router, [lastUpdate : 0 .. now, timeCost : Cost])
LinksTyped(links)            == \A o \in Router : IsMap(links[o], Router, Cost)

Typed(s, r, now) ==
  /\ IsRouter(s, r)
  /\ PortsTyped(s.portStatus, r, now) /\ NeighboursTyped(s.adjacencyList, r)
  /\ HopsTyped(s.forwardingTable, r) /\ NodesTyped(s.nodeTable, now)
  /\ LinksTyped(s.costTable)

\* They have later too.
LEMMA TypedLater ==
  ASSUME NEW r \in Router, NEW s, NEW now \in Nat, Typed(s, r, now),
         NEW later \in Nat, now <= later
  PROVE  Typed(s, r, later)
<1>1. 0 .. now \subseteq 0 .. later
  OBVIOUS
<1>2. PortsTyped(s.portStatus, r, later)
  BY <1>1 DEF Typed, PortsTyped, IsMap
<1>3. NodesTyped(s.nodeTable, later)
  BY <1>1 DEF Typed, NodesTyped, IsMap
<1> QED
  BY <1>2, <1>3 DEF Typed

\* The costs UpdateTable starts from are those of neighbours.
LEMMA DirectFacts ==
  ASSUME NEW r \in Router, NEW now, NEW s, Typed(s, r, now), NEW direct \in DirectCosts(s)
  PROVE  direct \in [DOMAIN direct -> Cost] /\ DOMAIN direct \subseteq Router \ {r}
<1> DEFINE up   == {p \in UpPorts(s) : s.portStatus[p].destRouterID \in DOMAIN s.adjacencyList}
           nbrs == {s.portStatus[p].destRouterID : p \in up}
<1>1. PICK f \in [nbrs -> up] : direct = [n \in nbrs |-> s.portStatus[f[n]].timeCost]
  BY DEF DirectCosts
<1>2. \A p \in up : s.portStatus[p].timeCost \in Cost
  BY DEF UpPorts, Typed, PortsTyped, IsMap
<1>3. nbrs \subseteq Router \ {r}
  BY DEF Typed, NeighboursTyped, IsMap
<1> HIDE DEF up, nbrs
<1> QED
  BY <1>1, <1>2, <1>3

\* So the paths it finds are to other routers, over other routers.
LEMMA UpdateTableTyped ==
  ASSUME NEW r \in Router, NEW now \in Nat, NEW s, Typed(s, r, now), NEW t \in UpdateTable(s, now)
  PROVE  Typed(t, r, now)
<1> DEFINE After(dist) ==
             [s EXCEPT
               !.nodeTable = StoreAll(@, [d \in DOMAIN dist |-> [lastUpdate |-> now, timeCost |-> dist[d].cost]]),
               !.forwardingTable = StoreAll(@, [d \in DOMAIN dist |-> FindNextHop(s.id, dist, d)])]
           Paths(direct) == ShortestPaths(s.id, s.costTable, direct, DOMAIN s.nodeTable)
<1>1. UpdateTable(s, now) = {After(dist) : dist \in UNION {Paths(direct) : direct \in DirectCosts(s)}}
  BY DEF UpdateTable
<1> HIDE DEF After, Paths
<1>0. PICK direct \in DirectCosts(s) : \E dist \in Paths(direct) : t = After(dist)
  BY <1>1
<1>2. PICK dist \in Paths(direct) : t = After(dist)
  BY <1>0
<1> DEFINE nodes == [d \in DOMAIN dist |-> [lastUpdate |-> now, timeCost |-> dist[d].cost]]
           hops  == [d \in DOMAIN dist |-> FindNextHop(r, dist, d)]
<1>3. s.id = r /\ DOMAIN s.nodeTable \subseteq Router
  BY DEF Typed, IsRouter, NodesTyped, IsMap
<1>4. t.nodeTable = StoreAll(s.nodeTable, nodes) /\ t.forwardingTable = StoreAll(s.forwardingTable, hops)
  BY <1>2, <1>3 DEF Typed, IsRouter, RouterFields, After
<1>5. direct \in [DOMAIN direct -> Cost] /\ DOMAIN direct \subseteq Router \ {r}
  BY DirectFacts
<1>6. Numbered(DOMAIN s.nodeTable)
  BY <1>3, RouterAssumption DEF Numbered
<1>7. \A q \in DOMAIN s.nodeTable \ {r} : \A n \in DOMAIN s.costTable[q] : s.costTable[q][n] \in Cost
  BY <1>3 DEF Typed, LinksTyped, IsMap
<1>8. /\ DOMAIN dist = DOMAIN direct \cup (DOMAIN s.nodeTable \ {r})
      /\ \A d \in DOMAIN dist : dist[d].cost \in Cost /\ FindNextHop(r, dist, d) \in DOMAIN dist
  <2> DEFINE known     == DOMAIN s.nodeTable
             costTable == s.costTable
  <2>1. /\ direct \in [DOMAIN direct -> Cost] /\ r \notin DOMAIN direct /\ Numbered(known)
        /\ \A q \in known \ {r} : \A n \in DOMAIN costTable[q] : costTable[q][n] \in Cost
        /\ dist \in ShortestPaths(r, costTable, direct, known)
    BY <1>2, <1>3, <1>5, <1>6, <1>7 DEF Paths
  <2> HIDE DEF known, costTable
  <2>2. /\ DOMAIN dist = DOMAIN direct \cup (known \ {r})
        /\ \A d \in DOMAIN dist : dist[d].cost \in Cost /\ FindNextHop(r, dist, d) \in DOMAIN dist
    BY ONLY <2>1, PathsFound, Zenon
  <2> QED
    BY <2>2 DEF known
<1>9. DOMAIN dist \subseteq Router \ {r}
  BY <1>3, <1>5, <1>8
<1>10. IsMap(nodes, Router, [lastUpdate : 0 .. now, timeCost : Cost])
  BY <1>8, <1>9 DEF IsMap
<1>11. IsMap(hops, Router \ {r}, Router \ {r})
  BY <1>8, <1>9 DEF IsMap
<1> HIDE DEF nodes, hops
<1>12. NodesTyped(t.nodeTable, now) /\ HopsTyped(t.forwardingTable, r)
  BY <1>4, <1>10, <1>11, StoreAllMap DEF Typed, NodesTyped, HopsTyped
<1> QED
  BY <1>12, UpdateTableKeeps DEF Typed

LEMMA RefreshTyped ==
  ASSUME NEW r \in Router, NEW now \in Nat, NEW s, Typed(s, r, now), NEW d \in Router
  PROVE  Typed(RefreshNodeEntry(s, d, now), r, now)
<1> DEFINE t     == RefreshNodeEntry(s, d, now)
           entry == [lastUpdate |-> now,
                     timeCost   |-> IF d \in DOMAIN s.nodeTable THEN s.nodeTable[d].timeCost ELSE 0]
<1>1. t.nodeTable = Store(s.nodeTable, d, entry) /\ t.forwardingTable = s.forwardingTable
  BY DEF RefreshNodeEntry, Typed, IsRouter, RouterFields
<1>2. entry \in [lastUpdate : 0 .. now, timeCost : Cost]
  BY CostRange DEF Typed, NodesTyped, IsMap
<1> HIDE DEF entry
<1>3. NodesTyped(t.nodeTable, now)
  <2> DEFINE Entry == [lastUpdate : 0 .. now, timeCost : Cost]
  <2>1. IsMap(s.nodeTable, Router, Entry) /\ entry \in Entry
    BY <1>2 DEF Typed, NodesTyped
  <2> HIDE DEF Entry, t
  <2>2. IsMap(t.nodeTable, Router, Entry)
    BY <1>1, <2>1, StoreMap
  <2> QED
    BY <2>2 DEF NodesTyped, Entry
<1> QED
  BY <1>1, <1>3, RefreshKeeps DEF Typed

\* What is forgotten leaves links that were there.
LEMMA RemoveNodesTyped ==
  ASSUME NEW links, LinksTyped(links), NEW gone
  PROVE  LinksTyped(RemoveNodes(links, gone))
<1>1. ASSUME NEW o \in Router PROVE IsMap(RemoveNodes(links, gone)[o], Router, Cost)
  <2>1. IsMap(Restrict(links[o], DOMAIN links[o] \ gone), Router, Cost)
    BY RestrictMap DEF LinksTyped
  <2>2. IsMap(NoLinks, Router, Cost)
    BY DEF IsMap, NoLinks
  <2> QED
    BY <2>1, <2>2 DEF RemoveNodes
<1> QED
  BY <1>1 DEF LinksTyped

\* Entries of nodeTable that are set to infinity.
LEMMA InfiniteTyped ==
  ASSUME NEW nodes, NEW now, NodesTyped(nodes, now), NEW gone
  PROVE  NodesTyped([d \in DOMAIN nodes |-> IF d \in gone THEN [nodes[d] EXCEPT !.timeCost = INFINITY_COST]
                                            ELSE nodes[d]], now)
<1>1. INFINITY_COST \in Cost
  BY CostRange DEF INFINITY_COST
<1> QED
  BY <1>1 DEF NodesTyped, IsMap

LEMMA ExpirePortsTyped ==
  ASSUME NEW r \in Router, NEW now \in Nat, NEW s, Typed(s, r, now)
  PROVE  Typed(ExpirePorts(s, now), r, now)
<1> DEFINE dead  == DeadPorts(s, now)
           gone  == {s.portStatus[p].destRouterID : p \in dead} \cap DOMAIN s.adjacencyList
           t     == ExpirePorts(s, now)
           ports == [p \in DOMAIN s.portStatus |->
                      IF p \in dead THEN [s.portStatus[p] EXCEPT !.timeCost = INFINITY_COST, !.isUp = FALSE]
                      ELSE s.portStatus[p]]
           nodes == [d \in DOMAIN s.nodeTable |->
                      IF d \in gone THEN [s.nodeTable[d] EXCEPT !.timeCost = INFINITY_COST]
                      ELSE s.nodeTable[d]]
<1>1. TakeDown(s, dead) = [s EXCEPT !.portStatus = ports]
  BY DEF TakeDown
<1>2. /\ t.portStatus = ports /\ t.nodeTable = nodes
      /\ t.adjacencyList = Restrict(s.adjacencyList, DOMAIN s.adjacencyList \ gone)
      /\ t.costTable = RemoveNodes(s.costTable, gone)
      /\ t.forwardingTable = s.forwardingTable
  BY <1>1 DEF ExpirePorts, Typed, IsRouter, RouterFields
<1>3. INFINITY_COST \in Cost
  BY CostRange DEF INFINITY_COST
<1>4. PortsTyped(ports, r, now)
  BY <1>3 DEF Typed, PortsTyped, IsMap
<1>5. NodesTyped(nodes, now)
  BY InfiniteTyped DEF Typed
<1>8. IsRouter(t, r)
  BY ExpirePortsContinues DEF Typed, Continues
<1> HIDE DEF dead, gone, ports, nodes, t
<1>6. NeighboursTyped(t.adjacencyList, r)
  BY <1>2, RestrictMap DEF Typed, NeighboursTyped
<1>7. LinksTyped(t.costTable)
  BY <1>2, RemoveNodesTyped DEF Typed
<1> QED
  BY <1>2, <1>4, <1>5, <1>6, <1>7, <1>8 DEF Typed, t

LEMMA ExpireNodesTyped ==
  ASSUME NEW r \in Router, NEW now \in Nat, NEW s, Typed(s, r, now), NEW stale
  PROVE  Typed(ExpireNodes(s, stale), r, now)
<1> DEFINE t     == ExpireNodes(s, stale)
           nodes == [d \in DOMAIN s.nodeTable |->
                      IF d \in stale THEN [s.nodeTable[d] EXCEPT !.timeCost = INFINITY_COST]
                      ELSE s.nodeTable[d]]
<1>1. /\ t.nodeTable = nodes /\ t.costTable = RemoveNodes(s.costTable, stale)
      /\ t.forwardingTable = s.forwardingTable
  BY DEF ExpireNodes, Typed, IsRouter, RouterFields
<1>2. NodesTyped(nodes, now)
  BY InfiniteTyped DEF Typed
<1>3. LinksTyped(t.costTable)
  BY <1>1, RemoveNodesTyped DEF Typed
<1>4. IsRouter(t, r) /\ t.portStatus = s.portStatus /\ t.adjacencyList = s.adjacencyList
  BY ExpireNodesContinues DEF Typed, Continues
<1> HIDE DEF nodes, t
<1> QED
  BY <1>1, <1>2, <1>3, <1>4 DEF Typed, t

\* Outcome o of a handler of r keeps the types, and so does what it tells.
TellsTyped(out) == \A m \in out : m.pkt.type = "LS" => IsMap(m.pkt.costTable, Router, Cost)
GoesOn(o, r, now) == Typed(o.s, r, now) /\ TellsTyped(o.out)

\* What the wire makes of a cost is one.
LEMMA ShortType ==
  ASSUME NEW v \in Cost
  PROVE  LSShort(v) \in Cost
<1>1. v \in Int
  BY CostRange
<1>2. v % 256 \in Int /\ 0 <= v % 256 /\ v % 256 <= 255
  BY <1>1, SMT
<1>3. LSShort(v) \in {v % 256, (v % 256) + 65280}
  BY DEF LSShort
<1>4. LSShort(v) \in Int /\ 0 <= LSShort(v) /\ LSShort(v) <= 65535
  <2> DEFINE byte == v % 256
  <2>1. byte \in Int /\ 0 <= byte /\ byte <= 255 /\ LSShort(v) \in {byte, byte + 65280}
    BY <1>2, <1>3
  <2> HIDE DEF byte
  <2> QED
    BY <2>1
<1> QED
  BY <1>4, CostRange

LEMMA SendUpdatesTyped ==
  ASSUME NEW r \in Router, NEW now, NEW s, Typed(s, r, now)
  PROVE  GoesOn(SendUpdates(s), r, now)
<1> DEFINE o == SendUpdates(s)
<1>1. o.s = [s EXCEPT !.seqNum = @ + 1] /\ \A m \in o.out : m.pkt = CreatePacket(s)
  BY DEF SendUpdates, To
<1>2. Typed(o.s, r, now)
  <2>1. IsRouter(o.s, r)
    BY <1>1 DEF Typed, IsRouter, RouterFields
  <2>2. /\ o.s.portStatus = s.portStatus /\ o.s.adjacencyList = s.adjacencyList
        /\ o.s.forwardingTable = s.forwardingTable /\ o.s.nodeTable = s.nodeTable
        /\ o.s.costTable = s.costTable
    BY <1>1 DEF Typed, IsRouter, RouterFields
  <2> QED
    BY <2>1, <2>2 DEF Typed
<1>3. IsMap(CreatePacket(s).costTable, Router, Cost)
  <2>1. \A n \in DOMAIN s.adjacencyList : n \in Router /\ LSShort(s.adjacencyList[n].timeCost) \in Cost
    BY ShortType DEF Typed, NeighboursTyped, IsMap
  <2>2. CreatePacket(s).costTable =
          [n \in DOMAIN s.adjacencyList |-> LSShort(s.adjacencyList[n].timeCost)]
    BY DEF CreatePacket
  <2> QED
    BY <2>1, <2>2 DEF IsMap
<1> HIDE DEF o
<1> QED
  BY <1>1, <1>2, <1>3 DEF GoesOn, TellsTyped, o

LEMMA KeepTyped ==
  ASSUME NEW r, NEW now, NEW s, Typed(s, r, now), NEW o \in Keep(s)
  PROVE  GoesOn(o, r, now)
BY DEF Keep, GoesOn, TellsTyped

\* The entry that a next hop makes up has a port.
LEMMA DataTyped ==
  ASSUME NEW r \in Router, NEW now, NEW s, Typed(s, r, now), NEW pkt, pkt.type = "DATA",
         NEW o \in handleData(s, pkt)
  PROVE  GoesOn(o, r, now)
<1>1. CASE o \in Keep(s)
  BY <1>1, KeepTyped
<1>2. CASE o \notin Keep(s)
  <2> DEFINE hop   == s.forwardingTable[pkt.dst]
             entry == [port |-> 0, timeCost |-> 0]
             t     == IF hop \in DOMAIN s.adjacencyList THEN s
                      ELSE [s EXCEPT !.adjacencyList = Store(@, hop, entry)]
  <2>1. /\ o.s = t /\ pkt.dst \in DOMAIN s.forwardingTable
        /\ \A m \in o.out : m.pkt = pkt
    BY <1>2 DEF handleData, forwardTo, To
  <2>2. IsRouter(o.s, r)
    BY DataOwn DEF Own, Typed
  <2>3. hop \in Router \ {r}
    BY <2>1 DEF Typed, HopsTyped, IsMap
  <2>4. /\ t.portStatus = s.portStatus /\ t.forwardingTable = s.forwardingTable
        /\ t.nodeTable = s.nodeTable /\ t.costTable = s.costTable
        /\ t.adjacencyList \in {s.adjacencyList, Store(s.adjacencyList, hop, entry)}
    BY DEF Typed, IsRouter, RouterFields
  <2>5. entry \in [port : Ports[r], timeCost : Cost]
    BY PortZero, CostRange
  <2> DEFINE Entry == [port : Ports[r], timeCost : Cost]
  <2> HIDE DEF t, hop, entry, Entry
  <2>6. IsMap(s.adjacencyList, Router \ {r}, Entry) /\ entry \in Entry
    BY <2>5 DEF Typed, NeighboursTyped, Entry
  <2>7. IsMap(Store(s.adjacencyList, hop, entry), Router \ {r}, Entry)
    BY <2>3, <2>6, StoreMap
  <2>8. NeighboursTyped(t.adjacencyList, r)
    BY <2>4, <2>6, <2>7 DEF NeighboursTyped, Entry
  <2>9. Typed(o.s, r, now)
    BY <2>1, <2>2, <2>4, <2>8 DEF Typed
  <2> QED
    BY <2>1, <2>9 DEF GoesOn, TellsTyped
<1> QED
  BY <1>1, <1>2

\* A PONG is from another router.
LEMMA PongTyped ==
  ASSUME NEW r \in Router, NEW now \in Nat, NEW s, Typed(s, r, now), NEW p \in Ports[r],
         NEW pkt, pkt.sourceID \in Router \ {r}, pkt.stamp \in Nat,
         NEW o \in handlePongs(s, p, pkt, now)
  PROVE  GoesOn(o, r, now)
<1> DEFINE nbr   == pkt.sourceID
           rtt   == RoundTripCost(now, pkt.stamp)
           wasUp == p \in UpPorts(s) /\ nbr \in DOMAIN s.adjacencyList
           port  == [destRouterID |-> nbr, isUp |-> TRUE, lastUpdate |-> now, timeCost |-> rtt]
           entry == [port |-> p, timeCost |-> rtt]
           t     == [s EXCEPT !.portStatus = Store(@, p, port),
                              !.adjacencyList = Store(@, nbr, entry)]
           u     == IF wasUp THEN RefreshNodeEntry(t, nbr, now) ELSE t
           APort == [destRouterID : Router, isUp : BOOLEAN, lastUpdate : 0 .. now, timeCost : Cost]
           AnEntry == [port : Ports[r], timeCost : Cost]
<1>1. o \in Keep(u) \cup {SendUpdates(v) : v \in UpdateTable(u, now)}
  BY DEF handlePongs
<1>2. rtt \in Cost
  BY AsCostType DEF RoundTripCost
<1>3. port \in APort /\ entry \in AnEntry
  BY <1>2
<1>4. /\ DOMAIN t = RouterFields /\ t.id = s.id /\ t.seqNum = s.seqNum /\ t.seqTable = s.seqTable
      /\ t.portStatus = Store(s.portStatus, p, port)
      /\ t.adjacencyList = Store(s.adjacencyList, nbr, entry)
      /\ t.forwardingTable = s.forwardingTable
      /\ t.nodeTable = s.nodeTable /\ t.costTable = s.costTable
  BY DEF Typed, IsRouter, RouterFields
<1>5. IsMap(s.portStatus, Ports[r], APort) /\ IsMap(s.adjacencyList, Router \ {r}, AnEntry)
  BY DEF Typed, PortsTyped, NeighboursTyped
<1> HIDE DEF t, port, entry, rtt, APort, AnEntry
<1>6. /\ IsMap(t.portStatus, Ports[r], APort)
      /\ IsMap(t.adjacencyList, Router \ {r}, AnEntry)
  BY <1>3, <1>4, <1>5, StoreMap
<1>7. IsRouter(t, r)
  <2>1. /\ DOMAIN t.portStatus \subseteq Ports[r]
        /\ \A n \in DOMAIN t.adjacencyList : t.adjacencyList[n].port \in Ports[r]
    BY <1>6 DEF IsMap, AnEntry
  <2> QED
    BY <1>4, <2>1 DEF Typed, IsRouter
<1>8. Typed(t, r, now)
  <2>1. PortsTyped(t.portStatus, r, now) /\ NeighboursTyped(t.adjacencyList, r)
    BY <1>6 DEF PortsTyped, NeighboursTyped, APort, AnEntry
  <2> QED
    BY <1>4, <1>7, <2>1 DEF Typed
<1>9. Typed(u, r, now)
  BY <1>8, RefreshTyped
<1> HIDE DEF u
<1>10. CASE o \in Keep(u)
  BY <1>9, <1>10, KeepTyped
<1>11. ASSUME NEW v \in UpdateTable(u, now), o = SendUpdates(v)
       PROVE  GoesOn(o, r, now)
  BY <1>9, <1>11, UpdateTableTyped, SendUpdatesTyped
<1> QED
  BY <1>1, <1>10, <1>11

LEMMA FreshnessTyped ==
  ASSUME NEW r \in Router, NEW now \in Nat, NEW s, Typed(s, r, now), NEW o \in checkFreshness(s, now)
  PROVE  GoesOn(o, r, now)
<1> DEFINE dead  == DeadPorts(s, now)
           sent  == IF dead = {} THEN [s |-> s, out |-> {}] ELSE SendUpdates(ExpirePorts(s, now))
           stale == StaleNodes(sent.s, now)
<1>1. GoesOn(sent, r, now)
  <2>1. CASE dead = {}
    BY <2>1 DEF GoesOn, TellsTyped
  <2>2. CASE dead # {}
    BY <2>2, ExpirePortsTyped, SendUpdatesTyped
  <2> QED
    BY <2>1, <2>2
<1> HIDE DEF sent
<1>2. CASE o = sent
  BY <1>1, <1>2
<1>3. CASE o # sent
  <2>1. PICK u \in UpdateTable(ExpireNodes(sent.s, stale), now) : o = [s |-> u, out |-> sent.out]
    BY <1>3 DEF checkFreshness, sent
  <2>2. Typed(u, r, now)
    BY <1>1, ExpireNodesTyped, UpdateTableTyped DEF GoesOn
  <2> QED
    BY <1>1, <2>1, <2>2 DEF GoesOn
<1> QED
  BY <1>2, <1>3

\* An advertisement adds links to routers, and its sender to the nodes.
LEMMA PacketTyped ==
  ASSUME NEW r \in Router, NEW now \in Nat, NEW s, Typed(s, r, now), NEW p \in Ports[r],
         NEW pkt, pkt.sourceID \in Router, pkt.seqNum \in Nat, IsMap(pkt.costTable, Router, Cost),
         NEW o \in HandlePacket(s, p, pkt, now)
  PROVE  GoesOn(o, r, now)
<1>1. CASE pkt.seqNum <= s.seqTable[pkt.sourceID]
  BY <1>1, KeepTyped DEF HandlePacket
<1>2. CASE ~(pkt.seqNum <= s.seqTable[pkt.sourceID])
  <2> DEFINE took == [s EXCEPT !.seqTable[pkt.sourceID] = pkt.seqNum]
             t    == RefreshNodeEntry(took, pkt.sourceID, now)
             w    == [t EXCEPT !.costTable[pkt.sourceID] = pkt.costTable]
  <2>1. Typed(took, r, now)
    <3>1. /\ took.portStatus = s.portStatus /\ took.adjacencyList = s.adjacencyList
          /\ took.forwardingTable = s.forwardingTable /\ took.nodeTable = s.nodeTable
          /\ took.costTable = s.costTable
      BY DEF Typed, IsRouter, RouterFields
    <3>2. IsRouter(took, r)
      BY DEF Typed, IsRouter, RouterFields
    <3> QED
      BY <3>1, <3>2 DEF Typed
  <2>2. PICK u : /\ o = [s |-> u, out |-> FloodUpdates(s, p, pkt)]
                 /\ u = t \/ u \in UpdateTable(w, now)
    BY <1>2 DEF HandlePacket
  <2> HIDE DEF took
  <2>3. Typed(t, r, now)
    BY <2>1, RefreshTyped
  <2> HIDE DEF t
  <2>4. Typed(w, r, now)
    <3>1. /\ w.portStatus = t.portStatus /\ w.adjacencyList = t.adjacencyList
          /\ w.forwardingTable = t.forwardingTable /\ w.nodeTable = t.nodeTable
          /\ w.costTable = [t.costTable EXCEPT ![pkt.sourceID] = pkt.costTable]
      BY <2>3 DEF Typed, IsRouter, RouterFields
    <3>2. IsRouter(w, r)
      BY <2>3 DEF Typed, IsRouter, RouterFields
    <3>3. LinksTyped(w.costTable)
      BY <2>3, <3>1 DEF Typed, LinksTyped, IsRouter
    <3> QED
      BY <2>3, <3>1, <3>2, <3>3 DEF Typed
  <2> HIDE DEF w
  <2>5. Typed(u, r, now)
    BY <2>2, <2>3, <2>4, UpdateTableTyped
  <2>6. \A m \in FloodUpdates(s, p, pkt) : m.pkt = pkt
    BY DEF FloodUpdates, To
  <2> QED
    BY <2>2, <2>5, <2>6 DEF GoesOn, TellsTyped
<1> QED
  BY <1>1, <1>2

\* Whatever the event.
LEMMA HandledTyped ==
  ASSUME NEW r \in Router, NEW e, e.time \in Nat, NEW s, Typed(s, r, e.time), NEW o, Handled(s, e, r, o),
         e.kind = "Recv" => e.dport \in Ports[r],
         e.kind = "Recv" /\ e.pkt.type = "LS" =>
           e.pkt.sourceID \in Router /\ e.pkt.seqNum \in Nat /\ IsMap(e.pkt.costTable, Router, Cost),
         e.kind = "Recv" /\ e.pkt.type = "PONG" => e.pkt.sourceID \in Router \ {r} /\ e.pkt.stamp \in Nat
  PROVE  GoesOn(o, r, e.time)
<1>1. CASE e.kind = "XmitEndToEnd"
  BY <1>1, DataTyped DEF Handled
<1>2. CASE e.kind = "Recv"
  <2>1. CASE e.pkt.type = "PING"
    BY <1>2, <2>1 DEF Handled, handlePings, To, GoesOn, TellsTyped
  <2>2. CASE e.pkt.type = "PONG"
    BY <1>2, <2>2, PongTyped DEF Handled
  <2>3. CASE e.pkt.type = "DATA"
    BY <1>2, <2>3, DataTyped DEF Handled
  <2>4. CASE e.pkt.type = "LS"
    BY <1>2, <2>4, PacketTyped DEF Handled
  <2> QED
    BY <1>2, <2>1, <2>2, <2>3, <2>4 DEF Handled
<1>3. CASE e.kind = "Alarm"
  <2>1. CASE e.type = "PingPong"
    BY <1>3, <2>1 DEF Handled, sendPings, To, GoesOn, TellsTyped
  <2>2. CASE e.type = "Update"
    BY <1>3, <2>2, SendUpdatesTyped DEF Handled
  <2>3. CASE e.type = "Freshness"
    BY <1>3, <2>3, FreshnessTyped DEF Handled
  <2> QED
    BY <1>3, <2>1, <2>2, <2>3 DEF Handled
<1> QED
  BY <1>1, <1>2, <1>3 DEF Handled

\* So the types stay.
TablesTyped == \A r \in Router : Typed(router[r], r, global_time)
LinksTold   == \A e \in LSInFlight : IsMap(e.pkt.costTable, Router, Cost)

LEMMA SimTyped ==
  ASSUME NetInv, TablesTyped, LinksTold, SimNext, UNCHANGED router
  PROVE  TablesTyped' /\ LinksTold'
<1>1. global_time \in Nat /\ global_time' \in Nat /\ global_time <= global_time'
  <2>1. \E e \in Top(event_q) : global_time' = e.time
    BY DEF SimNext, LinkDie, LinkComeUp, ChangeDelay, Transmit, LosePacket, Dispatch
  <2> QED
    BY <2>1, LinkFitsLater DEF NetInv
<1>2. TablesTyped'
  BY <1>1, TypedLater DEF TablesTyped
<1>3. ASSUME NEW f \in LSInFlight' PROVE IsMap(f.pkt.costTable, Router, Cost)
  <2>1. f \in InFlight' /\ f.pkt.type = "LS"
    BY DEF LSInFlight
  <2>2. PICK e \in InFlight : SamePacket(e, f)
    BY <2>1, SimPackets DEF NetInv
  <2> QED
    BY <2>1, <2>2 DEF SamePacket, LSInFlight, LinksTold
<1> QED
  BY <1>2, <1>3 DEF LinksTold

LEMMA RouterNextTyped ==
  ASSUME NetInv, ProbesOK, TablesTyped, LinksTold, RouterNext
  PROVE  TablesTyped' /\ LinksTold'
<1>1. PICK e, r, o : Turn(e, r, o) /\ Handled(router[r], e, r, o)
  BY RouterNextHandled DEF NetInv
<1>2. /\ r \in Router /\ e \in Top(event_q) /\ e \in Pending /\ EventFits(e, global_time)
      /\ global_time' = e.time
  BY <1>1, TopFacts DEF Turn, Dispatch, NetInv, SimInv
<1>3. global_time \in Nat /\ e.time \in Nat /\ global_time <= e.time
  BY <1>2, LinkFitsLater DEF NetInv
<1>4. \A q \in Router : Typed(router[q], q, e.time)
  BY <1>3, TypedLater DEF TablesTyped
<1>5. e.kind = "Recv" => e \in InFlight /\ r = e.dest /\ e.dport \in Ports[r]
  BY <1>1, <1>2 DEF InFlight, Handled, EventFits
<1>6. e.kind = "Recv" /\ e.pkt.type = "LS" =>
        e.pkt.sourceID \in Router /\ e.pkt.seqNum \in Nat /\ IsMap(e.pkt.costTable, Router, Cost)
  BY <1>5 DEF NetInv, AdvertsOK, LinksTold, LSInFlight
<1>7. e.kind = "Recv" /\ e.pkt.type = "PONG" =>
        e.pkt.sourceID \in Router \ {r} /\ e.pkt.stamp \in Nat
  BY <1>2, <1>5, PeerFacts, LinkAtFacts DEF ProbesOK, ProbeOK, Sender
<1>8. GoesOn(o, r, e.time)
  BY <1>1, <1>2, <1>3, <1>4, <1>5, <1>6, <1>7, HandledTyped
<1>9. TablesTyped'
  <2>1. \A q \in Router : router'[q] = IF q = r THEN o.s ELSE router[q]
    BY <1>1 DEF Turn, NetInv, RoutersOK
  <2> QED
    BY <1>2, <1>4, <1>8, <2>1 DEF TablesTyped, GoesOn
<1>10. ASSUME NEW f \in LSInFlight' PROVE IsMap(f.pkt.costTable, Router, Cost)
  <2>1. f \in InFlight' /\ f.pkt.type = "LS"
    BY DEF LSInFlight
  <2>2. f \in InFlight \/ \E m \in o.out : Carries(f, r, m)
    BY <1>1, <2>1, TurnPackets DEF NetInv
  <2>3. CASE f \in InFlight
    BY <2>1, <2>3 DEF LSInFlight, LinksTold
  <2>4. CASE \E m \in o.out : Carries(f, r, m)
    BY <1>8, <2>1, <2>4 DEF GoesOn, TellsTyped, Carries
  <2> QED
    BY <2>2, <2>3, <2>4
<1> QED
  BY <1>9, <1>10 DEF LinksTold

LEMMA NextTyped ==
  ASSUME NetInv, ProbesOK, TablesTyped, LinksTold, [Next]_vars
  PROVE  TablesTyped' /\ LinksTold'
<1>1. CASE SimNext /\ UNCHANGED router
  BY <1>1, SimTyped
<1>2. CASE RouterNext
  BY <1>2, RouterNextTyped
<1>3. CASE UNCHANGED vars
  BY <1>3 DEF vars, simVars, TablesTyped, LinksTold, LSInFlight, InFlight, Pending
<1> QED
  BY <1>1, <1>2, <1>3 DEF Next, RouterNext

\* Every table of every link-state router is well formed in any network: no cost is out of
\* the range of 16 bits, whatever wraps around or is cut to a byte on the wire, no router
\* has a path to itself, and no next hop is itself or nobody.
THEOREM TablesWellFormed == Spec => []TypeOK
<1>1. Init => TablesTyped /\ LinksTold
  <2> SUFFICES ASSUME Init PROVE TablesTyped /\ LinksTold
    OBVIOUS
  <2>1. NetInv /\ LSInFlight = {} /\ \A r \in Router : router[r] = InitRouter(r)
    BY InitNetInv DEF Init
  <2>2. ASSUME NEW r \in Router PROVE Typed(router[r], r, global_time)
    <3> DEFINE s == InitRouter(r)
    <3>0. router[r] = s
      BY <2>1
    <3>1. \A S, T : /\ IsMap(s.portStatus, S, T) /\ IsMap(s.adjacencyList, S, T)
                    /\ IsMap(s.forwardingTable, S, T) /\ IsMap(s.nodeTable, S, T)
      BY DEF InitRouter, IsMap
    <3>2. ASSUME NEW q \in Router PROVE \A S, T : IsMap(s.costTable[q], S, T)
      BY DEF InitRouter, IsMap, NoLinks
    <3> HIDE DEF s
    <3>3. IsRouter(s, r)
      BY <2>1, <3>0 DEF NetInv, RoutersOK
    <3> QED
      BY <3>0, <3>1, <3>2, <3>3
         DEF Typed, PortsTyped, NeighboursTyped, HopsTyped, NodesTyped, LinksTyped
  <2> QED
    BY <2>1, <2>2 DEF TablesTyped, LinksTold
<1>2. NetInv /\ ProbesOK /\ TablesTyped /\ LinksTold /\ [Next]_vars => TablesTyped' /\ LinksTold'
  BY NextTyped
<1>3. NetInv /\ TablesTyped => TypeOK
  BY DEF NetInv, SimInv, TablesTyped, Typed, IsRouter, PortsTyped, NeighboursTyped, HopsTyped,
         NodesTyped, LinksTyped, RouterOK, TypeOK
<1> QED
  BY <1>1, <1>2, <1>3, NetInvHolds, ProbesHold, PTL DEF Spec
=============================================================================
