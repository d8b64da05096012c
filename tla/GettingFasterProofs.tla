------------------------ MODULE GettingFasterProofs -------------------------
(***************************************************************************)
(* A distance-vector network in which links only get faster implements     *)
(* HopByHop, as long as no entry expires and no vector is bad news.        *)
(***************************************************************************)
EXTENDS DVNetworkProofs

-----------------------------------------------------------------------------
\* Links.

\* Every link is alive and no slower than configured; it has been left alone at least until
\* a packet can have crossed it there and back.
LinksFaster ==
  \A l \in DOMAIN Links :
    /\ link[l].is_alive /\ link[l].delay >= 1 /\ link[l].delay <= Links[l].delay
    /\ link[l].delay = Links[l].delay \/ global_time >= 2 * Links[l].delay

\* No link will be told to die, and those told to change get faster every time.
ChangesFaster ==
  /\ \A e \in Pending : e.kind \notin {"LinkDie", "LinkComeUp"}
  /\ \A e \in Pending : e.kind = "ChangeDelay" =>
       \A l \in DOMAIN Links : l = e.link =>
         e.delay >= 1 /\ e.delay <= link[l].delay /\ e.time >= 2 * Links[l].delay
  /\ \A e, f \in Pending :
       /\ e.kind = "ChangeDelay" /\ f.kind = "ChangeDelay"
       /\ e.link = f.link /\ e.link \in DOMAIN Links /\ e.time <= f.time
       => f.delay <= e.delay

\* The link a packet is on its way over.
Over(f) == LinkAt(f.dest, f.dport)

\* Event e puts its packet on the link, which is there as f; event e changes a delay.
Crosses(e, f) ==
  /\ e.kind = "Xmit" /\ Dispatch(e, {f}) /\ UNCHANGED link
  /\ f.kind = "Recv" /\ SamePacket(e, f) /\ f.time = e.time + link[Over(e)].delay
Speeds(e) ==
  /\ e.kind = "ChangeDelay" /\ Dispatch(e, {})
  /\ link' = [link EXCEPT ![e.link].delay = e.delay, ![e.link].since = e.time]

\* No configured link loses a packet.
NoLosses == \A l \in DOMAIN Links : Links[l].lossTenths = 0

\* Nothing else happens in the simulator itself.
LEMMA SimFaster ==
  ASSUME SimInv, LinksFaster, ChangesFaster, NoLosses, SimNext
  PROVE  \E e \in Top(event_q) : Speeds(e) \/ \E f : Crosses(e, f)
<1>1. \A e \in Top(event_q) :
        /\ e \in Pending /\ EventFits(e, global_time)
        /\ e.kind = "Xmit" => e.link = Over(e) /\ e.link \in DOMAIN Links
  BY TopFacts, SenderFacts DEF SimInv, EventFits, Over
<1>2. CASE LinkDie \/ LinkComeUp
  BY <1>1, <1>2 DEF ChangesFaster, LinkDie, LinkComeUp
<1>3. CASE ChangeDelay
  BY <1>3 DEF ChangeDelay, Speeds
<1>4. CASE Transmit
  <2>1. PICK e \in Top(event_q) :
          /\ e.kind = "Xmit"
          /\ Dispatch(e, {[kind |-> "Recv", time |-> e.time + link[e.link].delay,
                           dest |-> e.dest, dport |-> e.dport, pkt |-> e.pkt]})
          /\ UNCHANGED link
    BY <1>4 DEF Transmit
  <2> DEFINE f == [kind |-> "Recv", time |-> e.time + link[e.link].delay,
                   dest |-> e.dest, dport |-> e.dport, pkt |-> e.pkt]
  <2>2. f.kind = "Recv" /\ SamePacket(e, f) /\ f.time = e.time + link[e.link].delay
    BY DEF SamePacket
  <2>3. e.link = Over(e)
    BY <1>1, <2>1
  <2>4. Dispatch(e, {f})
    BY <2>1
  <2> HIDE DEF f
  <2>5. Crosses(e, f)
    BY <2>1, <2>2, <2>3, <2>4 DEF Crosses
  <2> QED
    BY <2>5
<1>5. CASE LosePacket
  BY <1>1, <1>5 DEF LosePacket, LinksFaster, NoLosses
<1> QED
  BY <1>2, <1>3, <1>4, <1>5 DEF SimNext

\* A delay that changes drops, and nothing else about links changes.
LEMMA SpeedsFacts ==
  ASSUME SimInv, ChangesFaster, NEW e \in Top(event_q), Speeds(e), NEW l \in DOMAIN Links
  PROVE  /\ link'[l].is_alive = link[l].is_alive
         /\ link'[l].delay = IF l = e.link THEN e.delay ELSE link[l].delay
         /\ link'[l].delay <= link[l].delay
BY TopFacts DEF SimInv, SimTypeOK, ChangesFaster, Speeds

\* Links keep getting faster, and time passes.
LEMMA LinksStayFaster ==
  ASSUME SimInv, LinksFaster, ChangesFaster, NEW e \in Top(event_q), NEW new, Dispatch(e, new),
         \A f \in new : f.kind \in {"Alarm", "Xmit", "Recv"},
         Speeds(e) \/ UNCHANGED link
  PROVE  LinksFaster' /\ ChangesFaster'
<1>1. /\ e \in Pending /\ e.time \in Nat /\ global_time \in Nat
      /\ \A f \in Pending : e.time <= f.time /\ f.time \in Nat
      /\ global_time' = e.time /\ global_time <= e.time
  BY TopFacts DEF SimInv, SimTypeOK, EventFits, Dispatch
<1>2. \A l \in DOMAIN Links : link[l].delay \in Nat /\ Links[l].delay \in Nat
  BY LinksAssumption DEF SimInv, SimTypeOK
<1>3. \A f \in Pending' : f \in Pending \/ f.kind \in {"Alarm", "Xmit", "Recv"}
  BY DispatchPending DEF Pending
<1>4. \A f \in Pending : f.kind = "ChangeDelay" => f.delay \in Nat
  BY DEF SimInv, EventFits
<1>5. ASSUME UNCHANGED link
      PROVE  LinksFaster' /\ ChangesFaster'
  <2>1. LinksFaster'
    BY <1>1, <1>2, <1>5 DEF LinksFaster
  <2>2. ChangesFaster'
    BY <1>3, <1>5 DEF ChangesFaster
  <2> QED
    BY <2>1, <2>2
<1>6. ASSUME Speeds(e)
      PROVE  LinksFaster' /\ ChangesFaster'
  <2>1. \A l \in DOMAIN Links :
          /\ link'[l].is_alive = link[l].is_alive
          /\ link'[l].delay = IF l = e.link THEN e.delay ELSE link[l].delay
    BY <1>6, SpeedsFacts
  <2>2. e.kind = "ChangeDelay" /\ e.delay \in Nat
    BY <1>1, <1>4, <1>6 DEF Speeds
  <2>3. LinksFaster'
    <3> SUFFICES ASSUME NEW l \in DOMAIN Links
                 PROVE  /\ link'[l].is_alive /\ link'[l].delay >= 1 /\ link'[l].delay <= Links[l].delay
                        /\ link'[l].delay = Links[l].delay \/ global_time' >= 2 * Links[l].delay
      BY DEF LinksFaster
    <3>1. CASE l = e.link
      <4>1. e.delay >= 1 /\ e.delay <= link[l].delay /\ e.time >= 2 * Links[l].delay
        BY <1>1, <2>2, <3>1 DEF ChangesFaster
      <4> QED
        BY <1>1, <1>2, <2>1, <2>2, <3>1, <4>1 DEF LinksFaster
    <3>2. CASE l # e.link
      BY <1>1, <1>2, <2>1, <3>2 DEF LinksFaster
    <3> QED
      BY <3>1, <3>2
  <2>4. ChangesFaster'
    <3>1. ASSUME NEW f \in Pending, f.kind = "ChangeDelay", NEW l \in DOMAIN Links, l = f.link
          PROVE  f.delay <= link'[l].delay
      <4>1. CASE l = e.link
        BY <1>1, <2>1, <2>2, <3>1, <4>1 DEF ChangesFaster
      <4>2. CASE l # e.link
        BY <2>1, <3>1, <4>2 DEF ChangesFaster
      <4> QED
        BY <4>1, <4>2
    <3> QED
      BY <1>3, <3>1 DEF ChangesFaster
  <2> QED
    BY <2>3, <2>4
<1> QED
  BY <1>5, <1>6

-----------------------------------------------------------------------------
\* PINGs and PONGs on their way.

Probes == {f \in InFlight : f.pkt.type \in {"PING", "PONG"}}

\* The router that measures with it.
Prober(f) == IF f.pkt.type = "PING" THEN Sender(f) ELSE f.dest

\* They measure one link for one router.
SameTrip(f, g) == Prober(f) = Prober(g) /\ Over(f) = Over(g)

\* No router has two of them on one link, however they are stamped.
OneProbe == \A f \in Probes : event_q[f] = 1 /\ \A g \in Probes : SameTrip(f, g) => f = g

\* Probe e goes on as f: it has crossed its link, or is answered.
Moved(e, f) ==
  /\ SameTrip(e, f) /\ f.pkt.stamp = e.pkt.stamp
  /\ \/ /\ e.kind = "Xmit" /\ f.kind = "Recv" /\ f.pkt.type = e.pkt.type
        /\ f.time = e.time + link[Over(e)].delay
     \/ /\ e.kind = "Recv" /\ e.pkt.type = "PING" /\ f.kind = "Xmit" /\ f.pkt.type = "PONG"
        /\ f.time = e.time

\* Alarm e has a new probe f sent.
Rings(e, type)  == e.kind = "Alarm" /\ e.type = type
Starts(e, f) ==
  /\ Rings(e, "PingPong") /\ Prober(f) = e.router
  /\ f.kind = "Xmit" /\ f.pkt.type = "PING" /\ f.time = e.time /\ f.pkt.stamp = e.time

\* What event e does to the probes in flight: only a PONG that arrives ends a measurement.
ProbesMove(e) ==
  /\ \A f \in Probes' : \/ f \in Probes /\ f # e
                        \/ e \in Probes /\ Moved(e, f)
                        \/ Starts(e, f)
  /\ \A f \in Probes : f # e => f \in Probes'
  /\ e \in Probes /\ ~(e.kind = "Recv" /\ e.pkt.type = "PONG") => \E f \in Probes' : Moved(e, f)
  /\ Rings(e, "PingPong") =>
       \A l \in LinksOf(e.router) : \E f \in Probes' : Starts(e, f) /\ Over(f) = l

\* The probes among events.
ProbesIn(new) == {f \in new : f.kind \in {"Xmit", "Recv"} /\ f.pkt.type \in {"PING", "PONG"}}

\* New probes where there is none, but for the event that is handled.
LEMMA HeapProbes ==
  ASSUME SimInv, OneProbe, NEW e \in Top(event_q), NEW new, Dispatch(e, new), e \notin new,
         \A f \in ProbesIn(new) : \A g \in Probes : SameTrip(f, g) => g = e,
         \A f, g \in ProbesIn(new) : SameTrip(f, g) => f = g
  PROVE  OneProbe' /\ Probes' = (Probes \ {e}) \cup ProbesIn(new)
<1>1. /\ Pending' \subseteq Pending \cup new /\ new \subseteq Pending'
      /\ \A f \in Pending : f # e => f \in Pending'
  BY DispatchPending DEF Pending
<1>2. /\ \A f \in Pending : event_q[f] = 1 /\ f # e /\ f \notin new => event_q'[f] = 1
      /\ event_q[e] = 1 => e \notin Pending'
      /\ \A a \in new : a \notin Pending => event_q'[a] = 1
  BY DispatchCopies DEF Pending
<1>3. e \in Probes => e \notin Probes'
  BY <1>2 DEF OneProbe, Probes, InFlight
<1>4. Probes' = (Probes \ {e}) \cup ProbesIn(new)
  BY <1>1, <1>3 DEF Probes, InFlight, ProbesIn
<1>5. \A f \in ProbesIn(new) : f \notin Probes
  BY DEF SameTrip, ProbesIn
<1>6. \A f \in ProbesIn(new) : f \notin Pending
  BY <1>5 DEF ProbesIn, Probes, InFlight
<1>7. \A f \in Probes' : event_q'[f] = 1
  <2>1. \A f \in ProbesIn(new) : event_q'[f] = 1
    BY <1>2, <1>6 DEF ProbesIn
  <2>2. \A f \in Probes \ {e} : f \notin new
    BY <1>5 DEF ProbesIn, Probes, InFlight
  <2>3. \A f \in Probes \ {e} : event_q'[f] = 1
    BY <1>2, <2>2 DEF OneProbe, Probes, InFlight
  <2> QED
    BY <1>4, <2>1, <2>3
<1>8. \A f, g \in Probes' : SameTrip(f, g) => f = g
  BY <1>4, SMTT(40) DEF OneProbe, SameTrip
<1> HIDE DEF SameTrip
<1>9. OneProbe' <=> \A f \in Probes' : event_q'[f] = 1 /\ \A g \in Probes' : SameTrip(f, g) => f = g
  BY Zenon DEF OneProbe, SameTrip, Prober, Over, Sender, LinkAt, LinksOf, Peer, get_link_port
<1> QED
  BY <1>4, <1>7, <1>8, <1>9

LEMMA UpdatesKind == \A s : \A m \in sendUpdates(s) : m.pkt.type = "DV"
BY DEF sendUpdates, createDVPacket, To

LEMMA CostChangeKind ==
  ASSUME NEW s, NEW n, NEW change, NEW now, NEW o \in handleCostChange(s, n, change, now)
  PROVE  \A m \in o.out : m.pkt.type = "DV"
<1> DEFINE big == StoreAll(s.bigTable,
                    [x \in (DestsOver(s.bigTable, n) \cup {n}) \X {n} |->
                      AsCost((IF x \in DOMAIN s.bigTable THEN s.bigTable[x] ELSE 0) + change)])
           mine(best) == Renewed(best, n)
           t(best) == updateRoutes([s EXCEPT !.bigTable = big], Restrict(best, mine(best)), now)
           u(best) == IF n \in DOMAIN t(best).forwardingTable THEN t(best)
                      ELSE updateRoutes(t(best), [d \in {n} |-> [nextHop |-> n, routeCost |-> 0]], now)
           sent(best) == IF mine(best) = {} /\ u(best) = t(best) THEN {} ELSE sendUpdates(u(best))
<1>1. handleCostChange(s, n, change, now) =
        {[s |-> u(best), out |-> sent(best)] : best \in BestRoutes(big, DestsOver(s.bigTable, n) \cup {n})}
  BY DEF handleCostChange
<1> HIDE DEF big, u, t, mine
<1>2. \A best : \A m \in sent(best) : m.pkt.type = "DV"
  BY UpdatesKind
<1> HIDE DEF sent
<1> QED
  BY <1>1, <1>2

LEMMA FreshnessKind ==
  ASSUME NEW s, NEW now, NEW o \in checkFreshness(s, now)
  PROVE  \A m \in o.out : m.pkt.type = "DV"
<1> DEFINE dead == DeadPorts(s, now)
           afterPorts == IF dead = {} THEN Keep(s)
                         ELSE {[s |-> t, out |-> sendUpdates(t)] : t \in expirePorts(s, dead, now)}
           u(o1) == expireEntries(o1.s, StaleEntries(o1.s, now))
           withEntries(o1) == IF StaleEntries(o1.s, now) = {} THEN o1
                              ELSE [s |-> u(o1), out |-> o1.out \cup sendUpdates(u(o1))]
<1>1. checkFreshness(s, now) = {withEntries(o1) : o1 \in afterPorts}
  BY DEF checkFreshness
<1>2. PICK o1 \in afterPorts : o = withEntries(o1)
  BY <1>1
<1>3. \A m \in o1.out : m.pkt.type = "DV"
  <2>1. CASE dead = {}
    BY <2>1 DEF Keep
  <2>2. CASE dead # {}
    BY <2>2, UpdatesKind
  <2> QED
    BY <2>1, <2>2
<1>4. o = o1 \/ o = [s |-> u(o1), out |-> o1.out \cup sendUpdates(u(o1))]
  BY <1>2
<1> HIDE DEF u
<1>5. o = o1 \/ o.out = o1.out \cup sendUpdates(u(o1))
  BY <1>4
<1> QED
  BY <1>3, <1>5, UpdatesKind

\* What a router puts out: PINGs when the alarm for them rings, an answer to a PING, and
\* else vectors and data.
LEMMA OutKinds ==
  ASSUME DVInv, NEW e, NEW r, NEW o, RouterStep(e, r, o)
  PROVE  /\ Rings(e, "PingPong") => o.out = sendPings(router[r], e.time) /\ r = e.router
         /\ e.kind = "Recv" /\ e.pkt.type = "PING" =>
              /\ o.out = {To(e.dport, [type |-> "PONG", sourceID |-> r, stamp |-> e.pkt.stamp])}
              /\ r = e.dest
         /\ ~Rings(e, "PingPong") /\ ~(e.kind = "Recv" /\ e.pkt.type = "PING") =>
              \A m \in o.out : m.pkt.type \in {"DV", "DATA"}
<1>1. /\ e \in Top(event_q) /\ e \in Pending /\ r \in Router /\ EventFits(e, global_time)
      /\ e.time \in Nat /\ global_time \in Nat /\ global_time <= e.time
      /\ Handled(router[r], e, r, o)
  BY TopFacts DEF RouterStep, Turn, DVInv, SimInv, SimTypeOK, EventFits
<1>2. IsRouter(router[r], r, e.time) /\ router[r].id = r
  BY <1>1, RouterLater DEF DVInv, StatesOK, IsRouter
<1>3. e.kind = "Recv" => e \in InFlight /\ Sender(e) \in Others(e.dest)
  BY <1>1, SenderFacts DEF InFlight, EventFits, Others
<1>4. ASSUME NEW pkt, pkt.type = "DATA", o \in handleData(router[r], pkt)
      PROVE  \A m \in o.out : m.pkt.type = "DATA"
  BY <1>4 DEF handleData, Keep, forwardTo, To
<1>5. CASE e.kind = "XmitEndToEnd"
  <2>1. [type |-> "DATA", src |-> e.src, dst |-> e.dst].type = "DATA"
    OBVIOUS
  <2> QED
    BY <1>1, <1>4, <1>5, <2>1 DEF Handled, Rings
<1>6. CASE e.kind = "Recv" /\ e.pkt.type = "PING"
  BY <1>1, <1>2, <1>6 DEF Handled, Rings, handlePings
<1>7. CASE e.kind = "Recv" /\ e.pkt.type = "PONG"
  <2>1. /\ o \in handlePongs(router[r], e.dport, e.pkt, e.time) /\ r = e.dest
        /\ e.pkt.sourceID \in Others(r) /\ e.pkt.stamp \in Nat
    BY <1>1, <1>3, <1>7 DEF Handled, DVInv, ProbesOK, ProbeOK
  <2>2. \E t, n, change : o \in handleCostChange(t, n, change, e.time)
    BY <2>1 DEF handlePongs
  <2>3. \A m \in o.out : m.pkt.type = "DV"
    BY <2>2, CostChangeKind
  <2> QED
    BY <1>7, <2>3, UpdatesKind DEF Rings
<1>8. CASE e.kind = "Recv" /\ e.pkt.type = "DATA"
  BY <1>1, <1>4, <1>8 DEF Handled, Rings
<1>9. CASE e.kind = "Recv" /\ e.pkt.type = "DV"
  <2>1. o \in handleDVPacket(router[r], e.pkt, e.time) /\ r = e.dest
    BY <1>1, <1>9 DEF Handled
  <2>2. e.pkt.sourceID \in Others(r) /\ IsVector(e.pkt, e.pkt.sourceID)
    BY <1>3, <1>9, <2>1 DEF DVInv, VectorsOK, IsVector
  <2>3. o.out = {} \/ o.out = sendUpdates(o.s)
    BY <1>1, <1>2, <2>1, <2>2, VectorFacts
  <2> QED
    BY <1>9, <2>3, UpdatesKind DEF Rings
<1>10. CASE e.kind = "Alarm"
  <2>1. CASE e.type = "PingPong"
    BY <1>1, <1>10, <2>1 DEF Handled, Rings
  <2>2. CASE e.type = "Update"
    BY <1>1, <1>10, <2>2, UpdatesKind DEF Handled, Rings
  <2>3. CASE e.type = "Freshness"
    BY <1>1, <1>10, <2>3, FreshnessKind DEF Handled, Rings
  <2> QED
    BY <1>1, <1>10, <2>1, <2>2, <2>3 DEF EventFits, AlarmTypes
<1> QED
  BY <1>1, <1>5, <1>6, <1>7, <1>8, <1>9, <1>10 DEF Handled

\* A router has heard the answers to all its PINGs when the alarm for the next rings.
Quiet(e) == Rings(e, "PingPong") => \A f \in Probes : Prober(f) # e.router

\* Crossing a link, a probe goes on.
LEMMA CrossProbes ==
  ASSUME SimInv, OneProbe, NEW e \in Top(event_q), NEW f, Crosses(e, f)
  PROVE  OneProbe' /\ ProbesMove(e)
<1>1. e \in Pending /\ e.kind = "Xmit"
  BY TopFacts DEF Crosses
<1>2. f.kind = "Recv" /\ SamePacket(e, f) /\ f.time = e.time + link[Over(e)].delay /\ Dispatch(e, {f})
  BY DEF Crosses
<1>3. Prober(f) = Prober(e) /\ Over(f) = Over(e) /\ SameTrip(e, f) /\ f.pkt = e.pkt
  BY <1>2 DEF Prober, Over, Sender, SamePacket, SameTrip
<1>4. e \in Probes <=> f \in ProbesIn({f})
  BY <1>1, <1>2, <1>3 DEF Probes, ProbesIn, InFlight
<1>5. OneProbe' /\ Probes' = (Probes \ {e}) \cup ProbesIn({f})
  <2>1. ASSUME NEW g \in ProbesIn({f}), NEW h \in Probes, SameTrip(g, h)
        PROVE  h = e
    <3>1. g = f /\ e \in Probes
      BY <1>4 DEF ProbesIn
    <3> QED
      BY <1>3, <2>1, <3>1 DEF OneProbe, SameTrip
  <2>2. e \notin {f}
    BY <1>1, <1>2
  <2>3. \A g, h \in ProbesIn({f}) : SameTrip(g, h) => g = h
    BY DEF ProbesIn
  <2> QED
    BY <1>2, <2>1, <2>2, <2>3, HeapProbes
<1>6. e \in Probes => Moved(e, f)
  BY <1>1, <1>2, <1>3 DEF Moved
<1>7. \A g \in ProbesIn({f}) : g = f
  BY DEF ProbesIn
<1> QED
  BY <1>1, <1>4, <1>5, <1>6, <1>7 DEF ProbesMove, Rings

\* So it does when another event of the simulator happens.
LEMMA SpeedsProbes ==
  ASSUME SimInv, OneProbe, NEW e \in Top(event_q), Speeds(e)
  PROVE  OneProbe' /\ ProbesMove(e)
<1>1. OneProbe' /\ Probes' = (Probes \ {e}) \cup ProbesIn({})
  <2>1. ProbesIn({}) = {}
    BY DEF ProbesIn
  <2> QED
    BY <2>1, HeapProbes DEF Speeds
<1>2. e \notin Probes /\ ProbesIn({}) = {} /\ ~Rings(e, "PingPong")
  BY DEF Probes, InFlight, ProbesIn, Speeds, Rings
<1> QED
  BY <1>1, <1>2 DEF ProbesMove

\* A router answers, or sends new ones.
LEMMA RouterProbes ==
  ASSUME DVInv, OneProbe, NEW e, NEW r, NEW o, RouterStep(e, r, o), Quiet(e)
  PROVE  OneProbe' /\ ProbesMove(e)
<1> DEFINE new == XmitEvents(r, o.out, e.time) \cup SetAgain(e)
           pings == ProbesIn(new)
<1>1. /\ e \in Top(event_q) /\ e \in Pending /\ r \in Router /\ EventFits(e, global_time)
      /\ SimInv /\ Dispatch(e, new) /\ e.time \in Nat
      /\ Handled(router[r], e, r, o) /\ Sends(e, r, o.out)
  BY TopFacts, StepFollows DEF RouterStep, Turn, DVInv, SimInv, SimTypeOK, EventFits
<1>2. router[r].id = r
  BY <1>1 DEF DVInv, StatesOK, IsRouter
<1>3. \A f \in pings : f.kind = "Xmit" /\ f.time = e.time /\ \E m \in o.out : Carries(f, r, m)
  <2>1. \A f \in SetAgain(e) : f.kind = "Alarm"
    BY <1>1, AgainFacts DEF SetAgain
  <2> QED
    BY <2>1, XmitFacts DEF ProbesIn
<1>4. \A m \in o.out : \E f \in new : f.kind = "Xmit" /\ Carries(f, r, m)
  BY XmitFacts
<1>5. e \notin new
  <2>1. e.kind # "Xmit"
    BY <1>1 DEF Handled
  <2>2. \A f \in XmitEvents(r, o.out, e.time) : f.kind = "Xmit"
    BY XmitFacts
  <2>3. e \notin SetAgain(e)
    <3>1. CASE e.kind = "Alarm"
      <4>1. Period[e.type] \in Nat \ {0}
        BY <1>1, <3>1 DEF EventFits, AlarmTypes, Period, PingPeriod, UpdatePeriod, FreshnessPeriod
      <4>2. \A a \in Again(e) : a.time = e.time + Period[e.type]
        BY DEF Again, AlarmEvent
      <4> QED
        BY <1>1, <3>1, <4>1, <4>2 DEF SetAgain
    <3>2. CASE e.kind # "Alarm"
      BY <3>2 DEF SetAgain
    <3> QED
      BY <3>1, <3>2
  <2> QED
    BY <2>1, <2>2, <2>3
<1>6. \A m \in o.out : m.port \in Ports[r]
  BY <1>1 DEF Sends
<1> HIDE DEF new
<1>7. CASE Rings(e, "PingPong")
  <2>1. /\ o.out = sendPings(router[r], e.time) /\ r = e.router
        /\ \A g \in Probes : Prober(g) # r
    BY <1>7, OutKinds DEF Quiet
  <2>2. e \notin Probes
    BY <1>7 DEF Probes, InFlight, Rings
  <2>3. \A m \in o.out : m.pkt.type = "PING" /\ m.pkt.stamp = e.time
    BY <2>1 DEF sendPings, To
  <2>4. \A m, k \in o.out : m.port = k.port => m = k
    BY <2>1 DEF sendPings, To
  <2>5. ASSUME NEW f \in pings
        PROVE  /\ Starts(e, f) /\ Prober(f) = r
               /\ \E m \in o.out : f.dport = get_link_port(f.dest, Over(f)) /\ Carries(f, r, m)
                                   /\ Over(f) = LinkAt(r, m.port)
    <3>1. PICK m \in o.out : Carries(f, r, m)
      BY <1>3
    <3>2. Sender(f) = r /\ Over(f) = LinkAt(r, m.port) /\ f.pkt = m.pkt
      BY <1>1, <1>6, <3>1, CarriesFacts DEF Carries, Over
    <3>3. Starts(e, f) /\ Prober(f) = r
      BY <1>3, <1>7, <2>1, <2>3, <3>2 DEF Starts, Prober
    <3> QED
      BY <3>1, <3>2, <3>3 DEF Carries
  <2>6. ASSUME NEW f \in pings, NEW g \in pings, Over(f) = Over(g)
        PROVE  f = g
    <3>1. PICK m \in o.out : Carries(f, r, m) /\ Over(f) = LinkAt(r, m.port)
      BY <2>5
    <3>2. PICK k \in o.out : Carries(g, r, k) /\ Over(g) = LinkAt(r, k.port)
      BY <2>5
    <3>3. m = k
      BY <1>1, <1>6, <2>4, <2>6, <3>1, <3>2, LinkAtFacts
    <3>4. f \in XmitEvents(r, o.out, e.time) /\ g \in XmitEvents(r, o.out, e.time)
      <4>1. \A h \in SetAgain(e) : h.kind = "Alarm"
        BY <1>1, AgainFacts DEF SetAgain
      <4> QED
        BY <1>3, <4>1 DEF ProbesIn, new
    <3>5. f.dest = g.dest /\ f.dport = g.dport /\ f.pkt = g.pkt
      BY <3>1, <3>2, <3>3 DEF Carries
    <3>6. f.link = g.link
      BY <1>1, <1>6, <3>4, <3>5, XmitFits DEF EventFits
    <3> QED
      BY <3>4, <3>5, <3>6 DEF XmitEvents
  <2>7. OneProbe' /\ Probes' = (Probes \ {e}) \cup pings
    <3>1. \A f \in pings : \A g \in Probes : ~SameTrip(f, g)
      BY <2>1, <2>5 DEF SameTrip
    <3>2. \A f, g \in pings : SameTrip(f, g) => f = g
      BY <2>6 DEF SameTrip
    <3> HIDE DEF pings
    <3> QED
      BY <1>1, <1>5, <3>1, <3>2, HeapProbes DEF pings
  <2>8. ASSUME NEW l \in LinksOf(r)
        PROVE  \E f \in pings : Starts(e, f) /\ Over(f) = l
    <3>1. get_link_port(r, l) \in Ports[r] /\ LinkAt(r, get_link_port(r, l)) = l
      BY <1>1, PeerFacts, LinkAtPort
    <3>2. PICK m \in o.out : m.port = get_link_port(r, l)
      <4> DEFINE p == get_link_port(r, l)
                 ping == To(p, [type |-> "PING", sourceID |-> router[r].id, stamp |-> e.time])
      <4>1. ping \in o.out
        BY <1>2, <2>1, <3>1 DEF sendPings
      <4>2. ping.port = p
        BY DEF To
      <4> QED
        BY <4>1, <4>2
    <3>3. PICK f \in new : f.kind = "Xmit" /\ Carries(f, r, m)
      BY <1>4
    <3>4. f \in pings
      BY <2>3, <3>3 DEF ProbesIn, Carries
    <3>5. Over(f) = l
      BY <1>1, <1>6, <3>1, <3>2, <3>3, CarriesFacts DEF Over
    <3> QED
      BY <2>5, <3>4, <3>5
  <2> HIDE DEF pings
  <2> QED
    BY <2>1, <2>2, <2>5, <2>7, <2>8 DEF ProbesMove
<1>8. CASE e.kind = "Recv" /\ e.pkt.type = "PING"
  <2> DEFINE pong == To(e.dport, [type |-> "PONG", sourceID |-> r, stamp |-> e.pkt.stamp])
  <2>1. o.out = {pong} /\ r = e.dest
    BY <1>8, OutKinds
  <2>2. pong.port = e.dport /\ pong.pkt.type = "PONG" /\ pong.pkt.stamp = e.pkt.stamp
    BY DEF To
  <2> HIDE DEF pong
  <2>3. e \in Probes
    BY <1>1, <1>8 DEF Probes, InFlight
  <2>4. ASSUME NEW f \in new, f.kind = "Xmit", Carries(f, r, pong)
        PROVE  SameTrip(e, f) /\ f.pkt.type = "PONG" /\ f.pkt.stamp = e.pkt.stamp
    <3>1. Over(f) = Over(e)
      BY <1>1, <1>6, <2>1, <2>2, <2>4, CarriesFacts DEF Over
    <3>2. f.dest = Sender(e) /\ f.pkt = pong.pkt
      BY <2>1, <2>2, <2>4 DEF Carries, Sender
    <3> QED
      BY <1>8, <2>2, <3>1, <3>2 DEF SameTrip, Prober
  <2>5. \A f \in pings : Moved(e, f)
    <3> SUFFICES ASSUME NEW f \in pings PROVE Moved(e, f)
      OBVIOUS
    <3>1. f \in new /\ f.kind = "Xmit" /\ f.time = e.time /\ Carries(f, r, pong)
      BY <1>3, <2>1 DEF ProbesIn
    <3> QED
      BY <1>8, <2>4, <3>1 DEF Moved
  <2>6. \E f \in pings : Moved(e, f)
    <3>1. PICK f \in new : f.kind = "Xmit" /\ Carries(f, r, pong)
      BY <1>4, <2>1
    <3>2. f \in pings
      BY <2>4, <3>1 DEF ProbesIn
    <3> QED
      BY <2>5, <3>2
  <2>7. ASSUME NEW f \in pings, NEW g \in pings
        PROVE  f = g
    <3>1. Carries(f, r, pong) /\ Carries(g, r, pong)
      BY <1>3, <2>1
    <3>2. f \in XmitEvents(r, o.out, e.time) /\ g \in XmitEvents(r, o.out, e.time)
      <4>1. SetAgain(e) = {}
        BY <1>8 DEF SetAgain
      <4> QED
        BY <4>1 DEF ProbesIn, new
    <3> QED
      BY <2>1, <3>1, <3>2 DEF XmitEvents
  <2>8. OneProbe' /\ Probes' = (Probes \ {e}) \cup pings
    <3>1. \A f \in pings : \A g \in Probes : SameTrip(f, g) => g = e
      BY <2>3, <2>5 DEF SameTrip, Moved, OneProbe
    <3>2. \A f, g \in pings : SameTrip(f, g) => f = g
      BY <2>7
    <3> HIDE DEF pings
    <3> QED
      BY <1>1, <1>5, <3>1, <3>2, HeapProbes DEF pings
  <2> HIDE DEF pings
  <2> QED
    BY <1>8, <2>3, <2>5, <2>6, <2>8 DEF ProbesMove, Rings
<1>9. CASE ~Rings(e, "PingPong") /\ ~(e.kind = "Recv" /\ e.pkt.type = "PING")
  <2>1. \A m \in o.out : m.pkt.type \in {"DV", "DATA"}
    BY <1>9, OutKinds
  <2>2. pings = {}
    BY <1>3, <2>1 DEF ProbesIn, Carries
  <2>3. OneProbe' /\ Probes' = (Probes \ {e}) \cup pings
    <3> HIDE DEF pings
    <3> QED
      BY <1>1, <1>5, <2>2, HeapProbes DEF pings
  <2>4. e \in Probes => e.kind = "Recv" /\ e.pkt.type = "PONG"
    <3>1. e.kind # "Xmit"
      BY <1>1 DEF Handled
    <3> QED
      BY <1>9, <3>1 DEF Probes, InFlight
  <2> HIDE DEF pings
  <2> QED
    BY <1>9, <2>2, <2>3, <2>4 DEF ProbesMove
<1> QED
  BY <1>7, <1>8, <1>9

-----------------------------------------------------------------------------
\* What PINGs and PONGs measure.

\* The router at the other end of the link, and the age of the probe.
Target(f) == Peer(Prober(f), Over(f))
Age(f)    == f.time - f.pkt.stamp

LEMMA ProbeFacts ==
  ASSUME NEW f, NEW now, EventFits(f, now), ProbeOK(f),
         f.kind \in {"Xmit", "Recv"}, f.pkt.type \in {"PING", "PONG"}
  PROVE  /\ f.time \in Nat /\ f.pkt.stamp \in Nat /\ f.pkt.stamp <= f.time
         /\ Prober(f) \in Router /\ Over(f) \in LinksOf(Prober(f)) /\ Over(f) \in DOMAIN Links
         /\ Target(f) \in Router \ {Prober(f)}
         /\ f.pkt.type = "PONG" => Prober(f) = f.dest /\ Target(f) = f.pkt.sourceID
<1>1. /\ f.dest \in Router /\ f.dport \in Ports[f.dest] /\ f.time \in Nat
      /\ f.pkt.sourceID = Sender(f) /\ f.pkt.stamp \in Nat /\ f.pkt.stamp <= f.time
  BY DEF EventFits, ProbeOK
<1>2. Over(f) \in LinksOf(f.dest)
  BY <1>1, LinkAtFacts DEF Over
<1>3. /\ Over(f) \in DOMAIN Links /\ Sender(f) = Peer(f.dest, Over(f))
      /\ Sender(f) \in Router \ {f.dest}
      /\ Over(f) \in LinksOf(Sender(f)) /\ Peer(Sender(f), Over(f)) = f.dest
  BY <1>1, <1>2, PeerFacts DEF Over, Sender
<1> QED
  BY <1>1, <1>2, <1>3 DEF Prober, Target

\* What it takes to cross the link as often as probe f has, at c each time.
Crossed(f, c) ==
  CASE f.pkt.type = "PING" /\ f.kind = "Xmit" -> 0
    [] f.pkt.type = "PONG" /\ f.kind = "Recv" -> 2 * c
    [] OTHER -> c

LEMMA CrossedFacts ==
  ASSUME NEW f, NEW c \in Nat
  PROVE  /\ Crossed(f, c) \in Nat
         /\ \A k \in Nat : k <= c => Crossed(f, k) <= Crossed(f, c)
BY DEF Crossed

\* No probe is younger than its link, as fast as it is now, allows, nor did any cross one
\* before it could have as it was at first.
ProbesAged ==
  \A f \in Probes :
    /\ Age(f) >= Crossed(f, link[Over(f)].delay)
    /\ f.time >= Crossed(f, Links[Over(f)].delay)

\* Probes were sent when the alarm for them rang last.
ProbesStamped ==
  \A f \in Probes : \A a \in Pending :
    AlarmOf(a, Prober(f), "PingPong") => a.time = f.pkt.stamp + PingPeriod

\* At the next alarm, none of them is left.
LEMMA ProbesQuiet ==
  ASSUME SimInv, ProbesOK, NEW D \in Nat, D <= 2500, ProbesInTime(D), ProbesStamped,
         NEW e \in Top(event_q)
  PROVE  Quiet(e)
<1> SUFFICES ASSUME Rings(e, "PingPong"), NEW f \in Probes, Prober(f) = e.router
             PROVE  FALSE
  BY DEF Quiet
<1>1. e \in Pending /\ f \in Pending /\ e.time <= f.time /\ EventFits(f, global_time) /\ e.time \in Nat
  BY TopFacts DEF SimInv, Probes, InFlight, EventFits
<1>2. f.time \in Nat /\ f.pkt.stamp \in Nat /\ ProbeOK(f) /\ InTime(f, D)
  BY <1>1, ProbeFacts DEF Probes, InFlight, ProbesOK, ProbesInTime
<1>3. e.time = f.pkt.stamp + 10000
  BY <1>1 DEF ProbesStamped, Rings, AlarmOf, PingPeriod
<1>4. f.time - f.pkt.stamp <= D + D
  BY <1>2 DEF InTime
<1> QED
  BY <1>1, <1>2, <1>3, <1>4

\* The alarms for PINGs after event e.
AlarmsNext(e) ==
  \A r \in Router : \A a \in Pending' : AlarmOf(a, r, "PingPong") =>
    IF Rings(e, "PingPong") /\ e.router = r THEN a.time = e.time + PingPeriod ELSE a \in Pending

LEMMA NextAlarms ==
  ASSUME SimInv, OneAlarmEach, NEW e \in Top(event_q), NEW new, Dispatch(e, new),
         \A f \in new : f.kind = "Alarm" => f \in SetAgain(e), SetAgain(e) \subseteq new
  PROVE  AlarmsNext(e)
<1>1. OneAlarmEach'
  BY AlarmsKept
<1>2. Pending' \subseteq Pending \cup new /\ new \subseteq Pending' /\ EventFits(e, global_time)
  BY DispatchPending, TopFacts DEF Pending, SimInv
<1> SUFFICES ASSUME NEW r \in Router, NEW a \in Pending', AlarmOf(a, r, "PingPong")
             PROVE  IF Rings(e, "PingPong") /\ e.router = r THEN a.time = e.time + PingPeriod
                    ELSE a \in Pending
  BY DEF AlarmsNext
<1>3. CASE Rings(e, "PingPong") /\ e.router = r
  <2> DEFINE b == AlarmEvent(r, "PingPong", e.time, Period["PingPong"])
  <2>1. SetAgain(e) = {b}
    BY <1>3 DEF SetAgain, Again, Rings
  <2>2. b.time = e.time + PingPeriod /\ AlarmOf(b, r, "PingPong")
    BY DEF AlarmEvent, AlarmOf, Period
  <2> HIDE DEF b
  <2>3. b \in Pending'
    BY <1>2, <2>1
  <2>4. PICK c \in Pending' : \A f \in Pending' : AlarmOf(f, r, "PingPong") => f = c
    BY <1>1 DEF OneAlarmEach, AlarmOf, AlarmTypes
  <2> QED
    BY <1>3, <2>2, <2>3, <2>4
<1>4. CASE ~(Rings(e, "PingPong") /\ e.router = r)
  <2>1. a \notin new
    BY <1>2, <1>4, AgainFacts DEF AlarmOf, SetAgain, Rings
  <2> QED
    BY <1>2, <1>4, <2>1
<1> QED
  BY <1>3, <1>4

\* What event e does as far as PINGs and PONGs go.
Measures(e) ==
  /\ e \in Top(event_q) /\ global_time' = e.time
  /\ ProbesMove(e) /\ AlarmsNext(e) /\ Quiet(e)
  /\ \A l \in DOMAIN Links : link'[l].delay <= link[l].delay

\* The invariants that it can rely on.
ProbeInv(D) ==
  /\ SimInv /\ OneAlarmEach /\ ProbesOK /\ ProbesInTime(D)
  /\ LinksFaster /\ OneProbe /\ ProbesAged /\ ProbesStamped

\* Ages keep up with the links.
LEMMA AgedKept ==
  ASSUME NEW D \in Nat, ProbeInv(D), NEW e, Measures(e), SimInv', ProbesOK'
  PROVE  ProbesAged'
<1> SUFFICES ASSUME NEW f \in Probes'
             PROVE  /\ Age(f) >= Crossed(f, link'[Over(f)].delay)
                    /\ f.time >= Crossed(f, Links[Over(f)].delay)
  BY DEF ProbesAged, Age, Crossed, Over, LinkAt, LinksOf, get_link_port
<1> DEFINE c  == link[Over(f)].delay
           c1 == link'[Over(f)].delay
           C  == Links[Over(f)].delay
<1>1. /\ f.time \in Nat /\ f.pkt.stamp \in Nat /\ f.pkt.stamp <= f.time
      /\ Over(f) \in DOMAIN Links
  BY ProbeFacts DEF SimInv, ProbesOK, Probes, InFlight
<1>2. c \in Nat /\ c1 \in Nat /\ c1 <= c /\ C \in Nat
  BY <1>1, LinksAssumption DEF SimInv, SimTypeOK, Measures, ProbeInv
<1>3. CASE f \in Probes
  <2>1. Age(f) >= Crossed(f, c) /\ f.time >= Crossed(f, C)
    BY <1>3 DEF ProbeInv, ProbesAged
  <2>2. Crossed(f, c1) \in Nat /\ Crossed(f, c) \in Nat /\ Crossed(f, c1) <= Crossed(f, c)
    BY <1>2, CrossedFacts
  <2> QED
    BY <1>1, <2>1, <2>2 DEF Age
<1>4. ASSUME e \in Probes, Moved(e, f)
      PROVE  /\ Age(f) >= Crossed(f, c1)
             /\ f.time >= Crossed(f, C)
  <2>1. /\ e.time \in Nat /\ e.pkt.stamp = f.pkt.stamp /\ Over(e) = Over(f)
        /\ Age(e) >= Crossed(e, c) /\ e.time >= Crossed(e, C)
    BY <1>4, ProbeFacts DEF ProbeInv, ProbesAged, SimInv, ProbesOK, Probes, InFlight, Moved, SameTrip
  <2>2. c = C \/ e.time >= 2 * C
    <3>1. e.time >= global_time /\ global_time \in Nat
      BY <1>4 DEF ProbeInv, SimInv, SimTypeOK, EventFits, Probes, InFlight
    <3> QED
      BY <1>1, <1>2, <2>1, <3>1 DEF ProbeInv, LinksFaster
  <2>3. CASE e.kind = "Xmit" /\ f.kind = "Recv" /\ f.pkt.type = e.pkt.type /\ f.time = e.time + c
    <3>1. e.pkt.type \in {"PING", "PONG"}
      BY <1>4 DEF Probes
    <3> HIDE DEF c, c1, C
    <3>2. CASE e.pkt.type = "PING"
      BY <1>1, <1>2, <2>1, <2>2, <2>3, <3>2 DEF Crossed, Age
    <3>3. CASE e.pkt.type = "PONG"
      BY <1>1, <1>2, <2>1, <2>2, <2>3, <3>3 DEF Crossed, Age
    <3> QED
      BY <3>1, <3>2, <3>3
  <2>4. CASE /\ e.kind = "Recv" /\ e.pkt.type = "PING" /\ f.kind = "Xmit" /\ f.pkt.type = "PONG"
             /\ f.time = e.time
    <3> HIDE DEF c, c1, C
    <3> QED
      BY <1>1, <1>2, <2>1, <2>4 DEF Crossed, Age
  <2> QED
    BY <1>4, <2>1, <2>3, <2>4 DEF Moved
<1>5. ASSUME Starts(e, f)
      PROVE  /\ Age(f) >= Crossed(f, c1)
             /\ f.time >= Crossed(f, C)
  BY <1>1, <1>5 DEF Starts, Crossed, Age
<1> QED
  BY <1>3, <1>4, <1>5 DEF Measures, ProbesMove

\* So do stamps with the alarms.
LEMMA StampedKept ==
  ASSUME NEW D \in Nat, ProbeInv(D), NEW e, Measures(e), SimInv', ProbesOK'
  PROVE  ProbesStamped'
<1> SUFFICES ASSUME NEW f \in Probes', NEW a \in Pending', AlarmOf(a, Prober(f), "PingPong")
             PROVE  a.time = f.pkt.stamp + PingPeriod
  BY Zenon DEF ProbesStamped, AlarmOf, Prober, Sender, LinkAt, LinksOf, Peer, get_link_port
<1>1. Prober(f) \in Router
  BY ProbeFacts DEF SimInv, ProbesOK, Probes, InFlight
<1>2. CASE Starts(e, f)
  BY <1>1, <1>2 DEF Measures, AlarmsNext, Starts
<1>3. ASSUME NEW g \in Probes, Prober(g) = Prober(f), g.pkt.stamp = f.pkt.stamp
      PROVE  a.time = f.pkt.stamp + PingPeriod
  <2>1. ~(Rings(e, "PingPong") /\ e.router = Prober(f))
    BY <1>3 DEF Measures, Quiet
  <2>2. a \in Pending
    BY <1>1, <2>1 DEF Measures, AlarmsNext
  <2> QED
    BY <1>3, <2>2 DEF ProbeInv, ProbesStamped
<1> QED
  BY <1>2, <1>3, SMTT(40) DEF Measures, ProbesMove, Moved, SameTrip

-----------------------------------------------------------------------------
\* What routers know of their neighbours.

\* No two links of a router lead to the same neighbour.
OneLinkEach == \A r \in Router : \A k, l \in LinksOf(r) : Peer(r, k) = Peer(r, l) => k = l

\* Probe e is a PONG that arrives at its router over link l.
Ends(e, r, l) == e.kind = "Recv" /\ e.pkt.type = "PONG" /\ r = e.dest /\ l = Over(e)

\* Only a PONG changes what a router knows of ports and neighbours.
KnowsNext(e) ==
  \A r \in Router :
    IF e.kind = "Recv" /\ e.pkt.type = "PONG" /\ r = e.dest
    THEN Learned(router[r], router'[r], e.dport, e.pkt.sourceID,
                 RoundTripCost(e.time, e.pkt.stamp), e.time)
    ELSE /\ router'[r].portStatus = router[r].portStatus
         /\ router'[r].adjacencyList = router[r].adjacencyList

\* The same, link by link: what r knows of its link l to n is the same in s and u, or the
\* round trip of e is all it knows.
KnowledgeOf(s, u, e, r, l) ==
  LET p == get_link_port(r, l)
      n == Peer(r, l)
  IN IF Ends(e, r, l)
     THEN /\ p \in DOMAIN u.portStatus /\ u.portStatus[p].lastUpdate = e.time
          /\ n \in DOMAIN u.adjacencyList /\ u.adjacencyList[n].timeCost = Age(e)
     ELSE /\ p \in DOMAIN u.portStatus <=> p \in DOMAIN s.portStatus
          /\ p \in DOMAIN s.portStatus => u.portStatus[p] = s.portStatus[p]
          /\ n \in DOMAIN u.adjacencyList <=> n \in DOMAIN s.adjacencyList
          /\ n \in DOMAIN s.adjacencyList => u.adjacencyList[n] = s.adjacencyList[n]

LEMMA RoundTripIsAge ==
  ASSUME NEW D \in Nat, D <= 2500, NEW now \in Nat, NEW stamp \in Nat, stamp <= now,
         now - stamp <= D + D
  PROVE  RoundTripCost(now, stamp) = now - stamp
<1>1. now - stamp \in Int /\ 0 <= now - stamp /\ now - stamp <= 65535
  BY SMT
<1>2. now - stamp \in Cost
  BY <1>1, CostRange
<1> QED
  BY <1>2, AsCostFacts DEF RoundTripCost

\* What is known of a PONG that arrives.
LEMMA PongFacts ==
  ASSUME NEW D \in Nat, D <= 2500, ProbeInv(D), NEW e \in Top(event_q),
         e.kind = "Recv", e.pkt.type = "PONG"
  PROVE  /\ e \in Probes /\ e.dest \in Router /\ Over(e) \in LinksOf(e.dest)
         /\ Prober(e) = e.dest /\ Target(e) = e.pkt.sourceID /\ Peer(e.dest, Over(e)) = e.pkt.sourceID
         /\ e.pkt.sourceID \in Others(e.dest)
         /\ e.dport = get_link_port(e.dest, Over(e)) /\ e.dport \in Ports[e.dest]
         /\ e.time \in Nat /\ e.pkt.stamp \in Nat /\ e.pkt.stamp <= e.time
         /\ RoundTripCost(e.time, e.pkt.stamp) = Age(e) /\ Age(e) \in Nat /\ Age(e) <= 2 * D
         /\ 2 * link[Over(e)].delay <= Age(e) /\ 2 * Links[Over(e)].delay <= e.time
<1>1. e \in Probes /\ e \in InFlight /\ EventFits(e, global_time) /\ ProbeOK(e) /\ InTime(e, D)
  BY TopFacts DEF ProbeInv, SimInv, ProbesOK, ProbesInTime, Probes, InFlight
<1>2. /\ e.time \in Nat /\ e.pkt.stamp \in Nat /\ e.pkt.stamp <= e.time
      /\ Prober(e) = e.dest /\ Target(e) = e.pkt.sourceID /\ Target(e) \in Router \ {Prober(e)}
      /\ Over(e) \in LinksOf(e.dest) /\ e.dest \in Router
  BY <1>1, ProbeFacts
<1>3. Age(e) <= D + D /\ Age(e) \in Nat
  BY <1>1, <1>2 DEF InTime, Age
<1>4. RoundTripCost(e.time, e.pkt.stamp) = Age(e)
  BY <1>2, <1>3, RoundTripIsAge DEF Age
<1>5. e.dport \in Ports[e.dest] /\ get_link_port(e.dest, Over(e)) = e.dport
  BY <1>1, <1>2, LinkAtFacts DEF EventFits, Over
<1>6. 2 * link[Over(e)].delay <= Age(e) /\ 2 * Links[Over(e)].delay <= e.time
  BY <1>1 DEF ProbeInv, ProbesAged, Crossed
<1> QED
  BY <1>1, <1>2, <1>3, <1>4, <1>5, <1>6 DEF Target, Others

LEMMA KnowledgeFacts ==
  ASSUME NEW D \in Nat, D <= 2500, ProbeInv(D), OneLinkEach, NEW e \in Top(event_q), KnowsNext(e),
         NEW r \in Router, NEW l \in LinksOf(r)
  PROVE  KnowledgeOf(router[r], router'[r], e, r, l)
<1> DEFINE s == router[r]
           u == router'[r]
           p == get_link_port(r, l)
           n == Peer(r, l)
<1>1. CASE e.kind = "Recv" /\ e.pkt.type = "PONG" /\ r = e.dest
  <2>1. /\ Learned(s, u, e.dport, e.pkt.sourceID, RoundTripCost(e.time, e.pkt.stamp), e.time)
        /\ RoundTripCost(e.time, e.pkt.stamp) = Age(e)
        /\ e.dport = get_link_port(r, Over(e)) /\ e.pkt.sourceID = Peer(r, Over(e))
        /\ Over(e) \in LinksOf(r)
    BY <1>1, PongFacts DEF KnowsNext
  <2>2. l # Over(e) => p # e.dport /\ n # e.pkt.sourceID
    BY <2>1, PortUnique DEF OneLinkEach
  <2>3. l = Over(e) => p = e.dport /\ n = e.pkt.sourceID
    BY <2>1
  <2> HIDE DEF s, u, p, n
  <2>4. CASE l = Over(e)
    BY <1>1, <2>1, <2>3, <2>4 DEF Learned, Store, KnowledgeOf, Ends, s, u, p, n
  <2>5. CASE l # Over(e)
    BY <1>1, <2>1, <2>2, <2>5 DEF Learned, Store, KnowledgeOf, Ends, s, u, p, n
  <2> QED
    BY <2>4, <2>5
<1>2. CASE ~(e.kind = "Recv" /\ e.pkt.type = "PONG" /\ r = e.dest)
  BY <1>2 DEF KnowsNext, KnowledgeOf, Ends
<1> QED
  BY <1>1, <1>2

\* Routers only know neighbours they have measured: each port with its neighbour, no faster
\* than the link is now, and not before a PONG can have come over it.
PortsMeasured(D) ==
  \A r \in Router : LET s == router[r] IN
    /\ \A n \in DOMAIN s.adjacencyList : \E l \in LinksOf(r) : n = Peer(r, l)
    /\ \A l \in LinksOf(r) : LET n == Peer(r, l) IN
         /\ get_link_port(r, l) \in DOMAIN s.portStatus <=> n \in DOMAIN s.adjacencyList
         /\ n \in DOMAIN s.adjacencyList =>
              /\ s.adjacencyList[n].timeCost >= 2 * link[l].delay
              /\ s.adjacencyList[n].timeCost <= 2 * D
              /\ global_time >= 2 * Links[l].delay

\* A probe on its way will not find a link slower than was measured before.
NoSlower(f, cost) ==
  CASE f.pkt.type = "PING" /\ f.kind = "Xmit" -> TRUE
    [] f.pkt.type = "PONG" /\ f.kind = "Recv" -> Age(f) <= cost
    [] OTHER -> 2 * Age(f) <= cost

RoundTripsFall ==
  \A f \in Probes : LET adj == router[Prober(f)].adjacencyList IN
    Target(f) \in DOMAIN adj => NoSlower(f, adj[Target(f)].timeCost)

\* The first probe to a neighbour that is not known is on its way.
FirstAwaited ==
  \A r \in Router : \A l \in LinksOf(r) : Peer(r, l) \notin DOMAIN router[r].adjacencyList =>
    \E f \in Probes : /\ Prober(f) = r /\ Over(f) = l
                      /\ f.time <= Crossed(f, Links[l].delay)

\* The ports of neighbours that are known are renewed between any two alarms.
PortsRenewed ==
  \A r \in Router : \A l \in LinksOf(r) : \A a \in Pending :
    LET last == router[r].portStatus[get_link_port(r, l)].lastUpdate IN
    AlarmOf(a, r, "PingPong") /\ Peer(r, l) \in DOMAIN router[r].adjacencyList =>
      /\ last + 2 * PingPeriod >= a.time
      /\ last + PingPeriod >= a.time \/ \E f \in Probes : Prober(f) = r /\ Over(f) = l

LEMMA PortsMeasuredKept ==
  ASSUME NEW D \in Nat, D <= 2500, ProbeInv(D), OneLinkEach, NEW e, Measures(e), KnowsNext(e),
         \A r \in Router : \A n \in DOMAIN router[r].adjacencyList :
           router[r].adjacencyList[n].timeCost \in Nat,
         SimInv', PortsMeasured(D)
  PROVE  PortsMeasured(D)'
<1>1. /\ e \in Top(event_q) /\ global_time' = e.time /\ global_time <= e.time
      /\ e.time \in Nat /\ global_time \in Nat
  BY TopFacts DEF Measures, ProbeInv, SimInv, SimTypeOK, EventFits
<1>2. \A l \in DOMAIN Links : /\ link[l].delay \in Nat /\ link'[l].delay \in Nat /\ Links[l].delay \in Nat
                              /\ link'[l].delay <= link[l].delay
  BY LinksAssumption DEF Measures, ProbeInv, SimInv, SimTypeOK
<1>3. ASSUME NEW r \in Router, NEW l \in LinksOf(r)
      PROVE  LET s == router[r]
                 u == router'[r]
                 n == Peer(r, l)
             IN /\ get_link_port(r, l) \in DOMAIN u.portStatus <=> n \in DOMAIN u.adjacencyList
                /\ n \in DOMAIN u.adjacencyList =>
                     /\ u.adjacencyList[n].timeCost >= 2 * link'[l].delay
                     /\ u.adjacencyList[n].timeCost <= 2 * D
                     /\ global_time' >= 2 * Links[l].delay
  <2>1. l \in DOMAIN Links
    BY PeerFacts
  <2>2. KnowledgeOf(router[r], router'[r], e, r, l)
    BY <1>1, KnowledgeFacts
  <2>3. CASE Ends(e, r, l)
    <3>1. /\ 2 * link[l].delay <= Age(e) /\ 2 * Links[l].delay <= e.time
          /\ Age(e) \in Nat /\ Age(e) <= 2 * D
      BY <1>1, <2>3, PongFacts DEF Ends
    <3>2. 2 * link'[l].delay <= Age(e)
      BY <1>2, <2>1, <3>1
    <3> QED
      BY <1>1, <2>2, <2>3, <3>1, <3>2 DEF KnowledgeOf
  <2>4. CASE ~Ends(e, r, l)
    <3>1. Peer(r, l) \in DOMAIN router[r].adjacencyList =>
            /\ router[r].adjacencyList[Peer(r, l)].timeCost >= 2 * link'[l].delay
            /\ router[r].adjacencyList[Peer(r, l)].timeCost <= 2 * D
            /\ global_time' >= 2 * Links[l].delay
      BY <1>1, <1>2, <2>1 DEF PortsMeasured
    <3> QED
      BY <2>2, <2>4, <3>1 DEF KnowledgeOf, PortsMeasured
  <2> QED
    BY <2>3, <2>4
<1>4. ASSUME NEW r \in Router, NEW n \in DOMAIN router'[r].adjacencyList
      PROVE  \E l \in LinksOf(r) : n = Peer(r, l)
  <2>1. CASE e.kind = "Recv" /\ e.pkt.type = "PONG" /\ r = e.dest
    <3>1. n \in DOMAIN router[r].adjacencyList \/ n = e.pkt.sourceID
      <4>1. Learned(router[r], router'[r], e.dport, e.pkt.sourceID,
                  RoundTripCost(e.time, e.pkt.stamp), e.time)
        BY <2>1 DEF KnowsNext
      <4>2. DOMAIN router'[r].adjacencyList = DOMAIN router[r].adjacencyList \cup {e.pkt.sourceID}
        BY <4>1 DEF Learned, Store
      <4> QED
        BY <4>2
    <3> QED
      BY <1>1, <2>1, <3>1, PongFacts DEF PortsMeasured
  <2>2. CASE ~(e.kind = "Recv" /\ e.pkt.type = "PONG" /\ r = e.dest)
    BY <2>2 DEF KnowsNext, PortsMeasured
  <2> QED
    BY <2>1, <2>2
<1> QED
  BY <1>3, <1>4 DEF PortsMeasured, Peer, LinksOf, get_link_port
\* Another probe for the link that a PONG measured is not on its way, so what it measured
\* can only be undercut.
LEMMA RoundTripsKept ==
  ASSUME NEW D \in Nat, D <= 2500, ProbeInv(D), OneLinkEach, NEW e, Measures(e), KnowsNext(e),
         \A r \in Router : \A n \in DOMAIN router[r].adjacencyList :
           router[r].adjacencyList[n].timeCost \in Nat,
         SimInv', ProbesOK', PortsMeasured(D), RoundTripsFall
  PROVE  RoundTripsFall'
<1> SUFFICES ASSUME NEW f \in Probes', Target(f) \in DOMAIN router'[Prober(f)].adjacencyList
             PROVE  NoSlower(f, router'[Prober(f)].adjacencyList[Target(f)].timeCost)
  BY DEF RoundTripsFall
<1> DEFINE r == Prober(f)
           l == Over(f)
           m == router[r].adjacencyList[Target(f)].timeCost
<1>1. /\ r \in Router /\ l \in LinksOf(r) /\ l \in DOMAIN Links /\ Target(f) = Peer(r, l)
      /\ f.time \in Nat /\ f.pkt.stamp \in Nat /\ f.pkt.stamp <= f.time
  BY ProbeFacts DEF SimInv, ProbesOK, Probes, InFlight, Target
<1>2. e \in Top(event_q) /\ KnowledgeOf(router[r], router'[r], e, r, l)
  BY <1>1, KnowledgeFacts DEF Measures
<1>3. ASSUME ~Ends(e, r, l)
      PROVE  /\ router'[r].adjacencyList[Target(f)].timeCost = m
             /\ Target(f) \in DOMAIN router[r].adjacencyList
             /\ m \in Nat
  BY <1>1, <1>2, <1>3 DEF KnowledgeOf
<1>4. CASE f \in Probes /\ f # e
  <2>1. ~Ends(e, r, l)
    <3> SUFFICES ASSUME Ends(e, r, l) PROVE FALSE
      OBVIOUS
    <3>1. e \in Probes /\ Prober(e) = r
      BY <1>2, PongFacts DEF Ends
    <3>2. SameTrip(e, f)
      BY <3>1 DEF SameTrip, Ends
    <3> QED
      BY <1>4, <3>1, <3>2 DEF ProbeInv, OneProbe
  <2> QED
    BY <1>3, <1>4, <2>1 DEF RoundTripsFall
<1>5. CASE e \in Probes /\ Moved(e, f)
  <2>1. Prober(e) = r /\ Over(e) = l /\ Target(e) = Target(f) /\ e.pkt.stamp = f.pkt.stamp
    BY <1>5 DEF Moved, SameTrip, Target
  <2>2. ~Ends(e, r, l)
    BY <1>5 DEF Ends, Moved
  <2>3. NoSlower(e, m) /\ m \in Nat
    BY <1>3, <1>5, <2>1, <2>2 DEF RoundTripsFall
  <2>4. link[l].delay \in Nat /\ 2 * link[l].delay <= m
    BY <1>1, <1>3, <2>2 DEF PortsMeasured, ProbeInv, SimInv, SimTypeOK
  <2>5. e.time \in Nat /\ InTime(e, D) /\ Age(e) >= Crossed(e, link[l].delay)
    BY <1>5, <2>1, ProbeFacts DEF ProbeInv, ProbesAged, ProbesInTime, SimInv, ProbesOK, Probes, InFlight
  <2>6. NoSlower(f, m)
    <3> HIDE DEF m, l
    <3>1. CASE e.kind = "Xmit" /\ f.kind = "Recv" /\ f.pkt.type = e.pkt.type /\ f.time = e.time + link[l].delay
      <4>1. e.pkt.type \in {"PING", "PONG"}
        BY <1>5 DEF Probes
      <4>2. CASE e.pkt.type = "PING"
        BY <1>1, <2>1, <2>4, <2>5, <3>1, <4>2 DEF NoSlower, Age, InTime
      <4>3. CASE e.pkt.type = "PONG"
        BY <1>1, <2>1, <2>3, <2>4, <2>5, <3>1, <4>3 DEF NoSlower, Age, Crossed
      <4> QED
        BY <4>1, <4>2, <4>3
    <3>2. CASE /\ e.kind = "Recv" /\ e.pkt.type = "PING" /\ f.kind = "Xmit" /\ f.pkt.type = "PONG"
               /\ f.time = e.time
      BY <1>1, <2>1, <2>3, <2>5, <3>2 DEF NoSlower, Age
    <3> QED
      BY <1>5, <2>1, <3>1, <3>2 DEF Moved
  <2> QED
    BY <1>3, <2>2, <2>6
<1>6. CASE Starts(e, f)
  BY <1>6 DEF Starts, NoSlower
<1> QED
  BY <1>4, <1>5, <1>6 DEF Measures, ProbesMove

\* Until it is known, a neighbour's first probe goes on.
LEMMA FirstAwaitedKept ==
  ASSUME NEW D \in Nat, D <= 2500, ProbeInv(D), OneLinkEach, NEW e, Measures(e), KnowsNext(e),
         FirstAwaited
  PROVE  FirstAwaited'
<1> SUFFICES ASSUME NEW r \in Router, NEW l \in LinksOf(r),
                    Peer(r, l) \notin DOMAIN router'[r].adjacencyList
             PROVE  \E f \in Probes' : /\ Prober(f) = r /\ Over(f) = l
                                       /\ f.time <= Crossed(f, Links[l].delay)
  BY DEF FirstAwaited
<1>1. e \in Top(event_q) /\ KnowledgeOf(router[r], router'[r], e, r, l) /\ l \in DOMAIN Links
  BY KnowledgeFacts, PeerFacts DEF Measures
<1>2. ~Ends(e, r, l) /\ Peer(r, l) \notin DOMAIN router[r].adjacencyList
  BY <1>1 DEF KnowledgeOf
<1>3. PICK f \in Probes : Prober(f) = r /\ Over(f) = l /\ f.time <= Crossed(f, Links[l].delay)
  BY <1>2 DEF FirstAwaited
<1>4. CASE f # e
  BY <1>3, <1>4 DEF Measures, ProbesMove
<1>5. CASE f = e
  <2>1. /\ e \in Probes /\ e.time \in Nat /\ e.pkt.type \in {"PING", "PONG"}
        /\ e.pkt.type = "PONG" => Prober(e) = e.dest
    BY <1>3, <1>5, ProbeFacts DEF ProbeInv, SimInv, ProbesOK, Probes, InFlight
  <2>2. ~(e.kind = "Recv" /\ e.pkt.type = "PONG")
    BY <1>2, <1>3, <1>5, <2>1 DEF Ends
  <2>3. PICK g \in Probes' : Moved(e, g)
    BY <2>1, <2>2 DEF Measures, ProbesMove
  <2>4. link[l].delay \in Nat /\ Links[l].delay \in Nat /\ link[l].delay <= Links[l].delay
    BY <1>1, LinksAssumption DEF ProbeInv, LinksFaster, SimInv, SimTypeOK
  <2>5. g.time <= Crossed(g, Links[l].delay)
    <3>1. CASE e.kind = "Xmit" /\ g.kind = "Recv" /\ g.pkt.type = e.pkt.type /\ g.time = e.time + link[l].delay
      BY <1>3, <1>5, <2>1, <2>4, <3>1 DEF Crossed
    <3>2. CASE /\ e.kind = "Recv" /\ e.pkt.type = "PING" /\ g.kind = "Xmit" /\ g.pkt.type = "PONG"
               /\ g.time = e.time
      BY <1>3, <1>5, <2>1, <2>4, <3>2 DEF Crossed
    <3> QED
      BY <1>3, <1>5, <2>3, <3>1, <3>2 DEF Moved
  <2> QED
    BY <1>3, <1>5, <2>3, <2>5 DEF Moved, SameTrip
<1> QED
  BY <1>4, <1>5

\* Every PONG renews its port, and every alarm finds it renewed.
LEMMA PortsRenewedKept ==
  ASSUME NEW D \in Nat, D <= 2500, ProbeInv(D), OneLinkEach, NEW e, Measures(e), KnowsNext(e),
         \A r \in Router : \A p \in DOMAIN router[r].portStatus :
           router[r].portStatus[p].lastUpdate \in Nat,
         PortsMeasured(D), PortsRenewed
  PROVE  PortsRenewed'
<1> SUFFICES ASSUME NEW r \in Router, NEW l \in LinksOf(r), NEW a \in Pending',
                    AlarmOf(a, r, "PingPong"), Peer(r, l) \in DOMAIN router'[r].adjacencyList
             PROVE  LET last == router'[r].portStatus[get_link_port(r, l)].lastUpdate IN
                    /\ last + 2 * PingPeriod >= a.time
                    /\ last + PingPeriod >= a.time \/ \E f \in Probes' : Prober(f) = r /\ Over(f) = l
  BY DEF PortsRenewed
<1> DEFINE last == router[r].portStatus[get_link_port(r, l)].lastUpdate
           on(f) == Prober(f) = r /\ Over(f) = l
<1>1. /\ e \in Top(event_q) /\ KnowledgeOf(router[r], router'[r], e, r, l)
      /\ e \in Pending /\ EventFits(e, global_time) /\ e.time \in Nat
  BY KnowledgeFacts, TopFacts DEF Measures, ProbeInv, SimInv, EventFits
<1>2. PingPeriod \in Nat
  BY DEF PingPeriod
<1>3. \A b \in Pending : b.time \in Nat
  BY DEF ProbeInv, SimInv, SimTypeOK
<1>4. CASE Ends(e, r, l)
  <2>1. /\ e \in Probes /\ Prober(e) = r /\ e.pkt.stamp \in Nat /\ e.pkt.stamp <= e.time
    BY <1>1, <1>4, PongFacts DEF Ends
  <2>2. ~Rings(e, "PingPong")
    BY <1>4 DEF Ends, Rings
  <2>3. a.time = e.pkt.stamp + PingPeriod
    BY <2>1, <2>2 DEF Measures, AlarmsNext, ProbeInv, ProbesStamped
  <2> QED
    BY <1>1, <1>2, <1>4, <2>1, <2>3 DEF KnowledgeOf
<1>5. CASE ~Ends(e, r, l)
  <2>1. /\ Peer(r, l) \in DOMAIN router[r].adjacencyList
        /\ get_link_port(r, l) \in DOMAIN router[r].portStatus
        /\ router'[r].portStatus[get_link_port(r, l)] = router[r].portStatus[get_link_port(r, l)]
    BY <1>1, <1>5 DEF KnowledgeOf, PortsMeasured
  <2>2. last \in Nat /\ router'[r].portStatus[get_link_port(r, l)].lastUpdate = last
    BY <2>1
  <2>3. ASSUME NEW b \in Pending, AlarmOf(b, r, "PingPong")
        PROVE  /\ last + 2 * PingPeriod >= b.time
               /\ last + PingPeriod >= b.time \/ \E f \in Probes : on(f)
    BY <2>1, <2>3 DEF PortsRenewed
  <2> HIDE DEF last
  <2>4. CASE Rings(e, "PingPong") /\ e.router = r
    <3>1. a.time = e.time + PingPeriod
      BY <2>4 DEF Measures, AlarmsNext
    <3>2. \A f \in Probes : ~on(f)
      BY <2>4 DEF Measures, Quiet
    <3>3. AlarmOf(e, r, "PingPong")
      BY <2>4 DEF AlarmOf, Rings
    <3>4. last + PingPeriod >= e.time
      BY <1>1, <2>3, <3>2, <3>3
    <3>5. PICK f \in Probes' : Starts(e, f) /\ Over(f) = l
      BY <2>4 DEF Measures, ProbesMove
    <3>6. on(f)
      BY <2>4, <3>5 DEF Starts
    <3> QED
      BY <1>1, <1>2, <2>2, <3>1, <3>4, <3>6
  <2>5. CASE ~(Rings(e, "PingPong") /\ e.router = r)
    <3>1. a \in Pending
      BY <2>5 DEF Measures, AlarmsNext
    <3>2. ASSUME NEW f \in Probes, on(f)
          PROVE  \E g \in Probes' : on(g)
      <4>1. CASE f # e
        BY <3>2, <4>1 DEF Measures, ProbesMove
      <4>2. CASE f = e
        <5>1. e.pkt.type = "PONG" => Prober(e) = e.dest
          BY DEF Prober
        <5>2. ~(e.kind = "Recv" /\ e.pkt.type = "PONG")
          BY <1>5, <3>2, <4>2, <5>1 DEF Ends
        <5>3. PICK g \in Probes' : Moved(e, g)
          BY <3>2, <4>2, <5>2 DEF Measures, ProbesMove
        <5> QED
          BY <3>2, <4>2, <5>3 DEF Moved, SameTrip
      <4> QED
        BY <4>1, <4>2
    <3> QED
      BY <2>2, <2>3, <3>1, <3>2
  <2> QED
    BY <2>4, <2>5
<1> QED
  BY <1>4, <1>5

\* So no port is ever found dead.
LEMMA NoDeadPorts ==
  ASSUME NEW D \in Nat, D <= 2500, ProbeInv(D), PortsMeasured(D), PortsRenewed,
         NEW e \in Top(event_q), NEW r \in Router,
         DOMAIN router[r].portStatus \subseteq Ports[r],
         \A p \in DOMAIN router[r].portStatus : router[r].portStatus[p].lastUpdate \in Nat
  PROVE  DeadPorts(router[r], e.time) = {}
<1> SUFFICES ASSUME NEW p \in DOMAIN router[r].portStatus
             PROVE  ~(e.time - router[r].portStatus[p].lastUpdate > PortLifetime)
  BY DEF DeadPorts
<1> DEFINE l    == LinkAt(r, p)
           last == router[r].portStatus[p].lastUpdate
<1>1. l \in LinksOf(r) /\ get_link_port(r, l) = p
  BY LinkAtFacts
<1>2. Peer(r, l) \in DOMAIN router[r].adjacencyList
  BY <1>1 DEF PortsMeasured
<1>3. PICK a \in Pending : AlarmOf(a, r, "PingPong")
  BY DEF ProbeInv, OneAlarmEach, AlarmTypes, AlarmOf
<1>4. e.time \in Nat /\ a.time \in Nat /\ e.time <= a.time /\ last \in Nat
  BY TopFacts DEF ProbeInv, SimInv, SimTypeOK
<1>5. /\ last + 20000 >= a.time
      /\ last + 10000 >= a.time \/ \E f \in Probes : Prober(f) = r /\ Over(f) = l
  BY <1>1, <1>2, <1>3 DEF PortsRenewed, PingPeriod
<1> HIDE DEF last, l
<1>6. CASE last + 10000 >= a.time
  BY <1>4, <1>6 DEF PortLifetime, last
<1>7. ASSUME NEW f \in Probes, Prober(f) = r
      PROVE  ~(e.time - last > PortLifetime)
  <2>1. f \in Pending /\ EventFits(f, global_time) /\ ProbeOK(f) /\ InTime(f, D) /\ e.time <= f.time
    BY TopFacts DEF ProbeInv, SimInv, ProbesOK, ProbesInTime, Probes, InFlight
  <2>2. f.time \in Nat /\ f.pkt.stamp \in Nat
    BY <2>1, ProbeFacts DEF Probes, InFlight
  <2>3. f.time - f.pkt.stamp <= D + D
    BY <2>1, <2>2 DEF InTime
  <2>4. a.time = f.pkt.stamp + 10000
    BY <1>3, <1>7 DEF ProbeInv, ProbesStamped, PingPeriod
  <2> QED
    BY <1>4, <1>5, <2>1, <2>2, <2>3, <2>4 DEF PortLifetime
<1> QED
  BY <1>5, <1>6, <1>7 DEF last

-----------------------------------------------------------------------------
\* What routers make of what they know.

\* Every row of bigTable is the cost of the link and no less than what the neighbour, whose
\* forwarding table is in tables, has left to go; no row for d is above caps[d] and one link
\* of cost B more.  Neighbours are destinations.
RowsBacked(s, tables, caps, B) ==
  /\ \A d, n : <<d, n>> \in DOMAIN s.bigTable =>
       LET row == s.bigTable[<<d, n>>] IN
       /\ n \in DOMAIN s.adjacencyList
       /\ IF d = n THEN row = s.adjacencyList[n].timeCost
          ELSE /\ d \in DOMAIN tables[n]
               /\ row >= s.adjacencyList[n].timeCost + tables[n][d].routeCost
       /\ row <= caps[d] + B
  /\ \A n \in DOMAIN s.adjacencyList : <<n, n>> \in DOMAIN s.bigTable

\* The forwarding table has the least row for each destination.
BestKept(s) ==
  /\ \A d, n : <<d, n>> \in DOMAIN s.bigTable =>
       d \in DOMAIN s.forwardingTable /\ s.forwardingTable[d].routeCost <= s.bigTable[<<d, n>>]
  /\ \A d \in DOMAIN s.forwardingTable : LET entry == s.forwardingTable[d] IN
       /\ <<d, entry.nextHop>> \in DOMAIN s.bigTable
       /\ entry.routeCost = s.bigTable[<<d, entry.nextHop>>]

\* Routes only get better.
Improves(s, u) ==
  \A d \in DOMAIN s.forwardingTable :
    d \in DOMAIN u.forwardingTable /\ u.forwardingTable[d].routeCost <= s.forwardingTable[d].routeCost

\* A link more does not take any route out of 16 bits.
Capped(caps, B) == B \in Nat /\ \A d \in Router : caps[d] \in Nat /\ caps[d] + B < NoRoute

\* Costs of routes.
AreCosts(tables) == \A n \in Router : \A d \in DOMAIN tables[n] : tables[n][d].routeCost \in Nat

LEMMA RowsBelow ==
  ASSUME NEW r \in Router, NEW s, NEW now, IsRouter(s, r, now),
         NEW tables, NEW caps, NEW B, Capped(caps, B), RowsBacked(s, tables, caps, B),
         NEW d, NEW n, <<d, n>> \in DOMAIN s.bigTable
  PROVE  /\ d \in Others(r) /\ n \in Others(r)
         /\ s.bigTable[<<d, n>>] \in Cost /\ s.bigTable[<<d, n>>] \in Nat
         /\ s.bigTable[<<d, n>>] < NoRoute /\ s.bigTable[<<d, n>>] < INFINITY_COST
         /\ s.adjacencyList[n].timeCost \in Nat
<1>1. d \in Others(r) /\ n \in Others(r) /\ s.bigTable[<<d, n>>] \in Cost
  <2>1. DOMAIN s.bigTable \subseteq Others(r) \X Others(r)
    BY DEF IsRouter, IsMap
  <2>2. <<d, n>> \in Others(r) \X Others(r)
    BY <2>1
  <2> QED
    BY <2>2 DEF IsRouter, IsMap
<1>2. s.bigTable[<<d, n>>] \in Nat
  BY <1>1, CostNumbers
<1>3. s.bigTable[<<d, n>>] <= caps[d] + B /\ n \in DOMAIN s.adjacencyList
  BY DEF RowsBacked
<1>4. caps[d] \in Nat /\ B \in Nat /\ caps[d] + B < NoRoute
  BY <1>1 DEF Capped, Others
<1>5. s.adjacencyList[n].timeCost \in Nat
  BY <1>3, CostNumbers DEF IsRouter, IsMap, NeighbourEntry
<1>6. NoRoute \in Nat /\ INFINITY_COST \in Nat /\ NoRoute < INFINITY_COST
  BY DEF NoRoute, INFINITY_COST
<1> HIDE DEF NoRoute, INFINITY_COST
<1> QED
  BY <1>1, <1>2, <1>3, <1>4, <1>5, <1>6

\* Where the rows over n drop, and the best routes over n are written again, the best ones
\* stay the best.
LEMMA LeastKept ==
  ASSUME NEW r \in Router, NEW now, NEW s, IsRouter(s, r, now), NEW u, IsRouter(u, r, now),
         BestKept(s), NEW n \in Others(r), RoutesRenewedOver(s.forwardingTable, u, n),
         \A d, k : <<d, k>> \in DOMAIN u.bigTable <=>
                     <<d, k>> \in DOMAIN s.bigTable \/ (d = n /\ k = n),
         \A d, k : <<d, k>> \in DOMAIN s.bigTable =>
                     /\ u.bigTable[<<d, k>>] <= s.bigTable[<<d, k>>]
                     /\ k # n => u.bigTable[<<d, k>>] = s.bigTable[<<d, k>>],
         \A d, k : <<d, k>> \in DOMAIN u.bigTable => u.bigTable[<<d, k>>] < INFINITY_COST
  PROVE  BestKept(u) /\ Improves(s, u)
<1> DEFINE big  == s.bigTable
           left == u.bigTable
           table == s.forwardingTable
           least(entry, d) ==
             /\ <<d, entry.nextHop>> \in DOMAIN left
             /\ entry.routeCost = left[<<d, entry.nextHop>>]
             /\ \A k : <<d, k>> \in DOMAIN left => entry.routeCost <= left[<<d, k>>]
             /\ d \in DOMAIN table => entry.routeCost <= table[d].routeCost
<1>1. /\ \A x \in DOMAIN big : big[x] \in Nat
      /\ \A x \in DOMAIN left : left[x] \in Nat
      /\ \A d \in DOMAIN table : table[d].routeCost \in Nat
  BY CostNumbers DEF IsRouter, IsMap, RouteEntry
<1>2. ASSUME NEW d, NEW h, <<d, h>> \in DOMAIN left, NEW b \in getBestRoute(left, d)
      PROVE  /\ <<d, b.nextHop>> \in DOMAIN left /\ b.routeCost = left[<<d, b.nextHop>>]
             /\ \A k : <<d, k>> \in DOMAIN left => b.routeCost <= left[<<d, k>>]
  <2>1. IsMap(left, Others(r) \X Others(r), Cost)
    BY DEF IsRouter
  <2> QED
    BY <1>2, <2>1, BestRouteExists, ZenonT(40)
<1>3. ASSUME NEW d \in DOMAIN u.forwardingTable
      PROVE  least(u.forwardingTable[d], d)
  <2> DEFINE entry == u.forwardingTable[d]
  <2>1. ASSUME d \in DOMAIN table, entry = table[d],
               <<d, n>> \in DOMAIN left => \E b \in getBestRoute(left, d) : b.nextHop # n
        PROVE  least(entry, d)
    <3>1. /\ <<d, entry.nextHop>> \in DOMAIN big /\ entry.routeCost = big[<<d, entry.nextHop>>]
          /\ \A k : <<d, k>> \in DOMAIN big => entry.routeCost <= big[<<d, k>>]
          /\ entry.routeCost \in Nat
      BY <1>1, <2>1 DEF BestKept
    <3>2. <<d, entry.nextHop>> \in DOMAIN left
      BY <3>1
    <3>3. CASE <<d, n>> \in DOMAIN left
      <4>1. PICK b \in getBestRoute(left, d) : b.nextHop # n
        BY <2>1, <3>3
      <4>2. /\ <<d, b.nextHop>> \in DOMAIN left /\ b.routeCost = left[<<d, b.nextHop>>]
            /\ \A k : <<d, k>> \in DOMAIN left => b.routeCost <= left[<<d, k>>]
        BY <1>2, <3>2
      <4>3. b.routeCost = big[<<d, b.nextHop>>] /\ entry.routeCost <= b.routeCost /\ b.routeCost \in Nat
        BY <1>1, <3>1, <4>1, <4>2
      <4>4. left[<<d, entry.nextHop>>] <= entry.routeCost /\ b.routeCost <= left[<<d, entry.nextHop>>]
        BY <3>1, <3>2, <4>2
      <4>5. left[<<d, entry.nextHop>>] = entry.routeCost /\ b.routeCost = entry.routeCost
        BY <1>1, <3>1, <3>2, <4>3, <4>4
      <4> QED
        BY <2>1, <3>1, <3>2, <4>2, <4>5
    <3>4. CASE <<d, n>> \notin DOMAIN left
      <4>1. \A k : <<d, k>> \in DOMAIN left => <<d, k>> \in DOMAIN big /\ left[<<d, k>>] = big[<<d, k>>]
        BY <3>4
      <4> QED
        BY <2>1, <3>1, <3>2, <4>1
    <3> QED
      BY <3>3, <3>4
  <2>2. ASSUME <<d, n>> \in DOMAIN left, entry.nextHop = n,
               NEW b \in getBestRoute(left, d),
               IF b.nextHop = n THEN entry.routeCost = b.routeCost ELSE d = n /\ n \notin DOMAIN table
        PROVE  least(entry, d)
    <3>1. /\ <<d, b.nextHop>> \in DOMAIN left /\ b.routeCost = left[<<d, b.nextHop>>]
          /\ \A k : <<d, k>> \in DOMAIN left => b.routeCost <= left[<<d, k>>]
      BY <1>2, <2>2
    <3>2. b.nextHop = n
      <4> SUFFICES ASSUME b.nextHop # n PROVE FALSE
        OBVIOUS
      <4>1. <<n, b.nextHop>> \in DOMAIN big /\ n \notin DOMAIN table
        BY <2>2, <3>1
      <4> QED
        BY <4>1 DEF BestKept
    <3>3. ASSUME d \in DOMAIN table
          PROVE  entry.routeCost <= table[d].routeCost
      <4>1. <<d, table[d].nextHop>> \in DOMAIN big /\ table[d].routeCost = big[<<d, table[d].nextHop>>]
        BY <3>3 DEF BestKept
      <4>2. <<d, table[d].nextHop>> \in DOMAIN left /\ left[<<d, table[d].nextHop>>] <= table[d].routeCost
        BY <4>1
      <4>3. b.routeCost <= left[<<d, table[d].nextHop>>] /\ entry.routeCost = b.routeCost
        BY <2>2, <3>1, <3>2, <4>2
      <4> QED
        BY <1>1, <3>1, <3>3, <4>2, <4>3
    <3> QED
      BY <2>2, <3>1, <3>2, <3>3
  <2>3. \/ /\ d \in DOMAIN table /\ entry = table[d]
           /\ <<d, n>> \in DOMAIN left => \E b \in getBestRoute(left, d) : b.nextHop # n
        \/ /\ <<d, n>> \in DOMAIN left /\ entry.nextHop = n
           /\ \E b \in getBestRoute(left, d) :
                IF b.nextHop = n THEN entry.routeCost = b.routeCost ELSE d = n /\ n \notin DOMAIN table
    BY DEF RoutesRenewedOver
  <2> HIDE DEF entry, left, table, least
  <2> QED
    BY <2>1, <2>2, <2>3 DEF entry
<1>4. DOMAIN table \cup {n} \subseteq DOMAIN u.forwardingTable
  BY DEF RoutesRenewedOver
<1>5. \A d, k : <<d, k>> \in DOMAIN left => d \in DOMAIN u.forwardingTable
  BY <1>4 DEF BestKept
<1>6. BestKept(u)
  BY <1>3, <1>5 DEF BestKept
<1>7. Improves(s, u)
  BY <1>3, <1>4 DEF Improves
<1> QED
  BY <1>6, <1>7

\* A PONG that measures no more than is known brings rows down by as much as the link.
LEMMA PongTables ==
  ASSUME NEW r \in Router, NEW now \in Nat, NEW s, IsRouter(s, r, now),
         NEW tables, AreCosts(tables), NEW caps, NEW B, Capped(caps, B),
         RowsBacked(s, tables, caps, B), BestKept(s),
         NEW port \in Ports[r], NEW pkt, pkt.sourceID \in Others(r), pkt.stamp \in Nat,
         RoundTripCost(now, pkt.stamp) <= B,
         pkt.sourceID \in DOMAIN s.adjacencyList =>
           RoundTripCost(now, pkt.stamp) <= s.adjacencyList[pkt.sourceID].timeCost,
         NEW o \in handlePongs(s, port, pkt, now)
  PROVE  RowsBacked(o.s, tables, caps, B) /\ BestKept(o.s) /\ Improves(s, o.s)
<1> DEFINE n      == pkt.sourceID
           rtt    == RoundTripCost(now, pkt.stamp)
           known  == KnownCost(s, n)
           change == rtt - known
           big    == s.bigTable
           left   == o.s.bigTable
<1>1. /\ IsRouter(o.s, r, now)
      /\ rtt \in Cost /\ rtt \in Int /\ known \in Nat
      /\ Learned(s, o.s, port, n, rtt, now)
      /\ ChangeAdded(big, left, n, change)
      /\ RoutesRenewedOver(s.forwardingTable, o.s, n)
  BY PongTaken
<1>2. rtt \in Nat /\ rtt <= B /\ n \in Others(r)
  BY <1>1, CostNumbers
<1>3. n \in DOMAIN s.adjacencyList => known = s.adjacencyList[n].timeCost /\ rtt <= known
  BY DEF KnownCost
<1>4. n \notin DOMAIN s.adjacencyList => known = 0
  BY DEF KnownCost
<1>5. /\ DOMAIN o.s.adjacencyList = DOMAIN s.adjacencyList \cup {n}
      /\ o.s.adjacencyList[n].timeCost = rtt
      /\ \A k \in DOMAIN s.adjacencyList : k # n => o.s.adjacencyList[k] = s.adjacencyList[k]
  BY <1>1 DEF Learned, Store
<1> HIDE DEF n, rtt, known
<1>6. ASSUME NEW d, <<d, n>> \in DOMAIN big
      PROVE  /\ <<d, n>> \in DOMAIN left /\ left[<<d, n>>] = big[<<d, n>>] + change
             /\ left[<<d, n>>] \in Nat /\ left[<<d, n>>] <= big[<<d, n>>] /\ known >= rtt
  <2>1. /\ n \in DOMAIN s.adjacencyList /\ big[<<d, n>>] \in Cost
        /\ s.adjacencyList[n].timeCost \in Nat
    BY <1>6, RowsBelow DEF RowsBacked
  <2>2. known = s.adjacencyList[n].timeCost /\ rtt <= known
    BY <1>3, <2>1
  <2>3. big[<<d, n>>] \in Nat /\ big[<<d, n>>] <= 65535
    BY <2>1, CostRange
  <2>4. big[<<d, n>>] >= known
    <3>1. CASE d = n
      BY <1>1, <1>6, <2>2, <3>1 DEF RowsBacked
    <3>2. CASE d # n
      <4>1. /\ d \in DOMAIN tables[n]
            /\ big[<<d, n>>] >= s.adjacencyList[n].timeCost + tables[n][d].routeCost
        BY <1>6, <3>2 DEF RowsBacked
      <4>2. tables[n][d].routeCost \in Nat
        BY <1>2, <4>1 DEF AreCosts, Others
      <4> QED
        BY <1>1, <2>2, <2>3, <4>1, <4>2
    <3> QED
      BY <3>1, <3>2
  <2>5. /\ big[<<d, n>>] + change \in Int /\ 0 <= big[<<d, n>>] + change
        /\ big[<<d, n>>] + change <= big[<<d, n>>] /\ big[<<d, n>>] + change <= 65535
    BY <1>1, <1>2, <2>2, <2>3, <2>4
  <2>6. AsCost(big[<<d, n>>] + change) = big[<<d, n>>] + change
    <3> HIDE DEF change, big
    <3>1. big[<<d, n>>] + change \in Cost
      BY <2>5, CostRange
    <3> QED
      BY <3>1, AsCostFacts
  <2>7. <<d, n>> \in DOMAIN left /\ left[<<d, n>>] = AsCost(big[<<d, n>>] + change)
    BY <1>1, <1>6 DEF ChangeAdded
  <2> HIDE DEF change, big, left
  <2> QED
    BY <2>2, <2>5, <2>6, <2>7
<1>7. /\ \A d, k : <<d, k>> \in DOMAIN left <=> <<d, k>> \in DOMAIN big \/ (d = n /\ k = n)
      /\ \A d, k : <<d, k>> \in DOMAIN big /\ k # n => left[<<d, k>>] = big[<<d, k>>]
  BY <1>1 DEF ChangeAdded
<1>8. ASSUME <<n, n>> \notin DOMAIN big PROVE left[<<n, n>>] = rtt
  <2>1. n \notin DOMAIN s.adjacencyList
    BY <1>8 DEF RowsBacked
  <2>2. change = rtt
    BY <1>1, <1>4, <2>1
  <2>3. left[<<n, n>>] = AsCost(change)
    BY <1>1, <1>8 DEF ChangeAdded
  <2> HIDE DEF change
  <2> QED
    BY <1>1, <2>2, <2>3, AsCostFacts
<1>9. ASSUME NEW d, NEW k, <<d, k>> \in DOMAIN big
      PROVE  left[<<d, k>>] <= big[<<d, k>>] /\ left[<<d, k>>] \in Nat
  <2>1. CASE k = n
    BY <1>6, <1>9, <2>1
  <2>2. CASE k # n
    <3>1. left[<<d, k>>] = big[<<d, k>>] /\ big[<<d, k>>] \in Nat
      BY <1>7, <1>9, <2>2, RowsBelow
    <3> QED
      BY <3>1
  <2> QED
    BY <2>1, <2>2
<1>10. RowsBacked(o.s, tables, caps, B)
  <2> DEFINE adj == o.s.adjacencyList
  <2>1. ASSUME NEW d, NEW k, <<d, k>> \in DOMAIN left
        PROVE  /\ k \in DOMAIN adj
               /\ IF d = k THEN left[<<d, k>>] = adj[k].timeCost
                  ELSE /\ d \in DOMAIN tables[k]
                       /\ left[<<d, k>>] >= adj[k].timeCost + tables[k][d].routeCost
               /\ left[<<d, k>>] <= caps[d] + B
    <3>1. CASE <<d, k>> \in DOMAIN big /\ k # n
      <4>1. adj[k] = s.adjacencyList[k] /\ k \in DOMAIN adj /\ left[<<d, k>>] = big[<<d, k>>]
        BY <1>5, <1>7, <3>1 DEF RowsBacked
      <4> QED
        BY <3>1, <4>1 DEF RowsBacked
    <3>2. CASE <<d, k>> \in DOMAIN big /\ k = n
      <4>1. /\ left[<<d, k>>] = big[<<d, k>>] + change /\ left[<<d, k>>] <= big[<<d, k>>]
            /\ big[<<d, k>>] \in Nat /\ d \in Router /\ left[<<d, k>>] \in Nat
        BY <1>6, <3>2, RowsBelow DEF Others
      <4>2. /\ k \in DOMAIN s.adjacencyList /\ known = s.adjacencyList[k].timeCost
            /\ adj[k].timeCost = rtt /\ k \in DOMAIN adj
        BY <1>3, <1>5, <3>2 DEF RowsBacked
      <4>3. left[<<d, k>>] <= caps[d] + B
        <5>1. big[<<d, k>>] <= caps[d] + B /\ caps[d] \in Nat /\ B \in Nat
          BY <3>2, <4>1 DEF RowsBacked, Capped
        <5> QED
          BY <4>1, <5>1
      <4>4. CASE d = k
        <5>1. big[<<d, k>>] = known
          BY <3>2, <4>2, <4>4 DEF RowsBacked
        <5> QED
          BY <1>1, <4>1, <4>2, <4>3, <4>4, <5>1
      <4>5. CASE d # k
        <5>1. d \in DOMAIN tables[k] /\ big[<<d, k>>] >= known + tables[k][d].routeCost
          BY <3>2, <4>2, <4>5 DEF RowsBacked
        <5>2. tables[k][d].routeCost \in Nat
          BY <1>2, <3>2, <5>1 DEF AreCosts, Others
        <5> QED
          BY <1>1, <4>1, <4>2, <4>3, <4>5, <5>1, <5>2
      <4> QED
        BY <4>4, <4>5
    <3>3. CASE <<d, k>> \notin DOMAIN big
      <4>1. d = n /\ k = n /\ left[<<n, n>>] = rtt
        BY <1>7, <1>8, <2>1, <3>3
      <4>2. caps[d] \in Nat /\ B \in Nat
        BY <1>2, <4>1 DEF Capped, Others
      <4> QED
        BY <1>2, <1>5, <4>1, <4>2
    <3> QED
      BY <3>1, <3>2, <3>3
  <2>2. \A k \in DOMAIN adj : <<k, k>> \in DOMAIN left
    BY <1>5, <1>7 DEF RowsBacked
  <2> QED
    BY <2>1, <2>2 DEF RowsBacked
<1>11. \A d, k : <<d, k>> \in DOMAIN left => left[<<d, k>>] < INFINITY_COST
  BY <1>1, <1>10, RowsBelow
<1> QED
  BY <1>1, <1>2, <1>7, <1>9, <1>10, <1>11, LeastKept

\* What a vector of n says was true of n's routes when it was sent, and they only got better.
IsHonest(routes, table, caps) ==
  \A d \in DOMAIN routes :
    /\ d \in DOMAIN table /\ table[d].routeCost <= routes[d]
    /\ routes[d] = INFINITY_COST \/ routes[d] <= caps[d]

\* A vector that is no bad news brings rows down, and the better ones are used.
LEMMA VectorTables ==
  ASSUME NEW r \in Router, NEW now \in Nat, NEW s, IsRouter(s, r, now),
         NEW tables, AreCosts(tables), NEW caps, NEW B, Capped(caps, B),
         RowsBacked(s, tables, caps, B), BestKept(s),
         \A k \in DOMAIN s.adjacencyList :
           1 <= s.adjacencyList[k].timeCost /\ s.adjacencyList[k].timeCost <= B,
         NEW pkt, pkt.sourceID \in Others(r), IsVector(pkt, pkt.sourceID),
         pkt.sourceID \in DOMAIN s.adjacencyList,
         IsHonest(pkt.routes, tables[pkt.sourceID], caps),
         \A d \in DestsOver(s.bigTable, pkt.sourceID) \ {pkt.sourceID} :
           /\ d \in DOMAIN pkt.routes
           /\ pkt.routes[d] < INFINITY_COST =>
                s.adjacencyList[pkt.sourceID].timeCost + pkt.routes[d] <= s.bigTable[<<d, pkt.sourceID>>],
         NEW o \in handleDVPacket(s, pkt, now)
  PROVE  /\ RowsBacked(o.s, tables, caps, B) /\ BestKept(o.s) /\ Improves(s, o.s)
         /\ o.s.portStatus = s.portStatus /\ o.s.adjacencyList = s.adjacencyList
<1> DEFINE n        == pkt.sourceID
           finite   == FiniteOf(s, pkt)
           over     == CostOver(s, pkt)
           better   == Better(s, over)
           big      == s.bigTable
           left     == o.s.bigTable
           table    == s.forwardingTable
           cost     == s.adjacencyList[n].timeCost
<1>1. IsRouter(o.s, r, now) /\ VectorTaken(s, o.s, pkt)
  BY VectorFacts
<1>2. /\ o.s.portStatus = s.portStatus /\ o.s.adjacencyList = s.adjacencyList
      /\ RowsHeard(big, left, pkt, finite, PoisonedOf(s, pkt), over)
  BY <1>1 DEF VectorTaken, Known
<1>3. cost \in Nat /\ 1 <= cost /\ cost <= B /\ n \in Others(r)
  <2>1. cost \in Cost
    BY DEF IsRouter, IsMap, NeighbourEntry
  <2> QED
    BY <2>1, CostNumbers
<1>4. \A d \in finite : over[d] = cost + pkt.routes[d]
  BY DEF CostOver, Known
<1>5. DOMAIN over = finite
  BY DEF CostOver
<1>6. /\ \A d : d \in finite <=> d \in DOMAIN pkt.routes /\ d # r /\ pkt.routes[d] # INFINITY_COST
      /\ \A d \in PoisonedOf(s, pkt) : \E best \in getBestRoute(big, d) : best.routeCost = 0
      /\ n \notin DOMAIN pkt.routes
      /\ \A d \in DOMAIN pkt.routes : pkt.routes[d] \in Cost
  BY TakenRoutes
<1> HIDE DEF finite, over, left, cost
<1>7. ASSUME NEW d, NEW k, <<d, k>> \in DOMAIN big
      PROVE  /\ d \in Others(r) /\ k \in Others(r) /\ big[<<d, k>>] \in Nat
             /\ 0 < big[<<d, k>>] /\ big[<<d, k>>] < INFINITY_COST
  <2>1. /\ d \in Others(r) /\ k \in Others(r) /\ big[<<d, k>>] \in Nat
        /\ big[<<d, k>>] < INFINITY_COST /\ s.adjacencyList[k].timeCost \in Nat
    BY <1>7, RowsBelow
  <2>2. big[<<d, k>>] >= s.adjacencyList[k].timeCost
    <3>1. d # k => /\ d \in DOMAIN tables[k]
                   /\ big[<<d, k>>] >= s.adjacencyList[k].timeCost + tables[k][d].routeCost
      BY <1>7 DEF RowsBacked
    <3>2. d # k => tables[k][d].routeCost \in Nat
      BY <2>1, <3>1 DEF AreCosts, Others
    <3>3. d = k => big[<<d, k>>] = s.adjacencyList[k].timeCost
      BY <1>7 DEF RowsBacked
    <3> QED
      BY <2>1, <3>1, <3>2, <3>3
  <2>3. 1 <= s.adjacencyList[k].timeCost
    BY <1>7 DEF RowsBacked
  <2> QED
    BY <2>1, <2>2, <2>3
<1>8. PoisonedOf(s, pkt) = {}
  <2> SUFFICES ASSUME NEW d, NEW best \in getBestRoute(big, d), best.routeCost = 0
               PROVE  FALSE
    BY <1>6
  <2>1. IsMap(big, Others(r) \X Others(r), Cost)
    BY DEF IsRouter
  <2>2. CASE \E k : <<d, k>> \in DOMAIN big
    <3>1. PICK k : <<d, k>> \in DOMAIN big
      BY <2>2
    <3>2. \A g : <<d, g>> \in DOMAIN big => big[<<d, g>>] < INFINITY_COST
      BY <1>7
    <3>3. <<d, best.nextHop>> \in DOMAIN big /\ best.routeCost = big[<<d, best.nextHop>>]
      BY <2>1, <3>1, <3>2, BestRouteExists
    <3> QED
      BY <1>7, <3>3
  <2>3. CASE \A k : <<d, k>> \notin DOMAIN big
    <3>1. best.routeCost = NoRoute
      <4>1. DOMAIN big \subseteq Others(r) \X Others(r)
        BY <2>1 DEF IsMap
      <4> HIDE DEF big
      <4> QED
        BY <2>3, <4>1, BestRouteNone, ZenonT(40)
    <3> QED
      BY <3>1 DEF NoRoute, INFINITY_COST
  <2> QED
    BY <2>2, <2>3
<1>9. ASSUME NEW d, <<d, n>> \in DOMAIN big, d # n
      PROVE  /\ d \in DOMAIN pkt.routes
             /\ d \in finite => cost + pkt.routes[d] <= big[<<d, n>>]
  <2>1. d \in DestsOver(big, n)
    <3>1. DOMAIN big \subseteq Others(r) \X Others(r)
      BY DEF IsRouter, IsMap
    <3> QED
      BY <1>9, <3>1, RowFacts
  <2>2. d \in DOMAIN pkt.routes /\ (pkt.routes[d] < INFINITY_COST => cost + pkt.routes[d] <= big[<<d, n>>])
    BY <1>9, <2>1 DEF cost
  <2>3. d \in finite => pkt.routes[d] < INFINITY_COST
    <3>1. \A c \in Cost : c # INFINITY_COST => c < INFINITY_COST
      BY CostNumbers
    <3> QED
      BY <1>6, <3>1
  <2> QED
    BY <2>2, <2>3
<1>10. ASSUME NEW d \in finite
       PROVE  /\ d # n /\ <<d, n>> \in DOMAIN left /\ left[<<d, n>>] = cost + pkt.routes[d]
              /\ pkt.routes[d] \in Nat /\ pkt.routes[d] <= caps[d] /\ d \in DOMAIN tables[n]
              /\ tables[n][d].routeCost <= pkt.routes[d]
              /\ cost + pkt.routes[d] <= caps[d] + B /\ cost + pkt.routes[d] < INFINITY_COST
  <2>1. /\ d # n /\ d \in DOMAIN tables[n] /\ tables[n][d].routeCost <= pkt.routes[d]
        /\ pkt.routes[d] <= caps[d] /\ pkt.routes[d] \in Nat /\ d \in Router
    <3>1. d \in DOMAIN pkt.routes /\ pkt.routes[d] # INFINITY_COST /\ pkt.routes[d] \in Cost
      BY <1>6
    <3>2. d \in Others(n)
      BY <3>1 DEF IsVector, IsMap
    <3> QED
      BY <3>1, <3>2, CostNumbers DEF IsHonest, Others
  <2>2. caps[d] \in Nat /\ B \in Nat /\ caps[d] + B < NoRoute
    BY <2>1 DEF Capped
  <2>3. NoRoute \in Nat /\ INFINITY_COST \in Nat /\ NoRoute < INFINITY_COST
    BY DEF NoRoute, INFINITY_COST
  <2>4. cost + pkt.routes[d] \in Nat /\ cost + pkt.routes[d] <= caps[d] + B /\ cost + pkt.routes[d] < INFINITY_COST
    <3> HIDE DEF NoRoute, INFINITY_COST
    <3> QED
      BY <1>3, <2>1, <2>2, <2>3
  <2>5. AsCost(over[d]) = cost + pkt.routes[d]
    <3>1. cost + pkt.routes[d] \in Cost
      BY <2>4, CostNumbers
    <3> QED
      BY <1>4, <3>1, AsCostFacts
  <2>6. <<d, n>> \in DOMAIN left /\ left[<<d, n>>] = AsCost(over[d])
    BY <1>2, <2>1 DEF RowsHeard
  <2> QED
    BY <2>1, <2>4, <2>5, <2>6
<1>11. /\ \A d, k : <<d, k>> \in DOMAIN left <=> <<d, k>> \in DOMAIN big \/ (k = n /\ d \in finite)
       /\ \A d, k : <<d, k>> \in DOMAIN left /\ ~(k = n /\ d \in finite) => left[<<d, k>>] = big[<<d, k>>]
  <2>1. \A d, k : <<d, k>> \in DOMAIN left <=>
          IF k # n \/ d = n THEN <<d, k>> \in DOMAIN big
          ELSE d \in finite \/ (<<d, k>> \in DOMAIN big /\ d \in DOMAIN pkt.routes)
    BY <1>2, <1>8 DEF RowsHeard
  <2>2. \A d, k : <<d, k>> \in DOMAIN left /\ (k # n \/ d \notin finite) => left[<<d, k>>] = big[<<d, k>>]
    BY <1>2, <1>8 DEF RowsHeard
  <2>3. \A d \in finite : d # n
    BY <1>10
  <2>4. \A d : <<d, n>> \in DOMAIN big /\ d # n => d \in DOMAIN pkt.routes
    BY <1>9
  <2> HIDE DEF n, big
  <2> QED
    BY <2>1, <2>2, <2>3, <2>4
<1>12. RowsBacked(o.s, tables, caps, B)
  <2>1. ASSUME NEW d, NEW k, <<d, k>> \in DOMAIN left
        PROVE  /\ k \in DOMAIN s.adjacencyList
               /\ IF d = k THEN left[<<d, k>>] = s.adjacencyList[k].timeCost
                  ELSE /\ d \in DOMAIN tables[k]
                       /\ left[<<d, k>>] >= s.adjacencyList[k].timeCost + tables[k][d].routeCost
               /\ left[<<d, k>>] <= caps[d] + B
    <3>1. CASE k = n /\ d \in finite
      <4>1. tables[n][d].routeCost \in Nat
        BY <1>3, <1>10, <3>1 DEF AreCosts, Others
      <4>2. tables[n][d].routeCost <= pkt.routes[d] /\ pkt.routes[d] \in Nat
        BY <1>10, <3>1
      <4>3. cost + pkt.routes[d] >= cost + tables[n][d].routeCost
        BY <1>3, <4>1, <4>2
      <4> QED
        BY <1>10, <3>1, <4>3 DEF cost
    <3>2. CASE ~(k = n /\ d \in finite)
      <4>1. <<d, k>> \in DOMAIN big /\ left[<<d, k>>] = big[<<d, k>>]
        BY <1>11, <2>1, <3>2
      <4> QED
        BY <4>1 DEF RowsBacked
    <3> QED
      BY <3>1, <3>2
  <2>2. \A k \in DOMAIN s.adjacencyList : <<k, k>> \in DOMAIN left
    BY <1>11 DEF RowsBacked
  <2> QED
    BY <1>2, <2>1, <2>2 DEF RowsBacked, left
<1>13. /\ \A d : d \in DOMAIN o.s.forwardingTable <=> d \in DOMAIN table \/ d \in better
       /\ \A d \in better : /\ o.s.forwardingTable[d].nextHop = n
                            /\ o.s.forwardingTable[d].routeCost = over[d]
       /\ \A d \in DOMAIN table : d \notin better => o.s.forwardingTable[d] = table[d]
  <2>1. \A d : ~(<<d, n>> \in DOMAIN big /\ d # n /\ d \notin DOMAIN pkt.routes)
    BY <1>9
  <2> QED
    BY <1>1, <2>1 DEF VectorTaken, over
<1>14. \A d : d \in better <=> d \in finite /\ over[d] < (IF d \in DOMAIN table THEN table[d].routeCost ELSE INFINITY_COST)
  BY <1>5 DEF Better, getRouteCost
<1> HIDE DEF better
<1>15. \A d \in DOMAIN table : table[d].routeCost \in Nat
  BY CostNumbers DEF IsRouter, IsMap, RouteEntry
<1>16. ASSUME NEW d \in DOMAIN o.s.forwardingTable
       PROVE  LET entry == o.s.forwardingTable[d] IN
              /\ <<d, entry.nextHop>> \in DOMAIN left
              /\ entry.routeCost = left[<<d, entry.nextHop>>]
              /\ \A k : <<d, k>> \in DOMAIN left => entry.routeCost <= left[<<d, k>>]
              /\ d \in DOMAIN table => entry.routeCost <= table[d].routeCost
  <2> DEFINE entry == o.s.forwardingTable[d]
  <2>1. ASSUME NEW k, <<d, k>> \in DOMAIN left, ~(k = n /\ d \in finite)
        PROVE  /\ left[<<d, k>>] = big[<<d, k>>] /\ left[<<d, k>>] \in Nat
               /\ d \in DOMAIN table /\ table[d].routeCost <= left[<<d, k>>]
    <3>1. <<d, k>> \in DOMAIN big /\ left[<<d, k>>] = big[<<d, k>>]
      BY <1>11, <2>1
    <3> QED
      BY <1>7, <3>1 DEF BestKept
  <2>2. CASE d \in better
    <3>1. /\ d \in finite /\ entry.nextHop = n /\ entry.routeCost = cost + pkt.routes[d]
          /\ d \in DOMAIN table => entry.routeCost < table[d].routeCost
      BY <1>4, <1>13, <1>14, <2>2
    <3>2. /\ <<d, n>> \in DOMAIN left /\ left[<<d, n>>] = entry.routeCost /\ entry.routeCost \in Nat
      BY <1>3, <1>10, <3>1
    <3>3. ASSUME NEW k, <<d, k>> \in DOMAIN left
          PROVE  entry.routeCost <= left[<<d, k>>]
      <4>1. CASE k = n
        BY <3>2, <4>1
      <4>2. CASE k # n
        BY <1>15, <2>1, <3>1, <3>2, <3>3, <4>2
      <4> QED
        BY <4>1, <4>2
    <3> QED
      BY <1>15, <3>1, <3>2, <3>3
  <2>3. CASE d \notin better
    <3>1. d \in DOMAIN table /\ entry = table[d]
      BY <1>13, <2>3
    <3>2. /\ <<d, entry.nextHop>> \in DOMAIN big /\ entry.routeCost = big[<<d, entry.nextHop>>]
          /\ entry.routeCost \in Nat
      BY <1>15, <3>1 DEF BestKept
    <3>3. ASSUME d \in finite
          PROVE  entry.routeCost <= left[<<d, n>>] /\ left[<<d, n>>] \in Nat
      BY <1>3, <1>4, <1>10, <1>14, <2>3, <3>1, <3>2, <3>3
    <3>4. \A k : <<d, k>> \in DOMAIN left => entry.routeCost <= left[<<d, k>>]
      BY <2>1, <3>1, <3>3
    <3>5. entry.routeCost = left[<<d, entry.nextHop>>]
      <4>1. CASE entry.nextHop = n /\ d \in finite
        <5>1. left[<<d, n>>] <= entry.routeCost
          BY <1>9, <1>10, <3>2, <4>1
        <5> QED
          BY <3>2, <3>3, <4>1, <5>1
      <4>2. CASE ~(entry.nextHop = n /\ d \in finite)
        BY <1>11, <3>2, <4>2
      <4> QED
        BY <4>1, <4>2
    <3> QED
      BY <1>11, <3>1, <3>2, <3>4, <3>5
  <2> QED
    BY <2>2, <2>3
<1>17. \A d, k : <<d, k>> \in DOMAIN left => d \in DOMAIN o.s.forwardingTable
  <2>1. \A d \in finite : d \in better \/ d \in DOMAIN table
    BY <1>4, <1>10, <1>14
  <2> QED
    BY <1>11, <1>13, <2>1 DEF BestKept
<1>18. BestKept(o.s)
  BY <1>16, <1>17 DEF BestKept, left
<1>19. Improves(s, o.s)
  BY <1>13, <1>16 DEF Improves
<1> QED
  BY <1>2, <1>12, <1>18, <1>19

-----------------------------------------------------------------------------
\* What a router makes of an event.

\* The forwarding tables of all routers.
Tables == [n \in Router |-> router[n].forwardingTable]

\* Whatever vectors are sent tell the table as it is then.
TellsTable(u, out) == \A m \in out : m.pkt.type = "DV" => m \in sendUpdates(u)

\* A vector is only there once a PING and its answer, sent before it, are.
VectorsWait ==
  \A f \in InFlight : f.pkt.type = "DV" =>
    /\ f.time >= 2 * Links[Over(f)].delay
    /\ f.kind = "Recv" => f.time > 2 * Links[Over(f)].delay

VectorsHonest(caps) ==
  \A f \in InFlight : f.pkt.type = "DV" =>
    IsHonest(f.pkt.routes, router[Sender(f)].forwardingTable, caps)

\* The rows of all routers are backed and the forwarding tables have the best of them.
TablesBacked(caps, B) ==
  \A r \in Router : RowsBacked(router[r], Tables, caps, B) /\ BestKept(router[r])

\* The next hop of a data packet is a neighbour.
LEMMA DataTables ==
  ASSUME NEW s, NEW tables, NEW caps, NEW B, RowsBacked(s, tables, caps, B), BestKept(s),
         NEW pkt, pkt.type = "DATA", NEW o \in handleData(s, pkt)
  PROVE  o.s = s /\ TellsTable(o.s, o.out)
<1>1. CASE pkt.dst = s.id \/ pkt.dst \notin DOMAIN s.forwardingTable
  BY <1>1 DEF handleData, Keep, TellsTable
<1>2. CASE ~(pkt.dst = s.id \/ pkt.dst \notin DOMAIN s.forwardingTable)
  <2> DEFINE hop == s.forwardingTable[pkt.dst].nextHop
  <2>1. hop \in DOMAIN s.adjacencyList
    BY <1>2 DEF BestKept, RowsBacked
  <2>2. o = forwardTo(s, hop, pkt)
    BY <1>2 DEF handleData
  <2> HIDE DEF hop
  <2>3. o.s = s /\ \A m \in o.out : m.pkt = pkt
    BY <2>1, <2>2 DEF forwardTo, To
  <2> QED
    BY <2>3 DEF TellsTable
<1> QED
  BY <1>1, <1>2

\* When a vector arrives, the neighbour that sent it has been measured.
LEMMA VectorsFromNeighbours ==
  ASSUME SimInv, FirstAwaited, VectorsWait, NEW e \in Top(event_q), e.kind = "Recv", e.pkt.type = "DV"
  PROVE  Sender(e) \in DOMAIN router[e.dest].adjacencyList
<1>1. e \in InFlight /\ e.dest \in Router /\ e.dport \in Ports[e.dest] /\ e.time \in Nat
  BY TopFacts DEF SimInv, EventFits, InFlight
<1> DEFINE l == Over(e)
<1>2. l \in LinksOf(e.dest) /\ l \in DOMAIN Links /\ Sender(e) = Peer(e.dest, l)
  BY <1>1, LinkAtFacts, PeerFacts DEF Over, Sender
<1>3. Links[l].delay \in Nat
  BY <1>2, LinksAssumption
<1>4. e.time > 2 * Links[l].delay
  BY <1>1 DEF VectorsWait
<1> HIDE DEF l
<1>5. ASSUME NEW f \in Probes, f.time <= Crossed(f, Links[l].delay)
      PROVE  FALSE
  <2>1. e.time <= f.time /\ f.time \in Nat
    BY TopFacts DEF Probes, InFlight, SimInv, SimTypeOK
  <2>2. Crossed(f, Links[l].delay) \in Nat /\ Crossed(f, Links[l].delay) <= 2 * Links[l].delay
    BY <1>3 DEF Crossed
  <2> QED
    BY <1>1, <1>3, <1>4, <1>5, <2>1, <2>2
<1> QED
  BY <1>1, <1>2, <1>5 DEF FirstAwaited

\* A PONG tells a router no more than it knows.
LEMMA PongsFall ==
  ASSUME NEW D \in Nat, D <= 2500, ProbeInv(D), RoundTripsFall, NEW e \in Top(event_q),
         e.kind = "Recv", e.pkt.type = "PONG", NEW adj, adj = router[e.dest].adjacencyList,
         e.pkt.sourceID \in DOMAIN adj
  PROVE  RoundTripCost(e.time, e.pkt.stamp) <= adj[e.pkt.sourceID].timeCost
<1>1. /\ e \in Probes /\ Prober(e) = e.dest /\ Target(e) = e.pkt.sourceID
      /\ RoundTripCost(e.time, e.pkt.stamp) = Age(e)
  BY PongFacts
<1>2. NoSlower(e, adj[e.pkt.sourceID].timeCost)
  BY <1>1 DEF RoundTripsFall
<1> QED
  BY <1>1, <1>2 DEF NoSlower

LEMMA RouterNumbers ==
  ASSUME NEW s, NEW r, NEW now \in Nat, IsRouter(s, r, now)
  PROVE  /\ \A n \in DOMAIN s.adjacencyList : s.adjacencyList[n].timeCost \in Nat
         /\ DOMAIN s.portStatus \subseteq Ports[r]
         /\ \A p \in DOMAIN s.portStatus : s.portStatus[p].lastUpdate \in Nat
         /\ \A d \in DOMAIN s.forwardingTable : s.forwardingTable[d].routeCost \in Nat
<1>1. \A n \in DOMAIN s.adjacencyList : s.adjacencyList[n].timeCost \in Cost
  BY DEF IsRouter, IsMap, NeighbourEntry
<1>2. \A d \in DOMAIN s.forwardingTable : s.forwardingTable[d].routeCost \in Cost
  BY DEF IsRouter, IsMap, RouteEntry
<1>3. \A p \in DOMAIN s.portStatus : s.portStatus[p].lastUpdate \in Nat
  BY DEF IsRouter, IsMap, PortEntry
<1> QED
  BY <1>1, <1>2, <1>3, CostNumbers DEF IsRouter, IsMap

LEMMA TablesAreCosts ==
  ASSUME DVInv
  PROVE  AreCosts(Tables) /\ \A n \in Router : Tables[n] = router[n].forwardingTable
<1>1. \A n \in Router : Tables[n] = router[n].forwardingTable
  BY DEF Tables
<1>2. ASSUME NEW n \in Router, NEW d \in DOMAIN Tables[n]
      PROVE  Tables[n][d].routeCost \in Nat
  <2>1. /\ IsRouter(router[n], n, global_time) /\ Tables[n] = router[n].forwardingTable
        /\ global_time \in Nat
    BY <1>1 DEF DVInv, StatesOK, SimInv, SimTypeOK
  <2> QED
    BY <1>2, <2>1, RouterNumbers
<1> QED
  BY <1>1, <1>2 DEF AreCosts

\* All that the network has been found to keep to so far.
Measured(D) ==
  /\ ProbeInv(D) /\ PortsMeasured(D) /\ RoundTripsFall /\ FirstAwaited /\ PortsRenewed
  /\ VectorsWait

\* What router r has after event e is as good as what it had before.
Keeps(s, u, out, e, caps, B) ==
  /\ RowsBacked(u, Tables, caps, B) /\ BestKept(u) /\ Improves(s, u)
  /\ TellsTable(u, out)
  /\ IF e.kind = "Recv" /\ e.pkt.type = "PONG"
     THEN Learned(s, u, e.dport, e.pkt.sourceID, RoundTripCost(e.time, e.pkt.stamp), e.time)
     ELSE u.portStatus = s.portStatus /\ u.adjacencyList = s.adjacencyList

\* A router that has measured its neighbours improves its tables, whatever it handles.
LEMMA StepTables ==
  ASSUME DVInv, NEW D \in Nat, D <= 2500, OneLinkEach, Measured(D),
         NEW caps, Capped(caps, 2 * D), TablesBacked(caps, 2 * D), VectorsHonest(caps),
         RoutesRenewed, NoBadNews, NEW e, NEW r, NEW o, RouterStep(e, r, o)
  PROVE  Keeps(router[r], o.s, o.out, e, caps, 2 * D)
<1> DEFINE s == router[r]
           B == 2 * D
<1>1. /\ e \in Top(event_q) /\ e \in Pending /\ r \in Router /\ EventFits(e, global_time) /\ e.time \in Nat
      /\ SimInv /\ ProbeInv(D)
  BY TopFacts DEF RouterStep, Turn, DVInv, SimInv, EventFits, Measured
<1>16. Handled(s, e, r, o)
  BY DEF RouterStep
<1>2. IsRouter(s, r, e.time)
  <2>1. IsRouter(s, r, global_time) /\ global_time \in Nat /\ global_time <= e.time
    BY <1>1 DEF DVInv, StatesOK, SimInv, SimTypeOK, EventFits
  <2> HIDE DEF s
  <2> QED
    BY <1>1, <2>1, RouterLater
<1>3. RowsBacked(s, Tables, caps, B) /\ BestKept(s) /\ AreCosts(Tables)
  BY <1>1, TablesAreCosts DEF TablesBacked
<1>4. Improves(s, s)
  <2>1. \A d \in DOMAIN s.forwardingTable : s.forwardingTable[d].routeCost \in Nat
    BY <1>1, <1>3, TablesAreCosts DEF AreCosts
  <2> QED
    BY <2>1 DEF Improves
<1> HIDE DEF s, B
<1> SUFFICES Keeps(s, o.s, o.out, e, caps, B)
  BY DEF s, B
<1>5. ASSUME o.s = s, TellsTable(o.s, o.out), ~(e.kind = "Recv" /\ e.pkt.type = "PONG")
      PROVE  Keeps(s, o.s, o.out, e, caps, B)
  BY <1>3, <1>4, <1>5 DEF Keeps
<1>6. ASSUME NEW pkt, pkt.type = "DATA", o \in handleData(s, pkt), ~(e.kind = "Recv" /\ e.pkt.type = "PONG")
      PROVE  Keeps(s, o.s, o.out, e, caps, B)
  BY <1>3, <1>5, <1>6, DataTables
<1>7. CASE /\ e.kind = "XmitEndToEnd"
           /\ o \in handleData(s, [type |-> "DATA", src |-> e.src, dst |-> e.dst])
  BY <1>6, <1>7
<1>8. CASE e.kind = "Recv" /\ e.pkt.type = "DATA" /\ o \in handleData(s, e.pkt)
  BY <1>6, <1>8
<1>9. CASE e.kind = "Recv" /\ e.pkt.type = "PING" /\ o \in handlePings(s, e.dport, e.pkt)
  <2>1. o.s = s /\ \A m \in o.out : m.pkt.type = "PONG"
    BY <1>9 DEF handlePings, To
  <2> QED
    BY <1>5, <1>9, <2>1 DEF TellsTable
<1>10. CASE e.kind = "Recv" /\ r = e.dest /\ e.pkt.type = "PONG" /\ o \in handlePongs(s, e.dport, e.pkt, e.time)
  <2> DEFINE rtt == RoundTripCost(e.time, e.pkt.stamp)
             n   == e.pkt.sourceID
  <2>1. /\ n \in Others(r) /\ e.dport \in Ports[r] /\ e.pkt.stamp \in Nat
        /\ rtt = Age(e) /\ Age(e) <= B
    BY <1>1, <1>10, PongFacts DEF B
  <2>2. n \in DOMAIN s.adjacencyList => rtt <= s.adjacencyList[n].timeCost
    BY <1>1, <1>10, PongsFall DEF Measured, s
  <2>3. RowsBacked(o.s, Tables, caps, B) /\ BestKept(o.s) /\ Improves(s, o.s)
    <3>1. rtt <= B
      BY <2>1
    <3>2. Capped(caps, B)
      BY DEF B
    <3> QED
      BY <1>1, <1>2, <1>3, <1>10, <2>1, <2>2, <3>1, <3>2, PongTables
  <2>4. /\ o.out = {} \/ o.out = sendUpdates(o.s)
        /\ Learned(s, o.s, e.dport, n, rtt, e.time)
    BY <1>1, <1>2, <1>10, <2>1, PongTaken
  <2>5. TellsTable(o.s, o.out)
    BY <2>4 DEF TellsTable
  <2> QED
    BY <1>10, <2>3, <2>4, <2>5 DEF Keeps
<1>11. CASE e.kind = "Recv" /\ r = e.dest /\ e.pkt.type = "DV" /\ o \in handleDVPacket(s, e.pkt, e.time)
  <2> DEFINE n == e.pkt.sourceID
  <2>1. e \in InFlight /\ n = Sender(e) /\ IsVector(e.pkt, n) /\ n \in Others(r)
    <3>1. e \in InFlight
      BY <1>1, <1>11 DEF InFlight
    <3>2. IsVector(e.pkt, Sender(e))
      BY <1>11, <3>1 DEF DVInv, VectorsOK
    <3>3. Sender(e) \in Others(r)
      BY <1>1, <1>11, SenderFacts DEF Others
    <3> QED
      BY <3>1, <3>2, <3>3 DEF IsVector
  <2>2. n \in DOMAIN s.adjacencyList
    BY <1>1, <1>11, <2>1, VectorsFromNeighbours DEF Measured, s
  <2>3. IsHonest(e.pkt.routes, Tables[n], caps)
    BY <1>11, <2>1, TablesAreCosts DEF VectorsHonest, Others
  <2>4. \A d \in DestsOver(s.bigTable, n) \ {n} :
          /\ d \in DOMAIN e.pkt.routes
          /\ e.pkt.routes[d] < INFINITY_COST =>
               s.adjacencyList[n].timeCost + e.pkt.routes[d] <= s.bigTable[<<d, n>>]
    BY <1>1, <1>11 DEF NoBadNews, Arrivals, s
  <2>5. \A k \in DOMAIN s.adjacencyList :
          1 <= s.adjacencyList[k].timeCost /\ s.adjacencyList[k].timeCost <= B
    <3> SUFFICES ASSUME NEW k \in DOMAIN s.adjacencyList
                 PROVE  1 <= s.adjacencyList[k].timeCost /\ s.adjacencyList[k].timeCost <= B
      OBVIOUS
    <3>1. PICK l \in LinksOf(r) : k = Peer(r, l)
      BY <1>1 DEF Measured, PortsMeasured, s
    <3>2. s.adjacencyList[k].timeCost >= 2 * link[l].delay /\ s.adjacencyList[k].timeCost <= B
      BY <1>1, <3>1 DEF Measured, PortsMeasured, s, B
    <3>3. link[l].delay >= 1 /\ link[l].delay \in Nat
      BY <1>1, PeerFacts DEF ProbeInv, LinksFaster, SimInv, SimTypeOK
    <3>4. s.adjacencyList[k].timeCost \in Nat
      BY <1>1, <1>2, RouterNumbers
    <3> QED
      BY <3>2, <3>3, <3>4
  <2>6. Capped(caps, B)
    BY DEF B
  <2>7. /\ RowsBacked(o.s, Tables, caps, B) /\ BestKept(o.s) /\ Improves(s, o.s)
        /\ o.s.portStatus = s.portStatus /\ o.s.adjacencyList = s.adjacencyList
    BY <1>1, <1>2, <1>3, <1>11, <2>1, <2>2, <2>3, <2>4, <2>5, <2>6, VectorTables
  <2>8. o.out = {} \/ o.out = sendUpdates(o.s)
    BY <1>1, <1>2, <1>11, <2>1, VectorFacts
  <2> QED
    BY <1>11, <2>7, <2>8 DEF Keeps, TellsTable
<1>12. CASE e.kind = "Alarm" /\ o = [s |-> s, out |-> sendPings(s, e.time)]
  <2>1. \A m \in o.out : m.pkt.type = "PING"
    BY <1>12 DEF sendPings, To
  <2> QED
    BY <1>5, <1>12, <2>1 DEF TellsTable
<1>13. CASE e.kind = "Alarm" /\ o = [s |-> s, out |-> sendUpdates(s)]
  BY <1>5, <1>13 DEF TellsTable
<1>14. CASE e.kind = "Alarm" /\ r = e.router /\ e.type = "Freshness" /\ o \in checkFreshness(s, e.time)
  <2>1. DeadPorts(s, e.time) = {}
    <3>1. /\ DOMAIN s.portStatus \subseteq Ports[r]
          /\ \A p \in DOMAIN s.portStatus : s.portStatus[p].lastUpdate \in Nat
      BY <1>1, <1>2, RouterNumbers
    <3> QED
      BY <1>1, <3>1, NoDeadPorts DEF Measured, s
  <2>2. StaleEntries(s, e.time) = {}
    <3>1. e \in Top(event_q) /\ e.kind = "Alarm" /\ e.type = "Freshness" /\ s = router[e.router]
      BY <1>1, <1>14 DEF s
    <3>2. e \in Alarms("Freshness")
      BY <3>1 DEF Alarms
    <3> QED
      BY <3>1, <3>2 DEF RoutesRenewed
  <2>3. o = [s |-> s, out |-> {}]
    BY <1>14, <2>1, <2>2 DEF checkFreshness, Keep
  <2> QED
    BY <1>5, <1>14, <2>3 DEF TellsTable
<1> QED
  BY <1>7, <1>8, <1>9, <1>10, <1>11, <1>12, <1>13, <1>14, <1>16 DEF Handled

-----------------------------------------------------------------------------
\* No route is longer than a way through all routers: the more routers have a route to d,
\* the higher the bound on all of them.

Reached(tables, d) == {q \in Router : d \in DOMAIN tables[q]}
CapsOf(tables, B)  == [d \in Router |-> B * Size(Reached(tables, d))]

LEMMA Multiples ==
  ASSUME NEW c \in Nat, NEW k \in Nat, NEW m \in Nat
  PROVE  /\ c * k \in Nat
         /\ k <= m => c * k <= c * m
         /\ k < m => c * k + c <= c * m
<1>1. c * k \in Nat /\ c * m \in Nat
  BY SMT
<1>2. ASSUME NEW a \in Nat, NEW b \in Nat, b = a
      PROVE  c * b = c * a
  BY <1>2
<1>3. CASE k <= m
  <2>1. m - k \in Nat /\ c * (m - k) \in Nat
    BY <1>3
  <2>2. c * m = c * k + c * (m - k)
    BY SMT
  <2> QED
    BY <1>1, <1>3, <2>1, <2>2
<1>4. CASE k < m
  <2>1. m - k - 1 \in Nat /\ c * (m - k - 1) \in Nat
    BY <1>4
  <2>2. c * m = c * k + c + c * (m - k - 1)
    BY SMT
  <2> QED
    BY <1>1, <1>3, <1>4, <2>1, <2>2
<1> QED
  BY <1>1, <1>3, <1>4

LEMMA RouterCountIsSize == RouterCount = Size(Router)
BY DEF RouterCount, Size

LEMMA ReachedFacts ==
  ASSUME NEW T \in SUBSET Router, NEW S \in SUBSET T
  PROVE  /\ Size(S) \in Nat /\ Size(T) \in Nat /\ Size(S) <= Size(T)
         /\ S # T => Size(S) < Size(T)
<1>1. 127 \in Nat /\ T \subseteq 1 .. 127
  BY RouterAssumption
<1> QED
  BY <1>1, SizeFacts

\* No router has a route to itself, so there is room for one link more.
LEMMA CapsFit ==
  ASSUME NEW B \in Nat, B * RouterCount < NoRoute,
         NEW tables, \A q \in Router : q \notin DOMAIN tables[q]
  PROVE  Capped(CapsOf(tables, B), B)
<1> SUFFICES ASSUME NEW d \in Router
             PROVE  CapsOf(tables, B)[d] \in Nat /\ CapsOf(tables, B)[d] + B < NoRoute
  BY DEF Capped
<1> DEFINE S == Reached(tables, d)
           k == Size(S)
           m == RouterCount
<1>1. CapsOf(tables, B)[d] = B * k
  BY DEF CapsOf
<1>2. S \in SUBSET Router /\ S # Router
  BY DEF Reached
<1>3. k \in Nat /\ m \in Nat /\ k < m
  <2> HIDE DEF S
  <2> QED
    BY <1>2, RouterCountIsSize, ReachedFacts
<1> HIDE DEF k, m, S
<1>4. B * k \in Nat /\ B * k + B <= B * m /\ B * m \in Nat
  BY <1>3, Multiples
<1>5. B * m < NoRoute
  BY DEF m
<1>6. NoRoute \in Nat
  BY DEF NoRoute, INFINITY_COST
<1> DEFINE x == B * k
           y == B * m
<1>7. x \in Nat /\ x + B <= y /\ y \in Nat /\ y < NoRoute
  BY <1>4, <1>5
<1>8. CapsOf(tables, B)[d] = x
  BY <1>1
<1> HIDE DEF x, y, NoRoute
<1> QED
  BY <1>6, <1>7, <1>8

\* When a router finds a route, the bound rises by one link.
LEMMA CapsGrow ==
  ASSUME NEW B \in Nat, NEW tables, NEW later,
         \A q \in Router : DOMAIN tables[q] \subseteq DOMAIN later[q],
         NEW d \in Router
  PROVE  /\ CapsOf(tables, B)[d] \in Nat /\ CapsOf(later, B)[d] \in Nat
         /\ CapsOf(tables, B)[d] <= CapsOf(later, B)[d]
         /\ \A q \in Router : d \in DOMAIN later[q] /\ d \notin DOMAIN tables[q] =>
              CapsOf(tables, B)[d] + B <= CapsOf(later, B)[d]
<1> DEFINE S == Reached(tables, d)
           T == Reached(later, d)
           k == Size(S)
           m == Size(T)
<1>1. CapsOf(tables, B)[d] = B * k /\ CapsOf(later, B)[d] = B * m
  BY DEF CapsOf
<1>2. S \in SUBSET T /\ \A q \in Router : d \in DOMAIN later[q] /\ d \notin DOMAIN tables[q] => S # T
  BY DEF Reached
<1>3. T \in SUBSET Router
  BY DEF Reached
<1>4. k \in Nat /\ m \in Nat /\ k <= m /\ (S # T => k < m)
  <2> HIDE DEF S, T
  <2> QED
    BY <1>2, <1>3, ReachedFacts
<1> HIDE DEF k, m, S, T
<1>5. B * k \in Nat /\ B * m \in Nat /\ B * k <= B * m /\ (S # T => B * k + B <= B * m)
  BY <1>4, Multiples
<1> QED
  BY <1>1, <1>2, <1>5

-----------------------------------------------------------------------------
\* The tables of the network.

\* Whatever another router improves, and however the bound grows, rows stay backed.
LEMMA BackedLater ==
  ASSUME NEW r \in Router, NEW s, NEW now, IsRouter(s, r, now),
         NEW tables, AreCosts(tables), NEW later, AreCosts(later),
         \A n \in Router : \A d \in DOMAIN tables[n] :
           d \in DOMAIN later[n] /\ later[n][d].routeCost <= tables[n][d].routeCost,
         NEW B, NEW caps, Capped(caps, B), RowsBacked(s, tables, caps, B),
         NEW after, \A d \in Router : after[d] \in Nat /\ caps[d] <= after[d]
  PROVE  RowsBacked(s, later, after, B)
<1> SUFFICES ASSUME NEW d, NEW n, <<d, n>> \in DOMAIN s.bigTable
             PROVE  LET row == s.bigTable[<<d, n>>] IN
                    /\ n \in DOMAIN s.adjacencyList
                    /\ IF d = n THEN row = s.adjacencyList[n].timeCost
                       ELSE /\ d \in DOMAIN later[n]
                            /\ row >= s.adjacencyList[n].timeCost + later[n][d].routeCost
                    /\ row <= after[d] + B
  BY DEF RowsBacked
<1> DEFINE row  == s.bigTable[<<d, n>>]
           cost == s.adjacencyList[n].timeCost
<1>1. /\ d \in Router /\ n \in Router /\ row \in Nat /\ cost \in Nat
  BY RowsBelow DEF Others
<1>2. /\ n \in DOMAIN s.adjacencyList
      /\ IF d = n THEN row = cost
         ELSE d \in DOMAIN tables[n] /\ row >= cost + tables[n][d].routeCost
      /\ row <= caps[d] + B
  BY DEF RowsBacked
<1> HIDE DEF row, cost
<1>3. row <= after[d] + B
  <2>1. after[d] \in Nat /\ caps[d] <= after[d] /\ caps[d] \in Nat /\ B \in Nat
    BY <1>1 DEF Capped
  <2> QED
    BY <1>1, <1>2, <2>1
<1>4. ASSUME d # n
      PROVE  d \in DOMAIN later[n] /\ row >= cost + later[n][d].routeCost
  <2>1. /\ d \in DOMAIN tables[n] /\ row >= cost + tables[n][d].routeCost
        /\ d \in DOMAIN later[n] /\ later[n][d].routeCost <= tables[n][d].routeCost
    BY <1>1, <1>2, <1>4
  <2>2. later[n][d].routeCost \in Nat /\ tables[n][d].routeCost \in Nat
    BY <1>1, <2>1 DEF AreCosts
  <2> QED
    BY <1>1, <2>1, <2>2
<1> QED
  BY <1>2, <1>3, <1>4 DEF row, cost

\* What vectors say stays true, and those sent now are.
LEMMA HonestLater ==
  ASSUME NEW routes, \A d \in DOMAIN routes : d \in Router /\ routes[d] \in Nat,
         NEW table, \A d \in DOMAIN table : table[d].routeCost \in Nat,
         NEW later, \A d \in DOMAIN later : later[d].routeCost \in Nat,
         \A d \in DOMAIN table : d \in DOMAIN later /\ later[d].routeCost <= table[d].routeCost,
         NEW caps, NEW after,
         \A d \in Router : caps[d] \in Nat /\ after[d] \in Nat /\ caps[d] <= after[d],
         IsHonest(routes, table, caps)
  PROVE  IsHonest(routes, later, after)
<1> SUFFICES ASSUME NEW d \in DOMAIN routes
             PROVE  /\ d \in DOMAIN later /\ later[d].routeCost <= routes[d]
                    /\ routes[d] = INFINITY_COST \/ routes[d] <= after[d]
  BY DEF IsHonest
<1>1. /\ d \in DOMAIN table /\ table[d].routeCost <= routes[d]
      /\ routes[d] = INFINITY_COST \/ routes[d] <= caps[d]
  BY DEF IsHonest
<1>2. /\ d \in DOMAIN later /\ later[d].routeCost <= table[d].routeCost
      /\ later[d].routeCost \in Nat /\ table[d].routeCost \in Nat /\ routes[d] \in Nat
      /\ caps[d] \in Nat /\ after[d] \in Nat /\ caps[d] <= after[d]
  BY <1>1
<1> QED
  BY <1>1, <1>2

LEMMA SentHonest ==
  ASSUME NEW u, NEW r, NEW now, IsRouter(u, r, now),
         NEW caps, \A d \in DOMAIN u.forwardingTable : u.forwardingTable[d].routeCost <= caps[d],
         NEW m \in sendUpdates(u)
  PROVE  IsHonest(m.pkt.routes, u.forwardingTable, caps) /\ m.port \in DOMAIN u.portStatus
<1> DEFINE table  == u.forwardingTable
           routes == m.pkt.routes
<1>1. PICK p \in UpPorts(u) : m = To(p, createDVPacket(u, u.portStatus[p].destRouterID))
  BY DEF sendUpdates
<1>2. m.port \in DOMAIN u.portStatus
  BY <1>1 DEF UpPorts, To
<1>3. /\ DOMAIN routes = DOMAIN table
      /\ \A d \in DOMAIN routes : routes[d] = INFINITY_COST \/ routes[d] = table[d].routeCost
  BY <1>1 DEF createDVPacket, To
<1>4. \A d \in DOMAIN table : table[d].routeCost \in Cost
  BY DEF IsRouter, IsMap, RouteEntry
<1>5. \A d \in DOMAIN table : table[d].routeCost \in Nat /\ table[d].routeCost <= INFINITY_COST
  BY <1>4, CostNumbers
<1> HIDE DEF routes
<1>6. IsHonest(routes, table, caps)
  <2> SUFFICES ASSUME NEW d \in DOMAIN routes
               PROVE  /\ d \in DOMAIN table /\ table[d].routeCost <= routes[d]
                      /\ routes[d] = INFINITY_COST \/ routes[d] <= caps[d]
    BY DEF IsHonest
  <2>1. /\ d \in DOMAIN table /\ table[d].routeCost \in Nat /\ table[d].routeCost <= INFINITY_COST
        /\ table[d].routeCost <= caps[d]
        /\ routes[d] = INFINITY_COST \/ routes[d] = table[d].routeCost
    BY <1>3, <1>5
  <2> QED
    BY <2>1
<1> QED
  BY <1>2, <1>6 DEF routes

\* No route is above the bound, nor is any cost that was heard.
TablesCapped(caps) ==
  \A r \in Router : \A d \in DOMAIN router[r].forwardingTable :
    router[r].forwardingTable[d].routeCost <= caps[d]

HeardCapped(caps) ==
  \A r, n \in Router : \A d \in DOMAIN told[r][n] : told[r][n][d] <= caps[d]

RoutesInv(D) ==
  LET caps == CapsOf(Tables, 2 * D) IN
  /\ TablesBacked(caps, 2 * D) /\ TablesCapped(caps)
  /\ VectorsHonest(caps) /\ HeardCapped(caps)

\* There is always room under the bound for one link more.
LEMMA CapsNow ==
  ASSUME DVInv, NEW D \in Nat, OnlyFaster(D)
  PROVE  Capped(CapsOf(Tables, 2 * D), 2 * D)
<1>1. \A q \in Router : q \notin DOMAIN Tables[q]
  BY DEF DVInv, StatesOK, IsRouter, IsMap, Others, Tables
<1>2. 2 * D \in Nat
  OBVIOUS
<1> DEFINE B == 2 * D
<1>3. B \in Nat /\ B * RouterCount < NoRoute
  BY <1>2 DEF OnlyFaster
<1> HIDE DEF B
<1>4. Capped(CapsOf(Tables, B), B)
  BY <1>1, <1>3, CapsFit
<1> QED
  BY <1>4 DEF B

LEMMA OnlyFasterFacts ==
  ASSUME NEW D, OnlyFaster(D)
  PROVE  D <= 2500 /\ OneLinkEach /\ NoLosses
BY DEF OnlyFaster, OneLinkEach, NoLosses

\* What router r makes of event e, and that no other router changes.
LEMMA StepKeeps ==
  ASSUME DVInv, NEW D \in Nat, OnlyFaster(D), Measured(D), RoutesInv(D), RoutesRenewed, NoBadNews, NEW e, NEW r, NEW o, RouterStep(e, r, o)
  PROVE  /\ Keeps(router[r], o.s, o.out, e, CapsOf(Tables, 2 * D), 2 * D)
         /\ r \in Router /\ \A q \in Router : router'[q] = IF q = r THEN o.s ELSE router[q]
         /\ KnowsNext(e)
<1> DEFINE caps == CapsOf(Tables, 2 * D)
<1>1. Capped(caps, 2 * D)
  BY CapsNow
<1>2. TablesBacked(caps, 2 * D) /\ VectorsHonest(caps)
  BY DEF RoutesInv
<1> HIDE DEF caps
<1>3. Keeps(router[r], o.s, o.out, e, caps, 2 * D)
  BY <1>1, <1>2, OnlyFasterFacts, StepTables
<1>4. r \in Router /\ \A q \in Router : router'[q] = IF q = r THEN o.s ELSE router[q]
  BY DEF RouterStep, Turn, DVInv, StatesOK
<1>5. e.kind = "Recv" => r = e.dest
  BY DEF RouterStep, Handled
<1>6. KnowsNext(e)
  BY <1>3, <1>4, <1>5 DEF KnowsNext, Keeps
<1> QED
  BY <1>3, <1>4, <1>6 DEF caps

\* All tables, before and after a router has improved its own.
LEMMA NextTables ==
  ASSUME DVInv, DVInv', NEW r \in Router, NEW u, Improves(router[r], u),
         \A q \in Router : router'[q] = IF q = r THEN u ELSE router[q], NEW B \in Nat
  PROVE  /\ AreCosts(Tables) /\ AreCosts(Tables')
         /\ \A n \in Router : \A d \in DOMAIN Tables[n] :
              d \in DOMAIN Tables'[n] /\ Tables'[n][d].routeCost <= Tables[n][d].routeCost
         /\ \A d \in Router : LET caps  == CapsOf(Tables, B)
                                  after == CapsOf(Tables', B)
                              IN /\ caps[d] \in Nat /\ after[d] \in Nat /\ caps[d] <= after[d]
                                 /\ d \in DOMAIN u.forwardingTable /\ d \notin DOMAIN router[r].forwardingTable =>
                                      caps[d] + B <= after[d]
<1> DEFINE tables == Tables
           later  == Tables'
<1>1. \A n \in Router : tables[n] = router[n].forwardingTable /\ later[n] = router'[n].forwardingTable
  BY DEF Tables
<1>2. \A n \in Router : /\ IsRouter(router[n], n, global_time) /\ IsRouter(router'[n], n, global_time')
                        /\ global_time \in Nat /\ global_time' \in Nat
  BY DEF DVInv, StatesOK, SimInv, SimTypeOK
<1>3. \A n \in Router : /\ \A d \in DOMAIN router[n].forwardingTable :
                             router[n].forwardingTable[d].routeCost \in Nat
                        /\ \A d \in DOMAIN router'[n].forwardingTable :
                             router'[n].forwardingTable[d].routeCost \in Nat
  BY <1>2, RouterNumbers
<1> HIDE DEF tables, later
<1>4. AreCosts(tables) /\ AreCosts(later)
  BY <1>1, <1>3 DEF AreCosts
<1>5. \A n \in Router : \A d \in DOMAIN tables[n] :
        d \in DOMAIN later[n] /\ later[n][d].routeCost <= tables[n][d].routeCost
  BY <1>1, <1>3 DEF Improves
<1>6. \A q \in Router : DOMAIN tables[q] \subseteq DOMAIN later[q]
  BY <1>5
<1>7. ASSUME NEW d \in Router
      PROVE  LET caps  == CapsOf(tables, B)
                 after == CapsOf(later, B)
             IN /\ caps[d] \in Nat /\ after[d] \in Nat /\ caps[d] <= after[d]
                /\ d \in DOMAIN u.forwardingTable /\ d \notin DOMAIN router[r].forwardingTable =>
                     caps[d] + B <= after[d]
  <2>1. later[r] = u.forwardingTable /\ tables[r] = router[r].forwardingTable
    BY <1>1
  <2> QED
    BY <1>6, <2>1, CapsGrow
<1> QED
  BY <1>4, <1>5, <1>7 DEF tables, later

\* What holds of routes goes on to hold.
LEMMA RoutesKept ==
  ASSUME DVInv, DVInv', NEW D \in Nat, OnlyFaster(D), Measured(D), RoutesInv(D),
         RoutesRenewed, NoBadNews, NEW e, NEW r, NEW o, RouterStep(e, r, o)
  PROVE  RoutesInv(D)'
<1> DEFINE B      == 2 * D
           caps   == CapsOf(Tables, B)
           after  == CapsOf(Tables', B)
           s      == router[r]
           u      == o.s
<1>1. /\ Keeps(s, u, o.out, e, caps, B)
      /\ r \in Router /\ \A q \in Router : router'[q] = IF q = r THEN u ELSE router[q]
  BY StepKeeps
<1>2. B \in Nat
  OBVIOUS
<1>3. /\ AreCosts(Tables) /\ AreCosts(Tables')
      /\ \A n \in Router : \A d \in DOMAIN Tables[n] :
           d \in DOMAIN Tables'[n] /\ Tables'[n][d].routeCost <= Tables[n][d].routeCost
      /\ \A d \in Router :
           /\ caps[d] \in Nat /\ after[d] \in Nat /\ caps[d] <= after[d]
           /\ d \in DOMAIN u.forwardingTable /\ d \notin DOMAIN s.forwardingTable => caps[d] + B <= after[d]
  <2> HIDE DEF B, u
  <2>1. Improves(router[r], u)
    BY <1>1 DEF Keeps
  <2> QED
    BY <1>1, <1>2, <2>1, NextTables
<1>4. Capped(caps, B) /\ TablesBacked(caps, B) /\ TablesCapped(caps) /\ VectorsHonest(caps) /\ HeardCapped(caps)
  BY CapsNow DEF RoutesInv
<1>5. \A n \in Router : /\ IsRouter(router[n], n, global_time) /\ IsRouter(router'[n], n, global_time')
                        /\ global_time \in Nat /\ global_time' \in Nat
  BY DEF DVInv, StatesOK, SimInv, SimTypeOK
<1>6. RoutesInv(D)' <=> /\ \A q \in Router : RowsBacked(router'[q], Tables', after, B) /\ BestKept(router'[q])
                        /\ \A q \in Router : \A d \in DOMAIN router'[q].forwardingTable :
                             router'[q].forwardingTable[d].routeCost <= after[d]
                        /\ \A f \in InFlight' : f.pkt.type = "DV" =>
                             IsHonest(f.pkt.routes, router'[Sender(f)].forwardingTable, after)
                        /\ \A q, n \in Router : \A d \in DOMAIN told'[q][n] : told'[q][n][d] <= after[d]
  BY DEF RoutesInv, TablesBacked, TablesCapped, VectorsHonest, HeardCapped
<1> HIDE DEF B, caps, after, s, u
<1>7. ASSUME NEW q \in Router
      PROVE  RowsBacked(router'[q], Tables', after, B) /\ BestKept(router'[q])
  <2> DEFINE tables == Tables
             later  == Tables'
             t      == router'[q]
  <2>1. RowsBacked(t, tables, caps, B) /\ BestKept(t)
    BY <1>1, <1>4 DEF Keeps, TablesBacked, s
  <2>2. IsRouter(t, q, global_time')
    BY <1>5
  <2>3. /\ AreCosts(tables) /\ AreCosts(later)
        /\ \A n \in Router : \A d \in DOMAIN tables[n] :
             d \in DOMAIN later[n] /\ later[n][d].routeCost <= tables[n][d].routeCost
    BY <1>3
  <2>4. \A d \in Router : after[d] \in Nat /\ caps[d] <= after[d]
    BY <1>3
  <2>5. RowsBacked(t, later, after, B)
    <3> HIDE DEF tables, later, t
    <3> QED
      BY <1>4, <2>1, <2>2, <2>3, <2>4, BackedLater
  <2> QED
    BY <2>1, <2>5
<1>8. ASSUME NEW q \in Router, NEW d \in DOMAIN router'[q].forwardingTable
      PROVE  router'[q].forwardingTable[d].routeCost <= after[d]
  <2>1. IsRouter(router'[q], q, global_time') /\ d \in Router
    BY <1>5, <1>8 DEF IsRouter, IsMap, Others
  <2>2. router'[q].forwardingTable[d].routeCost \in Nat
    BY <1>5, <1>8, RouterNumbers
  <2>3. caps[d] \in Nat /\ after[d] \in Nat /\ caps[d] <= after[d]
    BY <1>3, <2>1
  <2>4. CASE d \in DOMAIN router[q].forwardingTable
    <3>1. router[q].forwardingTable[d].routeCost <= caps[d] /\ router[q].forwardingTable[d].routeCost \in Nat
      <4>1. router[q].forwardingTable[d].routeCost \in Nat
        BY <1>5, <2>4, RouterNumbers
      <4> QED
        BY <1>4, <2>4, <4>1 DEF TablesCapped
    <3>2. router'[q].forwardingTable[d].routeCost <= router[q].forwardingTable[d].routeCost
      <4>1. CASE q = r
        BY <1>1, <2>4, <4>1 DEF Keeps, Improves, s
      <4>2. CASE q # r
        BY <1>1, <3>1, <4>2
      <4> QED
        BY <4>1, <4>2
    <3> QED
      BY <2>2, <2>3, <3>1, <3>2
  <2>5. CASE d \notin DOMAIN router[q].forwardingTable
    <3>1. q = r /\ router'[q] = u /\ s = router[q]
      BY <1>1, <1>8, <2>5 DEF s
    <3>2. caps[d] + B <= after[d]
      BY <1>3, <1>8, <2>1, <2>5, <3>1
    <3>3. u.forwardingTable[d].routeCost <= caps[d] + B
      <4> DEFINE h == u.forwardingTable[d].nextHop
      <4>1. BestKept(u) /\ RowsBacked(u, Tables, caps, B)
        BY <1>1 DEF Keeps
      <4>2. <<d, h>> \in DOMAIN u.bigTable /\ u.forwardingTable[d].routeCost = u.bigTable[<<d, h>>]
        BY <1>8, <3>1, <4>1 DEF BestKept
      <4>3. u.bigTable[<<d, h>>] <= caps[d] + B
        BY <4>1, <4>2 DEF RowsBacked
      <4> QED
        BY <4>2, <4>3
    <3> QED
      BY <1>2, <2>2, <2>3, <3>1, <3>2, <3>3
  <2> QED
    BY <2>4, <2>5
<1>9. ASSUME NEW f \in InFlight', f.pkt.type = "DV"
      PROVE  IsHonest(f.pkt.routes, router'[Sender(f)].forwardingTable, after)
  <2>1. SimInv /\ Turn(e, r, o)
    BY DEF RouterStep, DVInv
  <2>2. \/ f \in InFlight
        \/ \E m \in o.out : Carries(f, r, m)
    BY <2>1, TurnPackets
  <2>3. CASE f \in InFlight
    <3> DEFINE n == Sender(f)
    <3>1. n \in Router /\ IsVector(f.pkt, n)
      BY <1>9, <2>1, <2>3, SenderFacts DEF InFlight, SimInv, DVInv, VectorsOK
    <3>2. IsHonest(f.pkt.routes, router[n].forwardingTable, caps)
      BY <1>4, <1>9, <2>3 DEF VectorsHonest
    <3> HIDE DEF n
    <3>3. \A d \in DOMAIN f.pkt.routes : d \in Router /\ f.pkt.routes[d] \in Nat
      <4>1. \A d \in DOMAIN f.pkt.routes : d \in Router /\ f.pkt.routes[d] \in Cost
        BY <3>1 DEF IsVector, IsMap, Others
      <4> QED
        BY <4>1, CostNumbers
    <3>4. /\ Tables[n] = router[n].forwardingTable /\ Tables'[n] = router'[n].forwardingTable
          /\ \A d \in DOMAIN Tables[n] : Tables[n][d].routeCost \in Nat
          /\ \A d \in DOMAIN Tables'[n] : Tables'[n][d].routeCost \in Nat
      BY <1>3, <3>1 DEF Tables, AreCosts
    <3> DEFINE table == Tables[n]
               later == Tables'[n]
    <3>5. /\ \A d \in DOMAIN table : table[d].routeCost \in Nat
          /\ \A d \in DOMAIN later : later[d].routeCost \in Nat
          /\ \A d \in DOMAIN table : d \in DOMAIN later /\ later[d].routeCost <= table[d].routeCost
          /\ IsHonest(f.pkt.routes, table, caps)
      BY <1>3, <3>1, <3>2, <3>4
    <3>6. \A d \in Router : caps[d] \in Nat /\ after[d] \in Nat /\ caps[d] <= after[d]
      BY <1>3
    <3>7. IsHonest(f.pkt.routes, later, after)
      <4> HIDE DEF table, later
      <4> QED
        BY <3>3, <3>5, <3>6, HonestLater
    <3> QED
      BY <3>4, <3>7 DEF n
  <2>4. ASSUME NEW m \in o.out, Carries(f, r, m)
        PROVE  IsHonest(f.pkt.routes, router'[Sender(f)].forwardingTable, after)
    <3>1. m.port \in Ports[r]
      BY StepFollows DEF Sends
    <3>2. Sender(f) = r /\ f.pkt = m.pkt
      BY <1>1, <2>4, <3>1, CarriesFacts DEF Carries
    <3>3. m \in sendUpdates(u) /\ router'[r] = u /\ IsRouter(u, r, global_time')
      BY <1>1, <1>5, <1>9, <3>2 DEF Keeps, TellsTable
    <3>4. \A d \in DOMAIN u.forwardingTable : u.forwardingTable[d].routeCost <= after[d]
      BY <1>1, <1>8, <3>3
    <3>5. IsHonest(m.pkt.routes, u.forwardingTable, after)
      BY <3>3, <3>4, SentHonest
    <3> QED
      BY <3>2, <3>3, <3>5
  <2> QED
    BY <2>2, <2>3, <2>4
<1>10. ASSUME NEW q \in Router, NEW n \in Router, NEW d \in DOMAIN told'[q][n]
       PROVE  told'[q][n][d] <= after[d]
  <2>1. d \in Router /\ told'[q][n][d] \in Nat
    <3>1. d \in Router /\ told'[q][n][d] \in 0 .. NoRoute
      BY <1>10 DEF DVInv, HeardOK, IsMap, Others
    <3> QED
      BY <3>1
  <2>2. caps[d] \in Nat /\ after[d] \in Nat /\ caps[d] <= after[d]
    BY <1>3, <2>1
  <2>3. told'[q][n][d] <= caps[d]
    <3>1. CASE told'[q][n] = told[q][n]
      BY <1>4, <1>10, <3>1 DEF HeardCapped
    <3>2. CASE told'[q][n] # told[q][n]
      <4>1. /\ e.kind = "Recv" /\ e.pkt.type = "DV"
            /\ told' = [told EXCEPT ![e.dest][e.pkt.sourceID] = LastCosts(@, e.pkt.routes)]
        BY <3>2 DEF RouterStep, Tells
      <4>2. told'[q][n] = LastCosts(told[q][n], e.pkt.routes)
        BY <3>2, <4>1 DEF DVInv, HeardOK
      <4>3. e \in InFlight
        BY <4>1, TopFacts DEF RouterStep, Turn, InFlight
      <4>4. IsHonest(e.pkt.routes, router[Sender(e)].forwardingTable, caps)
        BY <1>4, <4>1, <4>3 DEF VectorsHonest
      <4> DEFINE old    == told[q][n]
                 routes == e.pkt.routes
      <4>5. d \in DOMAIN routes /\ (routes[d] # INFINITY_COST \/ d \in DOMAIN old)
        BY <1>10, <4>2, LastCostsFacts
      <4>6. CASE routes[d] # INFINITY_COST
        <5>1. told'[q][n][d] = routes[d]
          BY <4>2, <4>5, <4>6, LastCostsFacts
        <5> QED
          BY <4>4, <4>5, <4>6, <5>1 DEF IsHonest
      <4>7. CASE routes[d] = INFINITY_COST
        <5>1. d \in DOMAIN old /\ told'[q][n][d] = old[d]
          BY <4>2, <4>5, <4>7, LastCostsFacts
        <5> QED
          BY <1>4, <5>1 DEF HeardCapped
      <4> QED
        BY <4>6, <4>7
    <3> QED
      BY <3>1, <3>2
  <2> QED
    BY <2>1, <2>2, <2>3
<1> QED
  BY <1>6, <1>7, <1>8, <1>9, <1>10

-----------------------------------------------------------------------------
\* The network.

\* The invariant.
FasterInv(D) == DVInv /\ ChangesFaster /\ Measured(D) /\ RoutesInv(D)

\* What is measured goes on being so, whatever happens to the probes.
LEMMA MeasuredKept ==
  ASSUME NEW D \in Nat, OnlyFaster(D), DVInv, DVInv', Measured(D), NEW e, Measures(e), KnowsNext(e),
         OneAlarmEach', ProbesInTime(D)', LinksFaster', OneProbe'
  PROVE  /\ ProbeInv(D)' /\ PortsMeasured(D)' /\ RoundTripsFall' /\ FirstAwaited' /\ PortsRenewed'
<1>1. D <= 2500 /\ OneLinkEach /\ ProbeInv(D) /\ SimInv' /\ ProbesOK'
  BY OnlyFasterFacts DEF Measured, DVInv
<1>2. ProbesAged' /\ ProbesStamped'
  BY <1>1, AgedKept, StampedKept
<1>3. ProbeInv(D)'
  BY <1>1, <1>2 DEF ProbeInv
<1>4. /\ \A r \in Router : \A n \in DOMAIN router[r].adjacencyList :
           router[r].adjacencyList[n].timeCost \in Nat
      /\ \A r \in Router : \A p \in DOMAIN router[r].portStatus :
           router[r].portStatus[p].lastUpdate \in Nat
  <2>1. \A r \in Router : IsRouter(router[r], r, global_time) /\ global_time \in Nat
    BY DEF DVInv, StatesOK, SimInv, SimTypeOK
  <2> QED
    BY <2>1, RouterNumbers
<1>5. PortsMeasured(D)' /\ RoundTripsFall'
  BY <1>1, <1>4, PortsMeasuredKept, RoundTripsKept DEF Measured
<1>6. FirstAwaited' /\ PortsRenewed'
  BY <1>1, <1>4, FirstAwaitedKept, PortsRenewedKept DEF Measured
<1> QED
  BY <1>3, <1>5, <1>6

\* What holds of routes holds while packets are on their way.
LEMMA SimRoutes ==
  ASSUME DVInv, SimNext, UNCHANGED <<router, told, poisonedBy>>, NEW D \in Nat, RoutesInv(D)
  PROVE  RoutesInv(D)'
<1> DEFINE B    == 2 * D
           caps == CapsOf(Tables, B)
<1>1. Tables' = Tables
  BY DEF Tables
<1>2. caps' = caps
  BY <1>1
<1>3. TablesBacked(caps, B) /\ TablesCapped(caps) /\ VectorsHonest(caps) /\ HeardCapped(caps)
  BY DEF RoutesInv
<1>4. RoutesInv(D)' <=>
        /\ \A q \in Router : RowsBacked(router'[q], Tables', caps', B) /\ BestKept(router'[q])
        /\ \A q \in Router : \A d \in DOMAIN router'[q].forwardingTable :
             router'[q].forwardingTable[d].routeCost <= caps'[d]
        /\ \A f \in InFlight' : f.pkt.type = "DV" =>
             IsHonest(f.pkt.routes, router'[Sender(f)].forwardingTable, caps')
        /\ \A q, n \in Router : \A d \in DOMAIN told'[q][n] : told'[q][n][d] <= caps'[d]
  BY DEF RoutesInv, TablesBacked, TablesCapped, VectorsHonest, HeardCapped
<1>5. ASSUME NEW f \in InFlight', f.pkt.type = "DV"
      PROVE  IsHonest(f.pkt.routes, router[Sender(f)].forwardingTable, caps)
  <2>1. PICK e \in InFlight : SamePacket(e, f)
    BY SimPackets DEF DVInv
  <2>2. Sender(f) = Sender(e) /\ f.pkt = e.pkt
    BY <2>1 DEF SamePacket, Sender
  <2> QED
    BY <1>3, <1>5, <2>2 DEF VectorsHonest
<1> HIDE DEF caps
<1>6. \A q \in Router : RowsBacked(router[q], Tables, caps, B) /\ BestKept(router[q])
  BY <1>3 DEF TablesBacked
<1> QED
  BY <1>1, <1>2, <1>3, <1>4, <1>5, <1>6 DEF TablesCapped, HeardCapped

\* A vector that crosses a link takes time.
LEMMA CrossWaits ==
  ASSUME SimInv, LinksFaster, VectorsWait, NEW e \in Top(event_q), NEW f, Crosses(e, f)
  PROVE  VectorsWait'
<1> SUFFICES ASSUME NEW g \in InFlight', g.pkt.type = "DV"
             PROVE  /\ g.time >= 2 * Links[Over(g)].delay
                    /\ g.kind = "Recv" => g.time > 2 * Links[Over(g)].delay
  BY DEF VectorsWait
<1>1. e \in Pending /\ e.kind = "Xmit" /\ EventFits(e, global_time)
  BY TopFacts DEF Crosses, SimInv
<1>2. g \in Pending \/ g = f
  BY DispatchPending DEF Crosses, InFlight, Pending
<1>3. CASE g \in Pending
  BY <1>3 DEF VectorsWait, InFlight
<1>4. CASE g = f
  <2>1. Over(f) = Over(e) /\ f.pkt = e.pkt /\ f.time = e.time + link[Over(e)].delay
    BY DEF Crosses, SamePacket, Over
  <2>2. e \in InFlight /\ Over(e) \in DOMAIN Links
    BY <1>1, SenderFacts DEF InFlight, Over
  <2>3. e.time >= 2 * Links[Over(e)].delay
    BY <1>4, <2>1, <2>2 DEF VectorsWait
  <2>4. link[Over(e)].delay \in Nat /\ link[Over(e)].delay >= 1 /\ Links[Over(e)].delay \in Nat /\ e.time \in Nat
    BY <1>1, <2>2, LinksAssumption DEF LinksFaster, SimInv, SimTypeOK
  <2> QED
    BY <1>4, <2>1, <2>3, <2>4
<1> QED
  BY <1>2, <1>3, <1>4

\* A vector is only put out on a port that a PONG has come in on.
LEMMA SentWaits ==
  ASSUME DVInv, DVInv', VectorsWait, NEW D \in Nat, PortsMeasured(D)',
         NEW e, NEW r, NEW o, RouterStep(e, r, o), TellsTable(o.s, o.out), router'[r] = o.s
  PROVE  VectorsWait'
<1> SUFFICES ASSUME NEW g \in InFlight', g.pkt.type = "DV"
             PROVE  /\ g.time >= 2 * Links[Over(g)].delay
                    /\ g.kind = "Recv" => g.time > 2 * Links[Over(g)].delay
  BY DEF VectorsWait
<1>1. SimInv /\ Turn(e, r, o) /\ r \in Router /\ global_time' = e.time
  BY DEF DVInv, RouterStep, Turn, Dispatch
<1>2. CASE g \in InFlight
  BY <1>2 DEF VectorsWait
<1>3. ASSUME g.kind = "Xmit", g.time = e.time, NEW m \in o.out, Carries(g, r, m)
      PROVE  g.time >= 2 * Links[Over(g)].delay
  <2> DEFINE l == LinkAt(r, m.port)
  <2>1. m.port \in Ports[r]
    BY StepFollows DEF Sends
  <2>2. Over(g) = l /\ l \in LinksOf(r) /\ get_link_port(r, l) = m.port
    BY <1>1, <1>3, <2>1, CarriesFacts, LinkAtFacts DEF Over
  <2>3. m \in sendUpdates(o.s)
    BY <1>3 DEF TellsTable, Carries
  <2>4. IsRouter(o.s, r, global_time')
    BY <1>1 DEF DVInv, StatesOK
  <2>5. m.port \in DOMAIN router'[r].portStatus
    <3>1. m.port \in UpPorts(o.s)
      BY <2>3 DEF sendUpdates, To
    <3> QED
      BY <3>1 DEF UpPorts
  <2> HIDE DEF l
  <2>6. e.time >= 2 * Links[l].delay
    BY <1>1, <2>2, <2>5 DEF PortsMeasured
  <2> QED
    BY <1>3, <2>2, <2>6
<1> QED
  BY <1>1, <1>2, <1>3, TurnPackets

\* A step of the simulator.
LEMMA SimFasterInv ==
  ASSUME NEW D \in Nat, OnlyFaster(D), FasterInv(D), SimNext, UNCHANGED <<router, told, poisonedBy>>
  PROVE  FasterInv(D)'
<1>1. /\ DVInv /\ SimInv /\ ProbesOK /\ ChangesFaster /\ Measured(D) /\ RoutesInv(D) /\ ProbeInv(D)
      /\ LinksFaster /\ OneProbe /\ OneAlarmEach /\ ProbesStamped /\ ProbesInTime(D) /\ VectorsWait
  BY DEF FasterInv, DVInv, Measured, ProbeInv
<1>2. DVInv' /\ ProbesInTime(D)' /\ OneAlarmEach' /\ RoutesInv(D)'
  BY <1>1, SimDVInv, SimProbesInTime, SimAlarms, SimRoutes
<1>3. D <= 2500 /\ OneLinkEach /\ NoLosses
  BY OnlyFasterFacts
<1>4. PICK e \in Top(event_q) : Speeds(e) \/ \E f : Crosses(e, f)
  BY <1>1, <1>3, SimFaster
<1>5. /\ OneProbe' /\ ProbesMove(e) /\ LinksFaster' /\ ChangesFaster' /\ VectorsWait'
      /\ AlarmsNext(e) /\ e.kind # "Recv" /\ global_time' = e.time
      /\ \A l \in DOMAIN Links : link'[l].delay <= link[l].delay
  <2>1. SetAgain(e) = {}
    BY <1>4 DEF Speeds, Crosses, SetAgain
  <2>2. CASE Speeds(e)
    <3>1. Dispatch(e, {}) /\ e.kind = "ChangeDelay"
      BY <2>2 DEF Speeds
    <3>2. OneProbe' /\ ProbesMove(e)
      BY <1>1, <2>2, SpeedsProbes
    <3>3. LinksFaster' /\ ChangesFaster'
      BY <1>1, <2>2, <3>1, LinksStayFaster
    <3>4. AlarmsNext(e)
      BY <1>1, <2>1, <3>1, NextAlarms
    <3>5. \A l \in DOMAIN Links : link'[l].delay <= link[l].delay
      BY <1>1, <2>2, SpeedsFacts
    <3>6. VectorsWait'
      <4>1. InFlight' \subseteq InFlight
        BY <3>1, DispatchPending DEF InFlight, Pending
      <4> QED
        BY <1>1, <4>1 DEF VectorsWait
    <3> QED
      BY <3>1, <3>2, <3>3, <3>4, <3>5, <3>6 DEF Dispatch
  <2>3. ASSUME NEW f, Crosses(e, f)
        PROVE  /\ OneProbe' /\ ProbesMove(e) /\ LinksFaster' /\ ChangesFaster' /\ VectorsWait'
               /\ AlarmsNext(e) /\ e.kind # "Recv" /\ global_time' = e.time
               /\ \A l \in DOMAIN Links : link'[l].delay <= link[l].delay
    <3>1. Dispatch(e, {f}) /\ e.kind = "Xmit" /\ f.kind = "Recv" /\ UNCHANGED link
      BY <2>3 DEF Crosses
    <3>2. OneProbe' /\ ProbesMove(e)
      BY <1>1, <2>3, CrossProbes
    <3>3. LinksFaster' /\ ChangesFaster'
      BY <1>1, <3>1, LinksStayFaster
    <3>4. AlarmsNext(e)
      BY <1>1, <2>1, <3>1, NextAlarms
    <3>5. \A l \in DOMAIN Links : link'[l].delay <= link[l].delay
      BY <1>1, <3>1 DEF SimInv, SimTypeOK
    <3>6. VectorsWait'
      BY <1>1, <2>3, CrossWaits
    <3> QED
      BY <3>1, <3>2, <3>3, <3>4, <3>5, <3>6 DEF Dispatch
  <2> QED
    BY <1>4, <2>2, <2>3
<1>6. Quiet(e)
  BY <1>1, <1>3, <1>4, ProbesQuiet
<1>7. Measures(e)
  BY <1>4, <1>5, <1>6 DEF Measures
<1>8. KnowsNext(e)
  BY <1>5 DEF KnowsNext
<1>9. ProbeInv(D)' /\ PortsMeasured(D)' /\ RoundTripsFall' /\ FirstAwaited' /\ PortsRenewed'
  BY <1>1, <1>2, <1>5, <1>7, <1>8, MeasuredKept
<1> QED
  BY <1>2, <1>5, <1>9 DEF FasterInv, Measured

\* A step of a router.
LEMMA StepFasterInv ==
  ASSUME NEW D \in Nat, OnlyFaster(D), FasterInv(D), RoutesRenewed, NoBadNews,
         NEW e, NEW r, NEW o, RouterStep(e, r, o)
  PROVE  FasterInv(D)'
<1> DEFINE new == XmitEvents(r, o.out, e.time) \cup SetAgain(e)
<1>1. /\ DVInv /\ SimInv /\ ProbesOK /\ ChangesFaster /\ Measured(D) /\ RoutesInv(D) /\ ProbeInv(D)
      /\ LinksFaster /\ OneProbe /\ OneAlarmEach /\ ProbesStamped /\ ProbesInTime(D) /\ VectorsWait
  BY DEF FasterInv, DVInv, Measured, ProbeInv
<1>2. /\ e \in Top(event_q) /\ Turn(e, r, o) /\ Dispatch(e, new) /\ UNCHANGED link
      /\ global_time' = e.time
  BY DEF RouterStep, Turn, Dispatch
<1>3. D <= 2500 /\ OneLinkEach /\ NoLosses
  BY OnlyFasterFacts
<1>4. DVInv' /\ ProbesInTime(D)' /\ OneAlarmEach' /\ RoutesInv(D)'
  <2>1. DVInv' /\ OneAlarmEach'
    BY <1>1, <1>2, StepDVInv, TurnAlarms
  <2>2. RoutesInv(D)'
    BY <1>1, <2>1, RoutesKept
  <2>3. (\A m \in o.out : m.port \in Ports[r]) /\ ProbesSent(e, r, o.out)
    BY <1>1, StepFollows DEF Sends
  <2>4. ProbesInTime(D)'
    BY <1>1, <1>2, <2>3, TurnProbes
  <2> QED
    BY <2>1, <2>2, <2>4
<1>5. Quiet(e)
  BY <1>1, <1>2, <1>3, ProbesQuiet
<1>6. OneProbe' /\ ProbesMove(e)
  BY <1>1, <1>5, RouterProbes
<1>7. /\ \A f \in new : f.kind \in {"Alarm", "Xmit", "Recv"} /\ (f.kind = "Alarm" => f \in SetAgain(e))
      /\ SetAgain(e) \subseteq new
  <2>1. \A f \in XmitEvents(r, o.out, e.time) : f.kind = "Xmit"
    BY XmitFacts
  <2>2. \A f \in SetAgain(e) : f.kind = "Alarm"
    BY DEF SetAgain, Again, AlarmEvent
  <2> QED
    BY <2>1, <2>2
<1> HIDE DEF new
<1>8. LinksFaster' /\ ChangesFaster'
  BY <1>1, <1>2, <1>7, LinksStayFaster
<1>9. AlarmsNext(e)
  BY <1>1, <1>2, <1>7, NextAlarms
<1>10. \A l \in DOMAIN Links : link'[l].delay <= link[l].delay
  BY <1>1, <1>2 DEF SimInv, SimTypeOK
<1>11. Measures(e)
  BY <1>2, <1>5, <1>6, <1>9, <1>10 DEF Measures
<1>12. /\ KnowsNext(e) /\ TellsTable(o.s, o.out) /\ router'[r] = o.s
  BY <1>1, StepKeeps DEF Keeps
<1>13. ProbeInv(D)' /\ PortsMeasured(D)' /\ RoundTripsFall' /\ FirstAwaited' /\ PortsRenewed'
  BY <1>1, <1>4, <1>6, <1>8, <1>11, <1>12, MeasuredKept
<1>14. VectorsWait'
  BY <1>1, <1>4, <1>12, <1>13, SentWaits
<1> QED
  BY <1>4, <1>8, <1>13, <1>14 DEF FasterInv, Measured

LEMMA NextFasterInv ==
  ASSUME NEW D \in Nat, OnlyFaster(D), FasterInv(D), RoutesRenewed, NoBadNews, [Next]_dvVars
  PROVE  FasterInv(D)'
<1>1. CASE SimNext /\ UNCHANGED <<router, told, poisonedBy>>
  BY <1>1, SimFasterInv
<1>2. CASE RouterNext
  <2>1. PICK e, r, o : RouterStep(e, r, o)
    BY <1>2, RouterNextSteps DEF FasterInv, DVInv
  <2> QED
    BY <2>1, StepFasterInv
<1>3. CASE UNCHANGED dvVars
  <2>1. UNCHANGED <<global_time, event_q, link, losses, router, told, poisonedBy>>
    BY <1>3 DEF dvVars, vars, simVars
  <2>2. DVInv' /\ OneAlarmEach'
    BY <1>3, NextDVInv DEF FasterInv, Measured, ProbeInv
  <2>3. UNCHANGED <<Pending, InFlight, Probes, Tables>>
    BY <2>1 DEF Pending, InFlight, Probes, Tables
  <2>4. LinksFaster' /\ ChangesFaster'
    BY <2>1, <2>3 DEF FasterInv, Measured, ProbeInv, LinksFaster, ChangesFaster
  <2>5. ProbesInTime(D)'
    BY <2>1, <2>3 DEF FasterInv, Measured, ProbeInv, ProbesInTime, DelaysWithin
  <2>6. OneProbe' /\ ProbesAged' /\ ProbesStamped'
    BY <2>1, <2>3 DEF FasterInv, Measured, ProbeInv, OneProbe, ProbesAged, ProbesStamped
  <2>7. PortsMeasured(D)' /\ RoundTripsFall' /\ FirstAwaited' /\ PortsRenewed' /\ VectorsWait'
    BY <2>1, <2>3 DEF FasterInv, Measured, PortsMeasured, RoundTripsFall, FirstAwaited, PortsRenewed, VectorsWait
  <2>8. RoutesInv(D)'
    BY <2>1, <2>3 DEF FasterInv, RoutesInv, TablesBacked, TablesCapped, VectorsHonest, HeardCapped
  <2> QED
    BY <2>2, <2>4, <2>5, <2>6, <2>7, <2>8 DEF FasterInv, Measured, ProbeInv, DVInv
<1> QED
  BY <1>1, <1>2, <1>3 DEF Next, RouterNext

-----------------------------------------------------------------------------
\* The start.

\* The PING that r sends over its link l at the start.
FirstPing(r, l) ==
  [kind |-> "Xmit", time |-> 0, link |-> l, dest |-> Peer(r, l),
   dport |-> get_link_port(Peer(r, l), l), pkt |-> [type |-> "PING", sourceID |-> r, stamp |-> 0]]

LEMMA FirstPingFacts ==
  ASSUME NEW r \in Router
  PROVE  /\ \A f \in XmitEvents(r, sendPings(InitRouter(r), 0), 0) :
              /\ f.kind = "Xmit" /\ f.pkt.type = "PING" /\ f.time = 0 /\ f.pkt.stamp = 0
              /\ Prober(f) = r /\ f = FirstPing(r, Over(f))
         /\ \A l \in LinksOf(r) : \E f \in XmitEvents(r, sendPings(InitRouter(r), 0), 0) : Over(f) = l
<1> DEFINE out   == sendPings(InitRouter(r), 0)
           pkt   == [type |-> "PING", sourceID |-> r, stamp |-> 0]
           ping(m) == [kind |-> "Xmit", time |-> 0, link |-> LinkAt(r, m.port), dest |-> Peer(r, LinkAt(r, m.port)),
                       dport |-> get_link_port(Peer(r, LinkAt(r, m.port)), LinkAt(r, m.port)), pkt |-> m.pkt]
<1>1. out = {To(p, pkt) : p \in Ports[r]}
  BY DEF sendPings, InitRouter
<1>2. \A m \in out : m.port \in Ports[r] /\ m.pkt = pkt
  BY <1>1 DEF To
<1>3. XmitEvents(r, out, 0) = {ping(m) : m \in out}
  BY DEF XmitEvents
<1>4. ASSUME NEW m \in out
      PROVE  LET f == ping(m) IN
             /\ f.kind = "Xmit" /\ f.pkt.type = "PING" /\ f.time = 0 /\ f.pkt.stamp = 0
             /\ Prober(f) = r /\ f = FirstPing(r, Over(f)) /\ Over(f) = LinkAt(r, m.port)
  <2> DEFINE f == ping(m)
             l == LinkAt(r, m.port)
  <2>1. /\ f.kind = "Xmit" /\ f.pkt.type = "PING" /\ f.time = 0 /\ f.pkt.stamp = 0
        /\ Carries(f, r, m) /\ f = FirstPing(r, l) /\ m.port \in Ports[r]
    BY <1>2 DEF FirstPing, Carries
  <2> HIDE DEF f, l
  <2>2. Sender(f) = r /\ Over(f) = LinkAt(r, m.port)
    BY <2>1, CarriesFacts DEF Over
  <2> QED
    BY <2>1, <2>2 DEF Prober, f, l
<1>5. ASSUME NEW l \in LinksOf(r)
      PROVE  \E m \in out : LinkAt(r, m.port) = l
  <2>1. get_link_port(r, l) \in Ports[r] /\ LinkAt(r, get_link_port(r, l)) = l
    BY PeerFacts, LinkAtPort
  <2>2. To(get_link_port(r, l), pkt) \in out /\ To(get_link_port(r, l), pkt).port = get_link_port(r, l)
    BY <1>1, <2>1 DEF To
  <2> QED
    BY <2>1, <2>2
<1> HIDE DEF out, ping
<1>6. \A f \in XmitEvents(r, out, 0) : \E m \in out : f = ping(m)
  BY <1>3
<1>7. \A m \in out : ping(m) \in XmitEvents(r, out, 0)
  BY <1>3
<1> QED
  BY <1>4, <1>5, <1>6, <1>7 DEF out

\* What the simulator starts with.
LEMMA FasterStart ==
  ASSUME NEW D \in Nat, OnlyFaster(D), NEW pings, \A f \in pings : f.kind = "Xmit",
         SimInit(pings \cup FirstAlarms)
  PROVE  /\ LinksFaster /\ ChangesFaster /\ ConfiguredWithin(D)
         /\ \A f \in Pending : event_q[f] = 1 /\ (f.kind = "Alarm" => f \in FirstAlarms)
<1>1. PICK script \in Scripts :
        event_q = SetToBag((pings \cup FirstAlarms) \cup {ScriptEvent(c) : c \in script})
  BY DEF SimInit
<1> DEFINE S == (pings \cup FirstAlarms) \cup {ScriptEvent(c) : c \in script}
<1>2. Pending = S /\ \A f \in Pending : event_q[f] = 1
  BY <1>1 DEF Pending, SetToBag
<1>3. \A f \in FirstAlarms : f.kind = "Alarm"
  BY DEF FirstAlarms, AlarmEvent
<1>4. \A c \in script :
        /\ c.cmd \in {"changedelay", "xmit"}
        /\ c.cmd = "changedelay" =>
             LET l == LinkBetween(c.a, c.b) IN
             /\ l \in DOMAIN Links
             /\ 1 <= c.delay /\ c.delay <= Links[l].delay /\ c.time >= 2 * Links[l].delay
             /\ \A b \in script :
                  b.cmd = "changedelay" /\ LinkBetween(b.a, b.b) = l /\ c.time <= b.time =>
                    b.delay <= c.delay
  BY DEF OnlyFaster
<1>5. \A c \in script : LET e == ScriptEvent(c) IN
        \/ /\ c.cmd = "changedelay" /\ e.kind = "ChangeDelay" /\ e.link = LinkBetween(c.a, c.b)
           /\ e.delay = c.delay /\ e.time = c.time
        \/ e.kind = "XmitEndToEnd"
  BY <1>4 DEF ScriptEvent
<1>6. \A e \in Pending : \/ e.kind = "Xmit"
                         \/ e.kind = "Alarm" /\ e \in FirstAlarms
                         \/ \E c \in script : e = ScriptEvent(c)
  BY <1>2, <1>3
<1> HIDE DEF S
<1>7. \A e \in Pending : /\ e.kind \notin {"LinkDie", "LinkComeUp"}
                         /\ e.kind = "Alarm" => e \in FirstAlarms
                         /\ e.kind = "ChangeDelay" => \E c \in script :
                              /\ c.cmd = "changedelay" /\ e.link = LinkBetween(c.a, c.b)
                              /\ e.delay = c.delay /\ e.time = c.time
  BY <1>5, <1>6
<1>8. \A l \in DOMAIN Links : link[l].is_alive /\ link[l].delay = Links[l].delay
  BY DEF SimInit
<1>9. \A l \in DOMAIN Links : Links[l].delay \in Nat /\ Links[l].delay >= 1 /\ Links[l].delay <= D
  BY LinksAssumption DEF OnlyFaster
<1>10. LinksFaster
  BY <1>8, <1>9 DEF LinksFaster
<1>11. ASSUME NEW e \in Pending, e.kind = "ChangeDelay", NEW l \in DOMAIN Links, l = e.link
       PROVE  e.delay >= 1 /\ e.delay <= link[l].delay /\ e.time >= 2 * Links[l].delay
  <2>1. PICK c \in script : /\ c.cmd = "changedelay" /\ e.link = LinkBetween(c.a, c.b)
                            /\ e.delay = c.delay /\ e.time = c.time
    BY <1>7, <1>11
  <2>2. 1 <= c.delay /\ c.delay <= Links[l].delay /\ c.time >= 2 * Links[l].delay
    BY <1>4, <1>11, <2>1
  <2>3. c.delay \in Nat
    BY <2>1, ScriptsAssumption
  <2> QED
    BY <1>8, <1>9, <2>1, <2>2, <2>3
<1>12. ASSUME NEW e \in Pending, NEW f \in Pending, e.kind = "ChangeDelay", f.kind = "ChangeDelay",
              e.link = f.link, e.link \in DOMAIN Links, e.time <= f.time
       PROVE  f.delay <= e.delay
  <2>1. PICK c \in script : /\ c.cmd = "changedelay" /\ e.link = LinkBetween(c.a, c.b)
                            /\ e.delay = c.delay /\ e.time = c.time
    BY <1>7, <1>12
  <2>2. PICK b \in script : /\ b.cmd = "changedelay" /\ f.link = LinkBetween(b.a, b.b)
                            /\ f.delay = b.delay /\ f.time = b.time
    BY <1>7, <1>12
  <2> QED
    BY <1>4, <1>12, <2>1, <2>2
<1>13. ChangesFaster
  BY <1>7, <1>11, <1>12 DEF ChangesFaster
<1>14. ConfiguredWithin(D)
  <2>1. ASSUME NEW script2 \in Scripts, NEW c \in script2, c.cmd = "changedelay"
        PROVE  c.delay <= D
    <3> DEFINE l == LinkBetween(c.a, c.b)
    <3>1. l \in DOMAIN Links /\ c.delay <= Links[l].delay /\ c.delay \in Nat
      BY <2>1, ScriptsAssumption DEF OnlyFaster
    <3> QED
      BY <1>9, <3>1
  <2> QED
    BY <1>9, <2>1 DEF ConfiguredWithin
<1> QED
  BY <1>2, <1>7, <1>10, <1>13, <1>14

LEMMA InitFasterInv ==
  ASSUME NEW D \in Nat, OnlyFaster(D)
  PROVE  Init => FasterInv(D)
<1> SUFFICES ASSUME Init PROVE FasterInv(D)
  OBVIOUS
<1> DEFINE pings == UNION {XmitEvents(r, sendPings(InitRouter(r), 0), 0) : r \in Router}
<1>1. /\ \A f \in pings : /\ f.kind = "Xmit" /\ f.pkt.type = "PING" /\ f.time = 0 /\ f.pkt.stamp = 0
                          /\ f = FirstPing(Prober(f), Over(f)) /\ EventFits(f, 0)
      /\ \A r \in Router : \A l \in LinksOf(r) : \E f \in pings : Prober(f) = r /\ Over(f) = l
  <2>1. ASSUME NEW r \in Router, NEW f \in XmitEvents(r, sendPings(InitRouter(r), 0), 0)
        PROVE  /\ f.kind = "Xmit" /\ f.pkt.type = "PING" /\ f.time = 0 /\ f.pkt.stamp = 0
               /\ f = FirstPing(Prober(f), Over(f)) /\ EventFits(f, 0)
    <3>1. InitRouter(r).id = r
      BY DEF InitRouter
    <3>2. EventFits(f, 0)
      BY <3>1, FirstPings
    <3> QED
      BY <3>2, FirstPingFacts
  <2>2. ASSUME NEW r \in Router, NEW l \in LinksOf(r)
        PROVE  \E f \in pings : Prober(f) = r /\ Over(f) = l
    <3>1. PICK f \in XmitEvents(r, sendPings(InitRouter(r), 0), 0) : Over(f) = l /\ Prober(f) = r
      BY FirstPingFacts
    <3> QED
      BY <3>1
  <2> QED
    BY <2>1, <2>2
<1>2. SimInit(pings \cup FirstAlarms)
  BY DEF Init, FirstAlarms
<1>3. \A r \in Router : router[r] = InitRouter(r) /\ \A n \in Router : told[r][n] = <<>>
  BY DEF Init
<1> HIDE DEF pings
<1>4. DVInv /\ OneAlarmEach
  BY InitDVInv
<1>5. /\ SimInv /\ InFlight = pings /\ global_time = 0
      /\ LinksFaster /\ ChangesFaster /\ ConfiguredWithin(D) /\ DelaysWithin(D)
      /\ \A f \in Pending : event_q[f] = 1 /\ (f.kind = "Alarm" => f \in FirstAlarms)
  BY <1>1, <1>2, StartFacts, FasterStart
<1>6. Probes = pings
  BY <1>1, <1>5 DEF Probes
<1>7. \A r \in Router : /\ DOMAIN router[r].portStatus = {} /\ DOMAIN router[r].adjacencyList = {}
                        /\ DOMAIN router[r].forwardingTable = {} /\ DOMAIN router[r].bigTable = {}
                        /\ \A n \in Router : DOMAIN told[r][n] = {}
  <2>1. DOMAIN <<>> = {}
    OBVIOUS
  <2> DEFINE none == <<>>
  <2>2. \A r \in Router : /\ router[r].portStatus = none /\ router[r].adjacencyList = none
                          /\ router[r].forwardingTable = none /\ router[r].bigTable = none
                          /\ \A n \in Router : told[r][n] = none
    <3>1. \A r \in Router : /\ InitRouter(r).portStatus = none /\ InitRouter(r).adjacencyList = none
                            /\ InitRouter(r).forwardingTable = none /\ InitRouter(r).bigTable = none
      BY DEF InitRouter
    <3>2. \A r, n \in Router : told[r][n] = none
      BY <1>3
    <3> HIDE DEF none
    <3> QED
      BY <1>3, <3>1, <3>2
  <2>3. DOMAIN none = {}
    BY <2>1
  <2> HIDE DEF none
  <2> QED
    BY <2>2, <2>3
<1>8. ProbesInTime(D)
  <2>1. \A f \in pings : InTime(f, D)
    BY <1>1 DEF InTime
  <2> QED
    BY <1>5, <2>1 DEF ProbesInTime
<1>9. OneProbe
  <2>1. \A f \in Probes : event_q[f] = 1
    BY <1>5 DEF Probes, InFlight
  <2>2. \A f, g \in Probes : SameTrip(f, g) => f = g
    BY <1>1, <1>6 DEF SameTrip
  <2> QED
    BY <2>1, <2>2 DEF OneProbe
<1>10. ProbesAged
  BY <1>1, <1>6 DEF ProbesAged, Age, Crossed
<1>11. ProbesStamped
  <2>1. \A f \in FirstAlarms : f.type = "PingPong" => f.time = 0 + PingPeriod
    BY DEF FirstAlarms, AlarmEvent, Period
  <2> QED
    BY <1>1, <1>5, <1>6, <2>1 DEF ProbesStamped, AlarmOf
<1>12. ProbeInv(D)
  BY <1>4, <1>5, <1>8, <1>9, <1>10, <1>11 DEF ProbeInv, DVInv
<1>13. PortsMeasured(D) /\ RoundTripsFall /\ PortsRenewed
  <2>1. PortsMeasured(D)
    BY <1>7 DEF PortsMeasured
  <2>2. PortsRenewed
    BY <1>7 DEF PortsRenewed
  <2>3. RoundTripsFall
    <3>1. \A f \in Probes : Prober(f) \in Router
      BY <1>4, ProbeFacts DEF DVInv, SimInv, ProbesOK, Probes, InFlight
    <3> QED
      BY <1>7, <3>1 DEF RoundTripsFall
  <2> QED
    BY <2>1, <2>2, <2>3
<1>14. FirstAwaited
  <2>1. \A f \in pings : f.time = 0 /\ \A c : Crossed(f, c) = 0
    BY <1>1 DEF Crossed
  <2> QED
    BY <1>1, <1>6, <2>1 DEF FirstAwaited
<1>15. VectorsWait
  BY <1>1, <1>5 DEF VectorsWait
<1>16. RoutesInv(D)
  <2> DEFINE caps == CapsOf(Tables, 2 * D)
  <2> HIDE DEF caps
  <2>1. TablesBacked(caps, 2 * D)
    BY <1>7 DEF TablesBacked, RowsBacked, BestKept
  <2>2. TablesCapped(caps) /\ HeardCapped(caps)
    BY <1>7 DEF TablesCapped, HeardCapped
  <2>3. VectorsHonest(caps)
    BY <1>1, <1>5 DEF VectorsHonest
  <2> QED
    BY <2>1, <2>2, <2>3 DEF RoutesInv, caps
<1> QED
  BY <1>4, <1>5, <1>12, <1>13, <1>14, <1>15, <1>16 DEF FasterInv, Measured

-----------------------------------------------------------------------------
\* What follows for the tables.

\* No sum of a link and a route is cut.
LEMMA FasterCostsFit ==
  ASSUME NEW D \in Nat, OnlyFaster(D), FasterInv(D), NetAddsUp
  PROVE  CostsFit
<1> DEFINE B    == 2 * D
           caps == CapsOf(Tables, B)
<1>1. /\ DVInv /\ Capped(caps, B) /\ TablesBacked(caps, B) /\ HeardCapped(caps)
      /\ ProbeInv(D) /\ PortsMeasured(D)
  BY CapsNow DEF FasterInv, RoutesInv, Measured
<1>2. \A r \in Router : IsRouter(router[r], r, global_time) /\ global_time \in Nat
  BY <1>1 DEF DVInv, StatesOK, SimInv, SimTypeOK
<1>3. ASSUME NEW r \in Router, NEW n \in DOMAIN router[r].adjacencyList
      PROVE  LET cost == router[r].adjacencyList[n].timeCost IN cost \in Nat /\ cost >= 1 /\ cost <= B
  <2>1. router[r].adjacencyList[n].timeCost \in Nat
    BY <1>2, RouterNumbers
  <2>2. PICK l \in LinksOf(r) : n = Peer(r, l)
    BY <1>1 DEF PortsMeasured
  <2>3. link[l].delay \in Nat /\ link[l].delay >= 1
    BY <1>1, PeerFacts DEF ProbeInv, LinksFaster, SimInv, SimTypeOK
  <2>4. router[r].adjacencyList[n].timeCost >= 2 * link[l].delay /\ router[r].adjacencyList[n].timeCost <= B
    BY <1>1, <2>2 DEF PortsMeasured
  <2> QED
    BY <2>1, <2>3, <2>4
<1> HIDE DEF B, caps
<1>4. ASSUME NEW r \in Router, NEW d, NEW n, <<d, n>> \in DOMAIN router[r].bigTable
      PROVE  LET cost  == router[r].bigTable[<<d, n>>]
                 heard == told[r][n]
             IN /\ cost > 0 /\ cost < NoRoute
                /\ d # n /\ d \in DOMAIN heard => heard[d] <= cost
  <2> DEFINE s     == router[r]
             row   == s.bigTable[<<d, n>>]
             adj   == s.adjacencyList[n].timeCost
             heard == told[r][n]
  <2>1. IsRouter(s, r, global_time) /\ RowsBacked(s, Tables, caps, B) /\ AddsUp(s, told[r])
    BY <1>1, <1>2 DEF TablesBacked, NetAddsUp
  <2>2. d \in Router /\ n \in Router /\ row \in Nat /\ row < NoRoute /\ adj \in Nat
    BY <1>1, <1>4, <2>1, RowsBelow DEF Others
  <2>3. n \in DOMAIN s.adjacencyList
    BY <1>4, <2>1 DEF RowsBacked
  <2>4. adj >= 1 /\ adj <= B /\ B \in Nat /\ caps[d] \in Nat /\ caps[d] + B < NoRoute
    BY <1>1, <1>3, <2>2, <2>3 DEF Capped
  <2>5. row > 0
    <3>1. CASE d = n
      BY <1>4, <2>1, <2>2, <2>4, <3>1 DEF RowsBacked
    <3>2. CASE d # n
      <4>1. d \in DOMAIN Tables[n] /\ row >= adj + Tables[n][d].routeCost
        BY <1>4, <2>1, <3>2 DEF RowsBacked
      <4>2. Tables[n][d].routeCost \in Nat
        BY <1>1, <2>2, <4>1, TablesAreCosts DEF AreCosts
      <4> QED
        BY <2>2, <2>4, <4>1, <4>2
    <3> QED
      BY <3>1, <3>2
  <2>6. ASSUME d # n, d \in DOMAIN heard
        PROVE  heard[d] <= row
    <3>1. heard[d] \in Nat
      <4>1. heard[d] \in 0 .. NoRoute
        BY <1>1, <2>2, <2>6 DEF DVInv, HeardOK, IsMap
      <4> QED
        BY <4>1
    <3>2. heard[d] <= caps[d]
      BY <1>1, <2>2, <2>6 DEF HeardCapped
    <3>3. row = AsCost(adj + heard[d])
      BY <1>4, <2>1, <2>6 DEF AddsUp
    <3> DEFINE h == heard[d]
    <3> HIDE DEF row, adj, heard, h
    <3>4. h \in Nat /\ h <= caps[d] /\ row = AsCost(adj + h)
      BY <3>1, <3>2, <3>3 DEF h
    <3>5. adj + h \in Nat /\ adj + h < INFINITY_COST
      <4>1. NoRoute \in Nat /\ NoRoute < INFINITY_COST /\ INFINITY_COST \in Nat
        BY DEF NoRoute, INFINITY_COST
      <4> HIDE DEF NoRoute, INFINITY_COST
      <4> QED
        BY <2>2, <2>4, <3>4, <4>1
    <3>6. adj + h \in Cost
      BY <3>5, CostNumbers
    <3>7. row = adj + h
      BY <3>4, <3>6, AsCostFacts
    <3> QED
      BY <2>2, <3>4, <3>7 DEF h
  <2> QED
    BY <2>2, <2>5, <2>6
<1> SUFFICES ASSUME NEW r \in Router, NEW x \in DOMAIN router[r].bigTable
             PROVE  LET cost  == router[r].bigTable[x]
                        heard == told[r][x[2]]
                    IN /\ cost > 0 /\ cost < NoRoute
                       /\ x[1] # x[2] /\ x[1] \in DOMAIN heard => heard[x[1]] <= cost
  BY DEF CostsFit, NothingIsFree
<1>5. x = <<x[1], x[2]>>
  <2>1. DOMAIN router[r].bigTable \subseteq Others(r) \X Others(r)
    BY <1>2 DEF IsRouter, IsMap
  <2> QED
    BY <2>1
<1> DEFINE d == x[1]
           n == x[2]
<1>6. x = <<d, n>>
  BY <1>5
<1> HIDE DEF d, n
<1> SUFFICES LET cost  == router[r].bigTable[x]
                 heard == told[r][n]
             IN /\ cost > 0 /\ cost < NoRoute
                /\ d # n /\ d \in DOMAIN heard => heard[d] <= cost
  BY DEF d, n
<1> QED
  BY <1>4, <1>6

\* The forwarding table always has the best routes.
LEMMA FasterBestKept ==
  ASSUME NEW D \in Nat, OnlyFaster(D), FasterInv(D)
  PROVE  BestRouteKept
<1> SUFFICES ASSUME NEW r \in Router, NEW d \in DOMAIN router[r].forwardingTable
             PROVE  LET e == router[r].forwardingTable[d] IN
                    [nextHop |-> e.nextHop, routeCost |-> e.routeCost] \in getBestRoute(router[r].bigTable, d)
  BY DEF BestRouteKept
<1> DEFINE s    == router[r]
           big  == s.bigTable
           h    == s.forwardingTable[d].nextHop
           cost == s.forwardingTable[d].routeCost
           caps == CapsOf(Tables, 2 * D)
<1>1. /\ IsRouter(s, r, global_time)
      /\ Capped(caps, 2 * D) /\ RowsBacked(s, Tables, caps, 2 * D) /\ BestKept(s)
  BY CapsNow DEF FasterInv, RoutesInv, TablesBacked, DVInv, StatesOK
<1> HIDE DEF caps
<1>2. <<d, h>> \in DOMAIN big /\ cost = big[<<d, h>>]
  BY <1>1 DEF BestKept
<1>3. big[<<d, h>>] < INFINITY_COST
  BY <1>1, <1>2, RowsBelow
<1>4. \A g : g \in NextHops(big, d) <=> <<d, g>> \in DOMAIN big
  <2>1. DOMAIN big \subseteq Others(r) \X Others(r)
    BY <1>1 DEF IsRouter, IsMap
  <2> HIDE DEF big
  <2> QED
    BY <2>1, RowFacts
<1>5. \A g \in NextHops(big, d) : big[<<d, h>>] <= big[<<d, g>>]
  BY <1>1, <1>2, <1>4 DEF BestKept
<1> HIDE DEF big, h, cost, s
<1>6. [nextHop |-> h, routeCost |-> cost] \in getBestRoute(big, d)
  <2> DEFINE hops  == NextHops(big, d)
             least == {k \in hops : /\ big[<<d, k>>] < INFINITY_COST
                                    /\ \A g \in hops : big[<<d, k>>] <= big[<<d, g>>]}
  <2>1. h \in least
    BY <1>2, <1>3, <1>4, <1>5
  <2>2. hops # {} /\ least # {}
    BY <2>1
  <2>3. getBestRoute(big, d) = {[nextHop |-> k, routeCost |-> big[<<d, k>>]] : k \in least}
    BY <2>2 DEF getBestRoute
  <2> QED
    BY <1>2, <2>1, <2>3
<1> QED
  BY <1>6 DEF big, h, cost, s

-----------------------------------------------------------------------------
\* In a network whose links only get faster no route leaves 16 bits, as long as no entry is
\* found out of date and no vector is bad news: every sum of a link and a route that bigTable
\* is given fits, and is no less than the last finite cost the neighbour told.
THEOREM FasterRoutesFit ==
  ASSUME NEW D \in Nat, OnlyFaster(D)
  PROVE  Spec /\ []RoutesRenewed /\ []NoBadNews => []CostsFit
<1>1. Init => FasterInv(D) /\ NetAddsUp
  BY InitFasterInv, InitDVInv DEF NetAddsUp
<1>2. FasterInv(D) /\ NetAddsUp => CostsFit
  BY FasterCostsFit
<1>3. FasterInv(D) /\ NetAddsUp /\ RoutesRenewed /\ NoBadNews /\ [Next]_dvVars
      => FasterInv(D)' /\ NetAddsUp'
  BY <1>2, NextFasterInv, NextConsistent DEF FasterInv, CostsFit
<1> QED
  BY <1>1, <1>2, <1>3, PTL DEF Spec

\* There the forwarding table always has the best routes of bigTable, settled or not.
THEOREM FasterRoutesAreBest ==
  ASSUME NEW D \in Nat, OnlyFaster(D)
  PROVE  Spec /\ []RoutesRenewed /\ []NoBadNews => []BestRouteKept
<1>1. Init => FasterInv(D)
  BY InitFasterInv
<1>2. FasterInv(D) /\ RoutesRenewed /\ NoBadNews /\ [Next]_dvVars => FasterInv(D)'
  BY NextFasterInv
<1>3. FasterInv(D) => BestRouteKept
  BY FasterBestKept
<1> QED
  BY <1>1, <1>2, <1>3, PTL DEF Spec

-----------------------------------------------------------------------------
\* The refinement of HopByHop.

\* The round-trip times over links.
RoundTrips(links) ==
  [r \in Router |->
    [n \in {Peer(r, l) : l \in LinksOf(r)} |->
      Min({2 * links[l].delay : l \in {k \in LinksOf(r) : Peer(r, k) = n}})]]

\* The routes that router state s has.
RoutesOf(s) == [d \in DOMAIN s.forwardingTable |->
                 [nextHop   |-> s.forwardingTable[d].nextHop,
                  routeCost |-> s.forwardingTable[d].routeCost]]

LEMMA RoundTripFacts ==
  ASSUME OneLinkEach, NEW links, \A l \in DOMAIN Links : links[l].delay \in Nat
  PROVE  /\ DOMAIN RoundTrips(links) = Router
         /\ \A r \in Router :
              /\ DOMAIN RoundTrips(links)[r] = {Peer(r, l) : l \in LinksOf(r)}
              /\ \A l \in LinksOf(r) : RoundTrips(links)[r][Peer(r, l)] = 2 * links[l].delay
<1>1. /\ DOMAIN RoundTrips(links) = Router
      /\ \A r \in Router : DOMAIN RoundTrips(links)[r] = {Peer(r, l) : l \in LinksOf(r)}
  BY DEF RoundTrips
<1>2. ASSUME NEW r \in Router, NEW l \in LinksOf(r)
      PROVE  RoundTrips(links)[r][Peer(r, l)] = 2 * links[l].delay
  <2> DEFINE n     == Peer(r, l)
             times == {2 * links[k].delay : k \in {i \in LinksOf(r) : Peer(r, i) = n}}
  <2>1. {i \in LinksOf(r) : Peer(r, i) = n} = {l}
    BY <1>2 DEF OneLinkEach
  <2>2. times = {2 * links[l].delay}
    BY <2>1
  <2>3. RoundTrips(links)[r][n] = Min(times)
    BY <1>2 DEF RoundTrips
  <2>4. 2 * links[l].delay \in Nat
    BY DEF LinksOf
  <2> HIDE DEF times
  <2>5. Min(times) = 2 * links[l].delay
    <3> DEFINE c == 2 * links[l].delay
    <3>1. c \in Nat /\ times = {c}
      BY <2>2, <2>4
    <3> HIDE DEF c
    <3>2. c <= c
      BY <3>1
    <3>3. Min(times) = c
      BY <3>1, <3>2 DEF Min
    <3> QED
      BY <3>3 DEF c
  <2> QED
    BY <2>3, <2>5
<1> QED
  BY <1>1, <1>2

LEMMA RoutesFacts ==
  /\ DOMAIN routeTable = Router /\ \A q \in Router : routeTable[q] = RoutesOf(router[q])
  /\ routeTable' = [q \in Router |-> RoutesOf(router'[q])]
  /\ linkCosts = RoundTrips(link) /\ linkCosts' = RoundTrips(link')
BY DEF routeTable, linkCosts, RoutesOf, RoundTrips

\* The round-trip times are what HopByHop takes for costs.
LEMMA LinkCosts ==
  ASSUME OneLinkEach, NEW links, \A l \in DOMAIN Links : links[l].delay \in Nat /\ links[l].delay >= 1
  PROVE  DOMAIN RoundTrips(links) = Router /\ Routing!IsCosts(RoundTrips(links))
<1> DEFINE c == RoundTrips(links)
<1>1. /\ DOMAIN c = Router
      /\ \A r \in Router : /\ DOMAIN c[r] = {Peer(r, l) : l \in LinksOf(r)}
                           /\ \A l \in LinksOf(r) : c[r][Peer(r, l)] = 2 * links[l].delay
                           /\ c[r] = [n \in DOMAIN c[r] |-> c[r][n]]
  <2>1. \A r \in Router : c[r] = [n \in DOMAIN c[r] |-> c[r][n]]
    BY DEF RoundTrips
  <2> QED
    BY <2>1, RoundTripFacts
<1> HIDE DEF c
<1>2. ASSUME NEW r \in Router
      PROVE  DOMAIN c[r] \subseteq Router \ {r} /\ c[r] \in [DOMAIN c[r] -> Nat \ {0}]
  <2>1. DOMAIN c[r] \subseteq Router \ {r}
    BY <1>1, LinksAssumption DEF LinksOf, Peer
  <2>2. ASSUME NEW n \in DOMAIN c[r]
        PROVE  c[r][n] \in Nat \ {0}
    <3>1. PICK l \in LinksOf(r) : n = Peer(r, l)
      BY <1>1
    <3>2. c[r][n] = 2 * links[l].delay /\ l \in DOMAIN Links
      BY <1>1, <3>1 DEF LinksOf
    <3> QED
      BY <3>2
  <2> QED
    BY <1>1, <2>1, <2>2
<1>3. Routing!IsCosts(c)
  BY <1>2 DEF Routing!IsCosts
<1> QED
  BY <1>1, <1>3 DEF c

LEMMA RoutesOfFacts ==
  ASSUME NEW s
  PROVE  LET t == s.forwardingTable
             f == RoutesOf(s)
         IN /\ DOMAIN f = DOMAIN t
            /\ \A d \in DOMAIN t : /\ f[d] = [nextHop |-> t[d].nextHop, routeCost |-> t[d].routeCost]
                                   /\ f[d].nextHop = t[d].nextHop /\ f[d].routeCost = t[d].routeCost
BY DEF RoutesOf

\* The routes after a step of router r.
LEMMA RoutesAfter ==
  ASSUME NEW r \in Router, NEW u, \A q \in Router : router'[q] = IF q = r THEN u ELSE router[q]
  PROVE  routeTable' = [routeTable EXCEPT ![r] = RoutesOf(u)] /\ routeTable'[r] = RoutesOf(u)
<1>1. \A q \in Router : RoutesOf(router'[q]) = IF q = r THEN RoutesOf(u) ELSE routeTable[q]
  BY RoutesFacts
<1>2. routeTable' = [q \in Router |-> RoutesOf(router'[q])] /\ DOMAIN routeTable = Router
  BY RoutesFacts
<1>3. routeTable = [q \in Router |-> routeTable[q]]
  BY DEF routeTable
<1> QED
  BY <1>1, <1>2, <1>3

\* A step of a router improves its routes.
LEMMA StepImproves ==
  ASSUME NEW D \in Nat, OnlyFaster(D), FasterInv(D), FasterInv(D)', RoutesRenewed, NoBadNews,
         NEW e, NEW r, NEW o, RouterStep(e, r, o)
  PROVE  r \in Router /\ Routing!Improve(r)
<1> DEFINE u    == o.s
           s    == router[r]
           B    == 2 * D
           caps == CapsOf(Tables, B)
           t    == RoutesOf(u)
<1>1. /\ DVInv /\ SimInv /\ Measured(D) /\ RoutesInv(D) /\ LinksFaster /\ DVInv' /\ PortsMeasured(D)'
      /\ OneLinkEach
  BY OnlyFasterFacts DEF FasterInv, Measured, ProbeInv, DVInv
<1>2. /\ RowsBacked(u, Tables, caps, B) /\ BestKept(u) /\ Improves(s, u)
      /\ r \in Router /\ \A q \in Router : router'[q] = IF q = r THEN u ELSE router[q]
  BY <1>1, StepKeeps DEF Keeps
<1>3. link' = link
  BY DEF RouterStep, Turn
<1>4. routeTable' = [routeTable EXCEPT ![r] = t] /\ routeTable'[r] = t /\ linkCosts' = linkCosts
  <2>1. linkCosts' = linkCosts
    BY <1>3, RoutesFacts
  <2> HIDE DEF s, u, caps
  <2> QED
    BY <1>2, <2>1, RoutesAfter
<1>5. /\ IsRouter(s, r, global_time) /\ global_time \in Nat
      /\ IsRouter(u, r, global_time') /\ global_time' \in Nat
  BY <1>1, <1>2 DEF DVInv, StatesOK, SimInv, SimTypeOK
<1>6. /\ \A d \in DOMAIN s.forwardingTable : s.forwardingTable[d].routeCost \in Nat
      /\ \A d \in DOMAIN u.forwardingTable : u.forwardingTable[d].routeCost \in Nat
      /\ \A n \in DOMAIN u.adjacencyList : u.adjacencyList[n].timeCost \in Nat
      /\ DOMAIN u.forwardingTable \subseteq Router \ {r}
  <2> HIDE DEF s, u
  <2>1. DOMAIN u.forwardingTable \subseteq Router \ {r}
    BY <1>5 DEF IsRouter, IsMap, Others
  <2> QED
    BY <1>5, <2>1, RouterNumbers
<1>7. /\ \A q \in Router : routeTable[q] = RoutesOf(router[q])
      /\ DOMAIN t = DOMAIN u.forwardingTable
      /\ \A d \in DOMAIN u.forwardingTable :
           /\ t[d] = [nextHop   |-> u.forwardingTable[d].nextHop,
                      routeCost |-> u.forwardingTable[d].routeCost]
           /\ t[d].routeCost = u.forwardingTable[d].routeCost
  <2> HIDE DEF u
  <2> QED
    BY RoutesFacts, RoutesOfFacts
<1>8. ASSUME NEW d \in DOMAIN u.forwardingTable
      PROVE  Routing!Backed(r, d, t[d])
  <2> DEFINE h   == u.forwardingTable[d].nextHop
             c   == u.forwardingTable[d].routeCost
             adj == u.adjacencyList[h].timeCost
  <2>1. t[d] = [nextHop |-> h, routeCost |-> c] /\ c \in Nat
    BY <1>6, <1>7
  <2>2. /\ h \in DOMAIN u.adjacencyList
        /\ IF d = h THEN c = adj ELSE d \in DOMAIN Tables[h] /\ c >= adj + Tables[h][d].routeCost
    <3>1. <<d, h>> \in DOMAIN u.bigTable /\ c = u.bigTable[<<d, h>>]
      BY <1>2, <1>8 DEF BestKept
    <3> HIDE DEF h, c, u, caps, B
    <3> QED
      BY <1>2, <3>1 DEF RowsBacked
  <2>3. PICK l \in LinksOf(r) : h = Peer(r, l)
    <3>1. router'[r] = u
      BY <1>2
    <3> HIDE DEF h, u
    <3> QED
      BY <1>1, <1>2, <2>2, <3>1 DEF PortsMeasured
  <2>4. adj >= 2 * link[l].delay /\ adj \in Nat
    <3>1. router'[r] = u
      BY <1>2
    <3>2. adj \in Nat
      BY <1>6, <2>2
    <3> HIDE DEF h, u
    <3>3. u.adjacencyList[h].timeCost >= 2 * link[l].delay
      BY <1>1, <1>2, <1>3, <2>2, <2>3, <3>1 DEF PortsMeasured
    <3> QED
      BY <3>2, <3>3
  <2>5. linkCosts[r][h] = 2 * link[l].delay /\ h \in DOMAIN linkCosts[r] /\ linkCosts[r][h] \in Nat
        /\ h \in Router
    <3>1. \A k \in DOMAIN Links : link[k].delay \in Nat
      BY <1>1 DEF SimInv, SimTypeOK
    <3>2. linkCosts[r][h] = 2 * link[l].delay /\ h \in DOMAIN linkCosts[r]
      BY <1>1, <1>2, <2>3, <3>1, RoundTripFacts, RoutesFacts
    <3>3. DOMAIN linkCosts[r] \subseteq Router \ {r} /\ linkCosts[r] \in [DOMAIN linkCosts[r] -> Nat \ {0}]
      <4>1. Routing!IsCosts(linkCosts)
        BY <1>1, <3>1, LinkCosts, RoutesFacts DEF LinksFaster
      <4> QED
        BY <1>2, <4>1 DEF Routing!IsCosts
    <3> HIDE DEF h
    <3> QED
      BY <3>2, <3>3
  <2>6. t[d] \in [nextHop : DOMAIN linkCosts[r], routeCost : Nat]
    BY <2>1, <2>5
  <2>7. t[d].nextHop = h /\ t[d].routeCost = c
    BY <2>1
  <2>8. CASE h = d
    <3>1. c >= linkCosts[r][d]
      BY <2>2, <2>4, <2>5, <2>8
    <3> HIDE DEF h, c, t
    <3> QED
      BY <2>6, <2>7, <2>8, <3>1 DEF Routing!Backed
  <2>9. CASE h # d
    <3>1. /\ d \in DOMAIN routeTable[h] /\ routeTable[h][d].routeCost = Tables[h][d].routeCost
          /\ Tables[h][d].routeCost \in Nat
      <4>1. Tables[h] = router[h].forwardingTable /\ AreCosts(Tables) /\ d \in DOMAIN Tables[h]
        BY <1>1, <2>2, <2>5, <2>9, TablesAreCosts
      <4>2. routeTable[h] = RoutesOf(router[h]) /\ h \in Router
        BY <1>7, <2>5
      <4> HIDE DEF h
      <4>3. d \in DOMAIN routeTable[h] /\ routeTable[h][d].routeCost = Tables[h][d].routeCost
        <5> DEFINE q == router[h]
        <5>1. /\ DOMAIN RoutesOf(q) = DOMAIN q.forwardingTable
              /\ \A k \in DOMAIN q.forwardingTable :
                   RoutesOf(q)[k].routeCost = q.forwardingTable[k].routeCost
          <6> HIDE DEF q
          <6> QED
            BY RoutesOfFacts
        <5> QED
          BY <4>1, <4>2, <5>1
      <4>4. Tables[h][d].routeCost \in Nat
        BY <4>1, <4>2 DEF AreCosts
      <4> QED
        BY <4>3, <4>4
    <3>2. c >= adj + Tables[h][d].routeCost
      BY <2>2, <2>9
    <3> HIDE DEF h, c, t, adj
    <3>3. c >= linkCosts[r][h] + routeTable[h][d].routeCost
      BY <2>1, <2>4, <2>5, <3>1, <3>2
    <3> QED
      BY <2>6, <2>7, <2>9, <3>1, <3>3 DEF Routing!Backed
  <2> QED
    BY <2>8, <2>9
<1>9. /\ DOMAIN routeTable[r] \subseteq DOMAIN t /\ DOMAIN t \subseteq Router \ {r}
      /\ \A d \in DOMAIN routeTable[r] : t[d].routeCost <= routeTable[r][d].routeCost
  <2>1. routeTable[r] = RoutesOf(s)
    BY <1>2, <1>7
  <2> HIDE DEF s, u, t
  <2>2. /\ DOMAIN routeTable[r] = DOMAIN s.forwardingTable
        /\ \A d \in DOMAIN s.forwardingTable : routeTable[r][d].routeCost = s.forwardingTable[d].routeCost
    BY <2>1, RoutesOfFacts
  <2>3. \A d \in DOMAIN s.forwardingTable :
          d \in DOMAIN u.forwardingTable /\ u.forwardingTable[d].routeCost <= s.forwardingTable[d].routeCost
    BY <1>2 DEF Improves
  <2> QED
    BY <1>6, <1>7, <2>2, <2>3
<1>10. \A d \in DOMAIN t : Routing!Backed(r, d, t[d])
  BY <1>7, <1>8
<1> HIDE DEF t
<1> QED
  BY <1>2, <1>4, <1>9, <1>10 DEF Routing!Improve

\* A step of the simulator makes links faster.
LEMMA SimSpeedsUp ==
  ASSUME NEW D \in Nat, OnlyFaster(D), FasterInv(D), FasterInv(D)', SimNext, UNCHANGED <<router, told, poisonedBy>>
  PROVE  Routing!Faster
<1>1. /\ SimInv /\ LinksFaster /\ ChangesFaster /\ SimInv' /\ LinksFaster' /\ OneLinkEach /\ NoLosses
  BY OnlyFasterFacts DEF FasterInv, DVInv, Measured, ProbeInv
<1>2. PICK e \in Top(event_q) : Speeds(e) \/ \E f : Crosses(e, f)
  BY <1>1, SimFaster
<1>3. \A l \in DOMAIN Links : /\ link[l].delay \in Nat /\ link[l].delay >= 1
                              /\ link'[l].delay \in Nat /\ link'[l].delay >= 1
  BY <1>1 DEF SimInv, SimTypeOK, LinksFaster
<1>4. \A l \in DOMAIN Links : link'[l].delay <= link[l].delay
  <2>1. CASE Speeds(e)
    BY <1>1, <2>1, SpeedsFacts
  <2>2. CASE UNCHANGED link
    BY <1>3, <2>2
  <2> QED
    BY <1>2, <2>1, <2>2 DEF Crosses
<1>5. DOMAIN linkCosts' = Router /\ Routing!IsCosts(linkCosts')
  <2>1. DOMAIN RoundTrips(link') = Router /\ Routing!IsCosts(RoundTrips(link'))
    BY <1>1, <1>3, LinkCosts
  <2> QED
    BY <2>1, RoutesFacts
<1>6. ASSUME NEW r \in Router
      PROVE  /\ DOMAIN linkCosts'[r] = DOMAIN linkCosts[r]
             /\ \A n \in DOMAIN linkCosts[r] : linkCosts'[r][n] <= linkCosts[r][n]
  <2>1. /\ DOMAIN RoundTrips(link)[r] = {Peer(r, l) : l \in LinksOf(r)}
        /\ \A l \in LinksOf(r) : RoundTrips(link)[r][Peer(r, l)] = 2 * link[l].delay
    BY <1>1, <1>3, RoundTripFacts
  <2>2. /\ DOMAIN RoundTrips(link')[r] = {Peer(r, l) : l \in LinksOf(r)}
        /\ \A l \in LinksOf(r) : RoundTrips(link')[r][Peer(r, l)] = 2 * link'[l].delay
    BY <1>1, <1>3, RoundTripFacts
  <2>3. \A l \in LinksOf(r) : 2 * link'[l].delay <= 2 * link[l].delay
    BY <1>3, <1>4 DEF LinksOf
  <2> QED
    BY <2>1, <2>2, <2>3, RoutesFacts
<1>7. UNCHANGED routeTable
  BY DEF routeTable
<1> QED
  BY <1>5, <1>6, <1>7 DEF Routing!Faster

LEMMA NextRouting ==
  ASSUME NEW D \in Nat, OnlyFaster(D), FasterInv(D), FasterInv(D)', RoutesRenewed, NoBadNews, [Next]_dvVars
  PROVE  [Routing!Next]_<<linkCosts, routeTable>>
<1>1. CASE SimNext /\ UNCHANGED <<router, told, poisonedBy>>
  BY <1>1, SimSpeedsUp DEF Routing!Next
<1>2. CASE RouterNext
  <2>1. PICK e, r, o : RouterStep(e, r, o)
    BY <1>2, RouterNextSteps DEF FasterInv, DVInv
  <2>2. r \in Router /\ Routing!Improve(r)
    BY <2>1, StepImproves
  <2> QED
    BY <2>2 DEF Routing!Next
<1>3. CASE UNCHANGED dvVars
  BY <1>3 DEF dvVars, vars, simVars, linkCosts, routeTable
<1> QED
  BY <1>1, <1>2, <1>3 DEF Next, RouterNext

LEMMA InitRouting ==
  ASSUME NEW D \in Nat, OnlyFaster(D), Init
  PROVE  Routing!Init
<1>1. FasterInv(D)
  BY InitFasterInv
<1>2. SimInv /\ LinksFaster /\ OneLinkEach
  BY <1>1, OnlyFasterFacts DEF FasterInv, DVInv, Measured, ProbeInv
<1>3. DOMAIN linkCosts = Router /\ Routing!IsCosts(linkCosts)
  <2>1. \A l \in DOMAIN Links : link[l].delay \in Nat /\ link[l].delay >= 1
    BY <1>2 DEF SimInv, SimTypeOK, LinksFaster
  <2>2. DOMAIN RoundTrips(link) = Router /\ Routing!IsCosts(RoundTrips(link))
    BY <1>2, <2>1, LinkCosts
  <2> QED
    BY <2>2, RoutesFacts
<1>4. routeTable = [r \in Router |-> <<>>]
  <2>1. \A r \in Router : router[r].forwardingTable = <<>>
    BY DEF Init, InitRouter
  <2>2. \A r \in Router : [d \in DOMAIN router[r].forwardingTable |->
              [nextHop   |-> router[r].forwardingTable[d].nextHop,
               routeCost |-> router[r].forwardingTable[d].routeCost]] = <<>>
    BY <2>1
  <2> QED
    BY <2>2 DEF routeTable
<1> QED
  BY <1>3, <1>4 DEF Routing!Init

\* A network whose links only get faster implements HopByHop, as long as no entry is found
\* out of date and no vector is bad news.
THEOREM FasterImplementsHopByHop ==
  ASSUME NEW D \in Nat, OnlyFaster(D)
  PROVE  Spec /\ []RoutesRenewed /\ []NoBadNews => ImplementsHopByHop
<1>1. Init => FasterInv(D) /\ Routing!Init
  BY InitFasterInv, InitRouting
<1>2. FasterInv(D) /\ RoutesRenewed /\ NoBadNews /\ [Next]_dvVars => FasterInv(D)'
  BY NextFasterInv
<1>3. FasterInv(D) /\ FasterInv(D)' /\ RoutesRenewed /\ NoBadNews /\ [Next]_dvVars
      => [Routing!Next]_<<linkCosts, routeTable>>
  BY NextRouting
<1> QED
  BY <1>1, <1>2, <1>3, PTL DEF Spec, ImplementsHopByHop, Routing!Spec, Routing!vars

-----------------------------------------------------------------------------
\* Data is not sent in a circle.

\* The port that a router has for a neighbour leads to it.
PortsLead ==
  \A r \in Router : \A n \in DOMAIN router[r].adjacencyList :
    /\ router[r].adjacencyList[n].port \in Ports[r]
    /\ Peer(r, LinkAt(r, router[r].adjacencyList[n].port)) = n

LEMMA StepPortsLead ==
  ASSUME NEW D \in Nat, OnlyFaster(D), FasterInv(D), PortsLead, RoutesRenewed, NoBadNews,
         NEW e, NEW q, NEW o, RouterStep(e, q, o)
  PROVE  PortsLead'
<1>1. DVInv /\ Measured(D) /\ RoutesInv(D) /\ ProbeInv(D) /\ D <= 2500
  BY OnlyFasterFacts DEF FasterInv, Measured
<1>2. KnowsNext(e) /\ e \in Top(event_q)
  <2>1. KnowsNext(e)
    BY <1>1, StepKeeps
  <2> QED
    BY <2>1 DEF RouterStep, Turn
<1> SUFFICES ASSUME NEW r \in Router, NEW n \in DOMAIN router'[r].adjacencyList
             PROVE  LET p == router'[r].adjacencyList[n].port IN p \in Ports[r] /\ Peer(r, LinkAt(r, p)) = n
  BY DEF PortsLead
<1> DEFINE s == router[r]
           u == router'[r]
<1>3. CASE e.kind = "Recv" /\ e.pkt.type = "PONG" /\ r = e.dest
  <2>1. /\ Learned(s, u, e.dport, e.pkt.sourceID, RoundTripCost(e.time, e.pkt.stamp), e.time)
        /\ e.dport \in Ports[r] /\ Peer(r, LinkAt(r, e.dport)) = e.pkt.sourceID
    BY <1>1, <1>2, <1>3, PongFacts DEF KnowsNext, Over
  <2>2. n = e.pkt.sourceID \/ n \in DOMAIN s.adjacencyList
    BY <2>1 DEF Learned, Store
  <2>3. u.adjacencyList[n].port = IF n = e.pkt.sourceID THEN e.dport ELSE s.adjacencyList[n].port
    BY <2>1, <2>2 DEF Learned, Store
  <2> QED
    BY <2>1, <2>2, <2>3 DEF PortsLead
<1>4. CASE ~(e.kind = "Recv" /\ e.pkt.type = "PONG" /\ r = e.dest)
  BY <1>2, <1>4 DEF KnowsNext, PortsLead
<1> QED
  BY <1>3, <1>4

LEMMA NextPortsLead ==
  ASSUME NEW D \in Nat, OnlyFaster(D), FasterInv(D), PortsLead, RoutesRenewed, NoBadNews, [Next]_dvVars
  PROVE  PortsLead'
<1>1. CASE UNCHANGED router
  BY <1>1 DEF PortsLead
<1>2. CASE RouterNext
  <2>1. PICK e, r, o : RouterStep(e, r, o)
    BY <1>2, RouterNextSteps DEF FasterInv, DVInv
  <2> QED
    BY <2>1, StepPortsLead
<1> QED
  BY <1>1, <1>2 DEF Next, RouterNext, dvVars, vars, simVars

\* A packet goes to the next hop of its route over a link that is alive.
LEMMA HandsToNextHop ==
  ASSUME NEW D \in Nat, OnlyFaster(D), FasterInv(D), PortsLead, NEW r \in Router, NEW d \in Router,
         HandsTo(r, d) # {}
  PROVE  LET h == router[r].forwardingTable[d].nextHop IN
         /\ d \in DOMAIN router[r].forwardingTable /\ HandsTo(r, d) = {h}
         /\ d = h \/ /\ h \in Router /\ d \in DOMAIN router[h].forwardingTable
                     /\ router[h].forwardingTable[d].routeCost < router[r].forwardingTable[d].routeCost
<1> DEFINE s    == router[r]
           h    == s.forwardingTable[d].nextHop
           c    == s.forwardingTable[d].routeCost
           data == [type |-> "DATA", src |-> r, dst |-> d]
<1>1. /\ IsRouter(s, r, global_time) /\ global_time \in Nat
      /\ RowsBacked(s, Tables, CapsOf(Tables, 2 * D), 2 * D) /\ BestKept(s)
      /\ LinksFaster /\ PortsMeasured(D) /\ DVInv
  BY DEF FasterInv, DVInv, StatesOK, SimInv, SimTypeOK, RoutesInv, TablesBacked, Measured, ProbeInv
<1>2. d \in DOMAIN s.forwardingTable
  <2> SUFFICES ASSUME d \notin DOMAIN s.forwardingTable PROVE FALSE
    OBVIOUS
  <2>1. handleData(s, data) = {[s |-> s, out |-> {}]}
    BY DEF handleData, Keep
  <2>2. Hops(r, d) = {}
    BY <2>1 DEF Hops
  <2> QED
    BY <2>2 DEF HandsTo
<1>3. d # r
  BY <1>1, <1>2 DEF IsRouter, IsMap, Others
<1>4. <<d, h>> \in DOMAIN s.bigTable /\ c = s.bigTable[<<d, h>>]
  BY <1>1, <1>2 DEF BestKept
<1>5. /\ h \in DOMAIN s.adjacencyList
      /\ d # h => /\ d \in DOMAIN Tables[h]
                  /\ c >= s.adjacencyList[h].timeCost + Tables[h][d].routeCost
  <2> HIDE DEF s, h, c
  <2> QED
    BY <1>1, <1>4 DEF RowsBacked
<1>6. /\ s.adjacencyList[h].port \in Ports[r]
      /\ Peer(r, LinkAt(r, s.adjacencyList[h].port)) = h
  BY <1>5 DEF PortsLead
<1>7. Hops(r, d) = {s.adjacencyList[h].port}
  <2>1. handleData(s, data) = {forwardTo(s, h, data)}
    BY <1>1, <1>2, <1>3 DEF handleData, IsRouter
  <2>2. forwardTo(s, h, data).out = {To(s.adjacencyList[h].port, data)}
    BY <1>5 DEF forwardTo
  <2>3. To(s.adjacencyList[h].port, data).port = s.adjacencyList[h].port
    BY DEF To
  <2>4. Hops(r, d) = {m.port : m \in UNION {x.out : x \in handleData(s, data)}}
    BY DEF Hops
  <2> HIDE DEF s, h, data
  <2>5. UNION {x.out : x \in handleData(s, data)} = {To(s.adjacencyList[h].port, data)}
    BY <2>1, <2>2
  <2> QED
    BY <2>3, <2>4, <2>5
<1>8. HandsTo(r, d) = {h}
  <2> DEFINE p == s.adjacencyList[h].port
  <2>1. HandsTo(r, d) \subseteq {Peer(r, LinkAt(r, p))}
    BY <1>7, SMTT(30) DEF HandsTo
  <2> QED
    BY <1>6, <2>1
<1>9. ASSUME d # h
      PROVE  /\ h \in Router /\ d \in DOMAIN router[h].forwardingTable
             /\ router[h].forwardingTable[d].routeCost < c
  <2>1. PICK l \in LinksOf(r) : h = Peer(r, l)
    <3> HIDE DEF h
    <3> QED
      BY <1>1, <1>5 DEF PortsMeasured
  <2>2. h \in Router /\ link[l].delay >= 1 /\ link[l].delay \in Nat
    <3>1. l \in DOMAIN Links /\ Peer(r, l) \in Router
      BY PeerFacts DEF LinksOf
    <3> QED
      BY <1>1, <2>1, <3>1 DEF LinksFaster, DVInv, SimInv, SimTypeOK
  <2>3. Tables[h] = router[h].forwardingTable /\ Tables[h][d].routeCost \in Nat
    BY <1>1, <1>5, <1>9, <2>2, TablesAreCosts DEF AreCosts
  <2>4. s.adjacencyList[h].timeCost \in Nat /\ c \in Nat
    <3> HIDE DEF s, h
    <3>1. s.adjacencyList[h].timeCost \in Nat /\ s.forwardingTable[d].routeCost \in Nat
      BY <1>1, <1>2, <1>5, RouterNumbers
    <3> QED
      BY <3>1
  <2>5. s.adjacencyList[h].timeCost >= 2 * link[l].delay
    <3> HIDE DEF h
    <3> QED
      BY <1>1, <1>5, <2>1 DEF PortsMeasured
  <2>6. c >= s.adjacencyList[h].timeCost + Tables[h][d].routeCost
    BY <1>5, <1>9, SMTT(40)
  <2> DEFINE a == s.adjacencyList[h].timeCost
             b == Tables[h][d].routeCost
             k == link[l].delay
  <2>7. a \in Nat /\ b \in Nat /\ c \in Nat /\ k \in Nat /\ k >= 1 /\ a >= 2 * k /\ c >= a + b
    BY <2>2, <2>3, <2>4, <2>5, <2>6
  <2> HIDE DEF a, b, c, k
  <2>8. b < c
    BY <2>7
  <2> QED
    BY <1>5, <1>9, <2>2, <2>3, <2>8 DEF b
<1> QED
  BY <1>2, <1>8, <1>9

\* Of routers that hand packets to one another, the one with the least cost cannot.
LEMMA FasterNoCircles ==
  ASSUME NEW D \in Nat, OnlyFaster(D), FasterInv(D), PortsLead
  PROVE  NoCircles
<1> SUFFICES ASSUME NEW d \in Router, NEW S \in SUBSET (Router \ {d}), S # {},
                    \A r \in S : HandsTo(r, d) # {} /\ HandsTo(r, d) \subseteq S
             PROVE  FALSE
  BY DEF NoCircles
<1> DEFINE c(r)  == router[r].forwardingTable[d].routeCost
           costs == {c(r) : r \in S}
<1>1. ASSUME NEW r \in S
      PROVE  c(r) \in Nat /\ \E h \in S : c(h) < c(r)
  <2>1. r \in Router /\ HandsTo(r, d) # {}
    OBVIOUS
  <2> DEFINE h == router[r].forwardingTable[d].nextHop
  <2>2. /\ d \in DOMAIN router[r].forwardingTable /\ HandsTo(r, d) = {h}
        /\ d = h \/ c(h) < c(r)
    BY <2>1, HandsToNextHop
  <2>3. h \in S /\ h # d
    BY <2>2
  <2>4. c(r) \in Nat
    <3>1. IsRouter(router[r], r, global_time) /\ global_time \in Nat
      BY <2>1 DEF FasterInv, DVInv, StatesOK, SimInv, SimTypeOK
    <3> QED
      BY <2>2, <3>1, RouterNumbers
  <2> HIDE DEF h, c
  <2> QED
    BY <2>2, <2>3, <2>4
<1> HIDE DEF c
<1>2. costs \subseteq Nat /\ costs # {}
  BY <1>1
<1>3. PICK n \in costs : \A k \in costs : ~(k < n)
  BY <1>2, LeastExists
<1>4. PICK r \in S : n = c(r)
  BY <1>3
<1>5. PICK h \in S : c(h) < c(r)
  BY <1>1
<1> QED
  BY <1>3, <1>4, <1>5

\* While links only get faster, no packet is ever sent round in a circle, as long as no
\* entry is found out of date and no vector is bad news.
THEOREM FasterNeverCircles ==
  ASSUME NEW D \in Nat, OnlyFaster(D)
  PROVE  Spec /\ []RoutesRenewed /\ []NoBadNews => []NoCircles
<1>1. Init => FasterInv(D) /\ PortsLead
  <2>1. Init => PortsLead
    BY DEF Init, InitRouter, PortsLead
  <2> QED
    BY <2>1, InitFasterInv
<1>2. FasterInv(D) /\ PortsLead /\ RoutesRenewed /\ NoBadNews /\ [Next]_dvVars
      => FasterInv(D)' /\ PortsLead'
  BY NextFasterInv, NextPortsLead
<1>3. FasterInv(D) /\ PortsLead => NoCircles
  BY FasterNoCircles
<1> QED
  BY <1>1, <1>2, <1>3, PTL DEF Spec
=============================================================================
