------------------------ MODULE RouterNetworkProofs -------------------------
(***************************************************************************)
(* What holds of a network in the simulator whatever protocol its routers  *)
(* run: ports and links fit together, every pending event is well formed   *)
(* and due now or later, packets only move along links, and no alarm is    *)
(* lost.  The proofs about the two protocols rest on these lemmas.         *)
(***************************************************************************)
EXTENDS NumberFacts, RouterNetwork

-----------------------------------------------------------------------------
\* Hash maps.

LEMMA StoreMap ==
  ASSUME NEW S, NEW T, NEW f, IsMap(f, S, T), NEW k \in S, NEW v \in T
  PROVE  IsMap(Store(f, k, v), S, T)
BY DEF IsMap, Store

LEMMA StoreAllMap ==
  ASSUME NEW S, NEW T, NEW f, IsMap(f, S, T), NEW g, IsMap(g, S, T)
  PROVE  IsMap(StoreAll(f, g), S, T)
BY DEF IsMap, StoreAll

LEMMA RestrictMap ==
  ASSUME NEW S, NEW T, NEW f, IsMap(f, S, T), NEW D \in SUBSET DOMAIN f
  PROVE  IsMap(Restrict(f, D), S, T)
BY DEF IsMap, Restrict

\* Costs as numbers.  (0 .. 65535 is left alone: the backends would write it out.)
LEMMA CostRange ==
  /\ \A c \in Cost : c \in Nat /\ c <= 65535
  /\ \A c \in Int : 0 <= c /\ c <= 65535 => c \in Cost
<1>1. INFINITY_COST \in Int
  BY DEF INFINITY_COST
<1>2. INFINITY_COST = 65535
  BY DEF INFINITY_COST
<1>3. \A c \in Int : c \in 0 .. INFINITY_COST <=> 0 <= c /\ c <= INFINITY_COST
  BY <1>1, SMT
<1>4. \A c \in 0 .. INFINITY_COST : c \in Nat
  BY <1>1, SMT
<1>5. /\ \A c \in Cost : c \in Nat /\ c <= INFINITY_COST
      /\ \A c \in Int : 0 <= c /\ c <= INFINITY_COST => c \in Cost
  BY <1>1, <1>3, <1>4, SMT DEF Cost
<1> QED
  BY <1>2, <1>5, SMT

\* A 16-bit cost, whatever is assigned to it.
LEMMA AsCostType == \A i \in Int : AsCost(i) \in Cost
<1>1. ASSUME NEW i \in Int
      PROVE  i % 65536 \in Int /\ 0 <= i % 65536 /\ i % 65536 <= 65535
  BY SMT
<1> QED
  BY <1>1, CostRange, SMT DEF AsCost

-----------------------------------------------------------------------------
\* The ports of a router.

\* Both ends of a link are routers, and the link is one of the other end's too.
LEMMA PeerFacts ==
  ASSUME NEW r \in Router, NEW l \in LinksOf(r)
  PROVE  /\ l \in DOMAIN Links
         /\ Peer(r, l) \in Router \ {r}
         /\ Peer(Peer(r, l), l) = r
         /\ l \in LinksOf(Peer(r, l))
         /\ get_link_port(r, l) \in Ports[r]
         /\ get_link_port(Peer(r, l), l) \in Ports[Peer(r, l)]
BY LinksAssumption DEF LinksOf, Peer, Ports

\* Every link of a router has a port of its own.
LEMMA PortUnique ==
  ASSUME NEW r \in Router, NEW k \in LinksOf(r), NEW l \in LinksOf(r),
         get_link_port(r, k) = get_link_port(r, l)
  PROVE  k = l
<1>1. LinksOf(r) \subseteq Nat
  BY LinksAssumption DEF LinksOf
<1>2. ~(k < l)
  BY <1>1, MoreBelow, Zenon DEF get_link_port
<1>3. ~(l < k)
  BY <1>1, MoreBelow, Zenon DEF get_link_port
<1> QED
  BY <1>1, <1>2, <1>3

\* Node::send finds a link behind every port, and the port's own.
LEMMA LinkAtFacts ==
  ASSUME NEW r \in Router, NEW p \in Ports[r]
  PROVE  LinkAt(r, p) \in LinksOf(r) /\ get_link_port(r, LinkAt(r, p)) = p
BY DEF Ports, LinkAt

LEMMA LinkAtPort ==
  ASSUME NEW r \in Router, NEW l \in LinksOf(r)
  PROVE  LinkAt(r, get_link_port(r, l)) = l
<1>1. get_link_port(r, l) \in Ports[r]
  BY PeerFacts
<1> QED
  BY <1>1, LinkAtFacts, PortUnique

\* Every router has a port 0, the one that adjacencyList makes up for a next hop that
\* is not a neighbour.
LEMMA PortZero ==
  ASSUME NEW r \in Router
  PROVE  0 \in Ports[r]
<1>1. LinksOf(r) # {} /\ LinksOf(r) \subseteq Nat
  BY LinksAssumption DEF LinksOf
<1>2. PICK first \in LinksOf(r) : \A k \in LinksOf(r) : ~(k < first)
  BY <1>1, LeastExists
<1>3. {k \in LinksOf(r) : k < first} = {}
  BY <1>2
<1>4. get_link_port(r, first) = 0
  BY <1>3, FS_EmptySet DEF get_link_port
<1> QED
  BY <1>4 DEF Ports

-----------------------------------------------------------------------------
\* The heap.

\* A dispatch takes one event, and one copy of it, from the heap and adds the new ones.
LEMMA DispatchPending ==
  ASSUME NEW e, NEW new, Dispatch(e, new)
  PROVE  /\ DOMAIN event_q' \subseteq DOMAIN event_q \cup new
         /\ new \subseteq DOMAIN event_q'
         /\ \A f \in DOMAIN event_q : f # e => f \in DOMAIN event_q'
<1> DEFINE rest == BagRemove(event_q, e)
<1>1. event_q' = rest (+) SetToBag(new)
  BY DEF Dispatch
<1>2. DOMAIN rest \subseteq DOMAIN event_q
  BY DEF BagRemove
<1>3. \A f \in DOMAIN event_q : f # e => f \in DOMAIN rest
  BY DEF BagRemove
<1> HIDE DEF rest
<1> QED
  BY <1>1, <1>2, <1>3 DEF (+), SetToBag

\* The heap stays a bag.
LEMMA DispatchBag ==
  ASSUME NEW e, NEW new, Dispatch(e, new), IsABag(event_q)
  PROVE  IsABag(event_q')
<1> DEFINE rest == BagRemove(event_q, e)
           more == SetToBag(new)
<1>1. event_q' = rest (+) more
  BY DEF Dispatch
<1>2. \A f \in DOMAIN rest : rest[f] \in Nat /\ rest[f] > 0
  BY DEF BagRemove, IsABag
<1>3. \A f \in DOMAIN more : more[f] = 1
  BY DEF SetToBag
<1> HIDE DEF rest, more
<1>4. \A f \in DOMAIN event_q' : event_q'[f] \in Nat /\ event_q'[f] > 0
  BY <1>1, <1>2, <1>3 DEF (+)
<1>5. event_q' = [f \in DOMAIN event_q' |-> event_q'[f]]
  BY <1>1 DEF (+)
<1> QED
  BY <1>4, <1>5 DEF IsABag

\* What a dispatch does to the number of copies of an event of which there is one.
LEMMA DispatchCopies ==
  ASSUME NEW e, NEW new, Dispatch(e, new)
  PROVE  /\ \A f \in DOMAIN event_q : event_q[f] = 1 /\ f # e /\ f \notin new =>
              f \in DOMAIN event_q' /\ event_q'[f] = 1
         /\ event_q[e] = 1 /\ e \notin new => e \notin DOMAIN event_q'
         /\ \A a \in new : a \notin DOMAIN event_q => a \in DOMAIN event_q' /\ event_q'[a] = 1
<1> DEFINE rest == BagRemove(event_q, e)
<1>1. event_q' = rest (+) SetToBag(new)
  BY DEF Dispatch
<1>2. DOMAIN rest \subseteq DOMAIN event_q
  BY DEF BagRemove
<1>3. \A f \in DOMAIN event_q : f # e => f \in DOMAIN rest /\ rest[f] = event_q[f]
  BY DEF BagRemove
<1>4. event_q[e] = 1 => e \notin DOMAIN rest
  BY DEF BagRemove
<1> HIDE DEF rest
<1> QED
  BY <1>1, <1>2, <1>3, <1>4 DEF (+), SetToBag

\* What is dispatched is pending, and nothing pending is earlier.
LEMMA TopFacts ==
  ASSUME NEW e \in Top(event_q)
  PROVE  /\ e \in Pending
         /\ \A f \in Pending : e.time <= f.time
BY DEF Top, Earliest, Pending

-----------------------------------------------------------------------------
\* What the simulator keeps in order.

\* A pending event is, at time now, due now or later, and names routers, ports and links there are; a
\* packet to be transmitted is put on the link behind the port it is to arrive on.
EventFits(e, now) ==
  /\ e.time \in Nat /\ e.time >= now
  /\ e.kind = "Alarm" => e.router \in Router /\ e.type \in AlarmTypes
  /\ e.kind = "XmitEndToEnd" => e.src \in Router
  /\ e.kind = "ChangeDelay" => e.delay \in Nat
  /\ e.kind = "Xmit" => e.link = LinkAt(e.dest, e.dport)
  /\ e.kind \in {"Xmit", "Recv"} => e.dest \in Router /\ e.dport \in Ports[e.dest]

\* The inductive invariant of the simulator.
SimInv ==
  /\ SimTypeOK
  /\ \A e \in Pending : EventFits(e, global_time)

\* The router that put a packet on the link it is on its way over.
Sender(e) == Peer(e.dest, LinkAt(e.dest, e.dport))

LEMMA SenderFacts ==
  ASSUME NEW e, NEW now, EventFits(e, now), e.kind \in {"Xmit", "Recv"}
  PROVE  Sender(e) \in Router \ {e.dest} /\ LinkAt(e.dest, e.dport) \in DOMAIN Links
BY LinkAtFacts, PeerFacts DEF EventFits, Sender

\* Event f carries what was put out as m by router r.
Carries(f, r, m) ==
  /\ f.dest = Peer(r, LinkAt(r, m.port))
  /\ f.dport = get_link_port(f.dest, LinkAt(r, m.port))
  /\ f.pkt = m.pkt

LEMMA CarriesFacts ==
  ASSUME NEW r \in Router, NEW m, m.port \in Ports[r], NEW f, Carries(f, r, m)
  PROVE  /\ Sender(f) = r
         /\ f.dest \in Router \ {r} /\ f.dport \in Ports[f.dest]
         /\ LinkAt(f.dest, f.dport) = LinkAt(r, m.port)
BY LinkAtFacts, LinkAtPort, PeerFacts DEF Carries, Sender

LEMMA XmitFacts ==
  ASSUME NEW r, NEW out, NEW now
  PROVE  /\ \A f \in XmitEvents(r, out, now) : \E m \in out :
              /\ f.kind = "Xmit" /\ f.time = now
              /\ f.link = LinkAt(r, m.port) /\ Carries(f, r, m)
         /\ \A m \in out : \E f \in XmitEvents(r, out, now) :
              f.kind = "Xmit" /\ Carries(f, r, m)
<1> DEFINE Event(m) == [kind |-> "Xmit", time |-> now, link |-> LinkAt(r, m.port),
                        dest |-> Peer(r, LinkAt(r, m.port)),
                        dport |-> get_link_port(Peer(r, LinkAt(r, m.port)), LinkAt(r, m.port)),
                        pkt |-> m.pkt]
<1>1. XmitEvents(r, out, now) = {Event(m) : m \in out}
  BY DEF XmitEvents
<1>2. \A m \in out : /\ Event(m).kind = "Xmit" /\ Event(m).time = now
                     /\ Event(m).link = LinkAt(r, m.port) /\ Carries(Event(m), r, m)
  BY DEF Carries
<1> HIDE DEF Event
<1> QED
  BY <1>1, <1>2

\* Packets put out on ports of a router make proper events.
LEMMA XmitFits ==
  ASSUME NEW r \in Router, NEW out, \A m \in out : m.port \in Ports[r],
         NEW now \in Nat, NEW f \in XmitEvents(r, out, now)
  PROVE  EventFits(f, now) /\ f.kind = "Xmit"
<1>1. PICK m \in out : /\ f.kind = "Xmit" /\ f.time = now
                       /\ f.link = LinkAt(r, m.port) /\ Carries(f, r, m)
  BY XmitFacts
<1>2. /\ f.dest \in Router \ {r} /\ f.dport \in Ports[f.dest]
      /\ LinkAt(f.dest, f.dport) = LinkAt(r, m.port)
  BY <1>1, CarriesFacts
<1> QED
  BY <1>1, <1>2 DEF EventFits

\* Links change only as their type allows, at the time of an event.
LinkFits == link \in [DOMAIN Links -> [is_alive : BOOLEAN, delay : Nat,
                                       since : {NeverChanged} \cup 0 .. global_time]]

\* A dispatch keeps the simulator in order.
LEMMA DispatchInv ==
  ASSUME SimInv, NEW e \in Top(event_q), NEW new, Dispatch(e, new),
         LinkFits', (losses \in 0 .. MaxLosses)', \A f \in new : EventFits(f, global_time')
  PROVE  SimInv'
<1>1. EventFits(e, global_time) /\ global_time' = e.time
  BY TopFacts DEF SimInv, Dispatch
<1>2. ASSUME NEW f \in Pending
      PROVE  EventFits(f, global_time')
  <2>1. EventFits(f, global_time) /\ f.time >= e.time
    BY TopFacts, <1>1 DEF SimInv, EventFits
  <2> QED
    BY <1>1, <2>1 DEF EventFits
<1>3. \A f \in Pending' : EventFits(f, global_time')
  BY <1>2, DispatchPending DEF Pending
<1>4. IsABag(event_q)'
  BY DispatchBag DEF SimInv, SimTypeOK
<1> QED
  BY <1>1, <1>3, <1>4 DEF SimInv, SimTypeOK, EventFits, LinkFits

\* Time passes.
LEMMA LinkFitsLater ==
  ASSUME SimInv, NEW e \in Top(event_q), global_time' = e.time
  PROVE  /\ e.time \in Nat /\ global_time \in Nat /\ global_time <= e.time
         /\ UNCHANGED link => LinkFits'
<1>1. e.time \in Nat /\ global_time \in Nat /\ global_time <= e.time
  BY TopFacts DEF SimInv, SimTypeOK, EventFits
<1>2. ASSUME UNCHANGED link PROVE LinkFits'
  <2>1. 0 .. global_time \subseteq 0 .. e.time
    BY <1>1
  <2> QED
    BY <1>2, <2>1 DEF SimInv, SimTypeOK, LinkFits
<1> QED
  BY <1>1, <1>2

\* The simulator's own events keep it in order.
LEMMA SimNextInv ==
  ASSUME SimInv, SimNext
  PROVE  SimInv'
<1>1. losses \in 0 .. MaxLosses /\ LinkFits
  BY DEF SimInv, SimTypeOK, LinkFits
<1>2. ASSUME NEW e \in Top(event_q), Dispatch(e, {}), UNCHANGED losses,
             NEW alive \in BOOLEAN, NEW delay \in Nat,
             \/ link' = [link EXCEPT ![e.link].is_alive = alive, ![e.link].since = e.time]
             \/ link' = [link EXCEPT ![e.link].delay = delay, ![e.link].since = e.time]
      PROVE  SimInv'
  <2>1. /\ global_time' = e.time
        /\ e.time \in Nat /\ global_time \in Nat /\ global_time <= e.time
    BY <1>2, LinkFitsLater DEF Dispatch
  <2>2. e.time \in 0 .. e.time /\ 0 .. global_time \subseteq 0 .. e.time
    BY <2>1
  <2>3. LinkFits'
    BY <1>1, <1>2, <2>1, <2>2 DEF LinkFits
  <2> QED
    BY <1>1, <1>2, <2>3, DispatchInv
<1>3. CASE LinkDie
  <2>1. PICK e \in Top(event_q) :
          /\ Dispatch(e, {}) /\ UNCHANGED losses
          /\ link' = [link EXCEPT ![e.link].is_alive = FALSE, ![e.link].since = e.time]
    BY <1>3 DEF LinkDie
  <2> QED
    BY <1>2, <2>1
<1>4. CASE LinkComeUp
  <2>1. PICK e \in Top(event_q) :
          /\ Dispatch(e, {}) /\ UNCHANGED losses
          /\ link' = [link EXCEPT ![e.link].is_alive = TRUE, ![e.link].since = e.time]
    BY <1>4 DEF LinkComeUp
  <2> QED
    BY <1>2, <2>1
<1>5. CASE ChangeDelay
  <2>1. PICK e \in Top(event_q) :
          /\ e.kind = "ChangeDelay"
          /\ Dispatch(e, {}) /\ UNCHANGED losses
          /\ link' = [link EXCEPT ![e.link].delay = e.delay, ![e.link].since = e.time]
    BY <1>5 DEF ChangeDelay
  <2>2. e.delay \in Nat
    BY <2>1, TopFacts DEF SimInv, EventFits
  <2> QED
    BY <1>2, <2>1, <2>2
<1>6. CASE Transmit
  <2>1. PICK e \in Top(event_q) :
          /\ e.kind = "Xmit"
          /\ Dispatch(e, {[kind |-> "Recv", time |-> e.time + link[e.link].delay,
                           dest |-> e.dest, dport |-> e.dport, pkt |-> e.pkt]})
          /\ UNCHANGED <<link, losses>>
    BY <1>6 DEF Transmit
  <2> DEFINE recv == [kind |-> "Recv", time |-> e.time + link[e.link].delay,
                      dest |-> e.dest, dport |-> e.dport, pkt |-> e.pkt]
  <2>2. EventFits(e, global_time)
    BY TopFacts DEF SimInv
  <2>3. e.time \in Nat /\ global_time' = e.time /\ LinkFits'
    BY <2>1, LinkFitsLater DEF Dispatch
  <2>4. link[e.link].delay \in Nat
    BY <1>1, <2>1, <2>2, SenderFacts DEF LinkFits, EventFits
  <2>5. EventFits(recv, global_time')
    BY <2>1, <2>2, <2>3, <2>4 DEF EventFits
  <2> QED
    BY <1>1, <2>1, <2>3, <2>5, DispatchInv
<1>7. CASE LosePacket
  <2>1. PICK e \in Top(event_q) :
          /\ Dispatch(e, {}) /\ UNCHANGED link
          /\ \/ UNCHANGED losses
             \/ losses < MaxLosses /\ losses' = losses + 1
    BY <1>7 DEF LosePacket
  <2>2. LinkFits'
    BY <2>1, LinkFitsLater DEF Dispatch
  <2>3. (losses \in 0 .. MaxLosses)'
    BY <1>1, <2>1, SimulatorAssumption
  <2> QED
    BY <2>1, <2>2, <2>3, DispatchInv
<1> QED
  BY <1>3, <1>4, <1>5, <1>6, <1>7 DEF SimNext

\* Two events carry one packet to one port.
SamePacket(e, f) == e.dest = f.dest /\ e.dport = f.dport /\ e.pkt = f.pkt

\* They neither make packets nor turn them elsewhere, and lose them only on a dead link
\* or by a loss that is counted.
LEMMA SimPackets ==
  ASSUME SimInv, SimNext
  PROVE  /\ \A f \in InFlight' : \E e \in InFlight : SamePacket(e, f)
         /\ \A e \in InFlight : \/ \E f \in InFlight' : SamePacket(e, f)
                                \/ ~link[LinkAt(e.dest, e.dport)].is_alive
                                \/ losses' # 0
<1>1. ASSUME NEW e \in Top(event_q), Dispatch(e, {}), e.kind \notin {"Xmit", "Recv"}
      PROVE  InFlight' = InFlight
  BY <1>1, DispatchPending DEF InFlight, Pending
<1>2. CASE LinkDie \/ LinkComeUp \/ ChangeDelay
  <2>1. PICK e \in Top(event_q) : Dispatch(e, {}) /\ e.kind \notin {"Xmit", "Recv"}
    BY <1>2 DEF LinkDie, LinkComeUp, ChangeDelay
  <2> QED
    BY <1>1, <2>1 DEF SamePacket
<1>3. CASE Transmit
  <2>1. PICK e \in Top(event_q) :
          /\ e.kind = "Xmit"
          /\ Dispatch(e, {[kind |-> "Recv", time |-> e.time + link[e.link].delay,
                           dest |-> e.dest, dport |-> e.dport, pkt |-> e.pkt]})
    BY <1>3 DEF Transmit
  <2> DEFINE recv == [kind |-> "Recv", time |-> e.time + link[e.link].delay,
                      dest |-> e.dest, dport |-> e.dport, pkt |-> e.pkt]
  <2>2. recv.kind = "Recv" /\ SamePacket(e, recv)
    BY DEF SamePacket
  <2> HIDE DEF recv
  <2>3. /\ Pending' \subseteq Pending \cup {recv} /\ recv \in Pending'
        /\ \A f \in Pending : f # e => f \in Pending'
    BY <2>1, DispatchPending DEF Pending, recv
  <2>4. e \in InFlight /\ recv \in InFlight'
    BY <2>1, <2>2, <2>3, TopFacts DEF InFlight
  <2>5. \A f \in InFlight' : f \in InFlight \/ f = recv
    BY <2>3 DEF InFlight
  <2>6. \A f \in InFlight : f \in InFlight' \/ f = e
    BY <2>3 DEF InFlight
  <2> QED
    BY <2>2, <2>4, <2>5, <2>6 DEF SamePacket
<1>4. CASE LosePacket
  <2>1. PICK e \in Top(event_q) :
          /\ e.kind = "Xmit" /\ Dispatch(e, {})
          /\ ~link[e.link].is_alive \/ losses' = losses + 1
    BY <1>4 DEF LosePacket
  <2>2. e.link = LinkAt(e.dest, e.dport)
    BY <2>1, TopFacts DEF SimInv, EventFits
  <2>3. losses \in Nat
    BY DEF SimInv, SimTypeOK
  <2>4. /\ Pending' \subseteq Pending
        /\ \A f \in Pending : f # e => f \in Pending'
    BY <2>1, DispatchPending DEF Pending
  <2>5. \A f \in InFlight' : f \in InFlight
    BY <2>4 DEF InFlight
  <2>6. \A f \in InFlight : f \in InFlight' \/ f = e
    BY <2>4 DEF InFlight
  <2>7. ~link[LinkAt(e.dest, e.dport)].is_alive \/ losses' # 0
    BY <2>1, <2>2, <2>3
  <2> QED
    BY <2>5, <2>6, <2>7 DEF SamePacket
<1> QED
  BY <1>2, <1>3, <1>4 DEF SimNext

\* Losses are not taken back.
LEMMA SimLosses ==
  ASSUME SimInv, SimNext, losses' = 0
  PROVE  losses = 0
<1>1. losses \in Nat
  BY DEF SimInv, SimTypeOK
<1>2. losses' = losses \/ losses' = losses + 1
  BY DEF SimNext, LinkDie, LinkComeUp, ChangeDelay, Transmit, LosePacket
<1> QED
  BY <1>1, <1>2

\* A link that has never changed is as it was.
LEMMA SimLinks ==
  ASSUME SimInv, SimNext, NEW l \in DOMAIN Links, link'[l].since = NeverChanged
  PROVE  link'[l] = link[l]
<1>1. DOMAIN link = DOMAIN Links
  BY DEF SimInv, SimTypeOK
<1>2. /\ DOMAIN link[l] = {"is_alive", "delay", "since"}
      /\ \A e \in Top(event_q) : e.time # NeverChanged
  BY TopFacts DEF SimInv, SimTypeOK, EventFits, NeverChanged
<1>3. ASSUME NEW e \in Top(event_q), NEW changed, e.time # NeverChanged,
             changed.since = e.time, link' = [link EXCEPT ![e.link] = changed]
      PROVE  link'[l] = link[l]
  BY <1>1, <1>3
<1>4. CASE LinkDie
  BY <1>1, <1>2, <1>4 DEF LinkDie
<1>5. CASE LinkComeUp
  BY <1>1, <1>2, <1>5 DEF LinkComeUp
<1>6. CASE ChangeDelay
  BY <1>1, <1>2, <1>6 DEF ChangeDelay
<1>7. CASE Transmit \/ LosePacket
  BY <1>7 DEF Transmit, LosePacket
<1> QED
  BY <1>4, <1>5, <1>6, <1>7 DEF SimNext

-----------------------------------------------------------------------------
\* What a router does.

\* The alarm that rang, set again.
SetAgain(e) == IF e.kind = "Alarm" THEN Again(e) ELSE {}

LEMMA AgainFacts ==
  ASSUME NEW e, NEW now, EventFits(e, now), e.kind = "Alarm", NEW a \in Again(e)
  PROVE  EventFits(a, e.time) /\ a.kind = "Alarm" /\ a.router = e.router /\ a.type = e.type
<1>1. Period[e.type] \in Nat
  BY DEF EventFits, AlarmTypes, Period, PingPeriod, UpdatePeriod, FreshnessPeriod
<1> QED
  BY <1>1 DEF EventFits, Again, AlarmEvent

\* A step of router r, whichever event e it handles, with outcome o.
Turn(e, r, o) ==
  /\ e \in Top(event_q) /\ r \in Router
  /\ e.kind = "Alarm" => e.router = r
  /\ Dispatch(e, XmitEvents(r, o.out, e.time) \cup SetAgain(e))
  /\ router' = [router EXCEPT ![r] = o.s]
  /\ UNCHANGED <<link, losses>>

LEMMA HandleTurn ==
  ASSUME NEW e \in Top(event_q), NEW r \in Router, e.kind = "Alarm" => e.router = r,
         NEW outcomes, NEW alarms, alarms = SetAgain(e), Handle(e, r, outcomes, alarms)
  PROVE  \E o \in outcomes : Turn(e, r, o)
BY DEF Handle, Turn

\* It keeps the simulator in order, as long as it sends on its own ports.
LEMMA TurnInv ==
  ASSUME SimInv, NEW e, NEW r, NEW o, Turn(e, r, o), \A m \in o.out : m.port \in Ports[r]
  PROVE  SimInv'
<1> DEFINE new == XmitEvents(r, o.out, e.time) \cup SetAgain(e)
<1>1. /\ e \in Top(event_q) /\ r \in Router /\ Dispatch(e, new) /\ global_time' = e.time
      /\ UNCHANGED <<link, losses>>
  BY DEF Turn, Dispatch
<1>2. EventFits(e, global_time) /\ e.time \in Nat /\ LinkFits'
  BY <1>1, TopFacts, LinkFitsLater DEF SimInv
<1>3. ASSUME NEW f \in XmitEvents(r, o.out, e.time)
      PROVE  EventFits(f, e.time)
  BY <1>1, <1>2, XmitFits
<1>4. ASSUME NEW f \in SetAgain(e)
      PROVE  EventFits(f, e.time)
  BY <1>2, AgainFacts DEF SetAgain
<1>5. \A f \in new : EventFits(f, global_time')
  BY <1>1, <1>3, <1>4
<1>6. (losses \in 0 .. MaxLosses)'
  BY <1>1 DEF SimInv, SimTypeOK
<1> HIDE DEF new
<1> QED
  BY <1>1, <1>2, <1>5, <1>6, DispatchInv

\* The packets in flight after it: those that were, but for the one that arrived, and what
\* it sent.
LEMMA TurnPackets ==
  ASSUME SimInv, NEW e, NEW r, NEW o, Turn(e, r, o)
  PROVE  /\ \A f \in InFlight' : \/ f \in InFlight
                                 \/ /\ f.kind = "Xmit" /\ f.time = e.time
                                    /\ \E m \in o.out : Carries(f, r, m)
         /\ \A f \in InFlight : f \in InFlight' \/ f = e
         /\ \A m \in o.out : \E f \in InFlight' : Carries(f, r, m)
<1> DEFINE sent == XmitEvents(r, o.out, e.time)
<1>1. e \in Top(event_q) /\ Dispatch(e, sent \cup SetAgain(e))
  BY DEF Turn
<1>2. \A f \in SetAgain(e) : f.kind = "Alarm"
  BY DEF SetAgain, Again, AlarmEvent
<1>3. /\ \A f \in sent : \E m \in o.out :
           /\ f.kind = "Xmit" /\ f.time = e.time
           /\ f.link = LinkAt(r, m.port) /\ Carries(f, r, m)
      /\ \A m \in o.out : \E f \in sent : f.kind = "Xmit" /\ Carries(f, r, m)
  BY XmitFacts
<1> HIDE DEF sent
<1>4. /\ Pending' \subseteq Pending \cup (sent \cup SetAgain(e))
      /\ sent \subseteq Pending'
      /\ \A f \in Pending : f # e => f \in Pending'
  BY <1>1, DispatchPending DEF Pending
<1> QED
  BY <1>2, <1>3, <1>4 DEF InFlight

-----------------------------------------------------------------------------
\* PINGs and PONGs.

\* How long a PING or PONG may have been under way, when no link takes longer than D: it
\* has crossed none or one link, or, as a PONG that arrives, two.
InTime(f, D) ==
  LET age == f.time - f.pkt.stamp IN
  CASE f.pkt.type = "PING" /\ f.kind = "Xmit" -> age = 0
    [] f.pkt.type = "PONG" /\ f.kind = "Recv" -> age <= D + D
    [] OTHER -> age <= D

ProbeOK(f) ==
  f.pkt.type \in {"PING", "PONG"} =>
    f.pkt.sourceID = Sender(f) /\ f.pkt.stamp \in Nat /\ f.pkt.stamp <= f.time

\* Every PING and PONG names its sender, and has a stamp of the past.
ProbesOK == \A f \in InFlight : ProbeOK(f)

\* No link takes longer than D, or will be told to.
DelaysWithin(D) ==
  /\ \A l \in DOMAIN Links : link[l].delay <= D
  /\ \A e \in Pending : e.kind = "ChangeDelay" => e.delay <= D

\* Beside ProbesOK, the ages of PINGs and PONGs.
ProbesInTime(D) ==
  /\ DelaysWithin(D)
  /\ \A f \in InFlight : f.pkt.type \in {"PING", "PONG"} => InTime(f, D)

\* A packet in flight after an event of the simulator was in flight before, or has just
\* crossed a link.
LEMMA SimMoves ==
  ASSUME SimInv, SimNext, NEW f \in InFlight'
  PROVE  \/ f \in InFlight
         \/ \E e \in InFlight :
              /\ SamePacket(e, f) /\ e.kind = "Xmit" /\ f.kind = "Recv"
              /\ \E l \in DOMAIN Links : f.time = e.time + link[l].delay
<1>1. CASE LinkDie \/ LinkComeUp \/ ChangeDelay \/ LosePacket
  <2>1. PICK e \in Top(event_q) : Dispatch(e, {})
    BY <1>1 DEF LinkDie, LinkComeUp, ChangeDelay, LosePacket
  <2> QED
    BY <2>1, DispatchPending DEF InFlight, Pending
<1>2. CASE Transmit
  <2>1. PICK e \in Top(event_q) :
          /\ e.kind = "Xmit"
          /\ Dispatch(e, {[kind |-> "Recv", time |-> e.time + link[e.link].delay,
                           dest |-> e.dest, dport |-> e.dport, pkt |-> e.pkt]})
    BY <1>2 DEF Transmit
  <2> DEFINE recv == [kind |-> "Recv", time |-> e.time + link[e.link].delay,
                      dest |-> e.dest, dport |-> e.dport, pkt |-> e.pkt]
  <2>2. recv.kind = "Recv" /\ SamePacket(e, recv) /\ recv.time = e.time + link[e.link].delay
    BY DEF SamePacket
  <2> HIDE DEF recv
  <2>3. Pending' \subseteq Pending \cup {recv}
    BY <2>1, DispatchPending DEF Pending, recv
  <2>4. e \in InFlight /\ e.link \in DOMAIN Links
    BY <2>1, TopFacts, SenderFacts DEF InFlight, SimInv, EventFits
  <2>5. f \in InFlight \/ f = recv
    BY <2>3 DEF InFlight
  <2> QED
    BY <2>1, <2>2, <2>4, <2>5
<1> QED
  BY <1>1, <1>2 DEF SimNext

LEMMA SimProbes ==
  ASSUME SimInv, SimNext, ProbesOK
  PROVE  ProbesOK'
<1>1. ASSUME NEW f \in InFlight'
      PROVE  ProbeOK(f)
  <2>1. CASE f \in InFlight
    BY <2>1 DEF ProbesOK
  <2>2. ASSUME NEW e \in InFlight, SamePacket(e, f), NEW l \in DOMAIN Links,
               f.time = e.time + link[l].delay
        PROVE  ProbeOK(f)
    <3>1. ProbeOK(e) /\ e.time \in Nat /\ link[l].delay \in Nat
      BY DEF ProbesOK, SimInv, SimTypeOK, InFlight
    <3>2. Sender(f) = Sender(e) /\ f.pkt = e.pkt
      BY <2>2 DEF SamePacket, Sender
    <3> QED
      BY <2>2, <3>1, <3>2 DEF ProbeOK
  <2> QED
    BY <2>1, <2>2, SimMoves
<1> QED
  BY <1>1 DEF ProbesOK, ProbeOK, Sender

LEMMA SimProbesInTime ==
  ASSUME SimInv, SimNext, ProbesOK, NEW D \in Nat, ProbesInTime(D)
  PROVE  ProbesInTime(D)'
<1>1. \A l \in DOMAIN Links : link[l].delay \in Nat /\ link[l].delay <= D
  BY DEF SimInv, SimTypeOK, ProbesInTime, DelaysWithin
<1>2. DelaysWithin(D)'
  <2>1. \A e \in Pending' : e.kind = "ChangeDelay" => e \in Pending
    <3>1. \E e, new : Dispatch(e, new) /\ \A f \in new : f.kind = "Recv"
      <4>1. CASE LinkDie \/ LinkComeUp \/ ChangeDelay \/ LosePacket
        <5>1. \E e : Dispatch(e, {})
          BY <4>1, Zenon DEF LinkDie, LinkComeUp, ChangeDelay, LosePacket
        <5> QED
          BY <5>1
      <4>2. CASE Transmit
        <5>1. PICK e \in Top(event_q) :
                Dispatch(e, {[kind |-> "Recv", time |-> e.time + link[e.link].delay,
                              dest |-> e.dest, dport |-> e.dport, pkt |-> e.pkt]})
          BY <4>2 DEF Transmit
        <5> QED
          BY <5>1
      <4> QED
        BY <4>1, <4>2 DEF SimNext
    <3>2. PICK e, new : Dispatch(e, new) /\ \A f \in new : f.kind = "Recv"
      BY <3>1
    <3> QED
      BY <3>2, DispatchPending DEF Pending
  <2>2. \A l \in DOMAIN Links : \/ link'[l].delay = link[l].delay
                                \/ \E e \in Pending : e.kind = "ChangeDelay" /\ link'[l].delay = e.delay
    <3>1. CASE ChangeDelay
      <4>1. PICK e \in Top(event_q) :
              /\ e.kind = "ChangeDelay"
              /\ link' = [link EXCEPT ![e.link].delay = e.delay, ![e.link].since = e.time]
        BY <3>1 DEF ChangeDelay
      <4> QED
        BY <4>1, TopFacts DEF SimInv, SimTypeOK
    <3>2. CASE LinkDie \/ LinkComeUp
      <4>1. PICK e \in Top(event_q), alive \in BOOLEAN :
              link' = [link EXCEPT ![e.link].is_alive = alive, ![e.link].since = e.time]
        BY <3>2 DEF LinkDie, LinkComeUp
      <4> QED
        BY <4>1 DEF SimInv, SimTypeOK
    <3>3. CASE Transmit \/ LosePacket
      BY <3>3 DEF Transmit, LosePacket
    <3> QED
      BY <3>1, <3>2, <3>3 DEF SimNext
  <2> QED
    BY <2>1, <2>2 DEF ProbesInTime, DelaysWithin
<1>3. ASSUME NEW f \in InFlight', f.pkt.type \in {"PING", "PONG"}
      PROVE  InTime(f, D)
  <2>1. CASE f \in InFlight
    BY <1>3, <2>1 DEF ProbesInTime
  <2>2. ASSUME NEW e \in InFlight, SamePacket(e, f), e.kind = "Xmit", f.kind = "Recv",
               NEW l \in DOMAIN Links, f.time = e.time + link[l].delay
        PROVE  InTime(f, D)
    <3>1. InTime(e, D) /\ ProbeOK(e) /\ e.time \in Nat /\ f.pkt = e.pkt
      BY <1>3, <2>2 DEF ProbesInTime, ProbesOK, SimInv, SimTypeOK, InFlight, SamePacket
    <3> QED
      BY <1>1, <1>3, <2>2, <3>1 DEF InTime, ProbeOK
  <2> QED
    BY <2>1, <2>2, SimMoves
<1> QED
  BY <1>2, <1>3 DEF ProbesInTime

\* The PINGs and PONGs that router r sends when it handles e: PINGs of its own, stamped with
\* the time, and answers to the PING that arrives, stamped as it was.
ProbesSent(e, r, out) ==
  \A m \in out :
    /\ m.pkt.type \in {"PING", "PONG"} => m.pkt.sourceID = r
    /\ m.pkt.type = "PING" => m.pkt.stamp = e.time
    /\ m.pkt.type = "PONG" => /\ e.kind = "Recv" /\ e.pkt.type = "PING"
                              /\ m.pkt.stamp = e.pkt.stamp

LEMMA TurnProbes ==
  ASSUME SimInv, ProbesOK, NEW e, NEW r, NEW o, Turn(e, r, o),
         \A m \in o.out : m.port \in Ports[r], ProbesSent(e, r, o.out)
  PROVE  /\ ProbesOK'
         /\ \A D \in Nat : ProbesInTime(D) => ProbesInTime(D)'
<1>1. /\ e \in Pending /\ e.time \in Nat /\ r \in Router
      /\ e.kind = "Recv" => e \in InFlight
  BY TopFacts DEF Turn, SimInv, SimTypeOK, InFlight
<1>2. ASSUME NEW f \in InFlight', f \notin InFlight, f.pkt.type \in {"PING", "PONG"}
      PROVE  /\ f.pkt.sourceID = Sender(f) /\ f.kind = "Xmit" /\ f.time = e.time
             /\ f.pkt.type = "PING" => f.pkt.stamp = e.time
             /\ f.pkt.type = "PONG" => e \in InFlight /\ e.kind = "Recv" /\ e.pkt.type = "PING"
                                       /\ f.pkt.stamp = e.pkt.stamp
  <2>1. PICK m \in o.out : Carries(f, r, m)
    BY <1>2, TurnPackets
  <2>2. f.pkt = m.pkt /\ Sender(f) = r
    BY <1>1, <2>1, CarriesFacts DEF Carries
  <2> QED
    BY <1>1, <1>2, <2>2, TurnPackets DEF ProbesSent
<1>3. ASSUME NEW f \in InFlight'
      PROVE  ProbeOK(f)
  <2>1. e \in InFlight => ProbeOK(e)
    BY DEF ProbesOK
  <2> QED
    BY <1>1, <1>2, <2>1 DEF ProbesOK, ProbeOK
<1>4. ASSUME NEW D \in Nat, ProbesInTime(D)
      PROVE  ProbesInTime(D)'
  <2>1. \A f \in Pending' : f.kind = "ChangeDelay" => f \in Pending
    <3>1. \A f \in XmitEvents(r, o.out, e.time) \cup SetAgain(e) : f.kind # "ChangeDelay"
      <4>1. \A f \in XmitEvents(r, o.out, e.time) : f.kind = "Xmit"
        BY XmitFacts
      <4> QED
        BY <4>1 DEF SetAgain, Again, AlarmEvent
    <3> QED
      BY <3>1, DispatchPending DEF Turn, Pending
  <2>2. DelaysWithin(D)'
    BY <1>4, <2>1 DEF ProbesInTime, DelaysWithin, Turn
  <2>3. ASSUME NEW f \in InFlight', f.pkt.type \in {"PING", "PONG"}
        PROVE  InTime(f, D)
    <3>1. CASE f \in InFlight
      BY <1>4, <2>3, <3>1 DEF ProbesInTime
    <3>2. CASE f \notin InFlight
      <4>1. e \in InFlight /\ e.pkt.type = "PING" => InTime(e, D)
        BY <1>4 DEF ProbesInTime
      <4> QED
        BY <1>1, <1>2, <2>3, <3>2, <4>1 DEF InTime
    <3> QED
      BY <3>1, <3>2
  <2> QED
    BY <2>2, <2>3 DEF ProbesInTime
<1>5. ProbesOK'
  BY <1>3 DEF ProbesOK, ProbeOK, Sender
<1> QED
  BY <1>4, <1>5

-----------------------------------------------------------------------------
\* Alarms.

AlarmOf(e, r, type) == e.kind = "Alarm" /\ e.router = r /\ e.type = type

\* The only alarm a step sets is the one that rang.
LEMMA AlarmsKept ==
  ASSUME SimInv, OneAlarmEach, NEW e \in Top(event_q), NEW new, Dispatch(e, new),
         \A f \in new : f.kind = "Alarm" => f \in SetAgain(e),
         SetAgain(e) \subseteq new
  PROVE  OneAlarmEach'
<1>1. EventFits(e, global_time) /\ global_time' = e.time /\ global_time \in Nat
  BY TopFacts DEF SimInv, SimTypeOK, Dispatch
<1> SUFFICES ASSUME NEW r \in Router, NEW type \in AlarmTypes
             PROVE  \E a \in Pending' :
                      /\ AlarmOf(a, r, type)
                      /\ event_q'[a] = 1 /\ a.time <= global_time' + Period[type]
                      /\ \A f \in Pending' : AlarmOf(f, r, type) => f = a
  BY DEF OneAlarmEach, AlarmOf
<1>2. PICK a \in Pending :
        /\ AlarmOf(a, r, type)
        /\ event_q[a] = 1 /\ a.time <= global_time + Period[type]
        /\ \A f \in Pending : AlarmOf(f, r, type) => f = a
  BY DEF OneAlarmEach, AlarmOf
<1>3. Period[type] \in Nat \ {0}
  BY DEF AlarmTypes, Period, PingPeriod, UpdatePeriod, FreshnessPeriod
<1>4. Pending' \subseteq Pending \cup new
  BY DispatchPending DEF Pending
<1>5. CASE AlarmOf(e, r, type)
  <2> DEFINE b == AlarmEvent(r, type, e.time, Period[type])
  <2>1. e = a
    BY <1>2, <1>5, TopFacts
  <2>2. SetAgain(e) = {b}
    BY <1>5 DEF SetAgain, Again, AlarmOf
  <2>3. b.time = e.time + Period[type] /\ AlarmOf(b, r, type)
    BY DEF AlarmEvent, AlarmOf
  <2> HIDE DEF b
  <2>4. b # e
    BY <1>1, <1>3, <2>3 DEF EventFits
  <2>5. b \in new /\ \A f \in new : f.kind = "Alarm" => f = b
    BY <2>2
  <2>6. e \notin new
    BY <1>5, <2>4, <2>5 DEF AlarmOf
  <2>7. b \notin Pending
    BY <1>2, <2>1, <2>3, <2>4
  <2>8. b \in Pending' /\ event_q'[b] = 1 /\ e \notin Pending'
    BY <1>2, <2>1, <2>5, <2>6, <2>7, DispatchCopies DEF Pending
  <2>9. \A f \in Pending' : AlarmOf(f, r, type) => f = b
    BY <1>2, <1>4, <2>1, <2>5, <2>8 DEF AlarmOf
  <2>10. b.time <= global_time' + Period[type]
    BY <1>1, <1>3, <2>3 DEF EventFits
  <2> QED
    BY <2>3, <2>8, <2>9, <2>10
<1>6. CASE ~AlarmOf(e, r, type)
  <2>1. \A f \in new : ~AlarmOf(f, r, type)
    BY <1>1, <1>6, AgainFacts DEF AlarmOf, SetAgain
  <2>2. a \in Pending' /\ event_q'[a] = 1
    BY <1>2, <1>6, <2>1, DispatchCopies DEF Pending
  <2>3. \A f \in Pending' : AlarmOf(f, r, type) => f = a
    BY <1>2, <1>4, <2>1
  <2>4. a.time <= global_time' + Period[type]
    BY <1>1, <1>2, <1>3 DEF SimInv, EventFits
  <2> QED
    BY <1>2, <2>2, <2>3, <2>4
<1> QED
  BY <1>5, <1>6

\* A router neither loses an alarm nor sets one twice.
LEMMA TurnAlarms ==
  ASSUME SimInv, OneAlarmEach, NEW e, NEW r, NEW o, Turn(e, r, o)
  PROVE  OneAlarmEach'
<1>1. \A f \in XmitEvents(r, o.out, e.time) : f.kind = "Xmit"
  BY XmitFacts
<1> QED
  BY <1>1, AlarmsKept DEF Turn

\* Nor does the simulator itself.
LEMMA SimAlarms ==
  ASSUME SimInv, SimNext
  PROVE  /\ OneAlarmEach => OneAlarmEach'
         /\ \A f \in Pending' : f.kind = "Alarm" => f \in Pending
<1>1. ASSUME NEW e \in Top(event_q), NEW new, Dispatch(e, new), e.kind # "Alarm",
             \A f \in new : f.kind # "Alarm"
      PROVE  /\ OneAlarmEach => OneAlarmEach'
             /\ \A f \in Pending' : f.kind = "Alarm" => f \in Pending
  <2>1. SetAgain(e) = {}
    BY <1>1 DEF SetAgain
  <2>2. OneAlarmEach => OneAlarmEach'
    BY <1>1, <2>1, AlarmsKept
  <2> QED
    BY <1>1, <2>2, DispatchPending DEF Pending
<1>2. CASE LinkDie \/ LinkComeUp \/ ChangeDelay \/ LosePacket
  <2>1. PICK e \in Top(event_q) : e.kind # "Alarm" /\ Dispatch(e, {})
    BY <1>2 DEF LinkDie, LinkComeUp, ChangeDelay, LosePacket
  <2> QED
    BY <1>1, <2>1
<1>3. CASE Transmit
  <2>1. PICK e \in Top(event_q) :
          /\ e.kind = "Xmit"
          /\ Dispatch(e, {[kind |-> "Recv", time |-> e.time + link[e.link].delay,
                           dest |-> e.dest, dport |-> e.dport, pkt |-> e.pkt]})
    BY <1>3 DEF Transmit
  <2> QED
    BY <1>1, <2>1
<1> QED
  BY <1>2, <1>3 DEF SimNext

-----------------------------------------------------------------------------
\* The start.

FirstAlarms == {AlarmEvent(r, type, 0, Period[type]) : r \in Router, type \in AlarmTypes}

\* No delay of the configuration is above D.
ConfiguredWithin(D) ==
  /\ \A l \in DOMAIN Links : Links[l].delay <= D
  /\ \A script \in Scripts : \A c \in script : c.cmd = "changedelay" => c.delay <= D

\* The PINGs that routers start with.
LEMMA FirstPings ==
  ASSUME NEW r \in Router, NEW s, s.id = r, NEW f \in XmitEvents(r, sendPings(s, 0), 0)
  PROVE  /\ f.kind = "Xmit" /\ f.pkt.type = "PING" /\ EventFits(f, 0) /\ ProbeOK(f)
         /\ \A D \in Nat : InTime(f, D)
<1>1. \A m \in sendPings(s, 0) : /\ m.port \in Ports[r] /\ m.pkt.type = "PING"
                                 /\ m.pkt.sourceID = r /\ m.pkt.stamp = 0
  BY DEF sendPings, To
<1>2. f.kind = "Xmit" /\ EventFits(f, 0)
  BY <1>1, XmitFits
<1>3. PICK m \in sendPings(s, 0) : f.time = 0 /\ Carries(f, r, m)
  BY XmitFacts
<1>4. f.pkt = m.pkt /\ Sender(f) = r
  BY <1>1, <1>3, CarriesFacts DEF Carries
<1> QED
  BY <1>1, <1>2, <1>3, <1>4 DEF ProbeOK, InTime

\* A network in which every router has sent something and set its alarms is in order.
LEMMA StartFacts ==
  ASSUME NEW pings, \A f \in pings : f.kind = "Xmit" /\ EventFits(f, 0),
         SimInit(pings \cup FirstAlarms)
  PROVE  /\ SimInv /\ OneAlarmEach /\ InFlight = pings /\ global_time = 0
         /\ \A D : ConfiguredWithin(D) => DelaysWithin(D)
<1>1. PICK script \in Scripts :
        event_q = SetToBag((pings \cup FirstAlarms) \cup {ScriptEvent(c) : c \in script})
  BY DEF SimInit
<1> DEFINE lines == {ScriptEvent(c) : c \in script}
<1>0. ASSUME NEW D, ConfiguredWithin(D), NEW f \in lines, f.kind = "ChangeDelay"
      PROVE  f.delay <= D
  BY <1>0, ScriptsAssumption DEF ConfiguredWithin, ScriptEvent
<1>2. /\ Pending = (pings \cup FirstAlarms) \cup lines
      /\ \A e \in Pending : event_q[e] = 1
      /\ IsABag(event_q)
  BY <1>1 DEF SetToBag, IsABag, Pending
<1>3. ASSUME NEW f \in lines
      PROVE  EventFits(f, 0) /\ f.kind \notin {"Alarm", "Xmit", "Recv"}
  BY ScriptsAssumption DEF EventFits, ScriptEvent
<1> HIDE DEF lines
<1>4. ASSUME NEW r \in Router, NEW type \in AlarmTypes
      PROVE  LET a == AlarmEvent(r, type, 0, Period[type])
             IN  EventFits(a, 0) /\ AlarmOf(a, r, type) /\ a.time = Period[type]
  BY DEF EventFits, AlarmEvent, AlarmOf, AlarmTypes, Period, PingPeriod, UpdatePeriod,
         FreshnessPeriod
<1>5. ASSUME NEW f \in FirstAlarms
      PROVE  /\ EventFits(f, 0) /\ f.kind = "Alarm"
             /\ f = AlarmEvent(f.router, f.type, 0, Period[f.type])
  BY <1>4 DEF FirstAlarms, AlarmOf
<1>6. global_time = 0
  BY DEF SimInit
<1>7. SimInv
  <2>1. \A e \in Pending : EventFits(e, global_time)
    BY <1>2, <1>3, <1>5, <1>6
  <2>2. \A e \in Pending : e.time \in Nat
    BY <2>1 DEF EventFits
  <2>3. LinkFits /\ losses \in 0 .. MaxLosses
    BY LinksAssumption, SimulatorAssumption DEF SimInit, LinkFits
  <2> QED
    BY <1>2, <1>6, <2>1, <2>2, <2>3 DEF SimInv, SimTypeOK, LinkFits
<1>8. OneAlarmEach
  <2> SUFFICES ASSUME NEW r \in Router, NEW type \in AlarmTypes
               PROVE  \E a \in Pending :
                        /\ AlarmOf(a, r, type)
                        /\ event_q[a] = 1 /\ a.time <= global_time + Period[type]
                        /\ \A f \in Pending : AlarmOf(f, r, type) => f = a
    BY DEF OneAlarmEach, AlarmOf
  <2> DEFINE a == AlarmEvent(r, type, 0, Period[type])
  <2>1. a \in FirstAlarms /\ AlarmOf(a, r, type) /\ a.time = Period[type] /\ a.time \in Nat
    BY <1>4 DEF FirstAlarms, EventFits
  <2>2. a \in Pending /\ event_q[a] = 1
    BY <1>2, <2>1
  <2>3. ASSUME NEW f \in Pending, AlarmOf(f, r, type)
        PROVE  f = a
    <3>1. f \in FirstAlarms
      BY <1>2, <1>3, <2>3 DEF AlarmOf
    <3> QED
      BY <1>5, <2>3, <3>1 DEF AlarmOf
  <2> HIDE DEF a
  <2> QED
    BY <1>6, <2>1, <2>2, <2>3
<1>9. InFlight = pings
  BY <1>2, <1>3, <1>5 DEF InFlight
<1>10. ASSUME NEW D, ConfiguredWithin(D) PROVE DelaysWithin(D)
  <2>1. \A l \in DOMAIN Links : link[l].delay <= D
    BY <1>10 DEF SimInit, ConfiguredWithin
  <2>2. \A f \in Pending : f.kind = "ChangeDelay" => f \in lines
    BY <1>2, <1>5
  <2> QED
    BY <1>0, <1>10, <2>1, <2>2 DEF DelaysWithin
<1> QED
  BY <1>6, <1>7, <1>8, <1>9, <1>10
=============================================================================
