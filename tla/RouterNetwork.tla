--------------------------- MODULE RouterNetwork ---------------------------
(***************************************************************************)
(* A network of routers in the simulator, as far as it does not depend on  *)
(* the protocol they run: Simulator composed with RoutingProtocol.  One    *)
(* action per kind of event a router handles, each the whole handler; here *)
(* those for a PING and for the alarm that sends PINGs.  Then, what the    *)
(* properties of a network are stated with.                                *)
(***************************************************************************)
EXTENDS Simulator, RoutingProtocol

CONSTANT SettleTime   \* how long the links must have been left alone before the
                      \* routes are held to them, in ms

ASSUME SettleAssumption == SettleTime \in Nat

VARIABLE router      \* the state of each router

vars == <<simVars, router>>

AlarmTypes == {"PingPong", "Update", "Freshness"}
Period == [PingPong |-> PingPeriod, Update |-> UpdatePeriod, Freshness |-> FreshnessPeriod]

\* Router r handles event e with one of the given outcomes, then sets alarms.
Handle(e, r, outcomes, alarms) ==
  \E result \in outcomes :
    /\ Dispatch(e, XmitEvents(r, result.out, e.time) \cup alarms)
    /\ router' = [router EXCEPT ![r] = result.s]
    /\ UNCHANGED <<link, losses>>

\* recv: what arrives next, by the type of the packet.
Arrivals(type) == {e \in Top(event_q) : e.kind = "Recv" /\ e.pkt.type = type}

RecvPing == \E e \in Arrivals("PING") :
              Handle(e, e.dest, handlePings(router[e.dest], e.dport, e.pkt), {})

\* handle_alarm: the alarm that rings next, and the same alarm set again, which is how
\* every case ends.
Alarms(type) == {e \in Top(event_q) : e.kind = "Alarm" /\ e.type = type}
Again(e)     == {AlarmEvent(e.router, e.type, e.time, Period[e.type])}

\* BUG (mutant): the alarm is not set again.
PingPongAlarmOnce == \E e \in Alarms("PingPong") :
  LET s == router[e.router] IN
  Handle(e, e.router, {[s |-> s, out |-> sendPings(s, e.time)]}, {})

PingPongAlarm == \E e \in Alarms("PingPong") :
  LET s == router[e.router] IN
  Handle(e, e.router, {[s |-> s, out |-> sendPings(s, e.time)]}, Again(e))

-----------------------------------------------------------------------------
Pending    == DOMAIN event_q
InFlight   == {e \in Pending : e.kind \in {"Xmit", "Recv"}}

SimTypeOK ==
  /\ global_time \in Nat /\ losses \in 0 .. MaxLosses
  /\ IsABag(event_q)
  /\ \A e \in Pending : e.time \in Nat
  /\ link \in [DOMAIN Links -> [is_alive : BOOLEAN, delay : Nat,
                               since : {NeverChanged} \cup 0 .. global_time]]

\* No event is pending for a time already past.  run() pops the top of the heap after
\* the handler has pushed its events: with an earlier event among them it would pop
\* that one, and dispatch again the event it deletes.
NoEventInThePast == \A e \in Pending : e.time >= global_time

\* Every router always has exactly one alarm of each type pending, less than a period
\* away: no handler loses the alarm or sets it twice.
OneAlarmEach ==
  \A r \in Router, type \in AlarmTypes :
    \E e \in Pending :
      /\ e.kind = "Alarm" /\ e.router = r /\ e.type = type
      /\ event_q[e] = 1 /\ e.time <= global_time + Period[type]
      /\ \A f \in Pending : f.kind = "Alarm" /\ f.router = r /\ f.type = type => f = e

\* A port counts as up only on the word of a PONG not much older than its lifetime:
\* the check that takes it down is never more than a second late.
UpPortsFresh ==
  \A r \in Router : \A p \in UpPorts(router[r]) :
    global_time - router[r].portStatus[p].lastUpdate <= PortLifetime + FreshnessPeriod

-----------------------------------------------------------------------------
\* What the network really offers: the least round-trip time from each router to d
\* over the links that are alive, by Bellman's recursion on the number of links.
TrueCost(d) ==
  LET cost[k \in Nat] ==
        IF k = 0 THEN [r \in Router |-> IF r = d THEN 0 ELSE INFINITY_COST]
        ELSE LET shorter == cost[k - 1] IN
             [r \in Router |->
               Min({shorter[r]} \cup
                   {2 * link[l].delay + shorter[Peer(r, l)] :
                     l \in {LinkAt(r, p) : p \in Ports[r]} \cap {m \in DOMAIN link : link[m].is_alive}})]
  IN cost[Cardinality(Router) - 1]

\* The way a data packet takes from r to d over the ports Hops that handleData puts it
\* out on at each router: how it ends, and the round-trip time of the links it took.
Way(Hops(_, _), r, d) ==
  LET follow[n \in Nat, q \in Router] ==
        LET live == {l \in {LinkAt(q, p) : p \in Hops(q, d)} : link[l].is_alive}
            l    == CHOOSE l \in live : TRUE
            rest == follow[n - 1, Peer(q, l)]
        IN IF q = d THEN [ends |-> "arrives", cost |-> 0]
           ELSE IF live = {} THEN [ends |-> "dropped", cost |-> 0]
           ELSE IF n = 0 THEN [ends |-> "loops", cost |-> 0]
           ELSE [rest EXCEPT !.cost = @ + 2 * link[l].delay]
  IN follow[Cardinality(Router), r]

\* No packet of the protocol is on its way and no link has changed for SettleTime.
Settled == /\ \A e \in InFlight : e.pkt.type = "DATA"
           /\ \A l \in DOMAIN link : global_time - link[l].since >= SettleTime

\* Both ends of every link know whether it is alive, and nothing is left to tell.
Detected ==
  /\ \A e \in InFlight : e.pkt.type = "DATA"
  /\ \A l \in DOMAIN Links : \A r \in {Links[l].node1, Links[l].node2} :
       link[l].is_alive <=> get_link_port(r, l) \in UpPorts(router[r])

\* Data reaches every router that can be reached, at the least cost.
ShortestWays(Hops(_, _)) ==
  \A d \in Router : LET best == TrueCost(d) IN
    \A r \in Router :
      best[r] < INFINITY_COST => Way(Hops, r, d) = [ends |-> "arrives", cost |-> best[r]]
=============================================================================
