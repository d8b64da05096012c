----------------------------- MODULE Simulator ------------------------------
(***************************************************************************)
(* The discrete-event simulator the routing protocols run in (Simulator,   *)
(* Event, Node, Link): one queue of events ordered by time alone, and the  *)
(* links.  Its own events are the actions below; the events it hands to a  *)
(* router are actions of the module that models that router, built from    *)
(* Dispatch, XmitEvents and AlarmEvent.                                    *)
(***************************************************************************)
EXTENDS Topology, Bags, BagsExt

CONSTANTS Scripts,     \* the [events] sections considered, each a set of records
                       \* [time, cmd, a, b] or [time, cmd, a, b, delay]
          StopTime,    \* stop_time of the "end" line, 0 for none
          MaxLosses,   \* bound: how many packets rand() loses on live links
          LossUntil,   \* bound: and until when
          TieRank(_)   \* bound: among events of one time, only those of least
                       \* rank are dispatched next; constant if all orders are

ASSUME SimulatorAssumption == {StopTime, MaxLosses, LossUntil} \subseteq Nat

ASSUME ScriptsAssumption ==
  \A script \in Scripts : \A c \in script :
    /\ c.cmd \in {"linkdying", "linkcomingup", "changedelay", "xmit"}
    /\ c.time \in Nat /\ {c.a, c.b} \subseteq Router
    /\ c.cmd = "changedelay" => c.delay \in Nat

VARIABLES global_time,  \* ms since the start
          event_q,      \* bag of pending events
          link,         \* [is_alive, delay] of each link, and when is_alive or
                        \* delay last changed, if ever (since: history)
          losses        \* packets lost to rand() so far (for MaxLosses)

simVars == <<global_time, event_q, link, losses>>

NeverChanged == -1

\* A line of the [events] section as the event Simulator::init queues for it.
ScriptEvent(c) ==
  CASE c.cmd = "linkdying"    -> [kind |-> "LinkDie", time |-> c.time,
                                  link |-> LinkBetween(c.a, c.b)]
    [] c.cmd = "linkcomingup" -> [kind |-> "LinkComeUp", time |-> c.time,
                                  link |-> LinkBetween(c.a, c.b)]
    [] c.cmd = "changedelay"  -> [kind |-> "ChangeDelay", time |-> c.time,
                                  link |-> LinkBetween(c.a, c.b), delay |-> c.delay]
    [] c.cmd = "xmit"         -> [kind |-> "XmitEndToEnd", time |-> c.time,
                                  src |-> c.a, dst |-> c.b]

\* Node::send and Link::send_generic: for each packet put out on a port of r, an
\* event that will try to transmit it on the link, at the current time.
XmitEvents(r, out, now) ==
  {LET l == LinkAt(r, m.port) IN
   [kind |-> "Xmit", time |-> now, link |-> l, dest |-> Peer(r, l),
    dport |-> get_link_port(Peer(r, l), l), pkt |-> m.pkt] : m \in out}

\* Simulator::set_alarm.
AlarmEvent(r, type, now, duration) ==
  [kind |-> "Alarm", time |-> now + duration, router |-> r, type |-> type]

\* BUG (mutant): the comparison of the heap is the wrong way round.
Latest(q) == {e \in DOMAIN q : \A f \in DOMAIN q : f.time <= e.time}

\* The events the heap may have at its top: it orders events by time only.
Earliest(q) == {e \in DOMAIN q : \A f \in DOMAIN q : e.time <= f.time}
Top(q) == {e \in Earliest(q) : \A f \in Earliest(q) : TieRank(e) <= TieRank(f)}

\* The loop of Simulator::run goes on until an event later than the stop time has
\* been dispatched.
Running == StopTime = 0 \/ global_time <= StopTime

\* One iteration: the clock moves to the event, its handler pushes new events, and
\* the event is popped.
Dispatch(e, new) ==
  /\ Running
  /\ global_time' = e.time
  /\ event_q' = BagRemove(event_q, e) (+) SetToBag(new)

SimInit(protocolEvents) ==
  /\ global_time = 0
  /\ \E script \in Scripts :
       event_q = SetToBag(protocolEvents \cup {ScriptEvent(c) : c \in script})
  /\ link = [l \in DOMAIN Links |->
              [is_alive |-> TRUE, delay |-> Links[l].delay, since |-> NeverChanged]]
  /\ losses = 0

LinkDie ==
  \E e \in Top(event_q) :
    /\ e.kind = "LinkDie"
    /\ Dispatch(e, {})
    /\ link' = [link EXCEPT ![e.link].is_alive = FALSE, ![e.link].since = e.time]
    /\ UNCHANGED losses

LinkComeUp ==
  \E e \in Top(event_q) :
    /\ e.kind = "LinkComeUp"
    /\ Dispatch(e, {})
    /\ link' = [link EXCEPT ![e.link].is_alive = TRUE, ![e.link].since = e.time]
    /\ UNCHANGED losses

ChangeDelay ==
  \E e \in Top(event_q) :
    /\ e.kind = "ChangeDelay"
    /\ Dispatch(e, {})
    /\ link' = [link EXCEPT ![e.link].delay = e.delay, ![e.link].since = e.time]
    /\ UNCHANGED losses

\* Event_Xmit_Pkt_On_Link_Generic: a live link whose roll allows it delivers the
\* packet after the delay it has now.
Transmit ==
  \E e \in Top(event_q) :
    /\ e.kind = "Xmit"
    /\ link[e.link].is_alive
    /\ Links[e.link].lossTenths < 10
    /\ Dispatch(e, {[kind |-> "Recv", time |-> e.time + link[e.link].delay,
                     dest |-> e.dest, dport |-> e.dport, pkt |-> e.pkt]})
    /\ UNCHANGED <<link, losses>>

\* The packet is freed: the link is down, or the roll loses it.
LosePacket ==
  \E e \in Top(event_q) :
    /\ e.kind = "Xmit"
    /\ \/ ~link[e.link].is_alive /\ UNCHANGED losses
       \/ /\ link[e.link].is_alive
          /\ Links[e.link].lossTenths > 0
          /\ e.time <= LossUntil
          /\ losses < MaxLosses /\ losses' = losses + 1
    /\ Dispatch(e, {})
    /\ UNCHANGED link

SimNext == LinkDie \/ LinkComeUp \/ ChangeDelay \/ Transmit \/ LosePacket
=============================================================================
