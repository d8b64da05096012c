----------------------------- MODULE Instances ------------------------------
(***************************************************************************)
(* Networks, [events] sections and orders of simultaneous events that the  *)
(* runs of both protocols draw on: networks of three or four routers with  *)
(* the links of tests/test3 and tests/test4 or like them, and scripts like *)
(* those of tests/, at times that fall between and on the periodic alarms. *)
(***************************************************************************)
EXTENDS Topology, Sequences, TLC

Joins(from, to, delay) == [node1 |-> from, node2 |-> to, delay |-> delay, lossTenths |-> 0]

Line      == <<Joins(1, 2, 10), Joins(2, 3, 20)>>
LossyLine == [i \in 1 .. 2 |-> [Line[i] EXCEPT !.lossTenths = 1]]
Triangle  == Line \o <<Joins(1, 3, 50)>>      \* the links of tests/test3
LossyTriangle == [i \in 1 .. 3 |-> [Triangle[i] EXCEPT !.lossTenths = 1]]

\* A triangle with the default delay, and a direct link that is slower than the way
\* around.
SlowTriangle == <<Joins(1, 2, 100), Joins(2, 3, 100), Joins(1, 3, 300)>>

\* A ring, as in tests/test4, without paths that tie.
Ring == <<Joins(1, 2, 10), Joins(2, 3, 20), Joins(3, 4, 30), Joins(4, 1, 15)>>

\* Round-trip times that fit 16 bits but whose sums do not.
FarTriangle == <<Joins(1, 2, 17000), Joins(2, 3, 17000), Joins(1, 3, 20000)>>

\* Routers 1 and 2 joined twice, as in tests/test6.
TwoLinks == <<Joins(2, 3, 10), Joins(1, 2, 10), Joins(2, 1, 50)>>

-----------------------------------------------------------------------------
At(ms, cmd, from, to) == [time |-> ms, cmd |-> cmd, a |-> from, b |-> to]
Dies(ms, from, to)    == At(ms, "linkdying", from, to)
ComesUp(ms, from, to) == At(ms, "linkcomingup", from, to)
Xmit(ms, from, to)    == At(ms, "xmit", from, to)
ChangesTo(ms, from, to, delay) == At(ms, "changedelay", from, to) @@ [delay |-> delay]

NoScript == {{}}
OnePacket == {{Xmit(10000, 1, 3)}}

Sides == {<<1, 2>>, <<2, 3>>, <<1, 3>>}

\* The [events] section of tests/test3.
Test3 ==
  {Xmit(1000, 1, 3), Dies(50000, 1, 2), Xmit(60000, 1, 3), ComesUp(70000, 1, 2),
   Xmit(80000, 1, 3), ChangesTo(90000, 2, 3, 5), Xmit(100000, 1, 3)}

\* One link fails for good, or comes back before or after it is missed; router 3 is
\* cut off for good or for a while; a delay changes.
Failures ==
  {Test3}
  \cup {{Dies(t, l[1], l[2])} : t \in {3003, 12003, 29990}, l \in Sides}
  \cup {{Dies(12003, l[1], l[2]), ComesUp(t, l[1], l[2])} :
          t \in {20003, 29990, 52003}, l \in Sides}
  \cup {{Dies(12003, 2, 3), Dies(13003, 1, 3)}}
  \cup {{Dies(12003, 2, 3), Dies(13003, 1, 3), ComesUp(t, 2, 3), ComesUp(t + 900, 1, 3)} :
          t \in {20003, 40003}}
  \cup {{ChangesTo(12003, l[1], l[2], d)} : l \in Sides, d \in {5, 65}}

\* Delays that drop or rise just before advertisements are sent, so that a newer one
\* overtakes an older one.
Overtaking ==
  {{ChangesTo(t, l[1], l[2], d)} : t \in {29995, 30005}, l \in Sides, d \in {1, 40}}

\* Link 2-3 gets faster just before router 2 sends the vector of the update at 30 s, which
\* does not say so yet; the one that does overtakes it, as link 1-2 gets faster in between.
OvertakenVectors == {{ChangesTo(29990, 2, 3, 1), ChangesTo(30001, 1, 2, 1)}}

FailuresAndOvertakenVectors == Failures \cup OvertakenVectors

FailuresAndOvertaking == Failures \cup Overtaking

\* Delays that drop, before, while and after advertisements are sent.
GetFaster == {{ChangesTo(t, l[1], l[2], d)} : t \in {12003, 29995, 30005}, l \in Sides, d \in {1, 3}}

\* As in tests/test8: the delay of the direct link drops, and goes up again.
FasterAndBack == {{ChangesTo(3003, 1, 3, 5), ChangesTo(23003, 1, 3, 50)}}

\* One link dies, and only that: on Line router 3 is cut off, on Triangle and Ring nobody is.
OneFailure == {{Dies(12003, 2, 3)}}

\* Nothing; or router 3 is cut off while a delay changes at the other end of Line, before,
\* on the way of the news, or after.
FarDeath == NoScript \cup {{Dies(12003, 2, 3), ChangesTo(t, 1, 2, 15)} : t \in {5003, 25003, 35003}}

\* The second link between routers 1 and 2, which link_table finds for either name, dies.
TwinFailure == {{Dies(12003, 1, 2)}}

\* On Ring: one link dies, then another, which parts routers 1 and 2 from 3 and 4, and
\* both come back, as in tests/test4.
Partition ==
  {{Dies(20000, 2, 3), Dies(40000, 4, 1), ComesUp(t, 2, 3), ComesUp(t + 20000, 4, 1)} :
    t \in {60000, 100000}}

\* While router 3 is cut off, router 1 sends it a packet.
SentWhileCutOff == {{Dies(12003, 2, 3), Xmit(35003, 1, 3), ComesUp(42003, 2, 3)}}

-----------------------------------------------------------------------------
AnyOrder(e) == 0

\* Events at different routers of one millisecond do not affect one another: each
\* handler changes its own router and adds events.  Taking them router by router
\* keeps every order within a router.  Events at links come first.
ByRouter(e) ==
  CASE e.kind = "Alarm"        -> e.router
    [] e.kind = "Recv"         -> e.dest
    [] e.kind = "Xmit"         -> Peer(e.dest, e.link)
    [] e.kind = "XmitEndToEnd" -> e.src
    [] OTHER                   -> 0
=============================================================================
