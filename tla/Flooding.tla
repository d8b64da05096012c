------------------------------ MODULE Flooding ------------------------------
(***************************************************************************)
(* What flooding promises the link-state routers, without packets, ports   *)
(* or timers: every router numbers its advertisements from 0, and hears of *)
(* the others' in increasing order, skipping some, never one that has not  *)
(* been issued.  LSNetwork implements this.                                *)
(***************************************************************************)
EXTENDS Integers

CONSTANT Router

VARIABLES issued,   \* how many advertisements each router has issued
          heard     \* the number of the last one each router accepted from each
                    \* origin, Nothing if there is none

Nothing == -1

Init == /\ issued = [o \in Router |-> 0]
        /\ heard = [r \in Router |-> [o \in Router |-> Nothing]]

Issue(o) == /\ issued' = [issued EXCEPT ![o] = @ + 1]
            /\ UNCHANGED heard

Hear(r, o) ==
  /\ \E n \in heard[r][o] + 1 .. issued[o] - 1 :
       heard' = [heard EXCEPT ![r][o] = n]
  /\ UNCHANGED issued

Next == \E r, o \in Router : Issue(o) \/ Hear(r, o)

Spec == Init /\ [][Next]_<<issued, heard>>
=============================================================================
