---------------------------- MODULE EventDelivery ----------------------------
(***************************************************************************)
(* What the node's callbacks rely on: every event a monitor watches for is *)
(* handed over, in the order of the chain, and none is left out.  An event *)
(* is identified with its place, a block and an index in it.  It may be    *)
(* handed over more than once, which is no step here.                      *)
(***************************************************************************)
EXTENDS Integers

CONSTANT Monitors

VARIABLES
    emitted,    \* the events each monitor watches for
    delivered   \* those it has handed over

vars == <<emitted, delivered>>

IsAfter(pos, last) == pos.block > last.block \/ (pos.block = last.block /\ pos.idx > last.idx)

Init ==
    /\ emitted = [m \in Monitors |-> {}]
    /\ delivered = [m \in Monitors |-> {}]

\* The chain settles on further events.
Emit ==
    /\ DOMAIN emitted' = Monitors
    /\ \A m \in Monitors :
          /\ emitted[m] \subseteq emitted'[m]
          /\ \A new \in emitted'[m] \ emitted[m], old \in emitted[m] : IsAfter(new, old)
    /\ UNCHANGED delivered

\* The first event that has not been handed over is.
Deliver(m) ==
    /\ \E pos \in emitted[m] \ delivered[m] :
          /\ \A other \in emitted[m] : IsAfter(pos, other) => other \in delivered[m]
          /\ delivered' = [delivered EXCEPT ![m] = @ \union {pos}]
    /\ UNCHANGED emitted

Next == Emit \/ \E m \in Monitors : Deliver(m)

Spec == Init /\ [][Next]_vars
=============================================================================
