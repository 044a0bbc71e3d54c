----------------------------- MODULE MCBrokerWalk -----------------------------
(***************************************************************************)
(* Instance of BrokerWalk, and with it of SubscriberList, for TLC: three   *)
(* callback subscribers, whose handlers change the list under the walk,    *)
(* one msgq and two fifo subscribers.  With two priority values a third    *)
(* callback subscriber goes before, between or behind the other two; the   *)
(* others keep priority 0.                                                 *)
(***************************************************************************)
EXTENDS BrokerWalk

CONSTANTS c1, c2, c3, q1, f1, f2

MCSubs   == {c1, c2, c3, q1, f1, f2}
MCRxType == (c1 :> "callback") @@ (c2 :> "callback") @@ (c3 :> "callback")
            @@ (q1 :> "msgq") @@ (f1 :> "fifo") @@ (f2 :> "fifo")
MCPriorities  == 0..1
MCPrioritized == {c1, c2, c3}

Symmetry == Permutations({c1, c2, c3}) \cup Permutations({f1, f2})
=============================================================================
