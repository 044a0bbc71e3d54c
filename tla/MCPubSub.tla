------------------------------- MODULE MCPubSub -------------------------------
(***************************************************************************)
(* Instances of PubSub for TLC: subscribers are named for their type, ids  *)
(* 1 and 2 are public and id 3 is private to every subscriber.             *)
(***************************************************************************)
EXTENDS PubSub

AllTypes ==
    "c1" :> "callback" @@ "c2" :> "callback" @@ "q1" :> "msgq" @@ "q2" :> "msgq"
    @@ "f1" :> "fifo" @@ "f2" :> "fifo"

MCRxType   == [s \in Subs |-> AllTypes[s]]
MCPriority == [s \in Subs |-> IF s \in {"c2", "q2", "f2"} THEN 1 ELSE 0]
MCMaxPubId == [s \in Subs |-> 2]

(* A server thread for each queued subscriber, or one for all of them.     *)
OwnServer    == [s \in Subs |-> IF s \in {"c1", "q1"} THEN "t1" ELSE IF s = "f1" THEN "t2" ELSE "t3"]
SharedServer == [s \in Subs |-> "t1"]

OneOfEach    == <<"c1", "q1", "f1", "f2">>
MsgqAndFifos == <<"q1", "f1", "f2">>
CallbackFirst == <<"c1", "q1", "q2", "f1">>
Subscribed1 == [s \in Subs |-> {1}]
Mixed       == [s \in Subs |-> IF s \in {"c1", "f1"} THEN {1} ELSE {1, 2}]

MsgSymmetry == Permutations(Msgs)
=============================================================================
