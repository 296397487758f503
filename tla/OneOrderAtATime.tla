---------------------------- MODULE OneOrderAtATime ----------------------------
(***************************************************************************)
(* What the order path promises to the account, and nothing else: each     *)
(* order is sent at most once (docs/PHASE-2.5-ORDER-DISPATCH.md:52), and   *)
(* none while another one may still trade (the account-wide barrier).      *)
(* OrderIntents implements it with the rows of the intents, Dispatch with  *)
(* the requests on the wire and the orders at the broker.                  *)
(***************************************************************************)
CONSTANT Orders

VARIABLES
    sent,      \* orders ever sent
    working    \* those that may still trade

TypeOK == sent \subseteq Orders /\ working \subseteq sent

Init == sent = {} /\ working = {}

Send(o) ==
    /\ o \notin sent
    /\ working = {}
    /\ sent' = sent \cup {o}
    /\ working' = {o}

End(o) ==
    /\ o \in working
    /\ working' = working \ {o}
    /\ UNCHANGED sent

Next == \E o \in Orders : Send(o) \/ End(o)

Spec == Init /\ [][Next]_<<sent, working>>
=============================================================================
