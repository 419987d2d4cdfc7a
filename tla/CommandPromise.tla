---- MODULE CommandPromise ----
(***************************************************************************)
(* What sendCommand of src/src/api/services/websocket.ts promises to its   *)
(* caller, whatever happens to the agent: a promise that settles once.     *)
(***************************************************************************)
CONSTANT Commands

VARIABLE promise

States == {"unsent", "pending", "fulfilled", "rejected", "abandoned"}

TypeOK == promise \in [Commands -> States]

Init == promise = [c \in Commands |-> "unsent"]

Become(c, from, to) ==
    /\ promise[c] = from
    /\ promise' = [promise EXCEPT ![c] = to]

Send(c) == Become(c, "unsent", "pending")
Refuse(c) == Become(c, "unsent", "rejected")
Fulfil(c) == Become(c, "pending", "fulfilled")
Reject(c) == Become(c, "pending", "rejected")

\* The process that holds the promises ends.
Abandon ==
    promise' = [c \in Commands |-> IF promise[c] = "pending" THEN "abandoned" ELSE promise[c]]

Next ==
    \/ \E c \in Commands : Send(c) \/ Refuse(c) \/ Fulfil(c) \/ Reject(c)
    \/ Abandon

Spec == Init /\ [][Next]_promise

Settle(c) == Fulfil(c) \/ Reject(c)

FairSpec == Spec /\ \A c \in Commands : WF_promise(Settle(c))
====
