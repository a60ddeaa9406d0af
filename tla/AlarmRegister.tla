---------------------------- MODULE AlarmRegister ----------------------------
(***************************************************************************)
(* What the alarm configuration of a cluster promises: one register per    *)
(* consumer group and topic, changed only by the requests of its users,    *)
(* each of them in one step between the request and its answer.            *)
(***************************************************************************)
CONSTANTS Users, Keys, Configs, NoConfig, NoRequest

VARIABLES config, request

vars == <<config, request>>

Request == [op : {"add"}, key : Keys, value : Configs]
           \cup [op : {"remove"}, key : Keys]

Init ==
  /\ config = [k \in Keys |-> NoConfig]
  /\ request = [u \in Users |-> NoRequest]

Ask(u, r) ==
  /\ request[u] = NoRequest
  /\ request' = [request EXCEPT ![u] = r]
  /\ UNCHANGED config

\* An operation whose answer is lost is sent again: a request may be applied
\* more than once before it is answered.
Apply(u) ==
  /\ request[u] # NoRequest
  /\ config' = [config EXCEPT ![request[u].key] =
                  IF request[u].op = "add" THEN request[u].value ELSE NoConfig]
  /\ UNCHANGED request

\* Requests end, applied or not: one is answered, or the process crashes.
End(U) ==
  /\ request' = [u \in Users |-> IF u \in U THEN NoRequest ELSE request[u]]
  /\ UNCHANGED config

Next ==
  \/ \E u \in Users : Apply(u) \/ (\E r \in Request : Ask(u, r))
  \/ \E U \in SUBSET Users : End(U)

Spec == Init /\ [][Next]_vars

=============================================================================
