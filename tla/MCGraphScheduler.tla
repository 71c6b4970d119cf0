--------------------------- MODULE MCGraphScheduler ---------------------------
(* Model values for the runs of GraphScheduler. *)
EXTENDS GraphScheduler

CONSTANTS c1, c2, t

OneClient == {c1, t}
TwoClients == {c1, c2, t}

\* The clients of a graph that make n calls, any call at all or these only.
Start(clients, n, kinds) == [users |-> clients, calls |-> n, may |-> [c \in Clients |-> kinds]]
Any == APICalls \cup {"release"}

OneByThree == {Start({c1}, 3, Any)}
OneByFour == {Start({c1}, 4, {"verify", "schedule", "wait"})}

\* One client schedules and waits, the other only waits.
TwoWaiters ==
    [Start({c1, c2}, 3, {"wait"}) EXCEPT !.may[c1] = {"schedule", "wait"}]
Windows == OneByThree \cup {Start({c1, c2}, 2, Any), TwoWaiters}
==============================================================================
