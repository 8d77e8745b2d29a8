---------------------------- MODULE ReplyPromise ----------------------------
(* What a connection promises the threads that send requests over it: a     *)
(* request that was sent is answered by at most one reply of the peer, one  *)
(* that carries its number, or fails; no reply is given to two requests;    *)
(* and once answered it does not fail.  Numbers are taken from a counter    *)
(* and compared modulo SeqMod, which is all the protocol can promise.       *)
EXTENDS Naturals

CONSTANTS
    User,       \* threads that send requests
    SeqMod      \* request numbers repeat after this many

VARIABLES
    stage,      \* stage of each user's request
    number,     \* the number it was given
    reply,      \* the reply it has, 0 when none
    asked       \* numbers of the requests the peer has not answered yet

vars == <<stage, number, reply, asked>>

Init ==
    /\ stage = [u \in User |-> "idle"]
    /\ number = [u \in User |-> 0]
    /\ reply = [u \in User |-> 0]
    /\ asked = {}

Same(n, k) == n % SeqMod = k % SeqMod

\* A thread takes a number that is larger than every number before.
Ask(u) ==
    /\ stage[u] = "idle"
    /\ \A v \in User : number'[u] > number[v]
    /\ \A k \in asked : number'[u] > k
    /\ number' = [number EXCEPT ![u] = number'[u]]
    /\ stage' = [stage EXCEPT ![u] = "asking"]
    /\ reply' = [reply EXCEPT ![u] = 0]
    /\ UNCHANGED asked

\* The request is on the wire, or the connection is gone.
Sent(u) ==
    /\ stage[u] = "asking"
    /\ stage' = [stage EXCEPT ![u] = "waiting"]
    /\ asked' \in {asked, asked \cup {number[u]}}
    /\ UNCHANGED <<number, reply>>

\* A reply of the peer reaches the thread that waits for that number.
Deliver(u, k) ==
    /\ stage[u] \in {"asking", "waiting"}
    /\ k \in asked
    /\ Same(number[u], k)
    /\ asked' = asked \ {k}
    /\ reply' = [reply EXCEPT ![u] = k]
    /\ UNCHANGED <<stage, number>>

\* Nobody waits for that number.
Ignore(k) ==
    /\ k \in asked
    /\ asked' = asked \ {k}
    /\ UNCHANGED <<stage, number, reply>>

Answered(u) ==
    /\ stage[u] = "waiting"
    /\ reply[u] # 0
    /\ stage' = [stage EXCEPT ![u] = "answered"]
    /\ UNCHANGED <<number, reply, asked>>

\* A request fails when it cannot be sent, or has no reply.
Failed(u) ==
    /\ \/ stage[u] = "asking"
       \/ stage[u] = "waiting" /\ reply[u] = 0
    /\ stage' = [stage EXCEPT ![u] = "failed"]
    /\ UNCHANGED <<number, reply, asked>>

Return(u) ==
    /\ stage[u] \in {"answered", "failed"}
    /\ stage' = [stage EXCEPT ![u] = "idle"]
    /\ UNCHANGED <<number, reply, asked>>

Next ==
    \/ \E u \in User : Ask(u) \/ Sent(u) \/ Answered(u) \/ Failed(u) \/ Return(u)
    \/ \E u \in User, k \in asked : Deliver(u, k)
    \/ \E k \in asked : Ignore(k)

Spec == Init /\ [][Next]_vars

=============================================================================
