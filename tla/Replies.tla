------------------------------- MODULE Replies ------------------------------
(* Requests that wait for a reply on a network connection (network.c): the  *)
(* threads that send them, and the thread of the connection, which takes    *)
(* the replies and, when its loop ends, closes the connection.              *)
(*                                                                          *)
(* An action is what a thread does under one hold of the connection's write *)
(* lock, the connection's lock or the lock of a WaitForReply, or one access *)
(* of it under none.  The list nc->waitforreply is in the flag ONLIST: its  *)
(* order is that of the numbers, latest first, because both are taken under *)
(* the write lock.                                                          *)
EXTENDS Naturals

CONSTANTS
    User,           \* threads that send requests
    Nobody,         \* not a thread
    SeqMod,         \* request numbers have this many values (2^16 in the code)
    MaxSeq,         \* bound: numbers given out
    MayFail,        \* a write may fail
    MayTimeout,     \* a wait may time out
    MayLeave        \* the loop of the connection may end: stopped, or the peer has gone

ASSUME SeqAssumption == SeqMod \in Nat \ {0} /\ MaxSeq \in Nat
ASSUME NobodyAssumption == Nobody \notin User

VARIABLES
    closed,     \* PNCF_CLOSED
    wlock,      \* who holds the connection's write lock
    reqseq,     \* nc->reqseq before it wraps
    asked,      \* external: requests the peer has not answered yet
    pc,         \* where each user is
    num,        \* wfr->req.nr_repseq of the user's latest request
    got,        \* whose reply is in wfr->req: 0 none yet
    flags,      \* wfr->flags
    live,       \* the WaitForReply is allocated
    after,      \* wfr->link as it was when the entry left the list
    res,        \* result of waitForReply, or of the write
    rd,         \* the thread of the connection: where it is, wfr1 and wfr2
    late,       \* history: the request was opened after the close began to walk the list
    undefined   \* memory was used after it was freed

wfr == <<num, got, flags, live, after>>
vars == <<closed, wlock, reqseq, asked, pc, wfr, res, rd, late, undefined>>

Flag == {"WAITING", "CANCELLED", "ONLIST", "RECEIVED"}
Entry == User \X (0..MaxSeq)
NoEntry == <<Nobody, 0>>

Init ==
    /\ closed = FALSE
    /\ wlock = Nobody
    /\ reqseq = 0
    /\ asked = {}
    /\ pc = [u \in User |-> "idle"]
    /\ num = [u \in User |-> 0]
    /\ got = [u \in User |-> 0]
    /\ flags = [u \in User |-> {}]
    /\ live = [u \in User |-> FALSE]
    /\ after = [u \in User |-> NoEntry]
    /\ res = [u \in User |-> "none"]
    /\ rd = [pc |-> "serve", cur |-> NoEntry, next |-> NoEntry]
    /\ late = [u \in User |-> FALSE]
    /\ undefined = FALSE

-----------------------------------------------------------------------------
(* The list, and what a thread does with an entry of it.                    *)

Listed == {u \in User : "ONLIST" \in flags[u]}

\* The entry of the list behind number n.
IsBehind(v, n) ==
    v \in Listed /\ num[v] < n /\ \A w \in Listed : num[w] < n => num[w] <= num[v]
Behind(n) ==
    IF \E v \in User : IsBehind(v, n)
    THEN LET v == CHOOSE v \in User : IsBehind(v, n) IN <<v, num[v]>>
    ELSE NoEntry

\* e is still the entry that it was when the pointer was taken.
Valid(e) == live[e[1]] /\ num[e[1]] = e[2]

\* Only the one who waits would be told, by the signal alone.
UnlinkedMutant(u) ==
    /\ flags' = [flags EXCEPT ![u] = @ \ {"ONLIST"}]
    /\ after' = IF "ONLIST" \in flags[u] THEN [after EXCEPT ![u] = Behind(num[u])] ELSE after
    /\ UNCHANGED <<num, got, live>>

\* closeWaitForReply of u's entry, under the two locks.
Unlinked(u) ==
    /\ flags' = [flags EXCEPT ![u] = (@ \ {"ONLIST"}) \cup {"CANCELLED"}]
    /\ after' = IF "ONLIST" \in flags[u] THEN [after EXCEPT ![u] = Behind(num[u])] ELSE after
    /\ UNCHANGED <<num, got, live>>

\* free of u's entry: it stays where it is listed.
Freed(u) ==
    /\ live' = [live EXCEPT ![u] = FALSE]
    /\ flags' = [flags EXCEPT ![u] = @ \cap {"ONLIST"}]
    /\ after' = [after EXCEPT ![u] = NoEntry]
    /\ UNCHANGED <<num, got>>

\* cancelWaitForReply, which the one who waits calls.
CancelledMutant(u) == Freed(u)
Cancelled(u) ==
    /\ flags' = [flags EXCEPT ![u] = @ \ {"WAITING"}]
    /\ UNCHANGED <<num, got, live, after>>

\* NetConnWriteUnlock, if u holds the lock.
UnlocksMutant(u) == UNCHANGED wlock
Unlocks(u) == wlock' = IF wlock = u THEN Nobody ELSE wlock

\* A thread uses u's entry.
Touch(u) == live[u] /\ UNCHANGED undefined

-----------------------------------------------------------------------------
(* A user's request: writeRequest, then waitForReply and closeWaitForReply  *)
(* by way of simpleWaitForReply or openNetworkChannel.                      *)

\* NetConnWriteLock, nc->reqseq++, openWaitForReply.
Open(u) ==
    /\ pc[u] = "idle" /\ wlock = Nobody /\ reqseq < MaxSeq
    /\ wlock' = u
    /\ reqseq' = reqseq + 1
    /\ num' = [num EXCEPT ![u] = reqseq + 1]
    /\ got' = [got EXCEPT ![u] = 0]
    /\ flags' = [flags EXCEPT ![u] = {"WAITING", "ONLIST"}]
    /\ live' = [live EXCEPT ![u] = TRUE]
    /\ after' = [after EXCEPT ![u] = NoEntry]
    /\ res' = [res EXCEPT ![u] = "none"]
    /\ late' = [late EXCEPT ![u] = rd.pc \notin {"serve", "leave", "first"}]
    /\ pc' = [pc EXCEPT ![u] = "write"]
    /\ UNCHANGED <<closed, asked, rd, undefined>>

\* ncwrite: on a connection that was closed meanwhile it says OK and sends nothing.
Sent(u) == IF closed THEN {} ELSE {num[u]}

Write(u) ==
    /\ pc[u] = "write"
    /\ asked' = asked \cup Sent(u)
    /\ Unlocks(u)
    /\ pc' = [pc EXCEPT ![u] = "wait"]
    /\ UNCHANGED <<closed, reqseq, wfr, res, rd, late, undefined>>

\* The write fails: cancelWaitForReply; closeWaitForReply follows, under the write lock.
Cancel(u) ==
    /\ pc[u] = "write" /\ MayFail /\ ~closed
    /\ Cancelled(u)
    /\ res' = [res EXCEPT ![u] = "failed"]
    /\ pc' = [pc EXCEPT ![u] = "close"]
    /\ UNCHANGED <<closed, wlock, reqseq, asked, rd, late, undefined>>

\* An event or a reply to the peer takes a number as well.
WriteOther ==
    /\ wlock = Nobody /\ reqseq < MaxSeq
    /\ reqseq' = reqseq + 1
    /\ UNCHANGED <<closed, wlock, asked, pc, wfr, res, rd, late, undefined>>

\* waitForReply, in the order of its tests.
Wait(u) ==
    /\ pc[u] = "wait"
    /\ Touch(u)
    /\ \/ /\ "RECEIVED" \in flags[u]
          /\ res' = [res EXCEPT ![u] = "answered"]
          /\ pc' = [pc EXCEPT ![u] = "read"]
       \/ /\ "RECEIVED" \notin flags[u]
          /\ "CANCELLED" \in flags[u] \/ MayTimeout
          /\ res' = [res EXCEPT ![u] = "failed"]
          /\ pc' = [pc EXCEPT ![u] = "close"]
    /\ flags' = [flags EXCEPT ![u] = @ \ {"WAITING"}]
    /\ UNCHANGED <<closed, wlock, reqseq, asked, num, got, live, after, rd, late>>

\* The reply is parsed where it lies.
Read(u) ==
    /\ pc[u] = "read"
    /\ Touch(u)
    /\ pc' = [pc EXCEPT ![u] = "close"]
    /\ UNCHANGED <<closed, wlock, reqseq, asked, wfr, res, rd, late>>

Close(u) ==
    /\ pc[u] = "close"
    /\ Touch(u)
    /\ Unlinked(u)
    /\ pc' = [pc EXCEPT ![u] = "free"]
    /\ UNCHANGED <<closed, wlock, reqseq, asked, res, rd, late>>

Free(u) ==
    /\ pc[u] = "free"
    /\ Touch(u)
    /\ Freed(u)
    /\ pc' = [pc EXCEPT ![u] = "idle"]
    /\ Unlocks(u)
    /\ res' = [res EXCEPT ![u] = "none"]
    /\ late' = [late EXCEPT ![u] = FALSE]
    /\ UNCHANGED <<closed, reqseq, asked, rd>>

-----------------------------------------------------------------------------
(* The thread of the connection.                                            *)

Same(n, k) == n % SeqMod = k % SeqMod

\* handleReply takes the first entry of the list with the number of the reply.
Matches(u, k) ==
    /\ u \in Listed /\ Same(num[u], k)
    /\ \A v \in Listed : Same(num[v], k) => num[v] <= num[u]

\* handleWaitForReply.
AcceptsMutant(u) == "CANCELLED" \notin flags[u]
Accepts(u) == "WAITING" \in flags[u] /\ "CANCELLED" \notin flags[u]

HandleReply(k) ==
    /\ rd.pc = "serve"
    /\ asked' = asked \ {k}
    /\ \/ \E u \in User :
            /\ Matches(u, k) /\ Accepts(u)
            /\ flags' = [flags EXCEPT ![u] = @ \cup {"RECEIVED"}]
            /\ got' = [got EXCEPT ![u] = k]
            /\ UNCHANGED rd
       \* The one who waited for it is about to leave: handleNetworkRequest fails.
       \/ /\ \E u \in User : Matches(u, k) /\ ~Accepts(u)
          /\ rd' = [rd EXCEPT !.pc = "leave"]
          /\ UNCHANGED <<flags, got>>
       \/ /\ ~\E u \in User : Matches(u, k)
          /\ UNCHANGED <<flags, got, rd>>
    /\ UNCHANGED <<closed, wlock, reqseq, pc, num, live, after, res, late, undefined>>

\* The loop ends: PNCF_STOP, an error condition, or an error of the socket.
Leave ==
    /\ rd.pc = "serve" /\ MayLeave
    /\ rd' = [rd EXCEPT !.pc = "leave"]
    /\ UNCHANGED <<closed, wlock, reqseq, asked, pc, wfr, res, late, undefined>>

\* PhidgetNetConnClose sets PNCF_CLOSED under the write lock.
SetClosed ==
    /\ rd.pc = "leave" /\ wlock = Nobody
    /\ closed' = TRUE
    /\ rd' = [rd EXCEPT !.pc = "first"]
    /\ UNCHANGED <<wlock, reqseq, asked, pc, wfr, res, late, undefined>>

\* wfr1 = e, or the walk is over.
At(e) == [pc |-> IF e = NoEntry THEN "closed" ELSE "next", cur |-> e, next |-> NoEntry]

\* MTAILQ_FIRST: the latest number.
First ==
    /\ rd.pc = "first"
    /\ rd' = At(Behind(reqseq + 1))
    /\ UNCHANGED <<closed, wlock, reqseq, asked, pc, wfr, res, late, undefined>>

\* MTAILQ_NEXT, under no lock.
WalkNext ==
    /\ rd.pc = "next" /\ Valid(rd.cur)
    /\ LET u == rd.cur[1] IN
       rd' = [rd EXCEPT !.pc = "close", !.next = IF u \in Listed THEN Behind(num[u]) ELSE after[u]]
    /\ UNCHANGED <<closed, wlock, reqseq, asked, pc, wfr, res, late, undefined>>

\* closeWaitForReply: an entry that is waited for is left to the one who waits.
WalkClose ==
    /\ rd.pc = "close" /\ Valid(rd.cur)
    /\ LET u == rd.cur[1] IN
       /\ Unlinked(u)
       /\ rd' = IF "WAITING" \in flags[u] THEN At(rd.next) ELSE [rd EXCEPT !.pc = "free"]
    /\ UNCHANGED <<closed, wlock, reqseq, asked, pc, res, late, undefined>>

WalkFree ==
    /\ rd.pc = "free" /\ Valid(rd.cur)
    /\ Freed(rd.cur[1])
    /\ rd' = At(rd.next)
    /\ UNCHANGED <<closed, wlock, reqseq, asked, pc, res, late, undefined>>

\* A thread uses an entry that was freed: anything may happen, and nothing is
\* said of it.
Stray ==
    /\ \/ \E u \in User : pc[u] \in {"wait", "read", "close", "free"} /\ ~live[u]
       \/ rd.pc \in {"next", "close", "free"} /\ ~Valid(rd.cur)
    /\ undefined' = TRUE
    /\ UNCHANGED <<closed, wlock, reqseq, asked, pc, wfr, res, rd, late>>

-----------------------------------------------------------------------------

Step(u) == Open(u) \/ Write(u) \/ Cancel(u) \/ Wait(u) \/ Read(u) \/ Close(u) \/ Free(u)
Walk == SetClosed \/ First \/ WalkNext \/ WalkClose \/ WalkFree

Next ==
    /\ ~undefined
    /\ \/ \E u \in User : Step(u)
       \/ WriteOther
       \/ \E k \in asked : HandleReply(k)
       \/ Leave
       \/ Walk
       \/ Stray

Spec == Init /\ [][Next]_vars

\* Threads run, and so does the close.  Neither need the peer answer nor a wait
\* time out: waits are long.
Woken(u) == flags[u] \cap {"RECEIVED", "CANCELLED"} # {}
FairSpec ==
    /\ Spec
    /\ \A u \in User :
         WF_vars(~undefined /\ (Write(u) \/ (Woken(u) /\ Wait(u)) \/ Read(u) \/ Close(u) \/ Free(u)))
    /\ WF_vars(~undefined /\ (Walk \/ Stray))

-----------------------------------------------------------------------------
(* Properties.                                                              *)

\* Every variable has its type, and who holds the write lock is in writeRequest:
\* nobody takes it along into the wait for the reply.
TypeOK ==
    /\ closed \in BOOLEAN /\ undefined \in BOOLEAN
    /\ wlock \in User \cup {Nobody}
    /\ \A u \in User : wlock = u => pc[u] \in {"write", "close", "free"}
    /\ reqseq \in 0..MaxSeq
    /\ asked \subseteq 1..MaxSeq
    /\ pc \in [User -> {"idle", "write", "wait", "read", "close", "free"}]
    /\ num \in [User -> 0..MaxSeq]
    /\ got \in [User -> 0..MaxSeq]
    /\ flags \in [User -> SUBSET Flag]
    /\ live \in [User -> BOOLEAN]
    /\ after \in [User -> Entry \cup {NoEntry}]
    /\ res \in [User -> {"none", "answered", "failed"}]
    /\ rd \in [pc : {"serve", "leave", "first", "next", "close", "free", "closed"},
               cur : Entry \cup {NoEntry}, next : Entry \cup {NoEntry}]
    /\ late \in [User -> BOOLEAN]

\* What handleReply finds on the list is allocated: an entry leaves the list,
\* under the connection's lock, before it is freed, whoever frees it.
ListedIsLive == \A u \in Listed : live[u]

\* A WaitForReply is used after it was freed only by, or because of, the walk of
\* PhidgetNetConnClose over the list: replies, timeouts and failing writes never
\* free an entry twice or too early.
StrayOnlyInClose == undefined => rd.pc \notin {"serve", "leave", "first"}

\* When the connection's loop ends, whoever waits for a reply is soon done with
\* waiting, though no timeout comes: the close wakes it.  One who opens its request
\* while the close walks the list is not woken.
CloseWakes ==
    \A u \in User :
        rd.pc = "leave" /\ pc[u] = "wait" ~> pc[u] # "wait" \/ late[u] \/ undefined

\* The close comes to its end: no writer keeps the lock from it, and the list it
\* walks ends.
CloseEnds == rd.pc = "leave" ~> rd.pc = "closed" \/ undefined

\* The requests keep the promise of ReplyPromise.
Stage(u) ==
    CASE pc[u] = "idle" -> "idle"
      [] pc[u] = "write" -> "asking"
      [] pc[u] = "wait" -> "waiting"
      [] OTHER -> res[u]

Promise == INSTANCE ReplyPromise WITH
    stage <- [u \in User |-> Stage(u)], number <- num, reply <- got

KeepsPromise == Promise!Spec

=============================================================================
