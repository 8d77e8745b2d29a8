------------------------------ MODULE Dispatch ------------------------------
(***************************************************************************)
(* The dispatcher of libphidget22 (dispatch.c): every event on its way to  *)
(* a user's callback and every command on its way to a device goes through *)
(* a queue of dispatch entries, drained by a pool of dispatcher threads.   *)
(*                                                                         *)
(* A channel has an outbound queue (events) and an inbound queue           *)
(* (commands).  A channel with work is put on a global list, once: the     *)
(* flags DISPATCHOUT and DISPATCHIN say that it is on a list, or about to  *)
(* be, or being drained by a dispatcher.                                   *)
(*                                                                         *)
(* Threads.  Dispatchers run PhidgetDispatcher.  Users issue requests and  *)
(* close and open channels.  Sources are device readers that deliver       *)
(* bridge packets.  Central is the thread that attaches channels to        *)
(* devices and detaches them.  An action is one critical section of the    *)
(* code; what a thread keeps between two of them is in its record th[t].   *)
(***************************************************************************)
EXTENDS Integers, Sequences, SequencesExt, FiniteSets

CONSTANTS
    Channel,        \* channels (PhidgetChannelHandle)
    NetChannel,     \* the channels that attach over the network
    ServedChannel,  \* the channels a network client opened (OPENBYNETCLIENT);
                    \* a server offers local devices only
    Entry,          \* DISPATCHENTRY_MAX entries
    Dispatcher,     \* DISPATCHERS_MAX dispatcher threads
    User,           \* threads of the program that uses the library
    Source,         \* threads that deliver packets of devices and servers
    Central,        \* the thread that attaches and detaches
    NoEntry, NoChannel, NoThread,
    InMax,          \* DISPATCHENTRY_PHID_IMAX
    OutSoftMax,     \* DISPATCHENTRY_PHID_OSOFTMAX
    OutHardMax,     \* DISPATCHENTRY_PHID_OHARDMAX
    DesiredIdle,    \* DISPATCHERS_DESIRED
    Requests,       \* kinds of user request: {"sync"}, {"async"} or both
    Traffic,        \* types of entry the sources deliver
    NestedIn,       \* types whose callback issues a request of its own
    MayClose,       \* users close and open channels
    MayFail,        \* an attach can fail
    MayDetach,      \* devices detach
    MayTimeout,     \* a synchronous request can time out
    MaxOps,         \* bound: operations of each user and source
    MaxAttach       \* bound: attaches of each channel

Thread == Dispatcher \cup User \cup Source \cup {Central}

OutTypes == {"CHANNEL_ATTACH", "CHANNEL_DETACH", "CHANNEL_SETSTATUS",
             "CHANNEL_INITEVENTS", "USERREQCALLBACK", "CHANNEL_BRIDGEPKT",
             "CLIENTBRIDGEPACKET"}
InTypes == {"USERREQ", "SERVERBRIDGEPACKET"}
EntryType == OutTypes \cup InTypes

ASSUME ConstantsAssumption ==
    /\ NetChannel \subseteq Channel
    /\ ServedChannel \subseteq Channel \ NetChannel
    /\ NoEntry \notin Entry
    /\ NoChannel \notin Channel
    /\ NoThread \notin Thread
    /\ Dispatcher \cap (User \cup Source \cup {Central}) = {}
    /\ User \cap (Source \cup {Central}) = {}
    /\ Central \notin Source
    /\ IsFiniteSet(Dispatcher) /\ IsFiniteSet(Entry)
    /\ {InMax, OutSoftMax, OutHardMax, DesiredIdle, MaxOps, MaxAttach} \subseteq Nat
    /\ Requests \subseteq {"sync", "async"}
    /\ Traffic \subseteq {"CHANNEL_BRIDGEPKT", "CLIENTBRIDGEPACKET", "SERVERBRIDGEPACKET"}
    /\ NestedIn \subseteq OutTypes
    /\ {MayClose, MayFail, MayDetach, MayTimeout} \subseteq BOOLEAN

VARIABLES
    flags,      \* flags[p]: the flags of channel p that matter here
    slot,       \* slot[p]: "held" when p has a parent whose channel[] holds it,
                \* "parent" when it has one that does not, or "none"
    outq, inq,  \* outq[p], inq[p]: the two queues of p
    outList,    \* dispatchOutList: channels with outbound work
    inList,     \* dispatchInList: channels with inbound work
    dlock,      \* holder of dispatchLock while it scans dispatchOutList
    de,         \* de[e]: the contents of entry e
    free,       \* entries on dispatchEntryList, or not allocated
    th,         \* th[t]: where thread t is, and its locals
    left,       \* operations left to users and sources (bound)
    attaches,   \* attaches left to each channel (bound)
    view,       \* view[p]: what the user's callbacks have been told of p
    owed        \* owed[p]: asynchronous requests accepted whose callback was
                \* not called yet (history)

queues == <<flags, outq, inq, outList, inList, de, free>>
bounds == <<left, attaches>>
history == <<view, owed>>
vars == <<queues, slot, dlock, th, bounds, history>>

-----------------------------------------------------------------------------
(* Entries and threads.  An operator whose name ends in Mutant is a variant *)
(* with a plausible error, which the properties must tell from the operator *)
(* after it.                                                               *)

\* Events after DE_NOT_DETACHING are refused by a channel that detaches
NotDetaching == {"USERREQCALLBACK", "CHANNEL_BRIDGEPKT", "CLIENTBRIDGEPACKET",
                 "SERVERBRIDGEPACKET"}

\* Events after DE_THROW_AWAY are refused at the soft limit
ThrowAway == NotDetaching \ {"USERREQCALLBACK"}

\* An entry that has been cleaned
Nothing == [type |-> "NOTHING", inbound |-> FALSE, cb |-> FALSE,
            waiting |-> FALSE, noreturn |-> FALSE]

\* An entry that its thread has filled in and is about to insert
Filled(job) ==
    [type |-> job.type, inbound |-> job.type \in InTypes, cb |-> job.cb,
     waiting |-> TRUE, noreturn |-> job.type = "USERREQ" /\ ~job.cb]

\* What a thread has to insert: the type of the entry, and whether it
\* carries a user's callback
Job(ty, async) == [type |-> ty, cb |-> async]
SyncRequest == Job("USERREQ", FALSE)

StartJobsMutant == <<Job("CHANNEL_SETSTATUS", FALSE), Job("CHANNEL_INITEVENTS", FALSE),
                     Job("CHANNEL_ATTACH", FALSE)>>

\* What startDispatch queues for a channel
StartJobs == <<Job("CHANNEL_ATTACH", FALSE), Job("CHANNEL_SETSTATUS", FALSE),
               Job("CHANNEL_INITEVENTS", FALSE)>>

\* Between two operations: no job, no entry
Idle(where) == [pc |-> where, ph |-> NoChannel, req |-> NoEntry, todo |-> <<>>,
                cont |-> where, rc |-> "OK", out |-> TRUE, cur |-> NoEntry,
                returnde |-> TRUE, at |-> 0]

Init ==
    /\ flags = [p \in Channel |-> {"OPEN"}]
    /\ slot = [p \in Channel |-> "none"]
    /\ outq = [p \in Channel |-> <<>>]
    /\ inq = [p \in Channel |-> <<>>]
    /\ outList = <<>>
    /\ inList = <<>>
    /\ dlock = NoThread
    /\ de = [e \in Entry |-> Nothing]
    /\ free = Entry
    /\ th = [t \in Thread |-> IF t \in Dispatcher THEN Idle("none") ELSE Idle("idle")]
    /\ left = [t \in User \cup Source |-> MaxOps]
    /\ attaches = [p \in Channel |-> MaxAttach]
    /\ view = [p \in Channel |-> "detached"]
    /\ owed = [p \in Channel |-> 0]

At(t, where) == th[t].pc = where
Goto(t, where) == th' = [th EXCEPT ![t].pc = where]

\* Thread t starts to run jobs on channel p, and then goes to cont
Starts(t, p, jobs, first, cont) ==
    th' = [th EXCEPT ![t].pc = first, ![t].ph = p, ![t].todo = jobs, ![t].cont = cont]

Has(p, fs) == flags[p] \cap fs # {}

\* returnDispatchEntry: the entry is cleaned and goes back to the pool
Returned(e) ==
    /\ de' = [de EXCEPT ![e] = Nothing]
    /\ free' = free \cup {e}

TakeFirstMutant(p) == UNCHANGED outq

\* The first entry of the outbound queue of p is taken off it
TakeFirst(p) == outq' = [outq EXCEPT ![p] = Tail(@)]

-----------------------------------------------------------------------------
(* Idle dispatchers and the condition variable dispatchCond *)

\* The dispatchers that exist, and those of them that are busy
Dispatchers == {d \in Dispatcher : ~At(d, "none")}
NotBusy == {d \in Dispatcher : th[d].pc \in {"loop", "wait", "scan"}}
Waiting(h) == {d \in Dispatcher : h[d].pc = "wait"}

SignalMutant(h) == th' = h

\* mos_cond_signal(&dispatchCond) on threads h: some waiter of it wakes up
Signal(h) ==
    IF Waiting(h) = {}
    THEN th' = h
    ELSE \E d \in Waiting(h) : th' = [h EXCEPT ![d].pc = "loop"]

\* dispatchTaskNeeded with initialized set: not too many idle dispatchers
TaskNeeded == Cardinality(NotBusy) <= DesiredIdle

-----------------------------------------------------------------------------
(* Inserting an entry: getDispatchEntry and insertDispatchEntry            *)

Job1(t) == Head(th[t].todo)

\* The job is done with result r: the next one, or back to the caller
JobDone(t, r) ==
    IF Len(th[t].todo) = 1 /\ th[t].cont = "idle"
    THEN [th EXCEPT ![t] = Idle("idle")]
    ELSE [th EXCEPT ![t].pc = IF Len(th[t].todo) > 1 THEN "get" ELSE th[t].cont,
                    ![t].todo = Tail(th[t].todo), ![t].req = NoEntry, ![t].rc = r]

\* getDispatchEntry: an entry of the pool is filled in by the caller
GetEntry(t) ==
    /\ At(t, "get")
    /\ dlock = NoThread
    /\ \E e \in free :
        /\ free' = free \ {e}
        /\ de' = [de EXCEPT ![e] = Filled(Job1(t))]
        /\ th' = [th EXCEPT ![t].pc = "insert", ![t].req = e]
    /\ UNCHANGED <<flags, slot, outq, inq, outList, inList, dlock, bounds, history>>

\* No entry is left: the caller gets EPHIDGET_AGAIN
GetEntryFails(t) ==
    /\ At(t, "get")
    /\ dlock = NoThread
    /\ free = {}
    /\ th' = JobDone(t, "AGAIN")
    /\ UNCHANGED <<queues, slot, dlock, bounds, history>>

Refused(p, ty) ==
    ty \in NotDetaching /\ (Has(p, {"DETACHING"}) \/ ~Has(p, {"ATTACHED", "ATTACHING"}))

Count(t) == LET p == th[t].ph IN
            IF de[th[t].req].inbound THEN Len(inq[p]) ELSE Len(outq[p])
Soft(t) == IF de[th[t].req].inbound THEN InMax ELSE OutSoftMax
Hard(t) == IF de[th[t].req].inbound THEN InMax ELSE OutHardMax

\* The channel is not attached, or detaches: the entry is dropped, but only
\* after clearPhidgetDispatchOut
InsertRefused(t) ==
    /\ At(t, "insert")
    /\ Refused(th[t].ph, de[th[t].req].type)
    /\ th' = [th EXCEPT ![t].pc = "purge", ![t].rc = "NOTATTACHED"]
    /\ UNCHANGED <<queues, slot, dlock, bounds, history>>

\* The queue is at a limit: the entry is dropped
InsertNoSpace(t) ==
    LET ty == de[th[t].req].type IN
    /\ At(t, "insert")
    /\ ~Refused(th[t].ph, ty)
    /\ \/ ty \in ThrowAway /\ Count(t) >= Soft(t)
       \/ Count(t) > Hard(t)
    /\ th' = [th EXCEPT ![t].pc = "drop", ![t].rc = "NOSPC"]
    /\ UNCHANGED <<queues, slot, dlock, bounds, history>>

\* The entry goes to the end of its queue
InsertAppend(t) ==
    LET p == th[t].ph
        e == th[t].req
        ty == de[e].type
    IN
    /\ At(t, "insert")
    /\ ~Refused(p, ty)
    /\ ~(ty \in ThrowAway /\ Count(t) >= Soft(t))
    /\ ~(Count(t) > Hard(t))
    /\ IF de[e].inbound
       THEN inq' = [inq EXCEPT ![p] = Append(@, e)] /\ UNCHANGED outq
       ELSE outq' = [outq EXCEPT ![p] = Append(@, e)] /\ UNCHANGED inq
    /\ owed' = [owed EXCEPT ![p] = IF ty = "USERREQ" /\ de[e].cb THEN @ + 1 ELSE @]
    /\ Goto(t, "mark")
    /\ UNCHANGED <<flags, slot, outList, inList, dlock, de, free, bounds, view>>

\* The entry that was not inserted is in the pool already
DroppedMutant(t) == FALSE
Dropped(t) == th[t].req = NoEntry

\* clearPhidgetDispatchOut, one round of its loop; then the entry is dropped,
\* if it was not dropped before
Purge(t) ==
    LET p == th[t].ph IN
    /\ At(t, "purge")
    /\ IF outq[p] = <<>>
       THEN /\ IF Dropped(t) THEN th' = JobDone(t, th[t].rc) ELSE Goto(t, "drop")
            /\ UNCHANGED <<outq, de, free>>
       ELSE /\ TakeFirst(p)
            /\ Returned(Head(outq[p]))
            /\ UNCHANGED th
    /\ UNCHANGED <<flags, slot, inq, outList, inList, dlock, bounds, history>>

\* The entry that could not be inserted is returned.  A server that falls
\* behind then throws away all that is queued for its clients.
Drop(t) ==
    /\ At(t, "drop")
    /\ Returned(th[t].req)
    /\ IF /\ th[t].rc = "NOSPC"
          /\ de[th[t].req].type \in ThrowAway
          /\ th[t].ph \in ServedChannel
       THEN th' = [th EXCEPT ![t].pc = "purge", ![t].req = NoEntry]
       ELSE th' = JobDone(t, th[t].rc)
    /\ UNCHANGED <<flags, slot, outq, inq, outList, inList, dlock, bounds, history>>

\* PhidgetCKandSetFlags tells who set the flag
FirstToSetMutant(p, f) == TRUE
FirstToSet(p, f) == ~Has(p, {f})

\* The direction is read from the entry once more.  By now a dispatcher may
\* have handled it and returned it, and it then reads as outbound, or as
\* whatever its next user made of it.
Mark(t) ==
    LET p == th[t].ph
        f == IF de[th[t].req].inbound THEN "DISPATCHIN" ELSE "DISPATCHOUT"
    IN
    /\ At(t, "mark")
    /\ flags' = [flags EXCEPT ![p] = @ \cup {f}]
    /\ Goto(t, IF ~FirstToSet(p, f) THEN "signal"
               ELSE IF f = "DISPATCHIN" THEN "listin" ELSE "listout")
    /\ UNCHANGED <<slot, outq, inq, outList, inList, dlock, de, free, bounds, history>>

\* This thread set the flag: it puts the channel on the list
PutOnOutList(t) ==
    /\ At(t, "listout")
    /\ dlock = NoThread
    /\ outList' = Append(outList, th[t].ph)
    /\ Goto(t, "signal")
    /\ UNCHANGED <<flags, slot, outq, inq, inList, dlock, de, free, bounds, history>>

PutOnInList(t) ==
    /\ At(t, "listin")
    /\ dlock = NoThread
    /\ inList' = Append(inList, th[t].ph)
    /\ Goto(t, "signal")
    /\ UNCHANGED <<flags, slot, outq, inq, outList, dlock, de, free, bounds, history>>

\* entryDispatched: a dispatcher is created when none is idle, and one that
\* waits is woken.  A synchronous request then waits for its answer.
EntryDispatched(t) ==
    LET sync == Job1(t) = SyncRequest
        next == IF sync THEN [th EXCEPT ![t].pc = "answer"] ELSE JobDone(t, "OK")
    IN
    /\ At(t, "signal")
    /\ dlock = NoThread
    /\ IF NotBusy = {} /\ Dispatchers # Dispatcher
       THEN \E d \in Dispatcher \ Dispatchers : th' = [next EXCEPT ![d].pc = "loop"]
       ELSE Signal(next)
    /\ UNCHANGED <<queues, slot, dlock, bounds, history>>

\* dispatchUserRequest: WAITING is clear, the entry is ours to return
Answered(t) ==
    /\ At(t, "answer")
    /\ ~de[th[t].req].waiting
    /\ Returned(th[t].req)
    /\ th' = JobDone(t, "OK")
    /\ UNCHANGED <<flags, slot, outq, inq, outList, inList, dlock, bounds, history>>

\* dispatchUserRequest gives up after 60 seconds and leaves the entry behind
TimesOut(t) ==
    LET e == th[t].req IN
    /\ MayTimeout
    /\ At(t, "answer")
    /\ de[e].waiting
    /\ de' = [de EXCEPT ![e].noreturn = FALSE]
    /\ th' = JobDone(t, "TIMEOUT")
    /\ UNCHANGED <<flags, slot, outq, inq, outList, inList, dlock, free, bounds, history>>

\* clearPhidgetDispatch, one round of its first loop
ClearOut(t) ==
    LET p == th[t].ph IN
    /\ At(t, "clearout")
    /\ IF outq[p] = <<>>
       THEN Goto(t, "clearin") /\ UNCHANGED <<outq, de, free>>
       ELSE /\ TakeFirst(p)
            /\ Returned(Head(outq[p]))
            /\ UNCHANGED th
    /\ UNCHANGED <<flags, slot, inq, outList, inList, dlock, bounds, history>>

\* A thread that waits for the entry is told and returns it, or it is returned
ClearedMutant(e) == Returned(e)
Cleared(e) ==
    IF de[e].noreturn
    THEN de' = [de EXCEPT ![e].waiting = FALSE] /\ UNCHANGED free
    ELSE Returned(e)

\* Back to the caller
Back(t) == IF th[t].cont = "idle" THEN th' = [th EXCEPT ![t] = Idle("idle")]
                                  ELSE Goto(t, th[t].cont)

\* One round of its second loop: a callback is called as well
ClearIn(t) ==
    LET p == th[t].ph
        e == Head(inq[p])
    IN
    /\ At(t, "clearin")
    /\ IF inq[p] = <<>>
       THEN /\ Back(t)
            /\ UNCHANGED <<inq, de, free, owed>>
       ELSE /\ inq' = [inq EXCEPT ![p] = Tail(@)]
            /\ Cleared(e)
            /\ owed' = [owed EXCEPT ![p] = IF de[e].cb THEN @ - 1 ELSE @]
            /\ UNCHANGED th
    /\ UNCHANGED <<flags, slot, outq, outList, inList, dlock, bounds, view>>

-----------------------------------------------------------------------------
(* PhidgetDispatcher *)

\* The top of the loop: a dispatcher that is not needed exits and passes the
\* signal on
Exit(d) ==
    /\ At(d, "loop")
    /\ dlock = NoThread
    /\ ~TaskNeeded
    /\ Signal([th EXCEPT ![d].pc = "none"])
    /\ UNCHANGED <<queues, slot, dlock, bounds, history>>

TakeInMutant(d) ==
    /\ At(d, "loop")
    /\ dlock = NoThread
    /\ TaskNeeded
    /\ inList # <<>>
    /\ th' = [th EXCEPT ![d].pc = "serve", ![d].ph = Head(inList), ![d].out = FALSE]
    /\ UNCHANGED <<queues, slot, dlock, bounds, history>>

\* getDispatchInPhidget: commands come first
TakeIn(d) ==
    /\ At(d, "loop")
    /\ dlock = NoThread
    /\ TaskNeeded
    /\ inList # <<>>
    /\ inList' = Tail(inList)
    /\ th' = [th EXCEPT ![d].pc = "serve", ![d].ph = Head(inList), ![d].out = FALSE]
    /\ UNCHANGED <<flags, slot, outq, inq, outList, dlock, de, free, bounds, history>>

\* getDispatchOutPhidget walks dispatchOutList; the lock is held to its end
ScanStart(d) ==
    /\ At(d, "loop")
    /\ dlock = NoThread
    /\ TaskNeeded
    /\ inList = <<>>
    /\ dlock' = d
    /\ th' = [th EXCEPT ![d].pc = "scan", ![d].at = 1]
    /\ UNCHANGED <<queues, slot, bounds, history>>

\* The first channel that is attached or detaches is taken
ScanTake(d) ==
    LET i == th[d].at IN
    /\ At(d, "scan")
    /\ i <= Len(outList)
    /\ Has(outList[i], {"ATTACHED", "DETACHING"})
    /\ outList' = RemoveAt(outList, i)
    /\ dlock' = NoThread
    /\ th' = [th EXCEPT ![d].pc = "serve", ![d].ph = outList[i], ![d].out = TRUE,
                        ![d].at = 0]
    /\ UNCHANGED <<flags, slot, outq, inq, inList, de, free, bounds, history>>

\* One that is closed is removed, one that is only open is left on the list
ScanSkip(d) ==
    LET i == th[d].at
        p == outList[i]
    IN
    /\ At(d, "scan")
    /\ i <= Len(outList)
    /\ ~Has(p, {"ATTACHED", "DETACHING"})
    /\ IF Has(p, {"OPEN"})
       THEN th' = [th EXCEPT ![d].at = i + 1] /\ UNCHANGED <<flags, outList>>
       ELSE /\ outList' = RemoveAt(outList, i)
            /\ flags' = [flags EXCEPT ![p] = @ \ {"DISPATCHOUT"}]
            /\ UNCHANGED th
    /\ UNCHANGED <<slot, outq, inq, inList, dlock, de, free, bounds, history>>

\* Nothing to do: wait for the condition, which releases the lock
ScanEnd(d) ==
    /\ At(d, "scan")
    /\ th[d].at > Len(outList)
    /\ dlock' = NoThread
    /\ th' = [th EXCEPT ![d] = Idle("wait")]
    /\ UNCHANGED <<queues, slot, bounds, history>>

ServedMutant(d) == TRUE

\* Whether the dispatcher may go on with the queue it drains
Served(d) ==
    IF th[d].out THEN Has(th[d].ph, {"ATTACHED", "DETACHING"}) ELSE Has(th[d].ph, {"OPEN"})

\* The next entry of the queue
Dequeue(d) ==
    LET p == th[d].ph
        q == IF th[d].out THEN outq[p] ELSE inq[p]
    IN
    /\ At(d, "serve")
    /\ Served(d)
    /\ q # <<>>
    /\ IF th[d].out
       THEN outq' = [outq EXCEPT ![p] = Tail(@)] /\ UNCHANGED inq
       ELSE inq' = [inq EXCEPT ![p] = Tail(@)] /\ UNCHANGED outq
    /\ th' = [th EXCEPT ![d].pc = "exec", ![d].cur = Head(q),
                        ![d].returnde = ~de[Head(q)].noreturn]
    /\ UNCHANGED <<flags, slot, outList, inList, dlock, de, free, bounds, history>>

\* Nothing is left to drain, or nothing that may be drained
FinishedMutant(d) == TRUE
Finished(d) == Served(d) => IF th[d].out THEN outq[th[d].ph] = <<>> ELSE inq[th[d].ph] = <<>>

\* The end of the queue, or of the channel's attachment: the flag is cleared
Unflag(d) ==
    LET p == th[d].ph IN
    /\ At(d, "serve")
    /\ Finished(d)
    /\ flags' = [flags EXCEPT ![p] = @ \ {IF th[d].out THEN "DISPATCHOUT" ELSE "DISPATCHIN"}]
    /\ Goto(d, "leave")
    /\ UNCHANGED <<slot, outq, inq, outList, inList, dlock, de, free, bounds, history>>

\* Back at the top of the loop, no longer busy
Leave(d) ==
    /\ At(d, "leave")
    /\ dlock = NoThread
    /\ th' = [th EXCEPT ![d] = Idle("loop")]
    /\ UNCHANGED <<queues, slot, dlock, bounds, history>>

\* What NORETURN said when the entry was taken from its queue
MayReturnMutant(d) == TRUE
MayReturn(d) == th[d].returnde

\* After dispatchEntry, the entry is returned unless its thread does that
EntryDone(d) ==
    /\ At(d, "done")
    /\ IF MayReturn(d) THEN Returned(th[d].cur) ELSE UNCHANGED <<de, free>>
    /\ th' = [th EXCEPT ![d] = [Idle("serve") EXCEPT !.ph = th[d].ph, !.out = th[d].out]]
    /\ UNCHANGED <<flags, slot, outq, inq, outList, inList, dlock, bounds, history>>

-----------------------------------------------------------------------------
(* dispatchEntry, one action for each step of each type *)

Executing(d, types) == At(d, "exec") /\ de[th[d].cur].type \in types

\* A local channel is initialised before the user hears of the attach, and
\* that can fail
ExecAttachFails(d) ==
    /\ Executing(d, {"CHANNEL_ATTACH"})
    /\ MayFail
    /\ th[d].ph \notin NetChannel
    /\ th' = [th EXCEPT ![d].pc = "clearout", ![d].cont = "attacherror"]
    /\ UNCHANGED <<queues, slot, dlock, bounds, history>>

\* A detach clears ATTACHED before its callback; other events call back at once
ExecEvent(d) ==
    LET p == th[d].ph IN
    /\ Executing(d, OutTypes \ {"CHANNEL_SETSTATUS"})
    /\ flags' = IF de[th[d].cur].type = "CHANNEL_DETACH"
                THEN [flags EXCEPT ![p] = @ \ {"ATTACHED"}]
                ELSE flags
    /\ Goto(d, "callback")
    /\ UNCHANGED <<slot, outq, inq, outList, inList, dlock, de, free, bounds, history>>

\* Entries that end within the library: a status goes to network clients, a
\* packet of a client goes to the device and a reply back
ExecInternal(d) ==
    /\ Executing(d, {"CHANNEL_SETSTATUS", "SERVERBRIDGEPACKET"})
    /\ Goto(d, "done")
    /\ UNCHANGED <<queues, slot, dlock, bounds, history>>

\* A synchronous request is answered: the entry may not be touched again
ExecRequest(d) ==
    /\ Executing(d, {"USERREQ"})
    /\ ~de[th[d].cur].cb
    /\ de' = [de EXCEPT ![th[d].cur].waiting = FALSE]
    /\ Goto(d, "done")
    /\ UNCHANGED <<flags, slot, outq, inq, outList, inList, dlock, free, bounds, history>>

\* An asynchronous one has its callback dispatched like any other event
ExecAsyncRequest(d) ==
    /\ Executing(d, {"USERREQ"})
    /\ de[th[d].cur].cb
    /\ th' = [th EXCEPT ![d].pc = "get", ![d].todo = <<Job("USERREQCALLBACK", TRUE)>>,
                        ![d].cont = "callbackqueued"]
    /\ UNCHANGED <<queues, slot, dlock, bounds, history>>

CallDirectlyTooMutant(d) == TRUE
CallDirectly(d) == th[d].rc # "OK"

\* ... and called from here when it cannot be
CallbackQueued(d) ==
    /\ At(d, "callbackqueued")
    /\ owed' = [owed EXCEPT ![th[d].ph] = IF CallDirectly(d) THEN @ - 1 ELSE @]
    /\ Goto(d, "done")
    /\ UNCHANGED <<queues, slot, dlock, bounds, view>>

\* What the callback for type ty tells the user
Told(ty, v) == CASE ty = "CHANNEL_ATTACH" -> "attached"
                 [] ty = "CHANNEL_DETACH" -> "detached"
                 [] OTHER -> v

\* The user's callback runs.  It may issue a synchronous request of its own,
\* and then holds the dispatcher until another one has answered it.
Callback(d) ==
    LET p == th[d].ph
        ty == de[th[d].cur].type
    IN
    /\ At(d, "callback")
    /\ view' = [view EXCEPT ![p] = Told(ty, @)]
    /\ owed' = [owed EXCEPT ![p] = IF ty = "USERREQCALLBACK" THEN @ - 1 ELSE @]
    /\ IF ty \in NestedIn /\ Has(p, {"ATTACHED"})
       THEN Starts(d, p, <<SyncRequest>>, "get", "called")
       ELSE Goto(d, "called")
    /\ UNCHANGED <<queues, slot, dlock, bounds>>

\* The flag that an event of type ty ends
OverMutant(ty) == IF ty = "CHANNEL_ATTACH" THEN {"ATTACHING"} ELSE {}
Over(ty) == CASE ty = "CHANNEL_ATTACH" -> {"ATTACHING"}
              [] ty = "CHANNEL_DETACH" -> {"DETACHING"}
              [] OTHER -> {}

\* After the callback: the attach and the detach are over
Called(d) ==
    LET p == th[d].ph IN
    /\ At(d, "called")
    /\ flags' = [flags EXCEPT ![p] = @ \ Over(de[th[d].cur].type)]
    /\ Goto(d, "done")
    /\ UNCHANGED <<slot, outq, inq, outList, inList, dlock, de, free, bounds, history>>

\* BP_ENABLE fails after the attach callback: the channel detaches at once
EnableFails(d) ==
    LET p == th[d].ph IN
    /\ At(d, "called")
    /\ MayFail
    /\ de[th[d].cur].type = "CHANNEL_ATTACH"
    /\ p \notin NetChannel
    /\ flags' = [flags EXCEPT ![p] = (@ \cup {"DETACHING"}) \ {"ATTACHED"}]
    /\ Goto(d, "enablefailed")
    /\ UNCHANGED <<slot, outq, inq, outList, inList, dlock, de, free, bounds, history>>

EnableFailed(d) ==
    LET p == th[d].ph IN
    /\ At(d, "enablefailed")
    /\ view' = [view EXCEPT ![p] = "detached"]
    /\ flags' = [flags EXCEPT ![p] = @ \ {"DETACHING"}]
    /\ th' = [th EXCEPT ![d].pc = "clearout", ![d].cont = "attacherror"]
    /\ UNCHANGED <<slot, outq, inq, outList, inList, dlock, de, free, bounds, owed>>

AttachFlagsMutant == {"ATTACHED"}
AttachFlags == {"ATTACHED", "ATTACHING"}

\* attach_error, after clearPhidgetDispatch
AttachError(d) ==
    LET p == th[d].ph IN
    /\ At(d, "attacherror")
    /\ flags' = [flags EXCEPT ![p] = @ \ AttachFlags]
    /\ Goto(d, "unslot")
    /\ UNCHANGED <<slot, outq, inq, outList, inList, dlock, de, free, bounds, history>>

\* The parent of the channel no longer holds it
Unslotted(p) == slot' = [slot EXCEPT ![p] = IF @ = "held" THEN "parent" ELSE @]

AttachErrorUnslot(d) ==
    /\ At(d, "unslot")
    /\ Unslotted(th[d].ph)
    /\ Goto(d, "done")
    /\ UNCHANGED <<queues, dlock, bounds, history>>

-----------------------------------------------------------------------------
(* The central thread: attachLocalChannel, attachNetworkChannel and        *)
(* channelDetach, as far as the dispatcher sees them                       *)

\* An open channel that matches a free channel of a device: startDispatch
AttachStart(p) ==
    /\ At(Central, "idle")
    /\ attaches[p] > 0
    /\ Has(p, {"OPEN"})
    /\ ~Has(p, {"ATTACHED", "DETACHING"})
    /\ slot[p] # "held"
    /\ attaches' = [attaches EXCEPT ![p] = @ - 1]
    /\ Starts(Central, p, StartJobs, "get", "attaching")
    /\ UNCHANGED <<queues, slot, dlock, left, history>>

AttachFlag ==
    /\ At(Central, "attaching")
    /\ flags' = [flags EXCEPT ![th[Central].ph] = @ \cup {"ATTACHING"}]
    /\ Goto(Central, "slot")
    /\ UNCHANGED <<slot, outq, inq, outList, inList, dlock, de, free, bounds, history>>

AttachSlot ==
    /\ At(Central, "slot")
    /\ slot' = [slot EXCEPT ![th[Central].ph] = "held"]
    /\ Goto(Central, "attach")
    /\ UNCHANGED <<queues, dlock, bounds, history>>

\* The server refuses to open a network channel: clearPhidgetDispatch
AttachRefused ==
    /\ At(Central, "attach")
    /\ MayFail
    /\ th[Central].ph \in NetChannel
    /\ flags' = [flags EXCEPT ![th[Central].ph] = @ \ {"ATTACHING", "ATTACHED"}]
    /\ th' = [th EXCEPT ![Central].pc = "clearout", ![Central].cont = "unslot"]
    /\ UNCHANGED <<slot, outq, inq, outList, inList, dlock, de, free, bounds, history>>

Attached ==
    /\ At(Central, "attach")
    /\ flags' = [flags EXCEPT ![th[Central].ph] = @ \cup {"ATTACHED"}]
    /\ Goto(Central, "wake")
    /\ UNCHANGED <<slot, outq, inq, outList, inList, dlock, de, free, bounds, history>>

\* wakeDispatch: the queued attach can go
WakeDispatch ==
    /\ At(Central, "wake")
    /\ dlock = NoThread
    /\ Signal([th EXCEPT ![Central] = Idle("idle")])
    /\ UNCHANGED <<queues, slot, dlock, bounds, history>>

\* deviceDetach: channelDetach of a channel that its device holds
DetachStart(p) ==
    /\ MayDetach
    /\ At(Central, "idle")
    /\ slot[p] = "held"
    /\ Starts(Central, p, <<>>, "detachwait", "idle")
    /\ UNCHANGED <<queues, slot, dlock, bounds, history>>

\* It waits for the attach to end, and does not run the detach event for a
\* channel that is not attached
DetachWaited ==
    /\ At(Central, "detachwait")
    /\ ~Has(th[Central].ph, {"ATTACHING"})
    /\ IF Has(th[Central].ph, {"ATTACHED"})
       THEN Goto(Central, "detaching")
       ELSE th' = [th EXCEPT ![Central].pc = "clearout", ![Central].cont = "unslot"]
    /\ UNCHANGED <<queues, slot, dlock, bounds, history>>

DetachFlag ==
    /\ At(Central, "detaching")
    /\ flags' = [flags EXCEPT ![th[Central].ph] = @ \cup {"DETACHING"}]
    /\ th' = [th EXCEPT ![Central].pc = "clearout", ![Central].cont = "detach"]
    /\ UNCHANGED <<slot, outq, inq, outList, inList, dlock, de, free, bounds, history>>

\* stopDispatch: after the queues are cleared, the detach is queued
DetachDispatch ==
    /\ At(Central, "detach")
    /\ Starts(Central, th[Central].ph, <<Job("CHANNEL_DETACH", FALSE)>>, "get", "unslot")
    /\ UNCHANGED <<queues, slot, dlock, bounds, history>>

\* A channel that a network client opened is closed when its device detaches
DetachClose ==
    LET p == th[Central].ph IN
    /\ At(Central, "unslot")
    /\ p \in ServedChannel
    /\ Has(p, {"OPEN"})
    /\ flags' = [flags EXCEPT ![p] = @ \ {"OPEN"}]
    /\ Goto(Central, "close")
    /\ UNCHANGED <<slot, outq, inq, outList, inList, dlock, de, free, bounds, history>>

\* The device is gone, or the channel has no parent any more
CentralUnslot ==
    LET p == th[Central].ph IN
    /\ At(Central, "unslot")
    /\ ~(p \in ServedChannel /\ Has(p, {"OPEN"}))
    /\ slot' = [slot EXCEPT ![p] = "none"]
    /\ th' = [th EXCEPT ![Central] = Idle("idle")]
    /\ UNCHANGED <<queues, dlock, bounds, history>>

-----------------------------------------------------------------------------
(* Users and sources *)

\* bridgeSendBPToDevice on an attached channel
Request(u, p) ==
    /\ At(u, "idle")
    /\ left[u] > 0
    /\ Has(p, {"ATTACHED"})
    /\ \E kind \in Requests :
          Starts(u, p, <<Job("USERREQ", kind = "async")>>, "get", "idle")
    /\ left' = [left EXCEPT ![u] = @ - 1]
    /\ UNCHANGED <<queues, slot, dlock, attaches, history>>

\* Phidget_close: OPEN is cleared first, by one thread only
CloseStart(u, p) ==
    /\ MayClose
    /\ At(u, "idle")
    /\ left[u] > 0
    /\ Has(p, {"OPEN"})
    /\ flags' = [flags EXCEPT ![p] = @ \ {"OPEN"}]
    /\ Starts(u, p, <<>>, "close", "idle")
    /\ left' = [left EXCEPT ![u] = @ - 1]
    /\ UNCHANGED <<slot, outq, inq, outList, inList, dlock, de, free, attaches, history>>

\* Then the channel is taken from its parent, if it has one by now.  (The
\* thread may be Central: DetachClose.)
CloseParent(t) ==
    /\ At(t, "close")
    /\ Goto(t, IF slot[th[t].ph] = "none" THEN "closing" ELSE "closeslot")
    /\ UNCHANGED <<queues, slot, dlock, bounds, history>>

CloseSlot(t) ==
    /\ At(t, "closeslot")
    /\ Unslotted(th[t].ph)
    /\ Goto(t, "closing")
    /\ UNCHANGED <<queues, dlock, bounds, history>>

\* channelClose: when the channel detaches, its dispatch was stopped already
CloseStop(t) ==
    LET p == th[t].ph IN
    /\ At(t, "closing")
    /\ IF Has(p, {"DETACHING"})
       THEN Back(t) /\ UNCHANGED flags
       ELSE flags' = [flags EXCEPT ![p] = @ \ {"ATTACHED"}] /\ Goto(t, "clearout")
    /\ UNCHANGED <<slot, outq, inq, outList, inList, dlock, de, free, bounds, history>>

\* Phidget_open of a closed channel.  ATTACHED, which a detach not yet handled
\* may have left, is cleared before the channel is offered to devices.
Open(u, p) ==
    /\ MayClose
    /\ At(u, "idle")
    /\ left[u] > 0
    /\ ~Has(p, {"OPEN"})
    /\ flags' = [flags EXCEPT ![p] = (@ \cup {"OPEN"}) \ {"ATTACHED"}]
    /\ left' = [left EXCEPT ![u] = @ - 1]
    /\ UNCHANGED <<slot, outq, inq, outList, inList, dlock, de, free, th, attaches, history>>

\* Who finds the channel: a device's driver if it is attached, a server's
\* client through the slot of the device, a client through the identifier it
\* gave the server when it opened the channel
Addressable(p, ty) ==
    CASE ty = "CHANNEL_BRIDGEPKT" -> Has(p, {"ATTACHED"})
      [] ty = "SERVERBRIDGEPACKET" -> slot[p] = "held" /\ p \notin NetChannel
      [] ty = "CLIENTBRIDGEPACKET" -> slot[p] = "held" /\ p \in NetChannel

\* bridgeSendBPToChannelNC and _dispatchBridgePacket: a packet for the channel
Deliver(s, p) ==
    /\ At(s, "idle")
    /\ left[s] > 0
    /\ \E ty \in Traffic :
        /\ Addressable(p, ty)
        /\ Starts(s, p, <<Job(ty, FALSE)>>, "get", "idle")
    /\ left' = [left EXCEPT ![s] = @ - 1]
    /\ UNCHANGED <<queues, slot, dlock, attaches, history>>

-----------------------------------------------------------------------------
(* The specification *)

Insertion(t) ==
    \/ GetEntry(t) \/ GetEntryFails(t)
    \/ InsertRefused(t) \/ InsertNoSpace(t) \/ InsertAppend(t)
    \/ Purge(t) \/ Drop(t)
    \/ Mark(t) \/ PutOnOutList(t) \/ PutOnInList(t) \/ EntryDispatched(t)
    \/ Answered(t)
    \/ ClearOut(t) \/ ClearIn(t)

DispatcherLoop(d) ==
    \/ Exit(d) \/ TakeIn(d) \/ ScanStart(d) \/ ScanTake(d) \/ ScanSkip(d) \/ ScanEnd(d)
    \/ Dequeue(d) \/ Unflag(d) \/ Leave(d) \/ EntryDone(d)

Execution(d) ==
    \/ ExecAttachFails(d) \/ ExecEvent(d) \/ ExecInternal(d)
    \/ ExecRequest(d) \/ ExecAsyncRequest(d) \/ CallbackQueued(d)
    \/ Callback(d) \/ Called(d)
    \/ EnableFails(d) \/ EnableFailed(d) \/ AttachError(d) \/ AttachErrorUnslot(d)

\* The steps of attaching and detaching, once begun
Attaching ==
    \/ AttachFlag \/ AttachSlot \/ AttachRefused \/ Attached \/ WakeDispatch
    \/ DetachWaited \/ DetachFlag \/ DetachDispatch \/ DetachClose \/ CentralUnslot

Closing(t) == CloseParent(t) \/ CloseSlot(t) \/ CloseStop(t)

\* What devices and users begin
Environment ==
    \/ \E p \in Channel : AttachStart(p) \/ DetachStart(p)
    \/ \E u \in User, p \in Channel : Request(u, p) \/ CloseStart(u, p) \/ Open(u, p)
    \/ \E s \in Source, p \in Channel : Deliver(s, p)

Next ==
    \/ \E t \in Thread : Insertion(t) \/ TimesOut(t)
    \/ \E d \in Dispatcher : DispatcherLoop(d) \/ Execution(d)
    \/ Attaching
    \/ \E t \in User \cup {Central} : Closing(t)
    \/ Environment

Spec == Init /\ [][Next]_vars

\* Every thread that can take a step of an operation it has begun takes one:
\* the operating system schedules it, and a user's callback returns
Fairness ==
    /\ \A t \in Thread : WF_vars(Insertion(t))
    /\ \A d \in Dispatcher : WF_vars(DispatcherLoop(d)) /\ WF_vars(Execution(d))
    /\ WF_vars(Attaching)
    /\ \A t \in User \cup {Central} : WF_vars(Closing(t))

FairSpec == Spec /\ Fairness

-----------------------------------------------------------------------------
(* Type invariant *)

PC == {"none", "loop", "wait", "scan", "serve", "leave", "exec", "done",
       "callback", "called", "callbackqueued", "enablefailed", "attacherror",
       "idle", "get", "insert", "purge", "drop", "mark", "listout", "listin", "signal",
       "answer", "clearout", "clearin", "attaching", "slot", "attach", "wake",
       "detachwait", "detaching", "detach", "unslot", "close", "closeslot",
       "closing"}

Flag == {"OPEN", "ATTACHED", "ATTACHING", "DETACHING", "DISPATCHOUT", "DISPATCHIN"}

EntryContents == [type : EntryType \cup {"NOTHING"}, inbound : BOOLEAN, cb : BOOLEAN,
                  waiting : BOOLEAN, noreturn : BOOLEAN]

\* Where a thread goes after its last job
Cont == {"none", "loop", "wait", "serve", "idle", "called", "callbackqueued",
         "attacherror", "attaching", "detach", "unslot"}

JobType == [type : EntryType, cb : BOOLEAN]

ThreadState ==
    [pc : PC, ph : Channel \cup {NoChannel}, req : Entry \cup {NoEntry},
     todo : Seq(JobType), cont : Cont,
     rc : {"OK", "AGAIN", "NOTATTACHED", "NOSPC", "TIMEOUT"}, out : BOOLEAN,
     cur : Entry \cup {NoEntry}, returnde : BOOLEAN, at : Nat]

\* A thread in AtRest is at no channel, one in Inserting has a job
AtRest == {"none", "loop", "wait", "scan", "idle"}
Inserting == {"get", "insert", "purge", "drop", "mark", "listout", "listin", "signal", "answer"}
Filling == Inserting \ {"get", "purge"}

\* Thread t, at record r, has the channel, job and entry that its next step works on
ThreadOK(t, r) ==
    /\ r \in ThreadState
    /\ r.pc \notin AtRest => r.ph \in Channel
    /\ r.pc \in Inserting => r.todo # <<>>
    /\ r.pc \in Filling => r.req \in Entry
    /\ r.pc = "scan" => r.at > 0
    /\ t \in Dispatcher /\ r.pc \notin AtRest \cup {"serve", "leave"} => r.cur \in Entry

\* Every variable has its type, and no thread works on an entry or a channel
\* that is not there
TypeOK ==
    /\ flags \in [Channel -> SUBSET Flag]
    /\ slot \in [Channel -> {"none", "parent", "held"}]
    /\ outq \in [Channel -> Seq(Entry)]
    /\ inq \in [Channel -> Seq(Entry)]
    /\ outList \in Seq(Channel)
    /\ inList \in Seq(Channel)
    /\ dlock \in Dispatcher \cup {NoThread}
    /\ de \in [Entry -> EntryContents]
    /\ free \in SUBSET Entry
    /\ th \in [Thread -> ThreadState]
    /\ \A t \in Thread : ThreadOK(t, th[t])
    /\ left \in [User \cup Source -> Nat]
    /\ attaches \in [Channel -> Nat]
    /\ view \in [Channel -> {"attached", "detached"}]
    /\ owed \in [Channel -> Int]

-----------------------------------------------------------------------------
(* Safety *)

\* Dispatcher d drains the out- or inbound queue of channel p
Drains(d, p, out) ==
    /\ th[d].ph = p
    /\ th[d].out = out
    /\ th[d].pc \notin {"none", "loop", "wait", "scan", "leave"}

\* A queue of a channel is drained by one dispatcher at a time, so the events
\* of a channel reach the user one after the other
OneDispatcherPerQueue ==
    \A p \in Channel, out \in BOOLEAN, d1, d2 \in Dispatcher :
        Drains(d1, p, out) /\ Drains(d2, p, out) => d1 = d2

\* What makes it so.  The flag of a queue is a token: whoever sets it puts the
\* channel on the list, a dispatcher that takes the channel from the list drains
\* the queue, and only then is the flag cleared.  Between two of these there is
\* one such thread or place for each queue.
QueueFlag(out) == IF out THEN "DISPATCHOUT" ELSE "DISPATCHIN"
DispatchList(out) == IF out THEN outList ELSE inList
Lists(t, p, out) == th[t].ph = p /\ th[t].pc = IF out THEN "listout" ELSE "listin"
OnList(i, p, out) == DispatchList(out)[i] = p

Token(p, out) ==
    /\ \A t \in Thread : Lists(t, p, out) =>
        /\ QueueFlag(out) \in flags[p]
        /\ \A u \in Thread : Lists(u, p, out) => u = t
        /\ \A i \in 1..Len(DispatchList(out)) : ~OnList(i, p, out)
    /\ \A i \in 1..Len(DispatchList(out)) : OnList(i, p, out) =>
        /\ QueueFlag(out) \in flags[p]
        /\ \A j \in 1..Len(DispatchList(out)) : OnList(j, p, out) => j = i
    /\ \A d \in Dispatcher : Drains(d, p, out) =>
        /\ QueueFlag(out) \in flags[p]
        /\ \A c \in Dispatcher : Drains(c, p, out) => c = d
        /\ \A t \in Thread : ~Lists(t, p, out)
        /\ \A i \in 1..Len(DispatchList(out)) : ~OnList(i, p, out)

FlagIsToken == \A p \in Channel, out \in BOOLEAN : Token(p, out)

\* The entries thread t holds: the one it is about to insert, the one whose
\* answer it has, and the one it executes, until that was answered
Holds(t) ==
    {e \in Entry : \/ e = th[t].req /\ th[t].pc \in {"insert", "purge", "drop"}
                   \/ e = th[t].req /\ At(t, "answer") /\ ~de[e].waiting
                   \/ e = th[t].cur /\ (At(t, "done") => th[t].returnde)}

Queued(p) == ToSet(outq[p]) \cup ToSet(inq[p])

\* An entry is in the pool, or in one queue, or with one thread, and never in
\* two of these places: no entry is handled or returned twice, and none that
\* was returned is still in a queue
EntryInOnePlace ==
    /\ \A p \in Channel :
        /\ IsInjective(outq[p]) /\ IsInjective(inq[p])
        /\ ToSet(outq[p]) \cap ToSet(inq[p]) = {}
        /\ Queued(p) \cap free = {}
        /\ \A q \in Channel \ {p} : Queued(p) \cap Queued(q) = {}
        /\ \A t \in Thread : Queued(p) \cap Holds(t) = {}
    /\ \A t \in Thread :
        /\ Holds(t) \cap free = {}
        /\ \A u \in Thread \ {t} : Holds(t) \cap Holds(u) = {}

\* The thread that waits for the answer to its request can count on it: its
\* entry was not given to anybody else, and as long as it is unanswered it is
\* in the queue of the channel or with a dispatcher
RequestNotLost ==
    \A t \in Thread : At(t, "answer") =>
        LET e == th[t].req IN
        /\ e \notin free
        /\ de[e].noreturn
        /\ \A u \in Thread \ {t} : ~(At(u, "answer") /\ th[u].req = e)
        /\ de[e].waiting => \/ e \in ToSet(inq[th[t].ph])
                            \/ \E d \in Dispatcher : th[d].cur = e

\* The callbacks a user sees are those of a session: attach, then events, then
\* detach; no data before the attach or after the detach.  (The user of a channel
\* that a network client opened is on the other machine.)
CallbacksInOrder ==
    \A d \in Dispatcher : At(d, "callback") /\ th[d].ph \notin ServedChannel =>
        view[th[d].ph] = IF de[th[d].cur].type = "CHANNEL_ATTACH"
                         THEN "detached" ELSE "attached"

\* Somebody will see to the outbound queue of p: p is on the list, or is being
\* put there, or is drained, or its queue is being cleared
OutInHand(p) ==
    \/ p \in ToSet(outList)
    \/ \E t \in Thread : th[t].ph = p /\ th[t].pc \in {"mark", "listout", "clearout", "purge"}
    \/ \E d \in Dispatcher : Drains(d, p, TRUE)

\* dispatch.c:202-206: "Network channels are started before we flag ATTACHED
\* so that events are not lost and the attach event is queued first."  So no
\* event stays in the queue of a channel that may be dispatched to and that no
\* dispatcher will come to.
NoEventStranded ==
    \A p \in Channel :
        outq[p] # <<>> /\ Has(p, {"ATTACHED", "DETACHING"}) => OutInHand(p)

\* dispatch.c:484: insertDispatchEntry "always returns the dispatch entry: even
\* in the case of error", by returnDispatchEntry, which asserts that NORETURN
\* is clear (dispatch.c:404)
ReturnAssertion ==
    \A t \in Thread : At(t, "drop") => ~de[th[t].req].noreturn

\* dispatch.c:1397: "For channels, fire the detach last."  A detach that was
\* queued leaves the queue by the hand of a dispatcher, unless the channel is
\* being closed.
DetachQueued(p) == \E i \in 1..Len(outq[p]) : de[outq[p][i]].type = "CHANNEL_DETACH"

DetachDispatched ==
    [][\A p \in Channel : DetachQueued(p) /\ ~DetachQueued(p)' /\ Has(p, {"OPEN"})
          => \E d \in Dispatcher : At(d, "serve") /\ th[d].ph = p /\ At(d, "exec")']_vars

\* dispatch.c:1116: the callback of an asynchronous request is dispatched, or
\* called "directly if the insert fails": never both, so it is never called
\* more often than there were requests
CallbackAtMostOnce == \A p \in Channel : owed[p] >= 0

-----------------------------------------------------------------------------
(* Liveness *)

\* A synchronous request is answered without its 60 second timeout
RequestAnswered == \A t \in User \cup Dispatcher : At(t, "answer") ~> ~At(t, "answer")

\* The attach of a channel ends: openWaitForAttachment and channelDetach, which
\* wait for it, can return
AttachEnds == \A p \in Channel : Has(p, {"ATTACHING"}) ~> ~Has(p, {"ATTACHING"})

\* manager.c:245: channelDetach waits "if attaching is happening on another
\* thread", so the wait of the central thread is over when the attach is
DetachProceeds == At(Central, "detachwait") ~> ~At(Central, "detachwait")

\* A detach ends, and the channel can be attached again
DetachEnds == \A p \in Channel : Has(p, {"DETACHING"}) ~> ~Has(p, {"DETACHING"})

=============================================================================
