----------------------- MODULE DispatchSessionProofs -----------------------
(***************************************************************************)
(* The session of a channel: no event is stranded in its queue, and its    *)
(* callbacks are those of its attach, its events and its detach.           *)
(*                                                                         *)
(* A channel that has events and is to be dispatched to is flagged, and a  *)
(* flag is a token that somebody holds (FlagIsToken).  But an event that   *)
(* is inserted while the channel is neither attached nor attaching is not  *)
(* announced to anybody: what holds of a queue depends on the session the  *)
(* channel is in.  So the invariants follow a channel from its attach to   *)
(* its detach.  They need what each thread can be doing (Shapes of         *)
(* DispatchProofs), which queue an entry is of (Directions) and what a     *)
(* dispatcher does with the entry it executes (RunOK).                     *)
(***************************************************************************)
EXTENDS DispatchEntryProofs

-----------------------------------------------------------------------------
(* What an entry is, until it is returned                                  *)

\* The direction of an entry is that of its type
Directions == \A e \in Entry : de[e].inbound <=> de[e].type \in InTypes

\* A step fills in an entry of the pool, returns one, or changes what an entry
\* says of the thread that waits for it
Fills == \E job : \E e \in free : de' = [de EXCEPT ![e] = Filled(job)]
Returns == \E e : Returned(e)
Retouched(e) == \/ de' = [de EXCEPT ![e].waiting = FALSE]
                \/ de' = [de EXCEPT ![e].noreturn = FALSE]
Retouches == \E e : Retouched(e)

LEMMA EntrySteps == [Next]_vars => de' = de \/ Fills \/ Returns \/ Retouches
<1> SUFFICES ASSUME [Next]_vars
             PROVE  de' = de \/ Fills \/ Returns \/ Retouches
  OBVIOUS
<1>1. ASSUME NEW t \in Thread, Insertion(t)
      PROVE  de' = de \/ Fills \/ Returns \/ Retouches
  <2>1. CASE GetEntry(t)
    BY <2>1 DEF GetEntry, Fills
  <2>2. CASE GetEntryFails(t) \/ InsertRefused(t) \/ InsertNoSpace(t) \/ InsertAppend(t)
             \/ Mark(t) \/ PutOnOutList(t) \/ PutOnInList(t) \/ EntryDispatched(t)
    BY <2>2 DEF GetEntryFails, InsertRefused, InsertNoSpace, InsertAppend, Mark, PutOnOutList,
                PutOnInList, EntryDispatched, queues
  <2>3. CASE Purge(t) \/ Drop(t) \/ Answered(t) \/ ClearOut(t)
    BY <2>3 DEF Purge, Drop, Answered, ClearOut, Returns
  <2>4. CASE ClearIn(t)
    <3>1. CASE inq[th[t].ph] = <<>>
      BY <2>4, <3>1 DEF ClearIn
    <3>2. CASE inq[th[t].ph] # <<>>
      <4>1. PICK e : e = Head(inq[th[t].ph])
        OBVIOUS
      <4>2. Returned(e) \/ Retouched(e)
        BY <2>4, <3>2, <4>1 DEF ClearIn, Cleared, Retouched
      <4>. QED BY <4>2 DEF Returns, Retouches
    <3>. QED BY <3>1, <3>2
  <2>. QED BY <1>1, <2>1, <2>2, <2>3, <2>4 DEF Insertion
<1>2. ASSUME NEW t \in Thread, TimesOut(t)
      PROVE  Retouches
  <2>1. Retouched(th[t].req)
    BY <1>2 DEF TimesOut, Retouched
  <2>. QED BY <2>1 DEF Retouches
<1>3. ASSUME NEW d \in Dispatcher, DispatcherLoop(d)
      PROVE  de' = de \/ Returns
  BY <1>3 DEF DispatcherLoop, Exit, TakeIn, ScanStart, ScanTake, ScanSkip, ScanEnd, Dequeue,
              Unflag, Leave, EntryDone, Returns, queues
<1>4. ASSUME NEW d \in Dispatcher, Execution(d)
      PROVE  de' = de \/ Retouches
  <2>1. CASE ExecRequest(d)
    <3>1. Retouched(th[d].cur)
      BY <2>1 DEF ExecRequest, Retouched
    <3>. QED BY <3>1 DEF Retouches
  <2>2. CASE ~ExecRequest(d)
    BY <1>4, <2>2 DEF Execution, ExecAttachFails, ExecEvent, ExecInternal, ExecAsyncRequest,
                      CallbackQueued, Callback, Called, EnableFails, EnableFailed, AttachError,
                      AttachErrorUnslot, queues
  <2>. QED BY <2>1, <2>2
<1>5. CASE Attaching
  BY <1>5 DEF Attaching, AttachFlag, AttachSlot, AttachRefused, Attached, WakeDispatch,
              DetachWaited, DetachFlag, DetachDispatch, DetachClose, CentralUnslot, queues
<1>6. ASSUME NEW t \in User \cup {Central}, Closing(t)
      PROVE  de' = de
  BY <1>6 DEF Closing, CloseParent, CloseSlot, CloseStop, queues
<1>7. CASE Environment
  BY <1>7 DEF Environment, AttachStart, DetachStart, Request, CloseStart, Open, Deliver, queues
<1>8. CASE UNCHANGED vars
  BY <1>8 DEF vars, queues
<1>. QED BY <1>1, <1>2, <1>3, <1>4, <1>5, <1>6, <1>7, <1>8 DEF Next

\* An entry that is not in the pool keeps its type
LEMMA TypesStay ==
    ASSUME TypeInv, [Next]_vars, NEW e \in Entry, e \notin free, e \notin free'
    PROVE  de'[e].type = de[e].type
<1>0. de \in [Entry -> EntryContents]
  BY DEF TypeInv, RestOK
<1>1. CASE Fills
  BY <1>0, <1>1 DEF Fills
<1>2. CASE Returns
  BY <1>0, <1>2 DEF Returns, Returned
<1>3. CASE Retouches
  BY <1>0, <1>3 DEF Retouches, Retouched, EntryContents
<1>. QED BY <1>1, <1>2, <1>3, EntrySteps

LEMMA NextDirections == TypeInv /\ Directions /\ [Next]_vars => Directions'
<1> SUFFICES ASSUME TypeInv, Directions, [Next]_vars, NEW e \in Entry
             PROVE  de'[e].inbound <=> de'[e].type \in InTypes
  BY DEF Directions
<1>0. de \in [Entry -> EntryContents] /\ (de[e].inbound <=> de[e].type \in InTypes)
  BY DEF TypeInv, RestOK, Directions
<1>1. CASE Fills
  <2>1. PICK job : \E f \in free : de' = [de EXCEPT ![f] = Filled(job)]
    BY <1>1 DEF Fills
  <2>0. PICK f \in free : de' = [de EXCEPT ![f] = Filled(job)]
    BY <2>1
  <2>2. de'[e] = de[e] \/ de'[e] = Filled(job)
    BY <1>0, <2>0
  <2>3. Filled(job).inbound <=> Filled(job).type \in InTypes
    BY DEF Filled
  <2>. QED BY <1>0, <2>2, <2>3, Zenon
<1>2. CASE Returns
  <2>1. PICK f : de' = [de EXCEPT ![f] = Nothing]
    BY <1>2 DEF Returns, Returned
  <2>2. de'[e] = de[e] \/ de'[e] = Nothing
    BY <1>0, <2>1
  <2>3. ~Nothing.inbound /\ Nothing.type \notin InTypes
    BY DEF Nothing, InTypes
  <2>. QED BY <1>0, <2>2, <2>3, Zenon
<1>3. CASE Retouches
  <2>1. PICK f : \/ de' = [de EXCEPT ![f].waiting = FALSE]
                 \/ de' = [de EXCEPT ![f].noreturn = FALSE]
    BY <1>3 DEF Retouches, Retouched
  <2>2. de'[e].inbound = de[e].inbound /\ de'[e].type = de[e].type
    BY <1>0, <2>1 DEF EntryContents
  <2>. QED BY <1>0, <2>2
<1>. QED BY <1>0, <1>1, <1>2, <1>3, EntrySteps

-----------------------------------------------------------------------------
(* What a dispatcher executes                                              *)

\* A dispatcher at record r is in the middle of an entry
Running(r) == r.pc \notin {"none", "loop", "wait", "scan", "leave", "serve", "done"}

\* ... and what it does fits an entry of type ty
RunsAs(r, ty) ==
    /\ ty \in EntryType
    /\ r.out <=> ty \in OutTypes
    /\ r.pc \in {"enablefailed", "attacherror", "unslot"} \cup ClearPlace => ty = "CHANNEL_ATTACH"
    /\ r.pc \in {"callback", "called"} \/ (r.pc \in Inserting /\ r.cont = "called") =>
          ty \in OutTypes \ {"CHANNEL_SETSTATUS"}
    /\ r.pc = "callbackqueued" \/ (r.pc \in Inserting /\ r.cont = "callbackqueued") =>
          ty = "USERREQ"

RunOK == \A d \in Dispatcher : Running(th[d]) => RunsAs(th[d], de[th[d].cur].type)

\* The places of a dispatcher that executes an entry
LEMMA InsertingNotRun ==
    Inserting \cap ({"enablefailed", "attacherror", "unslot", "callback", "called",
                     "callbackqueued", "exec"} \cup ClearPlace) = {}
BY DEF Inserting, ClearPlace

LEMMA InsertionRuns ==
    ASSUME NEW d \in Dispatcher, NEW r, NEW s, Shape(d, r), InsertionMove(d, r, s), Running(s)
    PROVE  Running(r) /\ SameWork(r, s) /\ \A ty : RunsAs(r, ty) => RunsAs(s, ty)
<1>0. d \notin User /\ d \notin Source /\ d # Central
  BY KindsApart
<1>1. CASE s = r
  BY <1>1 DEF SameWork
<1>2. CASE r.pc \in Inserting /\ s.pc \in Inserting /\ SameJob(r, s)
  BY <1>2, InsertingNotRun DEF SameJob, SameWork, RunsAs, Running, Inserting
<1>3. CASE r.pc \in Inserting /\ JobOver(d, r, s)
  <2>1. /\ SameWork(r, s) /\ s.pc = r.cont
        /\ r.cont \in {"called", "callbackqueued"}
    BY <1>0, <1>3 DEF JobOver, SameWork
  <2>2. Running(r) /\ r.pc \notin ClearPlace
    BY <1>3 DEF Running, Inserting, ClearPlace
  <2>3. s.pc \notin Inserting \cup ClearPlace \cup {"enablefailed", "attacherror", "unslot", "callback"}
    BY <2>1 DEF Inserting, ClearPlace
  <2>4. ASSUME NEW ty, RunsAs(r, ty) PROVE RunsAs(s, ty)
    BY <1>3, <2>1, <2>3, <2>4 DEF SameWork, RunsAs
  <2>. QED BY <2>1, <2>2, <2>4
<1>4. CASE r.pc = "clearout" /\ s.pc = "clearin" /\ SameWork(r, s)
  BY <1>4 DEF SameWork, RunsAs, Running, Inserting, ClearPlace
<1>5. CASE r.pc = "clearin" /\ s.pc = "attacherror" /\ SameWork(r, s)
  BY <1>5 DEF SameWork, RunsAs, Running, Inserting, ClearPlace
<1>6. r.pc = "clearin" /\ Cleared1(d, r, s) => s.pc = "attacherror" /\ SameWork(r, s)
  BY <1>0 DEF Cleared1, Shape, ClearPlace, Alike, SameJob
<1>. QED BY <1>1, <1>2, <1>3, <1>4, <1>5, <1>6 DEF InsertionMove, Inserting, Alike, SameJob

LEMMA ExecutionRuns ==
    ASSUME TypeInv, RunOK, NEW d \in Dispatcher, Execution(d), Running(th'[d])
    PROVE  /\ Running(th[d]) /\ th'[d].cur = th[d].cur
           /\ RunsAs(th'[d], de[th[d].cur].type)
<1> DEFINE r == th[d]
           s == th'[d]
           ty == de[r.cur].type
<1>0. /\ Moved(d) /\ ExecutionMove(r, s) /\ SameWork(r, s)
      /\ Running(r) => RunsAs(r, ty)
  BY ExecutionMoves DEF ExecutionMove, RunOK
<1>1. ASSUME Running(r), \A x : RunsAs(r, x) /\ x = ty => RunsAs(s, x)
      PROVE  Running(r) /\ s.cur = r.cur /\ RunsAs(s, ty)
  BY <1>0, <1>1 DEF SameWork
<1>2. CASE ExecEvent(d)
  <2>1. r.pc = "exec" /\ ty \in OutTypes \ {"CHANNEL_SETSTATUS"}
    BY <1>2 DEF ExecEvent, Executing, At
  <2>2. s.pc = "callback"
    BY <1>0, <1>2, <2>1, GotoMoves, DispatcherThread DEF ExecEvent, TypeInv
  <2>. QED BY <1>0, <1>1, <2>1, <2>2 DEF Running, RunsAs, SameWork, Inserting, ClearPlace
<1>3. CASE ExecAttachFails(d) \/ EnableFailed(d)
  <2>1. r.pc \in {"exec", "enablefailed"} /\ Running(r) /\ ty = "CHANNEL_ATTACH"
    BY <1>0, <1>3 DEF ExecAttachFails, EnableFailed, Executing, At, Running, RunsAs
  <2>2. s.pc = "clearout"
    BY <1>3, ClearMoves, DispatcherThread DEF ExecAttachFails, EnableFailed, TypeInv
  <2>. QED BY <1>0, <1>1, <2>1, <2>2 DEF RunsAs, SameWork, Inserting
<1>4. CASE ExecInternal(d) \/ ExecRequest(d) \/ CallbackQueued(d) \/ Called(d) \/ AttachErrorUnslot(d)
  <2>1. s.pc = "done"
    BY <1>4, GotoMoves, DispatcherThread
       DEF ExecInternal, ExecRequest, CallbackQueued, Called, AttachErrorUnslot, TypeInv
  <2>. QED BY <2>1 DEF Running
<1>5. CASE ExecAsyncRequest(d)
  <2>1. r.pc = "exec" /\ ty = "USERREQ"
    BY <1>5 DEF ExecAsyncRequest, Executing, At
  <2>2. s.pc = "get" /\ s.cont = "callbackqueued"
    <3>1. PICK jobs : jobs = <<CallbackJob>>
      OBVIOUS
    <3>2. th' = [th EXCEPT ![d].pc = "get", ![d].todo = jobs, ![d].cont = "callbackqueued"]
      BY <1>5, <3>1 DEF ExecAsyncRequest, CallbackJob
    <3>3. Threads(th) /\ d \in Thread
      BY DispatcherThread DEF TypeInv
    <3>. QED BY <3>2, <3>3 DEF Threads, ThreadState
  <2>. QED BY <1>0, <1>1, <2>1, <2>2, InsertingNotRun DEF Running, RunsAs, SameWork, Inserting, ClearPlace
<1>6. CASE Callback(d)
  <2>1. r.pc = "callback" /\ (s.pc = "called" \/ (s.pc = "get" /\ s.cont = "called"))
    BY <1>0, <1>6 DEF Callback, At, ExecutionMove
  <2>. QED BY <1>0, <1>1, <2>1 DEF Running, RunsAs, SameWork, Inserting, ClearPlace
<1>7. CASE EnableFails(d)
  <2>1. r.pc = "called" /\ ty = "CHANNEL_ATTACH"
    BY <1>7 DEF EnableFails, At
  <2>2. s.pc = "enablefailed"
    BY <1>7, GotoMoves, DispatcherThread DEF EnableFails, TypeInv
  <2>. QED BY <1>0, <1>1, <2>1, <2>2 DEF Running, RunsAs, SameWork, Inserting, ClearPlace
<1>8. CASE AttachError(d)
  <2>1. r.pc = "attacherror" /\ s.pc = "unslot"
    BY <1>8, GotoMoves, DispatcherThread DEF AttachError, At, TypeInv
  <2>. QED BY <1>0, <1>1, <2>1 DEF Running, RunsAs, SameWork, Inserting, ClearPlace
<1>. QED BY <1>2, <1>3, <1>4, <1>5, <1>6, <1>7, <1>8 DEF Execution

LEMMA DequeueRuns ==
    ASSUME TypeInv, EntryInv, CallbackInv, NEW d \in Dispatcher, Dequeue(d)
    PROVE  /\ th'[d].pc = "exec" /\ th'[d].cur \in Entry \ free
           /\ RunsAs(th'[d], de[th'[d].cur].type)
<1>0. d \in Thread /\ th[d] \in ThreadState /\ Threads(th) /\ th[d].ph \in Channel
  BY DispatcherThread DEF TypeInv, Threads, ThreadOK, Dequeue, At, AtRest
<1>1. PICK q : q = IF th[d].out THEN outq[th[d].ph] ELSE inq[th[d].ph]
  OBVIOUS
<1>2. PICK s : s = [th[d] EXCEPT !.pc = "exec", !.cur = Head(q), !.returnde = ~de[Head(q)].noreturn]
  OBVIOUS
<1>3. th' = [th EXCEPT ![d] = s] /\ q # <<>> /\ q \in Seq(Entry)
  BY <1>0, <1>1, <1>2, QueueTypes DEF Dequeue, Threads
<1>4. s.pc = "exec" /\ s.cur = Head(q) /\ s.out = th[d].out
  BY <1>0, <1>2 DEF ThreadState
<1>5. Head(q) \in ToSet(q) /\ Head(q) \in Entry
  <2>1. IsInjective(q)
    BY <1>0, <1>1 DEF EntryInv, QueuesOnce
  <2>2. Head(q) \in ToSet(q)
    BY <1>3, <2>1, TailSet
  <2>. QED BY <1>3, <2>2, ToSetElements
<1>6. ContentOK(th[d].ph) /\ Head(q) \in Queued(th[d].ph)
  BY <1>0, <1>1, <1>5 DEF CallbackInv, Queued
<1>7. IF th[d].out THEN de[Head(q)].type \in OutTypes ELSE de[Head(q)].type \in InTypes
  BY <1>1, <1>5, <1>6 DEF ContentOK
<1>8. Head(q) \in Entry \ free
  BY <1>0, <1>6, QueuedNotFree
<1>9. RunsAs(s, de[Head(q)].type)
  BY <1>4, <1>7, <1>0 DEF RunsAs, EntryType, InTypes, OutTypes, Inserting, ClearPlace, ThreadState
<1>. QED BY <1>0, <1>3, <1>4, <1>8, <1>9 DEF Threads

LEMMA NotMoving ==
    ASSUME NEW t \in Thread, NEW d \in Dispatcher, d # t, Moved(t), Running(th'[d])
    PROVE  th'[d] = th[d]
BY DispatcherThread DEF Moved, Running

LEMMA RunsAsBefore ==
    ASSUME TypeInv, EntryInv, Shapes(th), RunOK, [Next]_vars, TypeInv', EntryInv',
           NEW d \in Dispatcher, Running(th[d]), Running(th'[d]), th'[d].cur = th[d].cur,
           RunsAs(th'[d], de[th[d].cur].type)
    PROVE  RunsAs(th'[d], de'[th'[d].cur].type)
<1>1. d \in Thread /\ th[d].pc # "done" /\ th'[d].pc # "done"
  BY DispatcherThread DEF Running
<1>2. th[d].cur \in Entry
  <2>1. Shape(d, th[d])
    BY <1>1 DEF Shapes
  <2>2. th[d].pc \notin AtRest \cup {"serve", "leave"}
    BY <2>1 DEF Running, AtRest, Shape
  <2>. QED BY <1>1, <2>2 DEF TypeInv, Threads, ThreadOK
<1>3. th[d].cur \notin free
  BY <1>1, <1>2, HeldNotFree
<1>4. Once(th[d].cur)'
  BY <1>2 DEF EntryInv
<1>5. Keeping(th[d], th[d].cur)'
  BY <1>1 DEF Keeping
<1>6. th[d].cur \notin free'
  BY <1>1, <1>4, <1>5 DEF Once
<1>. QED BY <1>2, <1>3, <1>6, TypesStay

LEMMA NextRun ==
    ASSUME TypeInv, EntryInv, CallbackInv, Shapes(th), RunOK, [Next]_vars, TypeInv', EntryInv'
    PROVE  RunOK'
<1> SUFFICES ASSUME NEW d \in Dispatcher, Running(th'[d])
             PROVE  RunsAs(th'[d], de'[th'[d].cur].type)
  BY DEF RunOK, Running
<1>0. d \in Thread /\ Threads(th)
  BY DispatcherThread DEF TypeInv
<1>1. CASE th'[d] = th[d]
  <2>1. Running(th[d]) /\ RunsAs(th'[d], de[th[d].cur].type)
    BY <1>1 DEF RunOK
  <2>. QED BY <1>1, <2>1, RunsAsBefore
<1>2. ASSUME NEW t \in Thread, t # d, Moved(t)
      PROVE  th'[d] = th[d]
  BY <1>2, NotMoving
<1>3. ASSUME NEW t \in Thread, Insertion(t) \/ TimesOut(t)
      PROVE  RunsAs(th'[d], de'[th'[d].cur].type)
  <2>1. Moved(t) /\ InsertionMove(t, th[t], th'[t])
    BY <1>3, InsertionMoves
  <2>2. CASE t = d
    <3>1. Running(th[d]) /\ SameWork(th[d], th'[d])
          /\ \A ty : RunsAs(th[d], ty) => RunsAs(th'[d], ty)
      BY <1>0, <2>1, <2>2, InsertionRuns DEF Shapes
    <3>2. RunsAs(th'[d], de[th[d].cur].type)
      BY <3>1 DEF RunOK
    <3>. QED BY <3>1, <3>2, RunsAsBefore DEF SameWork
  <2>. QED BY <1>1, <1>2, <2>1, <2>2
<1>4. ASSUME NEW c \in Dispatcher, DispatcherLoop(c)
      PROVE  RunsAs(th'[d], de'[th'[d].cur].type)
  <2>1. c \in Thread /\ Moved(c) /\ LoopMove(th[c], th'[c])
    BY <1>4, LoopMoves, DispatcherThread
  <2>2. CASE c = d
    <3>1. th'[d].pc = "exec" /\ th[d].pc = "serve"
      BY <2>1, <2>2 DEF LoopMove, Running, Idle
    <3>2. Dequeue(d)
      <4>1. ~Exit(d) /\ ~TakeIn(d) /\ ~ScanStart(d) /\ ~ScanTake(d) /\ ~ScanSkip(d) /\ ~ScanEnd(d)
            /\ ~Leave(d) /\ ~EntryDone(d)
        BY <3>1 DEF Exit, TakeIn, ScanStart, ScanTake, ScanSkip, ScanEnd, Leave, EntryDone, At
      <4>2. ~Unflag(d)
        BY <1>0, <3>1, GotoMoves DEF Unflag
      <4>. QED BY <1>4, <2>2, <4>1, <4>2 DEF DispatcherLoop
    <3>3. th'[d].cur \in Entry \ free /\ RunsAs(th'[d], de[th'[d].cur].type) /\ de' = de
      BY <3>2, DequeueRuns DEF Dequeue
    <3>. QED BY <3>3
  <2>. QED BY <1>1, <1>2, <2>1, <2>2
<1>5. ASSUME NEW c \in Dispatcher, Execution(c)
      PROVE  RunsAs(th'[d], de'[th'[d].cur].type)
  <2>1. c \in Thread /\ Moved(c)
    BY <1>5, ExecutionMoves, DispatcherThread
  <2>2. CASE c = d
    <3>1. Running(th[d]) /\ th'[d].cur = th[d].cur /\ RunsAs(th'[d], de[th[d].cur].type)
      BY <1>5, <2>2, ExecutionRuns
    <3>. QED BY <3>1, RunsAsBefore
  <2>. QED BY <1>1, <1>2, <2>1, <2>2
<1>6. CASE Attaching
  <2>1. Moved(Central) /\ Central \in Thread /\ Central # d
    BY <1>6, AttachingMoves, CentralNotDispatcher
  <2>. QED BY <1>1, <1>2, <2>1
<1>7. ASSUME NEW t \in User \cup {Central}, Closing(t)
      PROVE  RunsAs(th'[d], de'[th'[d].cur].type)
  <2>1. Moved(t) /\ t \in Thread /\ t # d
    BY <1>7, ClosingMoves, KindsApart
  <2>. QED BY <1>1, <1>2, <2>1
<1>8. CASE Environment
  <2>1. \/ th' = th
        \/ \E t \in Thread \ {d} : \E p, jobs, first, cont : Starts(t, p, jobs, first, cont)
    <3>1. CASE \E p \in Channel : AttachStart(p) \/ DetachStart(p)
      BY <3>1, CentralNotDispatcher DEF AttachStart, DetachStart
    <3>2. CASE \E u \in User, p \in Channel : Request(u, p) \/ CloseStart(u, p) \/ Open(u, p)
      <4>1. PICK u \in User, p \in Channel : Request(u, p) \/ CloseStart(u, p) \/ Open(u, p)
        BY <3>2
      <4>2. u \in Thread \ {d}
        BY KindsApart
      <4>. QED BY <4>1, <4>2 DEF Request, CloseStart, Open
    <3>3. CASE \E s \in Source, p \in Channel : Deliver(s, p)
      <4>1. PICK s \in Source, p \in Channel : Deliver(s, p)
        BY <3>3
      <4>2. s \in Thread \ {d}
        BY KindsApart
      <4>. QED BY <4>1, <4>2 DEF Deliver
    <3>. QED BY <1>8, <3>1, <3>2, <3>3 DEF Environment
  <2>2. CASE th' = th
    BY <1>1, <2>2
  <2>3. CASE \E t \in Thread \ {d} : \E p, jobs, first, cont : Starts(t, p, jobs, first, cont)
    <3>1. PICK t \in Thread \ {d} : \E p, jobs, first, cont : Starts(t, p, jobs, first, cont)
      BY <2>3
    <3>2. PICK p, jobs, first, cont : Starts(t, p, jobs, first, cont)
      BY <3>1
    <3>3. Moved(t)
      BY <1>0, <3>2, StartsMoves
    <3>. QED BY <1>1, <1>2, <3>3
  <2>. QED BY <2>1, <2>2, <2>3
<1>9. CASE UNCHANGED vars
  BY <1>1, <1>9 DEF vars
<1>. QED BY <1>3, <1>4, <1>5, <1>6, <1>7, <1>8, <1>9 DEF Next

\* What the threads and the entries are, together
WorkInv == Shapes(th) /\ Directions /\ RunOK

LEMMA InitWork == Init => WorkInv
<1>1. Init => Directions
  BY DEF Init, Directions, Nothing, InTypes
<1>2. Init => RunOK
  BY DispatcherThread DEF Init, RunOK, Running, Idle
<1>. QED BY <1>1, <1>2, InitShape DEF WorkInv

LEMMA NextWork ==
    ASSUME TypeInv, EntryInv, CallbackInv, WorkInv, [Next]_vars, TypeInv', EntryInv'
    PROVE  WorkInv'
<1>1. Shapes(th')
  BY NextShape DEF WorkInv
<1>2. Directions'
  BY NextDirections DEF WorkInv
<1>3. RunOK'
  BY NextRun DEF WorkInv
<1>. QED BY <1>1, <1>2, <1>3 DEF WorkInv, Shapes

-----------------------------------------------------------------------------
(* No event stays behind                                                   *)

\* The central thread at record r attaches a channel, and has not set ATTACHED yet
AttachingAt(r) == \/ r.pc \in {"attaching", "slot", "attach"}
                  \/ r.pc \in Inserting /\ r.cont = "attaching"
AttachingTo(p) == th[Central].ph = p /\ AttachingAt(th[Central])

\* The flag DISPATCHOUT of channel p has a keeper, as in Token
Tokened(p) ==
    \/ p \in ToSet(outList)
    \/ \E t \in Thread : Lists(t, p, TRUE)
    \/ \E d \in Dispatcher : Drains(d, p, TRUE)

\* Thread t clears the outbound queue of p, or is about to set the flag for an
\* entry that is still in it
Clears(t, p) == th[t].ph = p /\ th[t].pc \in {"clearout", "purge"}
Marks(t, p) == th[t].ph = p /\ th[t].pc = "mark" /\ th[t].req \in ToSet(outq[p])
InHand(p) == Tokened(p) \/ \E t \in Thread : Clears(t, p) \/ Marks(t, p)

\* Events of a channel that may be dispatched to, or will be once it is attached,
\* are in somebody's hand; and a channel that attaches is open and idle
HandOK(p) ==
    /\ "DISPATCHOUT" \in flags[p] => Tokened(p)
    /\ outq[p] # <<>> /\ (Has(p, {"ATTACHED", "DETACHING"}) \/ AttachingTo(p)) => InHand(p)
    /\ AttachingTo(p) => /\ ~Has(p, {"ATTACHED", "DETACHING"})
                         /\ "OPEN" \in flags[p]
                         /\ \A d \in Dispatcher : ~Drains(d, p, TRUE)

HandInv == \A p \in Channel : HandOK(p)

\* A thread at record r holds the token of its channel as a dispatcher
Draining(r) == r.out = TRUE /\ r.pc \notin Resting

\* The step of thread t from record r to s leaves the token of its channel alone,
\* and begins no attach
Firm(t, r, s) ==
    /\ r.pc # "listout"
    /\ t \in Dispatcher => /\ Draining(s) <=> Draining(r)
                           /\ Draining(r) => s.ph = r.ph
    /\ t = Central /\ AttachingAt(s) => AttachingAt(r) /\ s.ph = r.ph

LEMMA TokenedKept ==
    ASSUME NEW t \in Thread, Moved(t), NEW p, Tokened(p),
           th[t].ph = p => Firm(t, th[t], th'[t]),
           p \in ToSet(outList) => p \in ToSet(outList')
    PROVE  Tokened(p)'
<1>1. ASSUME NEW u \in Thread, Lists(u, p, TRUE)
      PROVE  Tokened(p)'
  <2>1. u # t
    BY <1>1 DEF Lists, Firm
  <2>2. th'[u] = th[u]
    BY <1>1, <2>1 DEF Moved, Lists
  <2>. QED BY <1>1, <2>2 DEF Tokened, Lists
<1>2. ASSUME NEW d \in Dispatcher, Drains(d, p, TRUE)
      PROVE  Tokened(p)'
  <2>1. d \in Thread /\ Draining(th[d]) /\ th[d].ph = p
    BY <1>2, DispatcherThread DEF Drains, Draining, Resting
  <2>2. Draining(th'[d]) /\ th'[d].ph = p
    <3>1. CASE d = t
      BY <2>1, <3>1 DEF Firm
    <3>2. CASE d # t
      <4>1. th'[d] = th[d]
        BY <2>1, <3>2 DEF Moved, Draining, Resting
      <4>. QED BY <2>1, <4>1
    <3>. QED BY <3>1, <3>2
  <2>3. Drains(d, p, TRUE)'
    BY <2>2 DEF Drains, Draining, Resting
  <2>. QED BY <2>3 DEF Tokened
<1>. QED BY <1>1, <1>2 DEF Tokened

LEMMA InHandKept ==
    ASSUME NEW t \in Thread, Moved(t), NEW p, InHand(p), outq'[p] = outq[p],
           th[t].ph = p => Firm(t, th[t], th'[t]),
           Clears(t, p) \/ Marks(t, p) => th'[t] = th[t],
           p \in ToSet(outList) => p \in ToSet(outList')
    PROVE  InHand(p)'
<1>1. CASE Tokened(p)
  BY <1>1, TokenedKept DEF InHand
<1>2. ASSUME NEW u \in Thread, Clears(u, p) \/ Marks(u, p)
      PROVE  InHand(p)'
  <2>1. th'[u] = th[u]
    BY <1>2 DEF Moved, Clears, Marks
  <2>2. (Clears(u, p) \/ Marks(u, p))'
    BY <1>2, <2>1 DEF Clears, Marks
  <2>. QED BY <2>2 DEF InHand
<1>. QED BY <1>1, <1>2 DEF InHand

LEMMA DrainsBefore ==
    ASSUME NEW t \in Thread, Moved(t), NEW p,
           th'[t].ph = p => Firm(t, th[t], th'[t]),
           NEW d \in Dispatcher, Drains(d, p, TRUE)'
    PROVE  Drains(d, p, TRUE)
<1>1. d \in Thread /\ Draining(th'[d]) /\ th'[d].ph = p
  BY DispatcherThread DEF Drains, Draining, Resting
<1>2. Draining(th[d]) /\ th[d].ph = p
  <2>1. CASE d = t
    BY <1>1, <2>1 DEF Firm
  <2>2. CASE d # t
    <3>1. th'[d] = th[d]
      BY <1>1, <2>2 DEF Moved, Draining, Resting
    <3>. QED BY <1>1, <3>1
  <2>. QED BY <2>1, <2>2
<1>. QED BY <1>2 DEF Drains, Draining, Resting

LEMMA AttachingBefore ==
    ASSUME NEW t \in Thread, Moved(t), NEW p,
           th'[t].ph = p => Firm(t, th[t], th'[t]),
           AttachingTo(p)'
    PROVE  AttachingTo(p)
<1>1. CASE t = Central
  BY <1>1 DEF Firm, AttachingTo, AttachingAt
<1>2. CASE t # Central
  <2>1. th'[Central] = th[Central]
    BY <1>2, CentralNotDispatcher DEF Moved
  <2>. QED BY <2>1 DEF AttachingTo, AttachingAt
<1>. QED BY <1>1, <1>2

\* What is left to show of a step that is firm
LEMMA FirmHand ==
    ASSUME NEW p \in Channel, HandOK(p), NEW t \in Thread, Moved(t),
           th[t].ph = p \/ th'[t].ph = p => Firm(t, th[t], th'[t]),
           p \in ToSet(outList) => p \in ToSet(outList'),
           \/ outq'[p] = <<>>
           \/ InHand(p)'
           \/ outq'[p] = outq[p] /\ (Clears(t, p) \/ Marks(t, p) => th'[t] = th[t]),
           "DISPATCHOUT" \in flags'[p] => "DISPATCHOUT" \in flags[p] \/ Tokened(p)',
           flags'[p] \cap {"ATTACHED", "DETACHING"} \subseteq flags[p],
           AttachingTo(p) /\ "OPEN" \in flags[p] => "OPEN" \in flags'[p]
    PROVE  HandOK(p)'
<1>1. "DISPATCHOUT" \in flags'[p] => Tokened(p)'
  BY TokenedKept DEF HandOK
<1>2. AttachingTo(p)' => AttachingTo(p)
  BY AttachingBefore
<1>3. Has(p, {"ATTACHED", "DETACHING"})' => Has(p, {"ATTACHED", "DETACHING"})
  BY DEF Has
<1>4. ASSUME (outq[p] # <<>> /\ (Has(p, {"ATTACHED", "DETACHING"}) \/ AttachingTo(p)))'
      PROVE  InHand(p)'
  <2>1. CASE outq'[p] = outq[p] /\ (Clears(t, p) \/ Marks(t, p) => th'[t] = th[t])
    <3>1. InHand(p)
      BY <1>2, <1>3, <1>4, <2>1 DEF HandOK
    <3>. QED BY <2>1, <3>1, InHandKept
  <2>. QED BY <1>4, <2>1
<1>5. ASSUME AttachingTo(p)'
      PROVE  /\ ~Has(p, {"ATTACHED", "DETACHING"})'
             /\ "OPEN" \in flags'[p]
             /\ \A d \in Dispatcher : ~Drains(d, p, TRUE)'
  <2>1. \A d \in Dispatcher : Drains(d, p, TRUE)' => Drains(d, p, TRUE)
    BY DrainsBefore
  <2>. QED BY <1>2, <1>3, <1>5, <2>1 DEF HandOK
<1>. QED BY <1>1, <1>4, <1>5 DEF HandOK

\* Most steps touch neither flags nor outbound queue nor list
LEMMA QuietHand ==
    ASSUME NEW p \in Channel, HandOK(p), NEW t \in Thread, Moved(t), Firm(t, th[t], th'[t]),
           UNCHANGED <<flags, outq, outList>>,
           th[t].pc \in {"clearout", "purge", "mark"} => th'[t] = th[t]
    PROVE  HandOK(p)'
BY FirmHand DEF Clears, Marks

\* Only the flags change, and p is not the one to be attached or detached by this
LEMMA FlagsHand ==
    ASSUME NEW p \in Channel, HandOK(p), NEW t \in Thread, Moved(t), Firm(t, th[t], th'[t]),
           UNCHANGED <<outq, outList>>,
           flags'[p] \cap {"ATTACHED", "DETACHING", "DISPATCHOUT"} \subseteq flags[p],
           AttachingTo(p) /\ "OPEN" \in flags[p] => "OPEN" \in flags'[p],
           th[t].pc \in {"clearout", "purge", "mark"} => th'[t] = th[t]
    PROVE  HandOK(p)'
<1>1. flags'[p] \cap {"ATTACHED", "DETACHING"} \subseteq flags[p]
      /\ ("DISPATCHOUT" \in flags'[p] => "DISPATCHOUT" \in flags[p])
  OBVIOUS
<1>. QED BY <1>1, FirmHand DEF Clears, Marks

LEMMA InsertionFirm ==
    ASSUME NEW t \in Thread, NEW r, NEW s, Shape(t, r), InsertionMove(t, r, s), r.pc # "listout"
    PROVE  Firm(t, r, s)
<1>1. CASE s = r
  BY <1>1 DEF Firm
<1>2. CASE r.pc \in Inserting /\ s.pc \in Inserting /\ SameJob(r, s)
  <2>1. r.pc \notin Resting /\ s.pc \notin Resting
    BY <1>2 DEF Inserting, Resting
  <2>2. s.pc \notin {"attaching", "slot", "attach"}
    BY <1>2 DEF Inserting
  <2>3. s.ph = r.ph /\ s.out = r.out /\ s.cont = r.cont
    BY <1>2 DEF SameJob, SameWork
  <2>4. Draining(s) <=> Draining(r)
    BY <2>1, <2>3 DEF Draining
  <2>5. AttachingAt(s) => AttachingAt(r)
    BY <1>2, <2>2, <2>3 DEF AttachingAt
  <2>. QED BY <2>3, <2>4, <2>5 DEF Firm
<1>3. CASE r.pc \in Inserting /\ JobOver(t, r, s)
  <2>1. CASE t \in User \cup Source
    BY <2>1, KindsApart DEF Firm
  <2>2. CASE t \in Dispatcher
    <3>1. s.ph = r.ph /\ s.out = r.out /\ s.pc \in {"called", "callbackqueued"}
      BY <1>3, <2>2, KindsApart DEF JobOver
    <3>2. r.pc \notin Resting /\ s.pc \notin Resting
      BY <1>3, <3>1 DEF Inserting, Resting
    <3>. QED BY <2>2, <3>1, <3>2, KindsApart DEF Firm, Draining
  <2>3. CASE t = Central
    <3>1. s.ph = r.ph /\ (s.pc = "unslot" \/ r.cont = "attaching")
      BY <1>3, <2>3, KindsApart DEF JobOver
    <3>. QED BY <1>3, <2>3, <3>1, KindsApart DEF Firm, AttachingAt, Inserting
  <2>. QED BY <2>1, <2>2, <2>3, KindsApart
<1>4. CASE r.pc = "clearout" /\ s.pc = "clearin" /\ SameWork(r, s)
  BY <1>4 DEF Firm, Draining, Resting, AttachingAt, Inserting, SameWork
<1>5. CASE r.pc = "clearin" /\ Cleared1(t, r, s)
  <2>1. CASE t \in User
    BY <2>1, KindsApart DEF Firm
  <2>2. CASE t \notin User
    <3>1. s.ph = r.ph /\ s.out = r.out
          /\ \/ t \in Dispatcher /\ s.pc = "attacherror"
             \/ t = Central /\ s.pc \in {"unslot", "detach"}
      <4>1. s.pc = r.cont /\ s.ph = r.ph /\ s.out = r.out
        BY <1>5, <2>2 DEF Cleared1, Alike, SameJob, SameWork
      <4>2. \/ t \in Dispatcher /\ r.cont = "attacherror"
            \/ t = Central /\ r.cont \in {"unslot", "detach"}
        BY <1>5, <2>2 DEF Shape, ClearPlace
      <4>. QED BY <4>1, <4>2
    <3>. QED BY <1>5, <3>1, KindsApart DEF Firm, Draining, Resting, AttachingAt, Inserting
  <2>. QED BY <2>1, <2>2
<1>. QED BY <1>1, <1>2, <1>3, <1>4, <1>5 DEF InsertionMove, Inserting, Alike, SameJob

LEMMA ExecutionFirm ==
    ASSUME NEW d \in Dispatcher, NEW r, NEW s, ExecutionMove(r, s)
    PROVE  Firm(d, r, s) /\ r.pc \notin {"clearout", "purge", "mark"}
<1>1. r.pc \notin Resting \cup {"listout", "clearout", "purge", "mark"} /\ s.pc \notin Resting
  BY DEF ExecutionMove, Resting
<1>. QED BY <1>1, KindsApart DEF Firm, Draining, ExecutionMove, SameWork

LEMMA AttachingFirm ==
    ASSUME NEW r, NEW s, AttachingMove(r, s)
    PROVE  Firm(Central, r, s) /\ r.pc \notin {"clearout", "purge", "mark"}
<1>1. r.pc \notin {"listout", "clearout", "purge", "mark"}
  BY DEF AttachingMove
<1>2. AttachingAt(s) => AttachingAt(r) /\ s.ph = r.ph
  BY DEF AttachingMove, AttachingAt, Inserting, Alike, SameJob, SameWork, Idle
<1>. QED BY <1>1, <1>2, KindsApart DEF Firm

LEMMA ClosingFirm ==
    ASSUME NEW t \in User \cup {Central}, NEW r, NEW s, Shape(t, r), ClosingMove(t, r, s)
    PROVE  Firm(t, r, s) /\ r.pc \notin {"clearout", "purge", "mark"}
<1>1. r.pc \in ClosePlace
  BY DEF ClosingMove, ClosePlace
<1>2. t = Central => s.pc \in {"closing", "closeslot", "clearout", "unslot"}
  BY <1>1, KindsApart DEF ClosingMove, Cleared1, Shape
<1>. QED BY <1>1, <1>2, KindsApart DEF Firm, AttachingAt, Inserting, ClosePlace

-----------------------------------------------------------------------------
(* Threads that insert and clear                                           *)

LEMMA HandAppend ==
    ASSUME TypeInv, WorkInv, HandInv, NEW t \in Thread, InsertAppend(t), NEW p \in Channel
    PROVE  HandOK(p)'
<1>1. /\ Moved(t) /\ InsertionMove(t, th[t], th'[t]) /\ Shape(t, th[t]) /\ HandOK(p)
      /\ th[t].pc = "insert"
  BY InsertionMoves DEF Insertion, WorkInv, Shapes, HandInv, InsertAppend, At
<1>2. Firm(t, th[t], th'[t])
  BY <1>1, InsertionFirm
<1>3. UNCHANGED <<flags, outList>> /\ ~Clears(t, p) /\ ~Marks(t, p)
  BY <1>1 DEF InsertAppend, Clears, Marks
<1>4. CASE outq'[p] = outq[p]
  BY <1>1, <1>2, <1>3, <1>4, FirmHand
<1>5. CASE outq'[p] # outq[p]
  <2>1. PICK e : e = th[t].req
    OBVIOUS
  <2>2. /\ e \in Entry /\ outq \in [Channel -> Seq(Entry)]
        /\ th[t].ph \in Channel /\ Threads(th)
    BY <1>1, <2>1, QueueTypes DEF TypeInv, Threads, ThreadOK, Filling, Inserting, AtRest
  <2>3. th[t].ph = p /\ outq'[p] = Append(outq[p], e)
    BY <1>5, <2>1, <2>2 DEF InsertAppend
  <2>4. e \in ToSet(outq'[p])
    BY <2>2, <2>3, AppendSet
  <2>5. th'[t].pc = "mark" /\ th'[t].ph = p /\ th'[t].req = e
    BY <2>1, <2>2, <2>3, GotoMoves DEF InsertAppend, Alike, SameJob, SameWork
  <2>6. Marks(t, p)'
    BY <2>4, <2>5 DEF Marks
  <2>7. InHand(p)'
    BY <2>6 DEF InHand
  <2>. QED BY <1>1, <1>2, <1>3, <2>7, FirmHand
<1>. QED BY <1>4, <1>5

LEMMA HandCleared ==
    ASSUME TypeInv, WorkInv, HandInv, NEW t \in Thread, Purge(t) \/ ClearOut(t), NEW p \in Channel
    PROVE  HandOK(p)'
<1>1. /\ Moved(t) /\ InsertionMove(t, th[t], th'[t]) /\ Shape(t, th[t]) /\ HandOK(p)
      /\ th[t].pc \in {"purge", "clearout"}
  BY InsertionMoves DEF Insertion, WorkInv, Shapes, HandInv, Purge, ClearOut, At
<1>2. Firm(t, th[t], th'[t])
  BY <1>1, InsertionFirm
<1>3. UNCHANGED <<flags, outList>>
  BY DEF Purge, ClearOut
<1>4. outq \in [Channel -> Seq(Entry)]
  BY QueueTypes
<1>5. CASE th[t].ph # p
  <2>1. outq'[p] = outq[p] /\ ~Clears(t, p) /\ ~Marks(t, p)
    BY <1>4, <1>5 DEF Purge, ClearOut, TakeFirst, Clears, Marks
  <2>. QED BY <1>1, <1>2, <1>3, <2>1, FirmHand
<1>6. CASE th[t].ph = p /\ outq[p] = <<>>
  <2>1. outq'[p] = <<>>
    BY <1>6 DEF Purge, ClearOut
  <2>. QED BY <1>1, <1>2, <1>3, <2>1, FirmHand
<1>7. CASE th[t].ph = p /\ outq[p] # <<>>
  <2>1. th' = th
    BY <1>7 DEF Purge, ClearOut
  <2>2. Clears(t, p)'
    BY <1>1, <1>7, <2>1 DEF Clears
  <2>3. InHand(p)'
    BY <2>2 DEF InHand
  <2>. QED BY <1>1, <1>2, <1>3, <2>3, FirmHand
<1>. QED BY <1>5, <1>6, <1>7

LEMMA HandMark ==
    ASSUME TypeInv, CallbackInv, WorkInv, HandInv, NEW t \in Thread, Mark(t), NEW p \in Channel
    PROVE  HandOK(p)'
<1>1. /\ Moved(t) /\ InsertionMove(t, th[t], th'[t]) /\ Shape(t, th[t]) /\ HandOK(p)
      /\ th[t].pc = "mark"
  BY InsertionMoves DEF Insertion, WorkInv, Shapes, HandInv, Mark, At
<1>2. Firm(t, th[t], th'[t])
  BY <1>1, InsertionFirm
<1>3. UNCHANGED <<outq, outList>> /\ Threads(th) /\ flags \in [Channel -> SUBSET Flag]
  BY DEF Mark, TypeInv, RestOK
<1>4. th[t].req \in Entry
  BY <1>1, <1>3 DEF Threads, ThreadOK, Filling, Inserting
<1>5. CASE th[t].ph # p
  <2>1. flags'[p] = flags[p] /\ ~Clears(t, p) /\ ~Marks(t, p)
    BY <1>3, <1>5 DEF Mark, Clears, Marks
  <2>. QED BY <1>1, <1>2, <1>3, <2>1, FirmHand
<1>6. CASE th[t].ph = p /\ de[th[t].req].inbound
  <2>1. flags'[p] = flags[p] \cup {"DISPATCHIN"}
    BY <1>3, <1>6 DEF Mark
  <2>2. ~Marks(t, p)
    <3>1. ASSUME th[t].req \in ToSet(outq[p]) PROVE FALSE
      <4>1. de[th[t].req].type \in OutTypes
        BY <3>1 DEF CallbackInv, ContentOK
      <4>2. de[th[t].req].type \in InTypes
        BY <1>4, <1>6 DEF WorkInv, Directions
      <4>. QED BY <4>1, <4>2 DEF InTypes, OutTypes
    <3>. QED BY <3>1 DEF Marks
  <2>3. ~Clears(t, p)
    BY <1>1 DEF Clears
  <2>. QED BY <1>1, <1>2, <1>3, <2>1, <2>2, <2>3, FirmHand
<1>7. CASE th[t].ph = p /\ ~de[th[t].req].inbound
  <2>1. flags'[p] = flags[p] \cup {"DISPATCHOUT"}
    BY <1>3, <1>7 DEF Mark
  <2>2. Tokened(p)'
    <3>1. CASE "DISPATCHOUT" \in flags[p]
      <4>1. Tokened(p)
        BY <1>1, <3>1 DEF HandOK
      <4>. QED BY <1>1, <1>2, <1>3, <4>1, TokenedKept
    <3>2. CASE "DISPATCHOUT" \notin flags[p]
      <4>1. Goto(t, "listout")
        BY <1>7, <3>2 DEF Mark, FirstToSet, Has
      <4>2. th'[t].pc = "listout" /\ th'[t].ph = p
        BY <1>3, <1>7, <4>1, GotoMoves DEF Alike, SameJob, SameWork
      <4>3. Lists(t, p, TRUE)'
        BY <4>2 DEF Lists
      <4>. QED BY <4>3 DEF Tokened
    <3>. QED BY <3>1, <3>2
  <2>3. InHand(p)'
    BY <2>2 DEF InHand
  <2>. QED BY <1>1, <1>2, <1>3, <2>1, <2>2, <2>3, FirmHand
<1>. QED BY <1>5, <1>6, <1>7

\* A step with the token is a matter of its channel only
LEMMA HandElsewhere ==
    ASSUME NEW p \in Channel, HandOK(p), NEW t \in Thread, Moved(t),
           th[t].ph # p, th'[t].ph # p,
           p \in ToSet(outList) => p \in ToSet(outList'),
           outq'[p] = outq[p], flags'[p] = flags[p]
    PROVE  HandOK(p)'
<1>1. ~Clears(t, p) /\ ~Marks(t, p)
  BY DEF Clears, Marks
<1>. QED BY <1>1, FirmHand

LEMMA HandListed ==
    ASSUME TypeInv, WorkInv, HandInv, NEW t \in Thread, PutOnOutList(t), NEW p \in Channel
    PROVE  HandOK(p)'
<1>1. /\ Threads(th) /\ th[t].pc = "listout" /\ HandOK(p) /\ outList \in Seq(Channel)
      /\ UNCHANGED <<flags, outq>>
  BY DEF TypeInv, RestOK, PutOnOutList, At, HandInv
<1>2. th[t].ph \in Channel
  BY <1>1 DEF Threads, ThreadOK, AtRest
<1>3. Moved(t) /\ th'[t].ph = th[t].ph /\ th'[t].pc = "signal" /\ Alike(th[t], th'[t])
  BY <1>1, GotoMoves DEF PutOnOutList, Alike, SameJob, SameWork
<1>4. ToSet(outList') = ToSet(outList) \cup {th[t].ph}
  BY <1>1, <1>2, AppendSet DEF PutOnOutList
<1>5. CASE th[t].ph # p
  BY <1>1, <1>3, <1>4, <1>5, HandElsewhere
<1>6. CASE th[t].ph = p
  <2>1. Tokened(p)'
    BY <1>4, <1>6 DEF Tokened
  <2>2. ASSUME AttachingTo(p)'
        PROVE  /\ ~Has(p, {"ATTACHED", "DETACHING"})'
               /\ "OPEN" \in flags'[p]
               /\ \A d \in Dispatcher : ~Drains(d, p, TRUE)'
    <3>1. AttachingTo(p)
      <4>1. CASE t = Central
        BY <1>1, <1>3, <2>2, <4>1 DEF AttachingTo, AttachingAt, Inserting, Alike, SameJob
      <4>2. CASE t # Central
        <5>1. th'[Central] = th[Central]
          BY <1>3, <4>2, CentralNotDispatcher DEF Moved
        <5>. QED BY <2>2, <5>1 DEF AttachingTo, AttachingAt
      <4>. QED BY <4>1, <4>2
    <3>2. ASSUME NEW d \in Dispatcher, Drains(d, p, TRUE)' PROVE Drains(d, p, TRUE)
      <4>1. CASE d = t
        BY <1>1, <1>3, <3>2, <4>1 DEF Drains, Alike, SameJob, SameWork
      <4>2. CASE d # t
        <5>1. th'[d] = th[d]
          BY <1>3, <3>2, <4>2, DispatcherThread DEF Moved, Drains
        <5>. QED BY <3>2, <5>1 DEF Drains
      <4>. QED BY <4>1, <4>2
    <3>. QED BY <1>1, <3>1, <3>2 DEF HandOK, Has
  <2>. QED BY <2>1, <2>2 DEF HandOK, InHand
<1>. QED BY <1>5, <1>6

LEMMA HandInsertion ==
    ASSUME TypeInv, CallbackInv, WorkInv, HandInv, NEW t \in Thread, Insertion(t) \/ TimesOut(t),
           NEW p \in Channel
    PROVE  HandOK(p)'
<1>1. CASE InsertAppend(t)
  BY <1>1, HandAppend
<1>2. CASE Purge(t) \/ ClearOut(t)
  BY <1>2, HandCleared
<1>3. CASE Mark(t)
  BY <1>3, HandMark
<1>4. CASE PutOnOutList(t)
  BY <1>4, HandListed
<1>5. CASE \/ GetEntry(t) \/ GetEntryFails(t) \/ InsertRefused(t) \/ InsertNoSpace(t) \/ Drop(t)
           \/ PutOnInList(t) \/ EntryDispatched(t) \/ Answered(t) \/ ClearIn(t) \/ TimesOut(t)
  <2>1. /\ Moved(t) /\ InsertionMove(t, th[t], th'[t]) /\ Shape(t, th[t]) /\ HandOK(p)
    BY InsertionMoves DEF WorkInv, Shapes, HandInv
  <2>2. th[t].pc \notin {"listout", "clearout", "purge", "mark"}
    BY <1>5 DEF GetEntry, GetEntryFails, InsertRefused, InsertNoSpace, Drop, PutOnInList,
                EntryDispatched, Answered, ClearIn, TimesOut, At
  <2>3. UNCHANGED <<flags, outq, outList>>
    BY <1>5 DEF GetEntry, GetEntryFails, InsertRefused, InsertNoSpace, Drop, PutOnInList,
                EntryDispatched, Answered, ClearIn, TimesOut, queues
  <2>4. Firm(t, th[t], th'[t])
    BY <2>1, <2>2, InsertionFirm
  <2>. QED BY <2>1, <2>2, <2>3, <2>4, QuietHand
<1>. QED BY <1>1, <1>2, <1>3, <1>4, <1>5 DEF Insertion

-----------------------------------------------------------------------------
(* Dispatchers                                                             *)

LEMMA RemoveAtSet ==
    ASSUME NEW S, NEW s \in Seq(S), NEW i \in 1..Len(s), NEW x \in ToSet(s), x # s[i]
    PROVE  x \in ToSet(RemoveAt(s, i))
<1>1. /\ RemoveAt(s, i) \in Seq(S) /\ Len(RemoveAt(s, i)) = Len(s) - 1
      /\ \A j \in 1..Len(s) - 1 : RemoveAt(s, i)[j] = IF j < i THEN s[j] ELSE s[j + 1]
  BY RemoveAtProperties
<1>2. Len(s) \in Nat /\ DOMAIN s = 1..Len(s) /\ DOMAIN RemoveAt(s, i) = 1..Len(s) - 1
  BY <1>1, LenProperties
<1>3. PICK k \in 1..Len(s) : x = s[k]
  BY <1>2 DEF ToSet
<1>4. CASE k < i
  <2>1. k \in 1..Len(s) - 1 /\ RemoveAt(s, i)[k] = x
    BY <1>1, <1>2, <1>3, <1>4
  <2>. QED BY <1>2, <2>1 DEF ToSet
<1>5. CASE k > i
  <2>1. k - 1 \in 1..Len(s) - 1 /\ RemoveAt(s, i)[k - 1] = x
    BY <1>1, <1>2, <1>3, <1>5
  <2>. QED BY <1>2, <2>1 DEF ToSet
<1>6. k # i
  BY <1>3
<1>. QED BY <1>2, <1>4, <1>5, <1>6

LEMMA LoopFirm ==
    ASSUME NEW d \in Dispatcher, NEW r, NEW s, LoopMove(r, s),
           ~(r.pc = "scan" /\ s.pc = "serve"),
           r.pc = "serve" /\ s.pc = "leave" => r.out # TRUE
    PROVE  Firm(d, r, s) /\ r.pc \notin {"clearout", "purge", "mark"}
<1>1. r.pc \notin {"listout", "clearout", "purge", "mark"} /\ d # Central
  BY KindsApart DEF LoopMove
<1>2. CASE r.pc \in Resting
  <2>1. s.pc \in Resting \/ (s.pc = "serve" /\ ~s.out)
    BY <1>2 DEF LoopMove, Resting, Idle
  <2>. QED BY <1>1, <1>2, <2>1 DEF Firm, Draining
<1>3. CASE r.pc \in {"serve", "done"} /\ s.pc \in {"serve", "exec"} /\ s.ph = r.ph /\ s.out = r.out
  BY <1>1, <1>3 DEF Firm, Draining, Resting
<1>4. CASE r.pc = "serve" /\ s.pc = "leave" /\ SameJob(r, s)
  <2>1. ~Draining(r) /\ ~Draining(s)
    BY <1>4 DEF Draining, SameJob, SameWork
  <2>. QED BY <1>1, <2>1 DEF Firm
<1>. QED BY <1>2, <1>3, <1>4 DEF LoopMove, Resting

LEMMA TokenedHand == ASSUME NEW p, Tokened(p)', ~AttachingTo(p)' PROVE HandOK(p)'
BY DEF HandOK, InHand

LEMMA HandScanTake ==
    ASSUME TypeInv, WorkInv, HandInv, NEW d \in Dispatcher, ScanTake(d), NEW p \in Channel
    PROVE  HandOK(p)'
<1>1. /\ d \in Thread /\ Threads(th) /\ th[d].pc = "scan" /\ HandOK(p) /\ outList \in Seq(Channel)
      /\ UNCHANGED <<flags, outq>> /\ th[d] \in ThreadState
  BY DispatcherThread DEF TypeInv, RestOK, Threads, ScanTake, At, HandInv
<1>2. PICK i : i = th[d].at
  OBVIOUS
<1>3. i \in 1..Len(outList) /\ Has(outList[i], {"ATTACHED", "DETACHING"})
      /\ outList' = RemoveAt(outList, i)
  BY <1>1, <1>2 DEF ScanTake, Threads, ThreadOK, ThreadState
<1>4. PICK q : q = outList[i]
  OBVIOUS
<1>5. PICK s : s = [th[d] EXCEPT !.pc = "serve", !.ph = q, !.out = TRUE, !.at = 0]
  OBVIOUS
<1>6. th' = [th EXCEPT ![d] = s] /\ s.pc = "serve" /\ s.out = TRUE /\ s.ph = q
  BY <1>1, <1>2, <1>4, <1>5 DEF ScanTake, Threads, ThreadState
<1>7. Moved(d) /\ th'[d] = s
  BY <1>1, <1>6, ChangeMoves
<1>8. th[d].ph = NoChannel /\ p # NoChannel
  BY <1>1, ConstantsAssumption DEF WorkInv, Shapes, Shape, AtRest
<1>9. CASE q = p
  <2>1. Drains(d, p, TRUE)'
    BY <1>6, <1>7, <1>9 DEF Drains
  <2>2. ~AttachingTo(p)
    BY <1>1, <1>3, <1>4, <1>9 DEF HandOK
  <2>3. th'[Central] = th[Central]
    BY <1>7, CentralNotDispatcher DEF Moved
  <2>4. ~AttachingTo(p)'
    BY <2>2, <2>3 DEF AttachingTo, AttachingAt
  <2>. QED BY <2>1, <2>4, TokenedHand DEF Tokened
<1>10. CASE q # p
  <2>1. p \in ToSet(outList) => p \in ToSet(outList')
    BY <1>1, <1>3, <1>4, <1>10, RemoveAtSet
  <2>2. th[d].ph # p /\ th'[d].ph # p
    BY <1>6, <1>7, <1>8, <1>10
  <2>. QED BY <1>1, <1>7, <2>1, <2>2, HandElsewhere
<1>. QED BY <1>9, <1>10

LEMMA HandScanSkip ==
    ASSUME TypeInv, WorkInv, HandInv, NEW d \in Dispatcher, ScanSkip(d), NEW p \in Channel
    PROVE  HandOK(p)'
<1>1. /\ d \in Thread /\ Threads(th) /\ th[d].pc = "scan" /\ HandOK(p) /\ outList \in Seq(Channel)
      /\ outq' = outq /\ th[d] \in ThreadState /\ flags \in [Channel -> SUBSET Flag]
  BY DispatcherThread DEF TypeInv, RestOK, Threads, ScanSkip, At, HandInv
<1>2. Moved(d) /\ LoopMove(th[d], th'[d])
  BY LoopMoves DEF DispatcherLoop
<1>3. th[d].ph = NoChannel /\ p # NoChannel
  BY <1>1, ConstantsAssumption DEF WorkInv, Shapes, Shape, AtRest
<1>4. PICK i : i = th[d].at
  OBVIOUS
<1>5. i \in 1..Len(outList) /\ ~Has(outList[i], {"ATTACHED", "DETACHING"})
  BY <1>1, <1>4 DEF ScanSkip, Threads, ThreadOK, ThreadState
<1>6. CASE Has(outList[i], {"OPEN"})
  <2>1. UNCHANGED <<flags, outList>> /\ th' = [th EXCEPT ![d].at = i + 1]
    BY <1>4, <1>6 DEF ScanSkip
  <2>2. th'[d].pc = "scan"
    BY <1>1, <2>1 DEF Threads, ThreadState
  <2>3. Firm(d, th[d], th'[d])
    BY <1>1, <1>2, <2>2, LoopFirm
  <2>. QED BY <1>1, <1>2, <2>1, <2>3, QuietHand
<1>7. CASE ~Has(outList[i], {"OPEN"})
  <2>1. /\ outList' = RemoveAt(outList, i) /\ th' = th
        /\ flags' = [flags EXCEPT ![outList[i]] = @ \ {"DISPATCHOUT"}]
    BY <1>4, <1>7 DEF ScanSkip
  <2>2. CASE outList[i] # p
    <3>1. flags'[p] = flags[p]
      BY <1>1, <2>1, <2>2
    <3>2. p \in ToSet(outList) => p \in ToSet(outList')
      BY <1>1, <1>5, <2>1, <2>2, RemoveAtSet
    <3>. QED BY <1>1, <1>2, <1>3, <2>1, <3>1, <3>2, HandElsewhere
  <2>3. CASE outList[i] = p
    <3>1. flags'[p] = flags[p] \ {"DISPATCHOUT"}
      BY <1>1, <2>1, <2>3
    <3>2. ~Has(p, {"ATTACHED", "DETACHING"})'
      BY <1>5, <2>3, <3>1 DEF Has
    <3>3. ~AttachingTo(p)
      BY <1>1, <1>7, <2>3 DEF HandOK, Has
    <3>4. ~AttachingTo(p)'
      BY <2>1, <3>3 DEF AttachingTo, AttachingAt
    <3>. QED BY <3>1, <3>2, <3>4 DEF HandOK
  <2>. QED BY <2>2, <2>3
<1>. QED BY <1>6, <1>7

LEMMA HandDequeue ==
    ASSUME TypeInv, WorkInv, HandInv, NEW d \in Dispatcher, Dequeue(d), NEW p \in Channel
    PROVE  HandOK(p)'
<1>1. /\ d \in Thread /\ Threads(th) /\ th[d].pc = "serve" /\ HandOK(p)
      /\ UNCHANGED <<flags, outList>>
  BY DispatcherThread DEF TypeInv, Dequeue, At, HandInv
<1>2. Moved(d) /\ LoopMove(th[d], th'[d]) /\ th'[d].pc = "exec"
  <2>1. th'[d].pc = "exec"
    BY <1>1 DEF Dequeue, Threads, ThreadState
  <2>. QED BY <2>1, LoopMoves DEF DispatcherLoop
<1>3. Firm(d, th[d], th'[d]) /\ ~Clears(d, p) /\ ~Marks(d, p)
  BY <1>1, <1>2, LoopFirm DEF Clears, Marks
<1>4. CASE outq'[p] = outq[p]
  BY <1>1, <1>2, <1>3, <1>4, FirmHand
<1>5. CASE outq'[p] # outq[p]
  <2>1. th[d].out /\ th[d].ph = p
    BY <1>5, QueueTypes DEF Dequeue
  <2>2. th'[d].out /\ th'[d].ph = p
    BY <1>1, <1>2, <2>1 DEF LoopMove, Idle
  <2>3. Drains(d, p, TRUE)'
    BY <1>1, <1>2, <2>1, <2>2 DEF Drains, Threads, ThreadState, Dequeue
  <2>4. InHand(p)'
    BY <2>3 DEF InHand, Tokened
  <2>. QED BY <1>1, <1>2, <1>3, <2>4, FirmHand
<1>. QED BY <1>4, <1>5

LEMMA HandUnflag ==
    ASSUME TypeInv, WorkInv, HandInv, NEW d \in Dispatcher, Unflag(d), NEW p \in Channel
    PROVE  HandOK(p)'
<1>1. /\ d \in Thread /\ Threads(th) /\ th[d].pc = "serve" /\ HandOK(p) /\ th[d].out \in BOOLEAN
      /\ UNCHANGED <<outq, outList>> /\ flags \in [Channel -> SUBSET Flag]
  BY DispatcherThread DEF TypeInv, RestOK, Unflag, At, HandInv, Threads, ThreadState
<1>2. Moved(d) /\ LoopMove(th[d], th'[d]) /\ th'[d].pc = "leave" /\ th'[d].ph = th[d].ph
  BY <1>1, LoopMoves, GotoMoves DEF DispatcherLoop, Unflag, Alike, SameJob, SameWork
<1>3. CASE th[d].ph # p
  <2>1. flags'[p] = flags[p]
    BY <1>1, <1>3 DEF Unflag
  <2>. QED BY <1>1, <1>2, <1>3, <2>1, HandElsewhere
<1>4. CASE th[d].ph = p /\ ~th[d].out
  <2>1. flags'[p] = flags[p] \ {"DISPATCHIN"}
    BY <1>1, <1>4 DEF Unflag
  <2>2. Firm(d, th[d], th'[d])
    BY <1>1, <1>2, <1>4, LoopFirm
  <2>. QED BY <1>1, <1>2, <2>1, <2>2, FlagsHand
<1>5. CASE th[d].ph = p /\ th[d].out
  <2>1. flags'[p] = flags[p] \ {"DISPATCHOUT"}
    BY <1>1, <1>5 DEF Unflag
  <2>2. Drains(d, p, TRUE)
    BY <1>1, <1>5 DEF Drains
  <2>3. ~AttachingTo(p)
    BY <1>1, <2>2 DEF HandOK
  <2>4. th'[Central] = th[Central]
    BY <1>2, CentralNotDispatcher DEF Moved
  <2>5. ~AttachingTo(p)'
    BY <2>3, <2>4 DEF AttachingTo, AttachingAt
  <2>6. outq'[p] = <<>> \/ ~Has(p, {"ATTACHED", "DETACHING"})'
    <3>1. Served(d) => outq[p] = <<>>
      BY <1>5 DEF Unflag, Finished
    <3>2. ~Served(d) => ~Has(p, {"ATTACHED", "DETACHING"})'
      BY <1>5, <2>1 DEF Served, Has
    <3>. QED BY <1>1, <3>1, <3>2
  <2>. QED BY <2>1, <2>5, <2>6 DEF HandOK
<1>. QED BY <1>1, <1>3, <1>4, <1>5

LEMMA HandLoop ==
    ASSUME TypeInv, WorkInv, HandInv, NEW d \in Dispatcher, DispatcherLoop(d), NEW p \in Channel
    PROVE  HandOK(p)'
<1>1. CASE Exit(d) \/ TakeIn(d) \/ ScanStart(d) \/ ScanEnd(d) \/ Leave(d) \/ EntryDone(d)
  <2>1. /\ d \in Thread /\ HandOK(p) /\ Moved(d) /\ LoopMove(th[d], th'[d])
    BY LoopMoves, DispatcherThread DEF HandInv
  <2>2. UNCHANGED <<flags, outq, outList>>
    BY <1>1 DEF Exit, TakeIn, ScanStart, ScanEnd, Leave, EntryDone, queues
  <2>3. ~(th[d].pc = "scan" /\ th'[d].pc = "serve") /\ ~(th[d].pc = "serve")
    <3>1. CASE ScanEnd(d)
      <4>1. th'[d] = Idle("wait")
        BY <2>1, <3>1 DEF ScanEnd, TypeInv, Threads
      <4>. QED BY <3>1, <4>1 DEF ScanEnd, At, Idle
    <3>. QED BY <1>1, <3>1 DEF Exit, TakeIn, ScanStart, Leave, EntryDone, At
  <2>4. Firm(d, th[d], th'[d]) /\ th[d].pc \notin {"clearout", "purge", "mark"}
    BY <2>1, <2>3, LoopFirm
  <2>. QED BY <2>1, <2>2, <2>4, QuietHand
<1>2. CASE ScanTake(d) \/ ScanSkip(d) \/ Dequeue(d) \/ Unflag(d)
  BY <1>2, HandScanTake, HandScanSkip, HandDequeue, HandUnflag
<1>. QED BY <1>1, <1>2 DEF DispatcherLoop

LEMMA HandEnableFails ==
    ASSUME TypeInv, WorkInv, HandInv, NEW d \in Dispatcher, EnableFails(d), NEW p \in Channel
    PROVE  HandOK(p)'
<1>1. /\ d \in Thread /\ Threads(th) /\ th[d].pc = "called" /\ HandOK(p) /\ th[d].out \in BOOLEAN
      /\ UNCHANGED <<outq, outList>> /\ flags \in [Channel -> SUBSET Flag]
  BY DispatcherThread DEF TypeInv, RestOK, EnableFails, At, HandInv, Threads, ThreadState
<1>2. Moved(d) /\ th'[d].ph = th[d].ph /\ th'[d].out = th[d].out /\ th'[d].pc = "enablefailed"
  BY <1>1, GotoMoves DEF EnableFails, Alike, SameJob, SameWork
<1>3. CASE th[d].ph # p
  <2>1. flags'[p] = flags[p]
    BY <1>1, <1>3 DEF EnableFails
  <2>. QED BY <1>1, <1>2, <1>3, <2>1, HandElsewhere
<1>4. CASE th[d].ph = p
  <2>1. RunsAs(th[d], de[th[d].cur].type)
    BY <1>1 DEF WorkInv, RunOK, Running
  <2>2. th[d].out
    BY <2>1 DEF RunsAs, EnableFails, OutTypes
  <2>3. Drains(d, p, TRUE) /\ Drains(d, p, TRUE)'
    BY <1>1, <1>2, <1>4, <2>2 DEF Drains
  <2>4. ~AttachingTo(p)
    BY <1>1, <2>3 DEF HandOK
  <2>5. th'[Central] = th[Central]
    BY <1>2, CentralNotDispatcher DEF Moved
  <2>6. ~AttachingTo(p)'
    BY <2>4, <2>5 DEF AttachingTo, AttachingAt
  <2>. QED BY <2>3, <2>6, TokenedHand DEF Tokened
<1>. QED BY <1>3, <1>4

LEMMA HandExecution ==
    ASSUME TypeInv, WorkInv, HandInv, NEW d \in Dispatcher, Execution(d), NEW p \in Channel
    PROVE  HandOK(p)'
<1>1. /\ d \in Thread /\ HandOK(p) /\ flags \in [Channel -> SUBSET Flag]
      /\ Moved(d) /\ Firm(d, th[d], th'[d]) /\ th[d].pc \notin {"clearout", "purge", "mark"}
  BY ExecutionMoves, ExecutionFirm, DispatcherThread DEF HandInv, TypeInv, RestOK
<1>2. CASE EnableFails(d)
  BY <1>2, HandEnableFails
<1>3. CASE ExecEvent(d) \/ Called(d) \/ EnableFailed(d) \/ AttachError(d)
  <2>1. UNCHANGED <<outq, outList>>
    BY <1>3 DEF ExecEvent, Called, EnableFailed, AttachError
  <2>2. \E fs : flags' = [flags EXCEPT ![th[d].ph] = @ \ fs] \/ flags' = flags
    BY <1>3 DEF ExecEvent, Called, EnableFailed, AttachError
  <2>3. flags'[p] \subseteq flags[p]
    BY <1>1, <2>2
  <2>4. "OPEN" \in flags[p] => "OPEN" \in flags'[p]
    <3>1. CASE ExecEvent(d)
      BY <1>1, <3>1 DEF ExecEvent
    <3>2. CASE Called(d)
      <4>1. "OPEN" \notin Over(de[th[d].cur].type)
        BY DEF Over
      <4>. QED BY <1>1, <3>2, <4>1 DEF Called
    <3>3. CASE EnableFailed(d)
      BY <1>1, <3>3 DEF EnableFailed
    <3>4. CASE AttachError(d)
      BY <1>1, <3>4 DEF AttachError, AttachFlags
    <3>. QED BY <1>3, <3>1, <3>2, <3>3, <3>4
  <2>. QED BY <1>1, <2>1, <2>3, <2>4, FlagsHand
<1>4. CASE \/ ExecAttachFails(d) \/ ExecInternal(d) \/ ExecRequest(d) \/ ExecAsyncRequest(d)
           \/ CallbackQueued(d) \/ Callback(d) \/ AttachErrorUnslot(d)
  <2>1. UNCHANGED <<flags, outq, outList>>
    BY <1>4 DEF ExecAttachFails, ExecInternal, ExecRequest, ExecAsyncRequest,
                CallbackQueued, Callback, AttachErrorUnslot, queues
  <2>. QED BY <1>1, <2>1, QuietHand
<1>. QED BY <1>2, <1>3, <1>4 DEF Execution

-----------------------------------------------------------------------------
(* The central thread, users and sources                                   *)

LEMMA HandAttaching ==
    ASSUME TypeInv, WorkInv, HandInv, Attaching, NEW p \in Channel
    PROVE  HandOK(p)'
<1>1. /\ Central \in Thread /\ HandOK(p) /\ flags \in [Channel -> SUBSET Flag] /\ Threads(th)
      /\ Moved(Central) /\ AttachingMove(th[Central], th'[Central])
      /\ Firm(Central, th[Central], th'[Central])
      /\ th[Central].pc \notin {"clearout", "purge", "mark"}
  BY AttachingMoves, AttachingFirm, CentralNotDispatcher DEF HandInv, TypeInv, RestOK
<1>2. UNCHANGED <<outq, outList>>
  BY DEF Attaching, AttachFlag, AttachSlot, AttachRefused, Attached, WakeDispatch, DetachWaited,
         DetachFlag, DetachDispatch, DetachClose, CentralUnslot, queues
<1>3. CASE AttachSlot \/ WakeDispatch \/ DetachWaited \/ DetachDispatch \/ CentralUnslot
  <2>1. flags' = flags
    BY <1>3 DEF AttachSlot, WakeDispatch, DetachWaited, DetachDispatch, CentralUnslot, queues
  <2>. QED BY <1>1, <1>2, <2>1, QuietHand
<1>4. CASE AttachFlag
  <2>1. flags'[p] \subseteq flags[p] \cup {"ATTACHING"} /\ flags[p] \subseteq flags'[p]
    BY <1>1, <1>4 DEF AttachFlag
  <2>. QED BY <1>1, <1>2, <2>1, FlagsHand
<1>5. CASE AttachRefused
  <2>1. flags'[p] \subseteq flags[p] /\ flags[p] \subseteq flags'[p] \cup {"ATTACHING", "ATTACHED"}
    BY <1>1, <1>5 DEF AttachRefused
  <2>. QED BY <1>1, <1>2, <2>1, FlagsHand
<1>6. CASE Attached
  <2>1. CASE th[Central].ph # p
    <3>1. flags'[p] = flags[p]
      BY <1>1, <1>6, <2>1 DEF Attached
    <3>2. th'[Central].ph # p
      BY <1>1, <1>6, <2>1, GotoMoves DEF Attached, Alike, SameJob, SameWork
    <3>. QED BY <1>1, <1>2, <2>1, <3>1, <3>2, HandElsewhere
  <2>2. CASE th[Central].ph = p
    <3>1. AttachingTo(p)
      BY <1>6, <2>2 DEF AttachingTo, AttachingAt, Attached, At
    <3>2. flags'[p] = flags[p] \cup {"ATTACHED"}
      BY <1>1, <1>6, <2>2 DEF Attached
    <3>3. th'[Central].pc = "wake"
      BY <1>1, <1>6, GotoMoves DEF Attached
    <3>4. ~AttachingTo(p)'
      BY <3>3 DEF AttachingTo, AttachingAt, Inserting
    <3>5. outq[p] # <<>> => InHand(p)'
      <4>1. ASSUME outq[p] # <<>> PROVE InHand(p)'
        <5>1. InHand(p)
          BY <1>1, <3>1, <4>1 DEF HandOK
        <5>2. ~Clears(Central, p) /\ ~Marks(Central, p)
          BY <1>1 DEF Clears, Marks
        <5>. QED BY <1>1, <1>2, <5>1, <5>2, InHandKept
      <4>. QED BY <4>1
    <3>6. "DISPATCHOUT" \in flags'[p] => Tokened(p)'
      <4>1. "DISPATCHOUT" \in flags'[p] => Tokened(p)
        BY <1>1, <3>2 DEF HandOK
      <4>. QED BY <1>1, <1>2, <4>1, TokenedKept
    <3>. QED BY <1>2, <3>4, <3>5, <3>6 DEF HandOK
  <2>. QED BY <2>1, <2>2
<1>7. CASE DetachFlag
  <2>1. th[Central].pc = "detaching"
    BY <1>7 DEF DetachFlag, At
  <2>2. th'[Central].pc = "clearout" /\ th'[Central].ph = th[Central].ph
    BY <1>1, <1>7, ClearMoves DEF DetachFlag
  <2>3. CASE th[Central].ph # p
    <3>1. flags'[p] = flags[p]
      BY <1>1, <1>7, <2>3 DEF DetachFlag
    <3>. QED BY <1>1, <1>2, <2>2, <2>3, <3>1, HandElsewhere
  <2>4. CASE th[Central].ph = p
    <3>1. flags'[p] = flags[p] \cup {"DETACHING"}
      BY <1>1, <1>7, <2>4 DEF DetachFlag
    <3>2. ~AttachingTo(p)'
      BY <2>2 DEF AttachingTo, AttachingAt, Inserting
    <3>3. Clears(Central, p)'
      BY <2>2, <2>4 DEF Clears
    <3>4. InHand(p)'
      BY <1>1, <3>3 DEF InHand
    <3>5. "DISPATCHOUT" \in flags'[p] => Tokened(p)'
      <4>1. "DISPATCHOUT" \in flags'[p] => Tokened(p)
        BY <1>1, <3>1 DEF HandOK
      <4>. QED BY <1>1, <1>2, <4>1, TokenedKept
    <3>. QED BY <3>2, <3>4, <3>5 DEF HandOK
  <2>. QED BY <2>3, <2>4
<1>8. CASE DetachClose
  <2>1. flags'[p] \subseteq flags[p]
    BY <1>1, <1>8 DEF DetachClose
  <2>2. AttachingTo(p) => flags'[p] = flags[p]
    <3>1. ~AttachingTo(th[Central].ph)
      BY <1>8 DEF DetachClose, At, AttachingTo, AttachingAt, Inserting
    <3>. QED BY <1>1, <1>8, <3>1 DEF DetachClose
  <2>. QED BY <1>1, <1>2, <2>1, <2>2, FlagsHand
<1>. QED BY <1>3, <1>4, <1>5, <1>6, <1>7, <1>8 DEF Attaching

LEMMA HandClosing ==
    ASSUME TypeInv, WorkInv, HandInv, NEW t \in User \cup {Central}, Closing(t), NEW p \in Channel
    PROVE  HandOK(p)'
<1>1. /\ t \in Thread /\ HandOK(p) /\ flags \in [Channel -> SUBSET Flag]
      /\ Moved(t) /\ ClosingMove(t, th[t], th'[t]) /\ Shape(t, th[t])
  BY ClosingMoves, KindsApart DEF HandInv, TypeInv, RestOK, WorkInv, Shapes
<1>2. Firm(t, th[t], th'[t]) /\ th[t].pc \notin {"clearout", "purge", "mark"}
  BY <1>1, ClosingFirm
<1>3. UNCHANGED <<outq, outList>>
  BY DEF Closing, CloseParent, CloseSlot, CloseStop, queues
<1>4. flags' = flags \/ flags' = [flags EXCEPT ![th[t].ph] = @ \ {"ATTACHED"}]
  BY DEF Closing, CloseParent, CloseSlot, CloseStop, queues
<1>5. flags'[p] \subseteq flags[p] /\ flags[p] \subseteq flags'[p] \cup {"ATTACHED"}
  BY <1>1, <1>4
<1>. QED BY <1>1, <1>2, <1>3, <1>5, FlagsHand

\* What the theorem below asks of devices and users: a channel is attached when no
\* event of an earlier attach is left and nobody handles one, and it is not closed
\* while it is being attached
AttachesIdle ==
    \A p \in Channel : AttachStart(p) =>
        outq[p] = <<>> /\ \A d \in Dispatcher : ~Drains(d, p, TRUE)
ClosesAttached == \A u \in User, p \in Channel : CloseStart(u, p) => ~AttachingTo(p)

LEMMA HandEnvironment ==
    ASSUME TypeInv, WorkInv, HandInv, Environment, AttachesIdle, ClosesAttached, NEW p \in Channel
    PROVE  HandOK(p)'
<1>0. /\ Threads(th) /\ HandOK(p) /\ flags \in [Channel -> SUBSET Flag]
      /\ Central \in Thread /\ UNCHANGED <<outq, outList>>
  BY CentralNotDispatcher DEF HandInv, TypeInv, RestOK, Environment, AttachStart, DetachStart,
     Request, CloseStart, Open, Deliver, queues
<1>1. ASSUME NEW q \in Channel, AttachStart(q)
      PROVE  HandOK(p)'
  <2>1. th[Central].pc = "idle" /\ flags' = flags
    BY <1>1 DEF AttachStart, At, queues
  <2>2. /\ Moved(Central) /\ th'[Central].pc = "get" /\ th'[Central].ph = q
        /\ th'[Central].cont = "attaching" /\ th'[Central].out = th[Central].out
    BY <1>0, <1>1, StartsMoves DEF AttachStart
  <2>3. th[Central].ph = NoChannel /\ p # NoChannel
    BY <1>0, <2>1, ConstantsAssumption DEF WorkInv, Shapes, Shape, AtRest
  <2>4. CASE q # p
    BY <1>0, <2>1, <2>2, <2>3, <2>4, HandElsewhere
  <2>5. CASE q = p
    <3>1. outq'[p] = <<>> /\ ~Has(p, {"ATTACHED", "DETACHING"})' /\ "OPEN" \in flags'[p]
      BY <1>0, <1>1, <2>1, <2>5 DEF AttachesIdle, AttachStart, Has
    <3>2. "DISPATCHOUT" \in flags'[p] => Tokened(p)'
      BY <1>0, <2>1, <2>2, <2>3, TokenedKept DEF HandOK
    <3>3. ASSUME NEW d \in Dispatcher PROVE ~Drains(d, p, TRUE)'
      <4>1. d # Central /\ d \in Thread /\ ~Drains(d, p, TRUE)
        BY <1>1, <2>5, CentralNotDispatcher, DispatcherThread DEF AttachesIdle
      <4>2. th'[d] = th[d] \/ th'[d].pc = "loop"
        BY <2>2, <4>1 DEF Moved
      <4>. QED BY <4>1, <4>2 DEF Drains
    <3>. QED BY <3>1, <3>2, <3>3 DEF HandOK
  <2>. QED BY <2>4, <2>5
<1>2. ASSUME NEW t \in Thread \ Dispatcher, th[t].pc = "idle", NEW q, NEW jobs, NEW first, NEW cont,
             Starts(t, q, jobs, first, cont), t = Central => first = "detachwait",
             flags' = flags \/ \E fs : /\ flags' = [flags EXCEPT ![q] = @ \ fs]
                                       /\ ~AttachingTo(q)
      PROVE  HandOK(p)'
  <2>1. Moved(t) /\ th'[t].pc = first
    BY <1>0, <1>2, StartsMoves
  <2>2. Firm(t, th[t], th'[t])
    BY <1>2, <2>1 DEF Firm, AttachingAt, Inserting
  <2>3. flags'[p] \subseteq flags[p] /\ (AttachingTo(p) => flags'[p] = flags[p])
    BY <1>0, <1>2
  <2>. QED BY <1>0, <1>2, <2>1, <2>2, <2>3, FlagsHand
<1>3. ASSUME NEW q \in Channel, DetachStart(q)
      PROVE  HandOK(p)'
  BY <1>0, <1>2, <1>3, CentralNotDispatcher DEF DetachStart, At, queues
<1>4. ASSUME NEW u \in User, NEW q \in Channel, Request(u, q)
      PROVE  HandOK(p)'
  BY <1>2, <1>4, KindsApart DEF Request, At, queues
<1>5. ASSUME NEW u \in User, NEW q \in Channel, CloseStart(u, q)
      PROVE  HandOK(p)'
  <2>1. u \in Thread \ Dispatcher /\ u # Central
    BY KindsApart
  <2>2. th[u].pc = "idle" /\ Starts(u, q, <<>>, "close", "idle") /\ ~AttachingTo(q)
        /\ flags' = [flags EXCEPT ![q] = @ \ {"OPEN"}]
    BY <1>5 DEF CloseStart, At, ClosesAttached
  <2>. QED BY <1>2, <2>1, <2>2
<1>6. ASSUME NEW u \in User, NEW q \in Channel, Open(u, q)
      PROVE  HandOK(p)'
  <2>1. th' = th /\ u \in Thread /\ th[u].pc = "idle" /\ u # Central /\ u \notin Dispatcher
    BY <1>6, KindsApart DEF Open, At
  <2>2. Moved(u) /\ Firm(u, th[u], th'[u])
    BY <2>1, NothingMoves DEF Firm
  <2>3. flags'[p] \subseteq flags[p] \cup {"OPEN"} /\ ("OPEN" \in flags[p] => "OPEN" \in flags'[p])
    BY <1>0, <1>6 DEF Open
  <2>. QED BY <1>0, <2>1, <2>2, <2>3, FlagsHand
<1>7. ASSUME NEW s \in Source, NEW q \in Channel, Deliver(s, q)
      PROVE  HandOK(p)'
  BY <1>2, <1>7, KindsApart DEF Deliver, At, queues
<1>. QED BY <1>1, <1>3, <1>4, <1>5, <1>6, <1>7 DEF Environment

LEMMA InitHand == Init => HandInv
<1> SUFFICES ASSUME Init, NEW p \in Channel PROVE HandOK(p)
  BY DEF HandInv
<1>1. flags[p] = {"OPEN"} /\ outq[p] = <<>> /\ th[Central].pc = "idle"
  BY CentralNotDispatcher DEF Init, Idle
<1>. QED BY <1>1 DEF HandOK, AttachingTo, AttachingAt, Inserting

LEMMA NextHand ==
    ASSUME TypeInv, CallbackInv, WorkInv, HandInv, [Next]_vars, AttachesIdle, ClosesAttached
    PROVE  HandInv'
<1> SUFFICES ASSUME NEW p \in Channel PROVE HandOK(p)'
  BY DEF HandInv
<1>1. CASE UNCHANGED vars
  BY <1>1 DEF vars, queues, HandInv, HandOK, Tokened, InHand, Clears, Marks, AttachingTo,
              AttachingAt, Has, Lists, Drains
<1>2. CASE Next
  BY <1>2, HandInsertion, HandLoop, HandExecution, HandAttaching, HandClosing, HandEnvironment DEF Next
<1>. QED BY <1>1, <1>2

LEMMA HandMeansNotStranded == HandInv => NoEventStranded
<1> SUFFICES ASSUME HandInv, NEW p \in Channel, outq[p] # <<>>, Has(p, {"ATTACHED", "DETACHING"})
             PROVE  OutInHand(p)
  BY DEF NoEventStranded
<1>1. InHand(p)
  BY DEF HandInv, HandOK
<1>2. CASE \E t \in Thread : Lists(t, p, TRUE)
  BY <1>2 DEF Lists, OutInHand
<1>. QED BY <1>1, <1>2 DEF InHand, Tokened, Clears, Marks, OutInHand

\* No event stays in the queue of a channel that may be dispatched to, where nobody
\* will come to it, for every number of channels, dispatchers, users and sources, as
\* long as a channel is attached again only after its last detach is through and is not
\* closed in the middle of an attach (startDispatch and PhidgetDispatcher,
\* dispatch.c:202-226 and 1264-1325).
THEOREM NotStranded ==
    Spec /\ [][AttachesIdle /\ ClosesAttached]_vars => []NoEventStranded
<1> DEFINE Inv == TypeInv /\ EntryInv /\ CallbackInv /\ WorkInv /\ HandInv
<1>1. Init => Inv
  BY InitType, InitEntry, InitCallback, InitWork, InitHand
<1>2. Inv /\ [Next]_vars /\ [AttachesIdle /\ ClosesAttached]_vars => Inv'
  <2> SUFFICES ASSUME Inv, [Next]_vars, [AttachesIdle /\ ClosesAttached]_vars
               PROVE  Inv'
    OBVIOUS
  <2>1. TypeInv' /\ EntryInv' /\ CallbackInv'
    BY NextType, NextEntry, NextCallback
  <2>2. WorkInv'
    BY <2>1, NextWork
  <2>3. HandInv'
    <3>1. CASE UNCHANGED vars
      BY <3>1 DEF vars, queues, HandInv, HandOK, Tokened, InHand, Clears, Marks, AttachingTo,
                  AttachingAt, Has, Lists, Drains
    <3>2. CASE AttachesIdle /\ ClosesAttached
      BY <3>2, NextHand
    <3>. QED BY <3>1, <3>2
  <2>. QED BY <2>1, <2>2, <2>3
<1>3. Inv => NoEventStranded
  BY HandMeansNotStranded
<1>. QED BY <1>1, <1>2, <1>3, PTL DEF Spec

-----------------------------------------------------------------------------
(* A step touches one channel                                              *)

\* Nothing changes for the channels other than q, and only q can be put on a list
Touches(q) ==
    /\ \A p \in Channel \ {q} :
        /\ flags'[p] = flags[p] /\ slot'[p] = slot[p]
        /\ outq'[p] = outq[p] /\ inq'[p] = inq[p] /\ view'[p] = view[p]
    /\ ToSet(outList') \subseteq ToSet(outList) \cup {q}
    /\ ToSet(inList') \subseteq ToSet(inList) \cup {q}

\* The functions of channels
LEMMA ChannelTypes ==
    TypeInv => /\ flags \in [Channel -> SUBSET Flag]
               /\ slot \in [Channel -> {"none", "parent", "held"}]
               /\ outq \in [Channel -> Seq(Entry)] /\ inq \in [Channel -> Seq(Entry)]
               /\ outList \in Seq(Channel) /\ inList \in Seq(Channel)
               /\ view \in [Channel -> {"attached", "detached"}]
BY DEF TypeInv, RestOK

LEMMA HeadInSet ==
    ASSUME NEW S, NEW s \in Seq(S), s # <<>>
    PROVE  /\ Head(s) \in ToSet(s) /\ Head(s) \in S
           /\ ToSet(Tail(s)) \subseteq ToSet(s)
<1>1. /\ Head(s) = s[1] /\ Tail(s) \in Seq(S) /\ Len(Tail(s)) = Len(s) - 1
      /\ \A i \in 1..Len(s) - 1 : Tail(s)[i] = s[i + 1]
  BY HeadTailProperties
<1>2. Len(s) \in Nat /\ Len(s) > 0 /\ DOMAIN s = 1..Len(s) /\ DOMAIN Tail(s) = 1..Len(s) - 1
  BY <1>1, LenProperties, EmptySeq
<1>3. Head(s) \in ToSet(s)
  BY <1>1, <1>2 DEF ToSet
<1>4. ASSUME NEW e \in ToSet(Tail(s)) PROVE e \in ToSet(s)
  <2>1. PICK i \in 1..Len(s) - 1 : e = Tail(s)[i]
    BY <1>2 DEF ToSet
  <2>2. e = s[i + 1] /\ i + 1 \in 1..Len(s)
    BY <1>1, <1>2, <2>1
  <2>. QED BY <1>2, <2>2 DEF ToSet
<1>. QED BY <1>3, <1>4, ToSetElements

LEMMA RemoveAtSubset ==
    ASSUME NEW S, NEW s \in Seq(S), NEW i \in 1..Len(s)
    PROVE  ToSet(RemoveAt(s, i)) \subseteq ToSet(s)
<1>1. /\ RemoveAt(s, i) \in Seq(S) /\ Len(RemoveAt(s, i)) = Len(s) - 1
      /\ \A j \in 1..Len(s) - 1 : RemoveAt(s, i)[j] = IF j < i THEN s[j] ELSE s[j + 1]
  BY RemoveAtProperties
<1>2. Len(s) \in Nat /\ DOMAIN s = 1..Len(s) /\ DOMAIN RemoveAt(s, i) = 1..Len(s) - 1
  BY <1>1, LenProperties
<1> SUFFICES ASSUME NEW x \in ToSet(RemoveAt(s, i)) PROVE x \in ToSet(s)
  OBVIOUS
<1>3. PICK j \in 1..Len(s) - 1 : x = RemoveAt(s, i)[j]
  BY <1>2 DEF ToSet
<1>4. \E k \in 1..Len(s) : x = s[k]
  <2>1. j \in 1..Len(s) /\ j + 1 \in 1..Len(s)
    BY <1>2
  <2>. QED BY <1>1, <1>3, <2>1
<1>. QED BY <1>2, <1>4 DEF ToSet

LEMMA InsertionTouches ==
    ASSUME TypeInv, NEW t \in Thread, Insertion(t) \/ TimesOut(t)
    PROVE  Touches(th[t].ph) /\ attaches' = attaches
<1>0. Threads(th)
  BY DEF TypeInv
<1>1. CASE PutOnOutList(t) \/ PutOnInList(t)
  <2>1. th[t].ph \in Channel
    BY <1>0, <1>1 DEF Threads, ThreadOK, AtRest, PutOnOutList, PutOnInList, At
  <2>2. /\ ToSet(Append(outList, th[t].ph)) = ToSet(outList) \cup {th[t].ph}
        /\ ToSet(Append(inList, th[t].ph)) = ToSet(inList) \cup {th[t].ph}
    BY <2>1, ChannelTypes, AppendSet
  <2>. QED BY <1>1, <2>2 DEF PutOnOutList, PutOnInList, Touches, history, bounds
<1>2. CASE GetEntry(t) \/ GetEntryFails(t) \/ InsertRefused(t) \/ InsertNoSpace(t) \/ Drop(t)
           \/ EntryDispatched(t) \/ Answered(t) \/ TimesOut(t)
  BY <1>2 DEF GetEntry, GetEntryFails, InsertRefused, InsertNoSpace, Drop, EntryDispatched, Answered,
              TimesOut, Touches, history, bounds, queues
<1>3. CASE InsertAppend(t)
  BY <1>3, ChannelTypes DEF InsertAppend, Touches, bounds
<1>4. CASE Purge(t) \/ ClearOut(t)
  BY <1>4, ChannelTypes DEF Purge, ClearOut, TakeFirst, Touches, history, bounds
<1>5. CASE Mark(t)
  BY <1>5, ChannelTypes DEF Mark, Touches, history, bounds
<1>6. CASE ClearIn(t)
  BY <1>6, ChannelTypes DEF ClearIn, Touches, bounds
<1>. QED BY <1>1, <1>2, <1>3, <1>4, <1>5, <1>6 DEF Insertion

LEMMA ExecutionTouches ==
    ASSUME TypeInv, NEW d \in Dispatcher, Execution(d)
    PROVE  Touches(th[d].ph) /\ attaches' = attaches
<1>1. CASE ExecAttachFails(d) \/ ExecInternal(d) \/ ExecRequest(d) \/ ExecAsyncRequest(d) \/ CallbackQueued(d)
  BY <1>1 DEF ExecAttachFails, ExecInternal, ExecRequest, ExecAsyncRequest, CallbackQueued,
              Touches, history, bounds, queues
<1>2. CASE ExecEvent(d)
  BY <1>2, ChannelTypes DEF ExecEvent, Touches, history, bounds
<1>3. CASE Callback(d)
  BY <1>3, ChannelTypes DEF Callback, Touches, bounds, queues
<1>4. CASE Called(d) \/ EnableFails(d) \/ AttachError(d)
  BY <1>4, ChannelTypes DEF Called, EnableFails, AttachError, Touches, history, bounds
<1>5. CASE EnableFailed(d) \/ AttachErrorUnslot(d)
  BY <1>5, ChannelTypes DEF EnableFailed, AttachErrorUnslot, Unslotted, Touches, history, bounds, queues
<1>. QED BY <1>1, <1>2, <1>3, <1>4, <1>5 DEF Execution

LEMMA AttachingTouches ==
    ASSUME TypeInv, Attaching
    PROVE  Touches(th[Central].ph) /\ attaches' = attaches
<1>1. CASE AttachFlag \/ AttachRefused \/ Attached \/ DetachFlag \/ DetachClose
  BY <1>1, ChannelTypes DEF AttachFlag, AttachRefused, Attached, DetachFlag, DetachClose,
                            Touches, history, bounds
<1>2. CASE AttachSlot \/ WakeDispatch \/ DetachWaited \/ DetachDispatch \/ CentralUnslot
  BY <1>2, ChannelTypes DEF AttachSlot, WakeDispatch, DetachWaited, DetachDispatch, CentralUnslot,
                            Touches, history, bounds, queues
<1>. QED BY <1>1, <1>2 DEF Attaching

LEMMA ClosingTouches ==
    ASSUME TypeInv, NEW t, Closing(t)
    PROVE  Touches(th[t].ph) /\ attaches' = attaches
BY ChannelTypes DEF Closing, CloseParent, CloseSlot, CloseStop, Unslotted, Touches, history, bounds, queues

\* A dispatcher that takes a channel touches one that was on a list
LEMMA LoopTouches ==
    ASSUME TypeInv, NEW d \in Dispatcher, DispatcherLoop(d)
    PROVE  /\ attaches' = attaches
           /\ \E q : /\ Touches(q) /\ q \in {th[d].ph} \cup ToSet(outList) \cup ToSet(inList)
                     /\ th'[d].ph \in {th[d].ph, q, NoChannel}
<1>0. /\ d \in Thread /\ Threads(th) /\ th[d] \in ThreadState /\ LoopMove(th[d], th'[d])
      /\ Len(outList) \in Nat /\ DOMAIN outList = 1..Len(outList)
  BY ChannelTypes, LenProperties, LoopMoves, DispatcherThread DEF TypeInv, Threads
<1>1. CASE Exit(d) \/ ScanStart(d) \/ ScanEnd(d) \/ Leave(d) \/ Dequeue(d) \/ Unflag(d) \/ EntryDone(d)
  <2>1. Touches(th[d].ph) /\ attaches' = attaches
    BY <1>1, ChannelTypes DEF Exit, ScanStart, ScanEnd, Leave, Dequeue, Unflag, EntryDone, Touches,
                              history, bounds, queues
  <2>2. th[d].pc # "loop" \/ th'[d].pc # "serve"
    <3>1. CASE Exit(d)
      <4>1. Signal([th EXCEPT ![d].pc = "none"]) /\ th[d].pc = "loop"
        BY <3>1 DEF Exit, At
      <4>2. PICK s : s = [th[d] EXCEPT !.pc = "none"]
        OBVIOUS
      <4>3. [th EXCEPT ![d].pc = "none"] = [th EXCEPT ![d] = s] /\ s.pc = "none"
        BY <1>0, <4>2 DEF Threads, ThreadState
      <4>4. th'[d] = s
        BY <1>0, <4>1, <4>3, SignalMoves
      <4>. QED BY <4>3, <4>4
    <3>2. CASE ScanStart(d)
      BY <1>0, <3>2 DEF ScanStart, Threads, ThreadState
    <3>. QED BY <1>1, <3>1, <3>2 DEF ScanEnd, Leave, Dequeue, Unflag, EntryDone, At
  <2>3. th[d].pc # "scan" \/ th'[d].pc # "serve"
    <3>1. CASE ScanEnd(d)
      BY <1>0, <3>1 DEF ScanEnd, Threads, Idle
    <3>. QED BY <1>1, <3>1 DEF Exit, ScanStart, Leave, Dequeue, Unflag, EntryDone, At
  <2>4. th'[d].ph \in {th[d].ph, NoChannel}
    BY <1>0, <2>2, <2>3 DEF LoopMove, Idle, SameJob, SameWork
  <2>. QED BY <2>1, <2>4
<1>2. CASE TakeIn(d)
  <2>1. PICK q : q = Head(inList)
    OBVIOUS
  <2>2. inList # <<>> /\ inList \in Seq(Channel)
    BY <1>2, ChannelTypes DEF TakeIn
  <2>3. q \in ToSet(inList) /\ ToSet(Tail(inList)) \subseteq ToSet(inList)
    BY <2>1, <2>2, HeadInSet
  <2>4. th'[d].ph = q
    BY <1>0, <1>2, <2>1 DEF TakeIn, Threads, ThreadState
  <2>5. Touches(q) /\ attaches' = attaches
    BY <1>2, <2>3 DEF TakeIn, Touches, history, bounds
  <2>. QED BY <2>3, <2>4, <2>5
<1>3. CASE ScanTake(d) \/ ScanSkip(d)
  <2>1. PICK i : i = th[d].at
    OBVIOUS
  <2>2. th[d].pc = "scan"
    BY <1>3 DEF ScanTake, ScanSkip, At
  <2>3. i \in 1..Len(outList)
    BY <1>0, <1>3, <2>1, <2>2 DEF ScanTake, ScanSkip, Threads, ThreadOK, ThreadState
  <2>4. PICK q : q = outList[i]
    OBVIOUS
  <2>5. q \in ToSet(outList)
    BY <1>0, <2>3, <2>4 DEF ToSet
  <2>6. ToSet(RemoveAt(outList, i)) \subseteq ToSet(outList)
    BY <2>3, ChannelTypes, RemoveAtSubset
  <2>7. Touches(q) /\ attaches' = attaches
    <3>1. CASE ScanTake(d)
      BY <2>1, <2>6, <3>1 DEF ScanTake, Touches, history, bounds
    <3>2. CASE ScanSkip(d)
      BY <2>1, <2>4, <2>6, <3>2, ChannelTypes DEF ScanSkip, Touches, history, bounds
    <3>. QED BY <1>3, <3>1, <3>2
  <2>8. th'[d].ph \in {th[d].ph, q}
    <3>1. CASE ScanTake(d)
      BY <1>0, <2>1, <2>4, <3>1 DEF ScanTake, Threads, ThreadState
    <3>2. CASE ScanSkip(d)
      BY <1>0, <2>1, <3>2 DEF ScanSkip, Threads, ThreadState
    <3>. QED BY <1>3, <3>1, <3>2
  <2>. QED BY <2>5, <2>7, <2>8
<1>. QED BY <1>1, <1>2, <1>3 DEF DispatcherLoop

-----------------------------------------------------------------------------
(* A channel that was never attached                                       *)

\* Nothing has happened to channel p yet
Untouched(p) ==
    /\ flags[p] = {"OPEN"} /\ slot[p] = "none" /\ view[p] = "detached"
    /\ outq[p] = <<>> /\ inq[p] = <<>>
    /\ p \notin ToSet(outList) /\ p \notin ToSet(inList)
    /\ \A t \in Thread : th[t].ph # p

FreshInv == \A p \in Channel : attaches[p] <= MaxAttach /\ (attaches[p] > 0 => Untouched(p))

LEMMA FreshKept ==
    ASSUME FreshInv, NEW t \in Thread, Moved(t), NEW q, Touches(q), attaches' = attaches,
           q \in {th[t].ph} \cup ToSet(outList) \cup ToSet(inList),
           th'[t].ph \in {th[t].ph, q, NoChannel}
    PROVE  FreshInv'
<1> SUFFICES ASSUME NEW p \in Channel, attaches'[p] > 0
             PROVE  Untouched(p)'
  BY DEF FreshInv
<1>1. Untouched(p) /\ p # NoChannel
  BY ConstantsAssumption DEF FreshInv
<1>2. p # q
  BY <1>1 DEF Untouched
<1>3. ASSUME NEW u \in Thread PROVE th'[u].ph # p
  <2>1. CASE u = t
    BY <1>1, <1>2, <2>1 DEF Untouched
  <2>2. CASE u # t
    <3>1. th'[u].ph = th[u].ph
      BY <2>2 DEF Moved, Alike, SameJob, SameWork
    <3>. QED BY <1>1, <3>1 DEF Untouched
  <2>. QED BY <2>1, <2>2
<1>. QED BY <1>1, <1>2, <1>3 DEF Untouched, Touches

LEMMA InsertionPlace ==
    ASSUME NEW t, NEW r, NEW s, InsertionMove(t, r, s)
    PROVE  s.ph \in {r.ph, NoChannel}
BY DEF InsertionMove, Alike, SameJob, SameWork, JobOver, Cleared1, Idle

LEMMA ClosingPlace ==
    ASSUME NEW t, NEW r, NEW s, ClosingMove(t, r, s)
    PROVE  s.ph \in {r.ph, NoChannel}
BY DEF ClosingMove, Alike, SameJob, SameWork, Cleared1, Idle

LEMMA AttachingPlace ==
    ASSUME NEW r, NEW s, AttachingMove(r, s)
    PROVE  s.ph \in {r.ph, NoChannel}
BY DEF AttachingMove, Alike, SameJob, SameWork, Idle

LEMMA NextFresh ==
    ASSUME MaxAttach <= 1, MayClose = FALSE, TypeInv, Shapes(th), FreshInv, [Next]_vars
    PROVE  FreshInv'
<1>1. ASSUME NEW t \in Thread, Insertion(t) \/ TimesOut(t)
      PROVE  FreshInv'
  BY <1>1, InsertionMoves, InsertionTouches, InsertionPlace, FreshKept
<1>2. ASSUME NEW d \in Dispatcher, DispatcherLoop(d)
      PROVE  FreshInv'
  BY <1>2, LoopMoves, LoopTouches, FreshKept, DispatcherThread
<1>3. ASSUME NEW d \in Dispatcher, Execution(d)
      PROVE  FreshInv'
  BY <1>3, ExecutionMoves, ExecutionTouches, FreshKept, DispatcherThread DEF ExecutionMove, SameWork
<1>4. CASE Attaching
  BY <1>4, AttachingMoves, AttachingTouches, AttachingPlace, FreshKept, CentralNotDispatcher
<1>5. ASSUME NEW t \in User \cup {Central}, Closing(t)
      PROVE  FreshInv'
  BY <1>5, ClosingMoves, ClosingTouches, ClosingPlace, FreshKept, KindsApart
<1>6. ASSUME NEW t \in Thread, NEW q \in Channel, NEW jobs, NEW first, NEW cont,
             Starts(t, q, jobs, first, cont),
             UNCHANGED <<flags, slot, outq, inq, view, outList, inList>>,
             \A p \in Channel \ {q} : attaches'[p] = attaches[p],
             attaches'[q] <= MaxAttach, attaches'[q] > 0 => attaches[q] > 0 /\ ~Untouched(q)
      PROVE  FreshInv'
  <2>1. Moved(t) /\ th'[t].ph = q
    BY <1>6, StartsMoves DEF TypeInv
  <2>2. ASSUME NEW p \in Channel, attaches'[p] > 0 PROVE Untouched(p)'
    <3>1. p # q /\ Untouched(p)
      BY <1>6, <2>2 DEF FreshInv
    <3>2. ASSUME NEW u \in Thread PROVE th'[u].ph # p
      <4>1. CASE u = t
        BY <2>1, <3>1, <4>1
      <4>2. CASE u # t
        <5>1. th'[u].ph = th[u].ph
          BY <2>1, <4>2 DEF Moved, Alike, SameJob, SameWork
        <5>. QED BY <3>1, <5>1 DEF Untouched
      <4>. QED BY <4>1, <4>2
    <3>. QED BY <1>6, <3>1, <3>2 DEF Untouched
  <2>. QED BY <1>6, <2>2 DEF FreshInv
<1>7. CASE Environment
  <2>1. ASSUME NEW p \in Channel, AttachStart(p)
        PROVE  FreshInv'
    <3>1. attaches \in [Channel -> Nat] /\ attaches[p] <= MaxAttach /\ MaxAttach \in Nat
      BY ConstantsAssumption DEF TypeInv, RestOK, FreshInv
    <3>2. attaches' = [attaches EXCEPT ![p] = @ - 1] /\ attaches[p] > 0
      BY <2>1 DEF AttachStart
    <3>3. /\ \A q \in Channel \ {p} : attaches'[q] = attaches[q]
          /\ attaches'[p] <= MaxAttach /\ ~(attaches'[p] > 0)
      BY <3>1, <3>2
    <3>4. Central \in Thread /\ Starts(Central, p, StartJobs, "get", "attaching")
          /\ UNCHANGED <<flags, slot, outq, inq, view, outList, inList>>
      BY <2>1, CentralNotDispatcher DEF AttachStart, queues, history
    <3>. QED BY <1>6, <3>3, <3>4
  <2>2. ASSUME NEW p \in Channel, DetachStart(p)
        PROVE  FreshInv'
    <3>1. ~Untouched(p) /\ attaches' = attaches /\ attaches[p] <= MaxAttach
      BY <2>2 DEF DetachStart, Untouched, FreshInv, bounds
    <3>2. Central \in Thread /\ Starts(Central, p, <<>>, "detachwait", "idle")
          /\ UNCHANGED <<flags, slot, outq, inq, view, outList, inList>>
      BY <2>2, CentralNotDispatcher DEF DetachStart, queues, history
    <3>. QED BY <1>6, <3>1, <3>2
  <2>3. ASSUME NEW u \in User, NEW p \in Channel, Request(u, p)
        PROVE  FreshInv'
    <3>1. ~Untouched(p) /\ attaches' = attaches /\ attaches[p] <= MaxAttach
      BY <2>3 DEF Request, Untouched, FreshInv, Has
    <3>2. u \in Thread /\ UNCHANGED <<flags, slot, outq, inq, view, outList, inList>>
      BY <2>3 DEF Request, queues, history, Thread
    <3>3. PICK kind \in Requests : Starts(u, p, <<Job("USERREQ", kind = "async")>>, "get", "idle")
      BY <2>3 DEF Request
    <3>. QED BY <1>6, <3>1, <3>2, <3>3
  <2>4. ASSUME NEW u \in User, NEW p \in Channel PROVE ~CloseStart(u, p) /\ ~Open(u, p)
    BY DEF CloseStart, Open
  <2>5. ASSUME NEW s \in Source, NEW p \in Channel, Deliver(s, p)
        PROVE  FreshInv'
    <3>1. PICK ty \in Traffic : Addressable(p, ty) /\ Starts(s, p, <<Job(ty, FALSE)>>, "get", "idle")
      BY <2>5 DEF Deliver
    <3>2. ty \in {"CHANNEL_BRIDGEPKT", "CLIENTBRIDGEPACKET", "SERVERBRIDGEPACKET"}
      BY ConstantsAssumption
    <3>3. Has(p, {"ATTACHED"}) \/ slot[p] = "held"
      BY <3>1, <3>2 DEF Addressable
    <3>4. ~Untouched(p) /\ attaches' = attaches /\ attaches[p] <= MaxAttach
      BY <2>5, <3>3 DEF Deliver, Untouched, FreshInv, Has
    <3>5. s \in Thread /\ UNCHANGED <<flags, slot, outq, inq, view, outList, inList>>
      BY <2>5 DEF Deliver, queues, history, Thread
    <3>. QED BY <1>6, <3>1, <3>4, <3>5
  <2>. QED BY <1>7, <2>1, <2>2, <2>3, <2>4, <2>5 DEF Environment
<1>8. CASE UNCHANGED vars
  BY <1>8 DEF vars, queues, history, bounds, FreshInv, Untouched
<1>. QED BY <1>1, <1>2, <1>3, <1>4, <1>5, <1>7, <1>8 DEF Next

LEMMA InitFresh == Init => FreshInv
<1> SUFFICES ASSUME Init, NEW p \in Channel PROVE attaches[p] <= MaxAttach /\ Untouched(p)
  BY DEF FreshInv
<1>1. attaches[p] <= MaxAttach
  BY ConstantsAssumption DEF Init
<1>2. \A t \in Thread : th[t].ph # p
  BY ConstantsAssumption DEF Init, Idle
<1>. QED BY <1>1, <1>2 DEF Init, Untouched, ToSet

\* It can be attached
LEMMA FreshAttaches ==
    ASSUME FreshInv, MayClose = FALSE
    PROVE  AttachesIdle /\ ClosesAttached
<1>1. ASSUME NEW p \in Channel, AttachStart(p)
      PROVE  outq[p] = <<>> /\ \A d \in Dispatcher : ~Drains(d, p, TRUE)
  <2>1. Untouched(p)
    BY <1>1 DEF FreshInv, AttachStart
  <2>. QED BY <2>1, DispatcherThread DEF Untouched, Drains
<1>2. ClosesAttached
  BY DEF ClosesAttached, CloseStart
<1>. QED BY <1>1, <1>2 DEF AttachesIdle

\* Nothing has to be asked of a program that opens a channel and never closes it, while
\* the channel attaches once: whatever devices, requests and timeouts do then, no event
\* stays behind (the sessions of run dispatch_session, for every number of threads).
THEOREM NotStrandedInSession ==
    ASSUME MaxAttach <= 1, MayClose = FALSE
    PROVE  Spec => []NoEventStranded
<1> DEFINE Inv == TypeInv /\ EntryInv /\ CallbackInv /\ WorkInv /\ HandInv /\ FreshInv
<1>1. Init => Inv
  BY InitType, InitEntry, InitCallback, InitWork, InitHand, InitFresh
<1>2. Inv /\ [Next]_vars => Inv'
  <2> SUFFICES ASSUME Inv, [Next]_vars
               PROVE  Inv'
    OBVIOUS
  <2>1. TypeInv' /\ EntryInv' /\ CallbackInv'
    BY NextType, NextEntry, NextCallback
  <2>2. WorkInv'
    BY <2>1, NextWork
  <2>3. HandInv'
    BY FreshAttaches, NextHand
  <2>4. FreshInv'
    BY NextFresh DEF WorkInv
  <2>. QED BY <2>1, <2>2, <2>3, <2>4
<1>3. Inv => NoEventStranded
  BY HandMeansNotStranded
<1>. QED BY <1>1, <1>2, <1>3, PTL DEF Spec

-----------------------------------------------------------------------------
(***************************************************************************)
(* The callbacks of a session: attach, events, detach.                     *)
(*                                                                         *)
(* The invariant follows a channel from its attach to its detach.  The     *)
(* attach event is queued before anything else can be (OpeningOK), and is  *)
(* the first that is dispatched (AheadOK).  What a dispatcher executes     *)
(* fits what the user was told (HandleOK).  A channel that may be          *)
(* dispatched to was told of its attach, or will be next (ToldOK).  And    *)
(* while a detach is under way no other begins (DetachOK).                 *)
(***************************************************************************)

\* Channels whose callbacks are those of the user
SessionChannel == Channel \ ServedChannel

AttachWaits(p) == \E e \in ToSet(outq[p]) : de[e].type = "CHANNEL_ATTACH"
DetachWaits(p) == \E e \in ToSet(outq[p]) : de[e].type = "CHANNEL_DETACH"

\* A dispatcher at record r is in the middle of an event of its channel
Busy(r) == r.out = TRUE /\ Running(r) /\ r.pc # "unslot"
BusyAt(d, p) == th[d].ph = p /\ Busy(th[d])
Handles(d, p, types) == BusyAt(d, p) /\ de[th[d].cur].type \in types
DetachUnderWay(p) ==
    DetachWaits(p) \/ \E d \in Dispatcher : Handles(d, p, {"CHANNEL_DETACH"})

\* A dispatcher at record r has come for commands and has taken none
WaitsIn(r) == r.pc \in {"serve", "leave"} /\ r.out = FALSE

\* The device of channel p does not have it yet; the attach event is not queued yet
Early(p) == AttachingTo(p) /\ th[Central].pc # "attach"
ToQueue(r) == r.pc \in {"get", "insert"} /\ r.todo = StartJobs

\* Where a thread is that closes a channel or clears its queues
Emptying == ClosePlace \cup ClearPlace \cup {"purge"}

\* While channel p is being attached, nobody else works on it until its device has
\* it, and nobody closes it or empties its queue: the attach event is there once it
\* was queued
OpeningOK(p) ==
    /\ Early(p) =>
        /\ slot[p] # "held" /\ inq[p] = <<>>
        /\ \A t \in Thread \ {Central} : th[t].ph = p => WaitsIn(th[t])
    /\ AttachingTo(p) =>
        /\ view[p] = "detached"
        /\ \A t \in Thread \ {Central} : th[t].ph = p => th[t].pc \notin Emptying
        /\ th[Central].pc # "purge"
        /\ ~(th[Central].pc = "drop" /\ th[Central].todo = StartJobs)
        /\ ToQueue(th[Central]) => outq[p] = <<>>
        /\ ~ToQueue(th[Central]) => AttachWaits(p)
        /\ th[Central].pc \in {"slot", "attach"} => "ATTACHING" \in flags[p]

\* An attach event that waits is the first, and will stay so until it is dispatched
AheadOK(p) ==
    AttachWaits(p) =>
        /\ \A e \in ToSet(outq[p]) : de[e].type = "CHANNEL_ATTACH" => e = Head(outq[p])
        /\ view[p] = "detached"
        /\ \A d \in Dispatcher : ~BusyAt(d, p)
        /\ Has(p, {"ATTACHED", "DETACHING"}) =>
            /\ "ATTACHING" \in flags[p] /\ "DETACHING" \notin flags[p]
            /\ \A t \in Thread : ~Clears(t, p)

\* What the user of p was told fits an event of type ty that a dispatcher executes
HandleOK(r, ty, p) ==
    /\ ty = "CHANNEL_ATTACH" =>
        /\ "ATTACHING" \in flags[p]
        /\ r.pc \in {"exec", "callback"} => view[p] = "detached"
        /\ r.pc \in {"called", "enablefailed"} \cup Inserting => view[p] = "attached"
        /\ r.pc # "enablefailed" => "DETACHING" \notin flags[p]
    /\ ty # "CHANNEL_ATTACH" /\ r.pc \in {"exec", "callback"} => view[p] = "attached"
    /\ ty = "CHANNEL_DETACH" /\ r.pc # "exec" =>
        "ATTACHED" \notin flags[p] /\ r.pc \in {"callback", "called"}
HandlesOK(p) ==
    \A d \in Dispatcher : BusyAt(d, p) => HandleOK(th[d], de[th[d].cur].type, p)

\* A channel that may be dispatched to has its attach before it or behind it
ToldOK(p) ==
    /\ Has(p, {"ATTACHED", "DETACHING"}) =>
        \/ AttachWaits(p)
        \/ view[p] = "attached"
        \/ \E d \in Dispatcher : Handles(d, p, {"CHANNEL_ATTACH", "CHANNEL_DETACH"})
    /\ "ATTACHED" \in flags[p] /\ "ATTACHING" \notin flags[p] => view[p] = "attached"

\* The central thread at record r is about to queue a detach, or has queued it
Detaches(r) ==
    \/ r.pc \in {"detaching", "detach"}
    \/ r.pc \in ClearPlace /\ r.cont = "detach"
    \/ r.pc \in {"get", "insert"} /\ r.cont = "unslot"
Through(r) == r.cont = "unslot" /\ r.pc \notin CentralPlace \cup {"get", "insert"}
ThroughWith(p) ==
    /\ th[Central].ph = p => Through(th[Central])
    /\ th[Central].ph # p => slot[p] # "held"

\* A detach is queued for an attached channel, and then no other for this channel
DetachOK(p) ==
    /\ DetachUnderWay(p) => ThroughWith(p)
    /\ th[Central].ph = p /\ Detaches(th[Central]) =>
          "ATTACHING" \notin flags[p] /\ view[p] = "attached"

SessionOK(p) == OpeningOK(p) /\ AheadOK(p) /\ HandlesOK(p) /\ ToldOK(p) /\ DetachOK(p)
SessionInv == \A p \in SessionChannel : SessionOK(p)

\* What was proved before
Sound == TypeInv /\ EntryInv /\ CallbackInv /\ WorkInv /\ HandInv /\ OneDispatcherPerQueue

-----------------------------------------------------------------------------
(* What a step leaves alone                                                *)

\* An entry that stays in a queue keeps its type
LEMMA QueuedTypes ==
    ASSUME Sound, Sound', [Next]_vars, NEW p \in Channel, NEW e,
           e \in ToSet(outq[p]), e \in ToSet(outq'[p])
    PROVE  e \in Entry /\ de'[e].type = de[e].type
<1>1. e \in Entry
  BY ChannelTypes, ToSetElements DEF Sound
<1>2. e \notin free
  <2>1. Once(e) /\ e \in Queued(p)
    BY <1>1 DEF Sound, EntryInv, Queued
  <2>. QED BY <2>1 DEF Once
<1>3. e \notin free'
  <2>1. Once(e)' /\ (e \in Queued(p))'
    BY <1>1 DEF Sound, EntryInv, Queued
  <2>. QED BY <2>1 DEF Once
<1>. QED BY <1>1, <1>2, <1>3, TypesStay DEF Sound

\* So does one that its dispatcher still executes
LEMMA HandledTypes ==
    ASSUME Sound, Sound', [Next]_vars, NEW d \in Dispatcher,
           Running(th[d]), Running(th'[d]), th'[d].cur = th[d].cur
    PROVE  th[d].cur \in Entry /\ de'[th[d].cur].type = de[th[d].cur].type
<1>1. d \in Thread /\ th[d].pc # "done" /\ th'[d].pc # "done"
  BY DispatcherThread DEF Running
<1>2. th[d].cur \in Entry
  <2>1. Shape(d, th[d]) /\ Threads(th)
    BY <1>1 DEF Sound, WorkInv, Shapes, TypeInv
  <2>2. th[d].pc \notin AtRest \cup {"serve", "leave"}
    BY <2>1 DEF Running, AtRest, Shape
  <2>. QED BY <1>1, <2>1, <2>2 DEF Threads, ThreadOK
<1>3. th[d].cur \notin free
  BY <1>1, <1>2, HeldNotFree DEF Sound
<1>4. Once(th[d].cur)' /\ Keeping(th[d], th[d].cur)'
  BY <1>1, <1>2 DEF Sound, EntryInv, Keeping
<1>5. th[d].cur \notin free'
  BY <1>1, <1>4 DEF Once
<1>. QED BY <1>2, <1>3, <1>5, TypesStay DEF Sound

LEMMA OtherThreads ==
    ASSUME NEW t \in Thread, Moved(t), NEW u \in Thread \ {t}
    PROVE  /\ th'[u].ph = th[u].ph
           /\ th'[u].pc = th[u].pc \/ (th[u].pc \in {"none", "wait"} /\ th'[u].pc = "loop")
           /\ u \notin Dispatcher \/ Busy(th[u]) \/ Busy(th'[u]) \/ WaitsIn(th[u]) => th'[u] = th[u]
BY DEF Moved, Alike, SameJob, SameWork, Busy, Running, WaitsIn

LEMMA OtherBusy ==
    ASSUME Sound, Sound', [Next]_vars, NEW t \in Thread, Moved(t), NEW p,
           NEW d \in Dispatcher \ {t}
    PROVE  /\ BusyAt(d, p)' <=> BusyAt(d, p)
           /\ BusyAt(d, p) => th'[d] = th[d] /\ de'[th[d].cur].type = de[th[d].cur].type
<1>1. d \in Thread
  BY DispatcherThread
<1>2. Busy(th[d]) \/ Busy(th'[d]) => th'[d] = th[d]
  BY <1>1, OtherThreads
<1>3. th'[d].ph = th[d].ph
  BY <1>1, OtherThreads
<1>4. Busy(th[d]) => de'[th[d].cur].type = de[th[d].cur].type
  BY <1>2, HandledTypes DEF Busy
<1>. QED BY <1>2, <1>3, <1>4 DEF BusyAt

-----------------------------------------------------------------------------
(* Each part of the invariant, under what a step must keep for it          *)

LEMMA OpeningStep ==
    ASSUME NEW p, OpeningOK(p), NEW t \in Thread, Moved(t),
           AttachingTo(p)' => AttachingTo(p) /\ view'[p] = view[p],
           Early(p)' => Early(p) /\ slot'[p] # "held" /\ inq'[p] = <<>>,
           AttachingTo(p)' /\ t # Central /\ th'[t].ph = p => th'[t].pc \notin Emptying,
           Early(p)' /\ t # Central /\ th'[t].ph = p => WaitsIn(th'[t]),
           AttachingTo(p)' =>
               /\ th'[Central].pc # "purge"
               /\ ~(th'[Central].pc = "drop" /\ th'[Central].todo = StartJobs)
               /\ ToQueue(th'[Central]) => outq'[p] = <<>>
               /\ ~ToQueue(th'[Central]) => AttachWaits(p)'
               /\ th'[Central].pc \in {"slot", "attach"} => "ATTACHING" \in flags'[p]
    PROVE  OpeningOK(p)'
<1>1. ASSUME AttachingTo(p)', NEW u \in Thread \ {Central}, th'[u].ph = p
      PROVE  th'[u].pc \notin Emptying
  <2>1. CASE u # t
    <3>1. th[u].ph = p /\ (th'[u].pc = th[u].pc \/ th'[u].pc = "loop")
      BY <1>1, <2>1, OtherThreads
    <3>2. th[u].pc \notin Emptying
      BY <1>1, <3>1 DEF OpeningOK
    <3>. QED BY <3>1, <3>2 DEF Emptying, ClosePlace, ClearPlace
  <2>. QED BY <1>1, <2>1
<1>2. ASSUME Early(p)', NEW u \in Thread \ {Central}, th'[u].ph = p
      PROVE  WaitsIn(th'[u])
  <2>1. CASE u # t
    <3>1. th[u].ph = p
      BY <1>2, <2>1, OtherThreads
    <3>2. WaitsIn(th[u])
      BY <1>2, <3>1 DEF OpeningOK
    <3>. QED BY <2>1, <3>2, OtherThreads
  <2>. QED BY <1>2, <2>1
<1>3. AttachingTo(p)' => view'[p] = "detached"
  BY DEF OpeningOK
<1>. QED BY <1>1, <1>2, <1>3 DEF OpeningOK

LEMMA AheadStep ==
    ASSUME Sound, Sound', [Next]_vars, NEW p, AheadOK(p), NEW t \in Thread, Moved(t),
           AttachWaits(p)' =>
               /\ AttachWaits(p) /\ view'[p] = view[p]
               /\ \A e \in ToSet(outq'[p]) :
                     de'[e].type = "CHANNEL_ATTACH" => e = Head(outq'[p])
               /\ t \in Dispatcher => ~BusyAt(t, p)',
           AttachWaits(p)' /\ Has(p, {"ATTACHED", "DETACHING"})' =>
               /\ Has(p, {"ATTACHED", "DETACHING"})
               /\ "ATTACHING" \in flags'[p] /\ "DETACHING" \notin flags'[p]
               /\ Clears(t, p)' => Clears(t, p)
    PROVE  AheadOK(p)'
<1>1. ASSUME AttachWaits(p)', NEW d \in Dispatcher
      PROVE  ~BusyAt(d, p)'
  <2>1. CASE d # t
    BY <1>1, <2>1, OtherBusy DEF AheadOK
  <2>. QED BY <1>1, <2>1
<1>2. ASSUME AttachWaits(p)', Has(p, {"ATTACHED", "DETACHING"})', NEW u \in Thread
      PROVE  ~Clears(u, p)'
  <2>1. ~Clears(u, p)
    BY <1>2 DEF AheadOK
  <2>2. CASE u # t
    BY <2>1, <2>2, OtherThreads DEF Clears
  <2>. QED BY <1>2, <2>1, <2>2
<1>3. AttachWaits(p)' => view'[p] = "detached"
  BY DEF AheadOK
<1>. QED BY <1>1, <1>2, <1>3 DEF AheadOK

LEMMA HandleStep ==
    ASSUME Sound, Sound', [Next]_vars, NEW p, HandlesOK(p), NEW t \in Thread, Moved(t),
           \A d \in Dispatcher \ {t} : BusyAt(d, p) =>
               /\ view'[p] = view[p]
               /\ "ATTACHING" \in flags[p] => "ATTACHING" \in flags'[p]
               /\ \A f \in {"ATTACHED", "DETACHING"} : f \in flags'[p] => f \in flags[p],
           t \in Dispatcher /\ BusyAt(t, p)' => HandleOK(th[t], de[th[t].cur].type, p)'
    PROVE  HandlesOK(p)'
<1> SUFFICES ASSUME NEW d \in Dispatcher, BusyAt(d, p)'
             PROVE  HandleOK(th[d], de[th[d].cur].type, p)'
  BY DEF HandlesOK
<1>1. CASE d # t
  <2>1. BusyAt(d, p) /\ th'[d] = th[d] /\ de'[th[d].cur].type = de[th[d].cur].type
    BY <1>1, OtherBusy
  <2>2. HandleOK(th[d], de[th[d].cur].type, p)
    BY <2>1 DEF HandlesOK
  <2>. QED BY <1>1, <2>1, <2>2 DEF HandleOK
<1>. QED BY <1>1

LEMMA ToldStep ==
    ASSUME Sound, Sound', [Next]_vars, NEW p, ToldOK(p), NEW t \in Thread, Moved(t),
           Has(p, {"ATTACHED", "DETACHING"})' =>
               /\ Has(p, {"ATTACHED", "DETACHING"})
               /\ AttachWaits(p) => AttachWaits(p)' \/ view'[p] = "attached"
               /\ view[p] = "attached" => view'[p] = "attached"
               /\ t \in Dispatcher /\ Handles(t, p, {"CHANNEL_ATTACH", "CHANNEL_DETACH"}) =>
                     \/ Handles(t, p, {"CHANNEL_ATTACH", "CHANNEL_DETACH"})'
                     \/ view'[p] = "attached",
           "ATTACHED" \in flags'[p] /\ "ATTACHING" \notin flags'[p] => view'[p] = "attached"
    PROVE  ToldOK(p)'
<1>1. ASSUME Has(p, {"ATTACHED", "DETACHING"})', ~AttachWaits(p)', view'[p] # "attached"
      PROVE  \E d \in Dispatcher : Handles(d, p, {"CHANNEL_ATTACH", "CHANNEL_DETACH"})'
  <2>1. PICK d \in Dispatcher : Handles(d, p, {"CHANNEL_ATTACH", "CHANNEL_DETACH"})
    BY <1>1 DEF ToldOK
  <2>2. CASE d # t
    BY <2>1, <2>2, OtherBusy DEF Handles
  <2>3. CASE d = t
    BY <1>1, <2>1, <2>3
  <2>. QED BY <2>2, <2>3
<1>. QED BY <1>1 DEF ToldOK

LEMMA DetachStep ==
    ASSUME Sound, Sound', [Next]_vars, NEW p, DetachOK(p), NEW t \in Thread, Moved(t),
           DetachWaits(p)' => DetachUnderWay(p),
           t \in Dispatcher /\ Handles(t, p, {"CHANNEL_DETACH"})' => DetachUnderWay(p),
           DetachUnderWay(p) => ThroughWith(p)',
           th'[Central].ph = p /\ Detaches(th'[Central]) =>
               "ATTACHING" \notin flags'[p] /\ view'[p] = "attached"
    PROVE  DetachOK(p)'
<1>1. ASSUME NEW d \in Dispatcher, Handles(d, p, {"CHANNEL_DETACH"})'
      PROVE  DetachUnderWay(p)
  <2>1. CASE d # t
    <3>1. Handles(d, p, {"CHANNEL_DETACH"})
      BY <1>1, <2>1, OtherBusy DEF Handles
    <3>. QED BY <3>1 DEF DetachUnderWay
  <2>. QED BY <1>1, <2>1
<1>2. DetachUnderWay(p)' => ThroughWith(p)'
  BY <1>1 DEF DetachUnderWay
<1>. QED BY <1>2 DEF DetachOK

-----------------------------------------------------------------------------
(* Steps after which the events of channel p wait as before                *)

\* No attach and no detach of channel p is queued or taken; but an attach may be
\* taken that could not have been dispatched
SameEvents(p) ==
    /\ AttachWaits(p)' => AttachWaits(p)
    /\ AttachWaits(p) /\ (Has(p, {"ATTACHED", "DETACHING"})' \/ AttachingTo(p)) => AttachWaits(p)'
    /\ AttachWaits(p)' =>
          \A e \in ToSet(outq'[p]) : de'[e].type = "CHANNEL_ATTACH" => e = Head(outq'[p])
    /\ DetachWaits(p)' => DetachWaits(p)
    /\ Early(p) /\ ToQueue(th[Central]) /\ outq[p] = <<>> => outq'[p] = <<>>

\* Nor is the user told anything, or a flag of a session set
Same(p) ==
    /\ view'[p] = view[p] /\ SameEvents(p)
    /\ Early(p) /\ inq[p] = <<>> => inq'[p] = <<>>
    /\ "ATTACHING" \in flags'[p] <=> "ATTACHING" \in flags[p]
    /\ \A f \in {"ATTACHED", "DETACHING"} : f \in flags'[p] => f \in flags[p]

LEMMA SameQueue ==
    ASSUME Sound, Sound', [Next]_vars, NEW p \in Channel, AheadOK(p), outq'[p] = outq[p]
    PROVE  SameEvents(p)
<1>1. \A e \in ToSet(outq[p]) : de'[e].type = de[e].type
  BY QueuedTypes
<1>2. (AttachWaits(p)' <=> AttachWaits(p)) /\ (DetachWaits(p)' <=> DetachWaits(p))
  BY <1>1 DEF AttachWaits, DetachWaits
<1>3. AttachWaits(p)' =>
          \A e \in ToSet(outq'[p]) : de'[e].type = "CHANNEL_ATTACH" => e = Head(outq'[p])
  BY <1>1, <1>2 DEF AheadOK
<1>. QED BY <1>2, <1>3 DEF SameEvents

LEMMA ShorterQueue ==
    ASSUME Sound, Sound', [Next]_vars, NEW p \in Channel, AheadOK(p),
           outq[p] # <<>>, outq'[p] = Tail(outq[p]),
           AttachWaits(p) => ~Has(p, {"ATTACHED", "DETACHING"})' /\ ~AttachingTo(p)
    PROVE  SameEvents(p)
<1>1. outq[p] \in Seq(Entry) /\ IsInjective(outq[p])
  BY ChannelTypes DEF Sound, EntryInv, QueuesOnce
<1>2. ToSet(outq'[p]) = ToSet(outq[p]) \ {Head(outq[p])}
  BY <1>1, TailSet
<1>3. \A e \in ToSet(outq'[p]) : e \in ToSet(outq[p]) /\ de'[e].type = de[e].type
  BY <1>2, QueuedTypes
<1>4. ~AttachWaits(p)'
  BY <1>2, <1>3 DEF AttachWaits, AheadOK
<1>5. DetachWaits(p)' => DetachWaits(p)
  BY <1>3 DEF DetachWaits
<1>. QED BY <1>4, <1>5 DEF SameEvents

LEMMA LongerQueue ==
    ASSUME Sound, Sound', [Next]_vars, NEW p \in Channel, AheadOK(p), NEW e \in Entry,
           outq'[p] = Append(outq[p], e), ~(Early(p) /\ ToQueue(th[Central])),
           de'[e].type \notin {"CHANNEL_ATTACH", "CHANNEL_DETACH"}
    PROVE  SameEvents(p)
<1>1. outq[p] \in Seq(Entry)
  BY ChannelTypes DEF Sound
<1>2. ToSet(outq'[p]) = ToSet(outq[p]) \cup {e}
  BY <1>1, AppendSet
<1>3. \A a \in ToSet(outq[p]) : de'[a].type = de[a].type
  BY <1>2, QueuedTypes
<1>4. AttachWaits(p)' <=> AttachWaits(p)
  BY <1>2, <1>3 DEF AttachWaits
<1>5. DetachWaits(p)' => DetachWaits(p)
  BY <1>2, <1>3 DEF DetachWaits
<1>6. outq[p] # <<>> => Head(outq'[p]) = Head(outq[p])
  BY <1>1
<1>7. AttachWaits(p) => outq[p] # <<>>
  BY <1>1 DEF AttachWaits, ToSet
<1>8. ASSUME AttachWaits(p), NEW a \in ToSet(outq'[p]), de'[a].type = "CHANNEL_ATTACH"
      PROVE  a = Head(outq'[p])
  BY <1>2, <1>3, <1>6, <1>7, <1>8 DEF AheadOK
<1>. QED BY <1>4, <1>5, <1>8 DEF SameEvents

LEMMA Aside ==
    ASSUME Sound, Sound', [Next]_vars, NEW p \in Channel, SessionOK(p),
           NEW t \in Thread \ {Central}, Moved(t), Same(p),
           slot'[p] = "held" => slot[p] = "held",
           AttachingTo(p) /\ th'[t].ph = p => th'[t].pc \notin Emptying,
           Early(p) /\ th'[t].ph = p => WaitsIn(th'[t]),
           AttachWaits(p) /\ Has(p, {"ATTACHED", "DETACHING"})' /\ Clears(t, p)' => Clears(t, p),
           t \in Dispatcher /\ BusyAt(t, p)' =>
               /\ BusyAt(t, p) /\ th'[t].cur = th[t].cur
               /\ HandleOK(th[t], de[th[t].cur].type, p)',
           t \in Dispatcher /\ Has(p, {"ATTACHED", "DETACHING"})'
             /\ Handles(t, p, {"CHANNEL_ATTACH", "CHANNEL_DETACH"}) => BusyAt(t, p)'
    PROVE  SessionOK(p)'
<1>1. /\ AttachWaits(p)' => AttachWaits(p)
      /\ AttachWaits(p) /\ (Has(p, {"ATTACHED", "DETACHING"})' \/ AttachingTo(p)) => AttachWaits(p)'
      /\ DetachWaits(p)' => DetachWaits(p)
      /\ AttachWaits(p)' =>
          \A e \in ToSet(outq'[p]) : de'[e].type = "CHANNEL_ATTACH" => e = Head(outq'[p])
  BY DEF Same, SameEvents
<1>2. th'[Central] = th[Central] /\ Central \in Thread \ {t}
  BY OtherThreads, KindsApart
<1>3. /\ AttachingTo(p)' <=> AttachingTo(p)
      /\ Early(p)' <=> Early(p)
  BY <1>2 DEF AttachingTo, Early
<1>4. t \in Dispatcher /\ BusyAt(t, p)' => de'[th'[t].cur].type = de[th[t].cur].type
  BY HandledTypes DEF BusyAt, Busy
<1>5. Has(p, {"ATTACHED", "DETACHING"})' => Has(p, {"ATTACHED", "DETACHING"})
  BY DEF Same, Has
<1>6. OpeningOK(p)'
  <2>1. Early(p)' => Early(p) /\ slot'[p] # "held" /\ inq'[p] = <<>>
    BY <1>3 DEF SessionOK, OpeningOK, Same
  <2>2. AttachingTo(p)' =>
          /\ th'[Central].pc # "purge"
          /\ ~(th'[Central].pc = "drop" /\ th'[Central].todo = StartJobs)
          /\ ToQueue(th'[Central]) => outq'[p] = <<>>
          /\ ~ToQueue(th'[Central]) => AttachWaits(p)'
          /\ th'[Central].pc \in {"slot", "attach"} => "ATTACHING" \in flags'[p]
    BY <1>1, <1>2, <1>3 DEF SessionOK, OpeningOK, Same, SameEvents, Early, ToQueue
  <2>3. AttachingTo(p)' => AttachingTo(p) /\ view'[p] = view[p]
    BY <1>3 DEF Same
  <2>. QED BY <1>3, <2>1, <2>2, <2>3, OpeningStep DEF SessionOK
<1>7. AheadOK(p)'
  <2>1. AttachWaits(p)' =>
          /\ AttachWaits(p) /\ view'[p] = view[p]
          /\ \A e \in ToSet(outq'[p]) : de'[e].type = "CHANNEL_ATTACH" => e = Head(outq'[p])
          /\ t \in Dispatcher => ~BusyAt(t, p)'
    BY <1>1 DEF SessionOK, AheadOK, Same
  <2>2. AttachWaits(p)' /\ Has(p, {"ATTACHED", "DETACHING"})' =>
          /\ Has(p, {"ATTACHED", "DETACHING"})
          /\ "ATTACHING" \in flags'[p] /\ "DETACHING" \notin flags'[p]
          /\ Clears(t, p)' => Clears(t, p)
    BY <1>1, <1>5 DEF SessionOK, AheadOK, Same
  <2>. QED BY <2>1, <2>2, AheadStep DEF SessionOK
<1>8. HandlesOK(p)'
  BY HandleStep DEF SessionOK, Same
<1>9. ToldOK(p)'
  <2>1. "ATTACHED" \in flags'[p] /\ "ATTACHING" \notin flags'[p] => view'[p] = "attached"
    BY DEF SessionOK, ToldOK, Same
  <2>2. Has(p, {"ATTACHED", "DETACHING"})' =>
          /\ Has(p, {"ATTACHED", "DETACHING"})
          /\ AttachWaits(p) => AttachWaits(p)' \/ view'[p] = "attached"
          /\ view[p] = "attached" => view'[p] = "attached"
          /\ t \in Dispatcher /\ Handles(t, p, {"CHANNEL_ATTACH", "CHANNEL_DETACH"}) =>
                \/ Handles(t, p, {"CHANNEL_ATTACH", "CHANNEL_DETACH"})'
                \/ view'[p] = "attached"
    BY <1>1, <1>4, <1>5 DEF Same, Handles
  <2>. QED BY <2>1, <2>2, ToldStep DEF SessionOK
<1>10. DetachOK(p)'
  <2>1. t \in Dispatcher /\ Handles(t, p, {"CHANNEL_DETACH"})' => DetachUnderWay(p)
    BY <1>4 DEF Handles, DetachUnderWay
  <2>2. DetachUnderWay(p) => ThroughWith(p)'
    BY <1>2 DEF SessionOK, DetachOK, ThroughWith
  <2>3. th'[Central].ph = p /\ Detaches(th'[Central]) =>
          "ATTACHING" \notin flags'[p] /\ view'[p] = "attached"
    BY <1>2 DEF SessionOK, DetachOK, Same
  <2>4. DetachWaits(p)' => DetachUnderWay(p)
    BY <1>1 DEF DetachUnderWay
  <2>. QED BY <2>1, <2>2, <2>3, <2>4, DetachStep DEF SessionOK
<1>. QED BY <1>6, <1>7, <1>8, <1>9, <1>10 DEF SessionOK

LEMMA CentralAside ==
    ASSUME Sound, Sound', [Next]_vars, NEW p \in Channel, SessionOK(p),
           Moved(Central), Same(p),
           AttachingTo(p)' =>
               /\ AttachingTo(p)
               /\ th'[Central].pc # "purge"
               /\ ~(th'[Central].pc = "drop" /\ th'[Central].todo = StartJobs)
               /\ ToQueue(th'[Central]) <=> ToQueue(th[Central])
               /\ th'[Central].pc \in {"slot", "attach"} => "ATTACHING" \in flags[p],
           Early(p)' => Early(p) /\ slot'[p] # "held",
           AttachWaits(p) /\ Has(p, {"ATTACHED", "DETACHING"})' /\ Clears(Central, p)' =>
               Clears(Central, p),
           DetachUnderWay(p) => ThroughWith(p)',
           th'[Central].ph = p /\ Detaches(th'[Central]) =>
               "ATTACHING" \notin flags[p] /\ view[p] = "attached"
    PROVE  SessionOK(p)'
<1>1. /\ AttachWaits(p)' => AttachWaits(p)
      /\ AttachWaits(p) /\ (Has(p, {"ATTACHED", "DETACHING"})' \/ AttachingTo(p)) => AttachWaits(p)'
      /\ DetachWaits(p)' => DetachWaits(p)
      /\ AttachWaits(p)' =>
          \A e \in ToSet(outq'[p]) : de'[e].type = "CHANNEL_ATTACH" => e = Head(outq'[p])
  BY DEF Same, SameEvents
<1>2. Central \in Thread /\ Central \notin Dispatcher
  BY KindsApart
<1>3. Has(p, {"ATTACHED", "DETACHING"})' => Has(p, {"ATTACHED", "DETACHING"})
  BY DEF Same, Has
<1>4. OpeningOK(p)'
  <2>1. Early(p)' => Early(p) /\ slot'[p] # "held" /\ inq'[p] = <<>>
    BY DEF SessionOK, OpeningOK, Same
  <2>2. AttachingTo(p)' =>
          /\ th'[Central].pc # "purge"
          /\ ~(th'[Central].pc = "drop" /\ th'[Central].todo = StartJobs)
          /\ ToQueue(th'[Central]) => outq'[p] = <<>>
          /\ ~ToQueue(th'[Central]) => AttachWaits(p)'
          /\ th'[Central].pc \in {"slot", "attach"} => "ATTACHING" \in flags'[p]
    BY <1>1 DEF SessionOK, OpeningOK, Same, SameEvents, Early, ToQueue
  <2>3. AttachingTo(p)' => AttachingTo(p) /\ view'[p] = view[p]
    BY DEF Same
  <2>. QED BY <1>2, <2>1, <2>2, <2>3, OpeningStep DEF SessionOK
<1>5. AheadOK(p)'
  <2>1. AttachWaits(p)' =>
          /\ AttachWaits(p) /\ view'[p] = view[p]
          /\ \A e \in ToSet(outq'[p]) : de'[e].type = "CHANNEL_ATTACH" => e = Head(outq'[p])
          /\ Central \in Dispatcher => ~BusyAt(Central, p)'
    BY <1>1, <1>2 DEF SessionOK, AheadOK, Same
  <2>2. AttachWaits(p)' /\ Has(p, {"ATTACHED", "DETACHING"})' =>
          /\ Has(p, {"ATTACHED", "DETACHING"})
          /\ "ATTACHING" \in flags'[p] /\ "DETACHING" \notin flags'[p]
          /\ Clears(Central, p)' => Clears(Central, p)
    BY <1>1, <1>3 DEF SessionOK, AheadOK, Same
  <2>. QED BY <1>2, <2>1, <2>2, AheadStep DEF SessionOK
<1>6. HandlesOK(p)'
  BY <1>2, HandleStep DEF SessionOK, Same
<1>7. ToldOK(p)'
  <2>1. "ATTACHED" \in flags'[p] /\ "ATTACHING" \notin flags'[p] => view'[p] = "attached"
    BY DEF SessionOK, ToldOK, Same
  <2>2. Has(p, {"ATTACHED", "DETACHING"})' =>
          /\ Has(p, {"ATTACHED", "DETACHING"})
          /\ AttachWaits(p) => AttachWaits(p)' \/ view'[p] = "attached"
          /\ view[p] = "attached" => view'[p] = "attached"
    BY <1>1, <1>3 DEF Same
  <2>. QED BY <1>2, <2>1, <2>2, ToldStep DEF SessionOK
<1>8. DetachOK(p)'
  <2>1. DetachWaits(p)' => DetachUnderWay(p)
    BY <1>1 DEF DetachUnderWay
  <2>2. th'[Central].ph = p /\ Detaches(th'[Central]) =>
          "ATTACHING" \notin flags'[p] /\ view'[p] = "attached"
    BY DEF Same
  <2>. QED BY <1>2, <2>1, <2>2, DetachStep DEF SessionOK
<1>. QED BY <1>4, <1>5, <1>6, <1>7, <1>8 DEF SessionOK

\* Nothing happens to p when a thread works on another channel
LEMMA SessionElsewhere ==
    ASSUME Sound, Sound', [Next]_vars, NEW p \in Channel, SessionOK(p),
           NEW t \in Thread, Moved(t), th[t].ph # p, th'[t].ph # p,
           NEW q, q # p, Touches(q)
    PROVE  SessionOK(p)'
<1>1. Same(p) /\ slot'[p] = slot[p]
  BY SameQueue DEF Touches, Same, SessionOK
<1>2. ~Clears(t, p)' /\ ~BusyAt(t, p)' /\ ~BusyAt(t, p)
  BY DEF Clears, BusyAt
<1>3. CASE t = Central
  <2>1. ~AttachingTo(p)' /\ ~Early(p)'
    BY <1>3 DEF AttachingTo, Early
  <2>2. DetachUnderWay(p) => ThroughWith(p)'
    BY <1>1, <1>3 DEF SessionOK, DetachOK, ThroughWith
  <2>. QED BY <1>1, <1>2, <1>3, <2>1, <2>2, CentralAside
<1>4. CASE t # Central
  BY <1>1, <1>2, <1>4, Aside DEF Handles
<1>. QED BY <1>3, <1>4

-----------------------------------------------------------------------------
(* Users, sources and dispatchers insert and clear                         *)

\* What a dispatcher does in the middle of its event
LEMMA InsertionWork ==
    ASSUME NEW d \in Dispatcher, NEW r, NEW s, Shape(d, r), InsertionMove(d, r, s)
    PROVE  /\ SameWork(r, s) /\ (Busy(r) <=> Busy(s))
           /\ s.pc \in Inserting \cup ClearPlace \cup {"called", "callbackqueued", "attacherror"}
           /\ s.pc \in Inserting \cup {"called"} => r.pc \in Inserting
           /\ r.pc \in Inserting \cup ClearPlace
<1>1. d # Central /\ d \notin User /\ d \notin Source
  BY KindsApart
<1>2. CASE s = r
  BY <1>2 DEF InsertionMove, SameWork, Inserting, ClearPlace
<1>3. CASE /\ r.pc \in Inserting /\ s.pc \in Inserting /\ SameJob(r, s)
  BY <1>3 DEF SameJob, SameWork, Busy, Running, Inserting
<1>4. CASE r.pc \in Inserting /\ JobOver(d, r, s)
  <2>1. SameWork(r, s) /\ s.pc \in {"called", "callbackqueued"}
    BY <1>1, <1>4 DEF JobOver, SameWork
  <2>. QED BY <1>4, <2>1 DEF SameWork, Busy, Running, Inserting
<1>5. CASE r.pc = "clearout" /\ s.pc = "clearin" /\ Alike(r, s)
  BY <1>5 DEF Alike, SameJob, SameWork, Busy, Running, ClearPlace, Inserting
<1>6. CASE r.pc = "clearin" /\ Cleared1(d, r, s)
  <2>1. SameWork(r, s) /\ s.pc = "attacherror"
    BY <1>1, <1>6 DEF Cleared1, Alike, SameJob, Shape, ClearPlace
  <2>. QED BY <1>6, <2>1 DEF SameWork, Busy, Running, ClearPlace, Inserting
<1>. QED BY <1>2, <1>3, <1>4, <1>5, <1>6 DEF InsertionMove, Inserting, Alike, SameJob

LEMMA InsertionHandles ==
    ASSUME Sound, Sound', [Next]_vars, NEW p \in Channel, HandlesOK(p), Same(p),
           NEW d \in Dispatcher, InsertionMove(d, th[d], th'[d])
    PROVE  /\ BusyAt(d, p)' <=> BusyAt(d, p)
           /\ th'[d].cur = th[d].cur
           /\ BusyAt(d, p)' => HandleOK(th[d], de[th[d].cur].type, p)'
<1>1. Shape(d, th[d])
  BY DispatcherThread DEF Sound, WorkInv, Shapes
<1>2. /\ SameWork(th[d], th'[d]) /\ (Busy(th[d]) <=> Busy(th'[d]))
      /\ th'[d].pc \in Inserting \cup ClearPlace \cup {"called", "callbackqueued", "attacherror"}
      /\ th'[d].pc \in Inserting \cup {"called"} => th[d].pc \in Inserting
      /\ th[d].pc \in Inserting \cup ClearPlace
  BY <1>1, InsertionWork
<1>3. (BusyAt(d, p)' <=> BusyAt(d, p)) /\ th'[d].cur = th[d].cur
  BY <1>2 DEF BusyAt, SameWork
<1>4. ASSUME BusyAt(d, p)' PROVE HandleOK(th[d], de[th[d].cur].type, p)'
  <2>1. PICK ty : ty = de[th[d].cur].type
    OBVIOUS
  <2>2. de'[th'[d].cur].type = ty
    BY <1>3, <1>4, <2>1, HandledTypes DEF BusyAt, Busy
  <2>3. HandleOK(th[d], ty, p)
    BY <1>3, <1>4, <2>1 DEF HandlesOK
  <2>4. th[d].pc \notin {"exec", "callback", "called", "enablefailed"}
        /\ th'[d].pc \notin {"exec", "callback", "enablefailed"}
    BY <1>2 DEF Inserting, ClearPlace
  <2>5. ty # "CHANNEL_DETACH"
    BY <2>3, <2>4 DEF HandleOK
  <2>6. ASSUME ty = "CHANNEL_ATTACH"
        PROVE  /\ "ATTACHING" \in flags'[p]
               /\ th'[d].pc \in {"called", "enablefailed"} \cup Inserting => view'[p] = "attached"
               /\ "DETACHING" \notin flags'[p]
    BY <1>2, <2>3, <2>4, <2>6 DEF HandleOK, Same
  <2>. QED BY <2>2, <2>4, <2>5, <2>6 DEF HandleOK
<1>. QED BY <1>3, <1>4

LEMMA InsertedType ==
    ASSUME Sound, NEW t \in Thread, th[t].pc = "insert"
    PROVE  /\ th[t].req \in Entry /\ de[th[t].req] = Filled(Head(th[t].todo))
           /\ de[th[t].req].type = Head(th[t].todo).type
           /\ t # Central => de[th[t].req].type \notin {"CHANNEL_ATTACH", "CHANNEL_DETACH"}
<1>1. th[t].req \in Entry
  BY DEF Sound, TypeInv, Threads, ThreadOK, Filling, Inserting
<1>2. de[th[t].req] = Filled(Head(th[t].todo))
  BY <1>1 DEF Sound, EntryInv, InsertOK, Before
<1>3. de[th[t].req].type = Head(th[t].todo).type
  BY <1>2 DEF Filled
<1>4. ASSUME t # Central
      PROVE  Head(th[t].todo).type \notin {"CHANNEL_ATTACH", "CHANNEL_DETACH"}
  <2>1. JobsFor(t, th[t])
    BY DEF Sound, WorkInv, Shapes, Shape, Inserting
  <2>2. PICK ty \in ThrowAway \cup {"USERREQ", "USERREQCALLBACK"}, b \in BOOLEAN :
          th[t].todo = <<Job(ty, b)>>
    BY <1>4, <2>1 DEF JobsFor, SyncRequest, CallbackJob
  <2>. QED BY <2>2 DEF ThrowAway, NotDetaching, Job
<1>. QED BY <1>1, <1>2, <1>3, <1>4

\* Where channel p attaches, and where an attach event waits, nobody else finds that
\* the channel detaches or is not attached
LEMMA NotRefused ==
    ASSUME Sound, NEW p \in Channel, SessionOK(p), NEW t \in Thread \ {Central},
           InsertRefused(t), th[t].ph = p
    PROVE  ~AttachingTo(p) /\ ~(AttachWaits(p) /\ Has(p, {"ATTACHED", "DETACHING"}))
<1>1. th[t].pc = "insert"
      /\ (Has(p, {"DETACHING"}) \/ ~Has(p, {"ATTACHED", "ATTACHING"}))
  BY DEF InsertRefused, Refused, At
<1>2. ~AttachingTo(p)
  <2>1. ASSUME AttachingTo(p) PROVE FALSE
    <3>1. ~Early(p)
      BY <1>1 DEF SessionOK, OpeningOK, WaitsIn
    <3>2. "ATTACHING" \in flags[p]
      BY <2>1, <3>1 DEF Early, SessionOK, OpeningOK
    <3>3. ~Has(p, {"ATTACHED", "DETACHING"})
      BY <2>1 DEF Sound, HandInv, HandOK
    <3>. QED BY <1>1, <3>2, <3>3 DEF Has
  <2>. QED BY <2>1
<1>3. ~(AttachWaits(p) /\ Has(p, {"ATTACHED", "DETACHING"}))
  BY <1>1 DEF SessionOK, AheadOK, Has
<1>. QED BY <1>2, <1>3

\* The places of Insertion
InsertionAt == Inserting \cup ClearPlace

LEMMA InsertionFrom ==
    ASSUME NEW t, Insertion(t) \/ TimesOut(t)
    PROVE  th[t].pc \in InsertionAt
BY DEF Insertion, GetEntry, GetEntryFails, InsertRefused, InsertNoSpace, InsertAppend, Purge, Drop,
       Mark, PutOnOutList, PutOnInList, EntryDispatched, Answered, ClearOut, ClearIn, TimesOut, At,
       InsertionAt, Inserting, ClearPlace

LEMMA InsertionKeeps ==
    ASSUME TypeInv, NEW t, Insertion(t) \/ TimesOut(t), NEW p
    PROVE  /\ view' = view /\ slot' = slot
           /\ \A f \in {"ATTACHED", "DETACHING", "ATTACHING"} : f \in flags'[p] <=> f \in flags[p]
           /\ \/ UNCHANGED outq \/ InsertAppend(t)
              \/ (Purge(t) \/ ClearOut(t)) /\ outq[th[t].ph] # <<>>
<1>1. view' = view /\ slot' = slot
  BY DEF Insertion, GetEntry, GetEntryFails, InsertRefused, InsertNoSpace, InsertAppend, Purge, Drop,
         Mark, PutOnOutList, PutOnInList, EntryDispatched, Answered, ClearOut, ClearIn, TimesOut,
         history, queues
<1>2. \A f \in {"ATTACHED", "DETACHING", "ATTACHING"} : f \in flags'[p] <=> f \in flags[p]
  <2>1. CASE Mark(t)
    <3>1. PICK f : flags' = [flags EXCEPT ![th[t].ph] = @ \cup {f}] /\ f \in {"DISPATCHIN", "DISPATCHOUT"}
      BY <2>1 DEF Mark
    <3>. QED BY <3>1 DEF TypeInv, RestOK
  <2>2. CASE ~Mark(t)
    <3>1. flags' = flags
      BY <2>2 DEF Insertion, GetEntry, GetEntryFails, InsertRefused, InsertNoSpace, InsertAppend,
             Purge, Drop, PutOnOutList, PutOnInList, EntryDispatched, Answered, ClearOut, ClearIn,
             TimesOut, queues
    <3>. QED BY <3>1
  <2>. QED BY <2>1, <2>2
<1>3. \/ UNCHANGED outq \/ InsertAppend(t)
      \/ (Purge(t) \/ ClearOut(t)) /\ outq[th[t].ph] # <<>>
  BY DEF Insertion, GetEntry, GetEntryFails, InsertRefused, InsertNoSpace, Purge, Drop,
         Mark, PutOnOutList, PutOnInList, EntryDispatched, Answered, ClearOut, ClearIn, TimesOut,
         queues
<1>. QED BY <1>1, <1>2, <1>3

LEMMA InsertionSame ==
    ASSUME Sound, Sound', [Next]_vars, NEW p \in Channel, SessionOK(p), NEW t \in Thread,
           Insertion(t) \/ TimesOut(t), th[t].ph = p,
           Early(p) => inq'[p] = inq[p],
           InsertAppend(t) =>
               /\ ~(Early(p) /\ ToQueue(th[Central]))
               /\ de[th[t].req].type \notin {"CHANNEL_ATTACH", "CHANNEL_DETACH"},
           th[t].pc \in {"purge", "clearout"} =>
               ~AttachingTo(p) /\ ~(AttachWaits(p) /\ Has(p, {"ATTACHED", "DETACHING"}))
    PROVE  Same(p) /\ slot' = slot
<1>1. /\ view' = view /\ slot' = slot
      /\ \A f \in {"ATTACHED", "DETACHING", "ATTACHING"} : f \in flags'[p] <=> f \in flags[p]
      /\ \/ UNCHANGED outq \/ InsertAppend(t)
         \/ (Purge(t) \/ ClearOut(t)) /\ outq[th[t].ph] # <<>>
  BY InsertionKeeps DEF Sound
<1>2. outq \in [Channel -> Seq(Entry)] /\ AheadOK(p)
  BY QueueTypes DEF Sound, SessionOK
<1>3. CASE outq'[p] = outq[p]
  <2>1. SameEvents(p)
    BY <1>2, <1>3, SameQueue
  <2>. QED BY <1>1, <2>1 DEF Same
<1>4. CASE InsertAppend(t) /\ outq'[p] # outq[p]
  <2>1. th[t].pc = "insert"
    BY <1>4 DEF InsertAppend, At
  <2>2. PICK e : e = th[t].req
    OBVIOUS
  <2>3. e \in Entry /\ de' = de /\ outq'[p] = Append(outq[p], e)
    BY <1>2, <1>4, <2>1, <2>2, InsertedType DEF InsertAppend
  <2>4. SameEvents(p)
    BY <1>2, <1>4, <2>2, <2>3, LongerQueue
  <2>. QED BY <1>1, <2>4 DEF Same
<1>5. CASE (Purge(t) \/ ClearOut(t)) /\ outq[p] # <<>>
  <2>1. outq'[p] = Tail(outq[p]) /\ flags' = flags /\ th[t].pc \in {"purge", "clearout"}
    BY <1>2, <1>5 DEF Purge, ClearOut, TakeFirst, At
  <2>2. SameEvents(p)
    BY <1>2, <1>5, <2>1, ShorterQueue DEF Has
  <2>. QED BY <1>1, <2>2 DEF Same
<1>. QED BY <1>1, <1>3, <1>4, <1>5

LEMMA SessionInsertion ==
    ASSUME Sound, Sound', [Next]_vars, NEW p \in SessionChannel, SessionOK(p),
           NEW t \in Thread \ {Central}, Insertion(t) \/ TimesOut(t), th[t].ph = p
    PROVE  SessionOK(p)'
<1>0. /\ Moved(t) /\ InsertionMove(t, th[t], th'[t]) /\ Shape(t, th[t]) /\ th[t].pc \in InsertionAt
      /\ p \in Channel \ ServedChannel
  BY InsertionMoves, InsertionFrom DEF Sound, WorkInv, Shapes, SessionChannel
<1>1. ~Early(p)
  BY <1>0 DEF SessionOK, OpeningOK, WaitsIn, InsertionAt, Inserting, ClearPlace
<1>2. th[t].pc \in {"purge", "clearout"} =>
        ~AttachingTo(p) /\ ~(AttachWaits(p) /\ Has(p, {"ATTACHED", "DETACHING"}))
  BY DEF SessionOK, OpeningOK, AheadOK, Emptying, ClearPlace, Clears
<1>3. Same(p) /\ slot' = slot
  <2>1. InsertAppend(t) => de[th[t].req].type \notin {"CHANNEL_ATTACH", "CHANNEL_DETACH"}
    BY InsertedType DEF InsertAppend, At
  <2>. QED BY <1>0, <1>1, <1>2, <2>1, InsertionSame
<1>4. th'[t].pc \in {"purge", "clearout"} => th[t].pc = th'[t].pc \/ InsertRefused(t)
  <2>1. ASSUME th'[t].pc \in {"purge", "clearout"}, th[t].pc # th'[t].pc
        PROVE  th[t].pc = "insert" /\ th'[t].pc = "purge"
    BY <1>0, <2>1, KindsApart DEF InsertionMove, JobOver, Cleared1, Idle, Shape, ClearPlace, Inserting
  <2>2. ASSUME th[t].pc = "insert", th'[t].pc = "purge" PROVE InsertRefused(t)
    <3>1. ~InsertNoSpace(t) /\ ~InsertAppend(t)
      BY <1>0, <2>2, GotoMoves DEF InsertNoSpace, InsertAppend, Sound, TypeInv, Threads, ThreadState
    <3>. QED BY <2>2, <3>1 DEF Insertion, GetEntry, GetEntryFails, InsertRefused, Purge, Drop,
            Mark, PutOnOutList, PutOnInList, EntryDispatched, Answered, ClearOut, ClearIn, TimesOut, At
  <2>. QED BY <2>1, <2>2
<1>5. AttachingTo(p) /\ th'[t].ph = p => th'[t].pc \notin Emptying
  <2>1. ASSUME AttachingTo(p), th'[t].pc \in Emptying
        PROVE  FALSE
    <3>1. th[t].pc \notin Emptying
      BY <2>1 DEF SessionOK, OpeningOK
    <3>2. th'[t].pc \notin {"purge", "clearout"}
      BY <1>0, <1>4, <2>1, <3>1, NotRefused DEF Emptying, ClearPlace
    <3>3. th'[t].pc \in {"clearin"} \cup ClosePlace
      BY <2>1, <3>2 DEF Emptying, ClearPlace
    <3>. QED BY <1>0, <3>1, <3>3, KindsApart DEF InsertionMove, JobOver, Cleared1, Idle, Emptying,
                                                 ClearPlace, ClosePlace, Inserting, Shape
  <2>. QED BY <2>1
<1>6. AttachWaits(p) /\ Has(p, {"ATTACHED", "DETACHING"})' /\ Clears(t, p)' => Clears(t, p)
  <2>1. Has(p, {"ATTACHED", "DETACHING"})' => Has(p, {"ATTACHED", "DETACHING"})
    BY <1>3 DEF Same, Has
  <2>. QED BY <1>0, <1>4, <2>1, NotRefused DEF Clears
<1>7. t \in Dispatcher =>
        /\ BusyAt(t, p)' <=> BusyAt(t, p)
        /\ th'[t].cur = th[t].cur
        /\ BusyAt(t, p)' => HandleOK(th[t], de[th[t].cur].type, p)'
  BY <1>0, <1>3, InsertionHandles DEF SessionOK
<1>. QED BY <1>0, <1>1, <1>3, <1>5, <1>6, <1>7, Aside DEF Handles

-----------------------------------------------------------------------------
(* The central thread inserts and clears                                   *)

\* The type of its entry tells which job the central thread is at
LEMMA CentralJob ==
    ASSUME Sound, th[Central].pc \in Inserting
    PROVE  /\ Job1(Central).type \notin NotDetaching \cup InTypes
           /\ Job1(Central).type = "CHANNEL_ATTACH" <=> th[Central].todo = StartJobs
           /\ Job1(Central).type = "CHANNEL_DETACH" <=> th[Central].cont = "unslot"
           /\ th[Central].cont \in {"attaching", "unslot"}
<1>1. JobsFor(Central, th[Central])
  BY KindsApart DEF Sound, WorkInv, Shapes, Shape
<1>2. \/ th[Central].cont = "attaching" /\ th[Central].todo \in {StartJobs, StatusJobs, InitJobs}
      \/ th[Central].cont = "unslot" /\ th[Central].todo = DetachJobs
  BY <1>1, KindsApart DEF JobsFor
<1>3. /\ Head(StartJobs).type = "CHANNEL_ATTACH" /\ Head(StatusJobs).type = "CHANNEL_SETSTATUS"
      /\ Head(InitJobs).type = "CHANNEL_INITEVENTS" /\ Head(DetachJobs).type = "CHANNEL_DETACH"
  BY StartJobsAre DEF DetachJobs, Job
<1>. QED BY <1>2, <1>3 DEF Job1, NotDetaching, InTypes

LEMMA CentralInserts ==
    ASSUME Sound, th[Central].pc = "insert"
    PROVE  /\ th[Central].req \in Entry /\ ~de[th[Central].req].inbound
           /\ de[th[Central].req].type = Job1(Central).type
           /\ ~InsertRefused(Central)
<1>1. /\ th[Central].req \in Entry /\ de[th[Central].req] = Filled(Job1(Central))
      /\ de[th[Central].req].type = Job1(Central).type
  BY InsertedType, KindsApart DEF Job1
<1>2. Job1(Central).type \notin NotDetaching \cup InTypes
  BY CentralJob DEF Inserting
<1>3. ~de[th[Central].req].inbound
  BY <1>1, <1>2 DEF Sound, WorkInv, Directions
<1>. QED BY <1>1, <1>2, <1>3 DEF InsertRefused, Refused

\* The attach event of channel p is queued
LEMMA SessionOpens ==
    ASSUME Sound, Sound', [Next]_vars, NEW p \in SessionChannel, SessionOK(p),
           InsertAppend(Central), th[Central].ph = p, Job1(Central).type = "CHANNEL_ATTACH"
    PROVE  SessionOK(p)'
<1>0. /\ Moved(Central) /\ Central \in Thread /\ Central \notin Dispatcher
      /\ th[Central].pc = "insert" /\ th'[Central].pc = "mark" /\ th'[Central].ph = p
      /\ p \in Channel
      /\ Alike(th[Central], th'[Central])
  BY KindsApart, GotoMoves DEF InsertAppend, At, Sound, TypeInv, Alike, SameJob, SameWork, SessionChannel
<1>1. /\ th[Central].todo = StartJobs /\ th[Central].cont = "attaching"
      /\ th'[Central].todo = StartJobs /\ th'[Central].cont = "attaching"
  BY <1>0, CentralJob DEF Inserting, Alike, SameJob
<1>2. ToQueue(th[Central]) /\ Early(p) /\ AttachingTo(p) /\ ~ToQueue(th'[Central])
  BY <1>0, <1>1 DEF ToQueue, Early, AttachingTo, AttachingAt, Inserting
<1>3. /\ outq[p] = <<>> /\ view[p] = "detached" /\ slot[p] # "held" /\ inq[p] = <<>>
      /\ ~Has(p, {"ATTACHED", "DETACHING"})
  BY <1>0, <1>2 DEF SessionOK, OpeningOK, Sound, HandInv, HandOK
<1>4. PICK e : e = th[Central].req
  OBVIOUS
<1>5. /\ e \in Entry /\ de[e].type = "CHANNEL_ATTACH" /\ ~de[e].inbound
  BY <1>0, <1>4, CentralInserts
<1>6. /\ outq'[p] = <<e>> /\ UNCHANGED <<flags, view, slot, de, inq>>
  <2>1. outq \in [Channel -> Seq(Entry)]
    BY QueueTypes DEF Sound
  <2>2. outq'[p] = Append(outq[p], e)
    BY <1>0, <1>4, <1>5, <2>1 DEF InsertAppend
  <2>. QED BY <1>3, <1>4, <1>5, <2>2 DEF InsertAppend
<1>7. ToSet(outq'[p]) = {e} /\ Head(outq'[p]) = e
  BY <1>5, <1>6 DEF ToSet
<1>8. AttachWaits(p)' /\ ~DetachWaits(p)'
  BY <1>5, <1>6, <1>7 DEF AttachWaits, DetachWaits
<1>9. ASSUME NEW d \in Dispatcher PROVE ~BusyAt(d, p) /\ ~BusyAt(d, p)'
  <2>1. ~BusyAt(d, p)
    BY <1>2, DispatcherThread, KindsApart DEF SessionOK, OpeningOK, BusyAt, Busy, WaitsIn
  <2>. QED BY <1>0, <2>1, OtherBusy
<1>10. OpeningOK(p)'
  BY <1>0, <1>2, <1>3, <1>6, <1>8, OpeningStep DEF SessionOK
<1>11. AheadOK(p)'
  <2>1. ~Has(p, {"ATTACHED", "DETACHING"})'
    BY <1>3, <1>6 DEF Has
  <2>. QED BY <1>3, <1>6, <1>7, <1>9, <2>1 DEF AheadOK
<1>12. HandlesOK(p)'
  BY <1>9 DEF HandlesOK
<1>13. ToldOK(p)'
  BY <1>3, <1>6 DEF ToldOK, Has
<1>14. DetachOK(p)'
  <2>1. ~DetachUnderWay(p)'
    BY <1>8, <1>9 DEF DetachUnderWay, Handles
  <2>2. ~Detaches(th'[Central])
    BY <1>0, <1>1 DEF Detaches, ClearPlace
  <2>. QED BY <2>1, <2>2 DEF DetachOK
<1>. QED BY <1>10, <1>11, <1>12, <1>13, <1>14 DEF SessionOK

\* The detach event of channel p is queued
LEMMA SessionEnds ==
    ASSUME Sound, Sound', [Next]_vars, NEW p \in SessionChannel, SessionOK(p),
           InsertAppend(Central), th[Central].ph = p, Job1(Central).type = "CHANNEL_DETACH"
    PROVE  SessionOK(p)'
<1>0. /\ Moved(Central) /\ Central \in Thread /\ Central \notin Dispatcher
      /\ th[Central].pc = "insert" /\ th'[Central].pc = "mark" /\ th'[Central].ph = p
      /\ p \in Channel
      /\ Alike(th[Central], th'[Central])
  BY KindsApart, GotoMoves DEF InsertAppend, At, Sound, TypeInv, Alike, SameJob, SameWork, SessionChannel
<1>1. th[Central].cont = "unslot" /\ th'[Central].cont = "unslot"
  BY <1>0, CentralJob DEF Inserting, Alike, SameJob
<1>2. ~AttachingTo(p)' /\ ~Early(p)'
  BY <1>0, <1>1 DEF Early, AttachingTo, AttachingAt
<1>3. PICK e : e = th[Central].req
  OBVIOUS
<1>4. e \in Entry /\ de[e].type = "CHANNEL_DETACH" /\ ~de[e].inbound
  BY <1>0, <1>3, CentralInserts
<1>5. outq[p] \in Seq(Entry) /\ outq'[p] = Append(outq[p], e) /\ UNCHANGED <<flags, view, slot, de, inq>>
  <2>1. outq \in [Channel -> Seq(Entry)]
    BY QueueTypes DEF Sound
  <2>. QED BY <1>0, <1>3, <1>4, <2>1 DEF InsertAppend
<1>6. ToSet(outq'[p]) = ToSet(outq[p]) \cup {e}
  BY <1>4, <1>5, AppendSet
<1>7. AttachWaits(p)' <=> AttachWaits(p)
  BY <1>4, <1>5, <1>6 DEF AttachWaits
<1>8. ASSUME AttachWaits(p), NEW a \in ToSet(outq'[p]), de'[a].type = "CHANNEL_ATTACH"
      PROVE  a = Head(outq'[p])
  <2>1. outq[p] # <<>>
    BY <1>5, <1>8 DEF AttachWaits, ToSet
  <2>2. Head(outq'[p]) = Head(outq[p])
    BY <1>5, <2>1
  <2>. QED BY <1>4, <1>5, <1>6, <1>8, <2>2 DEF SessionOK, AheadOK
<1>9. /\ "ATTACHING" \notin flags[p] /\ view[p] = "attached" /\ Detaches(th[Central])
  BY <1>0, <1>1 DEF SessionOK, DetachOK, Detaches
<1>10. OpeningOK(p)'
  BY <1>2 DEF OpeningOK
<1>11. AheadOK(p)'
  <2>1. AttachWaits(p)' =>
           /\ AttachWaits(p) /\ view'[p] = view[p]
           /\ \A a \in ToSet(outq'[p]) : de'[a].type = "CHANNEL_ATTACH" => a = Head(outq'[p])
           /\ Central \in Dispatcher => ~BusyAt(Central, p)'
    BY <1>0, <1>5, <1>7, <1>8
  <2>2. AttachWaits(p)' /\ Has(p, {"ATTACHED", "DETACHING"})' =>
           /\ Has(p, {"ATTACHED", "DETACHING"})
           /\ "ATTACHING" \in flags'[p] /\ "DETACHING" \notin flags'[p]
           /\ Clears(Central, p)' => Clears(Central, p)
    BY <1>0, <1>5, <1>7 DEF SessionOK, AheadOK, Has, Clears
  <2>. QED BY <1>0, <2>1, <2>2, AheadStep DEF SessionOK
<1>12. HandlesOK(p)'
  BY <1>0, <1>5, HandleStep DEF SessionOK
<1>13. ToldOK(p)'
  <2>1. Has(p, {"ATTACHED", "DETACHING"})' => Has(p, {"ATTACHED", "DETACHING"})
    BY <1>5 DEF Has
  <2>2. "ATTACHED" \in flags'[p] /\ "ATTACHING" \notin flags'[p] => view'[p] = "attached"
    BY <1>5, <1>9
  <2>. QED BY <1>0, <1>5, <1>7, <2>1, <2>2, ToldStep DEF SessionOK
<1>14. DetachOK(p)'
  <2>1. ThroughWith(p)' /\ ~Detaches(th'[Central])
    BY <1>0, <1>1 DEF ThroughWith, Through, Detaches, CentralPlace, ClearPlace
  <2>. QED BY <2>1 DEF DetachOK
<1>. QED BY <1>10, <1>11, <1>12, <1>13, <1>14 DEF SessionOK

\* The central thread finds an entry for the attach event.  With the pool of entries
\* exhausted, startDispatch goes on without it: dispatch.c:1359 drops the result.
AttachFinds == ~(GetEntryFails(Central) /\ Job1(Central).type = "CHANNEL_ATTACH")

LEMMA AnnounceMoves ==
    ASSUME Sound, NEW p \in SessionChannel, SessionOK(p), AttachFinds,
           Insertion(Central) \/ TimesOut(Central), th[Central].ph = p,
           InsertAppend(Central) => ~ToQueue(th[Central])
    PROVE  ToQueue(th'[Central]) <=> ToQueue(th[Central])
<1>0. /\ Central \in Thread /\ Threads(th) /\ Shapes(th) /\ InsertionMove(Central, th[Central], th'[Central])
      /\ StartJobs # StatusJobs /\ StartJobs # InitJobs /\ StartJobs # DetachJobs
  BY KindsApart, InsertionMoves, JobLengths DEF Sound, WorkInv, TypeInv
<1>1. ASSUME ToQueue(th[Central]) PROVE ToQueue(th'[Central])
  <2>1. Job1(Central).type = "CHANNEL_ATTACH" /\ th[Central].cont = "attaching"
    <3>1. th[Central].pc \in Inserting
      BY <1>1 DEF ToQueue, Inserting
    <3>2. th[Central].todo = StartJobs
      BY <1>1 DEF ToQueue
    <3>3. Job1(Central).type = "CHANNEL_ATTACH"
      BY <3>1, <3>2, CentralJob
    <3>. QED BY <3>1, <3>3, CentralJob
  <2>2. CASE th[Central].pc = "get"
    <3>1. GetEntry(Central)
      BY <2>1, <2>2 DEF AttachFinds, Insertion, GetEntry, InsertRefused, InsertNoSpace, InsertAppend, Purge, Drop,
            Mark, PutOnOutList, PutOnInList, EntryDispatched, Answered, ClearOut, ClearIn, TimesOut, At
    <3>2. PICK e \in free : th' = [th EXCEPT ![Central].pc = "insert", ![Central].req = e]
      BY <3>1 DEF GetEntry
    <3>3. th'[Central].pc = "insert" /\ th'[Central].todo = th[Central].todo
      BY <1>0, <3>2 DEF Threads, ThreadState
    <3>. QED BY <1>1, <3>3 DEF ToQueue
  <2>3. CASE th[Central].pc = "insert"
    <3>1. Early(p)
      BY <2>1, <2>3 DEF Early, AttachingTo, AttachingAt, Inserting
    <3>2. outq[p] = <<>>
      BY <1>1, <3>1 DEF SessionOK, OpeningOK, Early
    <3>3. ~InsertRefused(Central) /\ ~de[th[Central].req].inbound
          /\ de[th[Central].req].type = "CHANNEL_ATTACH"
      BY <2>1, <2>3, CentralInserts
    <3>4. ~InsertNoSpace(Central)
      <4>1. Count(Central) = 0 /\ OutHardMax \in Nat /\ Hard(Central) = OutHardMax
        BY <3>2, <3>3, ConstantsAssumption DEF Count, Hard
      <4>2. "CHANNEL_ATTACH" \notin ThrowAway
        BY DEF ThrowAway, NotDetaching
      <4>. QED BY <3>3, <4>1, <4>2 DEF InsertNoSpace
    <3>. QED BY <1>1, <2>3, <3>3, <3>4 DEF Insertion, GetEntry, GetEntryFails, Purge, Drop,
            Mark, PutOnOutList, PutOnInList, EntryDispatched, Answered, ClearOut, ClearIn, TimesOut, At
  <2>. QED BY <1>1, <2>2, <2>3 DEF ToQueue
<1>2. ASSUME ToQueue(th'[Central]) PROVE ToQueue(th[Central])
  <2>1. th'[Central].pc \in {"get", "insert"} /\ th'[Central].todo = StartJobs
    BY <1>2 DEF ToQueue
  <2>2. ~JobOver(Central, th[Central], th'[Central])
    BY <1>0, <2>1, KindsApart DEF JobOver
  <2>3. ~(th[Central].pc = "clearin" /\ Cleared1(Central, th[Central], th'[Central]))
    BY <1>0, <2>1, KindsApart DEF Cleared1, Shapes, Shape, ClearPlace
  <2>. QED BY <1>0, <2>1, <2>2, <2>3 DEF InsertionMove, ToQueue, SameJob, Alike
<1>. QED BY <1>1, <1>2

LEMMA SessionCentral ==
    ASSUME Sound, Sound', [Next]_vars, NEW p \in SessionChannel, SessionOK(p), AttachFinds,
           Insertion(Central) \/ TimesOut(Central), th[Central].ph = p
    PROVE  SessionOK(p)'
<1>0. /\ Central \in Thread /\ Moved(Central) /\ InsertionMove(Central, th[Central], th'[Central])
      /\ Shape(Central, th[Central]) /\ th[Central].pc \in InsertionAt
      /\ p \in Channel \ ServedChannel
  BY InsertionMoves, InsertionFrom, KindsApart DEF Sound, WorkInv, Shapes, SessionChannel
<1>1. CASE InsertAppend(Central) /\ Job1(Central).type \in {"CHANNEL_ATTACH", "CHANNEL_DETACH"}
  BY <1>1, SessionOpens, SessionEnds
<1>2. CASE ~(InsertAppend(Central) /\ Job1(Central).type \in {"CHANNEL_ATTACH", "CHANNEL_DETACH"})
  <2>1. InsertAppend(Central) =>
          /\ de[th[Central].req].type \notin {"CHANNEL_ATTACH", "CHANNEL_DETACH"}
          /\ ~ToQueue(th[Central]) /\ inq' = inq
    <3>1. ASSUME InsertAppend(Central)
          PROVE  /\ de[th[Central].req].type \notin {"CHANNEL_ATTACH", "CHANNEL_DETACH"}
                 /\ ~ToQueue(th[Central]) /\ inq' = inq
      <4>1. th[Central].pc = "insert"
        BY <3>1 DEF InsertAppend, At
      <4>2. de[th[Central].req].type = Job1(Central).type /\ ~de[th[Central].req].inbound
        BY <4>1, CentralInserts
      <4>3. ~ToQueue(th[Central])
        BY <1>2, <3>1, <4>1, CentralJob DEF ToQueue, Inserting
      <4>. QED BY <1>2, <3>1, <4>2, <4>3 DEF InsertAppend
    <3>. QED BY <3>1
  <2>2. th[Central].pc \in {"purge", "clearout"} =>
          ~AttachingTo(p) /\ ~(AttachWaits(p) /\ Has(p, {"ATTACHED", "DETACHING"}))
    <3>1. th[Central].pc \in {"purge", "clearout"} => ~AttachingTo(p)
      BY DEF SessionOK, OpeningOK, AttachingTo, AttachingAt, Inserting
    <3>2. th[Central].pc \in {"purge", "clearout"} => Clears(Central, p)
      BY DEF Clears
    <3>. QED BY <1>0, <3>1, <3>2 DEF SessionOK, AheadOK
  <2>3. Early(p) => inq'[p] = inq[p]
    <3>1. ASSUME Early(p) PROVE inq' = inq
      <4>1. ~ClearIn(Central)
        BY <3>1 DEF Early, AttachingTo, AttachingAt, ClearIn, At, Inserting
      <4>. QED BY <2>1, <4>1 DEF Insertion, GetEntry, GetEntryFails, InsertRefused, InsertNoSpace, Purge,
             Drop, Mark, PutOnOutList, PutOnInList, EntryDispatched, Answered, ClearOut, TimesOut, queues
    <3>. QED BY <3>1
  <2>4. Same(p) /\ slot' = slot
    BY <1>0, <2>1, <2>2, <2>3, InsertionSame
  <2>5. ToQueue(th'[Central]) <=> ToQueue(th[Central])
    BY <2>1, AnnounceMoves
  <2>6. th'[Central].pc \in {"purge", "clearout"} => th'[Central].pc = th[Central].pc
    <3>1. ~(th[Central].pc = "insert" /\ th'[Central].pc = "purge")
      <4>1. ASSUME th[Central].pc = "insert", th'[Central].pc = "purge" PROVE FALSE
        <5>1. ~InsertRefused(Central)
          BY <4>1, CentralInserts
        <5>2. ~InsertNoSpace(Central) /\ ~InsertAppend(Central)
          BY <1>0, <4>1, GotoMoves DEF InsertNoSpace, InsertAppend, Sound, TypeInv, Threads, ThreadState
        <5>. QED BY <4>1, <5>1, <5>2 DEF Insertion, GetEntry, GetEntryFails, Purge, Drop, Mark, PutOnOutList,
               PutOnInList, EntryDispatched, Answered, ClearOut, ClearIn, TimesOut, At
      <4>. QED BY <4>1
    <3>. QED BY <1>0, <3>1, KindsApart DEF InsertionMove, JobOver, Cleared1, Shape, ClearPlace
  <2>7. /\ th'[Central].ph = p /\ th'[Central].cont = th[Central].cont
        /\ th'[Central].pc \in {"get", "insert"} =>
              \/ th'[Central].cont = "attaching"
              \/ th[Central].pc \in {"get", "insert"}
        /\ th'[Central].pc \in InsertionAt \cup {"attaching", "unslot", "detach"}
        /\ th'[Central].pc \in ClearPlace \cup {"detach"} => th[Central].pc \in ClearPlace
        /\ th'[Central].pc = "detach" => th[Central].cont = "detach"
        /\ th'[Central].pc = "attaching" => th[Central].cont = "attaching"
    <3>1. CASE th'[Central] = th[Central]
      BY <1>0, <3>1 DEF InsertionAt, Inserting, ClearPlace
    <3>2. CASE th[Central].pc \in Inserting /\ th'[Central].pc \in Inserting /\ SameJob(th[Central], th'[Central])
                /\ (th'[Central].pc \in {"get", "insert"} => th[Central].pc \in {"get", "insert"})
      BY <3>2 DEF InsertionAt, Inserting, ClearPlace, SameJob, SameWork
    <3>3. CASE th[Central].pc \in Inserting /\ JobOver(Central, th[Central], th'[Central])
      BY <3>3, KindsApart DEF JobOver, InsertionAt, Inserting, ClearPlace
    <3>4. CASE th[Central].pc = "clearout" /\ th'[Central].pc = "clearin" /\ Alike(th[Central], th'[Central])
      BY <3>4 DEF Alike, SameJob, SameWork, InsertionAt, Inserting, ClearPlace
    <3>5. CASE th[Central].pc = "clearin" /\ Cleared1(Central, th[Central], th'[Central])
      BY <1>0, <3>5, KindsApart DEF Cleared1, Alike, SameJob, SameWork, Shape, InsertionAt, Inserting, ClearPlace
    <3>. QED BY <1>0, <3>1, <3>2, <3>3, <3>4, <3>5 DEF InsertionMove, Alike, SameJob, Inserting
  <2>8. AttachingTo(p)' =>
           /\ AttachingTo(p)
           /\ th'[Central].pc # "purge"
           /\ ~(th'[Central].pc = "drop" /\ th'[Central].todo = StartJobs)
           /\ ToQueue(th'[Central]) <=> ToQueue(th[Central])
           /\ th'[Central].pc \in {"slot", "attach"} => "ATTACHING" \in flags[p]
    <3> SUFFICES ASSUME AttachingTo(p)'
                 PROVE  /\ AttachingTo(p)
                        /\ th'[Central].pc # "purge"
                        /\ ~(th'[Central].pc = "drop" /\ th'[Central].todo = StartJobs)
                        /\ th'[Central].pc \notin {"slot", "attach"}
      BY <2>5
    <3>1. th'[Central].pc \notin {"slot", "attach"} /\ th'[Central].pc \in InsertionAt \cup {"attaching"}
      BY <2>7 DEF InsertionAt, Inserting, ClearPlace, AttachingTo, AttachingAt
    <3>2. AttachingTo(p)
      <4>1. th[Central].cont = "attaching"
        BY <1>0, <2>7, <3>1, KindsApart DEF AttachingTo, AttachingAt, InsertionMove, JobOver, Cleared1, Shape,
                ClearPlace, Inserting
      <4>2. th[Central].pc \in Inserting
        BY <1>0, <4>1, KindsApart DEF Shape, ClearPlace, InsertionAt
      <4>. QED BY <4>1, <4>2 DEF AttachingTo, AttachingAt
    <3>3. th'[Central].pc # "purge"
      BY <2>6, <3>2 DEF SessionOK, OpeningOK
    <3>4. ~(th'[Central].pc = "drop" /\ th'[Central].todo = StartJobs)
      <4>1. ASSUME th'[Central].pc = "drop", th'[Central].todo = StartJobs PROVE FALSE
        <5>1. SameJob(th[Central], th'[Central]) /\ th[Central].pc \in {"drop", "insert", "purge"}
          BY <1>0, <4>1, KindsApart DEF InsertionMove, JobOver, Cleared1, Alike, Shape, ClearPlace, SameJob, SameWork
        <5>2. th[Central].todo = StartJobs
          BY <4>1, <5>1 DEF SameJob
        <5>3. th[Central].pc = "insert"
          BY <3>2, <5>1, <5>2 DEF SessionOK, OpeningOK
        <5>4. ToQueue(th[Central]) /\ ~ToQueue(th'[Central])
          BY <4>1, <5>2, <5>3 DEF ToQueue
        <5>. QED BY <2>5, <5>4
      <4>. QED BY <4>1
    <3>. QED BY <3>1, <3>2, <3>3, <3>4
  <2>9. Early(p)' => Early(p) /\ slot'[p] # "held"
    <3>1. ASSUME Early(p)' PROVE Early(p)
      BY <1>0, <2>8, <3>1 DEF Early, InsertionAt, Inserting, ClearPlace
    <3>. QED BY <2>4, <3>1 DEF SessionOK, OpeningOK
  <2>10. DetachUnderWay(p) => ThroughWith(p)'
    <3>1. ASSUME DetachUnderWay(p) PROVE Through(th'[Central])
      <4>1. Through(th[Central])
        BY <3>1 DEF SessionOK, DetachOK, ThroughWith
      <4>. QED BY <2>7, <4>1 DEF Through, CentralPlace, InsertionAt, Inserting, ClearPlace
    <3>. QED BY <2>7, <3>1 DEF ThroughWith
  <2>11. Detaches(th'[Central]) => "ATTACHING" \notin flags[p] /\ view[p] = "attached"
    <3>1. Detaches(th'[Central]) => Detaches(th[Central])
      BY <2>7 DEF Detaches, InsertionAt, Inserting, ClearPlace
    <3>. QED BY <3>1 DEF SessionOK, DetachOK
  <2>12. Clears(Central, p)' => Clears(Central, p)
    BY <2>6 DEF Clears
  <2>. QED BY <1>0, <2>4, <2>8, <2>9, <2>10, <2>11, <2>12, CentralAside
<1>. QED BY <1>1, <1>2

-----------------------------------------------------------------------------
(* Dispatchers take channels and events                                    *)

LEMMA LoopPlaces ==
    ASSUME NEW r, NEW s, LoopMove(r, s)
    PROVE  /\ ~Busy(r) /\ s.pc \notin Emptying
           /\ Busy(s) => r.pc = "serve" /\ s.pc = "exec" /\ r.out = TRUE /\ r.ph = s.ph
BY DEF LoopMove, Busy, Running, Emptying, ClosePlace, ClearPlace, Idle, SameJob, SameWork

LEMMA SessionLoop ==
    ASSUME Sound, Sound', [Next]_vars, NEW p \in SessionChannel, SessionOK(p),
           NEW d \in Dispatcher, DispatcherLoop(d),
           ~(Dequeue(d) /\ th[d].out = TRUE /\ th[d].ph = p)
    PROVE  SessionOK(p)'
<1>0. /\ d \in Thread \ {Central} /\ Moved(d) /\ LoopMove(th[d], th'[d]) /\ p \in Channel
      /\ Shape(d, th[d]) /\ th[d] \in ThreadState /\ th \in [Thread -> ThreadState]
  BY LoopMoves, DispatcherThread, KindsApart DEF Sound, SessionChannel, WorkInv, Shapes, TypeInv, Threads
<1>1. ~BusyAt(d, p) /\ th'[d].pc \notin Emptying
  BY <1>0, LoopPlaces DEF BusyAt
<1>2. ~BusyAt(d, p)'
  <2>1. ASSUME BusyAt(d, p)' PROVE FALSE
    <3>1. th[d].pc = "serve" /\ th'[d].pc = "exec" /\ th[d].out = TRUE /\ th[d].ph = p
      BY <1>0, <2>1, LoopPlaces DEF BusyAt
    <3>2. Dequeue(d)
      BY <1>0, <3>1, GotoMoves DEF DispatcherLoop, Exit, TakeIn, ScanStart, ScanTake, ScanSkip, ScanEnd,
             Unflag, Leave, EntryDone, At, Goto, Threads, ThreadState
    <3>. QED BY <3>1, <3>2
  <2>. QED BY <2>1
<1>3. view' = view /\ slot' = slot
  BY DEF DispatcherLoop, Exit, TakeIn, ScanStart, ScanTake, ScanSkip, ScanEnd, Dequeue, Unflag, Leave,
         EntryDone, history, queues
<1>4. \A f \in {"ATTACHED", "DETACHING", "ATTACHING"} : f \in flags'[p] <=> f \in flags[p]
  <2>1. flags' = flags \/ \E q : \E f \in {"DISPATCHIN", "DISPATCHOUT"} : flags' = [flags EXCEPT ![q] = @ \ {f}]
    BY DEF DispatcherLoop, Exit, TakeIn, ScanStart, ScanTake, ScanSkip, ScanEnd, Dequeue, Unflag, Leave,
           EntryDone, queues
  <2>. QED BY <1>0, <2>1 DEF Sound, TypeInv, RestOK
<1>5. SameEvents(p)
  <2>1. outq'[p] = outq[p]
    <3>1. CASE Dequeue(d)
      <4>1. th[d].out = TRUE \/ th[d].out = FALSE
        BY <1>0 DEF ThreadState
      <4>2. CASE th[d].out = FALSE
        BY <3>1, <4>2 DEF Dequeue
      <4>3. CASE th[d].out = TRUE
        <5>1. th[d].ph # p /\ outq \in [Channel -> Seq(Entry)]
          BY <3>1, <4>3, QueueTypes DEF Sound
        <5>2. outq' = [outq EXCEPT ![th[d].ph] = Tail(@)]
          BY <3>1, <4>3 DEF Dequeue
        <5>. QED BY <5>1, <5>2
      <4>. QED BY <4>1, <4>2, <4>3
    <3>2. CASE ~Dequeue(d)
      BY <3>2 DEF DispatcherLoop, Exit, TakeIn, ScanStart, ScanTake, ScanSkip, ScanEnd, Unflag, Leave,
         EntryDone, queues
    <3>. QED BY <3>1, <3>2
  <2>. QED BY <1>0, <2>1, SameQueue DEF SessionOK
<1>6. inq[p] = <<>> => inq'[p] = <<>>
  <2>1. CASE Dequeue(d)
    <3>1. inq' = inq \/ (inq' = [inq EXCEPT ![th[d].ph] = Tail(@)] /\ inq[th[d].ph] # <<>>)
      BY <2>1 DEF Dequeue
    <3>2. inq \in [Channel -> Seq(Entry)] /\ p \in Channel
      BY <1>0, QueueTypes DEF Sound
    <3>3. th[d].ph # p => inq'[p] = inq[p]
      BY <3>1, <3>2
    <3>. QED BY <3>1, <3>3
  <2>2. CASE ~Dequeue(d)
    BY <2>2 DEF DispatcherLoop, Exit, TakeIn, ScanStart, ScanTake, ScanSkip, ScanEnd, Unflag, Leave,
         EntryDone, queues
  <2>. QED BY <2>1, <2>2
<1>7. Same(p)
  BY <1>3, <1>4, <1>5, <1>6 DEF Same
<1>8. ASSUME Early(p), th'[d].ph = p PROVE WaitsIn(th'[d])
  <2>1. ~Has(p, {"ATTACHED", "DETACHING"}) /\ inq[p] = <<>> /\ p # NoChannel
    BY <1>0, <1>8, ConstantsAssumption DEF Sound, HandInv, HandOK, Early, SessionOK, OpeningOK
  <2>2. th[d].ph = p => WaitsIn(th[d])
    BY <1>0, <1>8 DEF SessionOK, OpeningOK
  <2>3. CASE th[d].ph = p
    <3>1. th[d].pc \in {"serve", "leave"} /\ th[d].out = FALSE
      BY <2>2, <2>3 DEF WaitsIn
    <3>2. ~Dequeue(d)
      BY <2>1, <2>3, <3>1 DEF Dequeue
    <3>3. th'[d].pc = "leave" /\ SameJob(th[d], th'[d])
      <4>1. Unflag(d) \/ Leave(d)
        BY <3>1, <3>2 DEF DispatcherLoop, Exit, TakeIn, ScanStart, ScanTake, ScanSkip, ScanEnd, EntryDone, At
      <4>2. ~Leave(d)
        BY <1>0, <1>8, <2>1 DEF Leave, Idle
      <4>. QED BY <1>0, <4>1, <4>2, GotoMoves DEF Unflag, Alike, Threads, Sound, TypeInv
    <3>. QED BY <3>1, <3>3 DEF WaitsIn, SameJob, SameWork
  <2>4. CASE th[d].ph # p
    <3>1. \/ th[d].pc = "loop" /\ th'[d].pc = "serve" /\ ~th'[d].out
          \/ th[d].pc = "scan" /\ th'[d].pc = "serve"
      BY <1>0, <1>8, <2>1, <2>4 DEF LoopMove, Idle, SameJob, SameWork
    <3>2. CASE th[d].pc = "scan" /\ th'[d].pc = "serve"
      <4>1. ScanTake(d)
        <5>1. ~ScanEnd(d)
          BY <1>0, <3>2 DEF ScanEnd, Idle
        <5>2. ~ScanSkip(d)
          <6>1. ASSUME ScanSkip(d) PROVE th'[d].pc = "scan"
            <7>1. th' = th \/ \E i : th' = [th EXCEPT ![d].at = i]
              BY <6>1 DEF ScanSkip
            <7>. QED BY <1>0, <3>2, <7>1 DEF ThreadState
          <6>. QED BY <3>2, <6>1
        <5>. QED BY <3>2, <5>1, <5>2 DEF DispatcherLoop, Exit, TakeIn, ScanStart, Dequeue, Unflag, Leave, EntryDone, At
      <4>2. th'[d].ph = outList[th[d].at]
        BY <1>0, <4>1 DEF ScanTake, ThreadState
      <4>. QED BY <1>8, <2>1, <4>1, <4>2 DEF ScanTake
    <3>3. CASE th[d].pc = "loop" /\ th'[d].pc = "serve" /\ ~th'[d].out
      <4>1. th'[d].out \in BOOLEAN
        BY <1>0 DEF Sound, TypeInv, Threads, ThreadState
      <4>. QED BY <3>3, <4>1 DEF WaitsIn
    <3>. QED BY <3>1, <3>2, <3>3
  <2>. QED BY <2>3, <2>4
<1>9. ~Clears(d, p)'
  BY <1>1 DEF Clears, Emptying, ClearPlace
<1>. QED BY <1>0, <1>1, <1>2, <1>3, <1>7, <1>8, <1>9, Aside DEF Handles

\* A dispatcher takes the next event of channel p
LEMMA SessionDequeue ==
    ASSUME Sound, Sound', [Next]_vars, NEW p \in SessionChannel, SessionOK(p),
           NEW d \in Dispatcher, Dequeue(d), th[d].out = TRUE, th[d].ph = p
    PROVE  SessionOK(p)'
<1>0. /\ d \in Thread /\ d # Central /\ Moved(d) /\ p \in Channel /\ th[d].pc = "serve"
      /\ th \in [Thread -> ThreadState]
  BY LoopMoves, DispatcherThread, KindsApart DEF Sound, SessionChannel, TypeInv, Threads,
     DispatcherLoop, Dequeue, At
<1>1. /\ Has(p, {"ATTACHED", "DETACHING"}) /\ outq[p] # <<>>
      /\ UNCHANGED <<flags, slot, inq, de, view>>
  BY DEF Dequeue, Served, history
<1>2. PICK e : e = Head(outq[p])
  OBVIOUS
<1>3. /\ outq'[p] = Tail(outq[p]) /\ outq[p] \in Seq(Entry) /\ IsInjective(outq[p])
      /\ th'[d].pc = "exec" /\ th'[d].cur = e /\ th'[d].ph = p /\ th'[d].out = TRUE
  <2>1. outq \in [Channel -> Seq(Entry)] /\ IsInjective(outq[p])
    BY <1>0, QueueTypes DEF Sound, EntryInv, QueuesOnce
  <2>2. th' = [th EXCEPT ![d].pc = "exec", ![d].cur = e, ![d].returnde = ~de[e].noreturn]
    BY <1>2 DEF Dequeue
  <2>3. th'[d].pc = "exec" /\ th'[d].cur = e /\ th'[d].ph = p /\ th'[d].out = TRUE
    BY <1>0, <2>2 DEF ThreadState
  <2>4. outq'[p] = Tail(outq[p])
    BY <1>0, <2>1 DEF Dequeue
  <2>. QED BY <1>0, <2>1, <2>3, <2>4
<1>4. e \in ToSet(outq[p]) /\ ToSet(outq'[p]) = ToSet(outq[p]) \ {e}
  BY <1>1, <1>2, <1>3, TailSet
<1>5. ~AttachWaits(p)' /\ (AttachWaits(p) <=> de[e].type = "CHANNEL_ATTACH")
  BY <1>1, <1>2, <1>4 DEF AttachWaits, SessionOK, AheadOK
<1>6. ASSUME NEW c \in Dispatcher PROVE ~BusyAt(c, p) /\ (BusyAt(c, p)' => c = d)
  <2>1. ASSUME BusyAt(c, p) PROVE FALSE
    <3>1. Drains(c, p, TRUE) /\ Drains(d, p, TRUE)
      BY <1>0, <2>1 DEF Drains, BusyAt, Busy, Running
    <3>2. c = d
      BY <1>0, <3>1 DEF Sound, OneDispatcherPerQueue
    <3>. QED BY <1>0, <2>1, <3>2 DEF BusyAt, Busy, Running
  <2>2. ASSUME BusyAt(c, p)', c # d PROVE FALSE
    <3>1. BusyAt(c, p)
      BY <1>0, <2>2, OtherBusy
    <3>. QED BY <2>1, <3>1
  <2>. QED BY <2>1, <2>2
<1>7. de[e].type # "CHANNEL_ATTACH" => view[p] = "attached"
  BY <1>1, <1>5, <1>6 DEF SessionOK, ToldOK, Handles
<1>8. BusyAt(d, p)' /\ de'[th'[d].cur].type = de[e].type
  BY <1>1, <1>3 DEF BusyAt, Busy, Running
<1>9. OpeningOK(p)'
  <2>1. ~AttachingTo(p)
    BY <1>0, <1>1 DEF Sound, HandInv, HandOK
  <2>2. th'[Central] = th[Central]
    BY <1>0, OtherThreads, KindsApart
  <2>. QED BY <2>1, <2>2 DEF OpeningOK, Early, AttachingTo, AttachingAt
<1>10. AheadOK(p)'
  BY <1>5 DEF AheadOK
<1>11. HandlesOK(p)'
  <2>1. ASSUME de[e].type = "CHANNEL_ATTACH"
        PROVE  "ATTACHING" \in flags[p] /\ view[p] = "detached" /\ "DETACHING" \notin flags[p]
    BY <1>1, <1>5, <2>1 DEF SessionOK, AheadOK
  <2>2. HandleOK(th[d], de[th[d].cur].type, p)'
    BY <1>1, <1>3, <1>7, <1>8, <2>1 DEF HandleOK, Inserting
  <2>. QED BY <1>6, <2>2 DEF HandlesOK
<1>12. ToldOK(p)'
  <2>1. "ATTACHED" \in flags'[p] /\ "ATTACHING" \notin flags'[p] => view'[p] = "attached"
    BY <1>1 DEF SessionOK, ToldOK
  <2>2. view'[p] = "attached" \/ Handles(d, p, {"CHANNEL_ATTACH", "CHANNEL_DETACH"})'
    BY <1>1, <1>7, <1>8 DEF Handles
  <2>. QED BY <2>1, <2>2 DEF ToldOK
<1>13. DetachOK(p)'
  <2>1. DetachWaits(p)' => DetachWaits(p)
    BY <1>1, <1>4 DEF DetachWaits
  <2>2. Handles(d, p, {"CHANNEL_DETACH"})' => DetachWaits(p)
    BY <1>4, <1>8 DEF Handles, DetachWaits
  <2>3. th'[Central] = th[Central]
    BY <1>0, OtherThreads, KindsApart
  <2>4. DetachUnderWay(p) => ThroughWith(p)'
    BY <1>1, <2>3 DEF SessionOK, DetachOK, ThroughWith
  <2>5. th'[Central].ph = p /\ Detaches(th'[Central]) =>
            "ATTACHING" \notin flags'[p] /\ view'[p] = "attached"
    BY <1>1, <2>3 DEF SessionOK, DetachOK
  <2>. QED BY <1>0, <2>1, <2>2, <2>4, <2>5, DetachStep DEF SessionOK, DetachUnderWay
<1>. QED BY <1>9, <1>10, <1>11, <1>12, <1>13 DEF SessionOK

-----------------------------------------------------------------------------
(* Dispatchers execute events                                              *)

\* The channel of a dispatcher in the middle of an event: no attach event waits, no
\* other dispatcher is at one, and the channel is not being attached
LEMMA HandlerStep ==
    ASSUME Sound, Sound', [Next]_vars, NEW p \in SessionChannel, SessionOK(p),
           NEW d \in Dispatcher, Execution(d), BusyAt(d, p), NEW ty, ty = de[th[d].cur].type,
           outq'[p] = outq[p], slot'[p] = slot[p],
           Busy(th'[d]) => HandleOK(th[d], ty, p)',
           Has(p, {"ATTACHED", "DETACHING"})' =>
               \/ view'[p] = "attached"
               \/ Busy(th'[d]) /\ ty \in {"CHANNEL_ATTACH", "CHANNEL_DETACH"},
           "ATTACHED" \in flags'[p] /\ "ATTACHING" \notin flags'[p] => view'[p] = "attached",
           th[Central].ph = p /\ Detaches(th[Central]) =>
               "ATTACHING" \notin flags'[p] /\ view'[p] = "attached"
    PROVE  SessionOK(p)'
<1>0. /\ d \in Thread /\ d # Central /\ Moved(d) /\ p \in Channel
      /\ th'[d].ph = p /\ th'[d].cur = th[d].cur /\ th[d].ph = p
  BY ExecutionMoves, DispatcherThread, KindsApart
     DEF Sound, SessionChannel, ExecutionMove, SameWork, BusyAt
<1>1. th'[Central] = th[Central]
  BY <1>0, OtherThreads, KindsApart
<1>2. Drains(d, p, TRUE)
  BY DEF Drains, BusyAt, Busy, Running
<1>3. ~AttachingTo(p)'
  BY <1>0, <1>1, <1>2 DEF Sound, HandInv, HandOK, AttachingTo, AttachingAt
<1>4. ~AttachWaits(p)' /\ (DetachWaits(p)' => DetachWaits(p))
  BY <1>0, SameQueue DEF SessionOK, AheadOK, SameEvents
<1>5. ASSUME NEW c \in Dispatcher, BusyAt(c, p)' PROVE c = d
  <2>1. ASSUME c # d PROVE FALSE
    <3>1. BusyAt(c, p)
      BY <1>0, <1>5, <2>1, OtherBusy
    <3>2. Drains(c, p, TRUE)
      BY <3>1 DEF Drains, BusyAt, Busy, Running
    <3>. QED BY <1>0, <1>2, <2>1, <3>2 DEF Sound, OneDispatcherPerQueue
  <2>. QED BY <2>1
<1>6. Busy(th'[d]) => BusyAt(d, p)' /\ de'[th'[d].cur].type = ty
  BY <1>0, HandledTypes DEF BusyAt, Busy
<1>7. OpeningOK(p)'
  BY <1>3 DEF OpeningOK, Early
<1>8. AheadOK(p)'
  BY <1>4 DEF AheadOK
<1>9. HandlesOK(p)'
  <2> SUFFICES ASSUME BusyAt(d, p)' PROVE HandleOK(th[d], de[th[d].cur].type, p)'
    BY <1>5 DEF HandlesOK
  <2>1. Busy(th'[d]) /\ HandleOK(th[d], ty, p)'
    BY DEF BusyAt
  <2>. QED BY <1>6, <2>1
<1>10. ToldOK(p)'
  BY <1>6 DEF ToldOK, Handles
<1>11. DetachOK(p)'
  <2>1. Handles(d, p, {"CHANNEL_DETACH"})' => DetachUnderWay(p)
    BY <1>6 DEF Handles, DetachUnderWay, BusyAt
  <2>2. DetachUnderWay(p) => ThroughWith(p)'
    BY <1>1 DEF SessionOK, DetachOK, ThroughWith
  <2>. QED BY <1>0, <1>1, <1>4, <2>1, <2>2, DetachStep DEF SessionOK, DetachUnderWay
<1>. QED BY <1>7, <1>8, <1>9, <1>10, <1>11 DEF SessionOK

\* A dispatcher that works on commands, or has nothing more to do with the channel
LEMMA SessionCommand ==
    ASSUME Sound, Sound', [Next]_vars, NEW p \in SessionChannel, SessionOK(p),
           NEW d \in Dispatcher, Execution(d), th[d].ph = p, ~BusyAt(d, p)
    PROVE  SessionOK(p)'
<1>0. /\ d \in Thread \ {Central} /\ Moved(d) /\ p \in Channel /\ ExecutionMove(th[d], th'[d])
      /\ th[d].out \in BOOLEAN
  BY ExecutionMoves, DispatcherThread, KindsApart DEF Sound, SessionChannel, TypeInv, Threads, ThreadState
<1>1. Running(th[d]) /\ th[d].pc \notin {"serve", "leave"}
  BY <1>0 DEF ExecutionMove, Running
<1>2. th[d].pc = "unslot" \/ th[d].out = FALSE
  BY <1>0, <1>1 DEF BusyAt, Busy
<1>3. RunsAs(th[d], de[th[d].cur].type)
  BY <1>1 DEF Sound, WorkInv, RunOK
<1>4. \/ ExecInternal(d) \/ ExecRequest(d) \/ ExecAsyncRequest(d) \/ CallbackQueued(d) \/ AttachErrorUnslot(d)
  BY <1>2, <1>3 DEF Execution, ExecAttachFails, ExecEvent, Callback, Called, EnableFails, EnableFailed,
                    AttachError, Executing, At, RunsAs, OutTypes
<1>5. /\ UNCHANGED <<flags, outq, inq, view>>
      /\ slot' = slot \/ Unslotted(p)
  BY <1>4 DEF ExecInternal, ExecRequest, ExecAsyncRequest, CallbackQueued, AttachErrorUnslot, queues, history
<1>6. slot'[p] = "held" => slot[p] = "held"
  BY <1>0, <1>5 DEF Unslotted, Sound, TypeInv, RestOK
<1>7. Same(p)
  <2>1. SameEvents(p)
    BY <1>0, <1>5, SameQueue DEF SessionOK
  <2>. QED BY <1>5, <2>1 DEF Same
<1>8. th'[d].pc \in {"done", "get"} /\ th'[d].out = th[d].out /\ th'[d].ph = p
      /\ (th'[d].pc = "get" => th[d].out = FALSE)
  <2>1. th'[d].pc \in {"done", "get"}
    <3>1. Threads(th)
      BY DEF Sound, TypeInv
    <3>2. CASE ExecAsyncRequest(d)
      BY <1>0, <3>1, <3>2 DEF ExecAsyncRequest, Threads, ThreadState
    <3>3. CASE ~ExecAsyncRequest(d)
      <4>1. Goto(d, "done")
        BY <1>4, <3>3 DEF ExecInternal, ExecRequest, CallbackQueued, AttachErrorUnslot
      <4>. QED BY <1>0, <3>1, <4>1, GotoMoves
    <3>. QED BY <3>2, <3>3
  <2>. QED BY <1>0, <1>2, <2>1 DEF ExecutionMove, SameWork
<1>9. ~BusyAt(d, p)' /\ ~Clears(d, p)' /\ th'[d].pc \notin Emptying
  BY <1>8 DEF BusyAt, Busy, Running, Clears, Emptying, ClosePlace, ClearPlace
<1>10. ~Early(p)
  BY <1>0, <1>1 DEF SessionOK, OpeningOK, WaitsIn
<1>. QED BY <1>0, <1>6, <1>7, <1>9, <1>10, Aside DEF Handles

\* A dispatcher in the middle of an event
LEMMA SessionEvent ==
    ASSUME Sound, Sound', [Next]_vars, NEW p \in SessionChannel, SessionOK(p),
           NEW d \in Dispatcher, Execution(d), BusyAt(d, p)
    PROVE  SessionOK(p)'
<1> PICK ty : ty = de[th[d].cur].type
  OBVIOUS
<1>0. /\ d \in Thread /\ p \in Channel /\ th[d].ph = p /\ Threads(th) /\ th[d] \in ThreadState
      /\ flags \in [Channel -> SUBSET Flag] /\ view \in [Channel -> {"attached", "detached"}]
      /\ th[d].out = TRUE
  BY DispatcherThread DEF Sound, SessionChannel, TypeInv, RestOK, BusyAt, Busy, Threads
<1>1. HandleOK(th[d], ty, p) /\ RunsAs(th[d], ty)
  <2>1. Running(th[d])
    BY DEF BusyAt, Busy
  <2>. QED BY <2>1 DEF SessionOK, HandlesOK, Sound, WorkInv, RunOK
<1>2. ty = "CHANNEL_DETACH" => ~(th[Central].ph = p /\ Detaches(th[Central]))
  BY DEF DetachUnderWay, Handles, SessionOK, DetachOK, ThroughWith, Through, Detaches, CentralPlace, ClearPlace
<1>3. th[Central].ph = p /\ Detaches(th[Central]) => "ATTACHING" \notin flags[p] /\ view[p] = "attached"
  BY DEF SessionOK, DetachOK
<1>4. ty = "CHANNEL_ATTACH" => "ATTACHING" \in flags[p]
  BY <1>1 DEF HandleOK
<1>5. "ATTACHED" \in flags[p] /\ "ATTACHING" \notin flags[p] => view[p] = "attached"
  BY DEF SessionOK, ToldOK
<1>6. Has(p, {"ATTACHED", "DETACHING"}) => view[p] = "attached" \/ ty \in {"CHANNEL_ATTACH", "CHANNEL_DETACH"}
  <2>1. ~AttachWaits(p)
    BY DEF SessionOK, AheadOK
  <2>2. ASSUME NEW c \in Dispatcher, BusyAt(c, p) PROVE c = d
    <3>1. Drains(c, p, TRUE) /\ Drains(d, p, TRUE)
      BY <2>2 DEF Drains, BusyAt, Busy, Running
    <3>. QED BY <1>0, <2>2, <3>1 DEF Sound, OneDispatcherPerQueue
  <2>. QED BY <2>1, <2>2 DEF SessionOK, ToldOK, Handles
<1>7. CASE ExecAttachFails(d)
  <2>1. ty = "CHANNEL_ATTACH" /\ th[d].pc = "exec" /\ UNCHANGED <<flags, slot, outq, view>>
    BY <1>7 DEF ExecAttachFails, Executing, At, queues, history
  <2>2. th'[d].pc = "clearout" /\ th'[d].out = TRUE
    BY <1>0, <1>7 DEF ExecAttachFails, Threads, ThreadState
  <2>3. HandleOK(th[d], ty, p)' /\ Busy(th'[d])
    BY <1>1, <2>1, <2>2 DEF HandleOK, Inserting, Busy, Running
  <2>. QED BY <1>3, <1>4, <1>5, <2>1, <2>3, HandlerStep
<1>8. CASE ExecEvent(d)
  <2>1. th[d].pc = "exec" /\ UNCHANGED <<slot, outq, view>>
    BY <1>8 DEF ExecEvent, Executing, At, history
  <2>2. th'[d].pc = "callback" /\ th'[d].out = TRUE
    BY <1>0, <1>8, GotoMoves DEF ExecEvent, Alike, SameJob, SameWork
  <2>3. /\ ty # "CHANNEL_DETACH" => flags' = flags
        /\ ty = "CHANNEL_DETACH" => flags'[p] = flags[p] \ {"ATTACHED"}
    BY <1>0, <1>8 DEF ExecEvent
  <2>4. HandleOK(th[d], ty, p)'
    BY <1>1, <2>1, <2>2, <2>3 DEF HandleOK, Inserting
  <2>5. Busy(th'[d])
    BY <2>2 DEF Busy, Running
  <2>6. Has(p, {"ATTACHED", "DETACHING"})' => Has(p, {"ATTACHED", "DETACHING"})
    BY <2>3 DEF Has
  <2>7. "ATTACHED" \in flags'[p] /\ "ATTACHING" \notin flags'[p] => view'[p] = "attached"
    BY <1>5, <2>1, <2>3
  <2>8. th[Central].ph = p /\ Detaches(th[Central]) => "ATTACHING" \notin flags'[p] /\ view'[p] = "attached"
    BY <1>2, <1>3, <2>1, <2>3
  <2>. QED BY <1>6, <2>1, <2>4, <2>5, <2>6, <2>7, <2>8, HandlerStep
<1>9. CASE ExecInternal(d) \/ ExecRequest(d) \/ ExecAsyncRequest(d) \/ CallbackQueued(d) \/ AttachErrorUnslot(d)
  <2>1. ExecInternal(d) /\ ty = "CHANNEL_SETSTATUS"
    BY <1>0, <1>1, <1>9 DEF ExecInternal, ExecRequest, ExecAsyncRequest, CallbackQueued, AttachErrorUnslot,
       Executing, At, RunsAs, OutTypes, BusyAt, Busy
  <2>2. UNCHANGED <<flags, slot, outq, view>> /\ ~Busy(th'[d])
    BY <1>0, <2>1, GotoMoves DEF ExecInternal, queues, history, Busy, Running
  <2>. QED BY <1>3, <1>5, <1>6, <2>1, <2>2, HandlerStep DEF Has
<1>10. CASE Callback(d)
  <2>1. th[d].pc = "callback" /\ UNCHANGED <<flags, slot, outq>> /\ view'[p] = Told(ty, view[p])
    BY <1>0, <1>10 DEF Callback, At, queues
  <2>2. /\ th'[d].pc \in {"called", "get"} /\ th'[d].out = TRUE
        /\ ty = "CHANNEL_DETACH" => th'[d].pc = "called"
    <3>1. CASE Goto(d, "called")
      BY <1>0, <3>1, GotoMoves DEF Alike, SameJob, SameWork
    <3>2. CASE ~Goto(d, "called")
      <4>1. Starts(d, p, <<SyncRequest>>, "get", "called") /\ Has(p, {"ATTACHED"})
        BY <1>0, <1>10, <3>2 DEF Callback
      <4>2. th'[d].pc = "get" /\ th'[d].out = TRUE
        BY <1>0, <4>1, StartsMoves
      <4>3. ty # "CHANNEL_DETACH"
        BY <1>1, <2>1, <4>1 DEF HandleOK, Has
      <4>. QED BY <4>2, <4>3
    <3>. QED BY <3>1, <3>2
  <2>3. view'[p] = IF ty = "CHANNEL_DETACH" THEN "detached" ELSE "attached"
    BY <1>1, <2>1 DEF Told, HandleOK
  <2>4. HandleOK(th[d], ty, p)' /\ Busy(th'[d])
    BY <1>1, <2>1, <2>2, <2>3 DEF HandleOK, Inserting, Busy, Running
  <2>5. "ATTACHED" \in flags'[p] => view'[p] = "attached"
    BY <1>1, <2>1, <2>3 DEF HandleOK
  <2>6. th[Central].ph = p /\ Detaches(th[Central]) => "ATTACHING" \notin flags'[p] /\ view'[p] = "attached"
    BY <1>2, <1>3, <2>1, <2>3
  <2>. QED BY <2>1, <2>3, <2>4, <2>5, <2>6, HandlerStep
<1>11. CASE Called(d)
  <2>1. th[d].pc = "called" /\ UNCHANGED <<slot, outq, view>> /\ flags'[p] = flags[p] \ Over(ty)
    BY <1>0, <1>11 DEF Called, At, history
  <2>2. ~Busy(th'[d])
    BY <1>0, <1>11, GotoMoves DEF Called, Busy, Running
  <2>3. CASE ty = "CHANNEL_DETACH"
    <3>1. ~Has(p, {"ATTACHED", "DETACHING"})' /\ "ATTACHED" \notin flags'[p]
      BY <1>1, <2>1, <2>3 DEF HandleOK, Over, Has
    <3>2. th[Central].ph = p /\ Detaches(th[Central]) => "ATTACHING" \notin flags'[p] /\ view'[p] = "attached"
      BY <1>2, <2>3
    <3>. QED BY <2>1, <2>2, <3>1, <3>2, HandlerStep
  <2>4. CASE ty # "CHANNEL_DETACH"
    <3>1. ty = "CHANNEL_ATTACH" => view'[p] = "attached"
      BY <1>1, <2>1 DEF HandleOK
    <3>2. flags'[p] \subseteq flags[p] /\ (ty # "CHANNEL_ATTACH" => flags'[p] = flags[p])
      BY <2>1, <2>4 DEF Over
    <3>3. Has(p, {"ATTACHED", "DETACHING"})' => view'[p] = "attached"
      BY <1>6, <2>1, <2>4, <3>1, <3>2 DEF Has
    <3>4. "ATTACHED" \in flags'[p] => view'[p] = "attached"
      BY <3>3 DEF Has
    <3>5. th[Central].ph = p /\ Detaches(th[Central]) => "ATTACHING" \notin flags'[p] /\ view'[p] = "attached"
      BY <1>3, <2>1, <3>2
    <3>. QED BY <2>1, <2>2, <3>3, <3>4, <3>5, HandlerStep
  <2>. QED BY <2>3, <2>4
<1>12. CASE EnableFails(d)
  <2>1. /\ th[d].pc = "called" /\ UNCHANGED <<slot, outq, view>> /\ ty = "CHANNEL_ATTACH"
        /\ flags'[p] = (flags[p] \cup {"DETACHING"}) \ {"ATTACHED"}
    BY <1>0, <1>12 DEF EnableFails, At, history
  <2>2. th'[d].pc = "enablefailed"
    BY <1>0, <1>12, GotoMoves DEF EnableFails
  <2>3. HandleOK(th[d], ty, p)' /\ view'[p] = "attached"
    BY <1>1, <2>1, <2>2 DEF HandleOK
  <2>. QED BY <1>3, <1>4, <2>1, <2>3, HandlerStep
<1>13. CASE EnableFailed(d)
  <2>1. th[d].pc = "enablefailed" /\ UNCHANGED <<slot, outq>> /\ flags'[p] = flags[p] \ {"DETACHING"}
    BY <1>0, <1>13 DEF EnableFailed, At
  <2>2. th'[d].pc = "clearout" /\ th'[d].out = TRUE
    BY <1>0, <1>13 DEF EnableFailed, Threads, ThreadState
  <2>3. ty = "CHANNEL_ATTACH" /\ "ATTACHING" \in flags'[p]
    BY <1>1, <1>4, <2>1 DEF RunsAs
  <2>4. HandleOK(th[d], ty, p)' /\ Busy(th'[d])
    BY <2>1, <2>2, <2>3 DEF HandleOK, Inserting, Busy, Running
  <2>. QED BY <1>3, <1>4, <2>1, <2>3, <2>4, HandlerStep
<1>14. CASE AttachError(d)
  <2>1. th[d].pc = "attacherror" /\ UNCHANGED <<slot, outq, view>> /\ flags'[p] = flags[p] \ {"ATTACHED", "ATTACHING"}
    BY <1>0, <1>14 DEF AttachError, At, AttachFlags, history
  <2>2. ~Busy(th'[d])
    BY <1>0, <1>14, GotoMoves DEF AttachError, Busy
  <2>3. ty = "CHANNEL_ATTACH"
    BY <1>1, <2>1 DEF RunsAs
  <2>4. ~Has(p, {"ATTACHED", "DETACHING"})'
    BY <1>1, <2>1, <2>3 DEF HandleOK, Has
  <2>. QED BY <1>3, <1>4, <2>1, <2>2, <2>3, <2>4, HandlerStep
<1>. QED BY <1>7, <1>8, <1>9, <1>10, <1>11, <1>12, <1>13, <1>14 DEF Execution

LEMMA SessionExecution ==
    ASSUME Sound, Sound', [Next]_vars, NEW p \in SessionChannel, SessionOK(p),
           NEW d \in Dispatcher, Execution(d)
    PROVE  SessionOK(p)'
<1>0. d \in Thread /\ Moved(d) /\ Touches(th[d].ph) /\ th'[d].ph = th[d].ph /\ p \in Channel
  BY ExecutionMoves, ExecutionTouches, DispatcherThread DEF Sound, SessionChannel, ExecutionMove, SameWork
<1>1. CASE th[d].ph # p
  BY <1>0, <1>1, SessionElsewhere
<1>2. CASE th[d].ph = p
  BY <1>2, SessionEvent, SessionCommand
<1>. QED BY <1>1, <1>2

-----------------------------------------------------------------------------
(* The central thread attaches and detaches                                *)

\* Where the central thread is before it queues a detach, none is under way
LEMMA NoneUnderWay ==
    ASSUME NEW p, DetachOK(p), th[Central].ph = p, th[Central].pc \in CentralPlace
    PROVE  ~DetachUnderWay(p)
BY DEF DetachOK, ThroughWith, Through

\* What begins when the device has the channel, or has refused it
LEMMA SessionAttaching ==
    ASSUME Sound, Sound', [Next]_vars, NEW p \in SessionChannel, SessionOK(p),
           AttachFlag \/ AttachRefused \/ Attached, th[Central].ph = p
    PROVE  SessionOK(p)'
<1>0. /\ Central \in Thread /\ Central \notin Dispatcher /\ Moved(Central) /\ p \in Channel /\ Threads(th)
      /\ flags \in [Channel -> SUBSET Flag]
  BY AttachingMoves, KindsApart DEF Sound, SessionChannel, TypeInv, RestOK, Attaching
<1>1. /\ th[Central].pc \in {"attaching", "attach"} /\ UNCHANGED <<outq, inq, slot, view>>
      /\ (th[Central].pc = "attaching" <=> AttachFlag)
  BY DEF AttachFlag, AttachRefused, Attached, At, history
<1>2. AttachingTo(p) /\ ~ToQueue(th[Central]) /\ ~DetachUnderWay(p)
  BY <1>1, NoneUnderWay DEF AttachingTo, AttachingAt, ToQueue, SessionOK, CentralPlace
<1>3. ~Has(p, {"ATTACHED", "DETACHING"}) /\ AttachWaits(p) /\ view[p] = "detached"
  BY <1>0, <1>2 DEF Sound, HandInv, HandOK, SessionOK, OpeningOK
<1>4. SameEvents(p)
  BY <1>0, <1>1, SameQueue DEF SessionOK
<1>5. /\ AttachWaits(p)' /\ (DetachWaits(p)' => DetachWaits(p))
      /\ \A e \in ToSet(outq'[p]) : de'[e].type = "CHANNEL_ATTACH" => e = Head(outq'[p])
  BY <1>2, <1>3, <1>4 DEF SameEvents
<1>6. ASSUME NEW d \in Dispatcher PROVE ~BusyAt(d, p)'
  <2>1. ~BusyAt(d, p)
    BY <1>3 DEF SessionOK, AheadOK
  <2>. QED BY <1>0, <2>1, OtherBusy
<1>7. HandlesOK(p)'
  BY <1>6 DEF HandlesOK
<1>8. ~DetachUnderWay(p)'
  BY <1>2, <1>5, <1>6 DEF DetachUnderWay, Handles
<1>9. /\ AttachFlag => th'[Central].pc = "slot" /\ th'[Central].ph = p
      /\ AttachRefused => th'[Central].pc = "clearout" /\ th'[Central].cont = "unslot"
      /\ Attached => th'[Central].pc = "wake"
  BY <1>0, GotoMoves, ClearMoves DEF AttachFlag, AttachRefused, Attached, Alike, SameJob, SameWork
<1>10. DetachOK(p)'
  BY <1>8, <1>9 DEF DetachOK, Detaches, ClearPlace
<1>11. CASE AttachFlag
  <2>1. flags'[p] = flags[p] \cup {"ATTACHING"}
    BY <1>0, <1>11 DEF AttachFlag
  <2>2. ~Has(p, {"ATTACHED", "DETACHING"})'
    BY <1>3, <2>1 DEF Has
  <2>3. OpeningOK(p)'
    <3>1. Early(p) /\ slot[p] # "held" /\ inq[p] = <<>>
      BY <1>1, <1>2, <1>11 DEF Early, SessionOK, OpeningOK
    <3>2. ~ToQueue(th'[Central])
      BY <1>9, <1>11 DEF ToQueue
    <3>. QED BY <1>0, <1>1, <1>2, <1>5, <1>9, <1>11, <2>1, <3>1, <3>2, OpeningStep DEF SessionOK
  <2>4. AheadOK(p)'
    BY <1>1, <1>3, <1>5, <1>6, <2>2 DEF AheadOK
  <2>5. ToldOK(p)'
    BY <2>2 DEF ToldOK, Has
  <2>. QED BY <1>7, <1>10, <2>3, <2>4, <2>5 DEF SessionOK
<1>12. CASE AttachRefused
  <2>1. flags'[p] = flags[p] \ {"ATTACHING", "ATTACHED"}
    BY <1>0, <1>12 DEF AttachRefused
  <2>2. ~Has(p, {"ATTACHED", "DETACHING"})'
    BY <1>3, <2>1 DEF Has
  <2>3. OpeningOK(p)'
    BY <1>9, <1>12 DEF OpeningOK, Early, AttachingTo, AttachingAt, Inserting
  <2>4. AheadOK(p)'
    BY <1>1, <1>3, <1>5, <1>6, <2>2 DEF AheadOK
  <2>5. ToldOK(p)'
    BY <2>2 DEF ToldOK, Has
  <2>. QED BY <1>7, <1>10, <2>3, <2>4, <2>5 DEF SessionOK
<1>13. CASE Attached
  <2>1. flags'[p] = flags[p] \cup {"ATTACHED"} /\ th[Central].pc = "attach"
    BY <1>0, <1>13 DEF Attached, At
  <2>2. "ATTACHING" \in flags'[p] /\ "DETACHING" \notin flags'[p]
    BY <1>2, <1>3, <2>1 DEF SessionOK, OpeningOK, Has
  <2>3. OpeningOK(p)'
    BY <1>9, <1>13 DEF OpeningOK, Early, AttachingTo, AttachingAt, Inserting
  <2>4. AheadOK(p)'
    <3>1. ASSUME NEW t \in Thread PROVE ~Clears(t, p)'
      <4>1. CASE t = Central
        BY <1>9, <1>13, <4>1 DEF Clears
      <4>2. CASE t # Central
        <5>1. th[t].ph = p => th[t].pc \notin Emptying
          BY <1>2, <4>2 DEF SessionOK, OpeningOK
        <5>. QED BY <1>0, <4>2, <5>1, OtherThreads DEF Clears, Emptying, ClearPlace
      <4>. QED BY <4>1, <4>2
    <3>. QED BY <1>1, <1>3, <1>5, <1>6, <2>2, <3>1 DEF AheadOK
  <2>5. ToldOK(p)'
    BY <1>5, <2>2 DEF ToldOK
  <2>. QED BY <1>7, <1>10, <2>3, <2>4, <2>5 DEF SessionOK
<1>. QED BY <1>11, <1>12, <1>13

LEMMA SessionDetachFlag ==
    ASSUME Sound, Sound', [Next]_vars, NEW p \in SessionChannel, SessionOK(p),
           DetachFlag, th[Central].ph = p
    PROVE  SessionOK(p)'
<1>0. /\ Central \in Thread /\ Central \notin Dispatcher /\ Moved(Central) /\ p \in Channel /\ Threads(th)
      /\ flags \in [Channel -> SUBSET Flag]
  BY AttachingMoves, KindsApart DEF Sound, SessionChannel, TypeInv, RestOK, Attaching
<1>1. /\ th[Central].pc = "detaching" /\ UNCHANGED <<outq, inq, slot, view>>
      /\ flags'[p] = flags[p] \cup {"DETACHING"}
  BY <1>0 DEF DetachFlag, At, history
<1>2. "ATTACHING" \notin flags[p] /\ view[p] = "attached" /\ ~DetachUnderWay(p)
  BY <1>1, NoneUnderWay DEF SessionOK, DetachOK, Detaches, CentralPlace
<1>3. th'[Central].pc = "clearout" /\ th'[Central].cont = "detach" /\ th'[Central].ph = p
  BY <1>0, ClearMoves DEF DetachFlag
<1>4. ~AttachWaits(p)' /\ (DetachWaits(p)' => DetachWaits(p))
  <2>1. ~AttachWaits(p)
    BY <1>2 DEF SessionOK, AheadOK
  <2>2. SameEvents(p)
    BY <1>0, <1>1, SameQueue DEF SessionOK
  <2>. QED BY <2>1, <2>2 DEF SameEvents
<1>5. OpeningOK(p)'
  BY <1>3 DEF OpeningOK, Early, AttachingTo, AttachingAt, Inserting
<1>6. AheadOK(p)'
  BY <1>4 DEF AheadOK
<1>7. HandlesOK(p)'
  <2> SUFFICES ASSUME NEW d \in Dispatcher, BusyAt(d, p)'
               PROVE  HandleOK(th[d], de[th[d].cur].type, p)'
    BY DEF HandlesOK
  <2>1. BusyAt(d, p) /\ th'[d] = th[d] /\ de'[th[d].cur].type = de[th[d].cur].type
    BY <1>0, OtherBusy
  <2>2. HandleOK(th[d], de[th[d].cur].type, p)
    BY <2>1 DEF SessionOK, HandlesOK
  <2>3. de[th[d].cur].type # "CHANNEL_ATTACH"
    BY <1>2, <2>2 DEF HandleOK
  <2>. QED BY <1>1, <2>1, <2>2, <2>3 DEF HandleOK
<1>8. ToldOK(p)'
  BY <1>1, <1>2 DEF ToldOK
<1>9. DetachOK(p)'
  BY <1>0, <1>1, <1>2, <1>4, DetachStep DEF SessionOK, DetachUnderWay
<1>. QED BY <1>5, <1>6, <1>7, <1>8, <1>9 DEF SessionOK

LEMMA SessionCentralSteps ==
    ASSUME Sound, Sound', [Next]_vars, NEW p \in SessionChannel, SessionOK(p),
           AttachSlot \/ WakeDispatch \/ DetachWaited \/ DetachDispatch \/ DetachClose \/ CentralUnslot,
           th[Central].ph = p
    PROVE  SessionOK(p)'
<1>0. /\ Central \in Thread /\ Moved(Central) /\ p \in Channel \ ServedChannel /\ p # NoChannel
      /\ AttachingMove(th[Central], th'[Central]) /\ Threads(th)
  BY AttachingMoves, KindsApart, ConstantsAssumption DEF Sound, SessionChannel, TypeInv, Attaching
<1>1. ~DetachClose
  BY <1>0 DEF DetachClose
<1>2. UNCHANGED <<flags, outq, inq, view>>
  BY <1>1 DEF AttachSlot, WakeDispatch, DetachWaited, DetachDispatch, CentralUnslot, queues, history
<1>3. Same(p)
  <2>1. SameEvents(p)
    BY <1>0, <1>2, SameQueue DEF SessionOK
  <2>. QED BY <1>2, <2>1 DEF Same
<1>4. th[Central].pc \in CentralPlace => ~DetachUnderWay(p)
  BY NoneUnderWay DEF SessionOK
<1>5. CASE AttachSlot
  <2>1. /\ th[Central].pc = "slot" /\ th'[Central].pc = "attach" /\ th'[Central].ph = p
    BY <1>0, <1>5, GotoMoves DEF AttachSlot, At, Alike, SameJob, SameWork
  <2>2. AttachingTo(p) /\ "ATTACHING" \in flags[p]
    BY <2>1 DEF AttachingTo, AttachingAt, SessionOK, OpeningOK
  <2>3. ~ToQueue(th[Central]) /\ ~ToQueue(th'[Central]) /\ ~Early(p)' /\ ~Clears(Central, p)'
        /\ ~Detaches(th'[Central]) /\ ~DetachUnderWay(p)
    BY <1>4, <2>1 DEF ToQueue, Early, Clears, Detaches, ClearPlace, CentralPlace
  <2>. QED BY <1>0, <1>3, <2>1, <2>2, <2>3, CentralAside
<1>6. CASE WakeDispatch
  <2>1. th[Central].pc = "wake" /\ th'[Central] = Idle("idle")
    <3>1. th[Central].pc = "wake" /\ Signal([th EXCEPT ![Central] = Idle("idle")])
      BY <1>6 DEF WakeDispatch, At
    <3>2. Idle("idle").pc # "wait"
      BY DEF Idle
    <3>. QED BY <1>0, <3>1, <3>2, SignalMoves
  <2>2. th'[Central].ph # p /\ ~DetachUnderWay(p)
    BY <1>0, <1>4, <2>1 DEF Idle, CentralPlace
  <2>3. ~AttachingTo(p)' /\ ~Early(p)' /\ ~Clears(Central, p)'
    BY <2>2 DEF AttachingTo, Early, Clears
  <2>. QED BY <1>0, <1>3, <2>2, <2>3, CentralAside
<1>7. CASE DetachWaited
  <2>1. th[Central].pc = "detachwait" /\ "ATTACHING" \notin flags[p]
    BY <1>7 DEF DetachWaited, At, Has
  <2>2. ~DetachUnderWay(p)
    BY <1>4, <2>1 DEF CentralPlace
  <2>3. AttachWaits(p) => ~Has(p, {"ATTACHED", "DETACHING"})'
    BY <1>2, <2>1 DEF SessionOK, AheadOK, Has
  <2>4. \/ th'[Central].pc = "detaching" /\ "ATTACHED" \in flags[p]
        \/ th'[Central].pc = "clearout" /\ th'[Central].cont = "unslot"
    BY <1>0, <1>7, GotoMoves, ClearMoves DEF DetachWaited, Has
  <2>5. ~AttachingTo(p)' /\ ~Early(p)'
    BY <2>4 DEF AttachingTo, AttachingAt, Early, Inserting
  <2>6. Detaches(th'[Central]) => "ATTACHING" \notin flags[p] /\ view[p] = "attached"
    BY <2>1, <2>4 DEF Detaches, ClearPlace, SessionOK, ToldOK
  <2>. QED BY <1>0, <1>3, <2>2, <2>3, <2>5, <2>6, CentralAside
<1>8. CASE DetachDispatch
  <2>1. th[Central].pc = "detach" /\ Starts(Central, p, DetachJobs, "get", "unslot")
    BY <1>8 DEF DetachDispatch, At, DetachJobs
  <2>2. th'[Central].pc = "get" /\ th'[Central].cont = "unslot"
    BY <1>0, <2>1, StartsMoves
  <2>3. ~AttachingTo(p)' /\ ~Early(p)' /\ ~Clears(Central, p)'
    BY <2>2 DEF AttachingTo, AttachingAt, Early, Clears
  <2>4. "ATTACHING" \notin flags[p] /\ view[p] = "attached" /\ ~DetachUnderWay(p)
    BY <1>4, <2>1 DEF SessionOK, DetachOK, Detaches, CentralPlace
  <2>. QED BY <1>0, <1>3, <2>3, <2>4, CentralAside
<1>9. CASE CentralUnslot
  <2>1. th'[Central] = Idle("idle") /\ slot'[p] = "none"
    BY <1>0, <1>9 DEF CentralUnslot, Threads, Sound, TypeInv, RestOK
  <2>2. th'[Central].ph # p
    BY <1>0, <2>1 DEF Idle
  <2>3. ~AttachingTo(p)' /\ ~Early(p)' /\ ~Clears(Central, p)' /\ ThroughWith(p)'
    BY <2>1, <2>2 DEF AttachingTo, Early, Clears, ThroughWith
  <2>. QED BY <1>0, <1>3, <2>2, <2>3, CentralAside
<1>. QED BY <1>1, <1>5, <1>6, <1>7, <1>8, <1>9

LEMMA SessionAttach ==
    ASSUME Sound, Sound', [Next]_vars, NEW p \in SessionChannel, SessionOK(p), Attaching
    PROVE  SessionOK(p)'
<1>0. /\ Central \in Thread /\ Moved(Central) /\ Touches(th[Central].ph) /\ p \in Channel /\ p # NoChannel
      /\ th'[Central].ph \in {th[Central].ph, NoChannel}
  BY AttachingMoves, AttachingTouches, AttachingPlace, KindsApart, ConstantsAssumption
     DEF Sound, SessionChannel
<1>1. CASE th[Central].ph # p
  BY <1>0, <1>1, SessionElsewhere
<1>2. CASE th[Central].ph = p
  BY <1>2, SessionAttaching, SessionDetachFlag, SessionCentralSteps DEF Attaching
<1>. QED BY <1>1, <1>2

-----------------------------------------------------------------------------
(* Users close, open and request; devices and servers deliver              *)

LEMMA SessionClosing ==
    ASSUME Sound, Sound', [Next]_vars, NEW p \in SessionChannel, SessionOK(p),
           NEW t \in User \cup {Central}, Closing(t)
    PROVE  SessionOK(p)'
<1>0. /\ t \in Thread /\ t \notin Dispatcher /\ Moved(t) /\ ClosingMove(t, th[t], th'[t]) /\ Shape(t, th[t])
      /\ th'[t].ph \in {th[t].ph, NoChannel} /\ p \in Channel /\ p # NoChannel /\ Touches(th[t].ph)
  BY ClosingMoves, ClosingPlace, ClosingTouches, KindsApart, ConstantsAssumption
     DEF Sound, SessionChannel, WorkInv, Shapes
<1>1. CASE th[t].ph # p
  BY <1>0, <1>1, SessionElsewhere
<1>2. CASE th[t].ph = p
  <2>1. /\ UNCHANGED <<outq, inq, view>>
        /\ flags' = flags \/ (CloseStop(t) /\ flags'[p] = flags[p] \ {"ATTACHED"} /\ "DETACHING" \notin flags[p])
        /\ slot' = slot \/ Unslotted(p)
    BY <1>2 DEF Closing, CloseParent, CloseSlot, CloseStop, queues, history, Sound, TypeInv, RestOK, Has
  <2>2. slot'[p] = "held" => slot[p] = "held"
    BY <1>0, <2>1 DEF Unslotted, Sound, TypeInv, RestOK
  <2>3. Same(p)
    <3>1. SameEvents(p)
      BY <1>0, <2>1, SameQueue DEF SessionOK
    <3>. QED BY <2>1, <3>1 DEF Same
  <2>4. th[t].pc \in ClosePlace
    BY <1>0 DEF ClosingMove, ClosePlace
  <2>5. Clears(t, p)' => ~Has(p, {"ATTACHED", "DETACHING"})'
    <3>1. ASSUME Clears(t, p)' PROVE CloseStop(t) /\ "DETACHING" \notin flags[p] /\ flags'[p] = flags[p] \ {"ATTACHED"}
      <4>1. th'[t].pc \in {"clearout", "purge"}
        BY <3>1 DEF Clears
      <4>2. th[t].pc = "closing" /\ ~Back(t)
        <5>1. th[t].pc = "closing"
          BY <1>0, <4>1, <2>4 DEF ClosingMove, Cleared1, Idle, ClosePlace, Shape
        <5>2. ASSUME Back(t) PROVE FALSE
          <6>1. Cleared1(t, th[t], th'[t])
            BY <1>0, <5>1, <5>2, BackActs DEF Sound, TypeInv, WorkInv
          <6>. QED BY <1>0, <2>4, <4>1, <6>1 DEF Cleared1, Idle, Shape, ClosePlace
        <5>. QED BY <5>1, <5>2
      <4>3. CloseStop(t)
        BY <4>2 DEF Closing, CloseParent, CloseSlot, At
      <4>. QED BY <1>0, <1>2, <4>2, <4>3 DEF CloseStop, Has, Sound, TypeInv, RestOK
    <3>. QED BY <3>1 DEF Has
  <2>6. CASE t = Central
    <3>1. th[t].cont = "unslot"
      BY <1>0, <2>4, <2>6, KindsApart DEF Shape
    <3>2. th'[t].ph = p /\ th'[t].cont = "unslot" /\ th'[t].pc \in {"closing", "closeslot", "clearout", "unslot"}
      BY <1>0, <1>2, <2>6, <3>1, KindsApart DEF ClosingMove, Cleared1, Alike, SameJob, SameWork
    <3>3. ~AttachingTo(p)' /\ ~Early(p)' /\ ~Detaches(th'[t])
      BY <2>6, <3>2 DEF AttachingTo, AttachingAt, Early, Inserting, Detaches, ClearPlace
    <3>4. ThroughWith(p)'
      BY <2>6, <3>2 DEF ThroughWith, Through, CentralPlace
    <3>. QED BY <1>0, <2>3, <2>5, <2>6, <3>3, <3>4, CentralAside
  <2>7. CASE t # Central
    <3>1. ~AttachingTo(p) /\ ~Early(p)
      BY <1>0, <1>2, <2>4, <2>7 DEF SessionOK, OpeningOK, Emptying, Early
    <3>. QED BY <1>0, <2>2, <2>3, <2>5, <2>7, <3>1, Aside
  <2>. QED BY <2>6, <2>7
<1>. QED BY <1>1, <1>2

\* A channel is attached again only after its last session is over, when nobody works on
\* it any more, its queues are empty, and its user was told of the detach
AttachesAnew ==
    \A p \in Channel : AttachStart(p) =>
        /\ outq[p] = <<>> /\ inq[p] = <<>> /\ view[p] = "detached"
        /\ \A t \in Thread : th[t].ph # p

LEMMA AnewIsIdle == AttachesAnew => AttachesIdle
BY DispatcherThread DEF AttachesAnew, AttachesIdle, Drains

LEMMA SessionBegins ==
    ASSUME Sound, Sound', [Next]_vars, NEW p \in SessionChannel, SessionOK(p),
           AttachStart(p), AttachesAnew
    PROVE  SessionOK(p)'
<1>0. Central \in Thread /\ Central \notin Dispatcher /\ p \in Channel /\ Threads(th)
  BY KindsApart DEF SessionChannel, Sound, TypeInv
<1>1. /\ slot[p] # "held" /\ ~Has(p, {"ATTACHED", "DETACHING"})
      /\ outq[p] = <<>> /\ inq[p] = <<>> /\ view[p] = "detached"
      /\ UNCHANGED <<flags, slot, outq, inq, view>>
      /\ \A t \in Thread : th[t].ph # p
  BY <1>0 DEF AttachStart, AttachesAnew, queues, history
<1>2. /\ Moved(Central) /\ th'[Central].pc = "get" /\ th'[Central].ph = p
      /\ th'[Central].todo = StartJobs /\ th'[Central].cont = "attaching"
  <2>1. Starts(Central, p, StartJobs, "get", "attaching")
    BY DEF AttachStart
  <2>. QED BY <1>0, <2>1, StartsMoves
<1>3. \A t \in Thread \ {Central} : th'[t].ph # p
  BY <1>0, <1>1, <1>2, OtherThreads
<1>4. /\ ~AttachWaits(p)' /\ ~DetachUnderWay(p)'
      /\ \A d \in Dispatcher : ~BusyAt(d, p)'
  <2>1. \A d \in Dispatcher : ~BusyAt(d, p)'
    BY <1>0, <1>3, DispatcherThread DEF BusyAt
  <2>2. ToSet(outq'[p]) = {}
    BY <1>1 DEF ToSet
  <2>. QED BY <2>1, <2>2 DEF AttachWaits, DetachUnderWay, DetachWaits, Handles
<1>5. OpeningOK(p)'
  BY <1>1, <1>2, <1>3 DEF OpeningOK, ToQueue
<1>6. DetachOK(p)'
  BY <1>2, <1>4 DEF DetachOK, Detaches, ClearPlace
<1>7. ~Has(p, {"ATTACHED", "DETACHING"})' /\ "ATTACHED" \notin flags'[p]
  BY <1>1 DEF Has
<1>. QED BY <1>4, <1>5, <1>6, <1>7 DEF SessionOK, AheadOK, HandlesOK, ToldOK

\* A thread begins an operation on channel q
LEMMA SessionBegun ==
    ASSUME Sound, Sound', [Next]_vars, NEW p \in SessionChannel, SessionOK(p),
           NEW t \in Thread, th[t].pc = "idle",
           NEW q \in Channel, NEW jobs, NEW first, NEW cont, Starts(t, q, jobs, first, cont),
           q # p, Touches(q)
    PROVE  SessionOK(p)'
<1>1. Threads(th) /\ Shape(t, th[t]) /\ p \in Channel /\ p # NoChannel
  BY ConstantsAssumption DEF Sound, TypeInv, WorkInv, Shapes, SessionChannel
<1>2. Moved(t) /\ th'[t].ph = q
  BY <1>1, StartsMoves
<1>3. th[t].ph # p
  BY <1>1 DEF Shape, AtRest
<1>. QED BY <1>1, <1>2, <1>3, SessionElsewhere

\* A user or a source begins one on channel p itself, which is not being attached, or
\* not by anybody who could be disturbed
LEMMA SessionUse ==
    ASSUME Sound, Sound', [Next]_vars, NEW p \in SessionChannel, SessionOK(p),
           NEW t \in User \cup Source, NEW jobs, NEW first \in {"get", "close"}, NEW cont,
           Starts(t, p, jobs, first, cont),
           UNCHANGED <<slot, outq, inq, view>>,
           flags'[p] = flags[p] \/ flags'[p] = flags[p] \ {"OPEN"},
           ~Early(p), AttachingTo(p) => first = "get"
    PROVE  SessionOK(p)'
<1>0. /\ t \in Thread \ {Central} /\ t \notin Dispatcher /\ p \in Channel /\ Threads(th)
  BY KindsApart DEF SessionChannel, Sound, TypeInv
<1>1. Moved(t) /\ th'[t].pc = first /\ th'[t].ph = p
  BY <1>0, StartsMoves
<1>2. Same(p)
  <2>1. SameEvents(p)
    BY <1>0, SameQueue DEF SessionOK
  <2>. QED BY <2>1 DEF Same
<1>3. ~Clears(t, p)'
  BY <1>1 DEF Clears
<1>4. AttachingTo(p) => th'[t].pc \notin Emptying
  BY <1>1 DEF Emptying, ClosePlace, ClearPlace
<1>. QED BY <1>0, <1>1, <1>2, <1>3, <1>4, Aside

LEMMA SessionEnvironment ==
    ASSUME Sound, Sound', [Next]_vars, NEW p \in SessionChannel, SessionOK(p),
           Environment, AttachesAnew, ClosesAttached
    PROVE  SessionOK(p)'
<1>0. /\ p \in Channel \ ServedChannel /\ Threads(th) /\ p # NoChannel /\ HandOK(p)
      /\ flags \in [Channel -> SUBSET Flag] /\ Central \in Thread /\ User \cup Source \subseteq Thread
  BY ConstantsAssumption, KindsApart
     DEF Sound, TypeInv, RestOK, HandInv, SessionChannel
<1>1. ASSUME NEW q \in Channel, AttachStart(q)
      PROVE  SessionOK(p)'
  <2>1. CASE q = p
    BY <1>1, <2>1, SessionBegins
  <2>2. CASE q # p
    <3>1. Touches(q) /\ th[Central].pc = "idle" /\ Starts(Central, q, StartJobs, "get", "attaching")
      BY <1>1 DEF AttachStart, At, Touches, queues, history
    <3>. QED BY <1>0, <2>2, <3>1, SessionBegun
  <2>. QED BY <2>1, <2>2
<1>2. ASSUME NEW q \in Channel, DetachStart(q)
      PROVE  SessionOK(p)'
  <2>0. /\ Touches(q) /\ th[Central].pc = "idle" /\ Starts(Central, q, <<>>, "detachwait", "idle")
        /\ slot[q] = "held" /\ UNCHANGED <<flags, slot, outq, inq, view>>
    BY <1>2 DEF DetachStart, At, Touches, queues, history
  <2>1. CASE q = p
    <3>1. Moved(Central) /\ th'[Central].pc = "detachwait"
      BY <1>0, <2>0, StartsMoves
    <3>2. th[Central].ph # p
      BY <1>0, <2>0 DEF Sound, WorkInv, Shapes, Shape, AtRest
    <3>3. ~DetachUnderWay(p)
      BY <2>0, <2>1, <3>2 DEF SessionOK, DetachOK, ThroughWith
    <3>4. /\ ~AttachingTo(p)' /\ ~Early(p)' /\ ~Clears(Central, p)' /\ ~Detaches(th'[Central])
      BY <3>1 DEF AttachingTo, AttachingAt, Early, Inserting, Clears, Detaches, ClearPlace
    <3>5. Same(p)
      <4>1. SameEvents(p)
        BY <1>0, <2>0, SameQueue DEF SessionOK
      <4>. QED BY <2>0, <4>1 DEF Same
    <3>. QED BY <1>0, <3>1, <3>3, <3>4, <3>5, CentralAside
  <2>2. CASE q # p
    BY <1>0, <2>0, <2>2, SessionBegun
  <2>. QED BY <2>1, <2>2
<1>3. ASSUME NEW u \in User, NEW q \in Channel, Request(u, q)
      PROVE  SessionOK(p)'
  <2>1. PICK kind \in Requests : Starts(u, q, <<Job("USERREQ", kind = "async")>>, "get", "idle")
    BY <1>3 DEF Request
  <2>2. /\ Touches(q) /\ th[u].pc = "idle" /\ "ATTACHED" \in flags[q]
        /\ UNCHANGED <<flags, slot, outq, inq, view>>
    BY <1>3 DEF Request, At, Has, Touches, queues, history
  <2>3. CASE q = p
    <3>1. ~AttachingTo(p) /\ ~Early(p)
      BY <1>0, <2>2, <2>3 DEF HandOK, Has, Early
    <3>. QED BY <2>1, <2>2, <2>3, <3>1, SessionUse
  <2>4. CASE q # p
    BY <1>0, <2>1, <2>2, <2>4, SessionBegun
  <2>. QED BY <2>3, <2>4
<1>4. ASSUME NEW u \in User, NEW q \in Channel, CloseStart(u, q)
      PROVE  SessionOK(p)'
  <2>1. /\ th[u].pc = "idle" /\ Starts(u, q, <<>>, "close", "idle") /\ ~AttachingTo(q)
        /\ UNCHANGED <<slot, outq, inq, view>> /\ flags'[q] = flags[q] \ {"OPEN"} /\ Touches(q)
    BY <1>0, <1>4 DEF CloseStart, At, ClosesAttached, Touches, history
  <2>2. CASE q = p
    <3>1. ~AttachingTo(p) /\ ~Early(p)
      BY <2>1, <2>2 DEF Early
    <3>. QED BY <2>1, <2>2, <3>1, SessionUse
  <2>3. CASE q # p
    BY <1>0, <2>1, <2>3, SessionBegun
  <2>. QED BY <2>2, <2>3
<1>5. ASSUME NEW u \in User, NEW q \in Channel, Open(u, q)
      PROVE  SessionOK(p)'
  <2>1. /\ th' = th /\ UNCHANGED <<slot, outq, inq, view>> /\ th[u].pc = "idle"
        /\ flags' = [flags EXCEPT ![q] = (@ \cup {"OPEN"}) \ {"ATTACHED"}]
    BY <1>5 DEF Open, At, history
  <2>2. flags'[p] = flags[p] \/ flags'[p] = (flags[p] \cup {"OPEN"}) \ {"ATTACHED"}
    BY <1>0, <2>1
  <2>3. u \in Thread \ {Central} /\ u \notin Dispatcher /\ Moved(u) /\ th'[u].ph # p
    BY <1>0, <2>1, KindsApart DEF Moved, Sound, WorkInv, Shapes, Shape, AtRest
  <2>4. Same(p)
    <3>1. SameEvents(p)
      BY <1>0, <2>1, SameQueue DEF SessionOK
    <3>. QED BY <2>1, <2>2, <3>1 DEF Same
  <2>5. ~Clears(u, p)'
    BY <2>3 DEF Clears
  <2>. QED BY <1>0, <2>1, <2>3, <2>4, <2>5, Aside
<1>6. ASSUME NEW s \in Source, NEW q \in Channel, Deliver(s, q)
      PROVE  SessionOK(p)'
  <2>1. PICK ty \in Traffic : Addressable(q, ty) /\ Starts(s, q, <<Job(ty, FALSE)>>, "get", "idle")
    BY <1>6 DEF Deliver
  <2>2. /\ Touches(q) /\ th[s].pc = "idle" /\ UNCHANGED <<flags, slot, outq, inq, view>>
    BY <1>6 DEF Deliver, At, Touches, queues, history
  <2>3. CASE q = p
    <3>1. "ATTACHED" \in flags[p] \/ slot[p] = "held"
      <4>1. ty \in {"CHANNEL_BRIDGEPKT", "CLIENTBRIDGEPACKET", "SERVERBRIDGEPACKET"}
        BY ConstantsAssumption
      <4>. QED BY <2>1, <2>3, <4>1 DEF Addressable, Has
    <3>2. ~Early(p)
      BY <1>0, <3>1 DEF HandOK, Has, Early, SessionOK, OpeningOK
    <3>. QED BY <2>1, <2>2, <2>3, <3>2, SessionUse
  <2>4. CASE q # p
    BY <1>0, <2>1, <2>2, <2>4, SessionBegun
  <2>. QED BY <2>3, <2>4
<1>. QED BY <1>1, <1>2, <1>3, <1>4, <1>5, <1>6 DEF Environment

-----------------------------------------------------------------------------
(* The theorem                                                             *)

LEMMA SessionStays ==
    ASSUME NEW p, SessionOK(p), UNCHANGED vars
    PROVE  SessionOK(p)'
<1>1. UNCHANGED <<flags, slot, outq, inq, de, th, view>>
  BY DEF vars, queues, history
<1>2. /\ OpeningOK(p)' <=> OpeningOK(p)
      /\ AheadOK(p)' <=> AheadOK(p)
      /\ HandlesOK(p)' <=> HandlesOK(p)
  BY <1>1 DEF OpeningOK, Early, AttachingTo, AttachWaits, AheadOK, BusyAt, Has, Clears,
              HandlesOK, HandleOK
<1>3. /\ ToldOK(p)' <=> ToldOK(p)
      /\ DetachOK(p)' <=> DetachOK(p)
  BY <1>1 DEF AttachWaits, BusyAt, Has, ToldOK, Handles, DetachOK, DetachUnderWay,
              DetachWaits, ThroughWith
<1>. QED BY <1>2, <1>3 DEF SessionOK

LEMMA NextSession ==
    ASSUME Sound, Sound', SessionInv, [Next]_vars, AttachesAnew, ClosesAttached, AttachFinds
    PROVE  SessionInv'
<1> SUFFICES ASSUME NEW p \in SessionChannel PROVE SessionOK(p)'
  BY DEF SessionInv
<1>0. SessionOK(p) /\ p \in Channel /\ p # NoChannel
  BY ConstantsAssumption DEF SessionInv, SessionChannel
<1>1. ASSUME NEW t \in Thread, Insertion(t) \/ TimesOut(t)
      PROVE  SessionOK(p)'
  <2>1. CASE th[t].ph # p
    <3>1. Moved(t) /\ Touches(th[t].ph) /\ th'[t].ph \in {th[t].ph, NoChannel}
      BY <1>1, InsertionMoves, InsertionTouches, InsertionPlace DEF Sound, WorkInv
    <3>. QED BY <1>0, <2>1, <3>1, SessionElsewhere
  <2>2. CASE th[t].ph = p /\ t # Central
    BY <1>0, <1>1, <2>2, SessionInsertion
  <2>3. CASE th[t].ph = p /\ t = Central
    BY <1>0, <1>1, <2>3, SessionCentral
  <2>. QED BY <2>1, <2>2, <2>3
<1>2. ASSUME NEW d \in Dispatcher, DispatcherLoop(d)
      PROVE  SessionOK(p)'
  BY <1>0, <1>2, SessionLoop, SessionDequeue
<1>3. ASSUME NEW d \in Dispatcher, Execution(d)
      PROVE  SessionOK(p)'
  BY <1>0, <1>3, SessionExecution
<1>4. CASE Attaching
  BY <1>0, <1>4, SessionAttach
<1>5. ASSUME NEW t \in User \cup {Central}, Closing(t)
      PROVE  SessionOK(p)'
  BY <1>0, <1>5, SessionClosing
<1>6. CASE Environment
  BY <1>0, <1>6, SessionEnvironment
<1>7. CASE UNCHANGED vars
  BY <1>0, <1>7, SessionStays
<1>. QED BY <1>1, <1>2, <1>3, <1>4, <1>5, <1>6, <1>7 DEF Next

LEMMA InitSession == Init => SessionInv
<1> SUFFICES ASSUME Init, NEW p \in SessionChannel PROVE SessionOK(p)
  BY DEF SessionInv
<1>1. /\ p \in Channel /\ flags[p] = {"OPEN"} /\ slot[p] = "none" /\ outq[p] = <<>>
      /\ \A t \in Thread : th[t].ph # p
  BY ConstantsAssumption DEF Init, Idle, SessionChannel
<1>2. ToSet(outq[p]) = {} /\ Central \in Thread
  BY <1>1, KindsApart DEF ToSet
<1>3. /\ ~AttachingTo(p) /\ ~Early(p) /\ ~AttachWaits(p) /\ ~DetachWaits(p)
      /\ \A d \in Dispatcher : ~BusyAt(d, p)
  BY <1>1, <1>2, DispatcherThread DEF AttachingTo, Early, AttachWaits, DetachWaits, BusyAt
<1>. QED BY <1>1, <1>2, <1>3 DEF SessionOK, OpeningOK, AheadOK, HandlesOK, ToldOK, Has,
                                 DetachOK, DetachUnderWay, Handles

LEMMA SessionMeansInOrder ==
    ASSUME TypeInv, WorkInv, SessionInv
    PROVE  CallbacksInOrder
<1> SUFFICES ASSUME NEW d \in Dispatcher, At(d, "callback"), th[d].ph \notin ServedChannel
             PROVE  view[th[d].ph] = IF de[th[d].cur].type = "CHANNEL_ATTACH"
                                     THEN "detached" ELSE "attached"
  BY DEF CallbacksInOrder
<1>1. PICK p : p = th[d].ph
  OBVIOUS
<1>2. PICK ty : ty = de[th[d].cur].type
  OBVIOUS
<1>3. p \in SessionChannel
  BY <1>1, DispatcherThread DEF At, TypeInv, Threads, ThreadOK, AtRest, SessionChannel
<1>4. BusyAt(d, p)
  <2>1. Running(th[d]) /\ RunsAs(th[d], ty)
    BY <1>2 DEF At, Running, WorkInv, RunOK
  <2>2. th[d].out = TRUE
    <3>1. th[d].out \in BOOLEAN
      BY DispatcherThread DEF TypeInv, Threads, ThreadState
    <3>. QED BY <2>1, <3>1 DEF At, RunsAs
  <2>. QED BY <1>1, <2>1, <2>2 DEF At, BusyAt, Busy
<1>5. HandleOK(th[d], ty, p)
  BY <1>2, <1>3, <1>4 DEF SessionInv, SessionOK, HandlesOK
<1>. QED BY <1>1, <1>2, <1>5 DEF At, HandleOK

\* The callbacks of a channel are those of a session - its attach, then its events, then
\* its detach (dispatchEntry, dispatch.c:962-1236) - for every number of channels,
\* dispatchers, users and sources, provided that a channel is attached again only when
\* its last session is over, that nobody closes it in the middle of an attach, and that
\* the pool has an entry for the attach event.
THEOREM InOrder ==
    Spec /\ [][AttachesAnew /\ ClosesAttached /\ AttachFinds]_vars => []CallbacksInOrder
<1> DEFINE Known == TypeInv /\ EntryInv /\ CallbackInv /\ WorkInv /\ HandInv
           Inv == Known /\ SessionInv
<1>1. Init => Inv
  BY InitType, InitEntry, InitCallback, InitWork, InitHand, InitSession
<1>2. ASSUME Inv, [Next]_vars, [AttachesAnew /\ ClosesAttached /\ AttachFinds]_vars,
             OneDispatcherPerQueue, OneDispatcherPerQueue'
      PROVE  Inv'
  <2>1. TypeInv' /\ EntryInv' /\ CallbackInv'
    BY <1>2, NextType, NextEntry, NextCallback
  <2>2. WorkInv'
    BY <1>2, <2>1, NextWork
  <2>3. CASE UNCHANGED vars
    <3>1. Known'
      BY <1>2, <2>1, <2>2, <2>3
         DEF vars, queues, HandInv, HandOK, Tokened, InHand, Clears, Marks, AttachingTo,
             AttachingAt, Has, Lists, Drains
    <3>2. SessionInv'
      BY <1>2, <2>3, SessionStays DEF SessionInv
    <3>. QED BY <3>1, <3>2
  <2>4. CASE AttachesAnew /\ ClosesAttached /\ AttachFinds
    <3>1. HandInv'
      BY <1>2, <2>4, NextHand, AnewIsIdle
    <3>2. Sound /\ Sound'
      BY <1>2, <2>1, <2>2, <3>1 DEF Sound
    <3>3. SessionInv'
      BY <1>2, <2>4, <3>2, NextSession
    <3>. QED BY <2>1, <2>2, <3>1, <3>3
  <2>. QED BY <1>2, <2>3, <2>4
<1>3. Inv => CallbacksInOrder
  BY SessionMeansInOrder
<1>4. Spec => []OneDispatcherPerQueue
  BY OneDispatcher
<1>. QED BY <1>1, <1>2, <1>3, <1>4, PTL DEF Spec

LEMMA FreshIsAnew == FreshInv => AttachesAnew
BY DEF FreshInv, Untouched, AttachesAnew, AttachStart

\* A program that opens a channel and never closes it, which attaches once, needs only
\* the entry for the attach event (the sessions of run dispatch_session): its callbacks
\* are those of one session, for every number of threads.
THEOREM InOrderInSession ==
    ASSUME MaxAttach <= 1, MayClose = FALSE
    PROVE  Spec /\ [][AttachFinds]_vars => []CallbacksInOrder
<1> DEFINE Inv == TypeInv /\ EntryInv /\ CallbackInv /\ WorkInv /\ FreshInv
           Asked == AttachesAnew /\ ClosesAttached /\ AttachFinds
<1>1. Init => Inv
  BY InitType, InitEntry, InitCallback, InitWork, InitFresh
<1>2. Inv /\ [Next]_vars => Inv'
  <2> SUFFICES ASSUME Inv, [Next]_vars
               PROVE  Inv'
    OBVIOUS
  <2>1. TypeInv' /\ EntryInv' /\ CallbackInv'
    BY NextType, NextEntry, NextCallback
  <2>2. WorkInv'
    BY <2>1, NextWork
  <2>3. FreshInv'
    BY NextFresh DEF WorkInv
  <2>. QED BY <2>1, <2>2, <2>3
<1>3. Inv /\ [AttachFinds]_vars => [Asked]_vars
  <2>1. Inv => AttachesAnew /\ ClosesAttached
    BY FreshIsAnew, FreshAttaches
  <2>. QED BY <2>1
<1>4. Spec /\ [][Asked]_vars => []CallbacksInOrder
  BY InOrder
<1>. QED BY <1>1, <1>2, <1>3, <1>4, PTL DEF Spec

=============================================================================
