------------------------ MODULE DispatchEntryProofs ------------------------
(***************************************************************************)
(* An entry is in one place at a time, a request is not lost, and its      *)
(* callback is not called twice.                                           *)
(*                                                                         *)
(* Neither of the first two is inductive.  What keeps an answered          *)
(* request for the thread that issued it, before that thread comes to wait *)
(* for it, is that its entry carries NORETURN: a dispatcher that executes  *)
(* the entry, and a thread that clears the queue, see the flag and leave   *)
(* the entry alone.  So the invariant follows an entry through the whole   *)
(* of a request, from the insertion to the answer.                         *)
(***************************************************************************)
EXTENDS DispatchProofs, FiniteSetTheorems

\* Where a thread has an entry that it has not inserted yet
Before == {"insert", "purge", "drop"}

\* Where it has inserted one
After == {"mark", "listout", "listin", "signal"}

IsSync(c) == c.type = "USERREQ" /\ ~c.cb

\* A thread at record r has inserted a synchronous request and will wait, or
\* waits, for its answer
Awaiting(r) == \/ r.pc = "answer"
               \/ r.pc \in After /\ Head(r.todo) = SyncRequest

\* A thread at record r holds entry e: as in Holds, but the answer to a request
\* is with its thread at once
Keeping(r, e) ==
    \/ r.pc \in Before /\ r.req = e
    \/ Awaiting(r) /\ r.req = e /\ ~de[e].waiting
    \/ (r.pc = "done" => r.returnde) /\ r.cur = e

\* Entry e is in one place only
Once(e) ==
    /\ \A p \in Channel : e \in Queued(p) =>
        /\ e \notin ToSet(outq[p]) \cap ToSet(inq[p])
        /\ e \notin free
        /\ \A q \in Channel : e \in Queued(q) => q = p
        /\ \A t \in Thread : ~Keeping(th[t], e)
    /\ \A t \in Thread : Keeping(th[t], e) =>
        /\ e \notin free
        /\ \A u \in Thread : Keeping(th[u], e) => u = t

QueuesOnce == \A p \in Channel : IsInjective(outq[p]) /\ IsInjective(inq[p])

\* The entry that a thread is about to insert is as the thread has filled it in
InsertOK(r) ==
    r.pc \in Before /\ r.req \in Entry =>
        /\ de[r.req] = Filled(Head(r.todo))
        /\ r.req # r.cur

\* The request of thread t is its own; whoever executes it will not return it;
\* and while it is not answered, it is in the queue or about to be executed
AwaitOK(t) ==
    LET e == th[t].req IN
    Awaiting(th[t]) =>
        /\ Head(th[t].todo) = SyncRequest
        /\ IsSync(de[e]) /\ de[e].inbound /\ de[e].noreturn
        /\ \A u \in Thread : Awaiting(th[u]) /\ th[u].req = e => u = t
        /\ \A u \in Thread : th[u].cur = e =>
              ~th[u].returnde /\ th[u].pc \in {"exec", "done"}
        /\ de[e].waiting => \/ e \in ToSet(inq[th[t].ph])
                            \/ \E d \in Dispatcher : At(d, "exec") /\ th[d].cur = e

EntryInv ==
    /\ \A e \in Entry : Once(e)
    /\ QueuesOnce
    /\ \A t \in Thread : InsertOK(th[t])
    /\ \A t \in Thread : AwaitOK(t)

-----------------------------------------------------------------------------
(* Queues as sets *)

LEMMA AppendSet ==
    ASSUME NEW S, NEW s \in Seq(S), NEW e \in S
    PROVE  /\ ToSet(Append(s, e)) = ToSet(s) \cup {e}
           /\ IsInjective(s) /\ e \notin ToSet(s) => IsInjective(Append(s, e))
<1>1. /\ Append(s, e) \in Seq(S) /\ Len(Append(s, e)) = Len(s) + 1
      /\ \A i \in 1..Len(s) : Append(s, e)[i] = s[i]
      /\ Append(s, e)[Len(s) + 1] = e
  BY AppendProperties
<1>2. Len(s) \in Nat /\ DOMAIN s = 1..Len(s) /\ DOMAIN Append(s, e) = 1..Len(s) + 1
  BY <1>1, LenProperties
<1>3. ToSet(Append(s, e)) = ToSet(s) \cup {e}
  BY <1>1, <1>2 DEF ToSet
<1>4. ASSUME IsInjective(s), e \notin ToSet(s) PROVE IsInjective(Append(s, e))
  BY <1>1, <1>2, <1>4 DEF ToSet, IsInjective
<1>. QED BY <1>3, <1>4

LEMMA TailSet ==
    ASSUME NEW S, NEW s \in Seq(S), s # <<>>, IsInjective(s)
    PROVE  /\ Head(s) \in ToSet(s)
           /\ ToSet(Tail(s)) = ToSet(s) \ {Head(s)}
           /\ IsInjective(Tail(s))
<1>1. /\ Head(s) = s[1] /\ Tail(s) \in Seq(S) /\ Len(Tail(s)) = Len(s) - 1
      /\ \A i \in 1..Len(s) - 1 : Tail(s)[i] = s[i + 1]
  BY HeadTailProperties
<1>2. Len(s) \in Nat /\ Len(s) > 0 /\ DOMAIN s = 1..Len(s) /\ DOMAIN Tail(s) = 1..Len(s) - 1
  BY <1>1, LenProperties, EmptySeq
<1>3. Head(s) \in ToSet(s)
  BY <1>1, <1>2 DEF ToSet
<1>4. ASSUME NEW e \in ToSet(Tail(s)) PROVE e \in ToSet(s) \ {Head(s)}
  <2>1. PICK i \in 1..Len(s) - 1 : e = Tail(s)[i]
    BY <1>2 DEF ToSet
  <2>2. e = s[i + 1] /\ i + 1 \in 1..Len(s) /\ 1 \in 1..Len(s) /\ i + 1 # 1
    BY <1>1, <1>2, <2>1
  <2>. QED BY <1>1, <1>2, <2>2 DEF ToSet, IsInjective
<1>5. ASSUME NEW e \in ToSet(s) \ {Head(s)} PROVE e \in ToSet(Tail(s))
  <2>1. PICK i \in 1..Len(s) : e = s[i]
    BY <1>2 DEF ToSet
  <2>2. i - 1 \in 1..Len(s) - 1 /\ e = Tail(s)[i - 1]
    BY <1>1, <1>2, <2>1
  <2>. QED BY <1>2, <2>2 DEF ToSet
<1>6. IsInjective(Tail(s))
  BY <1>1, <1>2 DEF IsInjective
<1>. QED BY <1>3, <1>4, <1>5, <1>6

LEMMA ToSetElements == ASSUME NEW S, NEW s \in Seq(S) PROVE ToSet(s) \subseteq S
BY ElementOfSeq DEF ToSet

-----------------------------------------------------------------------------
(* Quiet steps: no entry moves *)

\* A thread that goes from record r to record s lets entries go at most
Quiet(r, s) ==
    \/ s = r
    \/ /\ r.pc # "done"
       /\ r.pc = "exec" => ~IsSync(de[r.cur])
       /\ s.pc \in Before =>
            r.pc \in Before /\ (s.req = NoEntry \/ (s.req = r.req /\ s.todo = r.todo))
       /\ s.pc \in After \cup {"answer"} =>
            /\ r.pc \in After \cup {"answer"}
            /\ s.req = r.req /\ s.todo = r.todo /\ s.ph = r.ph
            /\ s.pc = "answer" => Head(s.todo) = SyncRequest
       /\ s.cur = NoEntry \/ (s.cur = r.cur /\ s.returnde = r.returnde)

QuietTo(h) == \A t \in Thread : Quiet(th[t], h[t])

LEMMA AwaitingEntry ==
    ASSUME Threads(th), NEW t \in Thread, Awaiting(th[t])
    PROVE  th[t].req \in Entry /\ th[t].ph \in Channel
BY DEF Threads, ThreadOK, Awaiting, After, AtRest, Inserting, Filling

LEMMA QuietAwaiting ==
    ASSUME NEW r, NEW s, Quiet(r, s), Awaiting(s)
    PROVE  Awaiting(r) /\ s.req = r.req /\ s.todo = r.todo /\ s.ph = r.ph
BY DEF Quiet, Awaiting, After

LEMMA QuietKeeping ==
    ASSUME NEW r, NEW s, Quiet(r, s), NEW e \in Entry, Keeping(s, e)
    PROVE  Keeping(r, e)
<1>1. e # NoEntry
  BY ConstantsAssumption
<1>2. CASE s = r
  BY <1>2
<1>3. CASE s # r
  <2>1. CASE s.pc \in Before /\ s.req = e
    BY <1>1, <1>3, <2>1 DEF Quiet, Keeping
  <2>2. CASE Awaiting(s) /\ s.req = e /\ ~de[e].waiting
    BY <2>2, QuietAwaiting DEF Keeping
  <2>3. CASE s.cur = e
    BY <1>1, <1>3, <2>3 DEF Quiet, Keeping
  <2>. QED BY <2>1, <2>2, <2>3 DEF Keeping
<1>. QED BY <1>2, <1>3

LEMMA QuietStep ==
    ASSUME TypeInv, EntryInv, QuietTo(th'), UNCHANGED <<outq, inq, de, free>>
    PROVE  EntryInv'
<1>1. \A t \in Thread, e \in Entry : Keeping(th'[t], e) => Keeping(th[t], e)
  BY QuietKeeping DEF QuietTo
<1>2. ASSUME NEW e \in Entry PROVE Once(e)'
  <2>1. Once(e)
    BY DEF EntryInv
  <2>2. \A p \in Channel : Queued(p)' = Queued(p)
    BY DEF Queued
  <2>3. \A t \in Thread : Keeping(th[t], e)' => Keeping(th[t], e)
    BY <1>1 DEF Keeping
  <2>. QED BY <2>1, <2>2, <2>3 DEF Once
<1>3. QueuesOnce'
  BY DEF EntryInv, QueuesOnce
<1>4. ASSUME NEW t \in Thread PROVE InsertOK(th[t])'
  <2>1. InsertOK(th[t]) /\ Quiet(th[t], th'[t])
    BY DEF EntryInv, QuietTo
  <2>. QED BY <2>1, ConstantsAssumption DEF InsertOK, Quiet
<1>5. ASSUME NEW t \in Thread, Awaiting(th'[t]) PROVE AwaitOK(t)'
  <2> DEFINE e == th[t].req
  <2>1. /\ Awaiting(th[t]) /\ th'[t].req = e /\ th'[t].todo = th[t].todo
        /\ th'[t].ph = th[t].ph
    BY <1>5, QuietAwaiting DEF QuietTo
  <2>2. AwaitOK(t) /\ e \in Entry
    BY <2>1, AwaitingEntry DEF EntryInv, TypeInv
  <2>3. \A u \in Thread : Awaiting(th'[u]) => Awaiting(th[u]) /\ th'[u].req = th[u].req
    BY QuietAwaiting DEF QuietTo
  <2>4. ASSUME NEW u \in Thread, th'[u].cur = e PROVE th'[u] = th[u]
    <3>1. Quiet(th[u], th'[u]) /\ e # NoEntry
      BY <2>2, ConstantsAssumption DEF QuietTo
    <3>2. CASE th'[u] # th[u]
      <4>1. th[u].cur = e
        BY <2>4, <3>1, <3>2 DEF Quiet
      <4>2. th[u].pc \in {"exec", "done"} /\ IsSync(de[e])
        BY <2>1, <2>2, <4>1 DEF AwaitOK
      <4>. QED BY <3>1, <3>2, <4>1, <4>2 DEF Quiet
    <3>. QED BY <3>2
  <2>5. ASSUME NEW d \in Dispatcher, th[d].pc = "exec", th[d].cur = e PROVE th'[d] = th[d]
    BY <2>1, <2>2, <2>5, DispatcherThread DEF QuietTo, Quiet, AwaitOK
  <2>. QED BY <2>1, <2>2, <2>3, <2>4, <2>5 DEF AwaitOK, At
<1>. QED BY <1>2, <1>3, <1>4, <1>5 DEF EntryInv, AwaitOK

-----------------------------------------------------------------------------
(* Threads in quiet steps *)

LEMMA QuietChange ==
    ASSUME Threads(th), NEW t \in Thread, NEW r, Quiet(th[t], r)
    PROVE  QuietTo([th EXCEPT ![t] = r])
BY DEF QuietTo, Quiet, Threads

\* Where a thread has no entry to insert and waits for no answer
Elsewhere == PC \ (Before \cup After \cup {"answer"})

LEMMA ContElsewhere == Cont \subseteq Elsewhere /\ "get" \in Elsewhere
BY PCs DEF Cont, Elsewhere, Before, After

\* Thread t is done with no entry
NotDone(t) == th[t].pc # "done" /\ (th[t].pc = "exec" => ~IsSync(de[th[t].cur]))

LEMMA GotoQuiet ==
    ASSUME Threads(th), NEW t \in Thread, NEW where, Goto(t, where), NotDone(t),
           \/ where \in Elsewhere
           \/ where \in Before /\ th[t].pc \in Before
           \/ where \in After /\ th[t].pc \in After
    PROVE  QuietTo(th')
<1> DEFINE r == [th[t] EXCEPT !.pc = where]
<1>1. Quiet(th[t], r)
  BY DEF Quiet, NotDone, Threads, ThreadState, Elsewhere, Before, After
<1>2. th' = [th EXCEPT ![t] = r]
  BY DEF Goto, Threads
<1>3. QuietTo([th EXCEPT ![t] = r])
  BY <1>1, QuietChange
<1>. QED BY <1>2, <1>3

LEMMA StartsQuiet ==
    ASSUME Threads(th), NEW t \in Thread, NEW p, NEW jobs, NEW first \in Elsewhere, NEW cont,
           Starts(t, p, jobs, first, cont), NotDone(t)
    PROVE  QuietTo(th')
<1> DEFINE r == [th[t] EXCEPT !.pc = first, !.ph = p, !.todo = jobs, !.cont = cont]
<1>1. Quiet(th[t], r)
  BY DEF Quiet, NotDone, Threads, ThreadState, Elsewhere, Before, After
<1>2. th' = [th EXCEPT ![t] = r]
  BY DEF Starts, Threads
<1>3. QuietTo([th EXCEPT ![t] = r])
  BY <1>1, QuietChange
<1>. QED BY <1>2, <1>3

LEMMA IdleQuiet ==
    ASSUME Threads(th), NEW t \in Thread, NEW where \in Elsewhere, NotDone(t)
    PROVE  QuietTo([th EXCEPT ![t] = Idle(where)])
<1>1. Idle(where).pc = where /\ Idle(where).cur = NoEntry
  BY DEF Idle
<1>2. Quiet(th[t], Idle(where))
  BY <1>1 DEF Quiet, NotDone, Elsewhere, Before, After
<1>. QED BY <1>2, QuietChange

LEMMA BackQuiet ==
    ASSUME Threads(th), NEW t \in Thread, NotDone(t), Back(t)
    PROVE  QuietTo(th')
<1>1. CASE th[t].cont = "idle"
  BY <1>1, IdleQuiet, ContElsewhere DEF Back, Cont
<1>2. CASE th[t].cont # "idle"
  <2>1. th[t].cont \in Elsewhere
    BY ContElsewhere DEF Threads, ThreadState
  <2>. QED BY <1>2, <2>1, GotoQuiet DEF Back
<1>. QED BY <1>1, <1>2

LEMMA JobDoneQuiet ==
    ASSUME Threads(th), NEW t \in Thread, NotDone(t), NEW r
    PROVE  QuietTo(JobDone(t, r))
<1>1. CASE Len(th[t].todo) = 1 /\ th[t].cont = "idle"
  <2>1. JobDone(t, r) = [th EXCEPT ![t] = Idle("idle")]
    BY <1>1 DEF JobDone
  <2>2. QuietTo([th EXCEPT ![t] = Idle("idle")])
    BY IdleQuiet, ContElsewhere DEF Cont
  <2>. QED BY <2>1, <2>2
<1>2. CASE ~(Len(th[t].todo) = 1 /\ th[t].cont = "idle")
  <2> DEFINE s == [th[t] EXCEPT
                     !.pc = IF Len(th[t].todo) > 1 THEN "get" ELSE th[t].cont,
                     !.todo = Tail(th[t].todo), !.req = NoEntry, !.rc = r]
  <2>1. th[t] \in ThreadState
    BY DEF Threads
  <2>2. (IF Len(th[t].todo) > 1 THEN "get" ELSE th[t].cont) \in Elsewhere
    BY <2>1, ContElsewhere DEF ThreadState
  <2>3. Quiet(th[t], s)
    BY <2>1, <2>2 DEF Quiet, NotDone, ThreadState, Elsewhere, Before, After
  <2>4. JobDone(t, r) = [th EXCEPT ![t] = s]
    BY <1>2, <2>1 DEF JobDone, Threads
  <2>5. QuietTo([th EXCEPT ![t] = s])
    BY <2>3, QuietChange
  <2>. QED BY <2>4, <2>5
<1>. QED BY <1>1, <1>2

LEMMA WakingQuiet ==
    ASSUME NEW h, Threads(h), QuietTo(h), NEW d \in Dispatcher, h[d].pc \in {"none", "wait"}
    PROVE  QuietTo([h EXCEPT ![d].pc = "loop"])
<1> DEFINE g == [h EXCEPT ![d].pc = "loop"]
<1>1. g[d] = [h[d] EXCEPT !.pc = "loop"] /\ \A t \in Thread : t # d => g[t] = h[t]
  BY DispatcherThread DEF Threads
<1>2. ASSUME NEW t \in Thread PROVE Quiet(th[t], g[t])
  <2>1. CASE t = d
    <3>1. Quiet(th[d], h[d]) /\ g[d].pc = "loop" /\ g[d].cur = h[d].cur
          /\ g[d].returnde = h[d].returnde
      BY <1>1, DispatcherThread DEF QuietTo, Threads, ThreadState
    <3>. QED BY <2>1, <3>1 DEF Quiet, Before, After
  <2>2. CASE t # d
    <3>1. g[t] = h[t] /\ Quiet(th[t], h[t])
      BY <1>1, <2>2 DEF QuietTo
    <3>. QED BY <3>1
  <2>. QED BY <2>1, <2>2
<1>. QED BY <1>2 DEF QuietTo

LEMMA SignalQuiet ==
    ASSUME NEW h, Threads(h), QuietTo(h), Signal(h)
    PROVE  QuietTo(th')
<1>1. CASE th' = h
  BY <1>1
<1>2. ASSUME NEW d \in Waiting(h), th' = [h EXCEPT ![d].pc = "loop"]
      PROVE  QuietTo(th')
  <2>1. d \in Dispatcher /\ h[d].pc \in {"none", "wait"}
    BY DEF Waiting
  <2>2. QuietTo([h EXCEPT ![d].pc = "loop"])
    BY <2>1, WakingQuiet
  <2>. QED BY <1>2, <2>2
<1>. QED BY <1>1, <1>2 DEF Signal

-----------------------------------------------------------------------------
(* The steps that are quiet *)

LEMMA QueuesStay == UNCHANGED queues => UNCHANGED <<outq, inq, de, free>>
BY DEF queues

LEMMA QuietInsertion ==
    ASSUME TypeInv, EntryInv, NEW t \in Thread,
           \/ GetEntryFails(t) \/ InsertRefused(t) \/ InsertNoSpace(t)
           \/ Mark(t) \/ PutOnOutList(t) \/ PutOnInList(t) \/ EntryDispatched(t)
           \/ Purge(t) /\ outq[th[t].ph] = <<>>
           \/ ClearOut(t) /\ outq[th[t].ph] = <<>>
           \/ ClearIn(t) /\ inq[th[t].ph] = <<>>
    PROVE  EntryInv'
<1>0. Threads(th) /\ th[t] \in ThreadState
  BY DEF TypeInv, Threads
<1> SUFFICES QuietTo(th') /\ UNCHANGED <<outq, inq, de, free>>
  BY QuietStep
<1>1. ASSUME NEW r, Quiet(th[t], r), th' = [th EXCEPT ![t] = r] PROVE QuietTo(th')
  BY <1>0, <1>1, QuietChange
<1>2. ASSUME NEW r, NotDone(t), th' = JobDone(t, r) PROVE QuietTo(th')
  BY <1>0, <1>2, JobDoneQuiet
<1>3. CASE GetEntryFails(t)
  BY <1>2, <1>3, QueuesStay DEF GetEntryFails, At, NotDone
<1>4. CASE InsertRefused(t)
  <2> DEFINE r == [th[t] EXCEPT !.pc = "purge", !.rc = "NOTATTACHED"]
  <2>1. Quiet(th[t], r)
    BY <1>0, <1>4 DEF InsertRefused, At, Quiet, ThreadState, Before, After
  <2>2. th' = [th EXCEPT ![t] = r]
    BY <1>0, <1>4 DEF InsertRefused, Threads
  <2>. QED BY <1>1, <1>4, <2>1, <2>2, QueuesStay DEF InsertRefused
<1>5. CASE InsertNoSpace(t)
  <2> DEFINE r == [th[t] EXCEPT !.pc = "drop", !.rc = "NOSPC"]
  <2>1. Quiet(th[t], r)
    BY <1>0, <1>5 DEF InsertNoSpace, At, Quiet, ThreadState, Before, After
  <2>2. th' = [th EXCEPT ![t] = r]
    BY <1>0, <1>5 DEF InsertNoSpace, Threads
  <2>. QED BY <1>1, <1>5, <2>1, <2>2, QueuesStay DEF InsertNoSpace
<1>6. CASE Mark(t)
  <2>1. \E where \in {"signal", "listin", "listout"} : Goto(t, where)
    BY <1>6 DEF Mark
  <2>2. QuietTo(th')
    BY <1>0, <1>6, <2>1, GotoQuiet DEF Mark, At, NotDone, After
  <2>. QED BY <1>6, <2>2 DEF Mark
<1>7. CASE PutOnOutList(t)
  BY <1>0, <1>7, GotoQuiet DEF PutOnOutList, At, NotDone, After
<1>8. CASE PutOnInList(t)
  BY <1>0, <1>8, GotoQuiet DEF PutOnInList, At, NotDone, After
<1>9. CASE EntryDispatched(t)
  <2> DEFINE next == IF Job1(t) = SyncRequest THEN [th EXCEPT ![t].pc = "answer"] ELSE JobDone(t, "OK")
             r == [th[t] EXCEPT !.pc = "answer"]
  <2>1. th[t].pc = "signal" /\ ThreadOK(t, th[t])
    BY <1>0, <1>9 DEF EntryDispatched, At, Threads
  <2>2. ThreadOK(t, r)
    <3>1. r \in ThreadState
      BY <1>0, PCs DEF ThreadState
    <3>. QED BY <1>0, <2>1, <3>1 DEF ThreadOK, AtRest, Inserting, Filling, ThreadState
  <2>3. [th EXCEPT ![t].pc = "answer"] = [th EXCEPT ![t] = r]
    BY <1>0 DEF Threads
  <2>4. Job1(t) = SyncRequest => Quiet(th[t], r)
    BY <1>0, <2>1 DEF Quiet, ThreadState, Before, After, Job1
  <2>5. Job1(t) = SyncRequest => Threads([th EXCEPT ![t] = r]) /\ QuietTo([th EXCEPT ![t] = r])
    BY <1>0, <2>2, <2>4, ThreadChanges, QuietChange
  <2>6. Threads(JobDone(t, "OK")) /\ QuietTo(JobDone(t, "OK"))
    BY <1>0, <2>1, JobDoneOK, JobDoneQuiet DEF Inserting, NotDone
  <2>7. Threads(next) /\ QuietTo(next)
    BY <2>3, <2>5, <2>6
  <2>8. IF NotBusy = {} /\ Dispatchers # Dispatcher
        THEN \E d \in Dispatcher \ Dispatchers : th' = [next EXCEPT ![d].pc = "loop"]
        ELSE Signal(next)
    BY <1>9 DEF EntryDispatched
  <2> HIDE DEF next
  <2>9. ASSUME NEW d \in Dispatcher \ Dispatchers, th' = [next EXCEPT ![d].pc = "loop"]
        PROVE  QuietTo(th')
    <3>1. th[d].pc = "none" /\ d # t /\ d \in Thread
      BY <2>1, DispatcherThread DEF Dispatchers, At
    <3>2. next[d] = th[d]
      <4>1. CASE Job1(t) = SyncRequest
        BY <3>1, <4>1, <2>3, <1>0 DEF next, Threads
      <4>2. CASE Job1(t) # SyncRequest
        BY <3>1, <4>2, <1>0 DEF next, Threads, JobDone
      <4>. QED BY <4>1, <4>2
    <3>. QED BY <2>7, <2>9, <3>1, <3>2, WakingQuiet
  <2>10. ASSUME Signal(next) PROVE QuietTo(th')
    BY <2>7, <2>10, SignalQuiet
  <2>. QED BY <1>9, <2>8, <2>9, <2>10, QueuesStay DEF EntryDispatched
<1>10. CASE Purge(t) /\ outq[th[t].ph] = <<>>
  <2>1. th[t].pc = "purge" /\ NotDone(t) /\ UNCHANGED <<outq, inq, de, free>>
    BY <1>10 DEF Purge, At, NotDone
  <2>2. CASE Dropped(t)
    BY <1>2, <1>10, <2>1, <2>2 DEF Purge
  <2>3. CASE ~Dropped(t)
    <3>1. Goto(t, "drop")
      BY <1>10, <2>3 DEF Purge
    <3>. QED BY <1>0, <2>1, <3>1, GotoQuiet DEF Before
  <2>. QED BY <2>2, <2>3
<1>11. CASE ClearOut(t) /\ outq[th[t].ph] = <<>>
  <2>1. "clearin" \in Elsewhere
    BY PCs DEF Elsewhere, Before, After
  <2>. QED BY <1>0, <1>11, <2>1, GotoQuiet DEF ClearOut, At, NotDone
<1>12. CASE ClearIn(t) /\ inq[th[t].ph] = <<>>
  BY <1>0, <1>12, BackQuiet DEF ClearIn, At, NotDone
<1>. QED BY <1>3, <1>4, <1>5, <1>6, <1>7, <1>8, <1>9, <1>10, <1>11, <1>12

LEMMA QuietLoop ==
    ASSUME TypeInv, EntryInv, NEW d \in Dispatcher,
           DispatcherLoop(d), ~Dequeue(d), ~EntryDone(d)
    PROVE  EntryInv'
<1>0. Threads(th) /\ d \in Thread /\ th[d] \in ThreadState
  BY DispatcherThread DEF TypeInv, Threads
<1> SUFFICES QuietTo(th') /\ UNCHANGED <<outq, inq, de, free>>
  BY QuietStep
<1>1. ASSUME NEW r, Quiet(th[d], r), th' = [th EXCEPT ![d] = r] PROVE QuietTo(th')
  BY <1>0, <1>1, QuietChange
<1>2. {"serve", "leave", "loop", "wait", "scan", "none"} \subseteq Elsewhere
  BY PCs DEF Elsewhere, Before, After
<1>3. CASE Exit(d)
  <2> DEFINE r == [th[d] EXCEPT !.pc = "none"]
  <2>1. r \in ThreadState
    BY <1>0, PCs DEF ThreadState
  <2>2. ThreadOK(d, r) /\ Quiet(th[d], r)
    BY <2>1, <1>0, <1>3 DEF Exit, At, Threads, ThreadOK, AtRest, Inserting, Filling, ThreadState,
                            Quiet, Before, After
  <2>3. [th EXCEPT ![d].pc = "none"] = [th EXCEPT ![d] = r]
    BY <1>0 DEF Threads
  <2>4. Threads([th EXCEPT ![d] = r]) /\ QuietTo([th EXCEPT ![d] = r])
    BY <1>0, <2>2, ThreadChanges, QuietChange
  <2>5. Signal([th EXCEPT ![d].pc = "none"])
    BY <1>3 DEF Exit
  <2>6. Threads([th EXCEPT ![d].pc = "none"]) /\ QuietTo([th EXCEPT ![d].pc = "none"])
    BY <2>3, <2>4
  <2>7. QuietTo(th')
    BY <2>5, <2>6, SignalQuiet
  <2>. QED BY <1>3, <2>7, QueuesStay DEF Exit
<1>4. CASE TakeIn(d)
  <2> DEFINE r == [th[d] EXCEPT !.pc = "serve", !.ph = Head(inList), !.out = FALSE]
  <2>1. Quiet(th[d], r)
    BY <1>0, <1>4 DEF TakeIn, At, Quiet, ThreadState, Before, After
  <2>2. th' = [th EXCEPT ![d] = r]
    BY <1>0, <1>4 DEF TakeIn, Threads
  <2>. QED BY <1>1, <1>4, <2>1, <2>2 DEF TakeIn
<1>5. CASE ScanStart(d)
  <2> DEFINE r == [th[d] EXCEPT !.pc = "scan", !.at = 1]
  <2>1. Quiet(th[d], r)
    BY <1>0, <1>5 DEF ScanStart, At, Quiet, ThreadState, Before, After
  <2>2. th' = [th EXCEPT ![d] = r]
    BY <1>0, <1>5 DEF ScanStart, Threads
  <2>. QED BY <1>1, <1>5, <2>1, <2>2, QueuesStay DEF ScanStart
<1>6. CASE ScanTake(d)
  <2> DEFINE i == th[d].at
             r == [th[d] EXCEPT !.pc = "serve", !.ph = outList[i], !.out = TRUE, !.at = 0]
  <2>1. Quiet(th[d], r)
    BY <1>0, <1>6 DEF ScanTake, At, Quiet, ThreadState, Before, After
  <2>2. th' = [th EXCEPT ![d] = r]
    BY <1>0, <1>6 DEF ScanTake, Threads
  <2>. QED BY <1>1, <1>6, <2>1, <2>2 DEF ScanTake
<1>7. CASE ScanSkip(d)
  <2> DEFINE r == [th[d] EXCEPT !.at = th[d].at + 1]
  <2>1. Quiet(th[d], r) /\ Quiet(th[d], th[d])
    BY <1>0, <1>7 DEF ScanSkip, At, Quiet, ThreadState, Before, After
  <2>2. th' = [th EXCEPT ![d] = r] \/ th' = th
    BY <1>0, <1>7 DEF ScanSkip, Threads
  <2>3. QuietTo(th')
    BY <1>1, <2>1, <2>2 DEF QuietTo, Quiet
  <2>. QED BY <1>7, <2>3 DEF ScanSkip
<1>8. CASE ScanEnd(d)
  BY <1>0, <1>2, <1>8, IdleQuiet, QueuesStay DEF ScanEnd, At, NotDone
<1>9. CASE Unflag(d)
  BY <1>0, <1>2, <1>9, GotoQuiet DEF Unflag, At, NotDone
<1>10. CASE Leave(d)
  BY <1>0, <1>2, <1>10, IdleQuiet, QueuesStay DEF Leave, At, NotDone
<1>. QED BY <1>3, <1>4, <1>5, <1>6, <1>7, <1>8, <1>9, <1>10 DEF DispatcherLoop

LEMMA QuietExecution ==
    ASSUME TypeInv, EntryInv, NEW d \in Dispatcher, Execution(d), ~ExecRequest(d)
    PROVE  EntryInv'
<1>0. Threads(th) /\ d \in Thread /\ th[d] \in ThreadState
  BY DispatcherThread DEF TypeInv, Threads
<1> SUFFICES QuietTo(th') /\ UNCHANGED <<outq, inq, de, free>>
  BY QuietStep
<1>1. ASSUME NEW where \in {"callback", "done", "called", "enablefailed", "unslot"},
             Goto(d, where), NotDone(d)
      PROVE  QuietTo(th')
  <2>1. where \in Elsewhere
    BY PCs DEF Elsewhere, Before, After
  <2>. QED BY <1>0, <1>1, <2>1, GotoQuiet
<1>2. ASSUME th' = [th EXCEPT ![d].pc = "clearout", ![d].cont = "attacherror"], NotDone(d)
      PROVE  QuietTo(th')
  <2> DEFINE r == [th[d] EXCEPT !.pc = "clearout", !.cont = "attacherror"]
  <2>1. Quiet(th[d], r)
    BY <1>0, <1>2 DEF Quiet, NotDone, ThreadState, Before, After
  <2>2. th' = [th EXCEPT ![d] = r]
    BY <1>0, <1>2 DEF Threads
  <2>3. QuietTo([th EXCEPT ![d] = r])
    BY <1>0, <2>1, QuietChange
  <2>. QED BY <2>2, <2>3
<1>3. CASE ExecAttachFails(d)
  BY <1>2, <1>3, QueuesStay DEF ExecAttachFails, Executing, At, NotDone, IsSync
<1>4. CASE ExecEvent(d)
  BY <1>1, <1>4 DEF ExecEvent, Executing, At, NotDone, IsSync, OutTypes
<1>5. CASE ExecInternal(d)
  BY <1>1, <1>5, QueuesStay DEF ExecInternal, Executing, At, NotDone, IsSync
<1>6. CASE ExecAsyncRequest(d)
  <2> DEFINE jobs == <<Job("USERREQCALLBACK", TRUE)>>
             r == [th[d] EXCEPT !.pc = "get", !.todo = jobs, !.cont = "callbackqueued"]
  <2>1. Quiet(th[d], r)
    BY <1>0, <1>6 DEF ExecAsyncRequest, Executing, At, IsSync, Quiet, ThreadState, Before, After
  <2>2. th' = [th EXCEPT ![d] = r]
    BY <1>0, <1>6 DEF ExecAsyncRequest, Threads
  <2>3. QuietTo([th EXCEPT ![d] = r])
    BY <1>0, <2>1, QuietChange
  <2>. QED BY <1>6, <2>2, <2>3, QueuesStay DEF ExecAsyncRequest
<1>7. CASE CallbackQueued(d)
  BY <1>1, <1>7, QueuesStay DEF CallbackQueued, At, NotDone
<1>8. CASE Callback(d)
  <2>1. NotDone(d)
    BY <1>8 DEF Callback, At, NotDone
  <2>2. CASE Starts(d, th[d].ph, <<SyncRequest>>, "get", "called")
    BY <1>0, <1>8, <2>1, <2>2, StartsQuiet, ContElsewhere, QueuesStay DEF Callback
  <2>3. CASE Goto(d, "called")
    BY <1>1, <1>8, <2>1, <2>3, QueuesStay DEF Callback
  <2>. QED BY <1>8, <2>2, <2>3 DEF Callback
<1>9. CASE Called(d)
  BY <1>1, <1>9 DEF Called, At, NotDone
<1>10. CASE EnableFails(d)
  BY <1>1, <1>10 DEF EnableFails, At, NotDone
<1>11. CASE EnableFailed(d)
  BY <1>2, <1>11 DEF EnableFailed, At, NotDone
<1>12. CASE AttachError(d)
  BY <1>1, <1>12 DEF AttachError, At, NotDone
<1>13. CASE AttachErrorUnslot(d)
  BY <1>1, <1>13, QueuesStay DEF AttachErrorUnslot, At, NotDone
<1>. QED BY <1>3, <1>4, <1>5, <1>6, <1>7, <1>8, <1>9, <1>10, <1>11, <1>12, <1>13 DEF Execution

LEMMA QuietAttaching ==
    ASSUME TypeInv, EntryInv, Attaching
    PROVE  EntryInv'
<1>0. Threads(th) /\ Central \in Thread /\ th[Central] \in ThreadState
  BY CentralNotDispatcher DEF TypeInv, Threads
<1> SUFFICES QuietTo(th') /\ UNCHANGED <<outq, inq, de, free>>
  BY QuietStep
<1>1. ASSUME NEW where \in {"slot", "attach", "wake", "detaching", "close"}, Goto(Central, where),
             NotDone(Central)
      PROVE  QuietTo(th')
  <2>1. where \in Elsewhere
    BY PCs DEF Elsewhere, Before, After
  <2>. QED BY <1>0, <1>1, <2>1, GotoQuiet
<1>2. ASSUME NEW cont, th' = [th EXCEPT ![Central].pc = "clearout", ![Central].cont = cont],
             NotDone(Central)
      PROVE  QuietTo(th')
  <2> DEFINE r == [th[Central] EXCEPT !.pc = "clearout", !.cont = cont]
  <2>1. Quiet(th[Central], r)
    BY <1>0, <1>2 DEF Quiet, NotDone, ThreadState, Before, After
  <2>2. th' = [th EXCEPT ![Central] = r]
    BY <1>0, <1>2 DEF Threads
  <2>3. QuietTo([th EXCEPT ![Central] = r])
    BY <1>0, <2>1, QuietChange
  <2>. QED BY <2>2, <2>3
<1>3. CASE AttachFlag
  BY <1>1, <1>3 DEF AttachFlag, At, NotDone
<1>4. CASE AttachSlot
  BY <1>1, <1>4, QueuesStay DEF AttachSlot, At, NotDone
<1>5. CASE AttachRefused
  BY <1>2, <1>5 DEF AttachRefused, At, NotDone
<1>6. CASE Attached
  BY <1>1, <1>6 DEF Attached, At, NotDone
<1>7. CASE WakeDispatch
  <2> DEFINE h == [th EXCEPT ![Central] = Idle("idle")]
  <2>1. "idle" \in Elsewhere /\ NotDone(Central)
    BY <1>7, ContElsewhere DEF Cont, WakeDispatch, At, NotDone
  <2>2. Threads(h) /\ QuietTo(h)
    BY <1>0, <2>1, IdleOK, ThreadChanges, IdleQuiet
  <2>3. Signal(h)
    BY <1>7 DEF WakeDispatch
  <2> HIDE DEF h
  <2>4. QuietTo(th')
    BY <2>2, <2>3, SignalQuiet
  <2>. QED BY <1>7, <2>4, QueuesStay DEF WakeDispatch
<1>8. CASE DetachWaited
  <2>1. QuietTo(th')
    BY <1>1, <1>2, <1>8 DEF DetachWaited, At, NotDone
  <2>. QED BY <1>8, <2>1, QueuesStay DEF DetachWaited
<1>9. CASE DetachFlag
  BY <1>2, <1>9 DEF DetachFlag, At, NotDone
<1>10. CASE DetachDispatch
  <2>1. QuietTo(th')
    BY <1>0, <1>10, StartsQuiet, ContElsewhere DEF DetachDispatch, At, NotDone
  <2>. QED BY <1>10, <2>1, QueuesStay DEF DetachDispatch
<1>11. CASE DetachClose
  BY <1>1, <1>11 DEF DetachClose, At, NotDone
<1>12. CASE CentralUnslot
  <2>1. "idle" \in Elsewhere
    BY ContElsewhere DEF Cont
  <2>. QED BY <1>0, <1>12, <2>1, IdleQuiet, QueuesStay DEF CentralUnslot, At, NotDone
<1>. QED BY <1>3, <1>4, <1>5, <1>6, <1>7, <1>8, <1>9, <1>10, <1>11, <1>12 DEF Attaching

LEMMA QuietUsers ==
    ASSUME TypeInv, EntryInv, (\E t \in User \cup {Central} : Closing(t)) \/ Environment
    PROVE  EntryInv'
<1>0. Threads(th) /\ User \cup Source \cup {Central} \subseteq Thread
  BY DEF TypeInv, Thread
<1> SUFFICES QuietTo(th') /\ UNCHANGED <<outq, inq, de, free>>
  BY QuietStep
<1>1. {"get", "detachwait", "close", "closing", "closeslot", "clearout"} \subseteq Elsewhere
  BY PCs DEF Elsewhere, Before, After
<1>2. ASSUME NEW t \in User \cup {Central}, Closing(t)
      PROVE  QuietTo(th') /\ UNCHANGED <<outq, inq, de, free>>
  <2>1. NotDone(t)
    BY <1>2 DEF Closing, CloseParent, CloseSlot, CloseStop, At, NotDone
  <2>2. Back(t) \/ \E where \in {"closing", "closeslot", "clearout"} : Goto(t, where)
    BY <1>2 DEF Closing, CloseParent, CloseSlot, CloseStop
  <2>3. QuietTo(th')
    BY <1>0, <1>1, <2>1, <2>2, GotoQuiet, BackQuiet
  <2>. QED BY <1>2, <2>3, QueuesStay DEF Closing, CloseParent, CloseSlot, CloseStop
<1>3. ASSUME NEW p \in Channel, AttachStart(p) \/ DetachStart(p)
      PROVE  QuietTo(th') /\ UNCHANGED <<outq, inq, de, free>>
  <2>1. NotDone(Central)
    BY <1>3 DEF AttachStart, DetachStart, At, NotDone
  <2>2. CASE AttachStart(p)
    BY <1>0, <1>1, <2>1, <2>2, StartsQuiet, QueuesStay DEF AttachStart
  <2>3. CASE DetachStart(p)
    BY <1>0, <1>1, <2>1, <2>3, StartsQuiet, QueuesStay DEF DetachStart
  <2>. QED BY <1>3, <2>2, <2>3
<1>4. ASSUME NEW u \in User, NEW p \in Channel, Request(u, p) \/ CloseStart(u, p) \/ Open(u, p)
      PROVE  QuietTo(th') /\ UNCHANGED <<outq, inq, de, free>>
  <2>1. NotDone(u)
    BY <1>4 DEF Request, CloseStart, Open, At, NotDone
  <2>2. CASE Request(u, p)
    BY <1>0, <1>1, <2>1, <2>2, StartsQuiet, QueuesStay DEF Request
  <2>3. CASE CloseStart(u, p)
    BY <1>0, <1>1, <2>1, <2>3, StartsQuiet DEF CloseStart
  <2>4. CASE Open(u, p)
    BY <2>4 DEF Open, QuietTo, Quiet
  <2>. QED BY <1>4, <2>2, <2>3, <2>4
<1>5. ASSUME NEW s \in Source, NEW p \in Channel, Deliver(s, p)
      PROVE  QuietTo(th') /\ UNCHANGED <<outq, inq, de, free>>
  <2>1. NotDone(s)
    BY <1>5 DEF Deliver, At, NotDone
  <2>. QED BY <1>0, <1>1, <1>5, <2>1, StartsQuiet, QueuesStay DEF Deliver
<1>. QED BY <1>2, <1>3, <1>4, <1>5 DEF Environment

-----------------------------------------------------------------------------
(* Steps that move an entry *)

\* Apart from e, every entry stays where it is or leaves
Moves(e) ==
    /\ \A p \in Channel : /\ ToSet(outq'[p]) \subseteq ToSet(outq[p]) \cup {e}
                          /\ ToSet(inq'[p]) \subseteq ToSet(inq[p]) \cup {e}
    /\ free' \subseteq free \cup {e}
    /\ \A f \in Entry \ {e}, t \in Thread : Keeping(th[t], f)' => Keeping(th[t], f)

LEMMA MovesOnce ==
    ASSUME EntryInv, NEW e, Moves(e), e \in Entry => Once(e)'
    PROVE  \A f \in Entry : Once(f)'
<1> SUFFICES ASSUME NEW f \in Entry, f # e PROVE Once(f)'
  OBVIOUS
<1>1. Once(f)
  BY DEF EntryInv
<1>2. /\ f \in free' => f \in free
      /\ \A t \in Thread : Keeping(th[t], f)' => Keeping(th[t], f)
      /\ \A p \in Channel : /\ f \in ToSet(outq'[p]) => f \in ToSet(outq[p])
                            /\ f \in ToSet(inq'[p]) => f \in ToSet(inq[p])
  BY DEF Moves
<1>3. \A p \in Channel : f \in Queued(p)' => f \in Queued(p)
  BY <1>2 DEF Queued
<1>4. ASSUME NEW p \in Channel, f \in Queued(p)'
      PROVE  /\ f \notin (ToSet(outq[p]) \cap ToSet(inq[p]))'
             /\ f \notin free'
             /\ \A q \in Channel : f \in Queued(q)' => q = p
             /\ \A t \in Thread : ~Keeping(th[t], f)'
  BY <1>1, <1>2, <1>3, <1>4 DEF Once
<1>5. ASSUME NEW t \in Thread, Keeping(th[t], f)'
      PROVE  /\ f \notin free'
             /\ \A u \in Thread : Keeping(th[u], f)' => u = t
  BY <1>1, <1>2, <1>5 DEF Once
<1>. QED BY <1>4, <1>5 DEF Once

\* Where the entry of a request is that thread t awaits
LEMMA AwaitedPlace ==
    ASSUME TypeInv, EntryInv, NEW t \in Thread, Awaiting(th[t]), NEW e, e = th[t].req
    PROVE  /\ e \in Entry /\ e \notin free
           /\ \A p \in Channel : e \notin ToSet(outq[p])
           /\ \A u \in Thread : th[u].pc \in Before => th[u].req # e
           /\ \A u \in Thread : Keeping(th[u], e) => u = t \/ (th[u].pc = "exec" /\ th[u].cur = e)
           /\ ~de[e].waiting => \A p \in Channel : e \notin Queued(p)
<1>1. e \in Entry /\ th[t].ph \in Channel /\ Once(e) /\ AwaitOK(t)
  BY AwaitingEntry DEF TypeInv, EntryInv
<1>2. CASE ~de[e].waiting
  <2>1. Keeping(th[t], e)
    BY <1>2 DEF Keeping
  <2>2. th[t].pc \notin Before
    BY DEF Awaiting, Before, After
  <2>. QED BY <1>1, <1>2, <2>1, <2>2 DEF Once, Keeping, Queued
<1>3. CASE de[e].waiting /\ e \in ToSet(inq[th[t].ph])
  <2>1. e \in Queued(th[t].ph)
    BY <1>3 DEF Queued
  <2>2. \A u \in Thread : ~Keeping(th[u], e)
    BY <1>1, <2>1 DEF Once
  <2>3. e \notin free /\ \A p \in Channel : e \notin ToSet(outq[p])
    BY <1>1, <1>3, <2>1 DEF Once, Queued
  <2>. QED BY <1>1, <1>3, <2>2, <2>3 DEF Keeping
<1>4. CASE de[e].waiting /\ \E d \in Dispatcher : At(d, "exec") /\ th[d].cur = e
  <2>1. PICK d \in Dispatcher : At(d, "exec") /\ th[d].cur = e
    BY <1>4
  <2>2. d \in Thread /\ th[d].pc = "exec" /\ Keeping(th[d], e)
    BY <2>1, DispatcherThread DEF At, Keeping
  <2>3. \A u \in Thread : Keeping(th[u], e) => u = d
    BY <1>1, <2>2 DEF Once
  <2>4. e \notin free /\ \A p \in Channel : e \notin Queued(p)
    BY <1>1, <2>2 DEF Once
  <2>. QED BY <1>1, <1>4, <2>1, <2>2, <2>3, <2>4 DEF Keeping, Queued, Before
<1>. QED BY <1>1, <1>2, <1>3, <1>4 DEF AwaitOK


\* A step of thread t, which goes to record s and moves entry e
MovedBy(t, s, e) ==
    /\ th' = [th EXCEPT ![t] = s]
    /\ \A f \in Entry \ {e} : de'[f] = de[f]
    /\ \A p \in Channel : /\ ToSet(outq'[p]) \subseteq ToSet(outq[p]) \cup {e}
                          /\ ToSet(inq'[p]) \subseteq ToSet(inq[p]) \cup {e}
                          /\ ToSet(inq[p]) \subseteq ToSet(inq'[p]) \cup {e}
    /\ free' \subseteq free \cup {e}
    /\ \/ s = th[t]
       \/ /\ s.pc \in Before => s.req \in {e, NoEntry}
          /\ Awaiting(s) => s.req = e
          /\ s.cur \in {e, NoEntry} \/ (s.cur = th[t].cur /\ th[t].pc \notin {"exec", "done"})
          /\ th[t].pc = "exec" => th[t].cur = e

LEMMA MovedByMoves ==
    ASSUME TypeInv, NEW t \in Thread, NEW s, NEW e \in Entry, MovedBy(t, s, e)
    PROVE  /\ Moves(e)
           /\ th'[t] = s /\ \A u \in Thread \ {t} : th'[u] = th[u]
<1>1. th'[t] = s /\ \A u \in Thread \ {t} : th'[u] = th[u]
  BY DEF TypeInv, Threads, MovedBy
<1>2. ASSUME NEW f \in Entry \ {e}, NEW u \in Thread, Keeping(th[u], f)' PROVE Keeping(th[u], f)
  <2>1. de'[f] = de[f] /\ f # NoEntry
    BY ConstantsAssumption DEF MovedBy
  <2>2. CASE u = t /\ s # th[t]
    <3>1. ~(s.pc \in Before /\ s.req = f) /\ ~(Awaiting(s) /\ s.req = f)
      BY <2>1, <2>2 DEF MovedBy
    <3>2. s.cur = f
      BY <1>1, <1>2, <2>2, <3>1 DEF Keeping
    <3>. QED BY <1>2, <2>1, <2>2, <3>2 DEF MovedBy, Keeping
  <2>3. CASE u # t \/ s = th[t]
    BY <1>1, <1>2, <2>1, <2>3 DEF Keeping
  <2>. QED BY <2>2, <2>3
<1>. QED BY <1>1, <1>2 DEF Moves, MovedBy

\* What is left to show of such a step
LEMMA MoveStep ==
    ASSUME TypeInv, EntryInv, NEW t \in Thread, NEW s, NEW e \in Entry, MovedBy(t, s, e),
           Once(e)', QueuesOnce', InsertOK(s)', Awaiting(s) => AwaitOK(t)',
           \A u \in Thread \ {t} : th[u].pc \in Before => th[u].req # e \/ de'[e] = de[e],
           \A u \in Thread \ {t} : Awaiting(th[u]) /\ th[u].req = e => AwaitOK(u)'
    PROVE  EntryInv'
<1>1. Moves(e) /\ th'[t] = s /\ \A u \in Thread \ {t} : th'[u] = th[u]
  BY MovedByMoves
<1>2. \A f \in Entry : Once(f)'
  BY <1>1, MovesOnce
<1>3. ASSUME NEW u \in Thread PROVE InsertOK(th[u])'
  <2>1. CASE u = t
    BY <1>1, <2>1 DEF InsertOK
  <2>2. CASE u # t
    <3>1. InsertOK(th[u]) /\ th'[u] = th[u]
      BY <1>1, <2>2 DEF EntryInv
    <3>. QED BY <2>2, <3>1 DEF InsertOK, MovedBy
  <2>. QED BY <2>1, <2>2
<1>4. ASSUME NEW u \in Thread PROVE AwaitOK(u)'
  <2>1. CASE u = t
    BY <1>1, <2>1 DEF AwaitOK
  <2>2. CASE u # t /\ Awaiting(th[u]) /\ th[u].req # e
    <3>1. PICK f : f = th[u].req
      OBVIOUS
    <3>2. f \in Entry /\ f # e /\ f # NoEntry /\ th[u].ph \in Channel /\ th'[u] = th[u]
          /\ de'[f] = de[f] /\ AwaitOK(u)
      BY <1>1, <2>2, <3>1, AwaitingEntry, ConstantsAssumption DEF TypeInv, EntryInv, MovedBy
    <3>3. /\ \A w \in Thread : Awaiting(th[w]) /\ th[w].req = f => w = u
          /\ \A w \in Thread : th[w].cur = f => ~th[w].returnde /\ th[w].pc \in {"exec", "done"}
      BY <2>2, <3>1, <3>2 DEF AwaitOK
    <3>4. \A w \in Thread : Awaiting(th'[w]) /\ th'[w].req = f => w = u
      BY <1>1, <3>2, <3>3 DEF MovedBy
    <3>5. \A w \in Thread : th'[w].cur = f => ~th'[w].returnde /\ th'[w].pc \in {"exec", "done"}
      BY <1>1, <3>2, <3>3 DEF MovedBy
    <3>6. \A d \in Dispatcher : At(d, "exec") /\ th[d].cur = f => th'[d] = th[d]
      BY <1>1, <3>2, DispatcherThread DEF MovedBy, At
    <3>7. f \in ToSet(inq[th[u].ph]) => f \in ToSet(inq'[th[u].ph])
      BY <3>2 DEF MovedBy
    <3>. QED BY <2>2, <3>1, <3>2, <3>4, <3>5, <3>6, <3>7 DEF AwaitOK, At
  <2>3. CASE u # t /\ ~Awaiting(th[u])
    BY <1>1, <2>3 DEF AwaitOK
  <2>. QED BY <2>1, <2>2, <2>3
<1>. QED BY <1>2, <1>3, <1>4 DEF EntryInv


LEMMA JobDoneMoves ==
    ASSUME Threads(th), NEW t \in Thread, NEW r
    PROVE  \E s : /\ JobDone(t, r) = [th EXCEPT ![t] = s]
                  /\ s.pc \in Elsewhere
                  /\ s.cur \in {th[t].cur, NoEntry}
<1>0. th[t] \in ThreadState
  BY DEF Threads
<1>1. CASE Len(th[t].todo) = 1 /\ th[t].cont = "idle"
  <2>1. JobDone(t, r) = [th EXCEPT ![t] = Idle("idle")]
    BY <1>1 DEF JobDone
  <2>2. Idle("idle").pc = "idle" /\ Idle("idle").cur = NoEntry /\ "idle" \in Elsewhere
    BY ContElsewhere DEF Idle, Cont
  <2>. QED BY <2>1, <2>2
<1>2. CASE ~(Len(th[t].todo) = 1 /\ th[t].cont = "idle")
  <2> DEFINE s == [th[t] EXCEPT
                     !.pc = IF Len(th[t].todo) > 1 THEN "get" ELSE th[t].cont,
                     !.todo = Tail(th[t].todo), !.req = NoEntry, !.rc = r]
  <2>1. (IF Len(th[t].todo) > 1 THEN "get" ELSE th[t].cont) \in Elsewhere
    BY <1>0, ContElsewhere DEF ThreadState
  <2>2. s.pc \in Elsewhere /\ s.cur = th[t].cur
    BY <1>0, <2>1 DEF ThreadState
  <2>3. JobDone(t, r) = [th EXCEPT ![t] = s]
    BY <1>0, <1>2 DEF JobDone, Threads
  <2>. QED BY <2>2, <2>3
<1>. QED BY <1>1, <1>2

\* A record with no entry to insert and no answer to wait for
LEMMA ElsewhereNone ==
    ASSUME NEW s, s.pc \in Elsewhere
    PROVE  s.pc \notin Before /\ ~Awaiting(s)
BY DEF Elsewhere, Awaiting

LEMMA QueueTypes == TypeInv => outq \in [Channel -> Seq(Entry)] /\ inq \in [Channel -> Seq(Entry)]
BY DEF TypeInv, RestOK

\* An entry returned to the pool is in one place if it was with nobody else
LEMMA ReturnedOnce ==
    ASSUME NEW e \in Entry, free' = free \cup {e}, de' = [de EXCEPT ![e] = Nothing],
           \A p \in Channel : e \notin Queued(p)',
           \A u \in Thread : ~Keeping(th[u], e)'
    PROVE  Once(e)'
BY DEF Once

LEMMA FreeEntry ==
    ASSUME TypeInv, EntryInv, NEW e \in free
    PROVE  /\ e \in Entry
           /\ \A p \in Channel : e \notin Queued(p)
           /\ \A u \in Thread : /\ ~Keeping(th[u], e)
                                /\ ~(Awaiting(th[u]) /\ th[u].req = e)
                                /\ th[u].pc \in Before => th[u].req # e
<1>1. e \in Entry /\ Once(e)
  BY DEF TypeInv, RestOK, EntryInv
<1>2. \A u \in Thread : ~Keeping(th[u], e)
  BY <1>1 DEF Once
<1>3. \A u \in Thread : Awaiting(th[u]) => th[u].req # e
  BY AwaitedPlace
<1>. QED BY <1>1, <1>2, <1>3 DEF Once, Keeping

LEMMA EntryGetEntry ==
    ASSUME TypeInv, EntryInv, NEW t \in Thread, GetEntry(t)
    PROVE  EntryInv'
<1>1. PICK e \in free : /\ free' = free \ {e}
                        /\ de' = [de EXCEPT ![e] = Filled(Job1(t))]
                        /\ th' = [th EXCEPT ![t].pc = "insert", ![t].req = e]
  BY DEF GetEntry
<1>2. th[t] \in ThreadState /\ th[t].pc = "get" /\ UNCHANGED <<outq, inq>>
  BY DEF GetEntry, At, TypeInv, Threads
<1>3. PICK s : s = [th[t] EXCEPT !.pc = "insert", !.req = e]
  OBVIOUS
<1>4. s.pc = "insert" /\ s.req = e /\ s.todo = th[t].todo /\ s.cur = th[t].cur
  BY <1>2, <1>3 DEF ThreadState
<1>5. /\ e \in Entry
      /\ \A p \in Channel : e \notin Queued(p)
      /\ \A u \in Thread : /\ ~Keeping(th[u], e)
                           /\ ~(Awaiting(th[u]) /\ th[u].req = e)
                           /\ th[u].pc \in Before => th[u].req # e
  BY FreeEntry
<1>6. de'[e] = Filled(Job1(t)) /\ \A f \in Entry \ {e} : de'[f] = de[f]
  BY <1>1, <1>5 DEF TypeInv, RestOK
<1>7. MovedBy(t, s, e)
  <2>1. th' = [th EXCEPT ![t] = s]
    BY <1>1, <1>2, <1>3 DEF TypeInv, Threads
  <2>. QED BY <1>1, <1>2, <1>4, <1>6, <2>1 DEF MovedBy, Awaiting, After
<1>8. Moves(e) /\ th'[t] = s /\ \A u \in Thread \ {t} : th'[u] = th[u]
  BY <1>5, <1>7, MovedByMoves
<1>9. Once(e)'
  <2>1. \A u \in Thread \ {t} : ~Keeping(th[u], e)'
    BY <1>5, <1>8 DEF Keeping
  <2>2. \A p \in Channel : e \notin Queued(p)'
    BY <1>2, <1>5 DEF Queued
  <2>3. e \notin free'
    BY <1>1
  <2>. QED BY <2>1, <2>2, <2>3 DEF Once
<1>10. QueuesOnce'
  BY <1>2 DEF EntryInv, QueuesOnce
<1>11. InsertOK(s)'
  <2>1. th[t].cur # e
    BY <1>2, <1>5 DEF Keeping
  <2>. QED BY <1>4, <1>6, <2>1 DEF InsertOK, Job1
<1>12. ~Awaiting(s)
  BY <1>4 DEF Awaiting, After
<1>. QED BY <1>5, <1>7, <1>9, <1>10, <1>11, <1>12, MoveStep

LEMMA EntryInsertAppend ==
    ASSUME TypeInv, EntryInv, NEW t \in Thread, InsertAppend(t)
    PROVE  EntryInv'
<1>1. PICK e : e = th[t].req
  OBVIOUS
<1>2. PICK p : p = th[t].ph
  OBVIOUS
<1>3. PICK s : s = [th[t] EXCEPT !.pc = "mark"]
  OBVIOUS
<1>4. /\ th[t] \in ThreadState /\ th[t].pc = "insert" /\ e \in Entry /\ p \in Channel
      /\ UNCHANGED <<de, free>>
  BY <1>1, <1>2 DEF InsertAppend, At, TypeInv, Threads, ThreadOK, AtRest, Inserting, Filling
<1>5. s.pc = "mark" /\ s.req = e /\ s.todo = th[t].todo /\ s.cur = th[t].cur /\ s.ph = p
  BY <1>1, <1>2, <1>3, <1>4 DEF ThreadState
<1>6. InsertOK(th[t]) /\ Once(e)
  BY <1>4 DEF EntryInv
<1>7. Keeping(th[t], e) /\ de[e] = Filled(Head(th[t].todo)) /\ th[t].cur # e
  BY <1>1, <1>4, <1>6 DEF Keeping, InsertOK, Before
<1>8. e \notin free /\ \A q \in Channel : e \notin Queued(q)
  BY <1>6, <1>7 DEF Once
<1>9. \A u \in Thread \ {t} : ~Keeping(th[u], e)
  BY <1>6, <1>7 DEF Once
<1>10. \A u \in Thread : ~(Awaiting(th[u]) /\ th[u].req = e)
  BY <1>1, <1>4, AwaitedPlace DEF Before
<1>11. outq[p] \in Seq(Entry) /\ inq[p] \in Seq(Entry) /\ e \notin ToSet(outq[p]) \cup ToSet(inq[p])
       /\ IsInjective(outq[p]) /\ IsInjective(inq[p])
  BY <1>4, <1>8, QueueTypes DEF EntryInv, QueuesOnce, Queued
<1>12. PICK b \in BOOLEAN : /\ b = de[e].inbound
                            /\ inq' = IF b THEN [inq EXCEPT ![p] = Append(inq[p], e)] ELSE inq
                            /\ outq' = IF b THEN outq ELSE [outq EXCEPT ![p] = Append(outq[p], e)]
  <2>1. de[e].inbound \in BOOLEAN
    BY <1>7 DEF Filled
  <2>. QED BY <1>1, <1>2, <2>1 DEF InsertAppend
<1>13. /\ \A q \in Channel \ {p} : inq'[q] = inq[q] /\ outq'[q] = outq[q]
       /\ inq'[p] = IF b THEN Append(inq[p], e) ELSE inq[p]
       /\ outq'[p] = IF b THEN outq[p] ELSE Append(outq[p], e)
  BY <1>4, <1>12, QueueTypes
<1>14. /\ ToSet(inq'[p]) = ToSet(inq[p]) \cup (IF b THEN {e} ELSE {})
       /\ ToSet(outq'[p]) = ToSet(outq[p]) \cup (IF b THEN {} ELSE {e})
       /\ IsInjective(inq'[p]) /\ IsInjective(outq'[p])
  BY <1>4, <1>11, <1>13, AppendSet
<1>15. MovedBy(t, s, e)
  <2>1. th' = [th EXCEPT ![t] = s]
    BY <1>3 DEF InsertAppend, Goto, TypeInv, Threads
  <2>2. \A q \in Channel : /\ ToSet(outq'[q]) \subseteq ToSet(outq[q]) \cup {e}
                           /\ ToSet(inq'[q]) \subseteq ToSet(inq[q]) \cup {e}
                           /\ ToSet(inq[q]) \subseteq ToSet(inq'[q]) \cup {e}
    BY <1>13, <1>14
  <2>. QED BY <1>4, <1>5, <2>1, <2>2 DEF MovedBy, Before
<1>16. Moves(e) /\ th'[t] = s /\ \A u \in Thread \ {t} : th'[u] = th[u]
  BY <1>4, <1>15, MovedByMoves
<1>17. Awaiting(s) => IsSync(de[e]) /\ de[e].inbound /\ de[e].noreturn /\ de[e].waiting
                      /\ Head(s.todo) = SyncRequest
  <2>1. Awaiting(s) => Head(s.todo) = SyncRequest
    BY <1>5 DEF Awaiting
  <2>2. SyncRequest.type = "USERREQ" /\ SyncRequest.cb = FALSE
    BY DEF SyncRequest, Job
  <2>3. /\ Filled(SyncRequest).type = "USERREQ" /\ Filled(SyncRequest).cb = FALSE
        /\ Filled(SyncRequest).inbound /\ Filled(SyncRequest).noreturn
        /\ Filled(SyncRequest).waiting
    BY <2>2 DEF Filled, InTypes
  <2>. QED BY <1>5, <1>7, <2>1, <2>3 DEF IsSync
<1>18. Once(e)'
  <2>1. de[e].waiting
    BY <1>7 DEF Filled
  <2>2. \A u \in Thread : ~Keeping(th[u], e)'
    BY <1>4, <1>5, <1>7, <1>9, <1>16, <2>1 DEF Keeping, Before
  <2>3. \A q \in Channel : e \in Queued(q)' => q = p
    BY <1>8, <1>13 DEF Queued
  <2>4. e \notin ToSet(outq'[p]) \cap ToSet(inq'[p])
    BY <1>11, <1>14
  <2>. QED BY <1>4, <1>8, <2>2, <2>3, <2>4 DEF Once
<1>19. QueuesOnce'
  BY <1>13, <1>14 DEF EntryInv, QueuesOnce
<1>20. InsertOK(s)'
  BY <1>5 DEF InsertOK, Before
<1>21. ASSUME Awaiting(s) PROVE AwaitOK(t)'
  <2>1. \A u \in Thread : Awaiting(th'[u]) /\ th'[u].req = e => u = t
    BY <1>10, <1>16
  <2>2. \A u \in Thread : th'[u].cur = e => ~th'[u].returnde /\ th'[u].pc \in {"exec", "done"}
    <3>1. \A u \in Thread : th[u].cur = e => u # t /\ th[u].pc = "done" /\ ~th[u].returnde
      BY <1>7, <1>9 DEF Keeping, TypeInv, Threads, ThreadState
    <3>. QED BY <1>5, <1>7, <1>16, <3>1
  <2>3. e \in ToSet(inq'[p])
    BY <1>12, <1>14, <1>17, <1>21
  <2>. QED BY <1>4, <1>5, <1>16, <1>17, <1>21, <2>1, <2>2, <2>3 DEF AwaitOK
<1>22. \A u \in Thread \ {t} : th[u].pc \in Before => th[u].req # e
  BY <1>9 DEF Keeping
<1>. QED BY <1>4, <1>10, <1>15, <1>18, <1>19, <1>20, <1>21, <1>22, MoveStep


\* The first event of a queue is returned to the pool (clearPhidgetDispatchOut and
\* clearPhidgetDispatch)
LEMMA EntryOutCleared ==
    ASSUME TypeInv, EntryInv, NEW t \in Thread, NEW p \in Channel, p = th[t].ph,
           outq[p] # <<>>, TakeFirst(p), Returned(Head(outq[p])), UNCHANGED <<th, inq>>
    PROVE  EntryInv'
<1>1. PICK e : e = Head(outq[p])
  OBVIOUS
<1>2. /\ outq \in [Channel -> Seq(Entry)] /\ IsInjective(outq[p]) /\ IsInjective(inq[p])
      /\ th \in [Thread -> ThreadState] /\ de \in [Entry -> EntryContents]
  BY QueueTypes DEF EntryInv, QueuesOnce, TypeInv, Threads, RestOK
<1>3. /\ e \in ToSet(outq[p]) /\ e \in Entry /\ IsInjective(Tail(outq[p]))
      /\ ToSet(Tail(outq[p])) = ToSet(outq[p]) \ {e}
  BY <1>1, <1>2, TailSet, ToSetElements
<1>4. /\ outq' = [outq EXCEPT ![p] = Tail(outq[p])]
      /\ free' = free \cup {e} /\ de' = [de EXCEPT ![e] = Nothing]
  BY <1>1 DEF TakeFirst, Returned
<1>5. outq'[p] = Tail(outq[p]) /\ \A q \in Channel \ {p} : outq'[q] = outq[q]
  BY <1>2, <1>4
<1>6. Once(e) /\ e \in Queued(p)
  BY <1>3 DEF EntryInv, Queued
<1>7. \A u \in Thread : ~Keeping(th[u], e)
  BY <1>6 DEF Once
<1>8. \A u \in Thread : ~(Awaiting(th[u]) /\ th[u].req = e)
  BY <1>3, AwaitedPlace
<1>9. MovedBy(t, th[t], e)
  <2>1. th' = [th EXCEPT ![t] = th[t]]
    BY <1>2
  <2>2. \A f \in Entry \ {e} : de'[f] = de[f]
    BY <1>2, <1>3, <1>4
  <2>3. \A q \in Channel : ToSet(outq'[q]) \subseteq ToSet(outq[q])
    BY <1>3, <1>5
  <2>. QED BY <1>4, <2>1, <2>2, <2>3 DEF MovedBy
<1>10. Once(e)'
  <2>1. \A q \in Channel : e \notin Queued(q)'
    BY <1>3, <1>5, <1>6 DEF Once, Queued
  <2>2. \A u \in Thread : ~Keeping(th[u], e)'
    BY <1>7, <1>8 DEF Keeping
  <2>. QED BY <1>3, <1>4, <2>1, <2>2, ReturnedOnce
<1>11. QueuesOnce'
  BY <1>3, <1>5 DEF EntryInv, QueuesOnce
<1>12. \A u \in Thread : th[u].pc \in Before => th[u].req # e
  BY <1>7 DEF Keeping
<1>13. InsertOK(th[t])'
  <2>1. InsertOK(th[t])
    BY DEF EntryInv
  <2>. QED BY <1>2, <1>4, <1>12, <2>1 DEF InsertOK
<1>14. ASSUME Awaiting(th[t]) PROVE AwaitOK(t)'
  <2>1. AwaitOK(t) /\ th[t].req \in Entry /\ th[t].req # e
    BY <1>8, <1>14, AwaitingEntry DEF EntryInv, TypeInv
  <2>2. de'[th[t].req] = de[th[t].req]
    BY <1>2, <1>4, <2>1
  <2>. QED BY <2>1, <2>2 DEF AwaitOK, At
<1>15. PICK s : s = th[t]
  OBVIOUS
<1>. QED BY <1>3, <1>8, <1>9, <1>10, <1>11, <1>12, <1>13, <1>14, <1>15, MoveStep

\* The thread that could not insert its entry, or has its answer, returns it
LEMMA EntryReturned ==
    ASSUME TypeInv, EntryInv, NEW t \in Thread, Returned(th[t].req), UNCHANGED <<outq, inq>>,
           \/ th[t].pc = "drop"
           \/ th[t].pc = "answer" /\ ~de[th[t].req].waiting,
           NEW s, th' = [th EXCEPT ![t] = s],
           s.pc \in Elsewhere \/ (s.pc = "purge" /\ s.req = NoEntry),
           s.cur \in {th[t].cur, NoEntry}
    PROVE  EntryInv'
<1>1. PICK e : e = th[t].req
  OBVIOUS
<1>2. /\ th \in [Thread -> ThreadState] /\ de \in [Entry -> EntryContents] /\ e \in Entry
      /\ free' = free \cup {e} /\ de' = [de EXCEPT ![e] = Nothing]
  BY <1>1 DEF TypeInv, Threads, ThreadOK, RestOK, Inserting, Filling, Returned
<1>3. s.pc \in Before => s.req = NoEntry
  BY ElsewhereNone
<1>4. ~Awaiting(s)
  BY ElsewhereNone DEF Awaiting, After
<1>5. Keeping(th[t], e) /\ Once(e)
  BY <1>1, <1>2 DEF Keeping, Before, Awaiting, EntryInv
<1>6. \A u \in Thread \ {t} : ~Keeping(th[u], e)
  BY <1>5 DEF Once
<1>7. \A u \in Thread \ {t} : ~(Awaiting(th[u]) /\ th[u].req = e)
  <2>1. CASE th[t].pc = "drop"
    BY <1>1, <2>1, AwaitedPlace DEF Before
  <2>2. CASE th[t].pc = "answer"
    <3>1. AwaitOK(t) /\ Awaiting(th[t])
      BY <2>2 DEF EntryInv, Awaiting
    <3>. QED BY <1>1, <3>1 DEF AwaitOK
  <2>. QED BY <2>1, <2>2
<1>8. s.cur # e
  <2>1. CASE th[t].pc = "drop"
    BY <1>1, <1>2, <2>1, ConstantsAssumption DEF EntryInv, InsertOK, Before
  <2>2. CASE th[t].pc = "answer"
    <3>1. AwaitOK(t) /\ Awaiting(th[t])
      BY <2>2 DEF EntryInv, Awaiting
    <3>2. th[t].cur # e
      BY <1>1, <2>2, <3>1 DEF AwaitOK
    <3>. QED BY <1>2, <3>2, ConstantsAssumption
  <2>. QED BY <2>1, <2>2
<1>9. MovedBy(t, s, e)
  BY <1>2, <1>3, <1>4 DEF MovedBy
<1>10. th'[t] = s /\ \A u \in Thread \ {t} : th'[u] = th[u]
  BY <1>2, <1>9, MovedByMoves
<1>11. Once(e)'
  <2>1. \A q \in Channel : e \notin Queued(q)'
    BY <1>5 DEF Once, Queued
  <2>2. \A u \in Thread : ~Keeping(th[u], e)'
    BY <1>2, <1>3, <1>4, <1>6, <1>7, <1>8, <1>10, ConstantsAssumption DEF Keeping
  <2>. QED BY <1>2, <2>1, <2>2, ReturnedOnce
<1>12. QueuesOnce'
  BY DEF EntryInv, QueuesOnce
<1>13. InsertOK(s)'
  BY <1>3, ConstantsAssumption DEF InsertOK
<1>14. \A u \in Thread \ {t} : th[u].pc \in Before => th[u].req # e
  BY <1>6 DEF Keeping
<1>. QED BY <1>2, <1>4, <1>7, <1>9, <1>11, <1>12, <1>13, <1>14, MoveStep


LEMMA EntryDropped ==
    ASSUME TypeInv, EntryInv, NEW t \in Thread, Drop(t) \/ Answered(t)
    PROVE  EntryInv'
<1>1. Threads(th) /\ th[t] \in ThreadState
  BY DEF TypeInv, Threads
<1>2. /\ Returned(th[t].req) /\ UNCHANGED <<outq, inq>>
      /\ th[t].pc = "drop" \/ (th[t].pc = "answer" /\ ~de[th[t].req].waiting)
  BY DEF Drop, Answered, At
<1>3. CASE \E r : th' = JobDone(t, r)
  <2>1. PICK s : /\ th' = [th EXCEPT ![t] = s]
                 /\ s.pc \in Elsewhere
                 /\ s.cur \in {th[t].cur, NoEntry}
    BY <1>1, <1>3, JobDoneMoves
  <2>. QED BY <1>2, <2>1, EntryReturned
<1>4. CASE th' = [th EXCEPT ![t].pc = "purge", ![t].req = NoEntry]
  <2>1. PICK s : s = [th[t] EXCEPT !.pc = "purge", !.req = NoEntry]
    OBVIOUS
  <2>2. s.pc = "purge" /\ s.req = NoEntry /\ s.cur = th[t].cur
    BY <1>1, <2>1 DEF ThreadState
  <2>3. th' = [th EXCEPT ![t] = s]
    BY <1>1, <1>4, <2>1 DEF Threads
  <2>. QED BY <1>2, <2>2, <2>3, EntryReturned
<1>5. (\E r : th' = JobDone(t, r)) \/ th' = [th EXCEPT ![t].pc = "purge", ![t].req = NoEntry]
  BY DEF Drop, Answered
<1>. QED BY <1>3, <1>4, <1>5

LEMMA EntryTimesOut ==
    ASSUME TypeInv, EntryInv, NEW t \in Thread, TimesOut(t)
    PROVE  EntryInv'
<1>1. PICK e : e = th[t].req
  OBVIOUS
<1>2. /\ Threads(th) /\ th \in [Thread -> ThreadState] /\ de \in [Entry -> EntryContents]
      /\ e \in Entry /\ th[t].pc = "answer" /\ de[e].waiting
      /\ UNCHANGED <<outq, inq, free>> /\ th' = JobDone(t, "TIMEOUT")
      /\ de' = [de EXCEPT ![e].noreturn = FALSE]
  BY <1>1 DEF TimesOut, At, TypeInv, Threads, ThreadOK, RestOK, Inserting, Filling
<1>3. PICK s : /\ th' = [th EXCEPT ![t] = s]
               /\ s.pc \in Elsewhere
               /\ s.cur \in {th[t].cur, NoEntry}
  BY <1>2, JobDoneMoves
<1>4. s.pc \notin Before /\ ~Awaiting(s)
  BY <1>3, ElsewhereNone
<1>5. Awaiting(th[t]) /\ AwaitOK(t) /\ Once(e)
  BY <1>2 DEF Awaiting, EntryInv
<1>6. /\ \A u \in Thread \ {t} : ~(Awaiting(th[u]) /\ th[u].req = e)
      /\ \A u \in Thread : th[u].pc \in Before => th[u].req # e
      /\ th[t].cur # e
  BY <1>1, <1>2, <1>5, AwaitedPlace DEF AwaitOK
<1>7. MovedBy(t, s, e)
  BY <1>2, <1>3, <1>4 DEF MovedBy
<1>8. th'[t] = s /\ \A u \in Thread \ {t} : th'[u] = th[u]
  BY <1>2, <1>7, MovedByMoves
<1>9. Once(e)'
  <2>1. de'[e].waiting
    BY <1>2 DEF EntryContents
  <2>2. s.cur # e
    BY <1>2, <1>3, <1>6, ConstantsAssumption
  <2>3. \A u \in Thread : Keeping(th[u], e)' => Keeping(th[u], e)
    BY <1>4, <1>8, <2>1, <2>2 DEF Keeping
  <2>4. \A q \in Channel : Queued(q)' = Queued(q)
    BY <1>2 DEF Queued
  <2>. QED BY <1>2, <1>5, <2>3, <2>4 DEF Once
<1>10. QueuesOnce'
  BY <1>2 DEF EntryInv, QueuesOnce
<1>11. InsertOK(s)'
  BY <1>4 DEF InsertOK
<1>. QED BY <1>2, <1>4, <1>6, <1>7, <1>9, <1>10, <1>11, MoveStep

\* The first command of a queue is returned, or left to the thread that waits for it
LEMMA EntryInCleared ==
    ASSUME TypeInv, EntryInv, NEW t \in Thread, ClearIn(t), inq[th[t].ph] # <<>>
    PROVE  EntryInv'
<1>1. PICK p : p = th[t].ph
  OBVIOUS
<1>2. PICK e : e = Head(inq[p])
  OBVIOUS
<1>3. /\ inq \in [Channel -> Seq(Entry)]
      /\ th \in [Thread -> ThreadState] /\ de \in [Entry -> EntryContents]
      /\ p \in Channel /\ th[t].pc = "clearin" /\ inq[p] # <<>>
      /\ inq' = [inq EXCEPT ![p] = Tail(inq[p])] /\ Cleared(e) /\ UNCHANGED <<th, outq>>
      /\ IsInjective(inq[p])
  BY <1>1, <1>2, QueueTypes
     DEF ClearIn, At, TypeInv, Threads, ThreadOK, RestOK, AtRest, EntryInv, QueuesOnce
<1>4. /\ e \in ToSet(inq[p]) /\ e \in Entry /\ IsInjective(Tail(inq[p]))
      /\ ToSet(Tail(inq[p])) = ToSet(inq[p]) \ {e}
  BY <1>2, <1>3, TailSet, ToSetElements
<1>5. inq'[p] = Tail(inq[p]) /\ \A q \in Channel \ {p} : inq'[q] = inq[q]
  BY <1>3
<1>6. Once(e) /\ e \in Queued(p)
  BY <1>4 DEF EntryInv, Queued
<1>7. e \notin free /\ \A u \in Thread : ~Keeping(th[u], e)
  BY <1>3, <1>6 DEF Once
<1>8. \A q \in Channel : e \notin Queued(q)'
  BY <1>3, <1>4, <1>5, <1>6 DEF Once, Queued
<1>9. \/ /\ de[e].noreturn
         /\ free' = free /\ de' = [de EXCEPT ![e].waiting = FALSE]
      \/ /\ ~de[e].noreturn
         /\ free' = free \cup {e} /\ de' = [de EXCEPT ![e] = Nothing]
  BY <1>3 DEF Cleared, Returned
<1>10. MovedBy(t, th[t], e)
  <2>1. th' = [th EXCEPT ![t] = th[t]]
    BY <1>3
  <2>2. \A f \in Entry \ {e} : de'[f] = de[f]
    BY <1>3, <1>4, <1>9
  <2>3. \A q \in Channel : /\ ToSet(inq'[q]) \subseteq ToSet(inq[q])
                           /\ ToSet(inq[q]) \subseteq ToSet(inq'[q]) \cup {e}
    BY <1>4, <1>5
  <2>. QED BY <1>3, <1>9, <2>1, <2>2, <2>3 DEF MovedBy
<1>11. ASSUME NEW u \in Thread, Awaiting(th[u]), th[u].req = e
       PROVE  /\ de[e].noreturn
              /\ \A w \in Thread : Awaiting(th[w]) /\ th[w].req = e => w = u
              /\ AwaitOK(u)'
  <2>1. AwaitOK(u)
    BY DEF EntryInv
  <2>2. de[e].noreturn
    BY <1>11, <2>1 DEF AwaitOK
  <2>3. de'[e] = [de[e] EXCEPT !.waiting = FALSE]
    BY <1>3, <1>4, <1>9, <2>2
  <2>4. ~de'[e].waiting /\ (IsSync(de[e]) => IsSync(de'[e])) /\ de'[e].inbound = de[e].inbound
        /\ de'[e].noreturn
    BY <1>3, <1>4, <2>2, <2>3 DEF EntryContents, IsSync
  <2>. QED BY <1>3, <1>11, <2>1, <2>2, <2>4 DEF AwaitOK
<1>12. Once(e)'
  <2>1. ~de[e].noreturn => \A u \in Thread : ~(Awaiting(th[u]) /\ th[u].req = e)
    BY <1>11
  <2>2. \A u \in Thread : Keeping(th[u], e)' => Awaiting(th[u]) /\ th[u].req = e
    BY <1>3, <1>7 DEF Keeping
  <2>3. ASSUME NEW u \in Thread, Keeping(th[u], e)'
        PROVE  e \notin free' /\ \A w \in Thread : Keeping(th[w], e)' => w = u
    BY <1>7, <1>9, <1>11, <2>1, <2>2, <2>3
  <2>. QED BY <1>8, <2>3 DEF Once
<1>13. QueuesOnce'
  BY <1>3, <1>4, <1>5 DEF EntryInv, QueuesOnce
<1>14. \A u \in Thread : th[u].pc \in Before => th[u].req # e
  BY <1>7 DEF Keeping
<1>15. PICK s : s = th[t]
  OBVIOUS
<1>16. InsertOK(s)' /\ ~Awaiting(s)
  BY <1>3, <1>15 DEF InsertOK, Before, Awaiting, After
<1>17. \A u \in Thread \ {t} : Awaiting(th[u]) /\ th[u].req = e => AwaitOK(u)'
  BY <1>11
<1>. QED BY <1>4, <1>10, <1>12, <1>13, <1>14, <1>15, <1>16, <1>17, MoveStep


LEMMA EntryDequeue ==
    ASSUME TypeInv, EntryInv, NEW d \in Dispatcher, Dequeue(d)
    PROVE  EntryInv'
<1>0. d \in Thread
  BY DispatcherThread
<1>1. PICK p : p = th[d].ph
  OBVIOUS
<1>2. PICK b \in BOOLEAN : b = th[d].out
  BY <1>0 DEF TypeInv, Threads, ThreadState
<1>3. PICK q : q = IF b THEN outq[p] ELSE inq[p]
  OBVIOUS
<1>4. PICK e : e = Head(q)
  OBVIOUS
<1>5. PICK s : s = [th[d] EXCEPT !.pc = "exec", !.cur = e, !.returnde = ~de[e].noreturn]
  OBVIOUS
<1>6. /\ outq \in [Channel -> Seq(Entry)] /\ inq \in [Channel -> Seq(Entry)]
      /\ th \in [Thread -> ThreadState] /\ de \in [Entry -> EntryContents]
      /\ p \in Channel /\ th[d].pc = "serve" /\ q # <<>> /\ q \in Seq(Entry) /\ IsInjective(q)
  BY <1>0, <1>1, <1>2, <1>3, QueueTypes
     DEF Dequeue, At, TypeInv, Threads, ThreadOK, RestOK, AtRest, EntryInv, QueuesOnce
<1>7. /\ outq' = IF b THEN [outq EXCEPT ![p] = Tail(q)] ELSE outq
      /\ inq' = IF b THEN inq ELSE [inq EXCEPT ![p] = Tail(q)]
      /\ th' = [th EXCEPT ![d] = s]
      /\ UNCHANGED <<de, free>>
  BY <1>0, <1>1, <1>2, <1>3, <1>4, <1>5, <1>6 DEF Dequeue
<1>8. s.pc = "exec" /\ s.cur = e /\ s.returnde = ~de[e].noreturn
  BY <1>0, <1>5, <1>6 DEF ThreadState
<1>9. /\ e \in ToSet(q) /\ e \in Entry /\ IsInjective(Tail(q)) /\ ToSet(Tail(q)) = ToSet(q) \ {e}
  BY <1>4, <1>6, TailSet, ToSetElements
<1>10. /\ \A r \in Channel \ {p} : outq'[r] = outq[r] /\ inq'[r] = inq[r]
       /\ outq'[p] = IF b THEN Tail(q) ELSE outq[p]
       /\ inq'[p] = IF b THEN inq[p] ELSE Tail(q)
  BY <1>6, <1>7
<1>11. Once(e) /\ e \in Queued(p) /\ (b => e \in ToSet(outq[p]))
  BY <1>3, <1>9 DEF EntryInv, Queued
<1>12. e \notin free /\ \A u \in Thread : ~Keeping(th[u], e)
  BY <1>6, <1>11 DEF Once
<1>13. \A r \in Channel : e \notin Queued(r)'
  <2>1. e \notin ToSet(outq'[p]) \cup ToSet(inq'[p])
    BY <1>3, <1>6, <1>9, <1>10, <1>11 DEF Once
  <2>2. \A r \in Channel \ {p} : e \notin ToSet(outq'[r]) \cup ToSet(inq'[r])
    BY <1>6, <1>10, <1>11 DEF Once, Queued
  <2>. QED BY <2>1, <2>2 DEF Queued
<1>14. MovedBy(d, s, e)
  <2>1. \A r \in Channel : /\ ToSet(outq'[r]) \subseteq ToSet(outq[r])
                           /\ ToSet(inq'[r]) \subseteq ToSet(inq[r])
                           /\ ToSet(inq[r]) \subseteq ToSet(inq'[r]) \cup {e}
    BY <1>3, <1>9, <1>10
  <2>. QED BY <1>6, <1>7, <1>8, <2>1 DEF MovedBy, Before, Awaiting, After
<1>15. th'[d] = s /\ \A u \in Thread \ {d} : th'[u] = th[u]
  BY <1>0, <1>9, <1>14, MovedByMoves
<1>16. Once(e)'
  <2>1. \A u \in Thread \ {d} : ~Keeping(th[u], e)'
    BY <1>7, <1>12, <1>15 DEF Keeping
  <2>. QED BY <1>7, <1>12, <1>13, <2>1 DEF Once
<1>17. QueuesOnce'
  <2>1. IsInjective(outq'[p]) /\ IsInjective(inq'[p])
    BY <1>6, <1>9, <1>10 DEF EntryInv, QueuesOnce
  <2>. QED BY <1>10, <2>1 DEF EntryInv, QueuesOnce
<1>18. InsertOK(s)' /\ ~Awaiting(s)
  BY <1>8 DEF InsertOK, Before, Awaiting, After
<1>19. \A u \in Thread : th[u].pc \in Before => th[u].req # e
  BY <1>12 DEF Keeping
<1>20. ASSUME NEW u \in Thread \ {d}, Awaiting(th[u]), th[u].req = e PROVE AwaitOK(u)'
  <2>1. AwaitOK(u)
    BY DEF EntryInv
  <2>2. \A w \in Thread : Awaiting(th'[w]) /\ th'[w].req = e => w = u
    BY <1>15, <1>18, <1>20, <2>1 DEF AwaitOK
  <2>3. \A w \in Thread : th'[w].cur = e => ~th'[w].returnde /\ th'[w].pc \in {"exec", "done"}
    BY <1>8, <1>15, <1>20, <2>1 DEF AwaitOK
  <2>4. th'[d].pc = "exec" /\ th'[d].cur = e
    BY <1>8, <1>15
  <2>. QED BY <1>7, <1>15, <1>20, <2>1, <2>2, <2>3, <2>4 DEF AwaitOK, At
<1>. QED BY <1>0, <1>9, <1>14, <1>16, <1>17, <1>18, <1>19, <1>20, MoveStep

\* The dispatcher returns the entry, or leaves it to the thread that waits for it
LEMMA EntryEntryDone ==
    ASSUME TypeInv, EntryInv, NEW d \in Dispatcher, EntryDone(d)
    PROVE  EntryInv'
<1>0. d \in Thread
  BY DispatcherThread
<1>1. PICK e : e = th[d].cur
  OBVIOUS
<1>2. PICK s : s = [Idle("serve") EXCEPT !.ph = th[d].ph, !.out = th[d].out]
  OBVIOUS
<1>3. s.pc = "serve" /\ s.cur = NoEntry
  BY <1>2 DEF Idle
<1>4. /\ th \in [Thread -> ThreadState] /\ de \in [Entry -> EntryContents]
      /\ th[d].pc = "done" /\ e \in Entry /\ UNCHANGED <<outq, inq>>
      /\ th' = [th EXCEPT ![d] = s]
  BY <1>0, <1>1, <1>2 DEF EntryDone, At, TypeInv, Threads, ThreadOK, RestOK, AtRest
<1>5. \/ th[d].returnde /\ free' = free \cup {e} /\ de' = [de EXCEPT ![e] = Nothing]
      \/ ~th[d].returnde /\ UNCHANGED <<de, free>>
  BY <1>1 DEF EntryDone, MayReturn, Returned
<1>6. s.pc \notin Before /\ ~Awaiting(s)
  BY <1>3 DEF Before, Awaiting, After
<1>7. MovedBy(d, s, e)
  BY <1>3, <1>4, <1>5, <1>6 DEF MovedBy
<1>8. th'[d] = s /\ \A u \in Thread \ {d} : th'[u] = th[u]
  BY <1>0, <1>4, <1>7, MovedByMoves
<1>9. Once(e) /\ \A u \in Thread : AwaitOK(u)
  BY <1>4 DEF EntryInv
<1>10. CASE th[d].returnde
  <2>1. Keeping(th[d], e)
    BY <1>1, <1>10 DEF Keeping
  <2>2. \A u \in Thread \ {d} : ~Keeping(th[u], e)
    BY <1>0, <1>9, <2>1 DEF Once
  <2>3. \A u \in Thread : ~(Awaiting(th[u]) /\ th[u].req = e)
    BY <1>0, <1>1, <1>9, <1>10 DEF AwaitOK
  <2>4. Once(e)'
    <3>1. \A q \in Channel : e \notin Queued(q)'
      BY <1>0, <1>4, <1>9, <2>1 DEF Once, Queued
    <3>2. \A u \in Thread : ~Keeping(th[u], e)'
      BY <1>3, <1>4, <1>6, <1>8, <2>2, <2>3, ConstantsAssumption DEF Keeping
    <3>. QED BY <1>4, <1>5, <1>10, <3>1, <3>2, ReturnedOnce
  <2>5. \A u \in Thread \ {d} : th[u].pc \in Before => th[u].req # e
    BY <2>2 DEF Keeping
  <2>6. QueuesOnce' /\ InsertOK(s)'
    BY <1>4, <1>6 DEF EntryInv, QueuesOnce, InsertOK
  <2>. QED BY <1>0, <1>4, <1>6, <1>7, <2>3, <2>4, <2>5, <2>6, MoveStep
<1>11. CASE ~th[d].returnde
  <2>1. \A u \in Thread : Keeping(th[u], e)' => Keeping(th[u], e)
    BY <1>3, <1>4, <1>5, <1>6, <1>8, <1>11, ConstantsAssumption DEF Keeping
  <2>2. Once(e)'
    BY <1>4, <1>5, <1>9, <1>11, <2>1 DEF Once, Queued
  <2>3. ASSUME NEW u \in Thread \ {d}, Awaiting(th[u]), th[u].req = e PROVE AwaitOK(u)'
    <3>1. AwaitOK(u)
      BY <1>9
    <3>2. \A w \in Thread : Awaiting(th'[w]) /\ th'[w].req = e => w = u
      BY <1>6, <1>8, <2>3, <3>1 DEF AwaitOK
    <3>3. \A w \in Thread : th'[w].cur = e => ~th'[w].returnde /\ th'[w].pc \in {"exec", "done"}
      BY <1>3, <1>4, <1>8, <2>3, <3>1, ConstantsAssumption DEF AwaitOK
    <3>4. \A c \in Dispatcher : At(c, "exec") => th'[c] = th[c]
      BY <1>4, <1>8, DispatcherThread DEF At
    <3>. QED BY <1>4, <1>5, <1>8, <1>11, <2>3, <3>1, <3>2, <3>3, <3>4, DispatcherThread DEF AwaitOK, At
  <2>4. QueuesOnce' /\ InsertOK(s)' /\ de'[e] = de[e]
    BY <1>4, <1>5, <1>6, <1>11 DEF EntryInv, QueuesOnce, InsertOK
  <2>. QED BY <1>0, <1>4, <1>6, <1>7, <2>2, <2>3, <2>4, MoveStep
<1>. QED BY <1>10, <1>11


\* The request is answered: the entry is with the thread that waits, if one does
LEMMA EntryExecRequest ==
    ASSUME TypeInv, EntryInv, NEW d \in Dispatcher, ExecRequest(d)
    PROVE  EntryInv'
<1>0. d \in Thread
  BY DispatcherThread
<1>1. PICK e : e = th[d].cur
  OBVIOUS
<1>2. PICK s : s = [th[d] EXCEPT !.pc = "done"]
  OBVIOUS
<1>3. /\ th \in [Thread -> ThreadState] /\ de \in [Entry -> EntryContents]
      /\ th[d].pc = "exec" /\ e \in Entry /\ UNCHANGED <<outq, inq, free>>
      /\ th' = [th EXCEPT ![d] = s] /\ de' = [de EXCEPT ![e].waiting = FALSE]
  BY <1>0, <1>1, <1>2
     DEF ExecRequest, Executing, Goto, At, TypeInv, Threads, ThreadOK, RestOK, AtRest
<1>4. s.pc = "done" /\ s.cur = e /\ s.returnde = th[d].returnde
  BY <1>0, <1>1, <1>2, <1>3 DEF ThreadState
<1>5. s.pc \notin Before /\ ~Awaiting(s)
  BY <1>4 DEF Before, Awaiting, After
<1>6. MovedBy(d, s, e)
  BY <1>1, <1>3, <1>4, <1>5 DEF MovedBy
<1>7. th'[d] = s /\ \A u \in Thread \ {d} : th'[u] = th[u]
  BY <1>0, <1>3, <1>6, MovedByMoves
<1>8. Once(e) /\ \A u \in Thread : AwaitOK(u)
  BY <1>3 DEF EntryInv
<1>9. Keeping(th[d], e)
  BY <1>1, <1>3 DEF Keeping
<1>10. e \notin free /\ \A u \in Thread \ {d} : ~Keeping(th[u], e)
  BY <1>0, <1>8, <1>9 DEF Once
<1>11. \A q \in Channel : e \notin Queued(q)'
  BY <1>0, <1>3, <1>8, <1>9 DEF Once, Queued
<1>12. ASSUME NEW u \in Thread, Awaiting(th[u]), th[u].req = e
       PROVE  /\ ~th[d].returnde
              /\ \A w \in Thread : Awaiting(th[w]) /\ th[w].req = e => w = u
  BY <1>0, <1>1, <1>8, <1>12 DEF AwaitOK
<1>13. Once(e)'
  <2>1. \A u \in Thread \ {d} : Keeping(th[u], e)' => Awaiting(th[u]) /\ th[u].req = e
    BY <1>7, <1>10 DEF Keeping
  <2>2. Keeping(th[d], e)' => th[d].returnde
    BY <1>0, <1>4, <1>5, <1>7 DEF Keeping
  <2>. QED BY <1>0, <1>3, <1>10, <1>11, <1>12, <2>1, <2>2 DEF Once
<1>14. QueuesOnce' /\ InsertOK(s)'
  BY <1>3, <1>5 DEF EntryInv, QueuesOnce, InsertOK
<1>15. \A u \in Thread \ {d} : th[u].pc \in Before => th[u].req # e
  BY <1>10 DEF Keeping
<1>16. ASSUME NEW u \in Thread \ {d}, Awaiting(th[u]), th[u].req = e PROVE AwaitOK(u)'
  <2>1. AwaitOK(u)
    BY <1>8
  <2>2. de'[e] = [de[e] EXCEPT !.waiting = FALSE]
    BY <1>3
  <2>3. /\ ~de'[e].waiting /\ de'[e].inbound = de[e].inbound /\ de'[e].noreturn = de[e].noreturn
        /\ IsSync(de[e]) => IsSync(de'[e])
    BY <1>3, <2>2 DEF EntryContents, IsSync
  <2>4. \A w \in Thread : Awaiting(th'[w]) /\ th'[w].req = e => w = u
    BY <1>5, <1>7, <1>16, <2>1 DEF AwaitOK
  <2>5. \A w \in Thread : th'[w].cur = e => ~th'[w].returnde /\ th'[w].pc \in {"exec", "done"}
    BY <1>1, <1>4, <1>7, <1>16, <2>1 DEF AwaitOK
  <2>. QED BY <1>7, <1>16, <2>1, <2>3, <2>4, <2>5 DEF AwaitOK
<1>. QED BY <1>0, <1>3, <1>5, <1>6, <1>13, <1>14, <1>15, <1>16, MoveStep

-----------------------------------------------------------------------------
(* The invariant *)

LEMMA InitEntry == Init => EntryInv
<1> SUFFICES ASSUME Init PROVE EntryInv
  OBVIOUS
<1>1. \A t \in Thread : /\ th[t].pc \in {"none", "idle"} /\ th[t].cur = NoEntry
  BY DEF Init, Idle
<1>2. \A t \in Thread : ~Awaiting(th[t]) /\ th[t].pc \notin Before
  BY <1>1 DEF Awaiting, Before, After
<1>3. \A t \in Thread, e \in Entry : ~Keeping(th[t], e)
  BY <1>1, <1>2, ConstantsAssumption DEF Keeping
<1>4. \A p \in Channel : outq[p] = <<>> /\ inq[p] = <<>>
  BY DEF Init
<1>5. \A p \in Channel : Queued(p) = {} /\ IsInjective(outq[p]) /\ IsInjective(inq[p])
  BY <1>4 DEF Queued, ToSet, IsInjective
<1>. QED BY <1>2, <1>3, <1>5 DEF EntryInv, Once, QueuesOnce, InsertOK, AwaitOK

LEMMA InsertionEntry ==
    ASSUME TypeInv, EntryInv, NEW t \in Thread, Insertion(t) \/ TimesOut(t)
    PROVE  EntryInv'
<1>1. th[t].pc \in {"purge", "clearout"} => th[t].ph \in Channel
  BY DEF TypeInv, Threads, ThreadOK, AtRest
<1>2. CASE Purge(t) \/ ClearOut(t)
  <2>1. CASE outq[th[t].ph] = <<>>
    BY <1>2, <2>1, QuietInsertion
  <2>2. CASE outq[th[t].ph] # <<>>
    <3>1. PICK p : p = th[t].ph
      OBVIOUS
    <3>2. p \in Channel /\ outq[p] # <<>> /\ TakeFirst(p) /\ Returned(Head(outq[p]))
          /\ UNCHANGED <<th, inq>>
      BY <1>1, <1>2, <2>2, <3>1 DEF Purge, ClearOut, At
    <3>. QED BY <3>1, <3>2, EntryOutCleared
  <2>. QED BY <2>1, <2>2
<1>3. CASE ClearIn(t)
  BY <1>3, QuietInsertion, EntryInCleared
<1>4. CASE GetEntry(t) \/ InsertAppend(t) \/ Drop(t) \/ Answered(t) \/ TimesOut(t)
  BY <1>4, EntryGetEntry, EntryInsertAppend, EntryDropped, EntryTimesOut
<1>5. CASE \/ GetEntryFails(t) \/ InsertRefused(t) \/ InsertNoSpace(t)
           \/ Mark(t) \/ PutOnOutList(t) \/ PutOnInList(t) \/ EntryDispatched(t)
  BY <1>5, QuietInsertion
<1>. QED BY <1>2, <1>3, <1>4, <1>5 DEF Insertion

LEMMA NextEntry == TypeInv /\ EntryInv /\ [Next]_vars => EntryInv'
<1> SUFFICES ASSUME TypeInv, EntryInv, [Next]_vars PROVE EntryInv'
  OBVIOUS
<1>1. CASE \E t \in Thread : Insertion(t) \/ TimesOut(t)
  BY <1>1, InsertionEntry
<1>2. CASE \E d \in Dispatcher : DispatcherLoop(d)
  BY <1>2, QuietLoop, EntryDequeue, EntryEntryDone
<1>3. CASE \E d \in Dispatcher : Execution(d)
  BY <1>3, QuietExecution, EntryExecRequest
<1>4. CASE Attaching \/ (\E t \in User \cup {Central} : Closing(t)) \/ Environment
  BY <1>4, QuietAttaching, QuietUsers
<1>5. CASE UNCHANGED vars
  BY <1>5, QuietStep DEF vars, queues, QuietTo, Quiet
<1>. QED BY <1>1, <1>2, <1>3, <1>4, <1>5 DEF Next


\* The inductive invariant: every entry is in one place, what a thread inserts
\* is its own, and nobody but the thread of a request returns the request's entry
THEOREM EntryInvariant == Spec => [](TypeInv /\ EntryInv)
<1>1. TypeInv /\ EntryInv /\ [Next]_vars => TypeInv' /\ EntryInv'
  BY NextType, NextEntry
<1>. QED BY <1>1, InitType, InitEntry, PTL DEF Spec

LEMMA HoldsKeeping ==
    ASSUME NEW t \in Thread, NEW e \in Holds(t)
    PROVE  e \in Entry /\ Keeping(th[t], e)
BY DEF Holds, Keeping, Before, Awaiting, At

LEMMA OnceMeansOnePlace == TypeInv /\ EntryInv => EntryInOnePlace
<1> SUFFICES ASSUME TypeInv, EntryInv PROVE EntryInOnePlace
  OBVIOUS
<1>1. \A p \in Channel : Queued(p) \subseteq Entry
  BY QueueTypes, ToSetElements DEF Queued
<1>2. ASSUME NEW p \in Channel
      PROVE  /\ IsInjective(outq[p]) /\ IsInjective(inq[p])
             /\ ToSet(outq[p]) \cap ToSet(inq[p]) = {}
             /\ Queued(p) \cap free = {}
             /\ \A q \in Channel \ {p} : Queued(p) \cap Queued(q) = {}
             /\ \A t \in Thread : Queued(p) \cap Holds(t) = {}
  <2>1. \A e \in Queued(p) : Once(e)
    BY <1>1 DEF EntryInv
  <2>2. ToSet(outq[p]) \cap ToSet(inq[p]) \subseteq Queued(p)
    BY DEF Queued
  <2>. QED BY <2>1, <2>2, HoldsKeeping DEF Once, EntryInv, QueuesOnce
<1>3. ASSUME NEW t \in Thread
      PROVE  /\ Holds(t) \cap free = {}
             /\ \A u \in Thread \ {t} : Holds(t) \cap Holds(u) = {}
  BY HoldsKeeping DEF Once, EntryInv
<1>. QED BY <1>2, <1>3 DEF EntryInOnePlace

\* For every number of entries, channels and threads, an entry is in the pool, or
\* in one queue once, or with one thread: it is never handled or returned twice,
\* and dispatch.c never uses an entry that it has returned.
THEOREM OnePlace == Spec => []EntryInOnePlace
BY EntryInvariant, OnceMeansOnePlace, PTL

LEMMA AwaitMeansNotLost == TypeInv /\ EntryInv => RequestNotLost
<1> SUFFICES ASSUME TypeInv, EntryInv, NEW t \in Thread, At(t, "answer"), NEW e, e = th[t].req
             PROVE  /\ e \notin free
                    /\ de[e].noreturn
                    /\ \A u \in Thread \ {t} : ~(At(u, "answer") /\ th[u].req = e)
                    /\ de[e].waiting => \/ e \in ToSet(inq[th[t].ph])
                                        \/ \E d \in Dispatcher : th[d].cur = e
  BY DEF RequestNotLost
<1>1. Awaiting(th[t]) /\ \A u \in Thread : At(u, "answer") => Awaiting(th[u])
  BY DEF At, Awaiting
<1>2. AwaitOK(t) /\ e \notin free
  BY <1>1, AwaitedPlace DEF EntryInv
<1>. QED BY <1>1, <1>2 DEF AwaitOK

\* For every number of entries, channels and threads, whoever waits for the answer
\* to a request waits for an entry of its own, and as long as it is not answered it
\* is in the channel's queue or with a dispatcher: neither a detach, a close nor a
\* failed attach, which all clear the queue, loses it.
THEOREM RequestKept == Spec => []RequestNotLost
BY EntryInvariant, AwaitMeansNotLost, PTL

-----------------------------------------------------------------------------
(***************************************************************************)
(* The callback of an asynchronous request is called at most once.         *)
(*                                                                         *)
(* A request that was accepted is, until its callback is called, with      *)
(* exactly one entry: with that of the request itself, as long as the      *)
(* request is queued or executed and the event for its callback is not     *)
(* queued; then with that of this event.  The invariant is that a channel  *)
(* owes at least as many callbacks as there are such entries, so every     *)
(* call of a callback is owed.                                             *)
(***************************************************************************)

IsAsync(c) == c.type = "USERREQ" /\ c.cb

\* Where a dispatcher that queues a callback has not queued it yet
NotQueued == {"get"} \cup Before

\* A dispatcher at record r is to call the callback of entry e, or to queue it
Calls(r, e) ==
    /\ r.cur = e
    /\ \/ r.pc \in {"exec", "callback"} /\ de[e].type = "USERREQCALLBACK"
       \/ r.pc = "exec" /\ IsAsync(de[e])
       \/ r.pc \in NotQueued /\ r.cont = "callbackqueued"
       \/ r.pc = "callbackqueued" /\ r.rc # "OK"

\* The entries that stand for a callback of channel p
Pending(p) ==
    {e \in Entry : \/ e \in ToSet(inq[p]) /\ de[e].cb
                   \/ e \in ToSet(outq[p]) /\ de[e].type = "USERREQCALLBACK"
                   \/ \E d \in Dispatcher : th[d].ph = p /\ Calls(th[d], e)}

\* Commands are in the inbound queue, events in the outbound one
ContentOK(p) ==
    /\ \A e \in ToSet(inq[p]) : de[e].type \in InTypes
    /\ \A e \in ToSet(outq[p]) : de[e].type \in OutTypes

\* Thread t at record r carries a callback only for a request, and queues one only
\* when it executes the request
JobsOK(t, r) ==
    /\ \A i \in 1..Len(r.todo) :
        /\ r.todo[i].cb => r.todo[i].type \in {"USERREQ", "USERREQCALLBACK"}
        /\ r.todo[i].type = "USERREQCALLBACK" =>
              r.todo = <<CallbackJob>> /\ r.cont = "callbackqueued"
    /\ r.cont = "callbackqueued" =>
        /\ t \in Dispatcher
        /\ \/ r.pc \in Inserting \ {"answer"} /\ r.todo = <<CallbackJob>>
           \/ r.pc \in {"callbackqueued", "done"}

CallbackInv ==
    /\ \A p \in Channel : owed[p] >= Cardinality(Pending(p)) /\ ContentOK(p)
    /\ \A t \in Thread : JobsOK(t, th[t])

-----------------------------------------------------------------------------
(* Steps after which no more callbacks are pending than before *)

\* A dispatcher at record s is not about to call or to queue a callback
NoCall(s) ==
    \/ s.cur = NoEntry
    \/ s.pc \notin {"exec", "callback", "callbackqueued"} \cup NotQueued
    \/ s.pc \in NotQueued /\ s.cont # "callbackqueued"
    \/ s.pc = "callbackqueued" /\ s.rc = "OK"

\* A dispatcher that goes from record r to record s has no callback to call that
\* it did not have before
Safe(r, s) ==
    \/ s = r
    \/ NoCall(s)
    \/ /\ s.cur = r.cur /\ s.ph = r.ph
       /\ \/ r.pc = "exec" /\ s.pc = "callback"
          \/ r.pc = "exec" /\ IsAsync(de[r.cur]) /\ s.pc = "get"
          \/ r.pc \in NotQueued /\ r.cont = "callbackqueued"
                /\ s.pc \in NotQueued \cup {"callbackqueued"}

Flow(t, s) == JobsOK(t, s) /\ (t \in Dispatcher => Safe(th[t], s))

FlowTo(h) == \A t \in Thread : Flow(t, h[t])

\* Entry e stays what it is, or is cleaned
Stays(e) == /\ de'[e].type \in {de[e].type, "NOTHING"}
            /\ de'[e].cb => de[e].cb

LEMMA CallsSafe ==
    ASSUME NEW r, NEW s, Safe(r, s), NEW e \in Entry, Calls(s, e)',
           e \notin free => Stays(e),
           r.cur = e /\ r.pc # "done" => e \notin free
    PROVE  Calls(r, e) /\ s.ph = r.ph
<1>1. e # NoEntry
  BY ConstantsAssumption
<1>2. ~NoCall(s)
  BY <1>1 DEF Calls, NoCall, NotQueued, Before
<1>3. CASE s = r
  <2>1. e \notin free
    BY <1>3 DEF Calls, NotQueued, Before
  <2>. QED BY <1>3, <2>1 DEF Calls, Stays, IsAsync
<1>4. CASE s # r
  <2>1. s.cur = e /\ r.cur = e /\ s.ph = r.ph /\ r.pc \in {"exec"} \cup NotQueued
    BY <1>2, <1>4 DEF Calls, Safe
  <2>2. e \notin free
    BY <2>1 DEF NotQueued, Before
  <2>3. CASE r.pc = "exec" /\ s.pc = "callback"
    BY <2>1, <2>2, <2>3 DEF Calls, Stays, NotQueued, Before
  <2>4. CASE r.pc = "exec" /\ IsAsync(de[r.cur])
    BY <2>1, <2>4 DEF Calls
  <2>5. CASE r.pc \in NotQueued /\ r.cont = "callbackqueued"
    BY <2>1, <2>5 DEF Calls
  <2>. QED BY <1>2, <1>4, <2>1, <2>3, <2>4, <2>5 DEF Safe
<1>. QED BY <1>3, <1>4

LEMMA QueuedNotFree ==
    ASSUME TypeInv, EntryInv, NEW p \in Channel, NEW e \in Queued(p)
    PROVE  e \in Entry /\ e \notin free
<1>1. e \in Entry
  BY QueueTypes, ToSetElements DEF Queued
<1>. QED BY <1>1 DEF EntryInv, Once

LEMMA HeldNotFree ==
    ASSUME TypeInv, EntryInv, NEW t \in Thread, th[t].cur \in Entry, th[t].pc # "done"
    PROVE  th[t].cur \notin free
BY DEF EntryInv, Once, Keeping

LEMMA PendingShrinks ==
    ASSUME TypeInv, EntryInv, NEW p \in Channel,
           ToSet(inq'[p]) \subseteq ToSet(inq[p]), ToSet(outq'[p]) \subseteq ToSet(outq[p]),
           \A e \in Entry \ free : Stays(e),
           \A d \in Dispatcher : Safe(th[d], th'[d])
    PROVE  Pending(p)' \subseteq Pending(p)
<1> SUFFICES ASSUME NEW e \in Entry, e \in Pending(p)' PROVE e \in Pending(p)
  BY DEF Pending
<1>1. CASE e \in ToSet(inq'[p]) /\ de'[e].cb
  <2>1. e \in ToSet(inq[p]) /\ e \in Queued(p)
    BY <1>1 DEF Queued
  <2>2. Stays(e)
    BY <2>1, QueuedNotFree
  <2>. QED BY <1>1, <2>1, <2>2 DEF Pending, Stays
<1>2. CASE e \in ToSet(outq'[p]) /\ de'[e].type = "USERREQCALLBACK"
  <2>1. e \in ToSet(outq[p]) /\ e \in Queued(p)
    BY <1>2 DEF Queued
  <2>2. Stays(e)
    BY <2>1, QueuedNotFree
  <2>. QED BY <1>2, <2>1, <2>2 DEF Pending, Stays
<1>3. ASSUME NEW d \in Dispatcher, th'[d].ph = p, Calls(th[d], e)'
      PROVE  e \in Pending(p)
  <2>1. th[d].cur = e /\ th[d].pc # "done" => e \notin free
    BY DispatcherThread, HeldNotFree
  <2>2. PICK r : r = th[d]
    OBVIOUS
  <2>3. PICK s : s = th'[d]
    OBVIOUS
  <2>4. Safe(r, s) /\ Calls(s, e)'
    BY <1>3, <2>2, <2>3 DEF Calls
  <2>5. Calls(r, e) /\ s.ph = r.ph
    BY <2>1, <2>2, <2>4, CallsSafe
  <2>. QED BY <1>3, <2>2, <2>3, <2>5 DEF Pending
<1>. QED BY <1>1, <1>2, <1>3 DEF Pending

LEMMA PendingFinite ==
    ASSUME NEW p \in Channel
    PROVE  /\ Pending(p) \subseteq Entry
           /\ IsFiniteSet(Pending(p)) /\ Cardinality(Pending(p)) \in Nat
<1>1. Pending(p) \subseteq Entry /\ IsFiniteSet(Entry)
  BY ConstantsAssumption DEF Pending
<1>. QED BY <1>1, FS_Subset, FS_CardinalityType


LEMMA FlowStep ==
    ASSUME TypeInv, EntryInv, CallbackInv, FlowTo(th'), owed' = owed,
           \A p \in Channel : /\ ToSet(inq'[p]) \subseteq ToSet(inq[p])
                              /\ ToSet(outq'[p]) \subseteq ToSet(outq[p])
                              /\ \A e \in ToSet(inq'[p]) \cup ToSet(outq'[p]) :
                                    de'[e].type = de[e].type,
           \A e \in Entry \ free : Stays(e)
    PROVE  CallbackInv'
<1>1. \A d \in Dispatcher : Safe(th[d], th'[d])
  BY DispatcherThread DEF FlowTo, Flow
<1>2. ASSUME NEW p \in Channel PROVE owed'[p] >= Cardinality(Pending(p)')
  <2>1. PICK A : A = Pending(p)
    OBVIOUS
  <2>2. PICK B : B = Pending(p)'
    OBVIOUS
  <2>3. B \subseteq A
    BY <1>1, <2>1, <2>2, PendingShrinks
  <2>4. IsFiniteSet(A) /\ Cardinality(A) \in Nat
    BY <2>1, PendingFinite
  <2>5. IsFiniteSet(B) /\ Cardinality(B) \in Nat /\ Cardinality(B) <= Cardinality(A)
    BY <2>3, <2>4, FS_Subset, FS_CardinalityType
  <2>6. owed[p] \in Int /\ owed[p] >= Cardinality(A)
    BY <2>1 DEF TypeInv, RestOK, CallbackInv
  <2>. QED BY <2>2, <2>4, <2>5, <2>6
<1>3. ASSUME NEW p \in Channel PROVE ContentOK(p)'
  BY DEF CallbackInv, ContentOK
<1>4. ASSUME NEW t \in Thread PROVE JobsOK(t, th[t])'
  <2>1. JobsOK(t, th'[t])
    BY DEF FlowTo, Flow
  <2>. QED BY <2>1 DEF JobsOK
<1>. QED BY <1>2, <1>3, <1>4 DEF CallbackInv

\* Most steps touch no queue and no entry
LEMMA FlowQuietStep ==
    ASSUME TypeInv, EntryInv, CallbackInv, FlowTo(th'), UNCHANGED <<outq, inq, de, owed>>
    PROVE  CallbackInv'
BY FlowStep DEF Stays

-----------------------------------------------------------------------------
(* Threads in such steps *)

LEMMA FlowSame ==
    ASSUME CallbackInv, NEW t \in Thread
    PROVE  Flow(t, th[t])
BY DEF CallbackInv, Flow, Safe

LEMMA FlowChange ==
    ASSUME Threads(th), CallbackInv, NEW t \in Thread, NEW s, Flow(t, s)
    PROVE  FlowTo([th EXCEPT ![t] = s])
BY FlowSame DEF FlowTo, Threads

\* The thread keeps its jobs, and does not go on with a callback it was to queue
LEMMA ElsewhereFlow ==
    ASSUME CallbackInv, NEW t \in Thread, NEW s,
           th[t].pc \notin Inserting \cup {"callbackqueued", "done"},
           s.todo = th[t].todo, s.cont = th[t].cont,
           s.pc \notin {"exec", "callback", "callbackqueued"} \cup NotQueued
    PROVE  Flow(t, s)
<1>1. JobsOK(t, th[t])
  BY DEF CallbackInv
<1>. QED BY <1>1 DEF Flow, JobsOK, Safe, NoCall

\* The same, with a new continuation
LEMMA ContFlow ==
    ASSUME CallbackInv, NEW t \in Thread, NEW s,
           th[t].pc \notin Inserting \cup {"callbackqueued", "done"},
           s.todo = th[t].todo, s.cont # "callbackqueued",
           s.pc \notin {"exec", "callback", "callbackqueued"} \cup NotQueued
    PROVE  Flow(t, s)
<1>1. JobsOK(t, th[t])
  BY DEF CallbackInv
<1>2. th[t].cont # "callbackqueued"
  BY <1>1 DEF JobsOK
<1>. QED BY <1>1, <1>2 DEF Flow, JobsOK, Safe, NoCall

\* A step within the insertion of an entry
LEMMA InsertingFlow ==
    ASSUME CallbackInv, NEW t \in Thread, NEW s,
           th[t].pc \in Inserting \ {"answer"}, s.pc \in Inserting \ {"answer"},
           s.pc \in NotQueued => th[t].pc \in NotQueued,
           s.todo = th[t].todo, s.cont = th[t].cont, s.cur = th[t].cur, s.ph = th[t].ph
    PROVE  Flow(t, s)
<1>1. JobsOK(t, th[t])
  BY DEF CallbackInv
<1>2. JobsOK(t, s)
  BY <1>1 DEF JobsOK, Inserting
<1>3. s.pc \notin {"exec", "callback", "callbackqueued"}
  BY DEF Inserting
<1>4. Safe(th[t], s)
  BY <1>3 DEF Safe, NoCall
<1>. QED BY <1>2, <1>4 DEF Flow

LEMMA IdleFlow ==
    ASSUME Threads(th), CallbackInv, NEW t \in Thread, NEW where, where # "callbackqueued"
    PROVE  FlowTo([th EXCEPT ![t] = Idle(where)])
<1>1. /\ Idle(where).todo = <<>> /\ Idle(where).cont = where /\ Idle(where).cur = NoEntry
  BY DEF Idle
<1>2. Len(<<>>) = 0
  OBVIOUS
<1>3. Flow(t, Idle(where))
  BY <1>1, <1>2 DEF Flow, JobsOK, Safe, NoCall
<1>. QED BY <1>3, FlowChange

LEMMA GotoFlow ==
    ASSUME Threads(th), CallbackInv, NEW t \in Thread, NEW where, Goto(t, where),
           \/ /\ th[t].pc \notin Inserting \cup {"callbackqueued", "done"}
              /\ where \notin {"exec", "callback", "callbackqueued"} \cup NotQueued
           \/ th[t].pc = "exec" /\ where = "callback"
           \/ th[t].pc \in After /\ where \in After
           \/ where = "done"
    PROVE  FlowTo(th')
<1>1. PICK s : s = [th[t] EXCEPT !.pc = where]
  OBVIOUS
<1>2. /\ s.pc = where /\ s.todo = th[t].todo /\ s.cont = th[t].cont /\ s.cur = th[t].cur
      /\ s.ph = th[t].ph
  BY <1>1 DEF Threads, ThreadState
<1>3. th' = [th EXCEPT ![t] = s]
  BY <1>1 DEF Goto, Threads
<1>4. JobsOK(t, th[t])
  BY DEF CallbackInv
<1>5. Flow(t, s)
  <2>1. CASE /\ th[t].pc \notin Inserting \cup {"callbackqueued", "done"}
             /\ where \notin {"exec", "callback", "callbackqueued"} \cup NotQueued
    BY <1>2, <2>1, ElsewhereFlow
  <2>2. CASE th[t].pc = "exec" /\ where = "callback"
    BY <1>2, <1>4, <2>2 DEF Flow, JobsOK, Safe, Inserting
  <2>3. CASE th[t].pc \in After /\ where \in After
    <3>1. /\ th[t].pc \in Inserting \ {"answer"} /\ s.pc \in Inserting \ {"answer"}
          /\ s.pc \notin NotQueued
      BY <1>2, <2>3 DEF After, Inserting, NotQueued, Before
    <3>. QED BY <1>2, <3>1, InsertingFlow
  <2>4. CASE where = "done"
    BY <1>2, <1>4, <2>4 DEF Flow, JobsOK, Safe, NoCall, NotQueued, Before
  <2>. QED BY <2>1, <2>2, <2>3, <2>4
<1>. QED BY <1>3, <1>5, FlowChange

LEMMA BackFlow ==
    ASSUME Threads(th), CallbackInv, NEW t \in Thread,
           th[t].pc \notin Inserting \cup {"callbackqueued", "done"}, Back(t)
    PROVE  FlowTo(th')
<1>1. CASE th[t].cont = "idle"
  BY <1>1, IdleFlow DEF Back
<1>2. CASE th[t].cont # "idle"
  <2>1. th[t].cont # "callbackqueued" /\ th[t].cont \in Cont
    BY DEF CallbackInv, JobsOK, Threads, ThreadState
  <2>2. th[t].cont \notin {"exec", "callback", "callbackqueued"} \cup NotQueued
    BY <2>1 DEF Cont, NotQueued, Before
  <2>. QED BY <1>2, <2>2, GotoFlow DEF Back
<1>. QED BY <1>1, <1>2


LEMMA StartsFlow ==
    ASSUME Threads(th), CallbackInv, NEW t \in Thread, NEW p, NEW jobs, NEW first, NEW cont,
           Starts(t, p, jobs, first, cont), cont # "callbackqueued",
           \A i \in 1..Len(jobs) : /\ jobs[i].type # "USERREQCALLBACK"
                                   /\ jobs[i].cb => jobs[i].type = "USERREQ",
           first = "get" \/ first \notin {"exec", "callback", "callbackqueued"} \cup NotQueued
    PROVE  FlowTo(th')
<1>1. PICK s : s = [th[t] EXCEPT !.pc = first, !.ph = p, !.todo = jobs, !.cont = cont]
  OBVIOUS
<1>2. s.pc = first /\ s.todo = jobs /\ s.cont = cont
  BY <1>1 DEF Threads, ThreadState
<1>3. th' = [th EXCEPT ![t] = s]
  BY <1>1 DEF Starts, Threads
<1>4. JobsOK(t, s)
  BY <1>2 DEF JobsOK
<1>5. NoCall(s)
  BY <1>2 DEF NoCall, NotQueued
<1>6. Flow(t, s)
  BY <1>4, <1>5 DEF Flow, Safe
<1>. QED BY <1>3, <1>6, FlowChange

\* No callback among the jobs, or the callback of a request alone
LEMMA JobsCases ==
    ASSUME Threads(th), CallbackInv, NEW t \in Thread, th[t].pc \in Inserting
    PROVE  \/ /\ th[t].cont # "callbackqueued"
              /\ \A i \in 1..Len(th[t].todo) : th[t].todo[i].type # "USERREQCALLBACK"
           \/ /\ th[t].cont = "callbackqueued" /\ th[t].pc # "answer"
              /\ Len(th[t].todo) = 1 /\ Tail(th[t].todo) = <<>>
              /\ Job1(t) = CallbackJob /\ t \in Dispatcher
<1>1. JobsOK(t, th[t])
  BY DEF CallbackInv
<1>2. CASE th[t].cont # "callbackqueued"
  BY <1>1, <1>2 DEF JobsOK
<1>3. CASE th[t].cont = "callbackqueued"
  <2>1. th[t].todo = <<CallbackJob>> /\ th[t].pc # "answer" /\ t \in Dispatcher
    BY <1>1, <1>3 DEF JobsOK, Inserting
  <2>2. Len(<<CallbackJob>>) = 1 /\ Tail(<<CallbackJob>>) = <<>> /\ Head(<<CallbackJob>>) = CallbackJob
    OBVIOUS
  <2>. QED BY <1>3, <2>1, <2>2 DEF Job1
<1>. QED BY <1>2, <1>3

LEMMA JobDoneFlow ==
    ASSUME Threads(th), CallbackInv, NEW t \in Thread, NEW r, th[t].pc \in Inserting,
           th[t].pc \in NotQueued \cup {"answer"} \/ r = "OK"
    PROVE  FlowTo(JobDone(t, r))
<1>0. /\ th[t] \in ThreadState /\ th[t].todo \in Seq(JobType) /\ th[t].todo # <<>>
      /\ th[t].cont \in Cont
  BY DEF Threads, ThreadOK, ThreadState
<1>1. CASE Len(th[t].todo) = 1 /\ th[t].cont = "idle"
  <2>1. JobDone(t, r) = [th EXCEPT ![t] = Idle("idle")]
    BY <1>1 DEF JobDone
  <2>2. FlowTo([th EXCEPT ![t] = Idle("idle")])
    BY IdleFlow
  <2>. QED BY <2>1, <2>2
<1>2. CASE ~(Len(th[t].todo) = 1 /\ th[t].cont = "idle")
  <2>1. PICK s : s = [th[t] EXCEPT
                        !.pc = IF Len(th[t].todo) > 1 THEN "get" ELSE th[t].cont,
                        !.todo = Tail(th[t].todo), !.req = NoEntry, !.rc = r]
    OBVIOUS
  <2>2. /\ s.pc = IF Len(th[t].todo) > 1 THEN "get" ELSE th[t].cont
        /\ s.todo = Tail(th[t].todo) /\ s.rc = r
        /\ s.cont = th[t].cont /\ s.cur = th[t].cur /\ s.ph = th[t].ph
    BY <1>0, <2>1 DEF ThreadState
  <2>3. JobDone(t, r) = [th EXCEPT ![t] = s]
    BY <1>0, <1>2, <2>1 DEF JobDone, Threads
  <2>4. JobsOK(t, th[t])
    BY DEF CallbackInv
  <2>5. CASE /\ th[t].cont # "callbackqueued"
             /\ \A i \in 1..Len(th[t].todo) : th[t].todo[i].type # "USERREQCALLBACK"
    <3>1. /\ Tail(th[t].todo) \in Seq(JobType) /\ Len(Tail(th[t].todo)) = Len(th[t].todo) - 1
          /\ \A i \in 1..Len(th[t].todo) - 1 : Tail(th[t].todo)[i] = th[t].todo[i + 1]
          /\ Len(th[t].todo) \in Nat
      BY <1>0, HeadTailProperties, LenProperties
    <3>2. \A i \in 1..Len(s.todo) : i + 1 \in 1..Len(th[t].todo) /\ s.todo[i] = th[t].todo[i + 1]
      BY <2>2, <3>1
    <3>3. JobsOK(t, s)
      BY <2>2, <2>4, <2>5, <3>2 DEF JobsOK
    <3>4. NoCall(s)
      BY <1>0, <2>2, <2>5 DEF NoCall, NotQueued, Before, Cont
    <3>. QED BY <2>3, <3>3, <3>4, FlowChange DEF Flow, Safe
  <2>6. CASE /\ th[t].cont = "callbackqueued" /\ th[t].pc # "answer"
             /\ Len(th[t].todo) = 1 /\ Tail(th[t].todo) = <<>>
             /\ Job1(t) = CallbackJob /\ t \in Dispatcher
    <3>1. s.pc = "callbackqueued" /\ s.todo = <<>> /\ Len(<<>>) = 0
      BY <2>2, <2>6
    <3>2. JobsOK(t, s)
      BY <2>2, <2>6, <3>1 DEF JobsOK
    <3>3. Safe(th[t], s)
      BY <2>2, <2>6, <3>1 DEF Safe, NoCall
    <3>. QED BY <2>3, <3>2, <3>3, FlowChange DEF Flow
  <2>. QED BY <2>5, <2>6, JobsCases
<1>. QED BY <1>1, <1>2

LEMMA WakingFlow ==
    ASSUME NEW h, Threads(h), FlowTo(h), NEW d \in Dispatcher, h[d].pc \in {"none", "wait"}
    PROVE  FlowTo([h EXCEPT ![d].pc = "loop"])
<1>1. PICK s : s = [h[d] EXCEPT !.pc = "loop"]
  OBVIOUS
<1>2. s.pc = "loop" /\ s.todo = h[d].todo /\ s.cont = h[d].cont
  BY <1>1, DispatcherThread DEF Threads, ThreadState
<1>3. Flow(d, h[d])
  BY DispatcherThread DEF FlowTo
<1>4. JobsOK(d, s)
  BY <1>2, <1>3 DEF Flow, JobsOK, Inserting
<1>5. Flow(d, s)
  BY <1>2, <1>4 DEF Flow, Safe, NoCall, NotQueued, Before
<1>6. [h EXCEPT ![d].pc = "loop"] = [h EXCEPT ![d] = s]
  BY <1>1, DispatcherThread DEF Threads
<1>. QED BY <1>5, <1>6, DispatcherThread DEF FlowTo, Threads

LEMMA SignalFlow ==
    ASSUME NEW h, Threads(h), FlowTo(h), Signal(h)
    PROVE  FlowTo(th')
<1>1. CASE th' = h
  BY <1>1
<1>2. ASSUME NEW d \in Waiting(h), th' = [h EXCEPT ![d].pc = "loop"]
      PROVE  FlowTo(th')
  <2>1. d \in Dispatcher /\ h[d].pc \in {"none", "wait"}
    BY DEF Waiting
  <2>2. FlowTo([h EXCEPT ![d].pc = "loop"])
    BY <2>1, WakingFlow
  <2>. QED BY <1>2, <2>2
<1>. QED BY <1>1, <1>2 DEF Signal


-----------------------------------------------------------------------------
(* The steps after which no more callbacks are pending *)

LEMMA OwedStays == UNCHANGED history => owed' = owed
BY DEF history

\* An entry that is in no queue any more is returned to the pool
LEMMA FlowReturned ==
    ASSUME TypeInv, EntryInv, CallbackInv, FlowTo(th'), owed' = owed,
           NEW e \in Entry, de' = [de EXCEPT ![e] = Nothing],
           \A p \in Channel : /\ ToSet(inq'[p]) \subseteq ToSet(inq[p]) \ {e}
                              /\ ToSet(outq'[p]) \subseteq ToSet(outq[p]) \ {e}
    PROVE  CallbackInv'
<1>1. de \in [Entry -> EntryContents]
  BY DEF TypeInv, RestOK
<1>2. \A f \in Entry : f # e => de'[f] = de[f]
  BY <1>1
<1>3. de'[e] = Nothing /\ Nothing.type = "NOTHING" /\ ~Nothing.cb
  BY <1>1 DEF Nothing
<1>4. \A f \in Entry : Stays(f)
  BY <1>2, <1>3 DEF Stays
<1>5. \A p \in Channel : \A f \in ToSet(inq'[p]) \cup ToSet(outq'[p]) : de'[f].type = de[f].type
  BY <1>2, QueueTypes, ToSetElements
<1>. QED BY <1>4, <1>5, FlowStep

LEMMA FlowOutCleared ==
    ASSUME TypeInv, EntryInv, CallbackInv, NEW p \in Channel,
           outq[p] # <<>>, TakeFirst(p), Returned(Head(outq[p])), UNCHANGED <<th, inq, owed>>
    PROVE  CallbackInv'
<1>1. PICK e : e = Head(outq[p])
  OBVIOUS
<1>2. outq \in [Channel -> Seq(Entry)] /\ IsInjective(outq[p])
  BY QueueTypes DEF EntryInv, QueuesOnce
<1>3. /\ e \in ToSet(outq[p]) /\ e \in Entry /\ ToSet(Tail(outq[p])) = ToSet(outq[p]) \ {e}
  BY <1>1, <1>2, TailSet, ToSetElements
<1>4. outq'[p] = Tail(outq[p]) /\ \A q \in Channel \ {p} : outq'[q] = outq[q]
  BY <1>2 DEF TakeFirst
<1>5. de' = [de EXCEPT ![e] = Nothing]
  BY <1>1 DEF Returned
<1>6. Once(e) /\ e \in Queued(p)
  BY <1>3 DEF EntryInv, Queued
<1>7. \A q \in Channel : /\ ToSet(inq'[q]) \subseteq ToSet(inq[q]) \ {e}
                         /\ ToSet(outq'[q]) \subseteq ToSet(outq[q]) \ {e}
  BY <1>3, <1>4, <1>6 DEF Once, Queued
<1>8. FlowTo(th')
  BY FlowSame DEF FlowTo
<1>. QED BY <1>3, <1>5, <1>7, <1>8, FlowReturned

LEMMA FlowGetEntry ==
    ASSUME TypeInv, EntryInv, CallbackInv, NEW t \in Thread, GetEntry(t)
    PROVE  CallbackInv'
<1>1. PICK e \in free : /\ free' = free \ {e}
                        /\ de' = [de EXCEPT ![e] = Filled(Job1(t))]
                        /\ th' = [th EXCEPT ![t].pc = "insert", ![t].req = e]
  BY DEF GetEntry
<1>2. Threads(th) /\ th[t] \in ThreadState /\ th[t].pc = "get" /\ UNCHANGED <<outq, inq, owed>>
  BY OwedStays DEF GetEntry, At, TypeInv, Threads
<1>3. PICK s : s = [th[t] EXCEPT !.pc = "insert", !.req = e]
  OBVIOUS
<1>4. /\ s.pc = "insert" /\ s.todo = th[t].todo /\ s.cont = th[t].cont /\ s.cur = th[t].cur
      /\ s.ph = th[t].ph
  BY <1>2, <1>3 DEF ThreadState
<1>5. th' = [th EXCEPT ![t] = s]
  BY <1>1, <1>2, <1>3 DEF Threads
<1>6. FlowTo(th')
  <2>1. Flow(t, s)
    BY <1>2, <1>4, InsertingFlow DEF Inserting, NotQueued
  <2>2. FlowTo([th EXCEPT ![t] = s])
    BY <1>2, <2>1, FlowChange
  <2>. QED BY <1>5, <2>2
<1>7. e \in Entry /\ \A p \in Channel : e \notin Queued(p)
  BY FreeEntry
<1>8. \A f \in Entry : f # e => de'[f] = de[f]
  BY <1>1, <1>7 DEF TypeInv, RestOK
<1>9. \A p \in Channel : \A f \in ToSet(inq'[p]) \cup ToSet(outq'[p]) : de'[f].type = de[f].type
  BY <1>2, <1>7, <1>8, QueueTypes, ToSetElements DEF Queued
<1>10. \A f \in Entry \ free : Stays(f)
  BY <1>8 DEF Stays
<1>. QED BY <1>2, <1>6, <1>9, <1>10, FlowStep

LEMMA FlowDropped ==
    ASSUME TypeInv, EntryInv, CallbackInv, NEW t \in Thread, Drop(t) \/ Answered(t)
    PROVE  CallbackInv'
<1>1. PICK e : e = th[t].req
  OBVIOUS
<1>2. /\ Threads(th) /\ th[t] \in ThreadState /\ e \in Entry /\ UNCHANGED <<inq, outq, owed>>
      /\ de' = [de EXCEPT ![e] = Nothing]
      /\ th[t].pc = "drop" \/ (th[t].pc = "answer" /\ ~de[e].waiting)
  BY <1>1, OwedStays
     DEF Drop, Answered, Returned, At, TypeInv, Threads, ThreadOK, Inserting, Filling
<1>3. Keeping(th[t], e) /\ Once(e)
  BY <1>1, <1>2 DEF Keeping, Before, Awaiting, EntryInv
<1>4. \A p \in Channel : /\ ToSet(inq'[p]) \subseteq ToSet(inq[p]) \ {e}
                         /\ ToSet(outq'[p]) \subseteq ToSet(outq[p]) \ {e}
  BY <1>2, <1>3 DEF Once, Queued
<1>5. CASE (th[t].pc = "drop" /\ \E r : th' = JobDone(t, r)) \/ th' = JobDone(t, "OK")
  <2>1. FlowTo(th')
    BY <1>2, <1>5, JobDoneFlow DEF Inserting, NotQueued, Before
  <2>. QED BY <1>2, <1>4, <2>1, FlowReturned
<1>6. CASE th[t].pc = "drop" /\ th' = [th EXCEPT ![t].pc = "purge", ![t].req = NoEntry]
  <2>1. PICK s : s = [th[t] EXCEPT !.pc = "purge", !.req = NoEntry]
    OBVIOUS
  <2>2. /\ s.pc = "purge" /\ s.todo = th[t].todo /\ s.cont = th[t].cont /\ s.cur = th[t].cur
        /\ s.ph = th[t].ph
    BY <1>2, <2>1 DEF ThreadState
  <2>3. Flow(t, s)
    BY <1>6, <2>2, InsertingFlow DEF Inserting, NotQueued, Before
  <2>4. FlowTo([th EXCEPT ![t] = s])
    BY <1>2, <2>3, FlowChange
  <2>5. th' = [th EXCEPT ![t] = s]
    BY <1>2, <1>6, <2>1 DEF Threads
  <2>. QED BY <1>2, <1>4, <2>4, <2>5, FlowReturned
<1>. QED BY <1>5, <1>6 DEF Drop, Answered, At

LEMMA FlowTimesOut ==
    ASSUME TypeInv, EntryInv, CallbackInv, NEW t \in Thread, TimesOut(t)
    PROVE  CallbackInv'
<1>1. /\ Threads(th) /\ th[t].pc = "answer" /\ UNCHANGED <<inq, outq, owed>>
      /\ th[t].req \in Entry /\ de \in [Entry -> EntryContents]
      /\ th' = JobDone(t, "TIMEOUT") /\ de' = [de EXCEPT ![th[t].req].noreturn = FALSE]
  BY OwedStays DEF TimesOut, At, TypeInv, RestOK, Threads, ThreadOK, Inserting, Filling
<1>2. FlowTo(th')
  BY <1>1, JobDoneFlow DEF Inserting
<1>3. \A f \in Entry : de'[f].type = de[f].type /\ de'[f].cb = de[f].cb
  BY <1>1 DEF EntryContents
<1>4. \A p \in Channel : ToSet(inq[p]) \cup ToSet(outq[p]) \subseteq Entry
  BY QueueTypes, ToSetElements
<1>. QED BY <1>1, <1>2, <1>3, <1>4, FlowStep DEF Stays


LEMMA FlowDispatched ==
    ASSUME TypeInv, CallbackInv, NEW t \in Thread, EntryDispatched(t)
    PROVE  FlowTo(th')
<1>0. Threads(th) /\ th[t] \in ThreadState /\ th[t].pc = "signal" /\ ThreadOK(t, th[t])
  BY DEF TypeInv, Threads, EntryDispatched, At
<1> DEFINE next == IF Job1(t) = SyncRequest THEN [th EXCEPT ![t].pc = "answer"] ELSE JobDone(t, "OK")
<1>1. IF NotBusy = {} /\ Dispatchers # Dispatcher
      THEN \E d \in Dispatcher \ Dispatchers : th' = [next EXCEPT ![d].pc = "loop"]
      ELSE Signal(next)
  BY DEF EntryDispatched
<1>2. PICK s : s = [th[t] EXCEPT !.pc = "answer"]
  OBVIOUS
<1>3. [th EXCEPT ![t].pc = "answer"] = [th EXCEPT ![t] = s]
  BY <1>0, <1>2 DEF Threads
<1>4. Threads([th EXCEPT ![t] = s])
  <2>1. s \in ThreadState
    BY <1>0, <1>2, PCs DEF ThreadState
  <2>2. ThreadOK(t, s)
    BY <1>0, <1>2, <2>1 DEF ThreadOK, AtRest, Inserting, Filling, ThreadState
  <2>. QED BY <1>0, <2>2, ThreadChanges
<1>5. Job1(t) = SyncRequest => FlowTo([th EXCEPT ![t] = s])
  <2>1. SyncRequest # CallbackJob
    BY DEF SyncRequest, CallbackJob, Job
  <2>2. Job1(t) = SyncRequest => th[t].cont # "callbackqueued"
    BY <1>0, <2>1, JobsCases DEF Inserting
  <2>3. JobsOK(t, th[t])
    BY DEF CallbackInv
  <2>4. /\ s.pc = "answer" /\ s.todo = th[t].todo /\ s.cont = th[t].cont
    BY <1>0, <1>2 DEF ThreadState
  <2>5. NoCall(s)
    BY <2>4 DEF NoCall, NotQueued, Before
  <2>6. th[t].cont # "callbackqueued" => Flow(t, s)
    BY <2>3, <2>4, <2>5 DEF Flow, JobsOK, Safe
  <2>. QED BY <1>0, <2>2, <2>6, FlowChange
<1>6. Threads(JobDone(t, "OK")) /\ FlowTo(JobDone(t, "OK"))
  BY <1>0, JobDoneOK, JobDoneFlow DEF Inserting
<1>7. Threads(next) /\ FlowTo(next)
  BY <1>3, <1>4, <1>5, <1>6
<1>8. ASSUME NEW d \in Dispatcher \ Dispatchers PROVE next[d].pc = "none"
  <2>1. th[d].pc = "none" /\ d # t /\ d \in Thread
    BY <1>0, DispatcherThread DEF Dispatchers, At
  <2>2. next[d] = th[d]
    <3>1. CASE Job1(t) = SyncRequest
      BY <2>1, <3>1, <1>0, <1>3 DEF Threads
    <3>2. CASE Job1(t) # SyncRequest
      BY <2>1, <3>2, <1>0 DEF Threads, JobDone
    <3>. QED BY <3>1, <3>2
  <2>. QED BY <2>1, <2>2
<1> HIDE DEF next
<1>. QED BY <1>1, <1>7, <1>8, WakingFlow, SignalFlow

LEMMA FlowInsertion ==
    ASSUME TypeInv, EntryInv, CallbackInv, NEW t \in Thread,
           \/ Insertion(t) /\ ~InsertAppend(t) /\ ~(ClearIn(t) /\ inq[th[t].ph] # <<>>)
           \/ TimesOut(t)
    PROVE  CallbackInv'
<1>0. Threads(th) /\ th[t] \in ThreadState
  BY DEF TypeInv, Threads
<1>1. CASE GetEntry(t) \/ Drop(t) \/ Answered(t) \/ TimesOut(t)
  BY <1>1, FlowGetEntry, FlowDropped, FlowTimesOut
<1>2. CASE (Purge(t) \/ ClearOut(t)) /\ outq[th[t].ph] # <<>>
  <2>1. PICK p : p = th[t].ph
    OBVIOUS
  <2>2. p \in Channel /\ outq[p] # <<>> /\ TakeFirst(p) /\ Returned(Head(outq[p]))
        /\ UNCHANGED <<th, inq, owed>>
    BY <1>2, <2>1, OwedStays DEF Purge, ClearOut, At, TypeInv, Threads, ThreadOK, AtRest
  <2>. QED BY <2>2, FlowOutCleared
<1> SUFFICES ASSUME \/ GetEntryFails(t) \/ InsertRefused(t) \/ InsertNoSpace(t)
                    \/ Mark(t) \/ PutOnOutList(t) \/ PutOnInList(t) \/ EntryDispatched(t)
                    \/ (Purge(t) \/ ClearOut(t)) /\ outq[th[t].ph] = <<>>
                    \/ ClearIn(t) /\ inq[th[t].ph] = <<>>
             PROVE  FlowTo(th') /\ UNCHANGED <<outq, inq, de, owed>>
  BY <1>1, <1>2, FlowQuietStep DEF Insertion
<1>3. CASE GetEntryFails(t)
  <2>1. FlowTo(JobDone(t, "AGAIN"))
    BY <1>0, <1>3, JobDoneFlow DEF GetEntryFails, At, Inserting, NotQueued
  <2>. QED BY <1>3, <2>1, QueuesStay, OwedStays DEF GetEntryFails
<1>4. CASE InsertRefused(t) \/ InsertNoSpace(t)
  <2>0. \E where \in {"purge", "drop"}, r \in {"NOTATTACHED", "NOSPC"} :
            th' = [th EXCEPT ![t].pc = where, ![t].rc = r]
    <3>1. CASE InsertRefused(t)
      BY <3>1 DEF InsertRefused
    <3>2. CASE InsertNoSpace(t)
      BY <3>2 DEF InsertNoSpace
    <3>. QED BY <1>4, <3>1, <3>2
  <2>1. PICK where \in {"purge", "drop"}, r \in {"NOTATTACHED", "NOSPC"} :
            th' = [th EXCEPT ![t].pc = where, ![t].rc = r]
    BY <2>0
  <2>2. PICK s : s = [th[t] EXCEPT !.pc = where, !.rc = r]
    OBVIOUS
  <2>3. /\ s.pc = where /\ s.todo = th[t].todo /\ s.cont = th[t].cont /\ s.cur = th[t].cur
        /\ s.ph = th[t].ph
    BY <1>0, <2>2 DEF ThreadState
  <2>4. th[t].pc = "insert"
    BY <1>4 DEF InsertRefused, InsertNoSpace, At
  <2>5. Flow(t, s)
    BY <2>3, <2>4, InsertingFlow DEF Inserting, NotQueued, Before
  <2>6. FlowTo([th EXCEPT ![t] = s])
    BY <1>0, <2>5, FlowChange
  <2>7. th' = [th EXCEPT ![t] = s]
    BY <1>0, <2>1, <2>2 DEF Threads
  <2>. QED BY <1>4, <2>6, <2>7, QueuesStay, OwedStays DEF InsertRefused, InsertNoSpace
<1>5. CASE Mark(t) \/ PutOnOutList(t) \/ PutOnInList(t)
  <2>1. /\ th[t].pc \in After /\ \E where \in After : Goto(t, where)
        /\ UNCHANGED <<outq, inq, de, owed>>
    BY <1>5, OwedStays DEF Mark, PutOnOutList, PutOnInList, At, After
  <2>. QED BY <1>0, <2>1, GotoFlow
<1>6. CASE EntryDispatched(t)
  BY <1>6, FlowDispatched, QueuesStay, OwedStays DEF EntryDispatched
<1>7. CASE Purge(t) /\ outq[th[t].ph] = <<>>
  <2>1. th[t].pc = "purge" /\ UNCHANGED <<outq, inq, de, owed>>
    BY <1>7, OwedStays DEF Purge, At
  <2>2. CASE Dropped(t)
    BY <1>0, <1>7, <2>1, <2>2, JobDoneFlow DEF Purge, Inserting, NotQueued, Before
  <2>3. CASE ~Dropped(t)
    <3>1. Goto(t, "drop")
      BY <1>7, <2>3 DEF Purge
    <3>2. PICK s : s = [th[t] EXCEPT !.pc = "drop"]
      OBVIOUS
    <3>3. /\ s.pc = "drop" /\ s.todo = th[t].todo /\ s.cont = th[t].cont /\ s.cur = th[t].cur
          /\ s.ph = th[t].ph
      BY <1>0, <3>2 DEF ThreadState
    <3>4. Flow(t, s)
      BY <2>1, <3>3, InsertingFlow DEF Inserting, NotQueued, Before
    <3>5. th' = [th EXCEPT ![t] = s] /\ FlowTo([th EXCEPT ![t] = s])
      BY <1>0, <3>1, <3>2, <3>4, FlowChange DEF Goto, Threads
    <3>. QED BY <2>1, <3>5
  <2>. QED BY <2>2, <2>3
<1>8. CASE ClearOut(t) /\ outq[th[t].ph] = <<>>
  <2>1. th[t].pc = "clearout" /\ Goto(t, "clearin") /\ UNCHANGED <<outq, inq, de, owed>>
    BY <1>8, OwedStays DEF ClearOut, At
  <2>2. FlowTo(th')
    BY <1>0, <2>1, GotoFlow DEF Inserting, NotQueued, Before
  <2>. QED BY <2>1, <2>2
<1>9. CASE ClearIn(t) /\ inq[th[t].ph] = <<>>
  <2>1. th[t].pc = "clearin" /\ Back(t) /\ UNCHANGED <<outq, inq, de, owed>>
    BY <1>9 DEF ClearIn, At
  <2>2. FlowTo(th')
    BY <1>0, <2>1, BackFlow DEF Inserting
  <2>. QED BY <2>1, <2>2
<1>. QED BY <1>3, <1>4, <1>5, <1>6, <1>7, <1>8, <1>9


LEMMA FlowEntryDone ==
    ASSUME TypeInv, EntryInv, CallbackInv, NEW d \in Dispatcher, EntryDone(d)
    PROVE  CallbackInv'
<1>0. d \in Thread
  BY DispatcherThread
<1>1. PICK e : e = th[d].cur
  OBVIOUS
<1>2. PICK s : s = [Idle("serve") EXCEPT !.ph = th[d].ph, !.out = th[d].out]
  OBVIOUS
<1>3. s.pc = "serve" /\ s.cur = NoEntry /\ s.todo = <<>> /\ s.cont = "serve"
  BY <1>2 DEF Idle
<1>4. /\ Threads(th) /\ th[d].pc = "done" /\ e \in Entry
      /\ UNCHANGED <<outq, inq, owed>> /\ th' = [th EXCEPT ![d] = s]
  BY <1>0, <1>1, <1>2, OwedStays DEF EntryDone, At, TypeInv, Threads, ThreadOK, AtRest
<1>5. FlowTo(th')
  <2>1. Len(<<>>) = 0
    OBVIOUS
  <2>2. Flow(d, s)
    BY <1>3, <2>1 DEF Flow, JobsOK, Safe, NoCall
  <2>. QED BY <1>0, <1>4, <2>2, FlowChange
<1>6. CASE th[d].returnde
  <2>1. de' = [de EXCEPT ![e] = Nothing]
    BY <1>1, <1>6 DEF EntryDone, MayReturn, Returned
  <2>2. Keeping(th[d], e) /\ Once(e)
    BY <1>1, <1>4, <1>6 DEF Keeping, EntryInv
  <2>3. \A p \in Channel : /\ ToSet(inq'[p]) \subseteq ToSet(inq[p]) \ {e}
                           /\ ToSet(outq'[p]) \subseteq ToSet(outq[p]) \ {e}
    BY <1>0, <1>4, <2>2 DEF Once, Queued
  <2>. QED BY <1>4, <1>5, <2>1, <2>3, FlowReturned
<1>7. CASE ~th[d].returnde
  BY <1>4, <1>5, <1>7, FlowQuietStep DEF EntryDone, MayReturn
<1>. QED BY <1>6, <1>7

LEMMA FlowLoop ==
    ASSUME TypeInv, EntryInv, CallbackInv, NEW d \in Dispatcher,
           DispatcherLoop(d), ~Dequeue(d)
    PROVE  CallbackInv'
<1>0. Threads(th) /\ d \in Thread /\ th[d] \in ThreadState /\ ThreadOK(d, th[d])
  BY DispatcherThread DEF TypeInv, Threads
<1>1. CASE EntryDone(d)
  BY <1>1, FlowEntryDone
<1> SUFFICES ASSUME ~EntryDone(d) PROVE FlowTo(th') /\ UNCHANGED <<outq, inq, de, owed>>
  BY <1>1, FlowQuietStep
\* a step to another place of the loop
<1>2. ASSUME NEW s, th' = [th EXCEPT ![d] = s], s.todo = th[d].todo, s.cont = th[d].cont,
             s.pc \in {"serve", "scan", "none"}, th[d].pc \in {"loop", "scan"}
      PROVE  FlowTo(th')
  <2>1. Flow(d, s)
    BY <1>0, <1>2, ElsewhereFlow DEF Inserting, NotQueued, Before
  <2>. QED BY <1>0, <1>2, <2>1, FlowChange
<1>3. CASE Exit(d)
  <2>1. PICK s : s = [th[d] EXCEPT !.pc = "none"]
    OBVIOUS
  <2>2. s.pc = "none" /\ s.todo = th[d].todo /\ s.cont = th[d].cont /\ s \in ThreadState
    BY <1>0, <2>1, PCs DEF ThreadState
  <2>3. [th EXCEPT ![d].pc = "none"] = [th EXCEPT ![d] = s]
    BY <1>0, <2>1 DEF Threads
  <2>4. ThreadOK(d, s)
    BY <1>0, <2>2 DEF ThreadOK, AtRest, Inserting, Filling
  <2>5. Flow(d, s)
    BY <1>0, <1>3, <2>2, ElsewhereFlow DEF Exit, At, Inserting, NotQueued, Before
  <2>6. Threads([th EXCEPT ![d] = s]) /\ FlowTo([th EXCEPT ![d] = s])
    BY <1>0, <2>4, <2>5, ThreadChanges, FlowChange
  <2>7. Signal([th EXCEPT ![d].pc = "none"])
    BY <1>3 DEF Exit
  <2>8. FlowTo(th')
    BY <2>3, <2>6, <2>7, SignalFlow
  <2>. QED BY <1>3, <2>8, QueuesStay, OwedStays DEF Exit
<1>4. CASE TakeIn(d)
  <2>1. PICK s : s = [th[d] EXCEPT !.pc = "serve", !.ph = Head(inList), !.out = FALSE]
    OBVIOUS
  <2>2. s.pc = "serve" /\ s.todo = th[d].todo /\ s.cont = th[d].cont
    BY <1>0, <2>1 DEF ThreadState
  <2>3. th' = [th EXCEPT ![d] = s] /\ th[d].pc = "loop"
    BY <1>0, <1>4, <2>1 DEF TakeIn, At, Threads
  <2>. QED BY <1>2, <1>4, <2>2, <2>3, OwedStays DEF TakeIn
<1>5. CASE ScanStart(d)
  <2>1. PICK s : s = [th[d] EXCEPT !.pc = "scan", !.at = 1]
    OBVIOUS
  <2>2. s.pc = "scan" /\ s.todo = th[d].todo /\ s.cont = th[d].cont
    BY <1>0, <2>1 DEF ThreadState
  <2>3. th' = [th EXCEPT ![d] = s] /\ th[d].pc = "loop"
    BY <1>0, <1>5, <2>1 DEF ScanStart, At, Threads
  <2>. QED BY <1>2, <1>5, <2>2, <2>3, QueuesStay, OwedStays DEF ScanStart
<1>6. CASE ScanTake(d)
  <2>1. PICK i : i = th[d].at
    OBVIOUS
  <2>2. PICK s : s = [th[d] EXCEPT !.pc = "serve", !.ph = outList[i], !.out = TRUE, !.at = 0]
    OBVIOUS
  <2>3. s.pc = "serve" /\ s.todo = th[d].todo /\ s.cont = th[d].cont
    BY <1>0, <2>2 DEF ThreadState
  <2>4. th' = [th EXCEPT ![d] = s] /\ th[d].pc = "scan"
    BY <1>0, <1>6, <2>1, <2>2 DEF ScanTake, At, Threads
  <2>. QED BY <1>2, <1>6, <2>3, <2>4, OwedStays DEF ScanTake
<1>7. CASE ScanSkip(d)
  <2>1. PICK s : s = [th[d] EXCEPT !.at = th[d].at + 1]
    OBVIOUS
  <2>2. s.pc = "scan" /\ s.todo = th[d].todo /\ s.cont = th[d].cont
    BY <1>0, <1>7, <2>1 DEF ScanSkip, At, ThreadState
  <2>3. (th' = [th EXCEPT ![d] = s] \/ th' = th) /\ th[d].pc = "scan"
    BY <1>0, <1>7, <2>1 DEF ScanSkip, At, Threads
  <2>4. FlowTo(th')
    BY <1>2, <2>2, <2>3, FlowSame DEF FlowTo
  <2>. QED BY <1>7, <2>4, OwedStays DEF ScanSkip
<1>8. CASE ScanEnd(d) \/ Leave(d)
  BY <1>0, <1>8, IdleFlow, QueuesStay, OwedStays DEF ScanEnd, Leave
<1>9. CASE Unflag(d)
  <2>1. FlowTo(th')
    BY <1>0, <1>9, GotoFlow DEF Unflag, At, Inserting, NotQueued, Before
  <2>. QED BY <1>9, <2>1, OwedStays DEF Unflag
<1>. QED BY <1>3, <1>4, <1>5, <1>6, <1>7, <1>8, <1>9 DEF DispatcherLoop


LEMMA FlowExecRequest ==
    ASSUME TypeInv, EntryInv, CallbackInv, NEW d \in Dispatcher, ExecRequest(d)
    PROVE  CallbackInv'
<1>1. /\ d \in Thread /\ Threads(th) /\ th[d].cur \in Entry /\ Goto(d, "done")
      /\ UNCHANGED <<outq, inq, owed>> /\ de \in [Entry -> EntryContents]
      /\ de' = [de EXCEPT ![th[d].cur].waiting = FALSE]
  BY DispatcherThread, OwedStays
     DEF ExecRequest, Executing, At, TypeInv, RestOK, Threads, ThreadOK, AtRest
<1>2. FlowTo(th')
  BY <1>1, GotoFlow
<1>3. \A f \in Entry : de'[f].type = de[f].type /\ de'[f].cb = de[f].cb
  BY <1>1 DEF EntryContents
<1>4. \A p \in Channel : ToSet(inq[p]) \cup ToSet(outq[p]) \subseteq Entry
  BY QueueTypes, ToSetElements
<1>. QED BY <1>1, <1>2, <1>3, <1>4, FlowStep DEF Stays

LEMMA FlowExecution ==
    ASSUME TypeInv, EntryInv, CallbackInv, NEW d \in Dispatcher,
           Execution(d), ~CallbackQueued(d), ~Callback(d)
    PROVE  CallbackInv'
<1>0. Threads(th) /\ d \in Thread /\ th[d] \in ThreadState
  BY DispatcherThread DEF TypeInv, Threads
<1>1. CASE ExecRequest(d)
  BY <1>1, FlowExecRequest
<1> SUFFICES ASSUME ~ExecRequest(d) PROVE FlowTo(th') /\ UNCHANGED <<outq, inq, de, owed>>
  BY <1>1, FlowQuietStep
<1>2. ASSUME th' = [th EXCEPT ![d].pc = "clearout", ![d].cont = "attacherror"],
             th[d].pc \in {"exec", "enablefailed"}
      PROVE  FlowTo(th')
  <2>1. PICK s : s = [th[d] EXCEPT !.pc = "clearout", !.cont = "attacherror"]
    OBVIOUS
  <2>2. s.pc = "clearout" /\ s.todo = th[d].todo /\ s.cont = "attacherror"
    BY <1>0, <2>1 DEF ThreadState
  <2>3. Flow(d, s)
    BY <1>0, <1>2, <2>2, ContFlow DEF Inserting, NotQueued, Before
  <2>4. th' = [th EXCEPT ![d] = s]
    BY <1>0, <1>2, <2>1 DEF Threads
  <2>. QED BY <1>0, <2>3, <2>4, FlowChange
<1>3. CASE ExecAttachFails(d)
  BY <1>2, <1>3, QueuesStay, OwedStays DEF ExecAttachFails, Executing, At
<1>4. CASE ExecEvent(d)
  BY <1>0, <1>4, GotoFlow, OwedStays DEF ExecEvent, Executing, At
<1>5. CASE ExecInternal(d)
  BY <1>0, <1>5, GotoFlow, QueuesStay, OwedStays DEF ExecInternal
<1>6. CASE ExecAsyncRequest(d)
  <2>1. PICK jobs : jobs = <<CallbackJob>>
    OBVIOUS
  <2>2. PICK s : s = [th[d] EXCEPT !.pc = "get", !.todo = jobs, !.cont = "callbackqueued"]
    OBVIOUS
  <2>3. /\ s.pc = "get" /\ s.todo = jobs /\ s.cont = "callbackqueued"
        /\ s.cur = th[d].cur /\ s.ph = th[d].ph
    BY <1>0, <2>2 DEF ThreadState
  <2>4. th[d].pc = "exec" /\ IsAsync(de[th[d].cur])
    BY <1>6 DEF ExecAsyncRequest, Executing, At, IsAsync
  <2>5. Len(<<CallbackJob>>) = 1 /\ <<CallbackJob>>[1] = CallbackJob
    OBVIOUS
  <2>6. CallbackJob.type = "USERREQCALLBACK"
    BY DEF CallbackJob, Job
  <2>7. JobsOK(d, s)
    BY <2>1, <2>3, <2>5, <2>6 DEF JobsOK, Inserting
  <2>8. Flow(d, s)
    BY <2>3, <2>4, <2>7 DEF Flow, Safe
  <2>9. th' = [th EXCEPT ![d] = s]
    BY <1>0, <1>6, <2>1, <2>2 DEF ExecAsyncRequest, CallbackJob, Threads
  <2>10. FlowTo(th')
    BY <1>0, <2>8, <2>9, FlowChange
  <2>. QED BY <1>6, <2>10, QueuesStay, OwedStays DEF ExecAsyncRequest
<1>7. CASE Called(d)
  BY <1>0, <1>7, GotoFlow, OwedStays DEF Called
<1>8. CASE EnableFails(d)
  <2>1. FlowTo(th')
    BY <1>0, <1>8, GotoFlow DEF EnableFails, At, Inserting, NotQueued, Before
  <2>. QED BY <1>8, <2>1, OwedStays DEF EnableFails
<1>9. CASE EnableFailed(d)
  BY <1>2, <1>9 DEF EnableFailed, At
<1>10. CASE AttachError(d)
  <2>1. FlowTo(th')
    BY <1>0, <1>10, GotoFlow DEF AttachError, At, Inserting, NotQueued, Before
  <2>. QED BY <1>10, <2>1, OwedStays DEF AttachError
<1>11. CASE AttachErrorUnslot(d)
  BY <1>0, <1>11, GotoFlow, QueuesStay, OwedStays DEF AttachErrorUnslot
<1>. QED BY <1>3, <1>4, <1>5, <1>6, <1>7, <1>8, <1>9, <1>10, <1>11 DEF Execution

LEMMA FlowAttaching ==
    ASSUME TypeInv, EntryInv, CallbackInv, Attaching
    PROVE  CallbackInv'
<1>0. Threads(th) /\ Central \in Thread /\ th[Central] \in ThreadState
  BY CentralNotDispatcher DEF TypeInv, Threads
<1> SUFFICES FlowTo(th') /\ UNCHANGED <<outq, inq, de, owed>>
  BY FlowQuietStep
<1>1. ASSUME NEW where \in {"slot", "attach", "wake", "detaching", "close"}, Goto(Central, where),
             th[Central].pc \notin Inserting \cup {"callbackqueued", "done"}
      PROVE  FlowTo(th')
  BY <1>0, <1>1, GotoFlow DEF NotQueued, Before
<1>2. ASSUME NEW cont \in {"unslot", "detach"},
             th' = [th EXCEPT ![Central].pc = "clearout", ![Central].cont = cont],
             th[Central].pc \notin Inserting \cup {"callbackqueued", "done"}
      PROVE  FlowTo(th')
  <2>1. PICK s : s = [th[Central] EXCEPT !.pc = "clearout", !.cont = cont]
    OBVIOUS
  <2>2. s.pc = "clearout" /\ s.todo = th[Central].todo /\ s.cont = cont
    BY <1>0, <2>1 DEF ThreadState
  <2>3. Flow(Central, s)
    BY <1>0, <1>2, <2>2, ContFlow DEF NotQueued, Before
  <2>4. th' = [th EXCEPT ![Central] = s]
    BY <1>0, <1>2, <2>1 DEF Threads
  <2>. QED BY <1>0, <2>3, <2>4, FlowChange
<1>3. CASE AttachFlag
  BY <1>1, <1>3, OwedStays DEF AttachFlag, At, Inserting
<1>4. CASE AttachSlot
  BY <1>1, <1>4, QueuesStay, OwedStays DEF AttachSlot, At, Inserting
<1>5. CASE AttachRefused
  BY <1>2, <1>5, OwedStays DEF AttachRefused, At, Inserting
<1>6. CASE Attached
  BY <1>1, <1>6, OwedStays DEF Attached, At, Inserting
<1>7. CASE WakeDispatch
  <2> DEFINE h == [th EXCEPT ![Central] = Idle("idle")]
  <2>1. Threads(h) /\ FlowTo(h)
    BY <1>0, IdleOK, ThreadChanges, IdleFlow
  <2>2. Signal(h)
    BY <1>7 DEF WakeDispatch
  <2> HIDE DEF h
  <2>3. FlowTo(th')
    BY <2>1, <2>2, SignalFlow
  <2>. QED BY <1>7, <2>3, QueuesStay, OwedStays DEF WakeDispatch
<1>8. CASE DetachWaited
  <2>1. FlowTo(th')
    BY <1>1, <1>2, <1>8 DEF DetachWaited, At, Inserting
  <2>. QED BY <1>8, <2>1, QueuesStay, OwedStays DEF DetachWaited
<1>9. CASE DetachFlag
  BY <1>2, <1>9, OwedStays DEF DetachFlag, At, Inserting
<1>10. CASE DetachDispatch
  <2>1. PICK jobs : jobs = <<Job("CHANNEL_DETACH", FALSE)>>
    OBVIOUS
  <2>2. Len(<<Job("CHANNEL_DETACH", FALSE)>>) = 1
        /\ <<Job("CHANNEL_DETACH", FALSE)>>[1] = Job("CHANNEL_DETACH", FALSE)
    OBVIOUS
  <2>3. \A i \in 1..Len(jobs) : /\ jobs[i].type # "USERREQCALLBACK"
                                /\ jobs[i].cb => jobs[i].type = "USERREQ"
    BY <2>1, <2>2 DEF Job
  <2>4. FlowTo(th')
    BY <1>0, <1>10, <2>1, <2>3, StartsFlow DEF DetachDispatch
  <2>. QED BY <1>10, <2>4, QueuesStay, OwedStays DEF DetachDispatch
<1>11. CASE DetachClose
  BY <1>1, <1>11, OwedStays DEF DetachClose, At, Inserting
<1>12. CASE CentralUnslot
  BY <1>0, <1>12, IdleFlow, QueuesStay, OwedStays DEF CentralUnslot
<1>. QED BY <1>3, <1>4, <1>5, <1>6, <1>7, <1>8, <1>9, <1>10, <1>11, <1>12 DEF Attaching


LEMMA FlowUsers ==
    ASSUME TypeInv, EntryInv, CallbackInv,
           (\E t \in User \cup {Central} : Closing(t)) \/ Environment
    PROVE  CallbackInv'
<1>0. Threads(th) /\ User \cup Source \cup {Central} \subseteq Thread
  BY DEF TypeInv, Thread
<1> SUFFICES FlowTo(th') /\ UNCHANGED <<outq, inq, de, owed>>
  BY FlowQuietStep
<1>1. ASSUME NEW t \in Thread, NEW p, NEW first \in {"detachwait", "close"}, NEW cont,
             Starts(t, p, <<>>, first, cont), cont # "callbackqueued"
      PROVE  FlowTo(th')
  <2>1. \A i \in 1..Len(<<>>) : /\ <<>>[i].type # "USERREQCALLBACK"
                                /\ <<>>[i].cb => <<>>[i].type = "USERREQ"
    OBVIOUS
  <2>2. first \notin {"exec", "callback", "callbackqueued"} \cup NotQueued
    BY DEF NotQueued, Before
  <2>. QED BY <1>0, <1>1, <2>1, <2>2, StartsFlow
<1>2. ASSUME NEW t \in Thread, NEW p, NEW ty, NEW b, ty # "USERREQCALLBACK", b => ty = "USERREQ",
             NEW jobs, jobs = <<Job(ty, b)>>, Starts(t, p, jobs, "get", "idle")
      PROVE  FlowTo(th')
  <2>1. Len(<<Job(ty, b)>>) = 1 /\ <<Job(ty, b)>>[1] = Job(ty, b)
    OBVIOUS
  <2>2. Job(ty, b).type = ty /\ Job(ty, b).cb = b
    BY DEF Job
  <2>3. \A i \in 1..Len(jobs) : /\ jobs[i].type # "USERREQCALLBACK"
                                /\ jobs[i].cb => jobs[i].type = "USERREQ"
    BY <1>2, <2>1, <2>2
  <2>. QED BY <1>0, <1>2, <2>3, StartsFlow
<1>3. ASSUME NEW t \in User \cup {Central}, Closing(t)
      PROVE  FlowTo(th') /\ UNCHANGED <<outq, inq, de, owed>>
  <2>1. th[t].pc \notin Inserting \cup {"callbackqueued", "done"}
    BY <1>3 DEF Closing, CloseParent, CloseSlot, CloseStop, At, Inserting
  <2>2. Back(t) \/ \E where \in {"closing", "closeslot", "clearout"} : Goto(t, where)
    BY <1>3 DEF Closing, CloseParent, CloseSlot, CloseStop
  <2>3. FlowTo(th')
    BY <1>0, <2>1, <2>2, GotoFlow, BackFlow DEF NotQueued, Before
  <2>. QED BY <1>3, <2>3, QueuesStay, OwedStays DEF Closing, CloseParent, CloseSlot, CloseStop
<1>4. ASSUME NEW p \in Channel, AttachStart(p)
      PROVE  FlowTo(th') /\ UNCHANGED <<outq, inq, de, owed>>
  <2>1. Len(StartJobs) = 3 /\ \A i \in 1..3 : StartJobs[i].type # "USERREQCALLBACK"
                                              /\ ~StartJobs[i].cb
    BY DEF StartJobs, Job
  <2>2. FlowTo(th')
    BY <1>0, <1>4, <2>1, StartsFlow DEF AttachStart
  <2>. QED BY <1>4, <2>2, QueuesStay, OwedStays DEF AttachStart
<1>5. ASSUME NEW p \in Channel, DetachStart(p)
      PROVE  FlowTo(th') /\ UNCHANGED <<outq, inq, de, owed>>
  BY <1>0, <1>1, <1>5, QueuesStay, OwedStays DEF DetachStart
<1>6. ASSUME NEW u \in User, NEW p \in Channel, Request(u, p)
      PROVE  FlowTo(th') /\ UNCHANGED <<outq, inq, de, owed>>
  <2>1. PICK b, jobs : jobs = <<Job("USERREQ", b)>> /\ Starts(u, p, jobs, "get", "idle")
    BY <1>6 DEF Request
  <2>. QED BY <1>0, <1>2, <1>6, <2>1, QueuesStay, OwedStays DEF Request
<1>7. ASSUME NEW u \in User, NEW p \in Channel, CloseStart(u, p)
      PROVE  FlowTo(th') /\ UNCHANGED <<outq, inq, de, owed>>
  BY <1>0, <1>1, <1>7, OwedStays DEF CloseStart
<1>8. ASSUME NEW u \in User, NEW p \in Channel, Open(u, p)
      PROVE  FlowTo(th') /\ UNCHANGED <<outq, inq, de, owed>>
  BY <1>8, FlowSame, OwedStays DEF Open, FlowTo
<1>9. ASSUME NEW s \in Source, NEW p \in Channel, Deliver(s, p)
      PROVE  FlowTo(th') /\ UNCHANGED <<outq, inq, de, owed>>
  <2>1. PICK ty \in Traffic : Starts(s, p, <<Job(ty, FALSE)>>, "get", "idle")
    BY <1>9 DEF Deliver
  <2>2. ty # "USERREQCALLBACK"
    BY ConstantsAssumption
  <2>3. PICK jobs : jobs = <<Job(ty, FALSE)>>
    OBVIOUS
  <2>. QED BY <1>0, <1>2, <1>9, <2>1, <2>2, <2>3, QueuesStay, OwedStays DEF Deliver
<1>. QED BY <1>3, <1>4, <1>5, <1>6, <1>7, <1>8, <1>9 DEF Environment

-----------------------------------------------------------------------------
(* The steps that owe a callback, or call one *)

LEMMA CountDrops ==
    ASSUME NEW A, IsFiniteSet(A), NEW B, NEW e \in A, B \subseteq A \ {e}, NEW n \in Int,
           n >= Cardinality(A)
    PROVE  n - 1 >= Cardinality(B)
<1>1. IsFiniteSet(A \ {e}) /\ Cardinality(A \ {e}) = Cardinality(A) - 1
  BY FS_RemoveElement
<1>2. Cardinality(B) <= Cardinality(A \ {e})
  BY <1>1, FS_Subset
<1>3. Cardinality(A) \in Nat /\ Cardinality(B) \in Nat
  BY <1>1, FS_CardinalityType, FS_Subset
<1>. QED BY <1>1, <1>2, <1>3

LEMMA CountGrows ==
    ASSUME NEW A, IsFiniteSet(A), NEW B, NEW e, B \subseteq A \cup {e}, NEW n \in Int,
           n >= Cardinality(A)
    PROVE  n + 1 >= Cardinality(B)
<1>1. IsFiniteSet(A \cup {e}) /\ Cardinality(A \cup {e}) <= Cardinality(A) + 1
  <2>1. Cardinality(A) \in Nat
    BY FS_CardinalityType
  <2>2. /\ IsFiniteSet(A \cup {e})
        /\ Cardinality(A \cup {e}) = IF e \in A THEN Cardinality(A) ELSE Cardinality(A) + 1
    BY FS_AddElement
  <2>3. CASE e \in A
    BY <2>1, <2>2, <2>3
  <2>4. CASE e \notin A
    BY <2>1, <2>2, <2>4
  <2>. QED BY <2>3, <2>4
<1>2. Cardinality(B) <= Cardinality(A \cup {e})
  BY <1>1, FS_Subset
<1>3. Cardinality(A) \in Nat /\ Cardinality(A \cup {e}) \in Nat /\ Cardinality(B) \in Nat
  BY <1>1, FS_CardinalityType, FS_Subset
<1>. QED BY <1>1, <1>2, <1>3

LEMMA CountStays ==
    ASSUME NEW A, IsFiniteSet(A), NEW B, B \subseteq A, NEW n \in Int, n >= Cardinality(A)
    PROVE  n >= Cardinality(B)
<1>1. Cardinality(A) \in Nat /\ Cardinality(B) \in Nat /\ Cardinality(B) <= Cardinality(A)
  BY FS_CardinalityType, FS_Subset
<1>. QED BY <1>1

\* A dispatcher that has a callback to call, and then has none any more
LEMMA CalledOff ==
    ASSUME TypeInv, EntryInv, NEW d \in Dispatcher, NEW e \in Entry, Calls(th[d], e),
           NEW p \in Channel, p = th[d].ph,
           NEW s, th' = [th EXCEPT ![d] = s], NoCall(s),
           e \notin ToSet(inq'[p]) \cup ToSet(outq'[p])
    PROVE  e \in Pending(p) /\ e \notin Pending(p)'
<1>1. e \in Pending(p)
  BY DEF Pending
<1>2. Keeping(th[d], e) /\ Once(e) /\ d \in Thread
  BY DispatcherThread DEF Calls, Keeping, EntryInv, NotQueued, Before
<1>3. \A c \in Dispatcher \ {d} : ~Keeping(th[c], e)
  BY <1>2, DispatcherThread DEF Once
<1>4. th'[d] = s /\ \A c \in Dispatcher \ {d} : th'[c] = th[c]
  BY <1>2, DispatcherThread DEF TypeInv, Threads
<1>5. \A c \in Dispatcher \ {d} : ~Calls(th[c], e)'
  BY <1>3, <1>4 DEF Calls, Keeping, NotQueued, Before
<1>6. ~Calls(th[d], e)'
  BY <1>4, ConstantsAssumption DEF Calls, NoCall, NotQueued, Before
<1>. QED BY <1>1, <1>5, <1>6 DEF Pending


\* All but the counts
LEMMA RestOfInv ==
    ASSUME CallbackInv, NEW t \in Thread, NEW s, JobsOK(t, s),
           \A u \in Thread \ {t} : th'[u] = th[u],
           th'[t] = s,
           \A p \in Channel : /\ owed'[p] >= Cardinality(Pending(p)')
                              /\ ContentOK(p)'
    PROVE  CallbackInv'
<1>1. ASSUME NEW u \in Thread PROVE JobsOK(u, th[u])'
  <2>1. JobsOK(u, th'[u])
    BY DEF CallbackInv
  <2>. QED BY <2>1 DEF JobsOK
<1>. QED BY <1>1 DEF CallbackInv

LEMMA OwedCallback ==
    ASSUME TypeInv, EntryInv, CallbackInv, NEW d \in Dispatcher, Callback(d)
    PROVE  CallbackInv'
<1>0. d \in Thread /\ Threads(th) /\ owed \in [Channel -> Int]
  BY DispatcherThread DEF TypeInv, RestOK
<1>1. PICK p : p = th[d].ph
  OBVIOUS
<1>2. PICK e : e = th[d].cur
  OBVIOUS
<1>3. /\ th[d] \in ThreadState /\ th[d].pc = "callback" /\ p \in Channel /\ e \in Entry
      /\ UNCHANGED <<outq, inq, de>>
      /\ owed' = [owed EXCEPT ![p] = IF de[e].type = "USERREQCALLBACK" THEN @ - 1 ELSE @]
  BY <1>0, <1>1, <1>2, QueuesStay DEF Callback, At, Threads, ThreadOK, AtRest
<1>4. JobsOK(d, th[d])
  BY <1>0 DEF CallbackInv
<1>5. PICK s : th' = [th EXCEPT ![d] = s] /\ JobsOK(d, s) /\ NoCall(s)
  <2>1. CASE Starts(d, p, <<SyncRequest>>, "get", "called")
    <3>1. PICK s : s = [th[d] EXCEPT !.pc = "get", !.ph = p, !.todo = <<SyncRequest>>,
                                     !.cont = "called"]
      OBVIOUS
    <3>2. s.pc = "get" /\ s.todo = <<SyncRequest>> /\ s.cont = "called"
      BY <1>3, <3>1 DEF ThreadState
    <3>3. Len(<<SyncRequest>>) = 1 /\ <<SyncRequest>>[1] = SyncRequest
      OBVIOUS
    <3>4. SyncRequest.type = "USERREQ"
      BY DEF SyncRequest, Job
    <3>5. JobsOK(d, s)
      BY <3>2, <3>3, <3>4 DEF JobsOK
    <3>6. NoCall(s)
      BY <3>2 DEF NoCall, NotQueued
    <3>7. th' = [th EXCEPT ![d] = s]
      BY <1>0, <2>1, <3>1 DEF Starts, Threads
    <3>. QED BY <3>5, <3>6, <3>7
  <2>2. CASE Goto(d, "called")
    <3>1. PICK s : s = [th[d] EXCEPT !.pc = "called"]
      OBVIOUS
    <3>2. s.pc = "called" /\ s.todo = th[d].todo /\ s.cont = th[d].cont
      BY <1>3, <3>1 DEF ThreadState
    <3>3. JobsOK(d, s) /\ NoCall(s)
      BY <1>3, <1>4, <3>2 DEF JobsOK, Inserting, NoCall, NotQueued, Before
    <3>4. th' = [th EXCEPT ![d] = s]
      BY <1>0, <2>2, <3>1 DEF Goto, Threads
    <3>. QED BY <3>3, <3>4
  <2>. QED BY <1>1, <2>1, <2>2 DEF Callback
<1>6. th'[d] = s /\ \A u \in Thread \ {d} : th'[u] = th[u]
  BY <1>0, <1>5 DEF Threads
<1>7. \A q \in Channel : Pending(q)' \subseteq Pending(q)
  <2>1. \A c \in Dispatcher : Safe(th[c], th'[c])
    BY <1>5, <1>6, DispatcherThread DEF Safe
  <2>. QED BY <1>3, <2>1, PendingShrinks DEF Stays
<1>8. ASSUME NEW q \in Channel PROVE owed'[q] >= Cardinality(Pending(q)')
  <2>1. PICK A : A = Pending(q)
    OBVIOUS
  <2>2. PICK B : B = Pending(q)'
    OBVIOUS
  <2>3. B \subseteq A /\ IsFiniteSet(A) /\ owed[q] \in Int /\ owed[q] >= Cardinality(A)
    BY <1>0, <1>7, <2>1, <2>2, PendingFinite DEF CallbackInv
  <2>4. CASE q = p /\ de[e].type = "USERREQCALLBACK"
    <3>1. Calls(th[d], e) /\ Once(e)
      BY <1>2, <1>3, <2>4 DEF Calls, EntryInv
    <3>2. Keeping(th[d], e)
      BY <1>2, <1>3 DEF Keeping
    <3>3. e \notin ToSet(inq'[p]) \cup ToSet(outq'[p])
      BY <1>0, <1>3, <3>1, <3>2 DEF Once, Queued
    <3>4. e \in A /\ e \notin B
      BY <1>1, <1>3, <1>5, <2>1, <2>2, <2>4, <3>1, <3>3, CalledOff
    <3>5. owed[q] - 1 >= Cardinality(B)
      BY <2>3, <3>4, CountDrops
    <3>. QED BY <1>0, <1>3, <2>2, <2>4, <3>5
  <2>5. CASE ~(q = p /\ de[e].type = "USERREQCALLBACK")
    <3>1. owed'[q] = owed[q]
      BY <1>0, <1>3, <2>5
    <3>. QED BY <2>2, <2>3, <3>1, CountStays
  <2>. QED BY <2>4, <2>5
<1>9. \A q \in Channel : ContentOK(q)'
  BY <1>3 DEF CallbackInv, ContentOK
<1>. QED BY <1>0, <1>5, <1>6, <1>8, <1>9, RestOfInv

LEMMA OwedCallbackQueued ==
    ASSUME TypeInv, EntryInv, CallbackInv, NEW d \in Dispatcher, CallbackQueued(d)
    PROVE  CallbackInv'
<1>0. d \in Thread /\ Threads(th) /\ owed \in [Channel -> Int]
  BY DispatcherThread DEF TypeInv, RestOK
<1>1. PICK p : p = th[d].ph
  OBVIOUS
<1>2. PICK e : e = th[d].cur
  OBVIOUS
<1>3. /\ th[d] \in ThreadState /\ th[d].pc = "callbackqueued" /\ p \in Channel /\ e \in Entry
      /\ UNCHANGED <<outq, inq, de>> /\ Goto(d, "done")
      /\ owed' = [owed EXCEPT ![p] = IF th[d].rc # "OK" THEN @ - 1 ELSE @]
  BY <1>0, <1>1, <1>2, QueuesStay DEF CallbackQueued, CallDirectly, At, Threads, ThreadOK, AtRest
<1>4. JobsOK(d, th[d])
  BY <1>0 DEF CallbackInv
<1>5. PICK s : s = [th[d] EXCEPT !.pc = "done"]
  OBVIOUS
<1>6. s.pc = "done" /\ s.todo = th[d].todo /\ s.cont = th[d].cont
      /\ th' = [th EXCEPT ![d] = s]
  BY <1>0, <1>3, <1>5 DEF ThreadState, Goto, Threads
<1>7. JobsOK(d, s) /\ NoCall(s)
  BY <1>4, <1>6 DEF JobsOK, NoCall, NotQueued, Before
<1>8. th'[d] = s /\ \A u \in Thread \ {d} : th'[u] = th[u]
  BY <1>0, <1>6 DEF Threads
<1>9. \A q \in Channel : Pending(q)' \subseteq Pending(q)
  <2>1. \A c \in Dispatcher : Safe(th[c], th'[c])
    BY <1>7, <1>8, DispatcherThread DEF Safe
  <2>. QED BY <1>3, <2>1, PendingShrinks DEF Stays
<1>10. ASSUME NEW q \in Channel PROVE owed'[q] >= Cardinality(Pending(q)')
  <2>1. PICK A : A = Pending(q)
    OBVIOUS
  <2>2. PICK B : B = Pending(q)'
    OBVIOUS
  <2>3. B \subseteq A /\ IsFiniteSet(A) /\ owed[q] \in Int /\ owed[q] >= Cardinality(A)
    BY <1>0, <1>9, <2>1, <2>2, PendingFinite DEF CallbackInv
  <2>4. CASE q = p /\ th[d].rc # "OK"
    <3>1. Calls(th[d], e) /\ Once(e)
      BY <1>2, <1>3, <2>4 DEF Calls, EntryInv
    <3>2. Keeping(th[d], e)
      BY <1>2, <1>3 DEF Keeping
    <3>3. e \notin ToSet(inq'[p]) \cup ToSet(outq'[p])
      BY <1>0, <1>3, <3>1, <3>2 DEF Once, Queued
    <3>4. e \in A /\ e \notin B
      BY <1>1, <1>3, <1>6, <1>7, <2>1, <2>2, <2>4, <3>1, <3>3, CalledOff
    <3>5. owed[q] - 1 >= Cardinality(B)
      BY <2>3, <3>4, CountDrops
    <3>. QED BY <1>0, <1>3, <2>2, <2>4, <3>5
  <2>5. CASE ~(q = p /\ th[d].rc # "OK")
    <3>1. owed'[q] = owed[q]
      BY <1>0, <1>3, <2>5
    <3>. QED BY <2>2, <2>3, <3>1, CountStays
  <2>. QED BY <2>4, <2>5
<1>11. \A q \in Channel : ContentOK(q)'
  BY <1>3 DEF CallbackInv, ContentOK
<1>. QED BY <1>0, <1>7, <1>8, <1>10, <1>11, RestOfInv


\* The callback of a command that is cleared is called
LEMMA OwedClearIn ==
    ASSUME TypeInv, EntryInv, CallbackInv, NEW t \in Thread, ClearIn(t), inq[th[t].ph] # <<>>
    PROVE  CallbackInv'
<1>1. PICK p : p = th[t].ph
  OBVIOUS
<1>2. PICK e : e = Head(inq[p])
  OBVIOUS
<1>3. /\ inq \in [Channel -> Seq(Entry)] /\ owed \in [Channel -> Int]
      /\ de \in [Entry -> EntryContents]
      /\ p \in Channel /\ inq[p] # <<>>
      /\ inq' = [inq EXCEPT ![p] = Tail(inq[p])] /\ Cleared(e) /\ UNCHANGED <<th, outq>>
      /\ owed' = [owed EXCEPT ![p] = IF de[e].cb THEN @ - 1 ELSE @]
      /\ IsInjective(inq[p])
  BY <1>1, <1>2, QueueTypes
     DEF ClearIn, At, TypeInv, Threads, ThreadOK, RestOK, AtRest, EntryInv, QueuesOnce
<1>4. e \in ToSet(inq[p]) /\ e \in Entry /\ ToSet(Tail(inq[p])) = ToSet(inq[p]) \ {e}
  BY <1>2, <1>3, TailSet, ToSetElements
<1>5. inq'[p] = Tail(inq[p]) /\ \A q \in Channel \ {p} : inq'[q] = inq[q]
  BY <1>3
<1>6. Once(e) /\ e \in Queued(p)
  BY <1>4 DEF EntryInv, Queued
<1>7. /\ \A f \in Entry \ {e} : de'[f] = de[f]
      /\ Stays(e)
  <2>1. CASE de[e].noreturn
    <3>1. de' = [de EXCEPT ![e].waiting = FALSE]
      BY <1>3, <2>1 DEF Cleared
    <3>. QED BY <1>3, <1>4, <3>1 DEF Stays, EntryContents
  <2>2. CASE ~de[e].noreturn
    <3>1. de' = [de EXCEPT ![e] = Nothing]
      BY <1>3, <2>2 DEF Cleared, Returned
    <3>2. de'[e] = Nothing /\ Nothing.type = "NOTHING" /\ ~Nothing.cb
      BY <1>3, <1>4, <3>1 DEF Nothing
    <3>. QED BY <1>3, <3>1, <3>2 DEF Stays
  <2>. QED BY <2>1, <2>2
<1>8. \A q \in Channel : /\ ToSet(inq'[q]) \subseteq ToSet(inq[q]) \ {e}
                         /\ ToSet(outq'[q]) \subseteq ToSet(outq[q]) \ {e}
  BY <1>3, <1>4, <1>5, <1>6 DEF Once, Queued
<1>9. \A q \in Channel : Pending(q)' \subseteq Pending(q)
  <2>1. \A f \in Entry : Stays(f)
    BY <1>7 DEF Stays
  <2>2. \A c \in Dispatcher : Safe(th[c], th'[c])
    BY <1>3 DEF Safe
  <2>. QED BY <1>8, <2>1, <2>2, PendingShrinks
<1>10. ASSUME NEW q \in Channel PROVE owed'[q] >= Cardinality(Pending(q)')
  <2>1. PICK A : A = Pending(q)
    OBVIOUS
  <2>2. PICK B : B = Pending(q)'
    OBVIOUS
  <2>3. B \subseteq A /\ IsFiniteSet(A) /\ owed[q] \in Int /\ owed[q] >= Cardinality(A)
    BY <1>3, <1>9, <2>1, <2>2, PendingFinite DEF CallbackInv
  <2>4. CASE q = p /\ de[e].cb
    <3>1. e \in A
      BY <1>4, <2>1, <2>4 DEF Pending
    <3>2. \A d \in Dispatcher : ~Keeping(th[d], e)
      BY <1>3, <1>6, DispatcherThread DEF Once
    <3>3. \A d \in Dispatcher : ~Calls(th[d], e)'
      BY <1>3, <3>2 DEF Calls, Keeping, NotQueued, Before
    <3>4. e \notin B
      BY <1>3, <1>8, <2>2, <2>4, <3>3 DEF Pending
    <3>5. owed[q] - 1 >= Cardinality(B)
      BY <2>3, <3>1, <3>4, CountDrops
    <3>. QED BY <1>3, <2>2, <2>4, <3>5
  <2>5. CASE ~(q = p /\ de[e].cb)
    <3>1. owed'[q] = owed[q]
      BY <1>3, <2>5
    <3>. QED BY <2>2, <2>3, <3>1, CountStays
  <2>. QED BY <2>4, <2>5
<1>11. \A q \in Channel : ContentOK(q)'
  <2>1. \A q \in Channel : ToSet(inq[q]) \cup ToSet(outq[q]) \subseteq Entry
    BY QueueTypes, ToSetElements
  <2>. QED BY <1>7, <1>8, <2>1 DEF CallbackInv, ContentOK
<1>12. \A u \in Thread : JobsOK(u, th[u])'
  BY <1>3 DEF CallbackInv, JobsOK
<1>. QED BY <1>10, <1>11, <1>12 DEF CallbackInv

LEMMA OwedDequeue ==
    ASSUME TypeInv, EntryInv, CallbackInv, NEW d \in Dispatcher, Dequeue(d)
    PROVE  CallbackInv'
<1>0. d \in Thread
  BY DispatcherThread
<1>1. PICK p : p = th[d].ph
  OBVIOUS
<1>2. PICK b \in BOOLEAN : b = th[d].out
  BY <1>0 DEF TypeInv, Threads, ThreadState
<1>3. PICK q : q = IF b THEN outq[p] ELSE inq[p]
  OBVIOUS
<1>4. PICK e : e = Head(q)
  OBVIOUS
<1>5. PICK s : s = [th[d] EXCEPT !.pc = "exec", !.cur = e, !.returnde = ~de[e].noreturn]
  OBVIOUS
<1>6. /\ outq \in [Channel -> Seq(Entry)] /\ inq \in [Channel -> Seq(Entry)]
      /\ th \in [Thread -> ThreadState] /\ owed \in [Channel -> Int]
      /\ p \in Channel /\ th[d].pc = "serve" /\ q # <<>> /\ q \in Seq(Entry) /\ IsInjective(q)
  BY <1>0, <1>1, <1>2, <1>3, QueueTypes
     DEF Dequeue, At, TypeInv, Threads, ThreadOK, RestOK, AtRest, EntryInv, QueuesOnce
<1>7. /\ outq' = IF b THEN [outq EXCEPT ![p] = Tail(q)] ELSE outq
      /\ inq' = IF b THEN inq ELSE [inq EXCEPT ![p] = Tail(q)]
      /\ th' = [th EXCEPT ![d] = s]
      /\ UNCHANGED <<de, owed>>
  BY <1>0, <1>1, <1>2, <1>3, <1>4, <1>5, <1>6, OwedStays DEF Dequeue
<1>8. s.pc = "exec" /\ s.cur = e /\ s.ph = p /\ s.todo = th[d].todo /\ s.cont = th[d].cont
  BY <1>0, <1>1, <1>5, <1>6 DEF ThreadState
<1>9. e \in ToSet(q) /\ e \in Entry /\ ToSet(Tail(q)) = ToSet(q) \ {e}
  BY <1>4, <1>6, TailSet, ToSetElements
<1>10. th'[d] = s /\ \A u \in Thread \ {d} : th'[u] = th[u]
  BY <1>0, <1>6, <1>7
<1>11. \A r \in Channel : /\ ToSet(outq'[r]) \subseteq ToSet(outq[r])
                          /\ ToSet(inq'[r]) \subseteq ToSet(inq[r])
  BY <1>3, <1>6, <1>7, <1>9
<1>12. ASSUME NEW r \in Channel, NEW f \in Pending(r)' PROVE f \in Pending(r)
  <2>1. CASE f \in ToSet(inq'[r]) /\ de'[f].cb
    BY <1>7, <1>11, <1>12, <2>1 DEF Pending
  <2>2. CASE f \in ToSet(outq'[r]) /\ de'[f].type = "USERREQCALLBACK"
    BY <1>7, <1>11, <1>12, <2>2 DEF Pending
  <2>3. CASE \E c \in Dispatcher \ {d} : th'[c].ph = r /\ Calls(th[c], f)'
    BY <1>7, <1>10, <1>12, <2>3, DispatcherThread DEF Pending, Calls
  <2>4. CASE th'[d].ph = r /\ Calls(th[d], f)'
    <3>1. f = e /\ r = p /\ (de[e].type = "USERREQCALLBACK" \/ IsAsync(de[e]))
      BY <1>7, <1>8, <1>10, <2>4 DEF Calls, NotQueued, Before
    <3>2. ContentOK(p)
      BY <1>6 DEF CallbackInv
    <3>3. CASE b
      <4>1. e \in ToSet(outq[p]) /\ de[e].type \in OutTypes
        BY <1>3, <1>9, <3>2, <3>3 DEF ContentOK
      <4>2. de[e].type = "USERREQCALLBACK"
        BY <3>1, <4>1 DEF IsAsync, OutTypes
      <4>. QED BY <1>9, <3>1, <4>1, <4>2 DEF Pending
    <3>4. CASE ~b
      <4>1. e \in ToSet(inq[p]) /\ de[e].type \in InTypes
        BY <1>3, <1>9, <3>2, <3>4 DEF ContentOK
      <4>2. de[e].cb
        BY <3>1, <4>1 DEF IsAsync, InTypes
      <4>. QED BY <1>9, <3>1, <4>1, <4>2 DEF Pending
    <3>. QED BY <3>3, <3>4
  <2>. QED BY <1>12, <2>1, <2>2, <2>3, <2>4 DEF Pending
<1>13. ASSUME NEW r \in Channel PROVE owed'[r] >= Cardinality(Pending(r)')
  <2>1. PICK A : A = Pending(r)
    OBVIOUS
  <2>2. PICK B : B = Pending(r)'
    OBVIOUS
  <2>3. B \subseteq A /\ IsFiniteSet(A) /\ owed[r] \in Int /\ owed[r] >= Cardinality(A)
    BY <1>6, <1>12, <2>1, <2>2, PendingFinite DEF CallbackInv
  <2>. QED BY <1>7, <2>2, <2>3, CountStays
<1>14. \A r \in Channel : ContentOK(r)'
  BY <1>7, <1>11 DEF CallbackInv, ContentOK
<1>15. JobsOK(d, s)
  <2>1. JobsOK(d, th[d])
    BY <1>0 DEF CallbackInv
  <2>. QED BY <1>6, <1>8, <2>1 DEF JobsOK, Inserting
<1>. QED BY <1>0, <1>10, <1>13, <1>14, <1>15, RestOfInv


\* A command with a callback is a new callback that is owed.  The callback of a
\* request that is executed goes from the entry of the request to that of an event.
LEMMA OwedInsertAppend ==
    ASSUME TypeInv, EntryInv, CallbackInv, NEW t \in Thread, InsertAppend(t)
    PROVE  CallbackInv'
<1>1. PICK e : e = th[t].req
  OBVIOUS
<1>2. PICK p : p = th[t].ph
  OBVIOUS
<1>3. PICK s : s = [th[t] EXCEPT !.pc = "mark"]
  OBVIOUS
<1>4. PICK job : job = Head(th[t].todo)
  OBVIOUS
<1>5. /\ th[t] \in ThreadState /\ th[t].pc = "insert" /\ e \in Entry /\ p \in Channel
      /\ ThreadOK(t, th[t]) /\ Threads(th) /\ owed \in [Channel -> Int] /\ UNCHANGED <<de, free>>
  BY <1>1, <1>2 DEF InsertAppend, At, TypeInv, RestOK, Threads, ThreadOK, AtRest, Inserting, Filling
<1>6. /\ s.pc = "mark" /\ s.todo = th[t].todo /\ s.cont = th[t].cont /\ s.cur = th[t].cur
      /\ s.ph = p /\ th' = [th EXCEPT ![t] = s]
  BY <1>2, <1>3, <1>5 DEF ThreadState, InsertAppend, Goto, Threads
<1>7. th'[t] = s /\ \A u \in Thread \ {t} : th'[u] = th[u]
  BY <1>5, <1>6 DEF Threads
<1>8. JobsOK(t, th[t]) /\ JobsOK(t, s) /\ NoCall(s)
  <2>1. NoCall(s)
    BY <1>6 DEF NoCall, NotQueued, Before
  <2>2. Flow(t, s)
    BY <1>2, <1>5, <1>6, InsertingFlow DEF Inserting, NotQueued, Before
  <2>. QED BY <2>1, <2>2 DEF CallbackInv, Flow
<1>9. /\ th[t].todo \in Seq(JobType) /\ th[t].todo # <<>> /\ Len(th[t].todo) \in Nat
      /\ 1 \in 1..Len(th[t].todo) /\ job = th[t].todo[1] /\ job \in JobType
  <2>1. th[t].todo \in Seq(JobType) /\ th[t].todo # <<>>
    BY <1>5 DEF ThreadOK, ThreadState, Inserting
  <2>. QED BY <1>4, <2>1, HeadTailProperties, LenProperties, EmptySeq
<1>10. /\ InsertOK(th[t]) /\ Once(e) /\ Keeping(th[t], e)
       /\ de[e] = Filled(job) /\ th[t].cur # e
  BY <1>1, <1>4, <1>5 DEF EntryInv, Keeping, InsertOK, Before
<1>11. /\ de[e].type = job.type /\ de[e].type \in EntryType /\ de[e].cb = job.cb
       /\ de[e].inbound = (job.type \in InTypes)
  BY <1>9, <1>10 DEF Filled, JobType
<1>12. e \notin ToSet(outq[p]) \cup ToSet(inq[p])
  BY <1>5, <1>10 DEF Once, Queued
<1>13. PICK b \in BOOLEAN : /\ b = de[e].inbound
                            /\ inq' = IF b THEN [inq EXCEPT ![p] = Append(inq[p], e)] ELSE inq
                            /\ outq' = IF b THEN outq ELSE [outq EXCEPT ![p] = Append(outq[p], e)]
  <2>1. de[e].inbound \in BOOLEAN
    BY <1>10 DEF Filled
  <2>. QED BY <1>1, <1>2, <2>1 DEF InsertAppend
<1>14. /\ \A q \in Channel \ {p} : inq'[q] = inq[q] /\ outq'[q] = outq[q]
       /\ inq'[p] = IF b THEN Append(inq[p], e) ELSE inq[p]
       /\ outq'[p] = IF b THEN outq[p] ELSE Append(outq[p], e)
       /\ outq[p] \in Seq(Entry) /\ inq[p] \in Seq(Entry)
  BY <1>5, <1>13, QueueTypes
<1>15. /\ ToSet(inq'[p]) = ToSet(inq[p]) \cup (IF b THEN {e} ELSE {})
       /\ ToSet(outq'[p]) = ToSet(outq[p]) \cup (IF b THEN {} ELSE {e})
  BY <1>5, <1>14, AppendSet
<1>16. owed' = [owed EXCEPT ![p] = IF de[e].type = "USERREQ" /\ de[e].cb THEN @ + 1 ELSE @]
  BY <1>1, <1>2 DEF InsertAppend
<1> DEFINE new == (b /\ de[e].cb) \/ (~b /\ de[e].type = "USERREQCALLBACK")
<1>17. ASSUME NEW q \in Channel, NEW f \in Pending(q)'
       PROVE  f \in Pending(q) \/ (f = e /\ q = p /\ new)
  <2>1. CASE f \in ToSet(inq'[q]) /\ de'[f].cb
    BY <1>5, <1>14, <1>15, <1>17, <2>1 DEF Pending
  <2>2. CASE f \in ToSet(outq'[q]) /\ de'[f].type = "USERREQCALLBACK"
    BY <1>5, <1>14, <1>15, <1>17, <2>2 DEF Pending
  <2>3. ASSUME NEW d \in Dispatcher, th'[d].ph = q, Calls(th[d], f)'
        PROVE  f \in Pending(q)
    <3>1. d # t
      BY <1>7, <1>8, <1>17, <2>3, ConstantsAssumption
         DEF Pending, Calls, NoCall, NotQueued, Before
    <3>2. th'[d] = th[d]
      BY <1>7, <3>1, DispatcherThread
    <3>. QED BY <1>5, <1>17, <2>3, <3>2 DEF Pending, Calls
  <2>. QED BY <1>17, <2>1, <2>2, <2>3 DEF Pending
<1>18. ASSUME NEW q \in Channel PROVE owed'[q] >= Cardinality(Pending(q)')
  <2>1. PICK A : A = Pending(q)
    OBVIOUS
  <2>2. PICK B : B = Pending(q)'
    OBVIOUS
  <2>3. B \subseteq A \cup {e} /\ IsFiniteSet(A) /\ owed[q] \in Int /\ owed[q] >= Cardinality(A)
    BY <1>5, <1>17, <2>1, <2>2, PendingFinite DEF CallbackInv
  <2>4. CASE q = p /\ b /\ de[e].cb
    <3>1. de[e].type = "USERREQ"
      BY <1>8, <1>9, <1>11, <1>13, <2>4 DEF JobsOK, InTypes
    <3>2. owed'[q] = owed[q] + 1
      BY <1>5, <1>16, <2>4, <3>1
    <3>. QED BY <2>2, <2>3, <3>2, CountGrows
  <2>5. CASE q = p /\ ~b /\ de[e].type = "USERREQCALLBACK"
    <3>1. PICK c : c = th[t].cur
      OBVIOUS
    <3>2. th[t].cont = "callbackqueued" /\ t \in Dispatcher
      BY <1>8, <1>9, <1>11, <2>5 DEF JobsOK
    <3>3. c \in Entry /\ c # e
      BY <1>5, <1>10, <3>1, <3>2 DEF ThreadOK, AtRest
    <3>4. Calls(th[t], c) /\ Keeping(th[t], c) /\ Once(c)
      BY <1>5, <3>1, <3>2, <3>3 DEF Calls, Keeping, NotQueued, Before, EntryInv
    <3>5. c \notin ToSet(inq'[p]) \cup ToSet(outq'[p])
      BY <1>5, <1>15, <3>3, <3>4 DEF Once, Queued
    <3>6. c \in A /\ c \notin B
      BY <1>2, <1>5, <1>6, <1>8, <2>1, <2>2, <2>5, <3>2, <3>3, <3>4, <3>5, CalledOff
    <3>7. owed[q] - 1 >= Cardinality(A \ {c})
      BY <2>3, <3>6, CountDrops
    <3>8. IsFiniteSet(A \ {c}) /\ B \subseteq (A \ {c}) \cup {e}
      BY <2>3, <3>6, FS_Subset
    <3>9. PICK n \in Int : n = owed[q] - 1
      BY <2>3
    <3>10. n + 1 >= Cardinality(B)
      BY <3>7, <3>8, <3>9, CountGrows
    <3>11. owed'[q] = owed[q] /\ n + 1 = owed[q]
      BY <1>5, <1>16, <2>3, <2>5, <3>9
    <3>. QED BY <2>2, <3>10, <3>11
  <2>6. CASE ~(q = p /\ new)
    <3>1. B \subseteq A
      BY <1>17, <2>1, <2>2, <2>6
    <3>2. owed'[q] = owed[q]
      BY <1>5, <1>11, <1>13, <1>16, <2>6 DEF InTypes
    <3>. QED BY <2>2, <2>3, <3>1, <3>2, CountStays
  <2>. QED BY <2>4, <2>5, <2>6
<1>19. ASSUME NEW q \in Channel PROVE ContentOK(q)'
  <2>1. ContentOK(q)
    BY DEF CallbackInv
  <2>2. b => de[e].type \in InTypes
    BY <1>11, <1>13
  <2>3. ~b => de[e].type \in OutTypes
    BY <1>11, <1>13 DEF EntryType
  <2>4. q # p => inq'[q] = inq[q] /\ outq'[q] = outq[q]
    BY <1>14
  <2>. QED BY <1>5, <1>15, <2>1, <2>2, <2>3, <2>4 DEF ContentOK
<1>. QED BY <1>7, <1>8, <1>18, <1>19, RestOfInv

-----------------------------------------------------------------------------
(* The invariant *)

LEMMA InitCallback == Init => CallbackInv
<1> SUFFICES ASSUME Init PROVE CallbackInv
  OBVIOUS
<1>1. ASSUME NEW t \in Thread
      PROVE  /\ th[t].cur = NoEntry /\ th[t].todo = <<>> /\ th[t].cont \in {"none", "idle"}
  BY DEF Init, Idle
<1>2. ASSUME NEW t \in Thread PROVE JobsOK(t, th[t])
  <2>1. Len(<<>>) = 0
    OBVIOUS
  <2>. QED BY <1>1, <2>1 DEF JobsOK
<1>3. ASSUME NEW p \in Channel PROVE owed[p] >= Cardinality(Pending(p)) /\ ContentOK(p)
  <2>1. outq[p] = <<>> /\ inq[p] = <<>> /\ owed[p] = 0
    BY DEF Init
  <2>2. ToSet(outq[p]) = {} /\ ToSet(inq[p]) = {}
    BY <2>1 DEF ToSet
  <2>3. \A d \in Dispatcher, e \in Entry : ~Calls(th[d], e)
    BY <1>1, DispatcherThread, ConstantsAssumption DEF Calls
  <2>4. Pending(p) = {}
    BY <2>2, <2>3 DEF Pending
  <2>. QED BY <2>1, <2>2, <2>4, FS_EmptySet DEF ContentOK
<1>. QED BY <1>2, <1>3 DEF CallbackInv

LEMMA InsertionCallback ==
    ASSUME TypeInv, EntryInv, CallbackInv, NEW t \in Thread, Insertion(t) \/ TimesOut(t)
    PROVE  CallbackInv'
<1>1. CASE InsertAppend(t)
  BY <1>1, OwedInsertAppend
<1>2. CASE ClearIn(t) /\ inq[th[t].ph] # <<>>
  BY <1>2, OwedClearIn
<1>. QED BY <1>1, <1>2, FlowInsertion

LEMMA NextCallback == TypeInv /\ EntryInv /\ CallbackInv /\ [Next]_vars => CallbackInv'
<1> SUFFICES ASSUME TypeInv, EntryInv, CallbackInv, [Next]_vars PROVE CallbackInv'
  OBVIOUS
<1>1. CASE \E t \in Thread : Insertion(t) \/ TimesOut(t)
  BY <1>1, InsertionCallback
<1>2. CASE \E d \in Dispatcher : DispatcherLoop(d)
  BY <1>2, FlowLoop, OwedDequeue
<1>3. CASE \E d \in Dispatcher : Execution(d)
  BY <1>3, FlowExecution, OwedCallbackQueued, OwedCallback
<1>4. CASE Attaching \/ (\E t \in User \cup {Central} : Closing(t)) \/ Environment
  BY <1>4, FlowAttaching, FlowUsers
<1>5. CASE UNCHANGED vars
  <2>1. UNCHANGED <<outq, inq, de, owed>> /\ th' = th
    BY <1>5 DEF vars, queues, history
  <2>2. FlowTo(th')
    BY <2>1, FlowSame DEF FlowTo
  <2>. QED BY <2>1, <2>2, FlowQuietStep
<1>. QED BY <1>1, <1>2, <1>3, <1>4, <1>5 DEF Next

\* The inductive invariant: a channel owes at least as many callbacks as there are
\* entries that stand for one
THEOREM CallbackInvariant == Spec => [](TypeInv /\ EntryInv /\ CallbackInv)
<1>1. TypeInv /\ EntryInv /\ CallbackInv /\ [Next]_vars => TypeInv' /\ EntryInv' /\ CallbackInv'
  BY NextType, NextEntry, NextCallback
<1>. QED BY <1>1, InitType, InitEntry, InitCallback, PTL DEF Spec

LEMMA OwedIsNotNegative == TypeInv /\ CallbackInv => CallbackAtMostOnce
<1> SUFFICES ASSUME TypeInv, CallbackInv, NEW p \in Channel PROVE owed[p] >= 0
  BY DEF CallbackAtMostOnce
<1>1. PICK n : n = Cardinality(Pending(p))
  OBVIOUS
<1>2. n \in Nat /\ owed[p] \in Int /\ owed[p] >= n
  BY <1>1, PendingFinite DEF TypeInv, RestOK, CallbackInv
<1>. QED BY <1>2

\* For every number of entries, channels and threads, the callback of an asynchronous
\* request is called at most once, whether by the dispatcher that takes its event from
\* the queue, by the one that could not queue the event, or by the thread that clears
\* the queue of a channel that detaches or is closed.
THEOREM CalledOnce == Spec => []CallbackAtMostOnce
BY CallbackInvariant, OwedIsNotNegative, PTL

=============================================================================
