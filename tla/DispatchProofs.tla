--------------------------- MODULE DispatchProofs ---------------------------
(***************************************************************************)
(* What is proved about the dispatcher for any channels, threads and jobs: *)
(* the types, and who drains the queues of a channel.  The last sections   *)
(* say where each thread can be (Shapes) and how a step moves the threads, *)
(* for the modules that build on this one.                                 *)
(***************************************************************************)
EXTENDS Dispatch, SequenceTheorems, TLAPS

LEMMA RemoveAtProperties ==
    ASSUME NEW S, NEW s \in Seq(S), NEW i \in 1..Len(s)
    PROVE  /\ RemoveAt(s, i) \in Seq(S)
           /\ Len(RemoveAt(s, i)) = Len(s) - 1
           /\ \A j \in 1..Len(s) - 1 :
                RemoveAt(s, i)[j] = IF j < i THEN s[j] ELSE s[j + 1]
<1> DEFINE a == SubSeq(s, 1, i - 1)
           b == SubSeq(s, i + 1, Len(s))
<1>1. /\ a \in Seq(S) /\ Len(a) = i - 1
      /\ \A j \in 1..i - 1 : a[j] = s[j]
    BY SubSeqProperties, ElementOfSeq
<1>2. /\ b \in Seq(S) /\ Len(b) = Len(s) - i
      /\ \A j \in 1..Len(s) - i : b[j] = s[i + j]
    BY SubSeqProperties, ElementOfSeq
<1>3. /\ a \o b \in Seq(S)
      /\ Len(a \o b) = Len(a) + Len(b)
      /\ \A j \in 1..Len(a) + Len(b) :
            (a \o b)[j] = IF j <= Len(a) THEN a[j] ELSE b[j - Len(a)]
    BY <1>1, <1>2, ConcatProperties
<1>4. RemoveAt(s, i) = a \o b
    BY DEF RemoveAt
<1>. HIDE DEF a, b
<1>5. Len(a \o b) = Len(s) - 1
    BY <1>1, <1>2, <1>3
<1>6. ASSUME NEW j \in 1..Len(s) - 1
      PROVE  (a \o b)[j] = IF j < i THEN s[j] ELSE s[j + 1]
  <2>1. CASE j < i
    BY <2>1, <1>1, <1>2, <1>3
  <2>2. CASE ~(j < i)
    <3>1. j - (i - 1) \in 1..Len(s) - i
      BY <2>2
    <3>2. b[j - (i - 1)] = s[i + (j - (i - 1))]
      BY <3>1, <1>2
    <3>. QED BY <2>2, <3>2, <1>1, <1>2, <1>3
  <2>. QED BY <2>1, <2>2
<1>. QED BY <1>3, <1>4, <1>5, <1>6

LEMMA Pred == ASSUME NEW n \in Nat, n > 1 PROVE n - 1 # 0
OBVIOUS

LEMMA TailProperties ==
    ASSUME NEW S, NEW s \in Seq(S), s # <<>>
    PROVE  /\ Tail(s) \in Seq(S)
           /\ Len(s) > 1 => Tail(s) # <<>>
<1>1. Tail(s) \in Seq(S) /\ Len(Tail(s)) = Len(s) - 1
  BY HeadTailProperties
<1>2. ASSUME Len(s) > 1 PROVE Tail(s) # <<>>
  <2>1. Len(s) - 1 # 0
    BY <1>2, LenProperties, Pred
  <2>. QED BY <1>1, <2>1, EmptySeq
<1>. QED BY <1>1, <1>2

-----------------------------------------------------------------------------
(* The inductive invariant of the types                                    *)

Threads(h) ==
    /\ h \in [Thread -> ThreadState]
    /\ \A t \in Thread : ThreadOK(t, h[t])

\* TypeOK, except for the threads
RestOK ==
    /\ flags \in [Channel -> SUBSET Flag]
    /\ slot \in [Channel -> {"none", "parent", "held"}]
    /\ outq \in [Channel -> Seq(Entry)]
    /\ inq \in [Channel -> Seq(Entry)]
    /\ outList \in Seq(Channel)
    /\ inList \in Seq(Channel)
    /\ dlock \in Dispatcher \cup {NoThread}
    /\ de \in [Entry -> EntryContents]
    /\ free \in SUBSET Entry
    /\ left \in [User \cup Source -> Nat]
    /\ attaches \in [Channel -> Nat]
    /\ view \in [Channel -> {"attached", "detached"}]
    /\ owed \in [Channel -> Int]

TypeInv == RestOK /\ Threads(th)

LEMMA TypeInvTypeOK == TypeInv => TypeOK
BY DEF TypeInv, RestOK, Threads, TypeOK

LEMMA PCs ==
    /\ Cont \subseteq PC
    /\ {"none", "loop", "wait", "scan", "serve", "leave", "exec", "done"} \subseteq PC
    /\ {"callback", "called", "callbackqueued", "enablefailed", "attacherror"} \subseteq PC
    /\ {"idle", "get", "insert", "purge", "drop", "mark", "listout", "listin"} \subseteq PC
    /\ {"signal", "answer", "clearout", "clearin", "attaching", "slot", "attach"} \subseteq PC
    /\ {"wake", "detachwait", "detaching", "detach", "unslot", "close", "closeslot"} \subseteq PC
    /\ "closing" \in PC
BY DEF PC, Cont

\* Only thread t changes, and its new record is as it should be
LEMMA ThreadChanges ==
    ASSUME NEW h, Threads(h), NEW t \in Thread, NEW r, ThreadOK(t, r)
    PROVE  Threads([h EXCEPT ![t] = r])
BY DEF Threads, ThreadOK

LEMMA IdleOK ==
    ASSUME NEW t \in Thread, NEW where \in {"none", "loop", "wait", "idle"}
    PROVE  Idle(where) \in ThreadState /\ ThreadOK(t, Idle(where))
<1>1. <<>> \in Seq(JobType)
    OBVIOUS
<1>2. where \in PC /\ where \in Cont
    BY PCs DEF Cont
<1>3. Idle(where) \in ThreadState
    BY <1>1, <1>2 DEF ThreadState, Idle
<1>4. Idle(where).pc = where
    BY DEF Idle
<1>5. ThreadOK(t, Idle(where))
    BY <1>3, <1>4 DEF ThreadOK, AtRest, Inserting, Filling
<1>. QED BY <1>3, <1>5

\* JobDone leads to the next job, or to where the caller goes on
LEMMA JobDoneOK ==
    ASSUME Threads(th), NEW t \in Thread, th[t].pc \in Inserting,
           NEW r \in {"OK", "AGAIN", "NOTATTACHED", "NOSPC", "TIMEOUT"}
    PROVE  Threads(JobDone(t, r))
<1>1. CASE Len(th[t].todo) = 1 /\ th[t].cont = "idle"
  <2>1. ThreadOK(t, Idle("idle"))
    BY IdleOK
  <2>2. JobDone(t, r) = [th EXCEPT ![t] = Idle("idle")]
    BY <1>1 DEF JobDone
  <2>3. Threads([th EXCEPT ![t] = Idle("idle")])
    BY <2>1, ThreadChanges
  <2>. QED BY <2>2, <2>3
<1>2. CASE ~(Len(th[t].todo) = 1 /\ th[t].cont = "idle")
  <2> DEFINE s == [th[t] EXCEPT
                     !.pc = IF Len(th[t].todo) > 1 THEN "get" ELSE th[t].cont,
                     !.todo = Tail(th[t].todo), !.req = NoEntry, !.rc = r]
  <2>1. th[t] \in ThreadState /\ th[t].todo \in Seq(JobType) /\ th[t].todo # <<>>
    BY DEF Threads, ThreadOK, ThreadState
  <2>2. /\ Tail(th[t].todo) \in Seq(JobType)
        /\ Len(th[t].todo) > 1 => Tail(th[t].todo) # <<>>
    BY <2>1, TailProperties
  <2>3. (IF Len(th[t].todo) > 1 THEN "get" ELSE th[t].cont) \in PC
    BY <2>1, PCs DEF ThreadState
  <2>4. s \in ThreadState
    BY <2>1, <2>2, <2>3 DEF ThreadState
  <2>5. th[t].cont \notin Filling /\ s.pc \notin Filling
    BY <2>1 DEF ThreadState, Cont, Inserting, Filling
  <2>6. th[t].ph \in Channel /\ (t \in Dispatcher => th[t].cur \in Entry)
    BY DEF Threads, ThreadOK, AtRest, Inserting
  <2>7. ThreadOK(t, s)
    BY <2>1, <2>2, <2>4, <2>5, <2>6 DEF ThreadOK, ThreadState, AtRest, Inserting, Filling, Cont
  <2>8. JobDone(t, r) = [th EXCEPT ![t] = s]
    BY <1>2, <2>1 DEF JobDone, Threads
  <2>9. Threads([th EXCEPT ![t] = s])
    BY <2>7, ThreadChanges
  <2>. QED BY <2>8, <2>9
<1>. QED BY <1>1, <1>2

\* A thread goes from one of its steps to another
LEMMA GotoOK ==
    ASSUME Threads(th), NEW t \in Thread, NEW where \in PC, Goto(t, where),
           th[t].pc \notin AtRest,
           where # "scan",
           where \in Inserting => th[t].pc \in Inserting,
           where \in Filling => th[t].req \in Entry,
           t \in Dispatcher /\ where \notin AtRest \cup {"serve", "leave"}
             => th[t].pc \notin {"serve", "leave"}
    PROVE  Threads(th')
<1> DEFINE r == [th[t] EXCEPT !.pc = where]
<1>1. r \in ThreadState
  BY DEF Threads, ThreadState
<1>2. ThreadOK(t, r)
  BY <1>1 DEF Threads, ThreadOK, ThreadState
<1>3. th' = [th EXCEPT ![t] = r]
  BY DEF Goto, Threads
<1>. QED BY <1>2, <1>3, ThreadChanges

\* A thread goes back to its caller
LEMMA BackOK ==
    ASSUME Threads(th), NEW t \in Thread, th[t].pc \notin AtRest \cup {"serve", "leave"}, Back(t)
    PROVE  Threads(th')
<1>1. CASE th[t].cont = "idle"
  BY <1>1, IdleOK, ThreadChanges DEF Back
<1>2. CASE th[t].cont # "idle"
  <2>1. th[t].cont \in PC /\ th[t].cont \notin Inserting \cup {"scan"}
    BY PCs DEF Threads, ThreadState, Cont, Inserting
  <2>. QED BY <1>2, <2>1, GotoOK DEF Back, Filling, AtRest
<1>. QED BY <1>1, <1>2

\* A thread starts jobs, or some other operation on a channel
LEMMA StartsOK ==
    ASSUME Threads(th), NEW t \in Thread, NEW p \in Channel, NEW jobs \in Seq(JobType),
           NEW first \in PC, NEW cont \in Cont, Starts(t, p, jobs, first, cont),
           (first = "get" /\ jobs # <<>>) \/ first \notin Inserting \cup {"scan"},
           t \in Dispatcher => th[t].cur \in Entry
    PROVE  Threads(th')
<1> DEFINE r == [th[t] EXCEPT !.pc = first, !.ph = p, !.todo = jobs, !.cont = cont]
<1>1. r \in ThreadState
  BY DEF Threads, ThreadState
<1>2. ThreadOK(t, r)
  BY <1>1 DEF Threads, ThreadOK, ThreadState, Filling, Inserting
<1>3. th' = [th EXCEPT ![t] = r]
  BY DEF Starts, Threads
<1>. QED BY <1>2, <1>3, ThreadChanges

LEMMA WaitingWakes ==
    ASSUME NEW h, Threads(h), NEW d \in Dispatcher, h[d].pc \in {"none", "wait"}
    PROVE  Threads([h EXCEPT ![d].pc = "loop"])
<1> DEFINE r == [h[d] EXCEPT !.pc = "loop"]
<1>1. d \in Thread
  BY DEF Thread
<1>2. r \in ThreadState
  BY <1>1, PCs DEF Threads, ThreadState
<1>3. ThreadOK(d, r)
  BY <1>1, <1>2 DEF Threads, ThreadOK, ThreadState, AtRest, Inserting, Filling
<1>4. [h EXCEPT ![d].pc = "loop"] = [h EXCEPT ![d] = r]
  BY <1>1 DEF Threads
<1>. QED BY <1>1, <1>3, <1>4, ThreadChanges

LEMMA SignalOK ==
    ASSUME NEW h, Threads(h), Signal(h)
    PROVE  Threads(th')
<1>1. CASE th' = h
  BY <1>1
<1>2. ASSUME NEW d \in Waiting(h), th' = [h EXCEPT ![d].pc = "loop"]
      PROVE  Threads(th')
  <2>1. d \in Dispatcher /\ h[d].pc \in {"none", "wait"}
    BY DEF Waiting
  <2>2. Threads([h EXCEPT ![d].pc = "loop"])
    BY <2>1, WaitingWakes
  <2>. QED BY <1>2, <2>2
<1>. QED BY <1>1, <1>2 DEF Signal

LEMMA JobOK ==
    ASSUME Threads(th), NEW t \in Thread, th[t].pc \in Inserting
    PROVE  Job1(t) \in JobType
<1>1. th[t].todo \in Seq(JobType) /\ th[t].todo # <<>>
  BY DEF Threads, ThreadOK, ThreadState
<1>. QED BY <1>1, HeadTailProperties DEF Job1

\* Entries return to the pool
LEMMA ReturnedOK ==
    ASSUME RestOK, NEW e \in Entry, Returned(e)
    PROVE  de' \in [Entry -> EntryContents] /\ free' \in SUBSET Entry
<1>1. Nothing \in EntryContents
  BY DEF Nothing, EntryContents, EntryType
<1>. QED BY <1>1 DEF RestOK, Returned

-----------------------------------------------------------------------------
(* Every step keeps the types *)

LEMMA QueuesUnchanged ==
    ASSUME RestOK, UNCHANGED <<queues, slot, dlock, bounds, history>>
    PROVE  RestOK'
BY DEF RestOK, queues, bounds, history

LEMMA InsertionType ==
    ASSUME TypeInv, NEW t \in Thread, Insertion(t) \/ TimesOut(t)
    PROVE  TypeInv'
<1>0. RestOK /\ Threads(th) /\ th[t] \in ThreadState /\ ThreadOK(t, th[t])
  BY DEF TypeInv, Threads
<1> DEFINE p == th[t].ph
<1>1. ASSUME GetEntry(t) PROVE TypeInv'
  <2>1. PICK e \in free : /\ free' = free \ {e}
                          /\ de' = [de EXCEPT ![e] = Filled(Job1(t))]
                          /\ th' = [th EXCEPT ![t].pc = "insert", ![t].req = e]
    BY <1>1 DEF GetEntry
  <2>2. e \in Entry
    BY <1>0 DEF RestOK
  <2>3. Job1(t) \in JobType
    BY <1>0, <1>1, JobOK DEF GetEntry, At, Inserting
  <2>4. Filled(Job1(t)) \in EntryContents
    BY <2>3 DEF Filled, EntryContents, JobType
  <2> DEFINE r == [th[t] EXCEPT !.pc = "insert", !.req = e]
  <2>5. r \in ThreadState
    BY <2>2, <1>0, PCs DEF ThreadState
  <2>6. ThreadOK(t, r)
    BY <2>2, <2>5, <1>0, <1>1 DEF GetEntry, At, ThreadOK, AtRest, Inserting, Filling, ThreadState
  <2>7. th' = [th EXCEPT ![t] = r]
    BY <2>1, <1>0 DEF Threads
  <2>8. Threads(th')
    BY <2>6, <2>7, <1>0, ThreadChanges
  <2>9. RestOK'
    BY <1>0, <1>1, <2>1, <2>4 DEF GetEntry, RestOK, bounds, history
  <2>. QED BY <2>8, <2>9 DEF TypeInv
<1>2. ASSUME GetEntryFails(t) PROVE TypeInv'
  <2>1. Threads(JobDone(t, "AGAIN")) /\ th' = JobDone(t, "AGAIN")
    BY <1>0, <1>2, JobDoneOK DEF GetEntryFails, At, Inserting
  <2>. QED BY <1>0, <1>2, <2>1, QueuesUnchanged DEF GetEntryFails, TypeInv
<1>3. ASSUME InsertRefused(t) PROVE TypeInv'
  <2> DEFINE r == [th[t] EXCEPT !.pc = "purge", !.rc = "NOTATTACHED"]
  <2>1. r \in ThreadState
    BY <1>0, PCs DEF ThreadState
  <2>2. ThreadOK(t, r)
    BY <2>1, <1>0, <1>3 DEF InsertRefused, At, ThreadOK, AtRest, Inserting, Filling, ThreadState
  <2>3. th' = [th EXCEPT ![t] = r]
    BY <1>0, <1>3 DEF InsertRefused, Threads
  <2>4. Threads(th')
    BY <2>2, <2>3, <1>0, ThreadChanges
  <2>. QED BY <1>0, <1>3, <2>4, QueuesUnchanged DEF InsertRefused, TypeInv
<1>4. ASSUME InsertNoSpace(t) PROVE TypeInv'
  <2> DEFINE r == [th[t] EXCEPT !.pc = "drop", !.rc = "NOSPC"]
  <2>1. r \in ThreadState
    BY <1>0, PCs DEF ThreadState
  <2>2. ThreadOK(t, r)
    BY <2>1, <1>0, <1>4 DEF InsertNoSpace, At, ThreadOK, AtRest, Inserting, Filling, ThreadState
  <2>3. th' = [th EXCEPT ![t] = r]
    BY <1>0, <1>4 DEF InsertNoSpace, Threads
  <2>4. Threads(th')
    BY <2>2, <2>3, <1>0, ThreadChanges
  <2>. QED BY <1>0, <1>4, <2>4, QueuesUnchanged DEF InsertNoSpace, TypeInv
<1>5. ASSUME InsertAppend(t) PROVE TypeInv'
  <2>1. th[t].req \in Entry /\ p \in Channel
    BY <1>0, <1>5 DEF InsertAppend, At, ThreadOK, AtRest, Inserting, Filling
  <2>2. Append(outq[p], th[t].req) \in Seq(Entry) /\ Append(inq[p], th[t].req) \in Seq(Entry)
    BY <2>1, <1>0, AppendProperties DEF RestOK
  <2>3. outq' \in [Channel -> Seq(Entry)] /\ inq' \in [Channel -> Seq(Entry)]
    <3>1. outq \in [Channel -> Seq(Entry)] /\ inq \in [Channel -> Seq(Entry)]
      BY <1>0 DEF RestOK
    <3>2. IF de[th[t].req].inbound
             THEN inq' = [inq EXCEPT ![p] = Append(inq[p], th[t].req)] /\ outq' = outq
             ELSE outq' = [outq EXCEPT ![p] = Append(outq[p], th[t].req)] /\ inq' = inq
      BY <1>5 DEF InsertAppend
    <3>. QED BY <3>1, <3>2, <2>1, <2>2
  <2>4. owed' \in [Channel -> Int]
    BY <1>0, <1>5, <2>1 DEF InsertAppend, RestOK
  <2>5. RestOK'
    BY <1>0, <1>5, <2>3, <2>4 DEF InsertAppend, RestOK, bounds
  <2>6. Threads(th')
    BY <1>0, <1>5, <2>1, GotoOK, PCs DEF InsertAppend, At, AtRest, Inserting, Filling
  <2>. QED BY <2>5, <2>6 DEF TypeInv
<1>6. ASSUME Purge(t) PROVE TypeInv'
  <2>1. p \in Channel /\ th[t].pc \in Inserting /\ th[t].rc \in {"OK", "AGAIN", "NOTATTACHED", "NOSPC", "TIMEOUT"}
    BY <1>0, <1>6 DEF Purge, At, ThreadOK, AtRest, Inserting, ThreadState
  <2>2. CASE outq[p] = <<>>
    <3>1. RestOK'
      BY <1>0, <1>6, <2>2 DEF Purge, RestOK, bounds, history
    <3>2. CASE Dropped(t)
      <4>1. th' = JobDone(t, th[t].rc)
        BY <1>6, <2>2, <3>2 DEF Purge
      <4>2. Threads(JobDone(t, th[t].rc))
        BY <1>0, <2>1, JobDoneOK
      <4>. QED BY <3>1, <4>1, <4>2 DEF TypeInv
    <3>3. CASE ~Dropped(t)
      <4>1. th[t].req \in Entry
        BY <1>0, <3>3 DEF Dropped, ThreadState
      <4>2. Goto(t, "drop")
        BY <1>6, <2>2, <3>3 DEF Purge
      <4>3. Threads(th')
        BY <1>0, <1>6, <4>1, <4>2, GotoOK, PCs DEF Purge, At, AtRest, Inserting, Filling
      <4>. QED BY <3>1, <4>3 DEF TypeInv
    <3>. QED BY <3>2, <3>3
  <2>3. CASE outq[p] # <<>>
    <3>1. Head(outq[p]) \in Entry /\ Tail(outq[p]) \in Seq(Entry)
      BY <1>0, <2>1, <2>3, HeadTailProperties DEF RestOK
    <3>2. Returned(Head(outq[p])) /\ outq' = [outq EXCEPT ![p] = Tail(@)] /\ UNCHANGED th
      BY <1>6, <2>3 DEF Purge, TakeFirst
    <3>3. de' \in [Entry -> EntryContents] /\ free' \in SUBSET Entry
      BY <1>0, <3>1, <3>2, ReturnedOK
    <3>4. RestOK'
      BY <1>0, <1>6, <3>1, <3>2, <3>3 DEF Purge, RestOK, bounds, history
    <3>. QED BY <1>0, <3>2, <3>4 DEF TypeInv
  <2>. QED BY <2>2, <2>3
<1>7. ASSUME Drop(t) PROVE TypeInv'
  <2>1. th[t].req \in Entry /\ p \in Channel /\ th[t].pc \in Inserting
        /\ th[t].rc \in {"OK", "AGAIN", "NOTATTACHED", "NOSPC", "TIMEOUT"}
    BY <1>0, <1>7 DEF Drop, At, ThreadOK, AtRest, Inserting, Filling, ThreadState
  <2>2. de' \in [Entry -> EntryContents] /\ free' \in SUBSET Entry
    BY <1>0, <1>7, <2>1, ReturnedOK DEF Drop
  <2>3. RestOK'
    BY <1>0, <1>7, <2>2 DEF Drop, RestOK, bounds, history
  <2>4. CASE th' = JobDone(t, th[t].rc)
    <3>1. Threads(JobDone(t, th[t].rc))
      BY <1>0, <2>1, JobDoneOK
    <3>. QED BY <2>3, <2>4, <3>1 DEF TypeInv
  <2>5. CASE th' = [th EXCEPT ![t].pc = "purge", ![t].req = NoEntry]
    <3> DEFINE r == [th[t] EXCEPT !.pc = "purge", !.req = NoEntry]
    <3>1. r \in ThreadState
      BY <1>0, PCs DEF ThreadState
    <3>2. ThreadOK(t, r)
      BY <3>1, <1>0, <1>7 DEF Drop, At, ThreadOK, AtRest, Inserting, Filling, ThreadState
    <3>3. th' = [th EXCEPT ![t] = r]
      BY <1>0, <2>5 DEF Threads
    <3>4. Threads(th')
      BY <3>2, <3>3, <1>0, ThreadChanges
    <3>. QED BY <2>3, <3>4 DEF TypeInv
  <2>. QED BY <1>7, <2>4, <2>5 DEF Drop
<1>8. ASSUME Mark(t) PROVE TypeInv'
  <2> DEFINE f == IF de[th[t].req].inbound THEN "DISPATCHIN" ELSE "DISPATCHOUT"
             where == IF ~FirstToSet(p, f) THEN "signal"
                      ELSE IF f = "DISPATCHIN" THEN "listin" ELSE "listout"
  <2>1. f \in Flag /\ where \in {"signal", "listin", "listout"}
    BY DEF Flag
  <2>2. flags' = [flags EXCEPT ![p] = @ \cup {f}] /\ Goto(t, where)
    BY <1>8 DEF Mark
  <2> HIDE DEF f, where
  <2>3. flags' \in [Channel -> SUBSET Flag]
    BY <1>0, <2>1, <2>2 DEF RestOK
  <2>4. RestOK'
    BY <1>0, <1>8, <2>3 DEF Mark, RestOK, bounds, history
  <2>5. where \in PC /\ where \in Inserting /\ where # "scan" /\ th[t].req \in Entry
        /\ th[t].pc \notin AtRest \cup {"serve", "leave"} /\ th[t].pc \in Inserting
    BY <1>0, <1>8, <2>1, PCs DEF Mark, At, ThreadOK, AtRest, Inserting, Filling
  <2>6. Threads(th')
    BY <1>0, <2>2, <2>5, GotoOK
  <2>. QED BY <2>4, <2>6 DEF TypeInv
<1>9. ASSUME PutOnOutList(t) PROVE TypeInv'
  <2>1. th[t].req \in Entry /\ p \in Channel
    BY <1>0, <1>9 DEF PutOnOutList, At, ThreadOK, AtRest, Inserting, Filling
  <2>2. Append(outList, p) \in Seq(Channel)
    BY <1>0, <2>1, AppendProperties DEF RestOK
  <2>3. RestOK'
    BY <1>0, <1>9, <2>2 DEF PutOnOutList, RestOK, bounds, history
  <2>4. Threads(th')
    BY <1>0, <1>9, <2>1, GotoOK, PCs DEF PutOnOutList, At, AtRest, Inserting, Filling
  <2>. QED BY <2>3, <2>4 DEF TypeInv
<1>10. ASSUME PutOnInList(t) PROVE TypeInv'
  <2>1. th[t].req \in Entry /\ p \in Channel
    BY <1>0, <1>10 DEF PutOnInList, At, ThreadOK, AtRest, Inserting, Filling
  <2>2. Append(inList, p) \in Seq(Channel)
    BY <1>0, <2>1, AppendProperties DEF RestOK
  <2>3. RestOK'
    BY <1>0, <1>10, <2>2 DEF PutOnInList, RestOK, bounds, history
  <2>4. Threads(th')
    BY <1>0, <1>10, <2>1, GotoOK, PCs DEF PutOnInList, At, AtRest, Inserting, Filling
  <2>. QED BY <2>3, <2>4 DEF TypeInv
<1>11. ASSUME EntryDispatched(t) PROVE TypeInv'
  <2> DEFINE next == IF Job1(t) = SyncRequest THEN [th EXCEPT ![t].pc = "answer"] ELSE JobDone(t, "OK")
             r == [th[t] EXCEPT !.pc = "answer"]
  <2>1. th[t].pc = "signal"
    BY <1>11 DEF EntryDispatched, At
  <2>2. ThreadOK(t, r)
    <3>1. r \in ThreadState
      BY <1>0, PCs DEF ThreadState
    <3>. QED BY <1>0, <2>1, <3>1 DEF ThreadOK, AtRest, Inserting, Filling, ThreadState
  <2>3. [th EXCEPT ![t].pc = "answer"] = [th EXCEPT ![t] = r]
    BY <1>0 DEF Threads
  <2>4. Threads([th EXCEPT ![t] = r])
    BY <1>0, <2>2, ThreadChanges
  <2>5. Threads(JobDone(t, "OK"))
    BY <1>0, <2>1, JobDoneOK DEF Inserting
  <2>6. Threads(next)
    BY <2>3, <2>4, <2>5
  <2>7. \A d \in Dispatcher \ Dispatchers : d # t /\ next[d].pc = "none" /\ d \in Dispatcher
    <3>1. SUFFICES ASSUME NEW d \in Dispatcher \ Dispatchers PROVE d # t /\ next[d].pc = "none"
      OBVIOUS
    <3>2. d # t /\ d \in Thread /\ th[d].pc = "none"
      BY <2>1 DEF Dispatchers, At, Thread
    <3>3. next[d] = th[d]
      BY <1>0, <3>2 DEF JobDone, Threads
    <3>. QED BY <3>2, <3>3
  <2>8. IF NotBusy = {} /\ Dispatchers # Dispatcher
        THEN \E d \in Dispatcher \ Dispatchers : th' = [next EXCEPT ![d].pc = "loop"]
        ELSE Signal(next)
    BY <1>11 DEF EntryDispatched
  <2> HIDE DEF next
  <2>9. ASSUME NEW d \in Dispatcher \ Dispatchers, th' = [next EXCEPT ![d].pc = "loop"]
        PROVE  Threads(th')
    <3>1. Threads([next EXCEPT ![d].pc = "loop"])
      BY <2>6, <2>7, WaitingWakes
    <3>. QED BY <2>9, <3>1
  <2>10. ASSUME Signal(next) PROVE Threads(th')
    BY <2>6, <2>10, SignalOK
  <2>11. Threads(th')
    BY <2>8, <2>9, <2>10
  <2>. QED BY <1>0, <1>11, <2>11, QueuesUnchanged DEF EntryDispatched, TypeInv
<1>12. ASSUME Answered(t) PROVE TypeInv'
  <2>1. th[t].req \in Entry /\ th[t].pc \in Inserting
    BY <1>0, <1>12 DEF Answered, At, ThreadOK, AtRest, Inserting, Filling
  <2>2. de' \in [Entry -> EntryContents] /\ free' \in SUBSET Entry
    BY <1>0, <1>12, <2>1, ReturnedOK DEF Answered
  <2>3. RestOK'
    BY <1>0, <1>12, <2>2 DEF Answered, RestOK, bounds, history
  <2>4. Threads(JobDone(t, "OK")) /\ th' = JobDone(t, "OK")
    BY <1>0, <1>12, <2>1, JobDoneOK DEF Answered
  <2>. QED BY <2>3, <2>4 DEF TypeInv
<1>13. ASSUME ClearOut(t) PROVE TypeInv'
  <2>1. p \in Channel /\ th[t].pc = "clearout"
    BY <1>0, <1>13 DEF ClearOut, At, ThreadOK, AtRest
  <2>2. CASE outq[p] = <<>>
    <3>1. Goto(t, "clearin") /\ UNCHANGED <<outq, de, free>>
      BY <1>13, <2>2 DEF ClearOut
    <3>2. RestOK'
      BY <1>0, <1>13, <3>1 DEF ClearOut, RestOK, bounds, history
    <3>3. Threads(th')
      BY <1>0, <2>1, <3>1, GotoOK, PCs DEF AtRest, Inserting, Filling
    <3>. QED BY <3>2, <3>3 DEF TypeInv
  <2>3. CASE outq[p] # <<>>
    <3>1. Head(outq[p]) \in Entry /\ Tail(outq[p]) \in Seq(Entry)
      BY <1>0, <2>1, <2>3, HeadTailProperties DEF RestOK
    <3>2. Returned(Head(outq[p])) /\ outq' = [outq EXCEPT ![p] = Tail(@)] /\ UNCHANGED th
      BY <1>13, <2>3 DEF ClearOut, TakeFirst
    <3>3. de' \in [Entry -> EntryContents] /\ free' \in SUBSET Entry
      BY <1>0, <3>1, <3>2, ReturnedOK
    <3>4. RestOK'
      BY <1>0, <1>13, <3>1, <3>2, <3>3 DEF ClearOut, RestOK, bounds, history
    <3>. QED BY <1>0, <3>2, <3>4 DEF TypeInv
  <2>. QED BY <2>2, <2>3
<1>14. ASSUME ClearIn(t) PROVE TypeInv'
  <2>1. p \in Channel /\ th[t].pc = "clearin"
    BY <1>0, <1>14 DEF ClearIn, At, ThreadOK, AtRest
  <2>2. CASE inq[p] = <<>>
    <3>1. RestOK'
      BY <1>0, <1>14, <2>2 DEF ClearIn, RestOK, bounds, history
    <3>2. Back(t)
      BY <1>14, <2>2 DEF ClearIn
    <3>3. Threads(th')
      BY <1>0, <2>1, <3>2, BackOK DEF AtRest
    <3>. QED BY <3>1, <3>3 DEF TypeInv
  <2>3. CASE inq[p] # <<>>
    <3> DEFINE e == Head(inq[p])
    <3>1. e \in Entry /\ Tail(inq[p]) \in Seq(Entry)
      BY <1>0, <2>1, <2>3, HeadTailProperties DEF RestOK
    <3>2. Cleared(e) /\ inq' = [inq EXCEPT ![p] = Tail(@)] /\ UNCHANGED th
          /\ owed' = [owed EXCEPT ![p] = IF de[e].cb THEN @ - 1 ELSE @]
      BY <1>14, <2>3 DEF ClearIn
    <3>3. de' \in [Entry -> EntryContents] /\ free' \in SUBSET Entry
      <4>1. CASE de[e].noreturn
        <5>1. de' = [de EXCEPT ![e].waiting = FALSE] /\ UNCHANGED free
          BY <3>2, <4>1 DEF Cleared
        <5>. QED BY <1>0, <3>1, <5>1 DEF RestOK, EntryContents
      <4>2. CASE ~de[e].noreturn
        <5>1. Returned(e)
          BY <3>2, <4>2 DEF Cleared
        <5>. QED BY <1>0, <3>1, <5>1, ReturnedOK
      <4>. QED BY <4>1, <4>2
    <3>4. owed' \in [Channel -> Int]
      BY <1>0, <2>1, <3>2 DEF RestOK
    <3>5. RestOK'
      BY <1>0, <1>14, <3>1, <3>2, <3>3, <3>4 DEF ClearIn, RestOK, bounds
    <3>. QED BY <1>0, <3>2, <3>5 DEF TypeInv
  <2>. QED BY <2>2, <2>3
<1>15. ASSUME TimesOut(t) PROVE TypeInv'
  <2>1. th[t].req \in Entry /\ th[t].pc \in Inserting
    BY <1>0, <1>15 DEF TimesOut, At, ThreadOK, AtRest, Inserting, Filling
  <2>2. de' \in [Entry -> EntryContents]
    <3> DEFINE c == [de[th[t].req] EXCEPT !.noreturn = FALSE]
    <3>1. de[th[t].req] \in EntryContents
      BY <1>0, <2>1 DEF RestOK
    <3>3. c \in EntryContents
      BY <3>1 DEF EntryContents
    <3>2. de' = [de EXCEPT ![th[t].req] = c]
      BY <1>15 DEF TimesOut
    <3>. QED BY <1>0, <3>2, <3>3 DEF RestOK
  <2>3. RestOK'
    BY <1>0, <1>15, <2>2 DEF TimesOut, RestOK, bounds, history
  <2>4. Threads(JobDone(t, "TIMEOUT")) /\ th' = JobDone(t, "TIMEOUT")
    BY <1>0, <1>15, <2>1, JobDoneOK DEF TimesOut
  <2>. QED BY <2>3, <2>4 DEF TypeInv
<1>. QED BY <1>1, <1>2, <1>3, <1>4, <1>5, <1>6, <1>7, <1>8, <1>9, <1>10, <1>11, <1>12, <1>13,
            <1>14, <1>15 DEF Insertion

LEMMA LoopType ==
    ASSUME TypeInv, NEW d \in Dispatcher, DispatcherLoop(d)
    PROVE  TypeInv'
<1>0. RestOK /\ Threads(th) /\ d \in Thread /\ th[d] \in ThreadState /\ ThreadOK(d, th[d])
  BY DEF TypeInv, Threads, Thread
<1> DEFINE p == th[d].ph
<1>1. ASSUME Exit(d) PROVE TypeInv'
  <2> DEFINE r == [th[d] EXCEPT !.pc = "none"]
  <2>1. r \in ThreadState
    BY <1>0, PCs DEF ThreadState
  <2>2. ThreadOK(d, r)
    BY <2>1, <1>0 DEF ThreadOK, AtRest, Inserting, Filling, ThreadState
  <2>3. Threads([th EXCEPT ![d] = r]) /\ [th EXCEPT ![d].pc = "none"] = [th EXCEPT ![d] = r]
    BY <1>0, <2>2, ThreadChanges DEF Threads
  <2>4. Signal([th EXCEPT ![d].pc = "none"])
    BY <1>1 DEF Exit
  <2>5. Threads([th EXCEPT ![d].pc = "none"])
    BY <2>3
  <2>6. Threads(th')
    BY <2>4, <2>5, SignalOK
  <2>. QED BY <1>0, <1>1, <2>6, QueuesUnchanged DEF Exit, TypeInv
<1>2. ASSUME TakeIn(d) PROVE TypeInv'
  <2>1. Head(inList) \in Channel /\ Tail(inList) \in Seq(Channel)
    BY <1>0, <1>2, HeadTailProperties DEF TakeIn, RestOK
  <2> DEFINE r == [th[d] EXCEPT !.pc = "serve", !.ph = Head(inList), !.out = FALSE]
  <2>2. r \in ThreadState
    BY <1>0, <2>1, PCs DEF ThreadState
  <2>3. ThreadOK(d, r)
    BY <2>1, <2>2, <1>0 DEF ThreadOK, AtRest, Inserting, Filling, ThreadState
  <2>4. th' = [th EXCEPT ![d] = r]
    BY <1>0, <1>2 DEF TakeIn, Threads
  <2>5. Threads(th')
    BY <1>0, <2>3, <2>4, ThreadChanges
  <2>6. RestOK'
    BY <1>0, <1>2, <2>1 DEF TakeIn, RestOK, bounds, history
  <2>. QED BY <2>5, <2>6 DEF TypeInv
<1>3. ASSUME ScanStart(d) PROVE TypeInv'
  <2> DEFINE r == [th[d] EXCEPT !.pc = "scan", !.at = 1]
  <2>1. r \in ThreadState
    BY <1>0, PCs DEF ThreadState
  <2>2. ThreadOK(d, r)
    BY <2>1, <1>0 DEF ThreadOK, AtRest, Inserting, Filling, ThreadState
  <2>3. th' = [th EXCEPT ![d] = r]
    BY <1>0, <1>3 DEF ScanStart, Threads
  <2>4. Threads(th')
    BY <1>0, <2>2, <2>3, ThreadChanges
  <2>5. RestOK'
    BY <1>0, <1>3 DEF ScanStart, RestOK, queues, bounds, history
  <2>. QED BY <2>4, <2>5 DEF TypeInv
<1>4. ASSUME ScanTake(d) PROVE TypeInv'
  <2> DEFINE i == th[d].at
             r == [th[d] EXCEPT !.pc = "serve", !.ph = outList[i], !.out = TRUE, !.at = 0]
  <2>1. i \in 1..Len(outList) /\ outList \in Seq(Channel)
    BY <1>0, <1>4, LenProperties DEF ScanTake, At, ThreadOK, ThreadState, RestOK
  <2>2. outList[i] \in Channel /\ RemoveAt(outList, i) \in Seq(Channel)
    BY <2>1, RemoveAtProperties, ElementOfSeq
  <2>3. r \in ThreadState
    BY <1>0, <2>2, PCs DEF ThreadState
  <2>4. ThreadOK(d, r)
    BY <2>2, <2>3, <1>0 DEF ThreadOK, AtRest, Inserting, Filling, ThreadState
  <2>5. th' = [th EXCEPT ![d] = r] /\ outList' = RemoveAt(outList, i) /\ dlock' = NoThread
    BY <1>0, <1>4 DEF ScanTake, Threads
  <2>6. Threads(th')
    BY <1>0, <2>4, <2>5, ThreadChanges
  <2>7. RestOK'
    BY <1>0, <1>4, <2>2, <2>5 DEF ScanTake, RestOK, bounds, history
  <2>. QED BY <2>6, <2>7 DEF TypeInv
<1>5. ASSUME ScanSkip(d) PROVE TypeInv'
  <2> DEFINE i == th[d].at
             q == outList[i]
             r == [th[d] EXCEPT !.at = i + 1]
  <2>1. i \in 1..Len(outList) /\ outList \in Seq(Channel) /\ i \in Nat
    BY <1>0, <1>5, LenProperties DEF ScanSkip, At, ThreadOK, ThreadState, RestOK
  <2>2. q \in Channel /\ RemoveAt(outList, i) \in Seq(Channel)
    BY <2>1, RemoveAtProperties, ElementOfSeq
  <2>3. CASE Has(q, {"OPEN"})
    <3>1. th' = [th EXCEPT ![d].at = i + 1] /\ UNCHANGED <<flags, outList>>
      BY <1>5, <2>3 DEF ScanSkip
    <3>2. r \in ThreadState
      BY <1>0, <2>1 DEF ThreadState
    <3>3. ThreadOK(d, r)
      BY <1>0, <1>5, <2>1, <3>2 DEF ScanSkip, At, ThreadOK, AtRest, Inserting, Filling, ThreadState
    <3>4. th' = [th EXCEPT ![d] = r]
      BY <1>0, <3>1 DEF Threads
    <3>5. Threads(th')
      BY <1>0, <3>3, <3>4, ThreadChanges
    <3>6. RestOK'
      BY <1>0, <1>5, <3>1 DEF ScanSkip, RestOK, bounds, history
    <3>. QED BY <3>5, <3>6 DEF TypeInv
  <2>4. CASE ~Has(q, {"OPEN"})
    <3>1. outList' = RemoveAt(outList, i) /\ flags' = [flags EXCEPT ![q] = @ \ {"DISPATCHOUT"}]
          /\ UNCHANGED th
      BY <1>5, <2>4 DEF ScanSkip
    <3>2. RestOK'
      BY <1>0, <1>5, <2>2, <3>1 DEF ScanSkip, RestOK, bounds, history
    <3>. QED BY <1>0, <3>1, <3>2 DEF TypeInv
  <2>. QED BY <2>3, <2>4
<1>6. ASSUME ScanEnd(d) PROVE TypeInv'
  <2>1. Threads(th')
    BY <1>0, <1>6, IdleOK, ThreadChanges DEF ScanEnd
  <2>2. RestOK'
    BY <1>0, <1>6 DEF ScanEnd, RestOK, queues, bounds, history
  <2>. QED BY <2>1, <2>2 DEF TypeInv
<1>7. ASSUME Dequeue(d) PROVE TypeInv'
  <2> DEFINE q == IF th[d].out THEN outq[p] ELSE inq[p]
             r == [th[d] EXCEPT !.pc = "exec", !.cur = Head(q), !.returnde = ~de[Head(q)].noreturn]
  <2>1. p \in Channel /\ th[d].pc = "serve"
    BY <1>0, <1>7 DEF Dequeue, At, ThreadOK, AtRest
  <2>2. q \in Seq(Entry) /\ q # <<>>
    BY <1>0, <1>7, <2>1 DEF Dequeue, RestOK
  <2>3. Head(q) \in Entry /\ Tail(q) \in Seq(Entry)
    BY <2>2, HeadTailProperties
  <2>4. IF th[d].out
        THEN outq' = [outq EXCEPT ![p] = Tail(q)] /\ UNCHANGED inq
        ELSE inq' = [inq EXCEPT ![p] = Tail(q)] /\ UNCHANGED outq
    BY <1>7 DEF Dequeue
  <2>5. th' = [th EXCEPT ![d] = r]
    BY <1>0, <1>7 DEF Dequeue, Threads
  <2> HIDE DEF q
  <2>6. RestOK'
    <3>1. outq \in [Channel -> Seq(Entry)] /\ inq \in [Channel -> Seq(Entry)]
      BY <1>0 DEF RestOK
    <3>2. outq' \in [Channel -> Seq(Entry)] /\ inq' \in [Channel -> Seq(Entry)]
      BY <2>3, <2>4, <3>1
    <3>. QED BY <1>0, <1>7, <3>2 DEF Dequeue, RestOK, bounds, history
  <2>7. (~de[Head(q)].noreturn) \in BOOLEAN
    OBVIOUS
  <2>8. r \in ThreadState
    BY <1>0, <2>3, <2>7, PCs DEF ThreadState
  <2>9. ThreadOK(d, r)
    BY <1>0, <2>1, <2>3, <2>8 DEF ThreadOK, AtRest, Inserting, Filling, ThreadState
  <2>10. Threads(th')
    BY <1>0, <2>5, <2>9, ThreadChanges
  <2>. QED BY <2>6, <2>10 DEF TypeInv
<1>8. ASSUME Unflag(d) PROVE TypeInv'
  <2>1. RestOK'
    BY <1>0, <1>8 DEF Unflag, RestOK, bounds, history
  <2>2. Threads(th')
    BY <1>0, <1>8, GotoOK, PCs DEF Unflag, At, AtRest, Inserting, Filling
  <2>. QED BY <2>1, <2>2 DEF TypeInv
<1>9. ASSUME Leave(d) PROVE TypeInv'
  <2>1. Threads(th')
    BY <1>0, <1>9, IdleOK, ThreadChanges DEF Leave
  <2>. QED BY <1>0, <1>9, <2>1, QueuesUnchanged DEF Leave, TypeInv
<1>10. ASSUME EntryDone(d) PROVE TypeInv'
  <2> DEFINE r == [Idle("serve") EXCEPT !.ph = p, !.out = th[d].out]
  <2>1. th[d].cur \in Entry /\ p \in Channel
    BY <1>0, <1>10 DEF EntryDone, At, ThreadOK, AtRest
  <2>2. de' \in [Entry -> EntryContents] /\ free' \in SUBSET Entry
    <3>1. CASE Returned(th[d].cur)
      BY <1>0, <2>1, <3>1, ReturnedOK
    <3>2. CASE UNCHANGED <<de, free>>
      BY <1>0, <3>2 DEF RestOK
    <3>. QED BY <1>10, <3>1, <3>2 DEF EntryDone
  <2>3. RestOK'
    BY <1>0, <1>10, <2>2 DEF EntryDone, RestOK, bounds, history
  <2>4. r.pc = "serve" /\ r.ph = p
    BY DEF Idle
  <2>5. r \in ThreadState
    <3>1. <<>> \in Seq(JobType) /\ "serve" \in PC /\ "serve" \in Cont
      BY PCs DEF Cont
    <3>. QED BY <1>0, <2>1, <3>1 DEF ThreadState, Idle
  <2>6. ThreadOK(d, r)
    BY <2>1, <2>4, <2>5 DEF ThreadOK, AtRest, Inserting, Filling
  <2>7. th' = [th EXCEPT ![d] = r]
    BY <1>10 DEF EntryDone
  <2>8. Threads(th')
    BY <1>0, <2>6, <2>7, ThreadChanges
  <2>. QED BY <2>3, <2>8 DEF TypeInv
<1>. QED BY <1>1, <1>2, <1>3, <1>4, <1>5, <1>6, <1>7, <1>8, <1>9, <1>10 DEF DispatcherLoop

LEMMA ExecutionType ==
    ASSUME TypeInv, NEW d \in Dispatcher, Execution(d)
    PROVE  TypeInv'
<1>0. RestOK /\ Threads(th) /\ d \in Thread /\ th[d] \in ThreadState /\ ThreadOK(d, th[d])
  BY DEF TypeInv, Threads, Thread
<1> DEFINE p == th[d].ph
<1>1. ASSUME ExecAttachFails(d) PROVE TypeInv'
  <2> DEFINE r == [th[d] EXCEPT !.pc = "clearout", !.cont = "attacherror"]
  <2>1. r \in ThreadState
    BY <1>0, PCs DEF ThreadState, Cont
  <2>2. ThreadOK(d, r)
    BY <2>1, <1>0, <1>1 DEF ExecAttachFails, Executing, At, ThreadOK, AtRest, Inserting, Filling, ThreadState
  <2>3. th' = [th EXCEPT ![d] = r]
    BY <1>0, <1>1 DEF ExecAttachFails, Threads
  <2>4. Threads(th')
    BY <2>2, <2>3, <1>0, ThreadChanges
  <2>. QED BY <1>0, <1>1, <2>4, QueuesUnchanged DEF ExecAttachFails, TypeInv
<1>2. ASSUME ExecEvent(d) PROVE TypeInv'
  <2>1. RestOK'
    BY <1>0, <1>2 DEF ExecEvent, RestOK, bounds, history
  <2>2. Threads(th')
    BY <1>0, <1>2, GotoOK, PCs DEF ExecEvent, Executing, At, AtRest, Inserting, Filling
  <2>. QED BY <2>1, <2>2 DEF TypeInv
<1>3. ASSUME ExecInternal(d) PROVE TypeInv'
  <2>1. Threads(th')
    BY <1>0, <1>3, GotoOK, PCs DEF ExecInternal, Executing, At, AtRest, Inserting, Filling
  <2>. QED BY <1>0, <1>3, <2>1, QueuesUnchanged DEF ExecInternal, TypeInv
<1>4. ASSUME ExecRequest(d) PROVE TypeInv'
  <2> DEFINE c == [de[th[d].cur] EXCEPT !.waiting = FALSE]
  <2>1. th[d].cur \in Entry
    BY <1>0, <1>4 DEF ExecRequest, Executing, At, ThreadOK, AtRest
  <2>2. de[th[d].cur] \in EntryContents
    BY <1>0, <2>1 DEF RestOK
  <2>3. c \in EntryContents
    BY <2>2 DEF EntryContents
  <2>4. de' = [de EXCEPT ![th[d].cur] = c]
    BY <1>4 DEF ExecRequest
  <2>5. de' \in [Entry -> EntryContents]
    BY <1>0, <2>3, <2>4 DEF RestOK
  <2>6. RestOK'
    BY <1>0, <1>4, <2>5 DEF ExecRequest, RestOK, bounds, history
  <2>7. Threads(th')
    BY <1>0, <1>4, GotoOK, PCs DEF ExecRequest, Executing, At, AtRest, Inserting, Filling
  <2>. QED BY <2>6, <2>7 DEF TypeInv
<1>5. ASSUME ExecAsyncRequest(d) PROVE TypeInv'
  <2> DEFINE jobs == <<Job("USERREQCALLBACK", TRUE)>>
             r == [th[d] EXCEPT !.pc = "get", !.todo = jobs, !.cont = "callbackqueued"]
  <2>1. jobs \in Seq(JobType) /\ jobs # <<>>
    BY DEF Job, JobType, EntryType, OutTypes
  <2> HIDE DEF jobs
  <2>2. r \in ThreadState
    BY <1>0, <2>1, PCs DEF ThreadState, Cont
  <2>3. th[d].pc = "exec"
    BY <1>5 DEF ExecAsyncRequest, Executing, At
  <2>4. ThreadOK(d, r)
    BY <2>1, <2>2, <2>3, <1>0 DEF ThreadOK, AtRest, Inserting, Filling, ThreadState
  <2>5. th' = [th EXCEPT ![d] = r]
    BY <1>0, <1>5 DEF ExecAsyncRequest, Threads, jobs
  <2>6. Threads(th')
    BY <2>4, <2>5, <1>0, ThreadChanges
  <2>. QED BY <1>0, <1>5, <2>6, QueuesUnchanged DEF ExecAsyncRequest, TypeInv
<1>6. ASSUME CallbackQueued(d) PROVE TypeInv'
  <2>1. owed' \in [Channel -> Int]
    <3>1. p \in Channel
      BY <1>0, <1>6 DEF CallbackQueued, At, ThreadOK, AtRest
    <3>. QED BY <1>0, <1>6, <3>1 DEF CallbackQueued, RestOK
  <2>2. RestOK'
    BY <1>0, <1>6, <2>1 DEF CallbackQueued, RestOK, queues, bounds
  <2>3. Threads(th')
    BY <1>0, <1>6, GotoOK, PCs DEF CallbackQueued, At, AtRest, Inserting, Filling
  <2>. QED BY <2>2, <2>3 DEF TypeInv
<1>7. ASSUME Callback(d) PROVE TypeInv'
  <2> DEFINE ty == de[th[d].cur].type
  <2>1. th[d].pc = "callback" /\ p \in Channel /\ th[d].cur \in Entry
    BY <1>0, <1>7 DEF Callback, At, ThreadOK, AtRest
  <2>2. view' \in [Channel -> {"attached", "detached"}]
    BY <1>0, <1>7, <2>1 DEF Callback, RestOK, Told
  <2>3. owed' \in [Channel -> Int]
    BY <1>0, <1>7, <2>1 DEF Callback, RestOK
  <2>4. RestOK'
    BY <1>0, <1>7, <2>2, <2>3 DEF Callback, RestOK, queues, bounds
  <2>5. CASE Starts(d, p, <<SyncRequest>>, "get", "called")
    <3>1. <<SyncRequest>> \in Seq(JobType) /\ <<SyncRequest>> # <<>>
      BY DEF SyncRequest, Job, JobType, EntryType, InTypes
    <3>2. "get" \in PC /\ "called" \in Cont
      BY PCs DEF Cont
    <3>3. Threads(th')
      BY <1>0, <2>1, <2>5, <3>1, <3>2, StartsOK
    <3>. QED BY <2>4, <3>3 DEF TypeInv
  <2>6. CASE Goto(d, "called")
    <3>1. Threads(th')
      BY <1>0, <2>1, <2>6, GotoOK, PCs DEF AtRest, Inserting, Filling
    <3>. QED BY <2>4, <3>1 DEF TypeInv
  <2>. QED BY <1>7, <2>5, <2>6 DEF Callback
<1>8. ASSUME Called(d) PROVE TypeInv'
  <2>1. RestOK'
    BY <1>0, <1>8 DEF Called, RestOK, bounds, history
  <2>2. Threads(th')
    BY <1>0, <1>8, GotoOK, PCs DEF Called, At, AtRest, Inserting, Filling
  <2>. QED BY <2>1, <2>2 DEF TypeInv
<1>9. ASSUME EnableFails(d) PROVE TypeInv'
  <2>1. RestOK'
    BY <1>0, <1>9 DEF EnableFails, RestOK, bounds, history, Flag
  <2>2. Threads(th')
    BY <1>0, <1>9, GotoOK, PCs DEF EnableFails, At, AtRest, Inserting, Filling
  <2>. QED BY <2>1, <2>2 DEF TypeInv
<1>10. ASSUME EnableFailed(d) PROVE TypeInv'
  <2> DEFINE r == [th[d] EXCEPT !.pc = "clearout", !.cont = "attacherror"]
  <2>1. r \in ThreadState
    BY <1>0, PCs DEF ThreadState, Cont
  <2>2. ThreadOK(d, r)
    BY <2>1, <1>0, <1>10 DEF EnableFailed, At, ThreadOK, AtRest, Inserting, Filling, ThreadState
  <2>3. th' = [th EXCEPT ![d] = r]
    BY <1>0, <1>10 DEF EnableFailed, Threads
  <2>4. Threads(th')
    BY <2>2, <2>3, <1>0, ThreadChanges
  <2>5. RestOK'
    BY <1>0, <1>10 DEF EnableFailed, RestOK, bounds
  <2>. QED BY <2>4, <2>5 DEF TypeInv
<1>11. ASSUME AttachError(d) PROVE TypeInv'
  <2>1. RestOK'
    BY <1>0, <1>11 DEF AttachError, RestOK, bounds, history
  <2>2. Threads(th')
    BY <1>0, <1>11, GotoOK, PCs DEF AttachError, At, AtRest, Inserting, Filling
  <2>. QED BY <2>1, <2>2 DEF TypeInv
<1>12. ASSUME AttachErrorUnslot(d) PROVE TypeInv'
  <2>1. RestOK'
    BY <1>0, <1>12 DEF AttachErrorUnslot, Unslotted, RestOK, queues, bounds, history
  <2>2. Threads(th')
    BY <1>0, <1>12, GotoOK, PCs DEF AttachErrorUnslot, At, AtRest, Inserting, Filling
  <2>. QED BY <2>1, <2>2 DEF TypeInv
<1>. QED BY <1>1, <1>2, <1>3, <1>4, <1>5, <1>6, <1>7, <1>8, <1>9, <1>10, <1>11, <1>12 DEF Execution

LEMMA CentralNotDispatcher == Central \in Thread /\ Central \notin Dispatcher
BY ConstantsAssumption DEF Thread

LEMMA AttachingType ==
    ASSUME TypeInv, Attaching
    PROVE  TypeInv'
<1>0. RestOK /\ Threads(th) /\ th[Central] \in ThreadState /\ ThreadOK(Central, th[Central])
      /\ Central \in Thread /\ Central \notin Dispatcher
  BY CentralNotDispatcher DEF TypeInv, Threads
<1> DEFINE p == th[Central].ph
<1>1. ASSUME AttachFlag PROVE TypeInv'
  <2>1. RestOK'
    BY <1>0, <1>1 DEF AttachFlag, RestOK, bounds, history, Flag
  <2>2. Threads(th')
    BY <1>0, <1>1, GotoOK, PCs DEF AttachFlag, At, AtRest, Inserting, Filling
  <2>. QED BY <2>1, <2>2 DEF TypeInv
<1>2. ASSUME AttachSlot PROVE TypeInv'
  <2>1. RestOK'
    BY <1>0, <1>2 DEF AttachSlot, RestOK, queues, bounds, history
  <2>2. Threads(th')
    BY <1>0, <1>2, GotoOK, PCs DEF AttachSlot, At, AtRest, Inserting, Filling
  <2>. QED BY <2>1, <2>2 DEF TypeInv
<1>3. ASSUME th' = [th EXCEPT ![Central].pc = "clearout", ![Central].cont = "unslot"],
             th[Central].pc \notin AtRest
      PROVE  Threads(th')
  <2> DEFINE r == [th[Central] EXCEPT !.pc = "clearout", !.cont = "unslot"]
  <2>1. r \in ThreadState
    BY <1>0, PCs DEF ThreadState, Cont
  <2>2. ThreadOK(Central, r)
    BY <2>1, <1>0, <1>3 DEF ThreadOK, Inserting, Filling, ThreadState
  <2>3. th' = [th EXCEPT ![Central] = r]
    BY <1>0, <1>3 DEF Threads
  <2>. QED BY <2>2, <2>3, <1>0, ThreadChanges
<1>4. ASSUME AttachRefused PROVE TypeInv'
  <2>1. RestOK'
    BY <1>0, <1>4 DEF AttachRefused, RestOK, bounds, history
  <2>. QED BY <1>3, <1>4, <2>1 DEF AttachRefused, At, AtRest, TypeInv
<1>5. ASSUME Attached PROVE TypeInv'
  <2>1. RestOK'
    BY <1>0, <1>5 DEF Attached, RestOK, bounds, history, Flag
  <2>2. Threads(th')
    BY <1>0, <1>5, GotoOK, PCs DEF Attached, At, AtRest, Inserting, Filling
  <2>. QED BY <2>1, <2>2 DEF TypeInv
<1>6. ASSUME WakeDispatch PROVE TypeInv'
  <2>1. Threads([th EXCEPT ![Central] = Idle("idle")])
    BY <1>0, IdleOK, ThreadChanges
  <2>2. Signal([th EXCEPT ![Central] = Idle("idle")])
    BY <1>6 DEF WakeDispatch
  <2>3. Threads(th')
    BY <2>1, <2>2, SignalOK
  <2>. QED BY <1>0, <1>6, <2>3, QueuesUnchanged DEF WakeDispatch, TypeInv
<1>7. ASSUME DetachWaited PROVE TypeInv'
  <2>1. th[Central].pc = "detachwait"
    BY <1>7 DEF DetachWaited, At
  <2>2. CASE Goto(Central, "detaching")
    BY <1>0, <1>7, <2>1, <2>2, GotoOK, PCs, QueuesUnchanged
    DEF DetachWaited, AtRest, Inserting, Filling, TypeInv
  <2>3. CASE th' = [th EXCEPT ![Central].pc = "clearout", ![Central].cont = "unslot"]
    BY <1>0, <1>3, <1>7, <2>1, <2>3, QueuesUnchanged DEF DetachWaited, AtRest, TypeInv
  <2>. QED BY <1>7, <2>2, <2>3 DEF DetachWaited
<1>8. ASSUME DetachFlag PROVE TypeInv'
  <2> DEFINE r == [th[Central] EXCEPT !.pc = "clearout", !.cont = "detach"]
  <2>1. r \in ThreadState
    BY <1>0, PCs DEF ThreadState, Cont
  <2>2. ThreadOK(Central, r)
    BY <2>1, <1>0, <1>8 DEF DetachFlag, At, ThreadOK, AtRest, Inserting, Filling, ThreadState
  <2>3. th' = [th EXCEPT ![Central] = r]
    BY <1>0, <1>8 DEF DetachFlag, Threads
  <2>4. Threads(th')
    BY <2>2, <2>3, <1>0, ThreadChanges
  <2>5. RestOK'
    BY <1>0, <1>8 DEF DetachFlag, RestOK, bounds, history, Flag
  <2>. QED BY <2>4, <2>5 DEF TypeInv
<1>9. ASSUME DetachDispatch PROVE TypeInv'
  <2> DEFINE jobs == <<Job("CHANNEL_DETACH", FALSE)>>
  <2>1. jobs \in Seq(JobType) /\ jobs # <<>>
    BY DEF Job, JobType, EntryType, OutTypes
  <2>2. p \in Channel /\ Starts(Central, p, jobs, "get", "unslot")
    BY <1>0, <1>9 DEF DetachDispatch, At, ThreadOK, AtRest
  <2> HIDE DEF jobs
  <2>3. "get" \in PC /\ "unslot" \in Cont
    BY PCs DEF Cont
  <2>4. Threads(th')
    BY <1>0, <2>1, <2>2, <2>3, StartsOK
  <2>. QED BY <1>0, <1>9, <2>4, QueuesUnchanged DEF DetachDispatch, TypeInv
<1>10. ASSUME CentralUnslot PROVE TypeInv'
  <2>1. RestOK'
    BY <1>0, <1>10 DEF CentralUnslot, RestOK, queues, bounds, history
  <2>2. Threads(th')
    BY <1>0, <1>10, IdleOK, ThreadChanges DEF CentralUnslot
  <2>. QED BY <2>1, <2>2 DEF TypeInv
<1>11. ASSUME DetachClose PROVE TypeInv'
  <2>1. RestOK'
    BY <1>0, <1>11 DEF DetachClose, RestOK, bounds, history
  <2>2. Threads(th')
    BY <1>0, <1>11, GotoOK, PCs DEF DetachClose, At, AtRest, Inserting, Filling
  <2>. QED BY <2>1, <2>2 DEF TypeInv
<1>. QED BY <1>1, <1>2, <1>4, <1>5, <1>6, <1>7, <1>8, <1>9, <1>10, <1>11 DEF Attaching

LEMMA ClosingType ==
    ASSUME TypeInv, NEW t \in User \cup {Central}, Closing(t)
    PROVE  TypeInv'
<1>0. RestOK /\ Threads(th) /\ t \in Thread /\ th[t] \in ThreadState /\ ThreadOK(t, th[t])
      /\ t \notin Dispatcher
  BY ConstantsAssumption DEF TypeInv, Threads, Thread
<1> DEFINE p == th[t].ph
<1>1. ASSUME CloseParent(t) PROVE TypeInv'
  <2>1. \E where \in {"closing", "closeslot"} : Goto(t, where)
    BY <1>1 DEF CloseParent
  <2>2. Threads(th')
    BY <1>0, <1>1, <2>1, GotoOK, PCs DEF CloseParent, At, AtRest, Inserting, Filling
  <2>. QED BY <1>0, <1>1, <2>2, QueuesUnchanged DEF CloseParent, TypeInv
<1>2. ASSUME CloseSlot(t) PROVE TypeInv'
  <2>1. RestOK'
    BY <1>0, <1>2 DEF CloseSlot, Unslotted, RestOK, queues, bounds, history
  <2>2. Threads(th')
    BY <1>0, <1>2, GotoOK, PCs DEF CloseSlot, At, AtRest, Inserting, Filling
  <2>. QED BY <2>1, <2>2 DEF TypeInv
<1>3. ASSUME CloseStop(t) PROVE TypeInv'
  <2>1. CASE Back(t) /\ UNCHANGED flags
    <3>1. RestOK'
      BY <1>0, <1>3, <2>1 DEF CloseStop, RestOK, bounds, history
    <3>2. Threads(th')
      BY <1>0, <1>3, <2>1, BackOK DEF CloseStop, At, AtRest
    <3>. QED BY <3>1, <3>2 DEF TypeInv
  <2>2. CASE flags' = [flags EXCEPT ![p] = @ \ {"ATTACHED"}] /\ Goto(t, "clearout")
    <3>1. RestOK'
      BY <1>0, <1>3, <2>2 DEF CloseStop, RestOK, bounds, history
    <3>2. Threads(th')
      BY <1>0, <1>3, <2>2, GotoOK, PCs DEF CloseStop, At, AtRest, Inserting, Filling
    <3>. QED BY <3>1, <3>2 DEF TypeInv
  <2>. QED BY <1>3, <2>1, <2>2 DEF CloseStop
<1>. QED BY <1>1, <1>2, <1>3 DEF Closing

LEMMA OneJob == \A ty \in EntryType, b \in BOOLEAN :
    <<Job(ty, b)>> \in Seq(JobType) /\ <<Job(ty, b)>> # <<>>
BY DEF Job, JobType

LEMMA EnvironmentType ==
    ASSUME TypeInv, Environment
    PROVE  TypeInv'
<1>0. RestOK /\ Threads(th)
  BY DEF TypeInv
<1>1. ASSUME NEW p \in Channel, AttachStart(p) PROVE TypeInv'
  <2>1. StartJobs \in Seq(JobType) /\ StartJobs # <<>>
    BY DEF StartJobs, Job, JobType, EntryType, OutTypes
  <2>2. Starts(Central, p, StartJobs, "get", "attaching")
    BY <1>1 DEF AttachStart
  <2>3. Threads(th')
    BY <1>0, <2>1, <2>2, StartsOK, PCs, CentralNotDispatcher DEF Cont
  <2>4. attaches[p] - 1 \in Nat
    BY <1>0, <1>1 DEF AttachStart, RestOK
  <2>5. RestOK'
    BY <1>0, <1>1, <2>4 DEF AttachStart, RestOK, queues, history
  <2>. QED BY <2>3, <2>5 DEF TypeInv
<1>2. ASSUME NEW p \in Channel, DetachStart(p) PROVE TypeInv'
  <2>1. Starts(Central, p, <<>>, "detachwait", "idle") /\ <<>> \in Seq(JobType)
    BY <1>2 DEF DetachStart
  <2>2. Threads(th')
    BY <1>0, <2>1, StartsOK, PCs, CentralNotDispatcher DEF Cont, Inserting
  <2>. QED BY <1>0, <1>2, <2>2, QueuesUnchanged DEF DetachStart, TypeInv
<1>3. ASSUME NEW t \in User \cup Source, left[t] > 0 PROVE left[t] - 1 \in Nat
  BY <1>0, <1>3 DEF RestOK
<1>4. ASSUME NEW u \in User, NEW p \in Channel, Request(u, p) PROVE TypeInv'
  <2>1. u \in Thread /\ u \notin Dispatcher
    BY ConstantsAssumption DEF Thread
  <2>2. PICK kind \in Requests : Starts(u, p, <<Job("USERREQ", kind = "async")>>, "get", "idle")
    BY <1>4 DEF Request
  <2>3. <<Job("USERREQ", kind = "async")>> \in Seq(JobType)
        /\ <<Job("USERREQ", kind = "async")>> # <<>>
    <3>1. "USERREQ" \in EntryType /\ (kind = "async") \in BOOLEAN
      BY DEF EntryType, InTypes
    <3>. QED BY <3>1, OneJob
  <2>4. Threads(th')
    BY <1>0, <2>1, <2>2, <2>3, StartsOK, PCs DEF Cont
  <2>5. RestOK'
    BY <1>0, <1>3, <1>4 DEF Request, RestOK, queues, history
  <2>. QED BY <2>4, <2>5 DEF TypeInv
<1>5. ASSUME NEW u \in User, NEW p \in Channel, CloseStart(u, p) PROVE TypeInv'
  <2>1. u \in Thread /\ u \notin Dispatcher
    BY ConstantsAssumption DEF Thread
  <2>2. Starts(u, p, <<>>, "close", "idle") /\ <<>> \in Seq(JobType)
    BY <1>5 DEF CloseStart
  <2>3. "close" \in PC /\ "close" \notin Inserting \cup {"scan"}
    BY PCs DEF Inserting
  <2>4. "idle" \in Cont
    BY DEF Cont
  <2>5. Threads(th')
    BY <1>0, <2>1, <2>2, <2>3, <2>4, StartsOK
  <2>6. RestOK'
    BY <1>0, <1>3, <1>5 DEF CloseStart, RestOK, history
  <2>. QED BY <2>5, <2>6 DEF TypeInv
<1>6. ASSUME NEW u \in User, NEW p \in Channel, Open(u, p) PROVE TypeInv'
  BY <1>0, <1>3, <1>6 DEF Open, RestOK, history, Flag, TypeInv
<1>7. ASSUME NEW s \in Source, NEW p \in Channel, Deliver(s, p) PROVE TypeInv'
  <2>1. s \in Thread /\ s \notin Dispatcher
    BY ConstantsAssumption DEF Thread
  <2>2. PICK ty \in Traffic : Starts(s, p, <<Job(ty, FALSE)>>, "get", "idle")
    BY <1>7 DEF Deliver
  <2>3. ty \in EntryType
    BY ConstantsAssumption DEF EntryType, OutTypes, InTypes
  <2>4. <<Job(ty, FALSE)>> \in Seq(JobType) /\ <<Job(ty, FALSE)>> # <<>>
    BY <2>3, OneJob
  <2>5. Threads(th')
    BY <1>0, <2>1, <2>2, <2>4, StartsOK, PCs DEF Cont
  <2>6. RestOK'
    BY <1>0, <1>3, <1>7 DEF Deliver, RestOK, queues, history
  <2>. QED BY <2>5, <2>6 DEF TypeInv
<1>. QED BY <1>1, <1>2, <1>4, <1>5, <1>6, <1>7 DEF Environment

LEMMA InitType == Init => TypeInv
<1> SUFFICES ASSUME Init PROVE TypeInv
  OBVIOUS
<1>1. RestOK
  <2>1. <<>> \in Seq(Channel) /\ <<>> \in Seq(Entry) /\ Nothing \in EntryContents
    BY DEF Nothing, EntryContents
  <2>2. MaxOps \in Nat /\ MaxAttach \in Nat
    BY ConstantsAssumption
  <2>. QED BY <2>1, <2>2 DEF Init, RestOK, Flag
<1>2. Threads(th)
  <2>1. \A t \in Thread : th[t] \in {Idle("none"), Idle("idle")}
    BY DEF Init
  <2>2. \A t \in Thread : th[t] \in ThreadState /\ ThreadOK(t, th[t])
    BY <2>1, IdleOK
  <2>3. th = [t \in Thread |-> th[t]]
    BY DEF Init
  <2>. QED BY <2>2, <2>3 DEF Threads
<1>. QED BY <1>1, <1>2 DEF TypeInv

LEMMA NextType == TypeInv /\ [Next]_vars => TypeInv'
<1> SUFFICES ASSUME TypeInv, [Next]_vars PROVE TypeInv'
  OBVIOUS
<1>1. CASE UNCHANGED vars
  BY <1>1 DEF vars, queues, bounds, history, TypeInv, RestOK, Threads
<1>2. CASE Next
  BY <1>2, InsertionType, LoopType, ExecutionType, AttachingType, ClosingType, EnvironmentType DEF Next
<1>. QED BY <1>1, <1>2

\* Every variable keeps its type.  A thread that inserts an entry has a channel
\* and a job, and a dispatcher that executes has the entry it executes, so no
\* step of dispatch.c works on an entry or a channel that is not there.
THEOREM TypesCorrect == Spec => []TypeOK
<1>1. TypeInv /\ [][Next]_vars => []TypeInv
  BY NextType, PTL
<1>. QED BY <1>1, InitType, TypeInvTypeOK, PTL DEF Spec

-----------------------------------------------------------------------------
(***************************************************************************)
(* A queue of a channel is drained by one dispatcher at a time.            *)
(*                                                                         *)
(* OneDispatcherPerQueue is not inductive: nothing in it keeps a channel   *)
(* off the list while one of its queues is drained.  FlagIsToken is: the   *)
(* flag DISPATCHOUT or DISPATCHIN of a channel passes from the thread that *)
(* set it to the list, from there to one dispatcher, and is then cleared.  *)
(* Most steps are calm: they neither pass a flag on nor clear one.         *)
(***************************************************************************)

Resting == {"none", "loop", "wait", "scan", "leave"}
Listing == {"listout", "listin"}

\* Thread t, at record r, does not come to list or to drain a queue by going
\* to record s
Calm(t, r, s) ==
    \/ s = r
    \/ s.pc \in Resting
    \/ s.ph = NoChannel
    \/ /\ s.pc \notin Listing
       /\ t \in Dispatcher => s.ph = r.ph /\ s.out = r.out /\ r.pc \notin Resting

CalmTo(h) == \A t \in Thread : Calm(t, th[t], h[t])

\* No flag of a queue is cleared
FlagsKept ==
    \A p \in Channel : flags[p] \cap {"DISPATCHOUT", "DISPATCHIN"} \subseteq flags'[p]

LEMMA DispatcherThread == Dispatcher \subseteq Thread
BY DEF Thread

LEMMA CalmMeans ==
    ASSUME CalmTo(th'), NEW p \in Channel, NEW out \in BOOLEAN
    PROVE  /\ \A t \in Thread : Lists(t, p, out)' => Lists(t, p, out)
           /\ \A d \in Dispatcher : Drains(d, p, out)' => Drains(d, p, out)
<1>1. p # NoChannel
  BY ConstantsAssumption
<1>2. \A t \in Thread : Lists(t, p, out)' => Lists(t, p, out)
  BY <1>1 DEF CalmTo, Calm, Lists, Resting, Listing
<1>3. \A d \in Dispatcher : Drains(d, p, out)' => Drains(d, p, out)
  BY <1>1, DispatcherThread DEF CalmTo, Calm, Drains, Resting, Listing
<1>. QED BY <1>2, <1>3

\* Nobody new holds the token of a queue, and f leads from the places of the
\* channel on the new list to those on the old one
LEMMA TokenKept ==
    ASSUME NEW p \in Channel, NEW out \in BOOLEAN, Token(p, out),
           NEW f,
           \A j \in 1..Len(DispatchList(out)') : OnList(j, p, out)' =>
              f[j] \in 1..Len(DispatchList(out)) /\ OnList(f[j], p, out),
           \A j, k \in 1..Len(DispatchList(out)') : f[j] = f[k] => j = k,
           \A t \in Thread : Lists(t, p, out)' => Lists(t, p, out),
           \A d \in Dispatcher : Drains(d, p, out)' => Drains(d, p, out),
           QueueFlag(out) \in flags[p] => QueueFlag(out) \in flags'[p]
    PROVE  Token(p, out)'
BY DEF Token, QueueFlag

LEMMA TokenKeptOnList ==
    ASSUME NEW p \in Channel, NEW out \in BOOLEAN, Token(p, out), TypeInv,
           DispatchList(out)' = DispatchList(out),
           \A t \in Thread : Lists(t, p, out)' => Lists(t, p, out),
           \A d \in Dispatcher : Drains(d, p, out)' => Drains(d, p, out),
           QueueFlag(out) \in flags[p] => QueueFlag(out) \in flags'[p]
    PROVE  Token(p, out)'
<1>1. \A j \in 1..Len(DispatchList(out)') : OnList(j, p, out)' =>
              j \in 1..Len(DispatchList(out)) /\ OnList(j, p, out)
  BY DEF OnList
<1>. QED BY <1>1 DEF Token, QueueFlag

LEMMA CalmStep ==
    ASSUME TypeInv, FlagIsToken, CalmTo(th'), FlagsKept, UNCHANGED <<outList, inList>>
    PROVE  FlagIsToken'
<1> SUFFICES ASSUME NEW p \in Channel, NEW out \in BOOLEAN PROVE Token(p, out)'
  BY DEF FlagIsToken
<1>1. Token(p, out)
  BY DEF FlagIsToken
<1>2. DispatchList(out)' = DispatchList(out)
  BY DEF DispatchList
<1>3. QueueFlag(out) \in flags[p] => QueueFlag(out) \in flags'[p]
  BY DEF FlagsKept, QueueFlag
<1>. QED BY <1>1, <1>2, <1>3, CalmMeans, TokenKeptOnList

-----------------------------------------------------------------------------
(* Steps that are calm *)

LEMMA CalmChange ==
    ASSUME Threads(th), NEW t \in Thread, NEW r, Calm(t, th[t], r)
    PROVE  CalmTo([th EXCEPT ![t] = r])
BY DEF CalmTo, Calm, Threads

LEMMA GotoCalm ==
    ASSUME Threads(th), NEW t \in Thread, NEW where, where \notin Listing, Goto(t, where),
           where \in Resting \/ th[t].pc \notin Resting
    PROVE  CalmTo(th')
<1> DEFINE r == [th[t] EXCEPT !.pc = where]
<1>1. Calm(t, th[t], r)
  BY DEF Calm, Threads, ThreadState
<1>2. th' = [th EXCEPT ![t] = r]
  BY DEF Goto, Threads
<1>3. CalmTo([th EXCEPT ![t] = r])
  BY <1>1, CalmChange
<1>. QED BY <1>2, <1>3

LEMMA StartsCalm ==
    ASSUME Threads(th), NEW t \in Thread, NEW p, NEW jobs, NEW first, NEW cont,
           Starts(t, p, jobs, first, cont), first \notin Listing,
           t \in Dispatcher => p = th[t].ph /\ th[t].pc \notin Resting
    PROVE  CalmTo(th')
<1> DEFINE r == [th[t] EXCEPT !.pc = first, !.ph = p, !.todo = jobs, !.cont = cont]
<1>1. Calm(t, th[t], r)
  BY DEF Calm, Threads, ThreadState
<1>2. th' = [th EXCEPT ![t] = r]
  BY DEF Starts, Threads
<1>3. CalmTo([th EXCEPT ![t] = r])
  BY <1>1, CalmChange
<1>. QED BY <1>2, <1>3

LEMMA IdleCalm ==
    ASSUME Threads(th), NEW t \in Thread, NEW where
    PROVE  CalmTo([th EXCEPT ![t] = Idle(where)])
<1>1. Calm(t, th[t], Idle(where))
  BY DEF Calm, Idle
<1>. QED BY <1>1, CalmChange

LEMMA BackCalm ==
    ASSUME Threads(th), NEW t \in Thread, th[t].pc \notin Resting, Back(t)
    PROVE  CalmTo(th')
<1>1. CASE th[t].cont = "idle"
  BY <1>1, IdleCalm DEF Back
<1>2. CASE th[t].cont # "idle"
  <2>1. th[t].cont \notin Listing
    BY DEF Threads, ThreadState, Cont, Listing
  <2>. QED BY <1>2, <2>1, GotoCalm DEF Back
<1>. QED BY <1>1, <1>2

LEMMA JobDoneCalm ==
    ASSUME Threads(th), NEW t \in Thread, th[t].pc \notin Resting, NEW r
    PROVE  CalmTo(JobDone(t, r))
<1>1. CASE Len(th[t].todo) = 1 /\ th[t].cont = "idle"
  <2>1. JobDone(t, r) = [th EXCEPT ![t] = Idle("idle")]
    BY <1>1 DEF JobDone
  <2>2. CalmTo([th EXCEPT ![t] = Idle("idle")])
    BY IdleCalm
  <2>. QED BY <2>1, <2>2
<1>2. CASE ~(Len(th[t].todo) = 1 /\ th[t].cont = "idle")
  <2> DEFINE s == [th[t] EXCEPT
                     !.pc = IF Len(th[t].todo) > 1 THEN "get" ELSE th[t].cont,
                     !.todo = Tail(th[t].todo), !.req = NoEntry, !.rc = r]
  <2>1. th[t] \in ThreadState
    BY DEF Threads
  <2>2. (IF Len(th[t].todo) > 1 THEN "get" ELSE th[t].cont) \notin Listing
    BY <2>1 DEF ThreadState, Cont, Listing
  <2>3. Calm(t, th[t], s)
    BY <2>1, <2>2 DEF Calm, ThreadState
  <2>4. JobDone(t, r) = [th EXCEPT ![t] = s]
    BY <1>2, <2>1 DEF JobDone, Threads
  <2>5. CalmTo([th EXCEPT ![t] = s])
    BY <2>3, CalmChange
  <2>. QED BY <2>4, <2>5
<1>. QED BY <1>1, <1>2

LEMMA WakingCalm ==
    ASSUME NEW h, Threads(h), CalmTo(h), NEW d \in Dispatcher
    PROVE  CalmTo([h EXCEPT ![d].pc = "loop"])
<1> DEFINE g == [h EXCEPT ![d].pc = "loop"]
<1>1. g[d].pc = "loop" /\ \A t \in Thread : t # d => g[t] = h[t]
  BY DispatcherThread DEF Threads, ThreadState
<1>2. ASSUME NEW t \in Thread PROVE Calm(t, th[t], g[t])
  <2>1. CASE t = d
    BY <1>1, <2>1 DEF Calm, Resting
  <2>2. CASE t # d
    <3>1. g[t] = h[t] /\ Calm(t, th[t], h[t])
      BY <1>1, <2>2 DEF CalmTo
    <3>. QED BY <3>1
  <2>. QED BY <2>1, <2>2
<1>. QED BY <1>2 DEF CalmTo

LEMMA SignalCalm ==
    ASSUME NEW h, Threads(h), CalmTo(h), Signal(h)
    PROVE  CalmTo(th')
<1>1. CASE th' = h
  BY <1>1
<1>2. ASSUME NEW d \in Waiting(h), th' = [h EXCEPT ![d].pc = "loop"]
      PROVE  CalmTo(th')
  <2>1. d \in Dispatcher
    BY DEF Waiting
  <2>2. CalmTo([h EXCEPT ![d].pc = "loop"])
    BY <2>1, WakingCalm
  <2>. QED BY <1>2, <2>2
<1>. QED BY <1>1, <1>2 DEF Signal

LEMMA FlagsSame == UNCHANGED flags => FlagsKept
BY DEF FlagsKept

LEMMA QueuesSame ==
    UNCHANGED queues => UNCHANGED <<flags, outList, inList>>
BY DEF queues

LEMMA InsertionToken ==
    ASSUME TypeInv, FlagIsToken, NEW t \in Thread, Insertion(t) \/ TimesOut(t),
           ~Mark(t), ~PutOnOutList(t), ~PutOnInList(t)
    PROVE  FlagIsToken'
<1>0. Threads(th) /\ th[t] \in ThreadState
  BY DEF TypeInv, Threads
<1> SUFFICES CalmTo(th') /\ UNCHANGED <<flags, outList, inList>>
  BY CalmStep, FlagsSame
<1>1. ASSUME NEW r, Calm(t, th[t], r), th' = [th EXCEPT ![t] = r] PROVE CalmTo(th')
  BY <1>0, <1>1, CalmChange
<1>2. ASSUME NEW r, th[t].pc \notin Resting, th' = JobDone(t, r) PROVE CalmTo(th')
  BY <1>0, <1>2, JobDoneCalm
<1>3. CASE GetEntry(t)
  <2>1. PICK e \in free : th' = [th EXCEPT ![t].pc = "insert", ![t].req = e]
    BY <1>3 DEF GetEntry
  <2> DEFINE r == [th[t] EXCEPT !.pc = "insert", !.req = e]
  <2>2. Calm(t, th[t], r)
    BY <1>0, <1>3 DEF GetEntry, At, Calm, ThreadState, Listing, Resting
  <2>3. th' = [th EXCEPT ![t] = r]
    BY <1>0, <2>1 DEF Threads
  <2>. QED BY <1>1, <1>3, <2>2, <2>3 DEF GetEntry
<1>4. CASE GetEntryFails(t)
  BY <1>2, <1>4, QueuesSame DEF GetEntryFails, At, Resting
<1>5. CASE InsertRefused(t)
  <2> DEFINE r == [th[t] EXCEPT !.pc = "purge", !.rc = "NOTATTACHED"]
  <2>1. Calm(t, th[t], r)
    BY <1>0, <1>5 DEF InsertRefused, At, Calm, ThreadState, Listing, Resting
  <2>2. th' = [th EXCEPT ![t] = r]
    BY <1>0, <1>5 DEF InsertRefused, Threads
  <2>. QED BY <1>1, <1>5, <2>1, <2>2, QueuesSame DEF InsertRefused
<1>6. CASE InsertNoSpace(t)
  <2> DEFINE r == [th[t] EXCEPT !.pc = "drop", !.rc = "NOSPC"]
  <2>1. Calm(t, th[t], r)
    BY <1>0, <1>6 DEF InsertNoSpace, At, Calm, ThreadState, Listing, Resting
  <2>2. th' = [th EXCEPT ![t] = r]
    BY <1>0, <1>6 DEF InsertNoSpace, Threads
  <2>. QED BY <1>1, <1>6, <2>1, <2>2, QueuesSame DEF InsertNoSpace
<1>7. CASE InsertAppend(t)
  BY <1>0, <1>7, GotoCalm DEF InsertAppend, At, Listing, Resting
<1>8. CASE Purge(t)
  <2>1. CASE outq[th[t].ph] = <<>> /\ Dropped(t)
    <3>1. th' = JobDone(t, th[t].rc) /\ th[t].pc \notin Resting
      BY <1>8, <2>1 DEF Purge, At, Resting
    <3>. QED BY <1>2, <1>8, <3>1 DEF Purge
  <2>2. CASE outq[th[t].ph] = <<>> /\ ~Dropped(t)
    BY <1>0, <1>8, <2>2, GotoCalm DEF Purge, At, Listing, Resting
  <2>3. CASE outq[th[t].ph] # <<>>
    BY <1>8, <2>3 DEF Purge, CalmTo, Calm
  <2>. QED BY <2>1, <2>2, <2>3
<1>9. CASE Drop(t)
  <2>1. CASE th' = JobDone(t, th[t].rc)
    BY <1>2, <1>9, <2>1 DEF Drop, At, Resting
  <2>2. CASE th' = [th EXCEPT ![t].pc = "purge", ![t].req = NoEntry]
    <3> DEFINE r == [th[t] EXCEPT !.pc = "purge", !.req = NoEntry]
    <3>1. Calm(t, th[t], r)
      BY <1>0, <1>9 DEF Drop, At, Calm, ThreadState, Listing, Resting
    <3>2. th' = [th EXCEPT ![t] = r]
      BY <1>0, <2>2 DEF Threads
    <3>. QED BY <1>1, <1>9, <3>1, <3>2 DEF Drop
  <2>. QED BY <1>9, <2>1, <2>2 DEF Drop
<1>10. CASE EntryDispatched(t)
  <2> DEFINE next == IF Job1(t) = SyncRequest THEN [th EXCEPT ![t].pc = "answer"] ELSE JobDone(t, "OK")
             r == [th[t] EXCEPT !.pc = "answer"]
  <2>1. th[t].pc = "signal" /\ ThreadOK(t, th[t])
    BY <1>0, <1>10 DEF EntryDispatched, At, Threads
  <2>2. Calm(t, th[t], r) /\ ThreadOK(t, r)
    <3>1. r \in ThreadState
      BY <1>0, PCs DEF ThreadState
    <3>. QED BY <1>0, <2>1, <3>1 DEF Calm, ThreadOK, AtRest, Inserting, Filling, ThreadState,
                                     Listing, Resting
  <2>3. [th EXCEPT ![t].pc = "answer"] = [th EXCEPT ![t] = r]
    BY <1>0 DEF Threads
  <2>4. Threads([th EXCEPT ![t] = r]) /\ CalmTo([th EXCEPT ![t] = r])
    BY <1>0, <2>2, ThreadChanges, CalmChange
  <2>5. Threads(JobDone(t, "OK")) /\ CalmTo(JobDone(t, "OK"))
    BY <1>0, <2>1, JobDoneOK, JobDoneCalm DEF Inserting, Resting
  <2>6. Threads(next) /\ CalmTo(next)
    BY <2>3, <2>4, <2>5
  <2>7. IF NotBusy = {} /\ Dispatchers # Dispatcher
        THEN \E d \in Dispatcher \ Dispatchers : th' = [next EXCEPT ![d].pc = "loop"]
        ELSE Signal(next)
    BY <1>10 DEF EntryDispatched
  <2> HIDE DEF next
  <2>8. ASSUME NEW d \in Dispatcher, th' = [next EXCEPT ![d].pc = "loop"] PROVE CalmTo(th')
    BY <2>6, <2>8, WakingCalm
  <2>9. ASSUME Signal(next) PROVE CalmTo(th')
    BY <2>6, <2>9, SignalCalm
  <2>. QED BY <1>10, <2>7, <2>8, <2>9, QueuesSame DEF EntryDispatched
<1>11. CASE Answered(t)
  BY <1>2, <1>11 DEF Answered, At, Resting
<1>12. CASE ClearOut(t)
  <2>1. CASE outq[th[t].ph] = <<>>
    BY <1>0, <1>12, <2>1, GotoCalm DEF ClearOut, At, Listing, Resting
  <2>2. CASE outq[th[t].ph] # <<>>
    BY <1>12, <2>2 DEF ClearOut, CalmTo, Calm
  <2>. QED BY <2>1, <2>2
<1>13. CASE ClearIn(t)
  <2>1. CASE inq[th[t].ph] = <<>>
    BY <1>0, <1>13, <2>1, BackCalm DEF ClearIn, At, Resting
  <2>2. CASE inq[th[t].ph] # <<>>
    BY <1>13, <2>2 DEF ClearIn, CalmTo, Calm
  <2>. QED BY <2>1, <2>2
<1>14. CASE TimesOut(t)
  BY <1>2, <1>14 DEF TimesOut, At, Resting
<1>. QED BY <1>3, <1>4, <1>5, <1>6, <1>7, <1>8, <1>9, <1>10, <1>11, <1>12, <1>13, <1>14 DEF Insertion

LEMMA LoopCalm ==
    ASSUME TypeInv, FlagIsToken, NEW d \in Dispatcher,
           DispatcherLoop(d), ~TakeIn(d), ~ScanTake(d), ~ScanSkip(d), ~Unflag(d)
    PROVE  FlagIsToken'
<1>0. Threads(th) /\ d \in Thread /\ th[d] \in ThreadState
  BY DispatcherThread DEF TypeInv, Threads
<1> SUFFICES CalmTo(th') /\ UNCHANGED <<flags, outList, inList>>
  BY CalmStep, FlagsSame
<1>1. ASSUME NEW r, Calm(d, th[d], r), th' = [th EXCEPT ![d] = r] PROVE CalmTo(th')
  BY <1>0, <1>1, CalmChange
<1>2. CASE Exit(d)
  <2> DEFINE r == [th[d] EXCEPT !.pc = "none"]
  <2>1. r \in ThreadState
    BY <1>0, PCs DEF ThreadState
  <2>2. ThreadOK(d, r) /\ Calm(d, th[d], r)
    BY <2>1, <1>0 DEF Threads, ThreadOK, AtRest, Inserting, Filling, ThreadState, Calm, Resting
  <2>3. [th EXCEPT ![d].pc = "none"] = [th EXCEPT ![d] = r]
    BY <1>0 DEF Threads
  <2>4. Threads([th EXCEPT ![d] = r]) /\ CalmTo([th EXCEPT ![d] = r])
    BY <1>0, <2>2, ThreadChanges, CalmChange
  <2>5. Signal([th EXCEPT ![d].pc = "none"])
    BY <1>2 DEF Exit
  <2>6. Threads([th EXCEPT ![d].pc = "none"]) /\ CalmTo([th EXCEPT ![d].pc = "none"])
    BY <2>3, <2>4
  <2>7. CalmTo(th')
    BY <2>5, <2>6, SignalCalm
  <2>. QED BY <1>2, <2>7, QueuesSame DEF Exit
<1>3. CASE ScanStart(d)
  <2> DEFINE r == [th[d] EXCEPT !.pc = "scan", !.at = 1]
  <2>1. Calm(d, th[d], r)
    BY <1>0 DEF Calm, ThreadState, Resting
  <2>2. th' = [th EXCEPT ![d] = r]
    BY <1>0, <1>3 DEF ScanStart, Threads
  <2>. QED BY <1>1, <1>3, <2>1, <2>2, QueuesSame DEF ScanStart
<1>4. CASE ScanEnd(d)
  BY <1>0, <1>4, IdleCalm, QueuesSame DEF ScanEnd
<1>5. CASE Dequeue(d)
  <2> DEFINE q == IF th[d].out THEN outq[th[d].ph] ELSE inq[th[d].ph]
             r == [th[d] EXCEPT !.pc = "exec", !.cur = Head(q), !.returnde = ~de[Head(q)].noreturn]
  <2>1. Calm(d, th[d], r)
    BY <1>0, <1>5 DEF Dequeue, At, Calm, ThreadState, Listing, Resting
  <2>2. th' = [th EXCEPT ![d] = r]
    BY <1>0, <1>5 DEF Dequeue, Threads
  <2>. QED BY <1>1, <1>5, <2>1, <2>2 DEF Dequeue
<1>6. CASE Leave(d)
  BY <1>0, <1>6, IdleCalm, QueuesSame DEF Leave
<1>7. CASE EntryDone(d)
  <2> DEFINE r == [Idle("serve") EXCEPT !.ph = th[d].ph, !.out = th[d].out]
  <2>1. r.pc = "serve" /\ r.ph = th[d].ph /\ r.out = th[d].out
    BY DEF Idle
  <2>2. Calm(d, th[d], r)
    BY <1>7, <2>1 DEF EntryDone, At, Calm, Listing, Resting
  <2>3. th' = [th EXCEPT ![d] = r]
    BY <1>7 DEF EntryDone
  <2>. QED BY <1>1, <1>7, <2>2, <2>3 DEF EntryDone
<1>. QED BY <1>2, <1>3, <1>4, <1>5, <1>6, <1>7 DEF DispatcherLoop

LEMMA ExecutionCalm ==
    ASSUME TypeInv, FlagIsToken, NEW d \in Dispatcher, Execution(d)
    PROVE  FlagIsToken'
<1>0. Threads(th) /\ d \in Thread /\ th[d] \in ThreadState /\ flags \in [Channel -> SUBSET Flag]
  BY DispatcherThread DEF TypeInv, Threads, RestOK
<1> SUFFICES CalmTo(th') /\ FlagsKept /\ UNCHANGED <<outList, inList>>
  BY CalmStep
<1>1. ASSUME NEW where \in {"callback", "done", "called", "enablefailed", "unslot"},
             Goto(d, where), th[d].pc \notin Resting
      PROVE  CalmTo(th')
  BY <1>0, <1>1, GotoCalm DEF Listing
<1>2. ASSUME th' = [th EXCEPT ![d].pc = "clearout", ![d].cont = "attacherror"],
             th[d].pc \notin Resting
      PROVE  CalmTo(th')
  <2> DEFINE r == [th[d] EXCEPT !.pc = "clearout", !.cont = "attacherror"]
  <2>1. Calm(d, th[d], r)
    BY <1>0, <1>2 DEF Calm, ThreadState, Listing
  <2>2. th' = [th EXCEPT ![d] = r]
    BY <1>0, <1>2 DEF Threads
  <2>3. CalmTo([th EXCEPT ![d] = r])
    BY <1>0, <2>1, CalmChange
  <2>. QED BY <2>2, <2>3
<1>3. CASE ExecAttachFails(d)
  BY <1>2, <1>3, FlagsSame, QueuesSame DEF ExecAttachFails, Executing, At, Resting
<1>4. CASE ExecEvent(d)
  <2>1. FlagsKept
    BY <1>0, <1>4 DEF ExecEvent, FlagsKept
  <2>. QED BY <1>1, <1>4, <2>1 DEF ExecEvent, Executing, At, Resting
<1>5. CASE ExecInternal(d)
  BY <1>1, <1>5, FlagsSame, QueuesSame DEF ExecInternal, Executing, At, Resting
<1>6. CASE ExecRequest(d)
  BY <1>1, <1>6, FlagsSame DEF ExecRequest, Executing, At, Resting
<1>7. CASE ExecAsyncRequest(d)
  <2> DEFINE jobs == <<Job("USERREQCALLBACK", TRUE)>>
             r == [th[d] EXCEPT !.pc = "get", !.todo = jobs, !.cont = "callbackqueued"]
  <2>1. Calm(d, th[d], r)
    BY <1>0, <1>7 DEF ExecAsyncRequest, Executing, At, Calm, ThreadState, Listing, Resting
  <2>2. th' = [th EXCEPT ![d] = r]
    BY <1>0, <1>7 DEF ExecAsyncRequest, Threads
  <2>3. CalmTo([th EXCEPT ![d] = r])
    BY <1>0, <2>1, CalmChange
  <2>4. CalmTo(th')
    BY <2>2, <2>3
  <2>. QED BY <1>7, <2>4, FlagsSame, QueuesSame DEF ExecAsyncRequest
<1>8. CASE CallbackQueued(d)
  BY <1>1, <1>8, FlagsSame, QueuesSame DEF CallbackQueued, At, Resting
<1>9. CASE Callback(d)
  <2>1. th[d].pc \notin Resting
    BY <1>9 DEF Callback, At, Resting
  <2>2. CASE Starts(d, th[d].ph, <<SyncRequest>>, "get", "called")
    BY <1>0, <1>9, <2>1, <2>2, StartsCalm, FlagsSame, QueuesSame DEF Callback, Listing
  <2>3. CASE Goto(d, "called")
    BY <1>1, <1>9, <2>1, <2>3, FlagsSame, QueuesSame DEF Callback
  <2>. QED BY <1>9, <2>2, <2>3 DEF Callback
<1>10. CASE Called(d)
  <2>1. FlagsKept
    BY <1>0, <1>10 DEF Called, FlagsKept, Over
  <2>. QED BY <1>1, <1>10, <2>1 DEF Called, At, Resting
<1>11. CASE EnableFails(d)
  <2>1. FlagsKept
    BY <1>0, <1>11 DEF EnableFails, FlagsKept
  <2>. QED BY <1>1, <1>11, <2>1 DEF EnableFails, At, Resting
<1>12. CASE EnableFailed(d)
  <2>1. FlagsKept
    BY <1>0, <1>12 DEF EnableFailed, FlagsKept
  <2>. QED BY <1>2, <1>12, <2>1 DEF EnableFailed, At, Resting
<1>13. CASE AttachError(d)
  <2>1. FlagsKept
    BY <1>0, <1>13 DEF AttachError, AttachFlags, FlagsKept
  <2>. QED BY <1>1, <1>13, <2>1 DEF AttachError, At, Resting
<1>14. CASE AttachErrorUnslot(d)
  BY <1>1, <1>14, FlagsSame, QueuesSame DEF AttachErrorUnslot, At, Resting
<1>. QED BY <1>3, <1>4, <1>5, <1>6, <1>7, <1>8, <1>9, <1>10, <1>11, <1>12, <1>13, <1>14 DEF Execution

\* The threads that are not dispatchers only matter when they list a channel
LEMMA OthersCalm ==
    ASSUME Threads(th), NEW t \in Thread \ Dispatcher, NEW r, r.pc \notin Listing
    PROVE  CalmTo([th EXCEPT ![t] = r])
<1>1. Calm(t, th[t], r)
  BY DEF Calm
<1>. QED BY <1>1, CalmChange

LEMMA OthersGotoCalm ==
    ASSUME Threads(th), NEW t \in Thread \ Dispatcher, NEW where, where \notin Listing, Goto(t, where)
    PROVE  CalmTo(th')
<1> DEFINE r == [th[t] EXCEPT !.pc = where]
<1>1. r.pc \notin Listing
  BY DEF Threads, ThreadState
<1>2. th' = [th EXCEPT ![t] = r]
  BY DEF Goto, Threads
<1>3. CalmTo([th EXCEPT ![t] = r])
  BY <1>1, OthersCalm
<1>. QED BY <1>2, <1>3

LEMMA AttachingToken ==
    ASSUME TypeInv, FlagIsToken, Attaching
    PROVE  FlagIsToken'
<1>0. Threads(th) /\ Central \in Thread \ Dispatcher /\ th[Central] \in ThreadState
      /\ flags \in [Channel -> SUBSET Flag]
  BY CentralNotDispatcher DEF TypeInv, Threads, RestOK
<1> SUFFICES CalmTo(th') /\ FlagsKept /\ UNCHANGED <<outList, inList>>
  BY CalmStep
<1>1. ASSUME NEW where \in {"slot", "attach", "wake", "detaching", "close"}, Goto(Central, where)
      PROVE  CalmTo(th')
  BY <1>0, <1>1, OthersGotoCalm DEF Listing
<1>2. ASSUME NEW cont, th' = [th EXCEPT ![Central].pc = "clearout", ![Central].cont = cont]
      PROVE  CalmTo(th')
  <2> DEFINE r == [th[Central] EXCEPT !.pc = "clearout", !.cont = cont]
  <2>1. r.pc \notin Listing
    BY <1>0 DEF ThreadState, Listing
  <2>2. th' = [th EXCEPT ![Central] = r]
    BY <1>0, <1>2 DEF Threads
  <2>3. CalmTo([th EXCEPT ![Central] = r])
    BY <1>0, <2>1, OthersCalm
  <2>. QED BY <2>2, <2>3
<1>3. CASE AttachFlag
  <2>1. FlagsKept
    BY <1>0, <1>3 DEF AttachFlag, FlagsKept
  <2>. QED BY <1>1, <1>3, <2>1 DEF AttachFlag
<1>4. CASE AttachSlot
  BY <1>1, <1>4, FlagsSame, QueuesSame DEF AttachSlot
<1>5. CASE AttachRefused
  <2>1. FlagsKept
    BY <1>0, <1>5 DEF AttachRefused, FlagsKept
  <2>. QED BY <1>2, <1>5, <2>1 DEF AttachRefused
<1>6. CASE Attached
  <2>1. FlagsKept
    BY <1>0, <1>6 DEF Attached, FlagsKept
  <2>. QED BY <1>1, <1>6, <2>1 DEF Attached
<1>7. CASE WakeDispatch
  <2> DEFINE h == [th EXCEPT ![Central] = Idle("idle")]
  <2>1. Threads(h) /\ CalmTo(h)
    BY <1>0, IdleOK, ThreadChanges, IdleCalm
  <2>2. Signal(h)
    BY <1>7 DEF WakeDispatch
  <2> HIDE DEF h
  <2>3. CalmTo(th')
    BY <2>1, <2>2, SignalCalm
  <2>. QED BY <1>7, <2>3, FlagsSame, QueuesSame DEF WakeDispatch
<1>8. CASE DetachWaited
  <2>1. CalmTo(th')
    BY <1>1, <1>2, <1>8 DEF DetachWaited
  <2>. QED BY <1>8, <2>1, FlagsSame, QueuesSame DEF DetachWaited
<1>9. CASE DetachFlag
  <2>1. FlagsKept
    BY <1>0, <1>9 DEF DetachFlag, FlagsKept
  <2>. QED BY <1>2, <1>9, <2>1 DEF DetachFlag
<1>10. CASE DetachDispatch
  <2>1. CalmTo(th')
    BY <1>0, <1>10, StartsCalm DEF DetachDispatch, Listing
  <2>. QED BY <1>10, <2>1, FlagsSame, QueuesSame DEF DetachDispatch
<1>11. CASE CentralUnslot
  BY <1>0, <1>11, IdleCalm, FlagsSame, QueuesSame DEF CentralUnslot
<1>12. CASE DetachClose
  <2>1. FlagsKept
    BY <1>0, <1>12 DEF DetachClose, FlagsKept
  <2>. QED BY <1>1, <1>12, <2>1 DEF DetachClose
<1>. QED BY <1>3, <1>4, <1>5, <1>6, <1>7, <1>8, <1>9, <1>10, <1>11, <1>12 DEF Attaching

LEMMA UsersToken ==
    ASSUME TypeInv, FlagIsToken, (\E t \in User \cup {Central} : Closing(t)) \/ Environment
    PROVE  FlagIsToken'
<1>0. Threads(th) /\ flags \in [Channel -> SUBSET Flag]
  BY DEF TypeInv, RestOK
<1> SUFFICES CalmTo(th') /\ FlagsKept /\ UNCHANGED <<outList, inList>>
  BY CalmStep
<1>1. User \cup Source \cup {Central} \subseteq Thread \ Dispatcher
  BY ConstantsAssumption DEF Thread
<1>2. ASSUME NEW t \in User \cup Source \cup {Central}, NEW p, NEW jobs, NEW first, NEW cont,
             Starts(t, p, jobs, first, cont), first \notin Listing
      PROVE  CalmTo(th')
  BY <1>0, <1>1, <1>2, StartsCalm
<1>3. ASSUME NEW t \in User \cup {Central}, CloseParent(t) \/ CloseSlot(t)
      PROVE CalmTo(th') /\ FlagsKept /\ UNCHANGED <<outList, inList>>
  <2>1. \E where \in {"closing", "closeslot"} : Goto(t, where)
    BY <1>3 DEF CloseParent, CloseSlot
  <2>2. CalmTo(th')
    BY <1>0, <1>1, <2>1, OthersGotoCalm DEF Listing
  <2>. QED BY <1>3, <2>2, FlagsSame, QueuesSame DEF CloseParent, CloseSlot
<1>4. ASSUME NEW t \in User \cup {Central}, CloseStop(t)
      PROVE CalmTo(th') /\ FlagsKept /\ UNCHANGED <<outList, inList>>
  <2>1. CASE Back(t) /\ UNCHANGED flags
    <3>1. CalmTo(th')
      BY <1>0, <1>1, <1>4, <2>1, BackCalm DEF CloseStop, At, Resting
    <3>. QED BY <1>4, <2>1, <3>1, FlagsSame DEF CloseStop
  <2>2. CASE flags' = [flags EXCEPT ![th[t].ph] = @ \ {"ATTACHED"}] /\ Goto(t, "clearout")
    <3>1. FlagsKept
      BY <1>0, <2>2 DEF FlagsKept
    <3>. QED BY <1>0, <1>1, <1>4, <2>2, <3>1, OthersGotoCalm DEF CloseStop, Listing
  <2>. QED BY <1>4, <2>1, <2>2 DEF CloseStop
<1>5. ASSUME NEW p \in Channel, AttachStart(p)
      PROVE CalmTo(th') /\ FlagsKept /\ UNCHANGED <<outList, inList>>
  BY <1>2, <1>5, FlagsSame, QueuesSame DEF AttachStart, Listing
<1>6. ASSUME NEW p \in Channel, DetachStart(p)
      PROVE CalmTo(th') /\ FlagsKept /\ UNCHANGED <<outList, inList>>
  BY <1>2, <1>6, FlagsSame, QueuesSame DEF DetachStart, Listing
<1>7. ASSUME NEW u \in User, NEW p \in Channel, Request(u, p)
      PROVE CalmTo(th') /\ FlagsKept /\ UNCHANGED <<outList, inList>>
  BY <1>2, <1>7, FlagsSame, QueuesSame DEF Request, Listing
<1>8. ASSUME NEW u \in User, NEW p \in Channel, CloseStart(u, p)
      PROVE CalmTo(th') /\ FlagsKept /\ UNCHANGED <<outList, inList>>
  <2>1. FlagsKept
    BY <1>0, <1>8 DEF CloseStart, FlagsKept
  <2>. QED BY <1>2, <1>8, <2>1 DEF CloseStart, Listing
<1>9. ASSUME NEW u \in User, NEW p \in Channel, Open(u, p)
      PROVE CalmTo(th') /\ FlagsKept /\ UNCHANGED <<outList, inList>>
  <2>1. FlagsKept
    BY <1>0, <1>9 DEF Open, FlagsKept
  <2>. QED BY <1>9, <2>1 DEF Open, CalmTo, Calm
<1>10. ASSUME NEW s \in Source, NEW p \in Channel, Deliver(s, p)
      PROVE CalmTo(th') /\ FlagsKept /\ UNCHANGED <<outList, inList>>
  BY <1>2, <1>10, FlagsSame, QueuesSame DEF Deliver, Listing
<1>. QED BY <1>3, <1>4, <1>5, <1>6, <1>7, <1>8, <1>9, <1>10 DEF Closing, Environment

-----------------------------------------------------------------------------
(* Steps that pass a token on *)

LEMMA MarkToken ==
    ASSUME TypeInv, FlagIsToken, NEW t \in Thread, Mark(t)
    PROVE  FlagIsToken'
<1> DEFINE q == th[t].ph
           f == IF de[th[t].req].inbound THEN "DISPATCHIN" ELSE "DISPATCHOUT"
           where == IF ~FirstToSet(q, f) THEN "signal"
                    ELSE IF f = "DISPATCHIN" THEN "listin" ELSE "listout"
           r == [th[t] EXCEPT !.pc = where]
<1>0. /\ Threads(th) /\ th[t] \in ThreadState /\ th[t].pc = "mark"
      /\ flags \in [Channel -> SUBSET Flag] /\ q \in Channel
  BY DEF TypeInv, Threads, RestOK, Mark, At, ThreadOK, AtRest
<1>1. /\ flags' = [flags EXCEPT ![q] = @ \cup {f}] /\ Goto(t, where)
      /\ UNCHANGED <<outList, inList>>
  BY DEF Mark
<1>2. f \in {"DISPATCHIN", "DISPATCHOUT"} /\ where \in {"signal", "listin", "listout"}
      /\ (where = "listin" => f = "DISPATCHIN") /\ (where = "listout" => f = "DISPATCHOUT")
      /\ (where # "signal" => f \notin flags[q])
  BY DEF FirstToSet, Has
<1> HIDE DEF f, where
<1>3. /\ th'[t].pc = where /\ th'[t].ph = q /\ th'[t].out = th[t].out
      /\ \A u \in Thread : u # t => th'[u] = th[u]
  BY <1>0, <1>1 DEF Goto, Threads, ThreadState
<1> SUFFICES ASSUME NEW p \in Channel, NEW out \in BOOLEAN PROVE Token(p, out)'
  BY DEF FlagIsToken
<1>4. Token(p, out)
  BY DEF FlagIsToken
<1>5. DispatchList(out)' = DispatchList(out)
  BY <1>1 DEF DispatchList
<1>6. QueueFlag(out) \in flags[p] => QueueFlag(out) \in flags'[p]
  BY <1>0, <1>1 DEF QueueFlag
<1>7. \A d \in Dispatcher : Drains(d, p, out)' => Drains(d, p, out)
  BY <1>0, <1>3, DispatcherThread DEF Drains
<1>8. CASE p = q /\ where = IF out THEN "listout" ELSE "listin"
  <2>1. QueueFlag(out) = f /\ QueueFlag(out) \notin flags[p] /\ QueueFlag(out) \in flags'[p]
    BY <1>0, <1>1, <1>2, <1>8 DEF QueueFlag
  <2>2. /\ \A u \in Thread : ~Lists(u, p, out)
        /\ \A i \in 1..Len(DispatchList(out)) : ~OnList(i, p, out)
        /\ \A d \in Dispatcher : ~Drains(d, p, out)
    BY <1>4, <2>1 DEF Token
  <2>3. \A u \in Thread : Lists(u, p, out)' => u = t
    BY <1>3, <2>2 DEF Lists
  <2>4. \A i \in 1..Len(DispatchList(out)') : ~OnList(i, p, out)'
    BY <1>5, <2>2 DEF OnList
  <2>5. \A d \in Dispatcher : ~Drains(d, p, out)'
    BY <1>7, <2>2
  <2>. QED BY <2>1, <2>3, <2>4, <2>5 DEF Token, QueueFlag
<1>9. CASE ~(p = q /\ where = IF out THEN "listout" ELSE "listin")
  <2>1. \A u \in Thread : Lists(u, p, out)' => Lists(u, p, out)
    BY <1>3, <1>9 DEF Lists
  <2>. QED BY <1>4, <1>5, <1>6, <1>7, <2>1, TokenKeptOnList
<1>. QED BY <1>8, <1>9

LEMMA PutOnListToken ==
    ASSUME TypeInv, FlagIsToken, NEW t \in Thread, NEW side \in BOOLEAN,
           Lists(t, th[t].ph, side), Goto(t, "signal"), UNCHANGED flags,
           DispatchList(side)' = Append(DispatchList(side), th[t].ph),
           DispatchList(~side)' = DispatchList(~side)
    PROVE  FlagIsToken'
<1> DEFINE q == th[t].ph
           L == DispatchList(side)
<1>0. /\ Threads(th) /\ th[t] \in ThreadState /\ th[t].pc \in Listing /\ q \in Channel
      /\ L \in Seq(Channel)
  BY DEF TypeInv, Threads, RestOK, Lists, Listing, ThreadOK, AtRest, DispatchList
<1>1. /\ th'[t].pc = "signal" /\ th'[t].ph = q /\ th'[t].out = th[t].out
      /\ \A u \in Thread : u # t => th'[u] = th[u]
  BY <1>0 DEF Goto, Threads, ThreadState
<1>2. /\ Len(L') = Len(L) + 1 /\ Len(L) \in Nat
      /\ \A i \in 1..Len(L) : L'[i] = L[i]
      /\ L'[Len(L) + 1] = q
  BY <1>0, AppendProperties, LenProperties
<1> HIDE DEF L
<1> SUFFICES ASSUME NEW p \in Channel, NEW out \in BOOLEAN PROVE Token(p, out)'
  BY DEF FlagIsToken
<1>3. Token(p, out)
  BY DEF FlagIsToken
<1>4. \A d \in Dispatcher : Drains(d, p, out)' => Drains(d, p, out)
  BY <1>0, <1>1, DispatcherThread DEF Drains, Listing
<1>5. \A u \in Thread : Lists(u, p, out)' => Lists(u, p, out) /\ u # t
  BY <1>1 DEF Lists
<1>6. CASE out # side
  <2>1. DispatchList(out)' = DispatchList(out)
    BY <1>6, out = ~side
  <2>. QED BY <1>3, <1>4, <1>5, <2>1, TokenKeptOnList
<1>7. CASE out = side /\ p # q
  <2>1. \A i \in 1..Len(L') : OnList(i, p, out)' => i \in 1..Len(L) /\ OnList(i, p, out)
    BY <1>2, <1>7 DEF OnList, L
  <2>2. DispatchList(out)' = L' /\ DispatchList(out) = L
    BY <1>7 DEF L
  <2>. QED BY <1>3, <1>4, <1>5, <2>1, <2>2 DEF Token, QueueFlag
<1>8. CASE out = side /\ p = q
  <2>1. /\ QueueFlag(out) \in flags'[p]
        /\ \A u \in Thread : ~Lists(u, p, out)'
        /\ \A i \in 1..Len(L) : ~OnList(i, p, out)
        /\ \A d \in Dispatcher : ~Drains(d, p, out)
    BY <1>3, <1>5, <1>8 DEF Token, L
  <2>2. \A i \in 1..Len(L') : OnList(i, p, out)' => i = Len(L) + 1
    BY <1>2, <1>8, <2>1 DEF OnList, L
  <2>3. DispatchList(out)' = L'
    BY <1>8 DEF L
  <2>. QED BY <1>4, <2>1, <2>2, <2>3 DEF Token, QueueFlag
<1>. QED BY <1>6, <1>7, <1>8

\* A channel leaves the list, to be drained by dispatcher d
LEMMA TakeToken ==
    ASSUME TypeInv, FlagIsToken, NEW d \in Dispatcher, NEW side \in BOOLEAN,
           NEW i \in 1..Len(DispatchList(side)), th[d].pc \in Resting, UNCHANGED flags,
           th'[d].pc = "serve", th'[d].ph = DispatchList(side)[i], th'[d].out = side,
           \A u \in Thread : u # d => th'[u] = th[u],
           Len(DispatchList(side)') = Len(DispatchList(side)) - 1,
           \A j \in 1..Len(DispatchList(side)) - 1 :
              DispatchList(side)'[j] = DispatchList(side)[IF j < i THEN j ELSE j + 1],
           DispatchList(~side)' = DispatchList(~side)
    PROVE  FlagIsToken'
<1> DEFINE L == DispatchList(side)
           q == L[i]
           to(j) == IF j < i THEN j ELSE j + 1
<1>0. Len(L) \in Nat /\ Len(L') = Len(L) - 1 /\ \A j \in 1..Len(L) - 1 : L'[j] = L[to(j)]
  <2>1. L \in Seq(Channel)
    BY DEF TypeInv, RestOK, DispatchList
  <2>. QED BY <2>1, LenProperties
<1>1. \A j \in 1..Len(L') : to(j) \in 1..Len(L) /\ to(j) # i
                            /\ \A k \in 1..Len(L') : to(j) = to(k) => j = k
  BY <1>0
<1> SUFFICES ASSUME NEW p \in Channel, NEW out \in BOOLEAN PROVE Token(p, out)'
  BY DEF FlagIsToken
<1>2. Token(p, out)
  BY DEF FlagIsToken
<1>3. \A u \in Thread : Lists(u, p, out)' => Lists(u, p, out)
  BY DEF Lists
<1>4. \A c \in Dispatcher : Drains(c, p, out)' => Drains(c, p, out) \/ (c = d /\ p = q /\ out = side)
  BY DispatcherThread DEF Drains
<1>5. out = side => \A j \in 1..Len(L') : OnList(j, p, out)' => OnList(to(j), p, out)
  BY <1>0 DEF OnList
<1> HIDE DEF L, to
<1>6. CASE out # side
  <2>1. DispatchList(out)' = DispatchList(out)
    BY <1>6, out = ~side
  <2>. QED BY <1>2, <1>3, <1>4, <1>6, <2>1, TokenKeptOnList
<1>7. CASE out = side /\ p # q
  <2>1. DispatchList(out)' = L' /\ DispatchList(out) = L
    BY <1>7 DEF L
  <2>. QED BY <1>1, <1>2, <1>3, <1>4, <1>5, <1>7, <2>1 DEF Token, QueueFlag
<1>8. CASE out = side /\ p = q
  <2>1. DispatchList(out)' = L' /\ DispatchList(out) = L /\ OnList(i, p, out)
    BY <1>8 DEF L, OnList
  <2>2. /\ QueueFlag(out) \in flags'[p]
        /\ \A u \in Thread : ~Lists(u, p, out)
        /\ \A j \in 1..Len(L) : OnList(j, p, out) => j = i
        /\ \A c \in Dispatcher : ~Drains(c, p, out)
    BY <1>2, <2>1 DEF Token, L
  <2>3. \A j \in 1..Len(L') : ~OnList(j, p, out)'
    BY <1>1, <1>5, <1>8, <2>2
  <2>4. \A u \in Thread : ~Lists(u, p, out)'
    BY <1>3, <2>2
  <2>5. \A c \in Dispatcher : Drains(c, p, out)' => c = d
    BY <1>4, <2>2
  <2>. QED BY <2>1, <2>2, <2>3, <2>4, <2>5 DEF Token, QueueFlag
<1>. QED BY <1>6, <1>7, <1>8

LEMMA ScanSkipToken ==
    ASSUME TypeInv, FlagIsToken, NEW d \in Dispatcher, ScanSkip(d)
    PROVE  FlagIsToken'
<1> DEFINE i == th[d].at
           q == outList[i]
           to(j) == IF j < i THEN j ELSE j + 1
<1>0. /\ Threads(th) /\ d \in Thread /\ th[d] \in ThreadState /\ flags \in [Channel -> SUBSET Flag]
      /\ i \in 1..Len(outList) /\ outList \in Seq(Channel) /\ th[d].pc = "scan" /\ inList' = inList
  <2>1. d \in Thread /\ Threads(th) /\ flags \in [Channel -> SUBSET Flag] /\ outList \in Seq(Channel)
    BY DispatcherThread DEF TypeInv, RestOK
  <2>2. th[d] \in ThreadState /\ ThreadOK(d, th[d])
    BY <2>1 DEF Threads
  <2>3. th[d].pc = "scan" /\ i <= Len(outList) /\ inList' = inList
    BY DEF ScanSkip, At
  <2>4. i \in Nat /\ i > 0 /\ Len(outList) \in Nat
    BY <2>1, <2>2, <2>3, LenProperties DEF ThreadOK, ThreadState
  <2>. QED BY <2>1, <2>2, <2>3, <2>4
<1>1. CASE Has(q, {"OPEN"})
  <2> DEFINE r == [th[d] EXCEPT !.at = i + 1]
  <2>1. Calm(d, th[d], r)
    BY <1>0 DEF Calm, ThreadState, Resting
  <2>2. th' = [th EXCEPT ![d] = r] /\ UNCHANGED <<flags, outList>>
    BY <1>0, <1>1 DEF ScanSkip, Threads
  <2>3. CalmTo([th EXCEPT ![d] = r])
    BY <1>0, <2>1, CalmChange
  <2>. QED BY <1>0, <2>2, <2>3, CalmStep, FlagsSame
<1>2. CASE ~Has(q, {"OPEN"})
  <2>1. /\ outList' = RemoveAt(outList, i) /\ UNCHANGED th
        /\ flags' = [flags EXCEPT ![q] = @ \ {"DISPATCHOUT"}]
    BY <1>2 DEF ScanSkip
  <2>2. /\ Len(outList) \in Nat /\ Len(outList') = Len(outList) - 1
        /\ \A j \in 1..Len(outList) - 1 : outList'[j] = outList[to(j)]
    BY <1>0, <2>1, RemoveAtProperties, LenProperties
  <2>3. \A j \in 1..Len(outList') : to(j) \in 1..Len(outList) /\ to(j) # i
                            /\ \A k \in 1..Len(outList') : to(j) = to(k) => j = k
    BY <1>0, <2>2
  <2> SUFFICES ASSUME NEW p \in Channel, NEW out \in BOOLEAN PROVE Token(p, out)'
    BY DEF FlagIsToken
  <2>4. Token(p, out)
    BY DEF FlagIsToken
  <2>5. /\ \A u \in Thread : Lists(u, p, out)' <=> Lists(u, p, out)
        /\ \A c \in Dispatcher : Drains(c, p, out)' <=> Drains(c, p, out)
    BY <2>1 DEF Lists, Drains
  <2>6. out => \A j \in 1..Len(outList') : OnList(j, p, out)' => OnList(to(j), p, out)
    BY <2>2 DEF OnList, DispatchList
  <2> HIDE DEF to
  <2>7. CASE ~out
    <3>1. QueueFlag(out) \in flags[p] => QueueFlag(out) \in flags'[p]
      BY <1>0, <2>1, <2>7 DEF QueueFlag
    <3>2. DispatchList(out)' = DispatchList(out)
      BY <1>0, <2>7 DEF DispatchList
    <3>. QED BY <2>4, <2>5, <3>1, <3>2, TokenKeptOnList
  <2>8. CASE out /\ p # q
    <3>1. QueueFlag(out) \in flags[p] => QueueFlag(out) \in flags'[p]
      BY <1>0, <2>1, <2>8 DEF QueueFlag
    <3>2. DispatchList(out)' = outList' /\ DispatchList(out) = outList
      BY <2>8 DEF DispatchList
    <3>3. \A j \in 1..Len(DispatchList(out)') : OnList(j, p, out)' =>
             to(j) \in 1..Len(DispatchList(out)) /\ OnList(to(j), p, out)
      BY <2>3, <2>6, <2>8, <3>2
    <3>4. \A j, k \in 1..Len(DispatchList(out)') : to(j) = to(k) => j = k
      BY <2>3, <3>2
    <3> DEFINE f == [j \in 1..Len(DispatchList(out)') |-> to(j)]
    <3>5. \A j \in 1..Len(DispatchList(out)') : f[j] = to(j)
      OBVIOUS
    <3> HIDE DEF f
    <3>. QED BY <2>4, <2>5, <3>1, <3>3, <3>4, <3>5, TokenKept
  <2>9. CASE out /\ p = q
    <3>1. DispatchList(out)' = outList' /\ DispatchList(out) = outList /\ OnList(i, p, out)
      BY <2>9 DEF DispatchList, OnList
    <3>2. /\ \A u \in Thread : ~Lists(u, p, out)
          /\ \A j \in 1..Len(outList) : OnList(j, p, out) => j = i
          /\ \A c \in Dispatcher : ~Drains(c, p, out)
      BY <1>0, <2>4, <3>1 DEF Token
    <3>3. \A j \in 1..Len(outList') : ~OnList(j, p, out)'
      BY <2>3, <2>6, <2>9, <3>2
    <3>. QED BY <2>5, <3>1, <3>2, <3>3 DEF Token
  <2>. QED BY <2>7, <2>8, <2>9
<1>. QED BY <1>1, <1>2

LEMMA UnflagToken ==
    ASSUME TypeInv, FlagIsToken, NEW d \in Dispatcher, Unflag(d)
    PROVE  FlagIsToken'
<1> DEFINE q == th[d].ph
           side == th[d].out
<1>0. /\ Threads(th) /\ d \in Thread /\ th[d] \in ThreadState /\ flags \in [Channel -> SUBSET Flag]
      /\ th[d].pc = "serve" /\ q \in Channel /\ side \in BOOLEAN
      /\ flags' = [flags EXCEPT ![q] = @ \ {QueueFlag(side)}]
      /\ UNCHANGED <<outList, inList>> /\ Goto(d, "leave")
  BY DispatcherThread DEF TypeInv, Threads, RestOK, Unflag, At, ThreadOK, ThreadState, AtRest, QueueFlag
<1>1. Drains(d, q, side)
  BY <1>0 DEF Drains
<1>2. th'[d].pc = "leave" /\ \A u \in Thread : u # d => th'[u] = th[u]
  BY <1>0 DEF Goto, Threads, ThreadState
<1> SUFFICES ASSUME NEW p \in Channel, NEW out \in BOOLEAN PROVE Token(p, out)'
  BY DEF FlagIsToken
<1>3. Token(p, out)
  BY DEF FlagIsToken
<1>4. DispatchList(out)' = DispatchList(out)
  BY <1>0 DEF DispatchList
<1>5. /\ \A u \in Thread : Lists(u, p, out)' => Lists(u, p, out)
      /\ \A c \in Dispatcher : Drains(c, p, out)' => Drains(c, p, out) /\ c # d
  BY <1>2, DispatcherThread DEF Lists, Drains
<1>6. CASE p = q /\ out = side
  <2>1. /\ \A u \in Thread : ~Lists(u, p, out)
        /\ \A i \in 1..Len(DispatchList(out)) : ~OnList(i, p, out)
        /\ \A c \in Dispatcher : Drains(c, p, out) => c = d
    BY <1>1, <1>3, <1>6 DEF Token
  <2>2. \A i \in 1..Len(DispatchList(out)') : ~OnList(i, p, out)'
    BY <1>4, <2>1 DEF OnList
  <2>. QED BY <1>5, <2>1, <2>2 DEF Token
<1>7. CASE ~(p = q /\ out = side)
  <2>1. QueueFlag(out) \in flags[p] => QueueFlag(out) \in flags'[p]
    BY <1>0, <1>7 DEF QueueFlag
  <2>. QED BY <1>3, <1>4, <1>5, <2>1, TokenKeptOnList
<1>. QED BY <1>6, <1>7

LEMMA LoopToken ==
    ASSUME TypeInv, FlagIsToken, NEW d \in Dispatcher, DispatcherLoop(d)
    PROVE  FlagIsToken'
<1>0. /\ Threads(th) /\ d \in Thread /\ th[d] \in ThreadState
      /\ inList \in Seq(Channel) /\ outList \in Seq(Channel)
  BY DispatcherThread DEF TypeInv, Threads, RestOK
<1>1. CASE TakeIn(d)
  <2> DEFINE r == [th[d] EXCEPT !.pc = "serve", !.ph = Head(inList), !.out = FALSE]
  <2>1. th' = [th EXCEPT ![d] = r] /\ th[d].pc \in Resting /\ UNCHANGED <<flags, outList>>
        /\ inList # <<>> /\ inList' = Tail(inList)
    BY <1>0, <1>1 DEF TakeIn, At, Threads, Resting
  <2>2. /\ Len(inList') = Len(inList) - 1 /\ Head(inList) = inList[1] /\ 1 \in 1..Len(inList)
        /\ \A j \in 1..Len(inList) - 1 : inList'[j] = inList[j + 1]
    BY <1>0, <2>1, HeadTailProperties, EmptySeq, LenProperties
  <2>3. /\ th'[d].pc = "serve" /\ th'[d].ph = inList[1] /\ th'[d].out = FALSE
        /\ \A u \in Thread : u # d => th'[u] = th[u]
    BY <1>0, <2>1, <2>2 DEF Threads, ThreadState
  <2>4. DispatchList(FALSE) = inList /\ DispatchList(~FALSE) = outList
        /\ DispatchList(FALSE)' = inList' /\ DispatchList(~FALSE)' = outList'
    BY DEF DispatchList
  <2>5. \A j \in 1..Len(inList) - 1 : inList'[j] = inList[IF j < 1 THEN j ELSE j + 1]
    BY <2>2
  <2>. QED BY <2>1, <2>2, <2>3, <2>4, <2>5, TakeToken
<1>2. CASE ScanTake(d)
  <2> DEFINE i == th[d].at
             r == [th[d] EXCEPT !.pc = "serve", !.ph = outList[i], !.out = TRUE, !.at = 0]
  <2>1. /\ th' = [th EXCEPT ![d] = r] /\ th[d].pc \in Resting /\ UNCHANGED <<flags, inList>>
        /\ outList' = RemoveAt(outList, i)
    BY <1>0, <1>2 DEF ScanTake, At, Threads, Resting
  <2>2. i \in 1..Len(outList)
    BY <1>0, <1>2, LenProperties DEF ScanTake, At, Threads, ThreadOK, ThreadState
  <2>3. /\ Len(outList') = Len(outList) - 1
        /\ \A j \in 1..Len(outList) - 1 : outList'[j] = outList[IF j < i THEN j ELSE j + 1]
    BY <1>0, <2>1, <2>2, RemoveAtProperties
  <2>4. /\ th'[d].pc = "serve" /\ th'[d].ph = outList[i] /\ th'[d].out = TRUE
        /\ \A u \in Thread : u # d => th'[u] = th[u]
    BY <1>0, <2>1 DEF Threads, ThreadState
  <2>5. DispatchList(TRUE) = outList /\ DispatchList(~TRUE) = inList
        /\ DispatchList(TRUE)' = outList' /\ DispatchList(~TRUE)' = inList'
    BY DEF DispatchList
  <2>6. /\ i \in 1..Len(DispatchList(TRUE))
        /\ th'[d].ph = DispatchList(TRUE)[i]
        /\ Len(DispatchList(TRUE)') = Len(DispatchList(TRUE)) - 1
        /\ \A j \in 1..Len(DispatchList(TRUE)) - 1 :
              DispatchList(TRUE)'[j] = DispatchList(TRUE)[IF j < i THEN j ELSE j + 1]
        /\ DispatchList(~TRUE)' = DispatchList(~TRUE)
    <3>1. inList' = inList
      BY <2>1
    <3>. QED BY <2>2, <2>3, <2>4, <2>5, <3>1
  <2>7. TRUE \in BOOLEAN
    OBVIOUS
  <2>. QED BY <2>1, <2>4, <2>6, <2>7, TakeToken
<1>. QED BY <1>1, <1>2, LoopCalm, ScanSkipToken, UnflagToken

LEMMA PutOnOutListToken ==
    ASSUME TypeInv, FlagIsToken, NEW t \in Thread, PutOnOutList(t)
    PROVE  FlagIsToken'
<1>1. DispatchList(TRUE) = outList /\ DispatchList(~TRUE) = inList
      /\ DispatchList(TRUE)' = outList' /\ DispatchList(~TRUE)' = inList'
  BY DEF DispatchList
<1>2. Lists(t, th[t].ph, TRUE)
  BY DEF PutOnOutList, At, Lists
<1>. QED BY <1>1, <1>2, PutOnListToken DEF PutOnOutList

LEMMA PutOnInListToken ==
    ASSUME TypeInv, FlagIsToken, NEW t \in Thread, PutOnInList(t)
    PROVE  FlagIsToken'
<1>1. DispatchList(FALSE) = inList /\ DispatchList(~FALSE) = outList
      /\ DispatchList(FALSE)' = inList' /\ DispatchList(~FALSE)' = outList'
  BY DEF DispatchList
<1>2. Lists(t, th[t].ph, FALSE)
  BY DEF PutOnInList, At, Lists
<1>. QED BY <1>1, <1>2, PutOnListToken DEF PutOnInList

-----------------------------------------------------------------------------
(* The theorems *)

LEMMA InitToken == Init => FlagIsToken
<1> SUFFICES ASSUME Init, NEW p \in Channel, NEW out \in BOOLEAN PROVE Token(p, out)
  BY DEF FlagIsToken
<1>1. \A t \in Thread : th[t].pc \in {"none", "idle"} /\ th[t].ph = NoChannel
  BY DEF Init, Idle
<1>2. p # NoChannel
  BY ConstantsAssumption
<1>3. DispatchList(out) = <<>>
  BY DEF Init, DispatchList
<1>. QED BY <1>1, <1>2, <1>3, DispatcherThread DEF Token, Lists, Drains

LEMMA NextToken == TypeInv /\ FlagIsToken /\ [Next]_vars => FlagIsToken'
<1> SUFFICES ASSUME TypeInv, FlagIsToken, [Next]_vars PROVE FlagIsToken'
  OBVIOUS
<1>1. CASE UNCHANGED vars
  BY <1>1, CalmStep, FlagsSame DEF vars, queues, CalmTo, Calm
<1>2. CASE Next
  BY <1>2, InsertionToken, MarkToken, PutOnOutListToken, PutOnInListToken, LoopToken,
     ExecutionCalm, AttachingToken, UsersToken DEF Next
<1>. QED BY <1>1, <1>2

\* The flag of a queue is a token: while it is set, one thread is about to put
\* the channel on the list, or the channel is on the list once, or one dispatcher
\* drains the queue (PhidgetCKandSetFlags and the two lists, dispatch.c:563-579
\* and 1264-1325).
THEOREM TokenInvariant == Spec => []FlagIsToken
<1>1. TypeInv /\ FlagIsToken /\ [][Next]_vars => []FlagIsToken
  <2>1. TypeInv /\ FlagIsToken /\ [Next]_vars => TypeInv' /\ FlagIsToken'
    BY NextType, NextToken
  <2>. QED BY <2>1, PTL
<1>. QED BY <1>1, InitType, InitToken, PTL DEF Spec

LEMMA TokenMeansOne == FlagIsToken => OneDispatcherPerQueue
BY DEF FlagIsToken, Token, OneDispatcherPerQueue

\* For every number of channels, dispatchers, users and sources, at most one
\* dispatcher drains a queue of a channel: the events of a channel reach the
\* user one after the other, and so do its commands the device.
THEOREM OneDispatcher == Spec => []OneDispatcherPerQueue
BY TokenInvariant, TokenMeansOne, PTL

-----------------------------------------------------------------------------
(* What a thread does at each place of the code                            *)

DispatcherPlace == {"none", "loop", "wait", "scan", "serve", "leave", "exec", "done",
                    "callback", "called", "callbackqueued", "enablefailed", "attacherror"}
CentralPlace == {"attaching", "slot", "attach", "wake", "detachwait", "detaching", "detach"}
ClosePlace == {"close", "closeslot", "closing"}
ClearPlace == {"clearout", "clearin"}

CallbackJob == Job("USERREQCALLBACK", TRUE)
StatusJobs == Tail(StartJobs)
InitJobs == Tail(StatusJobs)
DetachJobs == <<Job("CHANNEL_DETACH", FALSE)>>

\* The jobs that a thread t at record r may have, and where it goes after them
JobsFor(t, r) ==
    \/ /\ t = Central
       /\ \/ r.cont = "attaching" /\ r.todo \in {StartJobs, StatusJobs, InitJobs}
          \/ r.cont = "unslot" /\ r.todo = DetachJobs
    \/ /\ t \in Dispatcher
       /\ \/ r.cont = "called" /\ r.todo = <<SyncRequest>>
          \/ r.cont = "callbackqueued" /\ r.todo = <<CallbackJob>>
    \/ /\ t \in User \cup Source
       /\ r.cont = "idle"
       /\ \E ty \in ThrowAway \cup {"USERREQ"}, b \in BOOLEAN : r.todo = <<Job(ty, b)>>

\* Thread t at record r is where a thread of its kind can be
Shape(t, r) ==
    /\ r.pc \in AtRest => r.ph = NoChannel
    /\ r.pc = "idle" => t \notin Dispatcher
    /\ r.pc \in DispatcherPlace => t \in Dispatcher
    /\ r.pc \in CentralPlace => t = Central
    /\ r.pc \in Inserting => JobsFor(t, r)
    /\ r.pc \in ClearPlace => \/ t \in Dispatcher /\ r.cont = "attacherror"
                              \/ t = Central /\ r.cont \in {"unslot", "detach"}
                              \/ t \in User /\ r.cont = "idle"
    /\ r.pc \in ClosePlace => \/ t = Central /\ r.cont = "unslot"
                              \/ t \in User /\ r.cont = "idle"
    /\ r.pc = "unslot" => \/ t = Central /\ r.cont = "unslot"
                          \/ t \in Dispatcher

Shapes(h) == \A t \in Thread : Shape(t, h[t])

-----------------------------------------------------------------------------
(* What a step does to threads                                             *)

\* A thread at record s works on what it worked on at record r
SameWork(r, s) == s.ph = r.ph /\ s.out = r.out /\ s.cur = r.cur

\* It also has the same jobs, and record s is as r but for where the thread is
SameJob(r, s) == SameWork(r, s) /\ s.todo = r.todo /\ s.cont = r.cont
Alike(r, s) == SameJob(r, s) /\ s.req = r.req

\* Thread t acts: no other thread moves, but for dispatchers that wake up
Moved(t) ==
    \A u \in Thread \ {t} :
        \/ th'[u] = th[u]
        \/ /\ u \in Dispatcher /\ th[u].pc \in {"none", "wait"}
           /\ th'[u].pc = "loop" /\ Alike(th[u], th'[u])

\* The job of thread t is over: the next one, or back to where it came from
JobOver(t, r, s) ==
    \/ t \in User \cup Source /\ s = Idle("idle")
    \/ /\ t \notin User \cup Source
       /\ s.ph = r.ph /\ s.cont = r.cont /\ s.out = r.out /\ s.cur = r.cur
       /\ \/ /\ s.pc = "get" /\ t = Central /\ r.cont = "attaching"
             /\ \/ r.todo = StartJobs /\ s.todo = StatusJobs
                \/ r.todo = StatusJobs /\ s.todo = InitJobs
          \/ /\ s.pc = r.cont
             /\ \/ t = Central /\ r.cont = "attaching" /\ r.todo = InitJobs
                \/ t = Central /\ r.cont = "unslot" /\ r.todo = DetachJobs
                \/ t \in Dispatcher /\ r.cont \in {"called", "callbackqueued"}

\* Thread t has cleared the queues, or found nothing to clear
Cleared1(t, r, s) ==
    \/ t \in User /\ s = Idle("idle")
    \/ t \notin User /\ s.pc = r.cont /\ Alike(r, s)

LEMMA StartJobsAre ==
    /\ StartJobs # <<>> /\ StatusJobs # <<>> /\ InitJobs # <<>> /\ DetachJobs # <<>>
    /\ Len(StartJobs) = 3 /\ Len(StatusJobs) = 2 /\ Len(InitJobs) = 1 /\ Len(DetachJobs) = 1
    /\ Head(StartJobs) = Job("CHANNEL_ATTACH", FALSE)
    /\ Head(StatusJobs) = Job("CHANNEL_SETSTATUS", FALSE)
    /\ Head(InitJobs) = Job("CHANNEL_INITEVENTS", FALSE)
    /\ Head(DetachJobs) = Job("CHANNEL_DETACH", FALSE)
BY DEF StartJobs, StatusJobs, InitJobs, DetachJobs

LEMMA JobLengths ==
    Len(StartJobs) = 3 /\ Len(StatusJobs) = 2 /\ Len(InitJobs) = 1 /\ Len(DetachJobs) = 1
BY StartJobsAre

LEMMA KindsApart ==
    /\ Central \notin Dispatcher \cup User \cup Source
    /\ Dispatcher \cap (User \cup Source) = {}
    /\ User \cap Source = {}
    /\ Thread = Dispatcher \cup User \cup Source \cup {Central}
BY ConstantsAssumption DEF Thread

LEMMA ChangeMoves ==
    ASSUME Threads(th), NEW t \in Thread, NEW s, th' = [th EXCEPT ![t] = s]
    PROVE  Moved(t) /\ th'[t] = s
BY DEF Threads, Moved

LEMMA GotoMoves ==
    ASSUME Threads(th), NEW t \in Thread, NEW where, Goto(t, where)
    PROVE  Moved(t) /\ th'[t].pc = where /\ Alike(th[t], th'[t])
<1>1. PICK s : s = [th[t] EXCEPT !.pc = where]
  OBVIOUS
<1>2. th' = [th EXCEPT ![t] = s]
  BY <1>1 DEF Goto, Threads
<1>3. s.pc = where /\ Alike(th[t], s)
  BY <1>1 DEF Threads, ThreadState, Alike, SameJob, SameWork
<1>. QED BY <1>2, <1>3, ChangeMoves

LEMMA StartsMoves ==
    ASSUME Threads(th), NEW t \in Thread, NEW p, NEW jobs, NEW first, NEW cont,
           Starts(t, p, jobs, first, cont)
    PROVE  /\ Moved(t)
           /\ th'[t].pc = first /\ th'[t].ph = p /\ th'[t].todo = jobs /\ th'[t].cont = cont
           /\ th'[t].req = th[t].req /\ th'[t].out = th[t].out /\ th'[t].cur = th[t].cur
<1>1. PICK s : s = [th[t] EXCEPT !.pc = first, !.ph = p, !.todo = jobs, !.cont = cont]
  OBVIOUS
<1>2. th' = [th EXCEPT ![t] = s]
  BY <1>1 DEF Starts, Threads
<1>3. /\ s.pc = first /\ s.ph = p /\ s.todo = jobs /\ s.cont = cont
      /\ s.req = th[t].req /\ s.out = th[t].out /\ s.cur = th[t].cur
  BY <1>1 DEF Threads, ThreadState
<1>. QED BY <1>2, <1>3, ChangeMoves

LEMMA JobOverIs ==
    ASSUME Threads(th), Shapes(th), NEW t \in Thread, th[t].pc \in Inserting, NEW r
    PROVE  \E s : JobDone(t, r) = [th EXCEPT ![t] = s] /\ JobOver(t, th[t], s)
<1>0. /\ th[t] \in ThreadState /\ JobsFor(t, th[t])
  BY DEF Threads, Shapes, Shape
<1>1. CASE t \in User \cup Source
  <2>1. PICK ty, b : th[t].cont = "idle" /\ th[t].todo = <<Job(ty, b)>>
    BY <1>0, <1>1, KindsApart DEF JobsFor
  <2>2. Len(th[t].todo) = 1
    BY <2>1
  <2>. QED BY <1>1, <2>1, <2>2 DEF JobDone, JobOver
<1>2. CASE t \notin User \cup Source
  <2>1. PICK s : s = [th[t] EXCEPT !.pc = IF Len(th[t].todo) > 1 THEN "get" ELSE th[t].cont,
                                   !.todo = Tail(th[t].todo), !.req = NoEntry, !.rc = r]
    OBVIOUS
  <2>2. th[t].cont # "idle"
    BY <1>0, <1>2 DEF JobsFor
  <2>3. JobDone(t, r) = [th EXCEPT ![t] = s]
    BY <2>1, <2>2 DEF JobDone, Threads
  <2>4. /\ s.pc = IF Len(th[t].todo) > 1 THEN "get" ELSE th[t].cont
        /\ s.todo = Tail(th[t].todo) /\ s.ph = th[t].ph /\ s.cont = th[t].cont
        /\ s.out = th[t].out /\ s.cur = th[t].cur
    BY <1>0, <2>1 DEF ThreadState
  <2>5. Len(<<SyncRequest>>) = 1 /\ Len(<<CallbackJob>>) = 1
    OBVIOUS
  <2>6. JobOver(t, th[t], s)
    <3>1. CASE t = Central /\ th[t].cont = "attaching" /\ th[t].todo \in {StartJobs, StatusJobs}
      <4>1. Len(th[t].todo) > 1
        <5>1. PICK n : n = Len(th[t].todo)
          OBVIOUS
        <5>2. n = 3 \/ n = 2
          BY <3>1, <5>1, JobLengths, Zenon
        <5>3. n > 1
          BY <5>2
        <5>. QED BY <5>1, <5>3, Zenon
      <4>2. s.pc = "get" /\ (th[t].todo = StartJobs => s.todo = StatusJobs)
            /\ (th[t].todo = StatusJobs => s.todo = InitJobs)
        BY <2>4, <4>1 DEF StatusJobs, InitJobs
      <4>. QED BY <1>2, <2>4, <3>1, <4>2 DEF JobOver
    <3>2. CASE t = Central /\ \/ th[t].cont = "attaching" /\ th[t].todo = InitJobs
                              \/ th[t].cont = "unslot" /\ th[t].todo = DetachJobs
      <4>1. ~(Len(th[t].todo) > 1)
        <5>1. Len(th[t].todo) = 1
          BY <3>2, JobLengths, Zenon
        <5>. QED BY <5>1
      <4>. QED BY <1>2, <2>4, <3>2, <4>1 DEF JobOver
    <3>3. CASE t \in Dispatcher
      <4>1. th[t].cont \in {"called", "callbackqueued"}
            /\ th[t].todo \in {<<SyncRequest>>, <<CallbackJob>>}
        BY <1>0, <3>3, KindsApart DEF JobsFor
      <4>2. ~(Len(th[t].todo) > 1)
        <5>1. Len(th[t].todo) = 1
          BY <2>5, <4>1, Zenon
        <5>. QED BY <5>1
      <4>. QED BY <1>2, <2>4, <3>3, <4>1, <4>2 DEF JobOver
    <3>. QED BY <1>0, <1>2, <3>1, <3>2, <3>3 DEF JobsFor
  <2>. QED BY <2>3, <2>6
<1>. QED BY <1>1, <1>2

LEMMA JobDoneActs ==
    ASSUME Threads(th), Shapes(th), NEW t \in Thread, th[t].pc \in Inserting, NEW r,
           th' = JobDone(t, r)
    PROVE  Moved(t) /\ JobOver(t, th[t], th'[t])
<1>1. PICK s : JobDone(t, r) = [th EXCEPT ![t] = s] /\ JobOver(t, th[t], s)
  BY JobOverIs
<1>. QED BY <1>1, ChangeMoves

LEMMA BackActs ==
    ASSUME Threads(th), Shapes(th), NEW t \in Thread, Back(t),
           th[t].pc = "clearin" \/ (th[t].pc = "closing" /\ t \notin Dispatcher)
    PROVE  Moved(t) /\ Cleared1(t, th[t], th'[t])
<1>0. (t \in User /\ th[t].cont = "idle") \/ (t \notin User /\ th[t].cont # "idle")
  BY KindsApart DEF Shapes, Shape, ClearPlace, ClosePlace
<1>1. CASE th[t].cont = "idle"
  BY <1>0, <1>1, ChangeMoves DEF Back, Cleared1
<1>2. CASE th[t].cont # "idle"
  BY <1>0, <1>2, GotoMoves DEF Back, Cleared1
<1>. QED BY <1>1, <1>2

LEMMA ClearMoves ==
    ASSUME Threads(th), NEW t \in Thread, NEW c,
           th' = [th EXCEPT ![t].pc = "clearout", ![t].cont = c]
    PROVE  /\ Moved(t) /\ th'[t].pc = "clearout" /\ th'[t].cont = c
           /\ th'[t].ph = th[t].ph /\ th'[t].req = th[t].req /\ th'[t].todo = th[t].todo
           /\ th'[t].out = th[t].out /\ th'[t].cur = th[t].cur
<1>1. PICK s : s = [th[t] EXCEPT !.pc = "clearout", !.cont = c]
  OBVIOUS
<1>2. th' = [th EXCEPT ![t] = s]
  BY <1>1 DEF Threads
<1>3. /\ s.pc = "clearout" /\ s.cont = c /\ s.ph = th[t].ph /\ s.req = th[t].req
      /\ s.todo = th[t].todo /\ s.out = th[t].out /\ s.cur = th[t].cur
  BY <1>1 DEF Threads, ThreadState
<1>. QED BY <1>2, <1>3, ChangeMoves

\* A dispatcher that was idle wakes up after thread t has got to record s
LEMMA WakesMoves ==
    ASSUME Threads(th), NEW t \in Thread, NEW s, NEW h, h = [th EXCEPT ![t] = s],
           NEW d \in Dispatcher \ {t}, h[d].pc \in {"none", "wait"},
           th' = [h EXCEPT ![d].pc = "loop"]
    PROVE  Moved(t) /\ th'[t] = s
<1>1. /\ d \in Thread /\ h[d] = th[d] /\ h[t] = s
      /\ \A u \in Thread \ {t} : h[u] = th[u]
  BY DispatcherThread DEF Threads
<1>2. PICK w : w = [th[d] EXCEPT !.pc = "loop"]
  OBVIOUS
<1>3. w.pc = "loop" /\ Alike(th[d], w)
  BY <1>1, <1>2 DEF Threads, ThreadState, Alike, SameJob, SameWork
<1>4. th' = [h EXCEPT ![d] = w] /\ h \in [Thread -> {h[u] : u \in Thread}]
  BY <1>1, <1>2 DEF Threads
<1>5. th'[d] = w /\ \A u \in Thread \ {d} : th'[u] = h[u]
  BY <1>1, <1>4
<1>. QED BY <1>1, <1>3, <1>5 DEF Moved

LEMMA SignalMoves ==
    ASSUME Threads(th), NEW t \in Thread, NEW s, s.pc # "wait", Signal([th EXCEPT ![t] = s])
    PROVE  Moved(t) /\ th'[t] = s
<1>1. PICK h : h = [th EXCEPT ![t] = s]
  OBVIOUS
<1>2. h[t] = s
  BY <1>1 DEF Threads
<1>3. CASE th' = h
  BY <1>1, <1>3, ChangeMoves
<1>4. ASSUME NEW d \in Waiting(h), th' = [h EXCEPT ![d].pc = "loop"]
      PROVE  Moved(t) /\ th'[t] = s
  <2>1. d \in Dispatcher \ {t} /\ h[d].pc \in {"none", "wait"}
    BY <1>2 DEF Waiting
  <2>. QED BY <1>1, <1>4, <2>1, WakesMoves
<1>5. Signal(h)
  BY <1>1
<1>. QED BY <1>3, <1>4, <1>5 DEF Signal

-----------------------------------------------------------------------------
(* Where the threads go                                                    *)

InsertionMove(t, r, s) ==
    \/ r.pc \in {"purge", "clearout", "clearin"} /\ s = r
    \/ r.pc = "get" /\ s.pc = "insert" /\ SameJob(r, s)
    \/ r.pc = "insert" /\ s.pc \in {"purge", "drop", "mark"} /\ Alike(r, s)
    \/ r.pc = "purge" /\ s.pc = "drop" /\ Alike(r, s)
    \/ r.pc = "drop" /\ s.pc = "purge" /\ SameJob(r, s) /\ r.ph \in ServedChannel
    \/ r.pc = "mark" /\ s.pc \in {"signal", "listin", "listout"} /\ Alike(r, s)
    \/ r.pc \in {"listin", "listout"} /\ s.pc = "signal" /\ Alike(r, s)
    \/ r.pc = "signal" /\ s.pc = "answer" /\ Alike(r, s)
    \/ r.pc \in {"get", "purge", "drop", "signal", "answer"} /\ JobOver(t, r, s)
    \/ r.pc = "clearout" /\ s.pc = "clearin" /\ Alike(r, s)
    \/ r.pc = "clearin" /\ Cleared1(t, r, s)

LoopMove(r, s) ==
    \/ r.pc = "loop" /\ s.pc \in {"none", "scan"} /\ SameJob(r, s)
    \/ r.pc = "loop" /\ s.pc = "serve" /\ ~s.out
    \/ r.pc = "scan" /\ s.pc = "serve" /\ s.out
    \/ r.pc = "scan" /\ s.pc = "scan" /\ SameJob(r, s)
    \/ r.pc = "scan" /\ s = Idle("wait")
    \/ r.pc = "serve" /\ s.pc = "exec" /\ s.ph = r.ph /\ s.out = r.out
    \/ r.pc = "serve" /\ s.pc = "leave" /\ SameJob(r, s)
    \/ r.pc = "leave" /\ s = Idle("loop")
    \/ r.pc = "done" /\ s.pc = "serve" /\ s.ph = r.ph /\ s.out = r.out

ExecutionMove(r, s) ==
    /\ SameWork(r, s)
    /\ \/ r.pc = "exec" /\ s.pc \in {"callback", "done"}
       \/ r.pc = "exec" /\ s.pc = "get" /\ s.todo = <<CallbackJob>> /\ s.cont = "callbackqueued"
       \/ r.pc = "callback" /\ s.pc = "called"
       \/ r.pc = "callback" /\ s.pc = "get" /\ s.todo = <<SyncRequest>> /\ s.cont = "called"
       \/ r.pc \in {"called", "callbackqueued"} /\ s.pc = "done"
       \/ r.pc = "called" /\ s.pc = "enablefailed"
       \/ r.pc \in {"exec", "enablefailed"} /\ s.pc = "clearout" /\ s.cont = "attacherror"
       \/ r.pc = "attacherror" /\ s.pc = "unslot"
       \/ r.pc = "unslot" /\ s.pc = "done"

AttachingMove(r, s) ==
    \/ r.pc = "attaching" /\ s.pc = "slot" /\ Alike(r, s)
    \/ r.pc = "slot" /\ s.pc = "attach" /\ Alike(r, s)
    \/ r.pc = "attach" /\ s.pc = "wake" /\ Alike(r, s)
    \/ r.pc \in {"attach", "detachwait"} /\ s.pc = "clearout" /\ s.cont = "unslot" /\ s.ph = r.ph
    \/ r.pc = "detachwait" /\ s.pc = "detaching" /\ Alike(r, s)
    \/ r.pc = "detaching" /\ s.pc = "clearout" /\ s.cont = "detach" /\ s.ph = r.ph
    \/ r.pc = "detach" /\ s.pc = "get" /\ s.todo = DetachJobs /\ s.cont = "unslot" /\ s.ph = r.ph
    \/ r.pc = "unslot" /\ s.pc = "close" /\ Alike(r, s) /\ r.ph \in ServedChannel
    \/ r.pc \in {"wake", "unslot"} /\ s = Idle("idle")

ClosingMove(t, r, s) ==
    \/ r.pc = "close" /\ s.pc \in {"closing", "closeslot"} /\ Alike(r, s)
    \/ r.pc = "closeslot" /\ s.pc = "closing" /\ Alike(r, s)
    \/ r.pc = "closing" /\ s.pc = "clearout" /\ Alike(r, s)
    \/ r.pc = "closing" /\ Cleared1(t, r, s)

LEMMA NothingMoves == ASSUME NEW t, th' = th PROVE Moved(t)
BY DEF Moved

LEMMA InsertionMoves ==
    ASSUME TypeInv, Shapes(th), NEW t \in Thread, Insertion(t) \/ TimesOut(t)
    PROVE  Moved(t) /\ InsertionMove(t, th[t], th'[t])
<1>0. Threads(th) /\ th[t] \in ThreadState /\ ThreadOK(t, th[t])
  BY DEF TypeInv, Threads
<1>1. CASE GetEntry(t)
  <2>1. PICK e \in free : th' = [th EXCEPT ![t].pc = "insert", ![t].req = e]
    BY <1>1 DEF GetEntry
  <2>2. PICK s : s = [th[t] EXCEPT !.pc = "insert", !.req = e]
    OBVIOUS
  <2>3. th' = [th EXCEPT ![t] = s]
    BY <1>0, <2>1, <2>2 DEF Threads
  <2>4. s.pc = "insert" /\ SameJob(th[t], s)
    BY <1>0, <2>2 DEF ThreadState, SameJob, SameWork
  <2>. QED BY <1>0, <1>1, <2>3, <2>4, ChangeMoves DEF InsertionMove, GetEntry, At
<1>2. CASE GetEntryFails(t)
  <2>1. th[t].pc = "get" /\ th[t].pc \in Inserting /\ th' = JobDone(t, "AGAIN")
    BY <1>2 DEF GetEntryFails, At, Inserting
  <2>. QED BY <1>0, <2>1, JobDoneActs DEF InsertionMove
<1>3. CASE InsertRefused(t) \/ InsertNoSpace(t)
  <2>0. \E where \in {"purge", "drop"}, r \in {"NOTATTACHED", "NOSPC"} :
            th' = [th EXCEPT ![t].pc = where, ![t].rc = r]
    <3>1. CASE InsertRefused(t)
      BY <3>1 DEF InsertRefused
    <3>2. CASE InsertNoSpace(t)
      BY <3>2 DEF InsertNoSpace
    <3>. QED BY <1>3, <3>1, <3>2
  <2>1. PICK where \in {"purge", "drop"}, r \in {"NOTATTACHED", "NOSPC"} :
            th' = [th EXCEPT ![t].pc = where, ![t].rc = r]
    BY <2>0
  <2>2. PICK s : s = [th[t] EXCEPT !.pc = where, !.rc = r]
    OBVIOUS
  <2>3. th' = [th EXCEPT ![t] = s]
    BY <1>0, <2>1, <2>2 DEF Threads
  <2>4. s.pc = where /\ Alike(th[t], s)
    BY <1>0, <2>2 DEF ThreadState, Alike, SameJob, SameWork
  <2>5. th[t].pc = "insert"
    BY <1>3 DEF InsertRefused, InsertNoSpace, At
  <2>. QED BY <1>0, <2>3, <2>4, <2>5, ChangeMoves DEF InsertionMove
<1>4. CASE InsertAppend(t)
  BY <1>0, <1>4, GotoMoves DEF InsertAppend, At, InsertionMove
<1>5. CASE Purge(t)
  <2>1. th[t].pc = "purge" /\ th[t].pc \in Inserting
    BY <1>5 DEF Purge, At, Inserting
  <2>2. CASE th' = th
    BY <2>1, <2>2, NothingMoves DEF InsertionMove
  <2>3. CASE th' = JobDone(t, th[t].rc)
    BY <1>0, <2>1, <2>3, JobDoneActs DEF InsertionMove
  <2>4. CASE Goto(t, "drop")
    BY <1>0, <2>1, <2>4, GotoMoves DEF InsertionMove
  <2>. QED BY <1>5, <2>2, <2>3, <2>4 DEF Purge
<1>6. CASE Drop(t)
  <2>1. th[t].pc = "drop" /\ th[t].pc \in Inserting
    BY <1>6 DEF Drop, At, Inserting
  <2>2. CASE th' = JobDone(t, th[t].rc)
    BY <1>0, <2>1, <2>2, JobDoneActs DEF InsertionMove
  <2>3. CASE th' = [th EXCEPT ![t].pc = "purge", ![t].req = NoEntry] /\ th[t].ph \in ServedChannel
    <3>1. PICK s : s = [th[t] EXCEPT !.pc = "purge", !.req = NoEntry]
      OBVIOUS
    <3>2. th' = [th EXCEPT ![t] = s]
      BY <1>0, <2>3, <3>1 DEF Threads
    <3>3. s.pc = "purge" /\ SameJob(th[t], s)
      BY <1>0, <3>1 DEF ThreadState, SameJob, SameWork
    <3>. QED BY <1>0, <2>1, <2>3, <3>2, <3>3, ChangeMoves DEF InsertionMove
  <2>. QED BY <1>6, <2>2, <2>3 DEF Drop
<1>7. CASE Mark(t)
  <2>1. th[t].pc = "mark" /\ \E where \in {"signal", "listin", "listout"} : Goto(t, where)
    BY <1>7 DEF Mark, At
  <2>. QED BY <1>0, <2>1, GotoMoves DEF InsertionMove
<1>8. CASE PutOnOutList(t) \/ PutOnInList(t)
  <2>1. th[t].pc \in {"listin", "listout"} /\ Goto(t, "signal")
    BY <1>8 DEF PutOnOutList, PutOnInList, At
  <2>. QED BY <1>0, <2>1, GotoMoves DEF InsertionMove
<1>9. CASE EntryDispatched(t)
  <2>1. th[t].pc = "signal" /\ th[t].pc \in Inserting
    BY <1>9 DEF EntryDispatched, At, Inserting
  <2>2. PICK a : a = [th[t] EXCEPT !.pc = "answer"]
    OBVIOUS
  <2>3. [th EXCEPT ![t].pc = "answer"] = [th EXCEPT ![t] = a] /\ a.pc = "answer" /\ Alike(th[t], a)
    BY <1>0, <2>2 DEF Threads, ThreadState, Alike, SameJob, SameWork
  <2>4. PICK j : JobDone(t, "OK") = [th EXCEPT ![t] = j] /\ JobOver(t, th[t], j)
    BY <1>0, <2>1, JobOverIs
  <2>5. j.pc # "wait"
    BY <1>0, <2>4 DEF JobOver, Idle
  <2>6. PICK s : s = IF Job1(t) = SyncRequest THEN a ELSE j
    OBVIOUS
  <2>7. s.pc # "wait" /\ ((s.pc = "answer" /\ Alike(th[t], s)) \/ JobOver(t, th[t], s))
    BY <2>3, <2>4, <2>5, <2>6
  <2>8. \/ \E d \in Dispatcher \ Dispatchers : th' = [[th EXCEPT ![t] = s] EXCEPT ![d].pc = "loop"]
        \/ Signal([th EXCEPT ![t] = s])
    <3>1. CASE Job1(t) = SyncRequest
      <4>1. s = a
        BY <2>6, <3>1
      <4>. QED BY <1>9, <2>3, <3>1, <4>1 DEF EntryDispatched
    <3>2. CASE Job1(t) # SyncRequest
      <4>1. s = j
        BY <2>6, <3>2
      <4>. QED BY <1>9, <2>4, <3>2, <4>1 DEF EntryDispatched
    <3>. QED BY <3>1, <3>2
  <2>9. Moved(t) /\ th'[t] = s
    <3>1. ASSUME NEW d \in Dispatcher \ Dispatchers,
                 th' = [[th EXCEPT ![t] = s] EXCEPT ![d].pc = "loop"]
          PROVE  Moved(t) /\ th'[t] = s
      <4>1. th[d].pc = "none" /\ d # t /\ d \in Thread
        BY <2>1, DispatcherThread DEF Dispatchers, At
      <4>2. PICK h : h = [th EXCEPT ![t] = s]
        OBVIOUS
      <4>3. h[d].pc = "none" /\ th' = [h EXCEPT ![d].pc = "loop"]
        BY <1>0, <3>1, <4>1, <4>2 DEF Threads
      <4>4. d \in Dispatcher \ {t} /\ h[d].pc \in {"none", "wait"}
        BY <4>1, <4>3
      <4>. QED BY <1>0, <4>2, <4>3, <4>4, WakesMoves
    <3>. QED BY <1>0, <2>7, <2>8, <3>1, SignalMoves
  <2>. QED BY <2>1, <2>7, <2>9 DEF InsertionMove
<1>10. CASE Answered(t) \/ TimesOut(t)
  <2>1. th[t].pc = "answer" /\ th[t].pc \in Inserting /\ \E r : th' = JobDone(t, r)
    BY <1>10 DEF Answered, TimesOut, At, Inserting
  <2>. QED BY <1>0, <2>1, JobDoneActs DEF InsertionMove
<1>11. CASE ClearOut(t)
  <2>1. th[t].pc = "clearout" /\ (th' = th \/ Goto(t, "clearin"))
    BY <1>11 DEF ClearOut, At
  <2>. QED BY <1>0, <2>1, NothingMoves, GotoMoves DEF InsertionMove
<1>12. CASE ClearIn(t)
  <2>1. th[t].pc = "clearin" /\ (th' = th \/ Back(t))
    BY <1>12 DEF ClearIn, At
  <2>. QED BY <1>0, <2>1, NothingMoves, BackActs DEF InsertionMove
<1>. QED BY <1>1, <1>2, <1>3, <1>4, <1>5, <1>6, <1>7, <1>8, <1>9, <1>10, <1>11, <1>12 DEF Insertion


LEMMA LoopMoves ==
    ASSUME TypeInv, NEW d \in Dispatcher, DispatcherLoop(d)
    PROVE  Moved(d) /\ LoopMove(th[d], th'[d])
<1>0. Threads(th) /\ d \in Thread /\ th[d] \in ThreadState
  BY DispatcherThread DEF TypeInv, Threads
<1>1. CASE Exit(d)
  <2>1. PICK s : s = [th[d] EXCEPT !.pc = "none"]
    OBVIOUS
  <2>2. [th EXCEPT ![d].pc = "none"] = [th EXCEPT ![d] = s] /\ s.pc = "none" /\ SameJob(th[d], s)
    BY <1>0, <2>1 DEF Threads, ThreadState, SameJob, SameWork
  <2>3. th[d].pc = "loop" /\ Signal([th EXCEPT ![d] = s])
    BY <1>1, <2>2 DEF Exit, At
  <2>4. Moved(d) /\ th'[d] = s
    BY <1>0, <2>2, <2>3, SignalMoves
  <2>. QED BY <2>2, <2>3, <2>4 DEF LoopMove
<1>2. CASE TakeIn(d)
  <2>1. PICK s : s = [th[d] EXCEPT !.pc = "serve", !.ph = Head(inList), !.out = FALSE]
    OBVIOUS
  <2>2. th' = [th EXCEPT ![d] = s] /\ s.pc = "serve" /\ ~s.out
    BY <1>0, <1>2, <2>1 DEF TakeIn, Threads, ThreadState
  <2>. QED BY <1>0, <1>2, <2>2, ChangeMoves DEF LoopMove, TakeIn, At
<1>3. CASE ScanStart(d)
  <2>1. PICK s : s = [th[d] EXCEPT !.pc = "scan", !.at = 1]
    OBVIOUS
  <2>2. th' = [th EXCEPT ![d] = s] /\ s.pc = "scan" /\ SameJob(th[d], s)
    BY <1>0, <1>3, <2>1 DEF ScanStart, Threads, ThreadState, SameJob, SameWork
  <2>. QED BY <1>0, <1>3, <2>2, ChangeMoves DEF LoopMove, ScanStart, At
<1>4. CASE ScanTake(d)
  <2>1. PICK s : s = [th[d] EXCEPT !.pc = "serve", !.ph = outList[th[d].at], !.out = TRUE, !.at = 0]
    OBVIOUS
  <2>2. th' = [th EXCEPT ![d] = s] /\ s.pc = "serve" /\ s.out
    BY <1>0, <1>4, <2>1 DEF ScanTake, Threads, ThreadState
  <2>. QED BY <1>0, <1>4, <2>2, ChangeMoves DEF LoopMove, ScanTake, At
<1>5. CASE ScanSkip(d)
  <2>1. PICK s : s = [th[d] EXCEPT !.at = th[d].at + 1]
    OBVIOUS
  <2>2. th[d].pc = "scan" /\ s.pc = "scan" /\ SameJob(th[d], s)
    BY <1>0, <1>5, <2>1 DEF ScanSkip, At, ThreadState, SameJob, SameWork
  <2>3. CASE th' = th
    BY <2>2, <2>3, NothingMoves DEF LoopMove, SameJob, SameWork
  <2>4. CASE th' = [th EXCEPT ![d].at = th[d].at + 1]
    <3>1. th' = [th EXCEPT ![d] = s]
      BY <1>0, <2>1, <2>4 DEF Threads
    <3>. QED BY <1>0, <2>2, <3>1, ChangeMoves DEF LoopMove
  <2>. QED BY <1>5, <2>3, <2>4 DEF ScanSkip
<1>6. CASE ScanEnd(d)
  BY <1>0, <1>6, ChangeMoves DEF LoopMove, ScanEnd, At
<1>7. CASE Dequeue(d)
  <2>1. PICK q : q = IF th[d].out THEN outq[th[d].ph] ELSE inq[th[d].ph]
    OBVIOUS
  <2>2. PICK s : s = [th[d] EXCEPT !.pc = "exec", !.cur = Head(q), !.returnde = ~de[Head(q)].noreturn]
    OBVIOUS
  <2>3. th' = [th EXCEPT ![d] = s] /\ s.pc = "exec" /\ s.ph = th[d].ph /\ s.out = th[d].out
    BY <1>0, <1>7, <2>1, <2>2 DEF Dequeue, Threads, ThreadState
  <2>. QED BY <1>0, <1>7, <2>3, ChangeMoves DEF LoopMove, Dequeue, At
<1>8. CASE Unflag(d)
  BY <1>0, <1>8, GotoMoves DEF LoopMove, Unflag, At, Alike
<1>9. CASE Leave(d)
  BY <1>0, <1>9, ChangeMoves DEF LoopMove, Leave, At
<1>10. CASE EntryDone(d)
  <2>1. PICK s : s = [Idle("serve") EXCEPT !.ph = th[d].ph, !.out = th[d].out]
    OBVIOUS
  <2>2. th' = [th EXCEPT ![d] = s] /\ s.pc = "serve" /\ s.ph = th[d].ph /\ s.out = th[d].out
    BY <1>0, <1>10, <2>1 DEF EntryDone, Idle
  <2>. QED BY <1>0, <1>10, <2>2, ChangeMoves DEF LoopMove, EntryDone, At
<1>. QED BY <1>1, <1>2, <1>3, <1>4, <1>5, <1>6, <1>7, <1>8, <1>9, <1>10 DEF DispatcherLoop

LEMMA ExecutionMoves ==
    ASSUME TypeInv, NEW d \in Dispatcher, Execution(d)
    PROVE  Moved(d) /\ ExecutionMove(th[d], th'[d])
<1>0. Threads(th) /\ d \in Thread /\ th[d] \in ThreadState
  BY DispatcherThread DEF TypeInv, Threads
<1>1. ASSUME NEW where, Goto(d, where),
             \/ th[d].pc = "exec" /\ where \in {"callback", "done"}
             \/ th[d].pc = "callback" /\ where = "called"
             \/ th[d].pc \in {"called", "callbackqueued"} /\ where = "done"
             \/ th[d].pc = "called" /\ where = "enablefailed"
             \/ th[d].pc = "attacherror" /\ where = "unslot"
             \/ th[d].pc = "unslot" /\ where = "done"
      PROVE  Moved(d) /\ ExecutionMove(th[d], th'[d])
  <2>1. Moved(d) /\ th'[d].pc = where /\ SameWork(th[d], th'[d])
    BY <1>0, <1>1, GotoMoves DEF Alike, SameJob
  <2>. QED BY <1>1, <2>1 DEF ExecutionMove
<1>2. CASE ExecAttachFails(d) \/ EnableFailed(d)
  <2>1. th[d].pc \in {"exec", "enablefailed"}
        /\ th' = [th EXCEPT ![d].pc = "clearout", ![d].cont = "attacherror"]
    BY <1>2 DEF ExecAttachFails, EnableFailed, Executing, At
  <2>. QED BY <1>0, <2>1, ClearMoves DEF ExecutionMove, SameWork
<1>3. CASE ExecEvent(d) \/ ExecInternal(d) \/ ExecRequest(d)
  BY <1>1, <1>3 DEF ExecEvent, ExecInternal, ExecRequest, Executing, At
<1>4. CASE ExecAsyncRequest(d)
  <2>1. PICK jobs : jobs = <<CallbackJob>>
    OBVIOUS
  <2>2. PICK s : s = [th[d] EXCEPT !.pc = "get", !.todo = jobs, !.cont = "callbackqueued"]
    OBVIOUS
  <2>3. /\ s.pc = "get" /\ s.todo = jobs /\ s.cont = "callbackqueued" /\ SameWork(th[d], s)
    BY <1>0, <2>2 DEF ThreadState, SameWork
  <2>4. th' = [th EXCEPT ![d] = s] /\ th[d].pc = "exec"
    BY <1>0, <1>4, <2>1, <2>2 DEF ExecAsyncRequest, CallbackJob, Executing, At, Threads
  <2>. QED BY <1>0, <2>1, <2>3, <2>4, ChangeMoves DEF ExecutionMove
<1>5. CASE CallbackQueued(d) \/ Called(d)
  BY <1>1, <1>5 DEF CallbackQueued, Called, At
<1>6. CASE Callback(d)
  <2>1. th[d].pc = "callback" /\ (Goto(d, "called") \/ Starts(d, th[d].ph, <<SyncRequest>>, "get", "called"))
    BY <1>6 DEF Callback, At
  <2>2. CASE Goto(d, "called")
    BY <1>1, <2>1, <2>2
  <2>3. CASE Starts(d, th[d].ph, <<SyncRequest>>, "get", "called")
    <3>1. PICK jobs : jobs = <<SyncRequest>>
      OBVIOUS
    <3>2. Starts(d, th[d].ph, jobs, "get", "called")
      BY <2>3, <3>1
    <3>3. /\ Moved(d) /\ th'[d].pc = "get" /\ th'[d].todo = jobs /\ th'[d].cont = "called"
          /\ SameWork(th[d], th'[d])
      BY <1>0, <3>2, StartsMoves DEF SameWork
    <3>. QED BY <2>1, <3>1, <3>3 DEF ExecutionMove
  <2>. QED BY <2>1, <2>2, <2>3
<1>7. CASE EnableFails(d)
  BY <1>1, <1>7 DEF EnableFails, At
<1>8. CASE AttachError(d) \/ AttachErrorUnslot(d)
  BY <1>1, <1>8 DEF AttachError, AttachErrorUnslot, At
<1>. QED BY <1>2, <1>3, <1>4, <1>5, <1>6, <1>7, <1>8 DEF Execution

LEMMA AttachingMoves ==
    ASSUME TypeInv, Attaching
    PROVE  Moved(Central) /\ AttachingMove(th[Central], th'[Central])
<1>0. Threads(th) /\ Central \in Thread /\ th[Central] \in ThreadState
  BY CentralNotDispatcher DEF TypeInv, Threads
<1>1. CASE AttachFlag \/ AttachSlot \/ Attached
  BY <1>0, <1>1, GotoMoves DEF AttachFlag, AttachSlot, Attached, At, AttachingMove
<1>2. CASE AttachRefused
  BY <1>0, <1>2, ClearMoves DEF AttachRefused, At, AttachingMove
<1>3. CASE WakeDispatch
  <2>1. th[Central].pc = "wake" /\ Signal([th EXCEPT ![Central] = Idle("idle")])
    BY <1>3 DEF WakeDispatch, At
  <2>2. Idle("idle").pc # "wait"
    BY DEF Idle
  <2>. QED BY <1>0, <2>1, <2>2, SignalMoves DEF AttachingMove
<1>4. CASE DetachWaited
  <2>1. th[Central].pc = "detachwait"
    BY <1>4 DEF DetachWaited, At
  <2>2. CASE Goto(Central, "detaching")
    BY <1>0, <2>1, <2>2, GotoMoves DEF AttachingMove
  <2>3. CASE th' = [th EXCEPT ![Central].pc = "clearout", ![Central].cont = "unslot"]
    BY <1>0, <2>1, <2>3, ClearMoves DEF AttachingMove
  <2>. QED BY <1>4, <2>2, <2>3 DEF DetachWaited
<1>5. CASE DetachFlag
  BY <1>0, <1>5, ClearMoves DEF DetachFlag, At, AttachingMove
<1>6. CASE DetachDispatch
  <2>1. Starts(Central, th[Central].ph, DetachJobs, "get", "unslot")
    BY <1>6 DEF DetachDispatch, DetachJobs
  <2>. QED BY <1>0, <1>6, <2>1, StartsMoves DEF DetachDispatch, At, AttachingMove
<1>7. CASE DetachClose
  BY <1>0, <1>7, GotoMoves DEF DetachClose, At, AttachingMove
<1>8. CASE CentralUnslot
  BY <1>0, <1>8, ChangeMoves DEF CentralUnslot, At, AttachingMove
<1>. QED BY <1>1, <1>2, <1>3, <1>4, <1>5, <1>6, <1>7, <1>8 DEF Attaching

LEMMA ClosingMoves ==
    ASSUME TypeInv, Shapes(th), NEW t \in User \cup {Central}, Closing(t)
    PROVE  Moved(t) /\ ClosingMove(t, th[t], th'[t])
<1>0. Threads(th) /\ t \in Thread /\ t \notin Dispatcher
  BY KindsApart DEF TypeInv
<1>1. CASE CloseParent(t)
  <2>1. th[t].pc = "close" /\ \E where \in {"closing", "closeslot"} : Goto(t, where)
    BY <1>1 DEF CloseParent, At
  <2>. QED BY <1>0, <2>1, GotoMoves DEF ClosingMove
<1>2. CASE CloseSlot(t)
  BY <1>0, <1>2, GotoMoves DEF CloseSlot, At, ClosingMove
<1>3. CASE CloseStop(t)
  <2>1. th[t].pc = "closing" /\ (Goto(t, "clearout") \/ Back(t))
    BY <1>3 DEF CloseStop, At
  <2>. QED BY <1>0, <2>1, GotoMoves, BackActs DEF ClosingMove
<1>. QED BY <1>1, <1>2, <1>3 DEF Closing


-----------------------------------------------------------------------------
(* Every thread stays at the places of its kind                            *)

LEMMA ShapeStep ==
    ASSUME Shapes(th), NEW t \in Thread, Moved(t), Shape(t, th'[t])
    PROVE  Shapes(th')
<1> SUFFICES ASSUME NEW u \in Thread \ {t}
             PROVE  Shape(u, th'[u])
  BY DEF Shapes
<1>1. Shape(u, th[u])
  BY DEF Shapes
<1>2. CASE th'[u] = th[u]
  BY <1>1, <1>2
<1>3. CASE /\ u \in Dispatcher /\ th[u].pc \in {"none", "wait"}
           /\ th'[u].pc = "loop" /\ Alike(th[u], th'[u])
  <2>1. th'[u].ph = NoChannel /\ th'[u].pc = "loop"
    BY <1>1, <1>3 DEF Shape, AtRest, Alike, SameJob, SameWork
  <2>2. "loop" \notin Inserting \cup ClearPlace \cup ClosePlace \cup CentralPlace
    BY DEF Inserting, ClearPlace, ClosePlace, CentralPlace
  <2>. QED BY <1>3, <2>1, <2>2 DEF Shape
<1>. QED BY <1>2, <1>3 DEF Moved

LEMMA IdleShape ==
    /\ \A t \in Thread \ Dispatcher : Shape(t, Idle("idle"))
    /\ \A d \in Dispatcher : Shape(d, Idle("none")) /\ Shape(d, Idle("wait")) /\ Shape(d, Idle("loop"))
BY DEF Shape, Idle, AtRest, DispatcherPlace, CentralPlace, Inserting, ClearPlace, ClosePlace

\* A thread that stays at the places where nothing but its channel is asked for
LEMMA AtInsertion ==
    ASSUME NEW t \in Thread, NEW s, s.pc \in Inserting, JobsFor(t, s)
    PROVE  Shape(t, s)
<1>1. s.pc \notin AtRest \cup DispatcherPlace \cup CentralPlace \cup ClearPlace \cup ClosePlace
      /\ s.pc \notin {"idle", "unslot"}
  BY DEF AtRest, Inserting, DispatcherPlace, CentralPlace, ClearPlace, ClosePlace
<1>. QED BY <1>1 DEF Shape

LEMMA AtDispatch ==
    ASSUME NEW d \in Dispatcher, NEW s, s.pc \in DispatcherPlace \ AtRest
    PROVE  Shape(d, s)
<1>1. s.pc \notin AtRest \cup Inserting \cup CentralPlace \cup ClearPlace \cup ClosePlace
      /\ s.pc \notin {"idle", "unslot"}
  BY DEF AtRest, Inserting, DispatcherPlace, CentralPlace, ClearPlace, ClosePlace
<1>. QED BY <1>1 DEF Shape

LEMMA AtCentral ==
    ASSUME NEW s, s.pc \in CentralPlace
    PROVE  Shape(Central, s)
<1>1. s.pc \notin AtRest \cup Inserting \cup DispatcherPlace \cup ClearPlace \cup ClosePlace
      /\ s.pc \notin {"idle", "unslot"}
  BY DEF AtRest, Inserting, DispatcherPlace, CentralPlace, ClearPlace, ClosePlace
<1>. QED BY <1>1 DEF Shape

LEMMA AtClear ==
    ASSUME NEW t \in Thread, NEW s, s.pc \in ClearPlace,
           \/ t \in Dispatcher /\ s.cont = "attacherror"
           \/ t = Central /\ s.cont \in {"unslot", "detach"}
           \/ t \in User /\ s.cont = "idle"
    PROVE  Shape(t, s)
<1>1. s.pc \notin AtRest \cup Inserting \cup DispatcherPlace \cup CentralPlace \cup ClosePlace
      /\ s.pc \notin {"idle", "unslot"}
  BY DEF AtRest, Inserting, DispatcherPlace, CentralPlace, ClearPlace, ClosePlace
<1>. QED BY <1>1 DEF Shape

LEMMA AtClose ==
    ASSUME NEW t \in Thread, NEW s, s.pc \in ClosePlace,
           \/ t = Central /\ s.cont = "unslot"
           \/ t \in User /\ s.cont = "idle"
    PROVE  Shape(t, s)
<1>1. s.pc \notin AtRest \cup Inserting \cup DispatcherPlace \cup CentralPlace \cup ClearPlace
      /\ s.pc \notin {"idle", "unslot"}
  BY DEF AtRest, Inserting, DispatcherPlace, CentralPlace, ClearPlace, ClosePlace
<1>. QED BY <1>1 DEF Shape

LEMMA AtUnslot ==
    ASSUME NEW t \in Thread, NEW s, s.pc = "unslot",
           (t = Central /\ s.cont = "unslot") \/ t \in Dispatcher
    PROVE  Shape(t, s)
<1>1. s.pc \notin AtRest \cup Inserting \cup DispatcherPlace \cup CentralPlace \cup ClearPlace \cup ClosePlace
      /\ s.pc # "idle"
  BY DEF AtRest, Inserting, DispatcherPlace, CentralPlace, ClearPlace, ClosePlace
<1>. QED BY <1>1 DEF Shape

LEMMA JobOverShape ==
    ASSUME NEW t \in Thread, NEW r, NEW s, JobsFor(t, r), JobOver(t, r, s)
    PROVE  Shape(t, s)
<1>1. CASE t \in User \cup Source /\ s = Idle("idle")
  BY <1>1, KindsApart, IdleShape
<1>2. CASE s.pc = "get" /\ t = Central /\ s.cont = "attaching" /\ s.todo \in {StatusJobs, InitJobs}
  <2>1. s.pc \in Inserting /\ JobsFor(t, s)
    BY <1>2 DEF Inserting, JobsFor
  <2>. QED BY <2>1, AtInsertion
<1>3. CASE t = Central /\ s.pc = "attaching"
  BY <1>3, AtCentral DEF CentralPlace
<1>4. CASE t = Central /\ s.pc = "unslot" /\ s.cont = "unslot"
  BY <1>4, AtUnslot
<1>5. CASE t \in Dispatcher /\ s.pc \in {"called", "callbackqueued"}
  BY <1>5, AtDispatch DEF DispatcherPlace, AtRest
<1>. QED BY <1>1, <1>2, <1>3, <1>4, <1>5 DEF JobOver

LEMMA Cleared1Shape ==
    ASSUME NEW t \in Thread, NEW r, NEW s, Shape(t, r), r.pc \in ClearPlace \cup ClosePlace,
           Cleared1(t, r, s)
    PROVE  Shape(t, s)
<1>1. CASE t \in User /\ s = Idle("idle")
  BY <1>1, KindsApart, IdleShape
<1>2. CASE t \notin User /\ s.pc = r.cont /\ s.cont = r.cont
  <2>1. \/ t \in Dispatcher /\ s.pc = "attacherror"
        \/ t = Central /\ s.pc = "unslot" /\ s.cont = "unslot"
        \/ t = Central /\ s.pc = "detach"
    BY <1>2 DEF Shape
  <2>. QED BY <2>1, AtDispatch, AtUnslot, AtCentral DEF DispatcherPlace, AtRest, CentralPlace
<1>. QED BY <1>1, <1>2 DEF Cleared1, Alike, SameJob

LEMMA InsertionShape ==
    ASSUME NEW t \in Thread, NEW r, NEW s, Shape(t, r), InsertionMove(t, r, s)
    PROVE  Shape(t, s)
<1>1. CASE s = r
  BY <1>1
<1>2. CASE r.pc \in Inserting /\ s.pc \in Inserting /\ SameJob(r, s)
  <2>1. JobsFor(t, s)
    BY <1>2 DEF Shape, JobsFor, SameJob
  <2>. QED BY <1>2, <2>1, AtInsertion
<1>3. CASE r.pc \in Inserting /\ JobOver(t, r, s)
  BY <1>3, JobOverShape DEF Shape
<1>4. CASE r.pc = "clearout" /\ s.pc = "clearin" /\ s.cont = r.cont
  BY <1>4, AtClear DEF Shape, ClearPlace
<1>5. CASE r.pc = "clearin" /\ Cleared1(t, r, s)
  BY <1>5, Cleared1Shape DEF ClearPlace
<1>6. \/ s = r
      \/ r.pc \in Inserting /\ s.pc \in Inserting /\ SameJob(r, s)
      \/ r.pc \in Inserting /\ JobOver(t, r, s)
      \/ r.pc = "clearout" /\ s.pc = "clearin" /\ s.cont = r.cont
      \/ r.pc = "clearin" /\ Cleared1(t, r, s)
  BY DEF InsertionMove, Inserting, Alike, SameJob
<1>. QED BY <1>1, <1>2, <1>3, <1>4, <1>5, <1>6

LEMMA LoopShape ==
    ASSUME NEW d \in Dispatcher, NEW r, NEW s, Shape(d, r), LoopMove(r, s)
    PROVE  Shape(d, s)
<1>1. CASE s.pc \in {"serve", "exec", "leave"}
  BY <1>1, AtDispatch DEF DispatcherPlace, AtRest
<1>2. CASE s \in {Idle("wait"), Idle("loop")}
  BY <1>2, IdleShape
<1>3. CASE r.pc \in {"loop", "scan"} /\ s.pc \in {"none", "scan"} /\ SameJob(r, s)
  <2>1. s.ph = NoChannel
    BY <1>3 DEF Shape, AtRest, SameJob, SameWork
  <2>2. s.pc \notin Inserting \cup CentralPlace \cup ClearPlace \cup ClosePlace
        /\ s.pc \notin {"idle", "unslot"}
    BY <1>3 DEF Inserting, CentralPlace, ClearPlace, ClosePlace
  <2>. QED BY <2>1, <2>2 DEF Shape
<1>. QED BY <1>1, <1>2, <1>3 DEF LoopMove

LEMMA ExecutionShape ==
    ASSUME NEW d \in Dispatcher, NEW r, NEW s, ExecutionMove(r, s)
    PROVE  Shape(d, s)
<1>0. d \in Thread
  BY DispatcherThread
<1>1. CASE s.pc \in {"callback", "done", "called", "enablefailed"}
  BY <1>1, AtDispatch DEF DispatcherPlace, AtRest
<1>2. CASE s.pc = "get" /\ \/ s.cont = "callbackqueued" /\ s.todo = <<CallbackJob>>
                           \/ s.cont = "called" /\ s.todo = <<SyncRequest>>
  <2>1. s.pc \in Inserting /\ JobsFor(d, s)
    BY <1>2 DEF JobsFor, Inserting
  <2>. QED BY <1>0, <2>1, AtInsertion
<1>3. CASE s.pc = "clearout" /\ s.cont = "attacherror"
  BY <1>0, <1>3, AtClear DEF ClearPlace
<1>4. CASE s.pc = "unslot"
  BY <1>0, <1>4, AtUnslot
<1>. QED BY <1>1, <1>2, <1>3, <1>4 DEF ExecutionMove

LEMMA AttachingShape ==
    ASSUME NEW r, NEW s, Shape(Central, r), AttachingMove(r, s)
    PROVE  Shape(Central, s)
<1>0. Central \in Thread /\ Central \notin Dispatcher
  BY CentralNotDispatcher
<1>1. CASE s.pc \in CentralPlace
  BY <1>1, AtCentral
<1>2. CASE s.pc = "clearout" /\ s.cont \in {"unslot", "detach"}
  BY <1>0, <1>2, AtClear DEF ClearPlace
<1>3. CASE s.pc = "get" /\ s.todo = DetachJobs /\ s.cont = "unslot"
  <2>1. s.pc \in Inserting /\ JobsFor(Central, s)
    BY <1>3 DEF JobsFor, Inserting
  <2>. QED BY <1>0, <2>1, AtInsertion
<1>4. CASE r.pc = "unslot" /\ s.pc = "close" /\ s.cont = r.cont
  BY <1>0, <1>4, AtClose DEF Shape, ClosePlace
<1>5. CASE s = Idle("idle")
  BY <1>0, <1>5, IdleShape
<1>. QED BY <1>1, <1>2, <1>3, <1>4, <1>5 DEF AttachingMove, CentralPlace, Alike, SameJob

LEMMA ClosingShape ==
    ASSUME NEW t \in User \cup {Central}, NEW r, NEW s, Shape(t, r), ClosingMove(t, r, s)
    PROVE  Shape(t, s)
<1>0. t \in Thread
  BY KindsApart
<1>1. r.pc \in ClosePlace
  BY DEF ClosingMove, ClosePlace
<1>2. CASE s.pc \in {"closing", "closeslot"} /\ s.cont = r.cont
  BY <1>0, <1>1, <1>2, AtClose, KindsApart DEF Shape, ClosePlace
<1>3. CASE s.pc = "clearout" /\ s.cont = r.cont
  BY <1>0, <1>1, <1>3, AtClear, KindsApart DEF Shape, ClearPlace
<1>4. CASE Cleared1(t, r, s)
  BY <1>0, <1>1, <1>4, Cleared1Shape
<1>. QED BY <1>2, <1>3, <1>4 DEF ClosingMove, Alike, SameJob

LEMMA EnvironmentShape ==
    ASSUME TypeInv, Shapes(th), Environment
    PROVE  Shapes(th')
<1>0. Threads(th)
  BY DEF TypeInv
<1>1. ASSUME NEW p \in Channel, AttachStart(p)
      PROVE  Shapes(th')
  <2>1. Central \in Thread /\ Starts(Central, p, StartJobs, "get", "attaching")
    BY <1>1, CentralNotDispatcher DEF AttachStart
  <2>2. Moved(Central) /\ th'[Central].pc = "get" /\ th'[Central].todo = StartJobs
        /\ th'[Central].cont = "attaching"
    BY <1>0, <2>1, StartsMoves
  <2>3. th'[Central].pc \in Inserting /\ JobsFor(Central, th'[Central])
    BY <2>2 DEF Inserting, JobsFor
  <2>. QED BY <2>1, <2>2, <2>3, AtInsertion, ShapeStep
<1>2. ASSUME NEW p \in Channel, DetachStart(p)
      PROVE  Shapes(th')
  <2>1. Central \in Thread /\ Starts(Central, p, <<>>, "detachwait", "idle")
    BY <1>2, CentralNotDispatcher DEF DetachStart
  <2>2. Moved(Central) /\ th'[Central].pc = "detachwait"
    BY <1>0, <2>1, StartsMoves
  <2>. QED BY <2>1, <2>2, AtCentral, ShapeStep DEF CentralPlace
<1>3. ASSUME NEW t \in User \cup Source, NEW p \in Channel, NEW ty \in ThrowAway \cup {"USERREQ"},
             NEW b \in BOOLEAN, Starts(t, p, <<Job(ty, b)>>, "get", "idle")
      PROVE  Shapes(th')
  <2>1. t \in Thread
    BY DEF Thread
  <2>2. PICK jobs : jobs = <<Job(ty, b)>>
    OBVIOUS
  <2>3. Starts(t, p, jobs, "get", "idle")
    BY <1>3, <2>2
  <2>4. Moved(t) /\ th'[t].pc = "get" /\ th'[t].todo = jobs /\ th'[t].cont = "idle"
    BY <1>0, <2>1, <2>3, StartsMoves
  <2>5. th'[t].pc \in Inserting /\ JobsFor(t, th'[t])
    BY <1>3, <2>2, <2>4 DEF Inserting, JobsFor
  <2>. QED BY <2>1, <2>4, <2>5, AtInsertion, ShapeStep
<1>4. ASSUME NEW u \in User, NEW p \in Channel, Request(u, p)
      PROVE  Shapes(th')
  <2>1. PICK kind \in Requests : Starts(u, p, <<Job("USERREQ", kind = "async")>>, "get", "idle")
    BY <1>4 DEF Request
  <2>2. (kind = "async") \in BOOLEAN /\ "USERREQ" \in ThrowAway \cup {"USERREQ"}
    OBVIOUS
  <2>. QED BY <1>3, <2>1, <2>2
<1>5. ASSUME NEW u \in User, NEW p \in Channel, CloseStart(u, p)
      PROVE  Shapes(th')
  <2>1. u \in Thread /\ Starts(u, p, <<>>, "close", "idle")
    BY <1>5 DEF CloseStart, Thread
  <2>2. Moved(u) /\ th'[u].pc = "close" /\ th'[u].cont = "idle"
    BY <1>0, <2>1, StartsMoves
  <2>. QED BY <2>1, <2>2, AtClose, ShapeStep DEF ClosePlace
<1>6. ASSUME NEW u \in User, NEW p \in Channel, Open(u, p)
      PROVE  Shapes(th')
  BY <1>6 DEF Open, Shapes
<1>7. ASSUME NEW s \in Source, NEW p \in Channel, Deliver(s, p)
      PROVE  Shapes(th')
  <2>1. PICK ty \in Traffic : Starts(s, p, <<Job(ty, FALSE)>>, "get", "idle")
    BY <1>7 DEF Deliver
  <2>2. ty \in ThrowAway /\ FALSE \in BOOLEAN
    BY ConstantsAssumption DEF ThrowAway, NotDetaching
  <2>. QED BY <1>3, <2>1, <2>2
<1>. QED BY <1>1, <1>2, <1>4, <1>5, <1>6, <1>7 DEF Environment

LEMMA InitShape == Init => Shapes(th)
<1> SUFFICES ASSUME Init, NEW t \in Thread
             PROVE  Shape(t, th[t])
  BY DEF Shapes
<1>1. th[t] = IF t \in Dispatcher THEN Idle("none") ELSE Idle("idle")
  BY DEF Init
<1>. QED BY <1>1, IdleShape

LEMMA NextShape == TypeInv /\ Shapes(th) /\ [Next]_vars => Shapes(th')
<1> SUFFICES ASSUME TypeInv, Shapes(th), [Next]_vars
             PROVE  Shapes(th')
  OBVIOUS
<1>1. ASSUME NEW t \in Thread, Insertion(t) \/ TimesOut(t)
      PROVE  Shapes(th')
  BY <1>1, InsertionMoves, InsertionShape, ShapeStep DEF Shapes
<1>2. ASSUME NEW d \in Dispatcher, DispatcherLoop(d)
      PROVE  Shapes(th')
  BY <1>2, LoopMoves, LoopShape, ShapeStep, DispatcherThread DEF Shapes
<1>3. ASSUME NEW d \in Dispatcher, Execution(d)
      PROVE  Shapes(th')
  BY <1>3, ExecutionMoves, ExecutionShape, ShapeStep, DispatcherThread
<1>4. CASE Attaching
  BY <1>4, AttachingMoves, AttachingShape, ShapeStep, CentralNotDispatcher DEF Shapes
<1>5. ASSUME NEW t \in User \cup {Central}, Closing(t)
      PROVE  Shapes(th')
  BY <1>5, ClosingMoves, ClosingShape, ShapeStep, KindsApart DEF Shapes
<1>6. CASE Environment
  BY <1>6, EnvironmentShape
<1>7. CASE UNCHANGED vars
  BY <1>7 DEF vars, Shapes
<1>. QED BY <1>1, <1>2, <1>3, <1>4, <1>5, <1>6, <1>7 DEF Next

=============================================================================
