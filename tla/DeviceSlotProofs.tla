--------------------------- MODULE DeviceSlotProofs ---------------------------
(* Channels and slots: a channel that is closed has given everything back,   *)
(* channels that exclude each other are not attached together, and the       *)
(* attached one is in its slot, for any devices, channels and threads.       *)
(*                                                                           *)
(* None of this is inductive.  What a channel holds and where it is follows  *)
(* from what the one thread is doing that works on it; there is one as long  *)
(* as no attach crosses a close (crossed).  So the invariant follows a       *)
(* channel through its attach and its close.                                 *)
EXTENDS DeviceOpenProofs

-----------------------------------------------------------------------------
(* The invariant.                                                            *)

Closing == {"getparent", "close", "back", "unslot", "finish"}

\* Thread t at record r works for a channel, or by force for none.
RecordOK(t, r) ==
    /\ r.pc = "idle" => r = Idle
    /\ r.pc \in Attaching => r.ch \in Channel /\ ~r.force
    /\ r.pc \in Closing /\ ~r.force => r.ch \in Channel
    /\ r.force => r.pc \in {"close", "back", "gone"} /\ t = Central
    /\ r.pc \in {"emptied", "gone"} \/ r.force => r.ch = None /\ t = Central
    /\ r.pc = "gone" => r.force

Records ==
    /\ \A t \in Thread : RecordOK(t, th[t])
    /\ th[Central].pc \notin {"idle"} \cup Attaching => leaving # None
    /\ \A s \in todo : s \in Slot /\ s[1] = leaving /\ leaving # None
    /\ th[Central].force => todo = {}

\* The central thread is about to empty slot s, or has closed its channel.
EmptiedAt(s) == At(Central, "emptied") /\ th[Central].slot = s
Emptying(s) ==
    /\ th[Central].pc \in Closing \cup {"emptied"} /\ ~th[Central].force
    /\ th[Central].slot = s

\* Device d is being detached, and its channels are not all done.
Detaching(d) == leaving = d /\ ~th[Central].force

Settled(p) == Has(p, "ATTACHED") /\ ~Has(p, "DETACHING")

OneThread(p) == \A t, u \in Thread : th[t].ch = p /\ th[u].ch = p => t = u
Nobody(p) == \A t \in Thread : th[t].ch # p
InOwnSlot(p) == \A s \in Slot : slot[s] = p => parent[p] = s[1] /\ index[p] = s[2]
HoldsOnce(p) == \A d \in Device : holds[p][d] \in {0, 1}

WhileAttaching(p, r) ==
    /\ Has(p, "OPEN") /\ ~Has(p, "ATTACHED") /\ ~Has(p, "DETACHING")
    /\ r.pc # "check" => index[p] = r.slot[2]
    /\ r.pc \in {"slot", "attached"} => parent[p] = r.to /\ Has(p, "ATTACHING")
    /\ \A s \in Slot : slot[s] = p => r.pc = "attached" /\ s = r.slot
    /\ \A d \in Device : holds[p][d] # 0 => r.pc \in {"parent", "slot", "attached"} /\ d = r.to

WhileClosing(p, t, r) ==
    /\ \A s \in Slot : slot[s] = p => r.pc # "finish" /\ (r.pc # "getparent" => r.to = s[1])
    /\ \A d \in Device : holds[p][d] # 0 => r.pc = "getparent" /\ parent[p] = d
    /\ GivesBackSlot(t) => ~Has(p, "ATTACHED")

WhileIdle(p) ==
    /\ \A s \in Slot : slot[s] = p => Has(p, "OPEN") /\ (Settled(p) \/ EmptiedAt(s))
    /\ \A d \in Device : holds[p][d] # 0 =>
          Has(p, "OPEN") /\ parent[p] = d /\ (Settled(p) \/ Detaching(d))

ChannelOK(p) ==
    /\ OneThread(p) /\ InOwnSlot(p) /\ HoldsOnce(p)
    /\ \A t \in Thread : th[t].ch = p /\ th[t].pc \in Attaching => WhileAttaching(p, th[t])
    /\ \A t \in Thread : th[t].ch = p /\ th[t].pc \in Closing => WhileClosing(p, t, th[t])
    /\ Nobody(p) => WhileIdle(p)

ChannelInv == \A p \in Channel : p \in crossed \/ ChannelOK(p)

Base == IInv /\ Shape /\ Records

-----------------------------------------------------------------------------
(* What the records of the threads say.                                      *)

LEMMA ThreadNames ==
    /\ Central \in Thread
    /\ \A p \in Channel : <<p, "dispatcher">> \in Thread /\ <<p, "user">> \in Thread
    /\ \A p \in Channel : GivesBackSlot(<<p, "dispatcher">>) /\ ~GivesBackSlot(<<p, "user">>)
    /\ ~GivesBackSlot(Central)
    /\ \A t \in Server : t \in Thread /\ ~GivesBackSlot(t) /\ t # Central
    /\ \A p \in Channel : <<p, "dispatcher">> # Central /\ <<p, "user">> # Central
BY ThreadsAssumption DEF Thread, GivesBackSlot

LEMMA IdleFacts ==
    /\ Idle.pc = "idle" /\ Idle.ch = None /\ ~Idle.force
    /\ "idle" \notin Attaching /\ "idle" \notin Closing
    /\ \A t : RecordOK(t, Idle)
BY DEF Idle, Attaching, Closing, RecordOK

LEMMA RecordsAre ==
    ASSUME Base
    PROVE  /\ th \in [Thread -> ThreadState]
           /\ \A t \in Thread : Sound(th[t]) /\ RecordOK(t, th[t])
           /\ slot \in [Slot -> Channel \cup {None}]
           /\ flags \in [Channel -> SUBSET {"OPEN", "ATTACHING", "ATTACHED", "DETACHING", "QUEUED"}]
           /\ parent \in [Channel -> Device \cup {None}]
           /\ index \in [Channel -> Index \cup {None}]
           /\ holds \in [Channel -> [Device -> Nat]]
           /\ None \notin Channel /\ None \notin Device
BY ConstantsAssumption DEF Base, IInv, TypeOK, Threads, Shape, Records

\* A thread that works on a channel attaches it or closes it.
LEMMA WorkIs ==
    ASSUME Base, NEW t \in Thread, th[t].ch \in Channel
    PROVE  th[t].pc \in Attaching \cup Closing /\ ~At(t, "idle") /\ ~th[t].force
<1>1. RecordOK(t, th[t]) /\ th[t] \in ThreadState /\ None \notin Channel
    BY RecordsAre
<1>2. th[t].pc # "idle"
    BY <1>1, IdleFacts DEF RecordOK
<1>. QED
    BY <1>1, <1>2 DEF RecordOK, ThreadState, Attaching, Closing, At

LEMMA NotBusy ==
    ASSUME Base, NEW p \in Channel, ~Busy(p)
    PROVE  Nobody(p)
BY WorkIs DEF Busy, Nobody

LEMMA BusyIs ==
    ASSUME Base, NEW p \in Channel, Nobody(p)
    PROVE  ~Busy(p)
BY DEF Busy, Nobody

\* Fields of the records that steps make.
LEMMA Fields ==
    ASSUME NEW x \in ThreadState, NEW v, NEW w, NEW y, NEW z
    PROVE  /\ LET r == [x EXCEPT !.pc = v] IN
              /\ r.pc = v /\ r.ch = x.ch /\ r.to = x.to /\ r.at = x.at /\ r.slot = x.slot
              /\ r.force = x.force /\ r.ok = x.ok
           /\ LET r == [x EXCEPT !.at = v] IN
              /\ r.pc = x.pc /\ r.ch = x.ch /\ r.to = x.to /\ r.at = v /\ r.slot = x.slot
              /\ r.force = x.force
           /\ LET r == [x EXCEPT !.ok = v, !.at = w] IN
              /\ r.pc = x.pc /\ r.ch = x.ch /\ r.to = x.to /\ r.at = w /\ r.slot = x.slot
              /\ r.force = x.force /\ r.ok = v
           /\ LET r == [x EXCEPT !.pc = v, !.at = w] IN
              /\ r.pc = v /\ r.ch = x.ch /\ r.to = x.to /\ r.at = w /\ r.slot = x.slot
              /\ r.force = x.force
           /\ LET r == [x EXCEPT !.pc = v, !.ch = w, !.to = y, !.at = y, !.force = FALSE, !.owed = z] IN
              /\ r.pc = v /\ r.ch = w /\ r.to = y /\ r.at = y /\ r.slot = x.slot
              /\ ~r.force
BY DEF ThreadState

-----------------------------------------------------------------------------
(* Records is preserved.                                                     *)

LEMMA RecordsStep ==
    ASSUME Base, NEW t \in Thread, NEW r, th' = [th EXCEPT ![t] = r], RecordOK(t, r),
           UNCHANGED <<leaving, todo>>,
           t = Central => (r.pc \notin {"idle"} \cup Attaching => leaving # None)
                          /\ (r.force => todo = {})
    PROVE  Records'
<1>1. th'[t] = r /\ \A u \in Thread : u # t => th'[u] = th[u]
    BY RecordsAre
<1>2. \A u \in Thread : RecordOK(u, th'[u])
    BY <1>1, RecordsAre
<1>3. CASE t = Central
    BY <1>1, <1>2, <1>3 DEF Base, Records
<1>4. CASE t # Central
    <2>1. th'[Central] = th[Central]
        BY <1>1, <1>4, ThreadNames
    <2>. QED
        BY <1>2, <2>1 DEF Base, Records
<1>. QED
    BY <1>3, <1>4

LEMMA RecordsKept ==
    ASSUME Base, UNCHANGED <<th, leaving, todo>>
    PROVE  Records'
BY DEF Base, Records

\* The next record of a thread that attaches, and of one that closes.
AttachingStep(t, r) ==
    r = Idle \/ (r.pc \in Attaching /\ r.ch = th[t].ch /\ r.slot = th[t].slot /\ ~r.force)

ClosingStep(t, r) ==
    \/ /\ r.ch = th[t].ch /\ r.slot = th[t].slot
       /\ \/ /\ r.pc \in Closing /\ r.force = th[t].force
             /\ r.force => r.pc \in {"close", "back"}
          \/ r.pc = "close" /\ ~r.force /\ th[t].pc = "getparent"
          \/ r.pc = "gone" /\ r.force /\ th[t].force
    \/ r = Idle /\ ~th[t].force /\ t # Central
    \/ /\ r.pc = "emptied" /\ r.ch = None /\ r.slot = th[t].slot /\ ~r.force
       /\ t = Central /\ ~th[t].force

LEMMA AttachIs ==
    ASSUME Base, NEW t \in Thread, Attach(t)
    PROVE  /\ th[t].pc \in Attaching /\ th[t].ch \in Channel /\ ~th[t].force
           /\ \E r : th' = [th EXCEPT ![t] = r] /\ AttachingStep(t, r)
<1>1. RecordOK(t, th[t]) /\ th[t] \in ThreadState
    BY RecordsAre
<1>2. th[t].pc \in Attaching /\ th[t].ch \in Channel /\ ~th[t].force
    BY <1>1 DEF Attach, Check, OpenDevice, SetParent, SetSlot, SetAttached, At, Attaching, RecordOK
<1>3. ASSUME NEW v, v \in Attaching, Goto(t, v)
      PROVE  \E r : th' = [th EXCEPT ![t] = r] /\ AttachingStep(t, r)
    <2>1. PICK r : r = [th[t] EXCEPT !.pc = v]
        OBVIOUS
    <2>2. th' = [th EXCEPT ![t] = r]
        BY <1>3, <2>1, RecordsAre DEF Goto
    <2>3. r.pc = v /\ r.ch = th[t].ch /\ r.slot = th[t].slot /\ r.force = th[t].force
        BY <1>1, <2>1, Fields
    <2>. QED
        BY <1>2, <1>3, <2>2, <2>3 DEF AttachingStep
<1>4. CASE th' = [th EXCEPT ![t] = Idle]
    <2>1. PICK r : r = Idle
        OBVIOUS
    <2>2. AttachingStep(t, r)
        BY <2>1 DEF AttachingStep
    <2>3. th' = [th EXCEPT ![t] = r]
        BY <1>4, <2>1
    <2>. QED
        BY <1>2, <2>2, <2>3
<1>5. CASE Check(t)
    <2>1. CASE th' = [th EXCEPT ![t].pc = "open", ![t].at = Root(th[t].slot[1])]
        <3>1. PICK r : r = [th[t] EXCEPT !.pc = "open", !.at = Root(th[t].slot[1])]
            OBVIOUS
        <3>2. th' = [th EXCEPT ![t] = r]
            BY <2>1, <3>1, RecordsAre
        <3>3. r.pc = "open" /\ r.ch = th[t].ch /\ r.slot = th[t].slot /\ r.force = th[t].force
            BY <1>1, <3>1, Fields
        <3>. QED
            BY <1>2, <3>2, <3>3 DEF AttachingStep, Attaching
    <2>. QED
        BY <1>4, <1>5, <2>1 DEF Check, GivesUp
<1>6. CASE OpenDevice(t)
    <2>1. ASSUME NEW ok, th' = [th EXCEPT ![t].ok = ok, ![t].at = th[t].to]
          PROVE  \E r : th' = [th EXCEPT ![t] = r] /\ AttachingStep(t, r)
        <3>1. PICK r : r = [th[t] EXCEPT !.ok = ok, !.at = th[t].to]
            OBVIOUS
        <3>2. th' = [th EXCEPT ![t] = r]
            BY <2>1, <3>1, RecordsAre
        <3>3. r.pc = th[t].pc /\ r.ch = th[t].ch /\ r.slot = th[t].slot /\ r.force = th[t].force
            BY <1>1, <3>1, Fields
        <3>. QED
            BY <1>2, <3>2, <3>3 DEF AttachingStep, Attaching
    <2>2. \/ th' = [th EXCEPT ![t] = Idle]
          \/ Goto(t, "parent")
          \/ \E ok : th' = [th EXCEPT ![t].ok = ok, ![t].at = th[t].to]
        BY <1>6 DEF OpenDevice, GivesUp
    <2>. QED
        BY <1>2, <1>3, <1>4, <2>1, <2>2 DEF Attaching
<1>. QED
    BY <1>2, <1>3, <1>4, <1>5, <1>6 DEF Attach, SetParent, SetSlot, SetAttached, Attaching

LEMMA AttachRecords ==
    ASSUME Base, NEW t \in Thread, Attach(t)
    PROVE  Records'
<1>1. PICK r : th' = [th EXCEPT ![t] = r] /\ AttachingStep(t, r)
    BY AttachIs
<1>2. th[t].ch \in Channel
    BY AttachIs
<1>3. UNCHANGED <<leaving, todo>>
    BY DEF Attach, Check, OpenDevice, SetParent, SetSlot, SetAttached, detach
<1>4. RecordOK(t, r) /\ r.pc \in {"idle"} \cup Attaching /\ ~r.force
    BY <1>1, <1>2, IdleFacts DEF RecordOK, AttachingStep, Attaching, Closing
<1>. QED
    BY <1>1, <1>3, <1>4, RecordsStep

LEMMA GiveBackIs ==
    ASSUME Base, NEW t \in Thread, GiveBack(t)
    PROVE  /\ th[t].pc \in Closing
           /\ \E r : th' = [th EXCEPT ![t] = r] /\ ClosingStep(t, r)
<1>1. RecordOK(t, th[t]) /\ th[t] \in ThreadState
    BY RecordsAre
<1>2. th[t].pc \in Closing
    BY DEF GiveBack, GetParent, CloseDevice, CloseDeviceBack, Unslot, Finish, At, Closing
<1>3. CASE th' = [th EXCEPT ![t] = Idle] /\ t # Central /\ ~th[t].force
    <2>1. PICK r : r = Idle
        OBVIOUS
    <2>. QED
        BY <1>2, <1>3, <2>1 DEF ClosingStep
<1>4. CASE th' = [th EXCEPT ![t].pc = "finish"] /\ ~th[t].force
    <2>1. PICK r : r = [th[t] EXCEPT !.pc = "finish"]
        OBVIOUS
    <2>2. th' = [th EXCEPT ![t] = r]
        BY <1>4, <2>1, RecordsAre
    <2>3. r.pc = "finish" /\ r.ch = th[t].ch /\ r.slot = th[t].slot /\ r.force = th[t].force
        BY <1>1, <2>1, Fields
    <2>. QED
        BY <1>2, <1>4, <2>2, <2>3 DEF ClosingStep, Closing
<1>5. CASE GetParent(t)
    <2>1. th[t].pc = "getparent" /\ ~th[t].force
        BY <1>1, <1>5 DEF GetParent, At, RecordOK
    <2>2. CASE StartsClose(t, th[t].ch, parent[th[t].ch], FALSE)
        <3>1. PICK d, owed : StartsClose(t, th[t].ch, d, FALSE)
                    /\ th' = [th EXCEPT ![t].pc = "close", ![t].ch = th[t].ch, ![t].to = d, ![t].at = d,
                                        ![t].force = FALSE, ![t].owed = owed]
            BY <2>2 DEF StartsClose
        <3>2. PICK r : r = [th[t] EXCEPT !.pc = "close", !.ch = th[t].ch, !.to = d, !.at = d,
                                         !.force = FALSE, !.owed = owed]
            OBVIOUS
        <3>3. th' = [th EXCEPT ![t] = r]
            BY <3>1, <3>2, RecordsAre
        <3>4. r.pc = "close" /\ r.ch = th[t].ch /\ r.slot = th[t].slot /\ ~r.force
            BY <1>1, <3>2, Fields
        <3>. QED
            BY <1>2, <2>1, <3>3, <3>4 DEF ClosingStep
    <2>. QED
        BY <1>3, <1>4, <1>5, <2>1, <2>2, ThreadNames DEF GetParent
<1>6. ASSUME NEW d, Returns(t, d), th[t].pc \in {"close", "back"}
      PROVE  \E r : th' = [th EXCEPT ![t] = r] /\ ClosingStep(t, r)
    <2>1. PICK v : v = CASE d # th[t].to -> "back"
                         [] d = th[t].to /\ th[t].force -> "gone"
                         [] OTHER -> "unslot"
        OBVIOUS
    <2>2. PICK r : r = [th[t] EXCEPT !.pc = v, !.at = th[t].to]
        OBVIOUS
    <2>3. th' = [th EXCEPT ![t] = r]
        BY <1>6, <2>1, <2>2, RecordsAre DEF Returns
    <2>4. r.pc = v /\ r.ch = th[t].ch /\ r.slot = th[t].slot /\ r.force = th[t].force
        BY <1>1, <2>2, Fields
    <2>5. v = "back" \/ (v = "unslot" /\ ~th[t].force) \/ (v = "gone" /\ th[t].force)
        BY <2>1
    <2>. QED
        BY <1>2, <2>3, <2>4, <2>5 DEF ClosingStep, Closing
<1>7. CASE CloseDevice(t)
    <2>2. th[t].pc \in {"close", "back"}
        BY <1>7 DEF CloseDevice, At
    <2>1. ASSUME NEW d, th' = [th EXCEPT ![t].at = d]
          PROVE  \E r : th' = [th EXCEPT ![t] = r] /\ ClosingStep(t, r)
        <3>1. PICK r : r = [th[t] EXCEPT !.at = d]
            OBVIOUS
        <3>2. th' = [th EXCEPT ![t] = r]
            BY <2>1, <3>1, RecordsAre
        <3>3. r.pc = th[t].pc /\ r.ch = th[t].ch /\ r.slot = th[t].slot /\ r.force = th[t].force
            BY <1>1, <3>1, Fields
        <3>. QED
            BY <1>2, <2>2, <3>2, <3>3 DEF ClosingStep
    <2>3. \/ Returns(t, th[t].at)
          \/ th' = [th EXCEPT ![t].at = Parent[th[t].at]]
        BY <1>7 DEF CloseDevice
    <2>. QED
        BY <1>2, <1>6, <2>1, <2>2, <2>3
<1>8. CASE CloseDeviceBack(t)
    <2>1. ASSUME NEW d, th' = [th EXCEPT ![t].pc = "close", ![t].at = d]
          PROVE  \E r : th' = [th EXCEPT ![t] = r] /\ ClosingStep(t, r)
        <3>1. PICK r : r = [th[t] EXCEPT !.pc = "close", !.at = d]
            OBVIOUS
        <3>2. th' = [th EXCEPT ![t] = r]
            BY <2>1, <3>1, RecordsAre
        <3>3. r.pc = "close" /\ r.ch = th[t].ch /\ r.slot = th[t].slot /\ r.force = th[t].force
            BY <1>1, <3>1, Fields
        <3>. QED
            BY <1>2, <3>2, <3>3 DEF ClosingStep, Closing
    <2>2. th[t].pc \in {"close", "back"}
        BY <1>8 DEF CloseDeviceBack, At
    <2>3. \/ Returns(t, th[t].at)
          \/ th' = [th EXCEPT ![t].pc = "close", ![t].at = Parent[th[t].at]]
        BY <1>8 DEF CloseDeviceBack
    <2>. QED
        BY <1>2, <1>6, <2>1, <2>2, <2>3
<1>9. CASE Unslot(t)
    <2>1. ~th[t].force
        BY <1>1, <1>9 DEF Unslot, At, RecordOK
    <2>. QED
        BY <1>3, <1>4, <1>9, <2>1, ThreadNames DEF Unslot
<1>10. CASE Finish(t)
    <2>1. ~th[t].force
        BY <1>1, <1>10 DEF Finish, At, RecordOK
    <2>2. CASE t = Central
        <3>1. PICK s : s = th[t].slot
            OBVIOUS
        <3>2. PICK r : r = [Idle EXCEPT !.pc = "emptied", !.slot = s]
            OBVIOUS
        <3>3. r.pc = "emptied" /\ r.ch = None /\ r.slot = s /\ ~r.force
            BY <3>2 DEF Idle
        <3>4. th' = [th EXCEPT ![t] = r]
            BY <1>10, <2>2, <3>1, <3>2 DEF Finish, Ended
        <3>. QED
            BY <1>2, <2>1, <2>2, <3>1, <3>3, <3>4 DEF ClosingStep
    <2>. QED
        BY <1>3, <1>10, <2>1, <2>2 DEF Finish, Ended
<1>. QED
    BY <1>2, <1>5, <1>7, <1>8, <1>9, <1>10 DEF GiveBack

LEMMA GiveBackRecords ==
    ASSUME Base, NEW t \in Thread, GiveBack(t)
    PROVE  Records'
<1>1. RecordOK(t, th[t]) /\ th[t] \in ThreadState
    BY RecordsAre
<1>2. PICK r : th' = [th EXCEPT ![t] = r] /\ ClosingStep(t, r)
    BY GiveBackIs
<1>3. th[t].pc \in Closing
    BY GiveBackIs
<1>4. UNCHANGED <<leaving, todo>>
    BY DEF GiveBack, GetParent, CloseDevice, CloseDeviceBack, Unslot, Finish, detach
<1>5. RecordOK(t, r)
    <2>1. CASE r = Idle
        BY <2>1, IdleFacts
    <2>2. CASE r # Idle
        BY <1>1, <1>2, <1>3, <2>2, IdleFacts DEF RecordOK, ClosingStep, Attaching, Closing
    <2>. QED
        BY <2>1, <2>2
<1>6. t = Central => leaving # None /\ (r.force => th[t].force)
    BY <1>2, <1>3, IdleFacts DEF Base, Records, ClosingStep, Attaching, Closing
<1>7. t = Central => (r.force => todo = {})
    BY <1>6 DEF Base, Records
<1>. QED
    BY <1>2, <1>4, <1>5, <1>6, <1>7, RecordsStep

LEMMA OtherRecords ==
    ASSUME Base, Next, ~\E t \in Thread : Attach(t) \/ GiveBack(t)
    PROVE  Records'
<1>1. ASSUME NEW t \in Thread, NEW p \in Channel, NEW s \in Slot, leaving = None \/ t # Central,
             StartsAttach(t, p, s), UNCHANGED <<leaving, todo>>
      PROVE  Records'
    <2>1. PICK r : r = [Idle EXCEPT !.pc = "check", !.ch = p, !.to = s[1], !.slot = s]
        OBVIOUS
    <2>2. r.pc = "check" /\ r.ch = p /\ ~r.force
        BY <2>1 DEF Idle
    <2>3. RecordOK(t, r)
        BY <2>2 DEF RecordOK, Attaching, Closing
    <2>. QED
        BY <1>1, <2>1, <2>2, <2>3, RecordsStep DEF StartsAttach, Attaching
<1>2. ASSUME NEW t \in Thread, NEW p \in Channel, NEW r, leaving # None \/ t # Central,
             th' = [th EXCEPT ![t] = r], r.pc = "getparent", r.ch = p, ~r.force,
             UNCHANGED <<leaving, todo>>
      PROVE  Records'
    <2>1. RecordOK(t, r)
        BY <1>2 DEF RecordOK, Attaching, Closing
    <2>. QED
        BY <1>2, <2>1, RecordsStep
<1>5. CASE \E p \in Channel, s \in Slot : Match(p, s)
    BY <1>1, <1>5, ThreadNames DEF Match, detach
<1>6. CASE \E t \in Server, p \in Channel, s \in Slot : ServerOpen(t, p, s)
    BY <1>1, <1>6, ThreadNames DEF ServerOpen, detach
<1>7. ASSUME NEW t \in Thread, NEW p \in Channel, t # Central,
             th' = [th EXCEPT ![t] = [Idle EXCEPT !.pc = "getparent", !.ch = p]],
             UNCHANGED <<leaving, todo>>
      PROVE  Records'
    <2>1. PICK r : r = [Idle EXCEPT !.pc = "getparent", !.ch = p]
        OBVIOUS
    <2>2. r.pc = "getparent" /\ r.ch = p /\ ~r.force
        BY <2>1 DEF Idle
    <2>. QED
        BY <1>2, <1>7, <2>1, <2>2
<1>8. CASE \E t \in Server, s \in Slot : ServerClose(t, s)
    <2>1. PICK t \in Server, s \in Slot : ServerClose(t, s)
        BY <1>8
    <2>2. slot[s] \in Channel
        BY <2>1, ConstantsAssumption DEF ServerClose
    <2>. QED
        BY <1>7, <2>1, <2>2, ThreadNames DEF ServerClose, ClosesChannel, detach
<1>9. CASE \E p \in Channel : AttachFails(p)
    BY <1>7, <1>9, ThreadNames DEF AttachFails, detach
<1>10. CASE \E p \in Channel : UserClose(p)
    BY <1>7, <1>10, ThreadNames DEF UserClose, ClosesChannel, detach
<1>11. CASE \E p \in Channel : AttachDone(p) \/ DetachDone(p) \/ UserOpen(p)
    BY <1>11, RecordsKept DEF AttachDone, DetachDone, UserOpen, detach
<1>12. CASE \E d \in Device : Detach(d)
    <2>1. PICK d \in Device : Detach(d)
        BY <1>12
    <2>2. th' = th /\ th[Central] = Idle /\ leaving' = d /\ todo' = {d} \X Index
        BY <2>1, ThreadNames, RecordsAre DEF Detach, At, RecordOK
    <2>3. \A s \in todo' : s \in Slot /\ s[1] = d /\ d # None
        BY <2>2, ConstantsAssumption DEF Slot
    <2>. QED
        BY <2>2, <2>3, IdleFacts DEF Base, Records
<1>13. CASE \E s \in Slot : DetachChannel(s)
    <2>1. PICK s \in Slot : DetachChannel(s)
        BY <1>13
    <2>2. leaving # None /\ UNCHANGED <<leaving, todo>> /\ slot[s] \in Channel
        BY <2>1, RecordsAre DEF Base, Records, DetachChannel, detach
    <2>3. CASE th' = [th EXCEPT ![Central] = [Idle EXCEPT !.pc = "getparent", !.ch = slot[s], !.slot = s]]
        <3>1. PICK r : r = [Idle EXCEPT !.pc = "getparent", !.ch = slot[s], !.slot = s]
            OBVIOUS
        <3>2. r.pc = "getparent" /\ r.ch = slot[s] /\ ~r.force
            BY <3>1 DEF Idle
        <3>. QED
            BY <1>2, <2>2, <2>3, <3>1, <3>2, ThreadNames
    <2>4. CASE th' = [th EXCEPT ![Central] = [Idle EXCEPT !.pc = "emptied", !.slot = s]]
        <3>1. PICK r : r = [Idle EXCEPT !.pc = "emptied", !.slot = s]
            OBVIOUS
        <3>2. r.pc = "emptied" /\ r.ch = None /\ ~r.force
            BY <3>1 DEF Idle
        <3>3. RecordOK(Central, r)
            BY <3>2 DEF RecordOK, Attaching, Closing
        <3>. QED
            BY <2>2, <2>4, <3>1, <3>2, <3>3, RecordsStep, ThreadNames
    <2>. QED
        BY <2>1, <2>3, <2>4 DEF DetachChannel
<1>14. CASE DetachSlot
    <2>1. th' = [th EXCEPT ![Central] = Idle] /\ todo' \subseteq todo /\ leaving' = leaving
        BY <1>14 DEF DetachSlot
    <2>2. th'[Central] = Idle /\ \A u \in Thread : RecordOK(u, th'[u])
        BY <2>1, RecordsAre, ThreadNames, IdleFacts
    <2>. QED
        BY <2>1, <2>2, IdleFacts DEF Base, Records
<1>15. CASE DetachDevice
    <2>1. PICK r : r = [th[Central] EXCEPT !.pc = "close", !.ch = None, !.to = leaving, !.at = leaving,
                          !.force = TRUE, !.owed = TRUE]
        OBVIOUS
    <2>2. th' = [th EXCEPT ![Central] = r]
        BY <1>15, <2>1, RecordsAre, ThreadNames DEF DetachDevice, StartsClose
    <2>3. r.pc = "close" /\ r.ch = None /\ r.force
        BY <2>1, RecordsAre, ThreadNames DEF ThreadState
    <2>4. RecordOK(Central, r)
        BY <2>3 DEF RecordOK, Attaching, Closing
    <2>5. th'[Central] = r /\ \A u \in Thread : RecordOK(u, th'[u])
        BY <2>2, <2>4, RecordsAre, ThreadNames
    <2>6. leaving' # None /\ todo' = {}
        BY <1>15 DEF DetachDevice
    <2>. QED
        BY <2>3, <2>5, <2>6 DEF Records
<1>16. CASE DetachEnds
    <2>1. th' = [th EXCEPT ![Central] = Idle] /\ todo' = todo /\ todo = {}
        BY <1>16, RecordsAre, ThreadNames DEF DetachEnds, Base, Records, RecordOK, At
    <2>2. th'[Central] = Idle /\ \A u \in Thread : RecordOK(u, th'[u])
        BY <2>1, RecordsAre, ThreadNames, IdleFacts
    <2>. QED
        BY <2>1, <2>2, IdleFacts DEF Records
<1>. QED
    BY <1>5, <1>6, <1>8, <1>9, <1>10, <1>11, <1>12, <1>13, <1>14, <1>15, <1>16 DEF Next

-----------------------------------------------------------------------------
(* Channels: a step that is not about channel p leaves it as it is.          *)

\* What a step leaves of channel p.
Aside(p) ==
    /\ flags'[p] = flags[p] /\ parent'[p] = parent[p] /\ index'[p] = index[p]
    /\ \A s \in Slot : slot'[s] = p => slot[s] = p
    /\ \A d \in Device : holds'[p][d] # 0 => holds'[p][d] = holds[p][d]

LEMMA AsideOK ==
    ASSUME Base, NEW p \in Channel, ChannelOK(p), Aside(p),
           \A t \in Thread : th[t].ch = p \/ th'[t].ch = p => th'[t] = th[t],
           \A s \in Slot : slot'[s] = p /\ EmptiedAt(s) => EmptiedAt(s)',
           \A d \in Device : holds'[p][d] # 0 /\ Detaching(d) => Detaching(d)'
    PROVE  ChannelOK(p)'
<1>1. OneThread(p)'
    BY DEF ChannelOK, OneThread
<1>2. InOwnSlot(p)' /\ HoldsOnce(p)'
    BY DEF ChannelOK, InOwnSlot, HoldsOnce, Aside
<1>3. ASSUME NEW t \in Thread, th'[t].ch = p, th'[t].pc \in Attaching
      PROVE  WhileAttaching(p, th[t])'
    <2>1. th'[t] = th[t] /\ WhileAttaching(p, th[t])
        BY <1>3 DEF ChannelOK
    <2>. QED
        BY <2>1 DEF WhileAttaching, Has, Aside
<1>4. ASSUME NEW t \in Thread, th'[t].ch = p, th'[t].pc \in Closing
      PROVE  WhileClosing(p, t, th[t])'
    <2>1. th'[t] = th[t] /\ WhileClosing(p, t, th[t])
        BY <1>4 DEF ChannelOK
    <2>. QED
        BY <2>1 DEF WhileClosing, Has, Aside
<1>5. ASSUME Nobody(p)' PROVE WhileIdle(p)'
    <2>1. WhileIdle(p)
        BY <1>5 DEF ChannelOK, Nobody
    <2>2. (Settled(p)' <=> Settled(p)) /\ (Has(p, "OPEN")' <=> Has(p, "OPEN"))
        BY DEF Settled, Has, Aside
    <2>. QED
        BY <2>1, <2>2 DEF WhileIdle, Aside
<1>. QED
    BY <1>1, <1>2, <1>3, <1>4, <1>5 DEF ChannelOK

\* A step of a thread that works for another channel.
LEMMA AsideStep ==
    ASSUME Base, NEW p \in Channel, ChannelOK(p), Aside(p),
           NEW t \in Thread, NEW r, th' = [th EXCEPT ![t] = r], th[t].ch # p, r.ch # p,
           leaving' = leaving, r.force => th[t].force, ~At(t, "emptied")
    PROVE  ChannelOK(p)'
<1>1. th'[t] = r /\ \A u \in Thread : u # t => th'[u] = th[u]
    BY RecordsAre
<1>2. th'[Central].force => th[Central].force
    BY <1>1, ThreadNames
<1>3. \A s \in Slot : EmptiedAt(s) => EmptiedAt(s)'
    BY <1>1, ThreadNames DEF EmptiedAt, At
<1>. QED
    BY <1>1, <1>2, <1>3, AsideOK DEF Detaching

\* A step of the thread t that works for p, or begins to.
LEMMA OwnStep ==
    ASSUME Base, NEW p \in Channel, NEW t \in Thread, NEW r, th' = [th EXCEPT ![t] = r],
           \A u \in Thread : th[u].ch = p => u = t,
           InOwnSlot(p)', HoldsOnce(p)',
           r.ch = p /\ r.pc \in Attaching => WhileAttaching(p, r)',
           r.ch = p /\ r.pc \in Closing => WhileClosing(p, t, r)',
           r.ch # p => WhileIdle(p)'
    PROVE  ChannelOK(p)'
<1>1. th'[t] = r /\ \A u \in Thread : u # t => th'[u] = th[u]
    BY RecordsAre
<1>2. OneThread(p)'
    BY <1>1 DEF OneThread
<1>3. ASSUME NEW u \in Thread, th'[u].ch = p PROVE u = t
    BY <1>1, <1>3
<1>4. ASSUME NEW u \in Thread, th'[u].ch = p, th'[u].pc \in Attaching
      PROVE  WhileAttaching(p, th[u])'
    <2>1. u = t /\ WhileAttaching(p, r)'
        BY <1>1, <1>3, <1>4
    <2>. QED
        BY <1>1, <2>1 DEF WhileAttaching
<1>5. ASSUME NEW u \in Thread, th'[u].ch = p, th'[u].pc \in Closing
      PROVE  WhileClosing(p, u, th[u])'
    <2>1. u = t /\ WhileClosing(p, t, r)'
        BY <1>1, <1>3, <1>5
    <2>. QED
        BY <1>1, <2>1 DEF WhileClosing
<1>6. Nobody(p)' => WhileIdle(p)'
    BY <1>1 DEF Nobody
<1>. QED
    BY <1>2, <1>4, <1>5, <1>6 DEF ChannelOK

\* A step that leaves the threads alone.
LEMMA FlagStep ==
    ASSUME Base, NEW p \in Channel, ChannelOK(p), UNCHANGED <<th, slot, parent, index, holds, leaving>>,
           \A t \in Thread : th[t].ch = p /\ th[t].pc \in Attaching => WhileAttaching(p, th[t])',
           \A t \in Thread : th[t].ch = p /\ th[t].pc \in Closing => WhileClosing(p, t, th[t])',
           Nobody(p) => WhileIdle(p)'
    PROVE  ChannelOK(p)'
BY DEF ChannelOK, OneThread, InOwnSlot, HoldsOnce, Nobody

LEMMA AttachAside ==
    ASSUME Base, NEW t \in Thread, Attach(t), NEW p \in Channel, th[t].ch # p
    PROVE  Aside(p)
<1>1. th[t].ch \in Channel
    BY AttachIs
<1>2. CASE Check(t)
    BY <1>1, <1>2, RecordsAre DEF Check, GivesUp, history, Aside
<1>3. CASE OpenDevice(t)
    BY <1>1, <1>3, RecordsAre DEF OpenDevice, GivesUp, Aside
<1>4. CASE SetParent(t)
    BY <1>1, <1>4, RecordsAre DEF SetParent, history, Aside
<1>5. CASE SetSlot(t)
    BY <1>1, <1>5, RecordsAre DEF SetSlot, history, Aside
<1>6. CASE SetAttached(t)
    BY <1>1, <1>6, RecordsAre DEF SetAttached, history, Aside
<1>. QED
    BY <1>2, <1>3, <1>4, <1>5, <1>6 DEF Attach

LEMMA GiveBackAside ==
    ASSUME Base, NEW t \in Thread, GiveBack(t), NEW p \in Channel, th[t].ch # p
    PROVE  Aside(p)
<1>1. GetParent(t) \/ Finish(t) => th[t].ch \in Channel
    BY RecordsAre DEF GetParent, Finish, At, RecordOK, Closing
<1>2. CASE GetParent(t)
    BY <1>1, <1>2, RecordsAre DEF GetParent, channels, Aside
<1>3. CASE CloseDevice(t)
    BY <1>3 DEF CloseDevice, channels, Aside
<1>4. CASE CloseDeviceBack(t)
    BY <1>4 DEF CloseDeviceBack, channels, Aside
<1>5. CASE Unslot(t)
    BY <1>5, RecordsAre DEF Unslot, Aside
<1>6. CASE Finish(t)
    BY <1>1, <1>6, RecordsAre DEF Finish, history, Aside
<1>. QED
    BY <1>2, <1>3, <1>4, <1>5, <1>6 DEF GiveBack

-----------------------------------------------------------------------------
(* Channels: the attach.                                                     *)

LEMMA AttachFacts ==
    ASSUME Base, NEW p \in Channel, ChannelOK(p), NEW t \in Thread, th[t].ch = p,
           th[t].pc \in Attaching
    PROVE  /\ \A u \in Thread : th[u].ch = p => u = t
           /\ WhileAttaching(p, th[t])
           /\ InOwnSlot(p) /\ HoldsOnce(p)
           /\ th[t] \in ThreadState /\ th[t].slot \in Slot /\ th[t].to = th[t].slot[1]
           /\ th[t].to \in Device /\ th[t].slot[2] \in Index
BY RecordsAre DEF ChannelOK, OneThread, Sound, Slot

\* A channel whose attach is given up before it holds anything.
LEMMA GivenUp ==
    ASSUME Base, NEW p \in Channel, ChannelOK(p), NEW t \in Thread, th[t].ch = p,
           th[t].pc \in {"check", "open"}, th' = [th EXCEPT ![t] = Idle],
           UNCHANGED <<slot, parent, holds>>
    PROVE  ChannelOK(p)'
<1>1. th[t].pc \in Attaching
    BY DEF Attaching
<1>2. /\ \A s \in Slot : slot[s] # p
      /\ \A d \in Device : holds[p][d] = 0
    BY <1>1, AttachFacts DEF WhileAttaching
<1>3. InOwnSlot(p)' /\ HoldsOnce(p)' /\ WhileIdle(p)'
    BY <1>2 DEF InOwnSlot, HoldsOnce, WhileIdle
<1>4. PICK r : r = Idle
    OBVIOUS
<1>5. r.ch # p /\ r.pc = "idle"
    BY <1>4, RecordsAre, IdleFacts
<1>. QED
    BY <1>1, <1>3, <1>4, <1>5, AttachFacts, OwnStep

LEMMA CheckOwn ==
    ASSUME Base, NEW p \in Channel, ChannelOK(p), NEW t \in Thread, th[t].ch = p, Check(t)
    PROVE  ChannelOK(p)'
<1>1. th[t].pc = "check" /\ th[t].pc \in Attaching
    BY DEF Check, At, Attaching
<1>2. CASE GivesUp(t)
    BY <1>1, <1>2, GivenUp DEF Check, GivesUp, history
<1>3. CASE ~GivesUp(t)
    <2>1. PICK r : r = [th[t] EXCEPT !.pc = "open", !.at = Root(th[t].slot[1])]
        OBVIOUS
    <2>2. th' = [th EXCEPT ![t] = r]
        BY <1>3, <2>1, RecordsAre DEF Check
    <2>3. r.pc = "open" /\ r.ch = p /\ r.slot = th[t].slot /\ r.to = th[t].to
        BY <1>1, <2>1, AttachFacts, Fields
    <2>4. /\ index'[p] = th[t].slot[2]
          /\ UNCHANGED <<slot, flags, parent, holds>>
        BY <1>1, <1>3, AttachFacts, RecordsAre DEF Check, WhileAttaching, history
    <2>5. /\ \A s \in Slot : slot[s] # p
          /\ \A d \in Device : holds[p][d] = 0
        BY <1>1, AttachFacts DEF WhileAttaching
    <2>6. InOwnSlot(p)' /\ HoldsOnce(p)'
        BY <2>4, <2>5 DEF InOwnSlot, HoldsOnce
    <2>7. WhileAttaching(p, r)'
        BY <1>1, <2>3, <2>4, <2>5, AttachFacts DEF WhileAttaching, Has
    <2>8. r.pc \notin Closing
        BY <2>3 DEF Closing
    <2>. QED
        BY <1>1, <2>2, <2>3, <2>6, <2>7, <2>8, AttachFacts, OwnStep
<1>. QED
    BY <1>2, <1>3

LEMMA OpenDeviceOwn ==
    ASSUME Base, NEW p \in Channel, ChannelOK(p), NEW t \in Thread, th[t].ch = p, OpenDevice(t)
    PROVE  ChannelOK(p)'
<1>1. th[t].pc = "open" /\ th[t].pc \in Attaching
    BY DEF OpenDevice, At, Attaching
<1>2. UNCHANGED <<slot, parent, index>>
    BY DEF OpenDevice
<1>3. /\ \A s \in Slot : slot[s] # p
      /\ \A d \in Device : holds[p][d] = 0
      /\ index[p] = th[t].slot[2]
    BY <1>1, AttachFacts DEF WhileAttaching
<1>4. InOwnSlot(p)'
    BY <1>2, <1>3 DEF InOwnSlot
<1>5. CASE GivesUp(t) /\ UNCHANGED holds
    BY <1>1, <1>2, <1>5, GivenUp DEF GivesUp
<1>6. ASSUME NEW ok, th' = [th EXCEPT ![t].ok = ok, ![t].at = th[t].to], UNCHANGED <<flags, holds>>
      PROVE  ChannelOK(p)'
    <2>1. PICK r : r = [th[t] EXCEPT !.ok = ok, !.at = th[t].to]
        OBVIOUS
    <2>2. th' = [th EXCEPT ![t] = r]
        BY <1>6, <2>1, RecordsAre
    <2>3. r.pc = "open" /\ r.ch = p /\ r.slot = th[t].slot /\ r.to = th[t].to
        BY <1>1, <2>1, AttachFacts, Fields
    <2>4. WhileAttaching(p, r)' /\ HoldsOnce(p)'
        BY <1>1, <1>2, <1>3, <1>6, <2>3, AttachFacts DEF WhileAttaching, Has, HoldsOnce
    <2>5. r.pc \notin Closing
        BY <2>3 DEF Closing
    <2>. QED
        BY <1>1, <1>4, <2>2, <2>3, <2>4, <2>5, AttachFacts, OwnStep
<1>7. CASE Goto(t, "parent") /\ holds' = [holds EXCEPT ![p][th[t].to] = @ + 1] /\ UNCHANGED flags
    <2>1. PICK r : r = [th[t] EXCEPT !.pc = "parent"]
        OBVIOUS
    <2>2. th' = [th EXCEPT ![t] = r]
        BY <1>7, <2>1, RecordsAre DEF Goto
    <2>3. r.pc = "parent" /\ r.ch = p /\ r.slot = th[t].slot /\ r.to = th[t].to
        BY <1>1, <2>1, AttachFacts, Fields
    <2>4. \A d \in Device : holds'[p][d] = IF d = th[t].to THEN 1 ELSE 0
        BY <1>1, <1>3, <1>7, RecordsAre, AttachFacts
    <2>5. WhileAttaching(p, r)' /\ HoldsOnce(p)'
        BY <1>1, <1>2, <1>3, <1>7, <2>3, <2>4, AttachFacts DEF WhileAttaching, Has, HoldsOnce
    <2>6. r.pc \notin Closing
        BY <2>3 DEF Closing
    <2>. QED
        BY <1>1, <1>4, <2>2, <2>3, <2>5, <2>6, AttachFacts, OwnStep
<1>. QED
    BY <1>5, <1>6, <1>7 DEF OpenDevice

LEMMA SetParentOwn ==
    ASSUME Base, NEW p \in Channel, ChannelOK(p), NEW t \in Thread, th[t].ch = p, SetParent(t)
    PROVE  ChannelOK(p)'
<1>1. th[t].pc = "parent" /\ th[t].pc \in Attaching
    BY DEF SetParent, At, Attaching
<1>2. PICK r : r = [th[t] EXCEPT !.pc = "slot"]
    OBVIOUS
<1>3. th' = [th EXCEPT ![t] = r]
    BY <1>2, RecordsAre DEF SetParent, Goto
<1>4. r.pc = "slot" /\ r.ch = p /\ r.slot = th[t].slot /\ r.to = th[t].to
    BY <1>1, <1>2, AttachFacts, Fields
<1>5. /\ UNCHANGED <<slot, index, holds>> /\ parent'[p] = r.to
      /\ flags'[p] = flags[p] \cup {"ATTACHING", "QUEUED"}
    BY <1>4, RecordsAre DEF SetParent, history
<1>6. \A s \in Slot : slot[s] # p
    BY <1>1, AttachFacts DEF WhileAttaching
<1>7. InOwnSlot(p)' /\ HoldsOnce(p)'
    BY <1>1, <1>5, <1>6, AttachFacts DEF InOwnSlot, HoldsOnce
<1>8. WhileAttaching(p, r)'
    BY <1>1, <1>4, <1>5, <1>6, AttachFacts DEF WhileAttaching, Has
<1>9. r.pc \notin Closing
    BY <1>4 DEF Closing
<1>. QED
    BY <1>1, <1>3, <1>4, <1>7, <1>8, <1>9, AttachFacts, OwnStep

LEMMA SetSlotOwn ==
    ASSUME Base, NEW p \in Channel, ChannelOK(p), NEW t \in Thread, th[t].ch = p, SetSlot(t)
    PROVE  ChannelOK(p)'
<1>1. th[t].pc = "slot" /\ th[t].pc \in Attaching
    BY DEF SetSlot, At, Attaching
<1>2. PICK r : r = [th[t] EXCEPT !.pc = "attached"]
    OBVIOUS
<1>3. th' = [th EXCEPT ![t] = r]
    BY <1>2, RecordsAre DEF SetSlot, Goto
<1>4. r.pc = "attached" /\ r.ch = p /\ r.slot = th[t].slot /\ r.to = th[t].to
    BY <1>1, <1>2, AttachFacts, Fields
<1>5. /\ UNCHANGED <<flags, parent, index, holds>>
      /\ \A s \in Slot : slot'[s] = p => slot[s] = p \/ s = th[t].slot
    BY RecordsAre DEF SetSlot, history
<1>6. \A s \in Slot : slot'[s] = p => s = th[t].slot
    BY <1>1, <1>5, AttachFacts DEF WhileAttaching
<1>7. parent[p] = th[t].slot[1] /\ index[p] = th[t].slot[2]
    BY <1>1, AttachFacts DEF WhileAttaching
<1>8. InOwnSlot(p)' /\ HoldsOnce(p)'
    BY <1>1, <1>5, <1>6, <1>7, AttachFacts DEF InOwnSlot, HoldsOnce
<1>9. WhileAttaching(p, r)'
    BY <1>1, <1>4, <1>5, <1>6, AttachFacts DEF WhileAttaching, Has
<1>10. r.pc \notin Closing
    BY <1>4 DEF Closing
<1>. QED
    BY <1>1, <1>3, <1>4, <1>8, <1>9, <1>10, AttachFacts, OwnStep

LEMMA SetAttachedOwn ==
    ASSUME Base, NEW p \in Channel, ChannelOK(p), NEW t \in Thread, th[t].ch = p, SetAttached(t)
    PROVE  ChannelOK(p)'
<1>1. th[t].pc = "attached" /\ th[t].pc \in Attaching
    BY DEF SetAttached, At, Attaching
<1>2. PICK r : r = Idle
    OBVIOUS
<1>3. th' = [th EXCEPT ![t] = r] /\ r.ch # p
    BY <1>2, RecordsAre, IdleFacts DEF SetAttached
<1>4. UNCHANGED <<slot, parent, index, holds>> /\ flags'[p] = flags[p] \cup {"ATTACHED"}
    BY RecordsAre DEF SetAttached, history
<1>5. InOwnSlot(p)' /\ HoldsOnce(p)'
    BY <1>1, <1>4, AttachFacts DEF InOwnSlot, HoldsOnce
<1>6. Has(p, "OPEN")' /\ Settled(p)'
    BY <1>1, <1>4, AttachFacts DEF WhileAttaching, Has, Settled
<1>7. \A d \in Device : holds[p][d] # 0 => parent[p] = d
    BY <1>1, AttachFacts DEF WhileAttaching
<1>8. WhileIdle(p)'
    BY <1>4, <1>6, <1>7 DEF WhileIdle
<1>. QED
    BY <1>1, <1>3, <1>5, <1>8, AttachFacts, OwnStep

LEMMA AttachChannel ==
    ASSUME Base, NEW p \in Channel, ChannelOK(p), NEW t \in Thread, Attach(t)
    PROVE  ChannelOK(p)'
<1>1. CASE th[t].ch = p
    BY <1>1, CheckOwn, OpenDeviceOwn, SetParentOwn, SetSlotOwn, SetAttachedOwn DEF Attach
<1>2. CASE th[t].ch # p
    <2>1. PICK r : th' = [th EXCEPT ![t] = r] /\ AttachingStep(t, r)
        BY AttachIs
    <2>2. r.ch # p /\ ~r.force
        BY <1>2, <2>1, RecordsAre, IdleFacts DEF AttachingStep
    <2>3. Aside(p) /\ leaving' = leaving /\ ~At(t, "emptied")
        BY <1>2, AttachAside, AttachIs
           DEF Attach, Check, OpenDevice, SetParent, SetSlot, SetAttached, detach, At, Attaching
    <2>. QED
        BY <1>2, <2>1, <2>2, <2>3, AsideStep
<1>. QED
    BY <1>1, <1>2

\* A thread begins to work for a channel that nobody works for.
LEMMA Begins ==
    ASSUME Base, NEW p \in Channel, p \notin crossed', Crosses(p)
    PROVE  Nobody(p)
BY NotBusy DEF Crosses

LEMMA MatchChannel ==
    ASSUME Base, NEW p \in Channel, ChannelOK(p), p \notin crossed',
           NEW q \in Channel, NEW s \in Slot, Match(q, s)
    PROVE  ChannelOK(p)'
<1>1. PICK r : r = [Idle EXCEPT !.pc = "check", !.ch = q, !.to = s[1], !.slot = s]
    OBVIOUS
<1>2. th' = [th EXCEPT ![Central] = r]
    BY <1>1 DEF Match, StartsAttach
<1>3. r.pc = "check" /\ r.ch = q /\ ~r.force /\ r.slot = s
    BY <1>1 DEF Idle
<1>4. th[Central] = Idle /\ leaving = None /\ UNCHANGED <<slot, flags, parent, index, holds, leaving>>
    BY RecordsAre, ThreadNames DEF Match, At, RecordOK, channels, detach
<1>5. CASE p # q
    <2>1. Aside(p)
        BY <1>4 DEF Aside
    <2>. QED
        BY <1>2, <1>3, <1>4, <1>5, <2>1, AsideStep, ThreadNames, IdleFacts, RecordsAre DEF At
<1>6. CASE p = q
    <2>1. Nobody(p)
        BY <1>6, Begins DEF Match, StartsAttach
    <2>2. WhileIdle(p) /\ InOwnSlot(p) /\ HoldsOnce(p)
        BY <2>1 DEF ChannelOK
    <2>3. Has(p, "OPEN") /\ ~Has(p, "ATTACHED") /\ ~Has(p, "DETACHING")
        BY <1>6 DEF Match
    <2>4. /\ \A x \in Slot : slot[x] # p
          /\ \A d \in Device : holds[p][d] = 0
        BY <1>4, <2>2, <2>3, IdleFacts, RecordsAre DEF WhileIdle, Settled, EmptiedAt, At, Detaching
    <2>5. WhileAttaching(p, r)'
        BY <1>3, <1>4, <2>3, <2>4 DEF WhileAttaching, Has
    <2>6. InOwnSlot(p)' /\ HoldsOnce(p)'
        BY <1>4, <2>2 DEF InOwnSlot, HoldsOnce
    <2>7. r.pc \notin Closing /\ \A u \in Thread : th[u].ch # p
        BY <1>3, <2>1 DEF Closing, Nobody
    <2>. QED
        BY <1>2, <1>3, <1>6, <2>5, <2>6, <2>7, OwnStep, ThreadNames
<1>. QED
    BY <1>5, <1>6

LEMMA ServerOpenChannel ==
    ASSUME Base, NEW p \in Channel, ChannelOK(p), p \notin crossed',
           NEW t \in Server, NEW q \in Channel, NEW s \in Slot, ServerOpen(t, q, s)
    PROVE  ChannelOK(p)'
<1>1. PICK r : r = [Idle EXCEPT !.pc = "check", !.ch = q, !.to = s[1], !.slot = s]
    OBVIOUS
<1>2. th' = [th EXCEPT ![t] = r]
    BY <1>1 DEF ServerOpen, StartsAttach
<1>3. r.pc = "check" /\ r.ch = q /\ ~r.force /\ r.slot = s
    BY <1>1 DEF Idle
<1>4. /\ th[t] = Idle /\ leaving = None /\ UNCHANGED <<slot, index, holds, leaving>>
      /\ flags' = [flags EXCEPT ![q] = @ \cup {"OPEN"}]
      /\ parent' = parent \/ parent' = [parent EXCEPT ![q] = None]
    BY RecordsAre, ThreadNames DEF ServerOpen, At, RecordOK, detach
<1>5. CASE p # q
    <2>1. Aside(p)
        BY <1>4, <1>5, RecordsAre DEF Aside
    <2>. QED
        BY <1>2, <1>3, <1>4, <1>5, <2>1, AsideStep, ThreadNames, IdleFacts, RecordsAre DEF At
<1>6. CASE p = q
    <2>1. Nobody(p)
        BY <1>6, Begins DEF ServerOpen, StartsAttach
    <2>2. WhileIdle(p) /\ HoldsOnce(p)
        BY <2>1 DEF ChannelOK
    <2>3. ~Has(p, "OPEN") /\ flags[p] = {}
        BY <1>6, <2>2 DEF ServerOpen, Has, WhileIdle
    <2>4. /\ \A x \in Slot : slot[x] # p
          /\ \A d \in Device : holds[p][d] = 0
        BY <2>2, <2>3 DEF WhileIdle
    <2>5. flags'[p] = {"OPEN"}
        BY <1>4, <1>6, <2>3, RecordsAre
    <2>6. WhileAttaching(p, r)'
        BY <1>3, <1>4, <2>4, <2>5 DEF WhileAttaching, Has
    <2>7. InOwnSlot(p)' /\ HoldsOnce(p)'
        BY <1>4, <2>2, <2>4 DEF InOwnSlot, HoldsOnce
    <2>8. r.pc \notin Closing /\ \A u \in Thread : th[u].ch # p
        BY <1>3, <2>1 DEF Closing, Nobody
    <2>. QED
        BY <1>2, <1>3, <1>6, <2>6, <2>7, <2>8, OwnStep, ThreadNames
<1>. QED
    BY <1>5, <1>6

-----------------------------------------------------------------------------
(* Channels: flags.                                                          *)

LEMMA AttachDoneChannel ==
    ASSUME Base, NEW p \in Channel, ChannelOK(p), NEW q \in Channel, AttachDone(q)
    PROVE  ChannelOK(p)'
<1>1. UNCHANGED <<th, slot, parent, index, holds, leaving>>
    BY DEF AttachDone, detach, history
<1>2. flags'[p] = IF p = q THEN flags[p] \ {"ATTACHING", "QUEUED"} ELSE flags[p]
    BY RecordsAre DEF AttachDone
<1>3. p = q => Has(p, "ATTACHED")
    BY DEF AttachDone, AttachEvent, Has
<1>4. ASSUME NEW t \in Thread, th[t].ch = p, th[t].pc \in Attaching
      PROVE  WhileAttaching(p, th[t])'
    BY <1>1, <1>2, <1>3, <1>4 DEF ChannelOK, WhileAttaching, Has
<1>5. ASSUME NEW t \in Thread, th[t].ch = p, th[t].pc \in Closing
      PROVE  WhileClosing(p, t, th[t])'
    BY <1>1, <1>2, <1>5 DEF ChannelOK, WhileClosing, Has
<1>6. ASSUME Nobody(p) PROVE WhileIdle(p)'
    BY <1>1, <1>2, <1>6 DEF ChannelOK, WhileIdle, Has, Settled, EmptiedAt, At, Detaching
<1>. QED
    BY <1>1, <1>4, <1>5, <1>6, FlagStep

LEMMA DetachDoneChannel ==
    ASSUME Base, NEW p \in Channel, ChannelOK(p), NEW q \in Channel, DetachDone(q)
    PROVE  ChannelOK(p)'
<1>1. UNCHANGED <<th, slot, parent, index, holds, leaving>>
    BY DEF DetachDone, detach, history
<1>2. flags'[p] = IF p = q THEN flags[p] \ {"ATTACHED", "DETACHING"} ELSE flags[p]
    BY RecordsAre DEF DetachDone
<1>3. p = q => Has(p, "DETACHING")
    BY DEF DetachDone
<1>4. ASSUME NEW t \in Thread, th[t].ch = p, th[t].pc \in Attaching
      PROVE  WhileAttaching(p, th[t])'
    BY <1>1, <1>2, <1>3, <1>4 DEF ChannelOK, WhileAttaching, Has
<1>5. ASSUME NEW t \in Thread, th[t].ch = p, th[t].pc \in Closing
      PROVE  WhileClosing(p, t, th[t])'
    BY <1>1, <1>2, <1>5 DEF ChannelOK, WhileClosing, Has
<1>6. ASSUME Nobody(p) PROVE WhileIdle(p)'
    BY <1>1, <1>2, <1>3, <1>6 DEF ChannelOK, WhileIdle, Has, Settled, EmptiedAt, At, Detaching
<1>. QED
    BY <1>1, <1>4, <1>5, <1>6, FlagStep

LEMMA UserOpenChannel ==
    ASSUME Base, NEW p \in Channel, ChannelOK(p), NEW q \in Channel, UserOpen(q)
    PROVE  ChannelOK(p)'
<1>1. UNCHANGED <<th, slot, parent, index, holds, leaving>>
    BY DEF UserOpen, detach, history
<1>2. flags'[p] = IF p = q THEN (flags[p] \cup {"OPEN"}) \ {"ATTACHED"} ELSE flags[p]
    BY RecordsAre DEF UserOpen
<1>3. p = q => ~Has(p, "OPEN")
    BY DEF UserOpen
<1>4. ASSUME NEW t \in Thread, th[t].ch = p, th[t].pc \in Attaching
      PROVE  WhileAttaching(p, th[t])'
    BY <1>1, <1>2, <1>3, <1>4 DEF ChannelOK, WhileAttaching, Has
<1>5. ASSUME NEW t \in Thread, th[t].ch = p, th[t].pc \in Closing
      PROVE  WhileClosing(p, t, th[t])'
    BY <1>1, <1>2, <1>5 DEF ChannelOK, WhileClosing, Has
<1>6. ASSUME Nobody(p) PROVE WhileIdle(p)'
    BY <1>1, <1>2, <1>3, <1>6 DEF ChannelOK, WhileIdle, Has, Settled, EmptiedAt, At, Detaching
<1>. QED
    BY <1>1, <1>4, <1>5, <1>6, FlagStep

-----------------------------------------------------------------------------
(* Channels: the close begins.                                               *)

\* Thread t begins to give back what channel q has.
LEMMA CloseBegins ==
    ASSUME Base, NEW p \in Channel, ChannelOK(p), p \notin crossed',
           NEW q \in Channel, NEW t \in Thread, At(t, "idle"), Crosses(q),
           NEW r, th' = [th EXCEPT ![t] = r], r.pc = "getparent", r.ch = q, ~r.force,
           UNCHANGED <<slot, parent, index, holds, leaving>>,
           \A c \in Channel : c # q => flags'[c] = flags[c],
           GivesBackSlot(t) => "ATTACHED" \notin flags'[q]
    PROVE  ChannelOK(p)'
<1>1. th[t] = Idle
    BY RecordsAre DEF At, RecordOK
<1>2. CASE p # q
    <2>1. Aside(p)
        BY <1>2 DEF Aside
    <2>. QED
        BY <1>1, <1>2, <2>1, AsideStep, IdleFacts, RecordsAre DEF At
<1>3. CASE p = q
    <2>1. Nobody(p)
        BY <1>3, Begins
    <2>2. WhileIdle(p) /\ InOwnSlot(p) /\ HoldsOnce(p)
        BY <2>1 DEF ChannelOK
    <2>3. InOwnSlot(p)' /\ HoldsOnce(p)'
        BY <2>2 DEF InOwnSlot, HoldsOnce
    <2>4. WhileClosing(p, t, r)'
        BY <1>3, <2>2 DEF WhileClosing, WhileIdle, Has
    <2>5. r.pc \notin Attaching /\ \A u \in Thread : th[u].ch # p
        BY <2>1 DEF Attaching, Nobody
    <2>. QED
        BY <1>3, <2>3, <2>4, <2>5, OwnStep
<1>. QED
    BY <1>2, <1>3

LEMMA AttachFailsChannel ==
    ASSUME Base, NEW p \in Channel, ChannelOK(p), p \notin crossed', NEW q \in Channel, AttachFails(q)
    PROVE  ChannelOK(p)'
<1>1. PICK r : r = [Idle EXCEPT !.pc = "getparent", !.ch = q]
    OBVIOUS
<1>2. r.pc = "getparent" /\ r.ch = q /\ ~r.force
    BY <1>1 DEF Idle
<1>3. /\ th' = [th EXCEPT ![<<q, "dispatcher">>] = r] /\ Crosses(q)
      /\ UNCHANGED <<slot, parent, index, holds, leaving>>
      /\ flags' = [flags EXCEPT ![q] = @ \ {"ATTACHED", "ATTACHING", "QUEUED"}]
      /\ At(<<q, "dispatcher">>, "idle")
    BY <1>1 DEF AttachFails, AttachEvent, detach
<1>4. "ATTACHED" \notin flags'[q] /\ \A c \in Channel : c # q => flags'[c] = flags[c]
    BY <1>3, RecordsAre
<1>. QED
    BY <1>2, <1>3, <1>4, CloseBegins, ThreadNames

LEMMA UserCloseChannel ==
    ASSUME Base, NEW p \in Channel, ChannelOK(p), p \notin crossed', NEW q \in Channel, UserClose(q)
    PROVE  ChannelOK(p)'
<1>1. PICK r : r = [Idle EXCEPT !.pc = "getparent", !.ch = q]
    OBVIOUS
<1>2. r.pc = "getparent" /\ r.ch = q /\ ~r.force
    BY <1>1 DEF Idle
<1>3. /\ th' = [th EXCEPT ![<<q, "user">>] = r] /\ Crosses(q)
      /\ UNCHANGED <<slot, parent, index, holds, leaving>>
      /\ flags' = [flags EXCEPT ![q] = flags[q] \ {"OPEN"}]
      /\ At(<<q, "user">>, "idle")
    BY <1>1 DEF UserClose, ClosesChannel, detach
<1>4. \A c \in Channel : c # q => flags'[c] = flags[c]
    BY <1>3, RecordsAre
<1>. QED
    BY <1>2, <1>3, <1>4, CloseBegins, ThreadNames

LEMMA ServerCloseChannel ==
    ASSUME Base, NEW p \in Channel, ChannelOK(p), p \notin crossed',
           NEW t \in Server, NEW s \in Slot, ServerClose(t, s)
    PROVE  ChannelOK(p)'
<1>1. PICK q : q = slot[s]
    OBVIOUS
<1>2. PICK r : r = [Idle EXCEPT !.pc = "getparent", !.ch = q]
    OBVIOUS
<1>3. r.pc = "getparent" /\ r.ch = q /\ ~r.force
    BY <1>2 DEF Idle
<1>4. q \in Channel
    BY <1>1, ConstantsAssumption DEF ServerClose
<1>5. /\ th' = [th EXCEPT ![t] = r] /\ Crosses(q)
      /\ UNCHANGED <<slot, parent, index, holds, leaving>>
      /\ flags' = [flags EXCEPT ![q] = flags[q] \ {"OPEN"}]
      /\ At(t, "idle")
    BY <1>1, <1>2 DEF ServerClose, ClosesChannel, detach
<1>6. \A c \in Channel : c # q => flags'[c] = flags[c]
    BY <1>5, RecordsAre
<1>. QED
    BY <1>3, <1>4, <1>5, <1>6, CloseBegins, ThreadNames

-----------------------------------------------------------------------------
(* Channels: the close goes on.                                              *)

LEMMA CloseFacts ==
    ASSUME Base, NEW p \in Channel, ChannelOK(p), NEW t \in Thread, th[t].ch = p,
           th[t].pc \in Closing
    PROVE  /\ \A u \in Thread : th[u].ch = p => u = t
           /\ WhileClosing(p, t, th[t])
           /\ InOwnSlot(p) /\ HoldsOnce(p)
           /\ th[t] \in ThreadState /\ ~th[t].force
BY RecordsAre, WorkIs DEF ChannelOK, OneThread

\* A thread that has nothing of its channel any more rests.
LEMMA CloseEnds ==
    ASSUME Base, NEW p \in Channel, ChannelOK(p), NEW t \in Thread, th[t].ch = p,
           th[t].pc \in Closing, NEW r, th' = [th EXCEPT ![t] = r], r.ch # p,
           UNCHANGED <<parent, index, holds>>,
           \A s \in Slot : slot'[s] # p,
           \A d \in Device : holds[p][d] = 0
    PROVE  ChannelOK(p)'
<1>1. InOwnSlot(p)' /\ HoldsOnce(p)' /\ WhileIdle(p)'
    BY DEF InOwnSlot, HoldsOnce, WhileIdle
<1>. QED
    BY <1>1, CloseFacts, OwnStep

\* A thread that has given back the slot of its channel, or found it in none.
LEMMA CloseFinishes ==
    ASSUME Base, NEW p \in Channel, ChannelOK(p), NEW t \in Thread, th[t].ch = p,
           th[t].pc \in Closing,
           th' = (IF GivesBackSlot(t) THEN [th EXCEPT ![t] = Idle]
                                      ELSE [th EXCEPT ![t].pc = "finish"]),
           UNCHANGED <<flags, parent, index, holds>>,
           \A s \in Slot : slot'[s] # p,
           \A d \in Device : holds[p][d] = 0
    PROVE  ChannelOK(p)'
<1>1. CASE GivesBackSlot(t)
    <2>1. PICK r : r = Idle
        OBVIOUS
    <2>2. th' = [th EXCEPT ![t] = r] /\ r.ch # p
        BY <1>1, <2>1, IdleFacts, RecordsAre
    <2>. QED
        BY <2>2, CloseEnds
<1>2. CASE ~GivesBackSlot(t)
    <2>1. PICK r : r = [th[t] EXCEPT !.pc = "finish"]
        OBVIOUS
    <2>2. th' = [th EXCEPT ![t] = r]
        BY <1>2, <2>1, RecordsAre
    <2>3. r.pc = "finish" /\ r.ch = p
        BY <2>1, RecordsAre, Fields
    <2>4. WhileClosing(p, t, r)' /\ InOwnSlot(p)' /\ HoldsOnce(p)'
        BY <1>2 DEF WhileClosing, InOwnSlot, HoldsOnce
    <2>5. r.pc \notin Attaching
        BY <2>3 DEF Attaching
    <2>6. \A u \in Thread : th[u].ch = p => u = t
        BY CloseFacts
    <2>. QED
        BY <2>2, <2>3, <2>4, <2>5, <2>6, OwnStep
<1>. QED
    BY <1>1, <1>2

LEMMA GetParentOwn ==
    ASSUME Base, NEW p \in Channel, ChannelOK(p), NEW t \in Thread, th[t].ch = p, GetParent(t)
    PROVE  ChannelOK(p)'
<1>1. th[t].pc = "getparent" /\ th[t].pc \in Closing
    BY DEF GetParent, At, Closing
<1>2. UNCHANGED <<slot, flags, parent, index>>
    BY DEF GetParent, channels
<1>3. \A d \in Device : holds[p][d] # 0 => parent[p] = d
    BY <1>1, CloseFacts DEF WhileClosing
<1>4. CASE ~HasDevice(p)
    <2>1. \A d \in Device : holds[p][d] = 0
        BY <1>3, <1>4, RecordsAre DEF HasDevice
    <2>2. \A s \in Slot : slot[s] # p
        BY <1>1, <1>4, CloseFacts, RecordsAre DEF HasDevice, InOwnSlot, Slot
    <2>. QED
        BY <1>1, <1>2, <1>4, <2>1, <2>2, CloseFinishes DEF GetParent
<1>5. CASE HasDevice(p)
    <2>1. PICK d, owed : d = parent[p]
                /\ th' = [th EXCEPT ![t].pc = "close", ![t].ch = p, ![t].to = d, ![t].at = d,
                                    ![t].force = FALSE, ![t].owed = owed]
        BY <1>5 DEF GetParent, StartsClose
    <2>2. PICK r : r = [th[t] EXCEPT !.pc = "close", !.ch = p, !.to = d, !.at = d,
                                     !.force = FALSE, !.owed = owed]
        OBVIOUS
    <2>3. th' = [th EXCEPT ![t] = r]
        BY <2>1, <2>2, RecordsAre
    <2>4. r.pc = "close" /\ r.ch = p /\ r.to = d
        BY <2>2, RecordsAre, Fields
    <2>5. d \in Device
        BY <1>5, <2>1, RecordsAre DEF HasDevice
    <2>6. holds' = IF holds[p][d] > 0 THEN [holds EXCEPT ![p][d] = @ - 1] ELSE holds
        BY <1>5, <2>1 DEF GetParent
    <2>7. \A c \in Device : holds'[p][c] = 0
        <3>1. holds[p][d] \in {0, 1} /\ \A c \in Device : c # d => holds[p][c] = 0
            BY <1>1, <1>3, <2>1, <2>5, CloseFacts DEF HoldsOnce
        <3>2. CASE holds[p][d] = 0
            BY <2>6, <3>1, <3>2
        <3>3. CASE holds[p][d] = 1
            BY <2>5, <2>6, <3>1, <3>3, RecordsAre
        <3>. QED
            BY <3>1, <3>2, <3>3
    <2>8. InOwnSlot(p)' /\ HoldsOnce(p)'
        BY <1>1, <1>2, <2>7, CloseFacts DEF InOwnSlot, HoldsOnce
    <2>9. WhileClosing(p, t, r)'
        BY <1>1, <1>2, <2>1, <2>4, <2>7, CloseFacts DEF WhileClosing, Has, InOwnSlot
    <2>10. r.pc \notin Attaching
        BY <2>4 DEF Attaching
    <2>. QED
        BY <1>1, <2>3, <2>4, <2>8, <2>9, <2>10, CloseFacts, OwnStep
<1>. QED
    BY <1>4, <1>5

LEMMA CloserOfChannel ==
    ASSUME Base, NEW t \in Thread, CloseDevice(t) \/ CloseDeviceBack(t), ~th[t].force
    PROVE  \E r : /\ th' = [th EXCEPT ![t] = r]
                  /\ r.pc \in {"close", "back", "unslot"} /\ r.ch = th[t].ch /\ r.to = th[t].to
<1>1. th[t] \in ThreadState
    BY RecordsAre
<1>2. ASSUME NEW v, NEW d, v \in {"close", "back", "unslot"}, th' = [th EXCEPT ![t].pc = v, ![t].at = d]
      PROVE  \E r : /\ th' = [th EXCEPT ![t] = r]
                    /\ r.pc \in {"close", "back", "unslot"} /\ r.ch = th[t].ch /\ r.to = th[t].to
    <2>1. PICK r : r = [th[t] EXCEPT !.pc = v, !.at = d]
        OBVIOUS
    <2>2. th' = [th EXCEPT ![t] = r]
        BY <1>2, <2>1, RecordsAre
    <2>3. r.pc = v /\ r.ch = th[t].ch /\ r.to = th[t].to
        BY <1>1, <2>1, Fields
    <2>4. r.pc \in {"close", "back", "unslot"}
        BY <1>2, <2>3
    <2>. QED
        BY <2>2, <2>3, <2>4
<1>3. ASSUME NEW d, Returns(t, d)
      PROVE  \E r : /\ th' = [th EXCEPT ![t] = r]
                    /\ r.pc \in {"close", "back", "unslot"} /\ r.ch = th[t].ch /\ r.to = th[t].to
    <2>1. PICK v : v = CASE d # th[t].to -> "back"
                         [] d = th[t].to /\ th[t].force -> "gone"
                         [] OTHER -> "unslot"
        OBVIOUS
    <2>2. v \in {"close", "back", "unslot"}
        BY <2>1
    <2>3. PICK r : r = [th[t] EXCEPT !.pc = v, !.at = th[t].to]
        OBVIOUS
    <2>4. th' = [th EXCEPT ![t] = r]
        BY <1>3, <2>1, <2>3, RecordsAre DEF Returns
    <2>5. r.pc = v /\ r.ch = th[t].ch /\ r.to = th[t].to
        BY <1>1, <2>3, Fields
    <2>. QED
        BY <2>2, <2>4, <2>5
<1>4. CASE CloseDevice(t)
    <2>1. CASE th' = [th EXCEPT ![t].at = Parent[th[t].at]]
        <3>1. PICK r : r = [th[t] EXCEPT !.at = Parent[th[t].at]]
            OBVIOUS
        <3>2. th' = [th EXCEPT ![t] = r]
            BY <2>1, <3>1, RecordsAre
        <3>3. r.pc = th[t].pc /\ r.ch = th[t].ch /\ r.to = th[t].to
            BY <1>1, <3>1, Fields
        <3>. QED
            BY <1>4, <3>2, <3>3 DEF CloseDevice, At
    <2>. QED
        BY <1>3, <1>4, <2>1 DEF CloseDevice
<1>5. CASE CloseDeviceBack(t)
    <2>1. \/ Returns(t, th[t].at)
          \/ th' = [th EXCEPT ![t].pc = "close", ![t].at = Parent[th[t].at]]
        BY <1>5 DEF CloseDeviceBack
    <2>. QED
        BY <1>2, <1>3, <2>1
<1>. QED
    BY <1>4, <1>5

LEMMA CloserOwn ==
    ASSUME Base, NEW p \in Channel, ChannelOK(p), NEW t \in Thread, th[t].ch = p,
           CloseDevice(t) \/ CloseDeviceBack(t)
    PROVE  ChannelOK(p)'
<1>1. th[t].pc \in {"close", "back"} /\ th[t].pc \in Closing
    BY DEF CloseDevice, CloseDeviceBack, At, Closing
<1>2. PICK r : /\ th' = [th EXCEPT ![t] = r]
               /\ r.pc \in {"close", "back", "unslot"} /\ r.ch = p /\ r.to = th[t].to
    BY <1>1, CloseFacts, CloserOfChannel
<1>3. UNCHANGED <<slot, flags, parent, index, holds>>
    BY DEF CloseDevice, CloseDeviceBack, channels
<1>4. InOwnSlot(p)' /\ HoldsOnce(p)'
    BY <1>1, <1>3, CloseFacts DEF InOwnSlot, HoldsOnce
<1>5. WhileClosing(p, t, r)'
    BY <1>1, <1>2, <1>3, CloseFacts DEF WhileClosing, Has
<1>6. r.pc \notin Attaching
    BY <1>2 DEF Attaching
<1>. QED
    BY <1>1, <1>2, <1>4, <1>5, <1>6, CloseFacts, OwnStep

LEMMA UnslotOwn ==
    ASSUME Base, NEW p \in Channel, ChannelOK(p), NEW t \in Thread, th[t].ch = p, Unslot(t)
    PROVE  ChannelOK(p)'
<1>1. th[t].pc = "unslot" /\ th[t].pc \in Closing
    BY DEF Unslot, At, Closing
<1>2. /\ UNCHANGED <<flags, parent, index, holds>>
      /\ slot' = [slot EXCEPT ![<<th[t].to, index[p]>>] = None]
    BY DEF Unslot
<1>3. \A d \in Device : holds[p][d] = 0
    BY <1>1, CloseFacts DEF WhileClosing
<1>4. ASSUME NEW s \in Slot PROVE slot'[s] # p
    <2>1. CASE slot[s] = p
        <3>1. s[1] = th[t].to /\ s[2] = index[p]
            BY <1>1, <2>1, CloseFacts DEF WhileClosing, InOwnSlot
        <3>2. s = <<th[t].to, index[p]>>
            BY <3>1 DEF Slot
        <3>. QED
            BY <1>2, <3>2, RecordsAre
    <2>2. CASE slot[s] # p
        BY <1>2, <2>2, RecordsAre
    <2>. QED
        BY <2>1, <2>2
<1>. QED
    BY <1>1, <1>2, <1>3, <1>4, CloseFinishes DEF Unslot

LEMMA FinishOwn ==
    ASSUME Base, NEW p \in Channel, ChannelOK(p), NEW t \in Thread, th[t].ch = p, Finish(t)
    PROVE  ChannelOK(p)'
<1>1. th[t].pc = "finish" /\ th[t].pc \in Closing
    BY DEF Finish, At, Closing
<1>2. /\ \A s \in Slot : slot[s] # p
      /\ \A d \in Device : holds[p][d] = 0
    BY <1>1, CloseFacts DEF WhileClosing
<1>3. PICK r : r = Ended(t)
    OBVIOUS
<1>4. r.ch = None
    BY <1>3, IdleFacts DEF Ended, Idle
<1>5. th' = [th EXCEPT ![t] = r] /\ r.ch # p
    BY <1>3, <1>4, RecordsAre DEF Finish
<1>6. UNCHANGED <<slot, parent, index, holds>>
    BY DEF Finish, history
<1>. QED
    BY <1>1, <1>2, <1>5, <1>6, CloseEnds

LEMMA GiveBackChannel ==
    ASSUME Base, NEW p \in Channel, ChannelOK(p), NEW t \in Thread, GiveBack(t)
    PROVE  ChannelOK(p)'
<1>1. CASE th[t].ch = p
    BY <1>1, GetParentOwn, CloserOwn, UnslotOwn, FinishOwn DEF GiveBack
<1>2. CASE th[t].ch # p
    <2>1. PICK r : th' = [th EXCEPT ![t] = r] /\ ClosingStep(t, r)
        BY GiveBackIs
    <2>2. r.ch # p /\ (r.force => th[t].force)
        BY <1>2, <2>1, RecordsAre, IdleFacts DEF ClosingStep
    <2>3. Aside(p) /\ leaving' = leaving
        BY <1>2, GiveBackAside
           DEF GiveBack, GetParent, CloseDevice, CloseDeviceBack, Unslot, Finish, detach
    <2>4. ~At(t, "emptied")
        BY GiveBackIs DEF At, Closing
    <2>. QED
        BY <1>2, <2>1, <2>2, <2>3, <2>4, AsideStep
<1>. QED
    BY <1>1, <1>2

-----------------------------------------------------------------------------
(* Channels: a device detaches.                                              *)

LEMMA DetachOfDevice ==
    ASSUME Base, NEW p \in Channel, ChannelOK(p), NEW d \in Device, Detach(d)
    PROVE  ChannelOK(p)'
<1>1. UNCHANGED <<th, slot, flags, parent, index, holds>> /\ leaving = None
    BY DEF Detach, channels, history
<1>2. Aside(p) /\ \A c \in Device : ~Detaching(c)
    BY <1>1, RecordsAre DEF Aside, Detaching
<1>. QED
    BY <1>1, <1>2, AsideOK DEF EmptiedAt, At

LEMMA DetachChannelChannel ==
    ASSUME Base, NEW p \in Channel, ChannelOK(p), p \notin crossed', NEW s \in Slot, DetachChannel(s)
    PROVE  ChannelOK(p)'
<1>1. PICK q : q = slot[s]
    OBVIOUS
<1>2. /\ q \in Channel /\ ~Has(q, "ATTACHING") /\ At(Central, "idle") /\ th[Central] = Idle
      /\ UNCHANGED <<slot, parent, index, holds, leaving>>
      /\ leaving = s[1] /\ ~th[Central].force
    BY <1>1, RecordsAre, ThreadNames, IdleFacts DEF Base, Records, DetachChannel, detach, At, RecordOK
<1>3. ASSUME NEW f, flags' = [flags EXCEPT ![q] = f]
      PROVE  \A c \in Channel : flags'[c] = IF c = q THEN f ELSE flags[c]
    BY <1>2, <1>3, RecordsAre
<1>4. CASE th' = [th EXCEPT ![Central] = [Idle EXCEPT !.pc = "getparent", !.ch = q, !.slot = s]]
           /\ Crosses(q) /\ \E f : flags' = [flags EXCEPT ![q] = f]
    <2>1. PICK r : r = [Idle EXCEPT !.pc = "getparent", !.ch = q, !.slot = s]
        OBVIOUS
    <2>2. r.pc = "getparent" /\ r.ch = q /\ ~r.force
        BY <2>1 DEF Idle
    <2>3. \A c \in Channel : c # q => flags'[c] = flags[c]
        BY <1>3, <1>4
    <2>. QED
        BY <1>2, <1>4, <2>1, <2>2, <2>3, CloseBegins, ThreadNames
<1>5. CASE /\ th' = [th EXCEPT ![Central] = [Idle EXCEPT !.pc = "emptied", !.slot = s]]
           /\ flags' = [flags EXCEPT ![q] = IF Has(q, "ATTACHED") THEN flags[q] \cup {"DETACHING"}
                                                                 ELSE flags[q] \ {"QUEUED"}]
    <2>1. PICK r : r = [Idle EXCEPT !.pc = "emptied", !.slot = s]
        OBVIOUS
    <2>2. r.pc = "emptied" /\ r.ch = None /\ ~r.force /\ r.slot = s
        BY <2>1 DEF Idle
    <2>3. th' = [th EXCEPT ![Central] = r] /\ EmptiedAt(s)' /\ ~th'[Central].force
        BY <1>5, <2>1, <2>2, RecordsAre, ThreadNames DEF EmptiedAt, At
    <2>4. CASE p # q
        <3>1. Aside(p)
            BY <1>2, <1>3, <1>5, <2>4 DEF Aside
        <3>. QED
            BY <1>2, <2>2, <2>3, <2>4, <3>1, AsideStep, ThreadNames, RecordsAre, IdleFacts DEF At
    <2>5. CASE p = q
        <3>1. /\ flags'[p] \ {"DETACHING", "QUEUED"} = flags[p] \ {"DETACHING", "QUEUED"}
              /\ "DETACHING" \in flags'[p] \/ "ATTACHED" \notin flags'[p]
            <4>1. PICK f : f = IF Has(q, "ATTACHED") THEN flags[q] \cup {"DETACHING"}
                                                   ELSE flags[q] \ {"QUEUED"}
                OBVIOUS
            <4>2. flags'[p] = f
                BY <1>2, <1>3, <1>5, <2>5, <4>1
            <4>3. CASE Has(q, "ATTACHED")
                BY <2>5, <4>1, <4>2, <4>3 DEF Has
            <4>4. CASE ~Has(q, "ATTACHED")
                BY <2>5, <4>1, <4>2, <4>4 DEF Has
            <4>. QED
                BY <4>3, <4>4
        <3>2. (Has(p, "OPEN")' <=> Has(p, "OPEN")) /\ (Has(p, "ATTACHED")' <=> Has(p, "ATTACHED"))
              /\ slot[s] = p
            BY <1>1, <2>5, <3>1 DEF Has
        <3>3. /\ OneThread(p)' /\ InOwnSlot(p)' /\ HoldsOnce(p)'
              /\ \A t \in Thread : th'[t].ch = p => th'[t] = th[t]
              /\ Nobody(p)' => Nobody(p)
            <4>1. \A t \in Thread : th'[t] = IF t = Central THEN r ELSE th[t]
                BY <2>3, RecordsAre
            <4>2. \A t \in Thread : th'[t].ch = p <=> th[t].ch = p
                BY <1>2, <2>2, <4>1, RecordsAre, IdleFacts
            <4>. QED
                BY <1>2, <2>2, <4>1, <4>2, RecordsAre
                   DEF ChannelOK, OneThread, InOwnSlot, HoldsOnce, Nobody
        <3>4. ASSUME NEW t \in Thread, th'[t].ch = p, th'[t].pc \in Attaching
              PROVE  WhileAttaching(p, th[t])'
            <4>1. th'[t] = th[t] /\ WhileAttaching(p, th[t])
                BY <3>3, <3>4 DEF ChannelOK
            <4>2. FALSE
                BY <1>2, <2>5, <3>2, <4>1 DEF WhileAttaching
            <4>. QED
                BY <4>2
        <3>5. ASSUME NEW t \in Thread, th'[t].ch = p, th'[t].pc \in Closing
              PROVE  WhileClosing(p, t, th[t])'
            <4>1. th'[t] = th[t] /\ WhileClosing(p, t, th[t])
                BY <3>3, <3>5 DEF ChannelOK
            <4>. QED
                BY <1>2, <3>2, <4>1 DEF WhileClosing
        <3>6. ASSUME Nobody(p)' PROVE WhileIdle(p)'
            <4>1. WhileIdle(p) /\ InOwnSlot(p)
                BY <3>3, <3>6 DEF ChannelOK
            <4>2. Has(p, "OPEN")' /\ parent[p] = s[1] /\ index[p] = s[2]
                BY <3>2, <4>1 DEF WhileIdle, InOwnSlot
            <4>3. \A x \in Slot : slot[x] = p => x = s
                BY <4>1, <4>2 DEF InOwnSlot, Slot
            <4>4. Detaching(s[1])'
                BY <1>2, <2>3 DEF Detaching
            <4>5. \A d \in Device : holds[p][d] # 0 => d = s[1]
                BY <4>1, <4>2 DEF WhileIdle
            <4>. QED
                BY <1>2, <2>3, <4>2, <4>3, <4>4, <4>5 DEF WhileIdle
        <3>. QED
            BY <3>3, <3>4, <3>5, <3>6 DEF ChannelOK
    <2>. QED
        BY <2>4, <2>5
<1>6. \/ /\ th' = [th EXCEPT ![Central] = [Idle EXCEPT !.pc = "getparent", !.ch = q, !.slot = s]]
         /\ Crosses(q) /\ \E f : flags' = [flags EXCEPT ![q] = f]
      \/ /\ th' = [th EXCEPT ![Central] = [Idle EXCEPT !.pc = "emptied", !.slot = s]]
         /\ flags' = [flags EXCEPT ![q] = IF Has(q, "ATTACHED") THEN flags[q] \cup {"DETACHING"}
                                                               ELSE flags[q] \ {"QUEUED"}]
    BY <1>1 DEF DetachChannel
<1>. QED
    BY <1>4, <1>5, <1>6

LEMMA DetachSlotChannel ==
    ASSUME Base, NEW p \in Channel, ChannelOK(p), DetachSlot
    PROVE  ChannelOK(p)'
<1>1. /\ At(Central, "emptied") /\ th' = [th EXCEPT ![Central] = Idle]
      /\ slot' = [slot EXCEPT ![th[Central].slot] = None]
      /\ UNCHANGED <<flags, parent, index, holds, leaving>>
    BY DEF DetachSlot, history
<1>2. /\ th[Central].ch = None /\ th'[Central] = Idle /\ ~th[Central].force
      /\ \A t \in Thread : t # Central => th'[t] = th[t]
    BY <1>1, RecordsAre, ThreadNames DEF RecordOK, At
<1>3. Aside(p)
    BY <1>1, RecordsAre DEF Aside
<1>4. \A s \in Slot : slot'[s] = p => ~EmptiedAt(s)
    BY <1>1, RecordsAre DEF EmptiedAt
<1>5. \A t \in Thread : th[t].ch = p \/ th'[t].ch = p => th'[t] = th[t]
    BY <1>2, RecordsAre, IdleFacts
<1>6. \A d \in Device : Detaching(d) => Detaching(d)'
    BY <1>1, <1>2, IdleFacts DEF Detaching
<1>. QED
    BY <1>3, <1>4, <1>5, <1>6, AsideOK

LEMMA DetachDeviceChannel ==
    ASSUME Base, NEW p \in Channel, ChannelOK(p), DetachDevice
    PROVE  ChannelOK(p)'
<1>1. PICK r : r = [th[Central] EXCEPT !.pc = "close", !.ch = None, !.to = leaving, !.at = leaving,
                      !.force = TRUE, !.owed = TRUE]
    OBVIOUS
<1>2. th' = [th EXCEPT ![Central] = r] /\ th[Central] = Idle
    BY <1>1, RecordsAre, ThreadNames DEF DetachDevice, StartsClose, At, RecordOK
<1>3. r.ch = None
    BY <1>1, RecordsAre, ThreadNames DEF ThreadState
<1>4. /\ UNCHANGED <<slot, flags, parent, index>>
      /\ holds' = [c \in Channel |-> [holds[c] EXCEPT ![leaving] = 0]]
    BY DEF DetachDevice, channels
<1>5. \A d \in Device : holds'[p][d] = IF d = leaving THEN 0 ELSE holds[p][d]
    BY <1>4, RecordsAre
<1>6. Aside(p) /\ \A d \in Device : Detaching(d) => holds'[p][d] = 0
    BY <1>4, <1>5 DEF Aside, Detaching
<1>7. \A t \in Thread : th[t].ch = p \/ th'[t].ch = p => th'[t] = th[t]
    BY <1>2, <1>3, RecordsAre, IdleFacts, ThreadNames
<1>8. \A s \in Slot : ~EmptiedAt(s)
    BY <1>2, IdleFacts DEF EmptiedAt, At
<1>. QED
    BY <1>6, <1>7, <1>8, AsideOK

LEMMA DetachEndsChannel ==
    ASSUME Base, NEW p \in Channel, ChannelOK(p), DetachEnds
    PROVE  ChannelOK(p)'
<1>1. /\ At(Central, "gone") /\ th' = [th EXCEPT ![Central] = Idle]
      /\ UNCHANGED <<slot, flags, parent, index, holds>>
    BY DEF DetachEnds, channels, history
<1>2. th[Central].force /\ th[Central].ch = None
    BY <1>1, RecordsAre, ThreadNames DEF RecordOK, At
<1>3. Aside(p) /\ \A d \in Device : ~Detaching(d)
    BY <1>1, <1>2 DEF Aside, Detaching
<1>4. \A t \in Thread : th[t].ch = p \/ th'[t].ch = p => th'[t] = th[t]
    BY <1>1, <1>2, RecordsAre, IdleFacts, ThreadNames
<1>5. \A s \in Slot : ~EmptiedAt(s)
    BY <1>1 DEF EmptiedAt, At
<1>. QED
    BY <1>3, <1>4, <1>5, AsideOK

-----------------------------------------------------------------------------
(* The invariant of channels is one of the specification.                    *)

LEMMA CrossedStays ==
    ASSUME Next
    PROVE  crossed \subseteq crossed'
<1>1. ASSUME NEW p, Crosses(p) PROVE crossed \subseteq crossed'
    BY <1>1 DEF Crosses
<1>2. CASE \E p \in Channel, s \in Slot : Match(p, s)
    BY <1>1, <1>2 DEF Match, StartsAttach
<1>3. CASE \E t \in Server, p \in Channel, s \in Slot : ServerOpen(t, p, s)
    BY <1>1, <1>3 DEF ServerOpen, StartsAttach
<1>4. CASE \E t \in Server, s \in Slot : ServerClose(t, s)
    <2>1. PICK t \in Server, s \in Slot : ServerClose(t, s)
        BY <1>4
    <2>2. Crosses(slot[s])
        BY <2>1 DEF ServerClose, ClosesChannel
    <2>. QED
        BY <2>2 DEF Crosses
<1>5. CASE \E p \in Channel : UserClose(p)
    BY <1>1, <1>5 DEF UserClose, ClosesChannel
<1>6. CASE \E p \in Channel : AttachFails(p)
    BY <1>1, <1>6 DEF AttachFails
<1>7. CASE \E t \in Thread : Attach(t)
    BY <1>7 DEF Attach, Check, OpenDevice, SetParent, SetSlot, SetAttached, history
<1>8. CASE \E t \in Thread : GiveBack(t)
    BY <1>8 DEF GiveBack, GetParent, CloseDevice, CloseDeviceBack, Unslot, Finish, history
<1>9. CASE \E p \in Channel : AttachDone(p) \/ DetachDone(p) \/ UserOpen(p)
    BY <1>9 DEF AttachDone, DetachDone, UserOpen, history
<1>10. CASE \E d \in Device : Detach(d)
    BY <1>10 DEF Detach, history
<1>11. CASE \E s \in Slot : DetachChannel(s)
    <2>1. PICK s \in Slot : DetachChannel(s)
        BY <1>11
    <2>2. Crosses(slot[s]) \/ crossed' = crossed
        BY <2>1 DEF DetachChannel
    <2>. QED
        BY <2>2 DEF Crosses
<1>12. CASE DetachSlot \/ DetachDevice \/ DetachEnds
    BY <1>12 DEF DetachSlot, DetachDevice, DetachEnds, history
<1>. QED
    BY <1>2, <1>3, <1>4, <1>5, <1>6, <1>7, <1>8, <1>9, <1>10, <1>11, <1>12 DEF Next

LEMMA NextChannel ==
    ASSUME Base, Next, NEW p \in Channel, ChannelOK(p), p \notin crossed'
    PROVE  ChannelOK(p)'
<1>1. CASE \E q \in Channel, s \in Slot : Match(q, s)
    BY <1>1, MatchChannel
<1>2. CASE \E t \in Server, q \in Channel, s \in Slot : ServerOpen(t, q, s)
    BY <1>2, ServerOpenChannel
<1>3. CASE \E t \in Server, s \in Slot : ServerClose(t, s)
    BY <1>3, ServerCloseChannel
<1>4. CASE \E t \in Thread : Attach(t) \/ GiveBack(t)
    BY <1>4, AttachChannel, GiveBackChannel
<1>5. CASE \E q \in Channel : AttachDone(q) \/ AttachFails(q) \/ DetachDone(q)
    BY <1>5, AttachDoneChannel, AttachFailsChannel, DetachDoneChannel
<1>6. CASE \E q \in Channel : UserOpen(q) \/ UserClose(q)
    BY <1>6, UserOpenChannel, UserCloseChannel
<1>7. CASE \E d \in Device : Detach(d)
    BY <1>7, DetachOfDevice
<1>8. CASE \E s \in Slot : DetachChannel(s)
    BY <1>8, DetachChannelChannel
<1>9. CASE DetachSlot \/ DetachDevice \/ DetachEnds
    BY <1>9, DetachSlotChannel, DetachDeviceChannel, DetachEndsChannel
<1>. QED
    BY <1>1, <1>2, <1>3, <1>4, <1>5, <1>6, <1>7, <1>8, <1>9 DEF Next

LEMMA StutterKeeps ==
    ASSUME Base, UNCHANGED vars
    PROVE  Records' /\ (ChannelInv => ChannelInv')
<1>1. UNCHANGED <<th, leaving, todo, slot, flags, parent, index, holds, crossed>>
    BY DEF vars, channels, detach, history
<1>2. Records'
    BY <1>1, RecordsKept
<1>3. ASSUME NEW p \in Channel, ChannelOK(p)
      PROVE  ChannelOK(p)'
    <2>1. Aside(p)
        BY <1>1 DEF Aside
    <2>. QED
        BY <1>1, <1>3, <2>1, AsideOK DEF EmptiedAt, At, Detaching
<1>. QED
    BY <1>1, <1>2, <1>3 DEF ChannelInv

LEMMA StepChannels ==
    ASSUME Base, ChannelInv, [Next]_vars
    PROVE  Records' /\ ChannelInv'
<1>1. CASE Next
    <2>1. Records'
        BY <1>1, AttachRecords, GiveBackRecords, OtherRecords
    <2>2. ASSUME NEW p \in Channel, p \notin crossed'
          PROVE  ChannelOK(p)'
        BY <1>1, <2>2, CrossedStays, NextChannel DEF ChannelInv
    <2>. QED
        BY <2>1, <2>2 DEF ChannelInv
<1>2. CASE UNCHANGED vars
    BY <1>2, StutterKeeps
<1>. QED
    BY <1>1, <1>2

LEMMA InitChannels == Init => Records /\ ChannelInv
<1>. SUFFICES ASSUME Init PROVE Records /\ ChannelInv
    OBVIOUS
<1>1. \A t \in Thread : th[t] = Idle
    BY DEF Init
<1>2. Records
    BY <1>1, ThreadNames, IdleFacts DEF Init, Records
<1>3. ASSUME NEW p \in Channel PROVE ChannelOK(p)
    <2>1. \A t \in Thread : th[t].ch # p /\ th[t].pc = "idle"
        BY <1>1, IdleFacts, ConstantsAssumption
    <2>2. \A s \in Slot : slot[s] # p
        BY ConstantsAssumption DEF Init
    <2>3. \A d \in Device : holds[p][d] = 0
        BY DEF Init
    <2>. QED
        BY <2>1, <2>2, <2>3 DEF ChannelOK, OneThread, InOwnSlot, HoldsOnce, WhileIdle
<1>. QED
    BY <1>2, <1>3 DEF ChannelInv

\* What each thread does for its channel, and what the channel has meanwhile: as long
\* as no attach crosses a close, one thread works for a channel, and what that has
\* opened and occupied is known from where the thread is.
THEOREM ChannelInvariant == Spec => [](Base /\ ChannelInv)
<1>1. Spec => [](IInv /\ CountInv)
    BY CountInvariant
<1>2. Init => Records /\ ChannelInv
    BY InitChannels
<1>3. Records /\ ChannelInv /\ [Next]_vars /\ (IInv /\ CountInv) => Records' /\ ChannelInv'
    BY StepChannels DEF Base, CountInv
<1>4. IInv /\ CountInv /\ Records /\ ChannelInv => Base /\ ChannelInv
    BY DEF Base, CountInv
<1>. QED
    BY <1>1, <1>2, <1>3, <1>4, PTL DEF Spec

\* A channel that is closed has given back its devices and its slot, but for a close
\* that met an attach (phidget.c:1009), whatever the dispatchers, the users, the
\* network clients and a detach do.
THEOREM ClosedGaveBack == Spec => []CloseGivesBack
<1>1. Base /\ ChannelInv => CloseGivesBack
    <2>. SUFFICES ASSUME Base, ChannelInv, NEW p \in Channel, ~Busy(p), ~Has(p, "OPEN"), p \notin crossed
                  PROVE  /\ \A d \in Device : holds[p][d] = 0
                         /\ \A s \in Slot : slot[s] # p
        BY DEF CloseGivesBack
    <2>1. Nobody(p)
        BY NotBusy
    <2>2. WhileIdle(p)
        BY <2>1 DEF ChannelInv, ChannelOK
    <2>. QED
        BY <2>2 DEF WhileIdle
<1>. QED
    BY <1>1, ChannelInvariant, PTL

-----------------------------------------------------------------------------
(* Channels that exclude each other.  Threads that attach at a time are at   *)
(* slots that do not exclude each other, unless they raced; so what a thread *)
(* has found when it checked stays true until its channel is attached.       *)

Excludes(r, s) == {<<r, s>>, <<s, r>>} \subseteq Exclusive

Apart ==
    \A t, u \in Thread :
        t # u /\ th[t].pc \in Attaching /\ th[u].pc \in Attaching =>
            th[t].slot # th[u].slot /\ ~Excludes(th[t].slot, th[u].slot)

\* No channel that counts is attached at slot r.
Clear(r) == slot[r] # None => ~Has(slot[r], "ATTACHED") \/ slot[r] \in crossed

Checked ==
    \A t \in Thread, r \in Slot :
        th[t].pc \in Attaching \ {"check"} /\ Excludes(r, th[t].slot) => Clear(r)

Respected == \A r, s \in Slot : Excludes(r, s) => Clear(r) \/ Clear(s)

ExclusiveInv == raced \/ (Apart /\ Checked /\ Respected)

\* A step that attaches nothing, and begins no attach.
NothingNew ==
    /\ \A t \in Thread : th'[t].pc \in Attaching =>
          /\ th[t].pc \in Attaching /\ th'[t].slot = th[t].slot
          /\ th'[t].pc # "check" => th[t].pc # "check"
    /\ \A s \in Slot : slot'[s] \in {slot[s], None}
    /\ \A p \in Channel : Has(p, "ATTACHED")' => Has(p, "ATTACHED")
    /\ raced' = raced

LEMMA NothingNewKeeps ==
    ASSUME Base, ExclusiveInv, NothingNew, crossed \subseteq crossed'
    PROVE  ExclusiveInv'
<1>. SUFFICES ASSUME ~raced', Apart, Checked, Respected PROVE (Apart /\ Checked /\ Respected)'
    BY DEF ExclusiveInv, NothingNew
<1>1. Apart'
    BY DEF Apart, NothingNew
<1>2. ASSUME NEW s \in Slot, Clear(s) PROVE Clear(s)'
    BY <1>2, RecordsAre DEF Clear, NothingNew
<1>3. Checked'
    <2>. SUFFICES ASSUME NEW t \in Thread, NEW r \in Slot, th'[t].pc \in Attaching \ {"check"},
                         Excludes(r, th'[t].slot)
                  PROVE  Clear(r)'
        BY DEF Checked, Excludes
    <2>1. th[t].pc \in Attaching \ {"check"} /\ th'[t].slot = th[t].slot
        BY DEF NothingNew
    <2>. QED
        BY <1>2, <2>1 DEF Checked
<1>4. Respected'
    BY <1>2 DEF Respected, Excludes
<1>. QED
    BY <1>1, <1>3, <1>4

LEMMA ThreadOn ==
    ASSUME Base, NEW t \in Thread, NEW r, th' = [th EXCEPT ![t] = r],
           r.pc \in Attaching =>
               th[t].pc \in Attaching \ {"check"} /\ r.slot = th[t].slot
    PROVE  \A u \in Thread : th'[u].pc \in Attaching =>
               /\ th[u].pc \in Attaching /\ th'[u].slot = th[u].slot
               /\ th'[u].pc # "check" => th[u].pc # "check"
BY RecordsAre

LEMMA AttachOn ==
    ASSUME Base, NEW t \in Thread, Attach(t), ~SetSlot(t), ~SetAttached(t),
           ~Check(t) \/ GivesUp(t)
    PROVE  NothingNew
<1>1. PICK r : th' = [th EXCEPT ![t] = r] /\ AttachingStep(t, r)
    BY AttachIs
<1>2. th[t].ch \in Channel /\ th[t].pc \in Attaching
    BY AttachIs
<1>3. slot' = slot /\ raced' = raced
    BY DEF Attach, Check, OpenDevice, SetParent, history
<1>4. CASE GivesUp(t)
    <2>1. \A p \in Channel : Has(p, "ATTACHED")' => Has(p, "ATTACHED")
        BY <1>2, <1>4, RecordsAre DEF GivesUp, Has
    <2>2. th' = [th EXCEPT ![t] = Idle]
        BY <1>4 DEF GivesUp
    <2>3. \A u \in Thread : th'[u].pc \in Attaching => th'[u] = th[u]
        BY <2>2, RecordsAre, IdleFacts
    <2>. QED
        BY <1>3, <2>1, <2>3 DEF NothingNew
<1>5. CASE ~GivesUp(t)
    <2>1. OpenDevice(t) \/ SetParent(t)
        BY <1>5 DEF Attach
    <2>2. \A p \in Channel : Has(p, "ATTACHED")' => Has(p, "ATTACHED")
        <3>1. CASE OpenDevice(t)
            BY <1>5, <3>1 DEF OpenDevice, Has
        <3>2. CASE SetParent(t)
            BY <1>2, <3>2, RecordsAre DEF SetParent, Has
        <3>. QED
            BY <2>1, <3>1, <3>2
    <2>3. th[t].pc # "check"
        BY <2>1 DEF OpenDevice, SetParent, At
    <2>4. r.pc \in Attaching => r.slot = th[t].slot
        BY <1>1, IdleFacts DEF AttachingStep
    <2>. QED
        BY <1>1, <1>2, <1>3, <2>2, <2>3, <2>4, ThreadOn DEF NothingNew
<1>. QED
    BY <1>4, <1>5

LEMMA GiveBackOn ==
    ASSUME Base, NEW t \in Thread, GiveBack(t)
    PROVE  NothingNew
<1>1. PICK r : th' = [th EXCEPT ![t] = r] /\ ClosingStep(t, r)
    BY GiveBackIs
<1>2. r.pc \notin Attaching
    BY <1>1, IdleFacts DEF ClosingStep, Attaching, Closing
<1>3. \A s \in Slot : slot'[s] \in {slot[s], None}
    BY RecordsAre DEF GiveBack, GetParent, CloseDevice, CloseDeviceBack, Unslot, Finish, channels
<1>4. \A p \in Channel : Has(p, "ATTACHED")' => Has(p, "ATTACHED")
    <2>1. CASE Finish(t)
        BY <2>1, RecordsAre DEF Finish, Has, At, RecordOK, Closing
    <2>2. CASE ~Finish(t)
        BY <2>2 DEF GiveBack, GetParent, CloseDevice, CloseDeviceBack, Unslot, channels, Has
    <2>. QED
        BY <2>1, <2>2
<1>5. raced' = raced
    BY DEF GiveBack, GetParent, CloseDevice, CloseDeviceBack, Unslot, Finish, history
<1>. QED
    BY <1>1, <1>2, <1>3, <1>4, <1>5, ThreadOn DEF NothingNew

\* One that only begins to close, or ends.
LEMMA OtherOn ==
    ASSUME Base, Next, ~\E t \in Thread : Attach(t) \/ GiveBack(t),
           ~\E p \in Channel, s \in Slot : Match(p, s),
           ~\E t \in Server, p \in Channel, s \in Slot : ServerOpen(t, p, s)
    PROVE  NothingNew
<1>1. ASSUME NEW t \in Thread, NEW r, th' = [th EXCEPT ![t] = r], r.pc \notin Attaching,
             \A s \in Slot : slot'[s] \in {slot[s], None}, raced' = raced,
             NEW q \in Channel, NEW f, flags' = flags \/ flags' = [flags EXCEPT ![q] = f],
             "ATTACHED" \in f => Has(q, "ATTACHED")
      PROVE  NothingNew
    <2>1. \A p \in Channel : Has(p, "ATTACHED")' => Has(p, "ATTACHED")
        BY <1>1, RecordsAre DEF Has
    <2>. QED
        BY <1>1, <2>1, ThreadOn DEF NothingNew
<1>2. ASSUME NEW t \in Thread, NEW r, th' = [th EXCEPT ![t] = r], r.pc \notin Attaching,
             \A s \in Slot : slot'[s] \in {slot[s], None}, raced' = raced, flags' = flags
      PROVE  NothingNew
    BY <1>2, ThreadOn DEF NothingNew, Has
<1>3. ASSUME NEW v, NEW q, NEW s PROVE
             /\ [Idle EXCEPT !.pc = v, !.ch = q].pc = v
             /\ [Idle EXCEPT !.pc = v, !.ch = q, !.slot = s].pc = v
             /\ [Idle EXCEPT !.pc = v, !.slot = s].pc = v
    BY DEF Idle
<1>4. "getparent" \notin Attaching /\ "emptied" \notin Attaching /\ "close" \notin Attaching
    BY DEF Attaching
<1>5. CASE \E t \in Server, s \in Slot : ServerClose(t, s)
    <2>1. PICK t \in Server, s \in Slot : ServerClose(t, s)
        BY <1>5
    <2>2. PICK q, f : q = slot[s] /\ f = flags[q] \ {"OPEN"}
        OBVIOUS
    <2>3. q \in Channel
        BY <2>1, <2>2, RecordsAre, ConstantsAssumption DEF ServerClose
    <2>4. /\ th' = [th EXCEPT ![t] = [Idle EXCEPT !.pc = "getparent", !.ch = q]]
          /\ slot' = slot /\ raced' = raced /\ flags' = [flags EXCEPT ![q] = f]
        BY <2>1, <2>2 DEF ServerClose, ClosesChannel
    <2>5. PICK r : r = [Idle EXCEPT !.pc = "getparent", !.ch = q]
        OBVIOUS
    <2>6. r.pc \notin Attaching
        BY <1>3, <1>4, <2>5
    <2>. QED
        BY <1>1, <2>2, <2>3, <2>4, <2>5, <2>6, ThreadNames DEF Has
<1>6. CASE \E p \in Channel : AttachFails(p)
    <2>1. PICK q \in Channel : AttachFails(q)
        BY <1>6
    <2>2. PICK f : f = flags[q] \ {"ATTACHED", "ATTACHING", "QUEUED"}
        OBVIOUS
    <2>4. /\ th' = [th EXCEPT ![<<q, "dispatcher">>] = [Idle EXCEPT !.pc = "getparent", !.ch = q]]
          /\ slot' = slot /\ raced' = raced /\ flags' = [flags EXCEPT ![q] = f]
        BY <2>1, <2>2 DEF AttachFails
    <2>5. PICK r : r = [Idle EXCEPT !.pc = "getparent", !.ch = q]
        OBVIOUS
    <2>6. r.pc \notin Attaching
        BY <1>3, <1>4, <2>5
    <2>. QED
        BY <1>1, <2>2, <2>4, <2>5, <2>6, ThreadNames DEF Has
<1>7. CASE \E p \in Channel : UserClose(p)
    <2>1. PICK q \in Channel : UserClose(q)
        BY <1>7
    <2>2. PICK f : f = flags[q] \ {"OPEN"}
        OBVIOUS
    <2>4. /\ th' = [th EXCEPT ![<<q, "user">>] = [Idle EXCEPT !.pc = "getparent", !.ch = q]]
          /\ slot' = slot /\ raced' = raced /\ flags' = [flags EXCEPT ![q] = f]
        BY <2>1, <2>2 DEF UserClose, ClosesChannel
    <2>5. PICK r : r = [Idle EXCEPT !.pc = "getparent", !.ch = q]
        OBVIOUS
    <2>6. r.pc \notin Attaching
        BY <1>3, <1>4, <2>5
    <2>. QED
        BY <1>1, <2>2, <2>4, <2>5, <2>6, ThreadNames DEF Has
<1>8. CASE \E p \in Channel : AttachDone(p) \/ DetachDone(p) \/ UserOpen(p)
    <2>1. /\ UNCHANGED <<th, slot, raced>>
          /\ \A p \in Channel : Has(p, "ATTACHED")' => Has(p, "ATTACHED")
        BY <1>8, RecordsAre DEF AttachDone, DetachDone, UserOpen, history, Has
    <2>. QED
        BY <2>1 DEF NothingNew
<1>9. CASE \E d \in Device : Detach(d)
    BY <1>9 DEF Detach, channels, history, NothingNew, Has
<1>10. CASE \E s \in Slot : DetachChannel(s)
    <2>1. PICK s \in Slot : DetachChannel(s)
        BY <1>10
    <2>2. PICK q, rest : q = slot[s] /\ rest = IF Has(q, "ATTACHED") THEN flags[q] \cup {"DETACHING"}
                                                                ELSE flags[q] \ {"QUEUED"}
        OBVIOUS
    <2>3. q \in Channel /\ slot' = slot /\ raced' = raced
        BY <2>1, <2>2, RecordsAre DEF DetachChannel
    <2>4. "ATTACHED" \in rest => Has(q, "ATTACHED")
        BY <2>2 DEF Has
    <2>5. \/ /\ th' = [th EXCEPT ![Central] = [Idle EXCEPT !.pc = "getparent", !.ch = q, !.slot = s]]
             /\ flags' = [flags EXCEPT ![q] = rest \ {"OPEN"}]
          \/ /\ th' = [th EXCEPT ![Central] = [Idle EXCEPT !.pc = "emptied", !.slot = s]]
             /\ flags' = [flags EXCEPT ![q] = rest]
        BY <2>1, <2>2 DEF DetachChannel
    <2>6. PICK g, e, f : /\ g = [Idle EXCEPT !.pc = "getparent", !.ch = q, !.slot = s]
                         /\ e = [Idle EXCEPT !.pc = "emptied", !.slot = s]
                         /\ f = rest \ {"OPEN"}
        OBVIOUS
    <2>7. g.pc \notin Attaching /\ e.pc \notin Attaching
        BY <1>3, <1>4, <2>6
    <2>8. \A x \in Slot : slot'[x] \in {slot[x], None}
        BY <2>3
    <2>9. CASE th' = [th EXCEPT ![Central] = g] /\ flags' = [flags EXCEPT ![q] = f]
        <3>1. "ATTACHED" \in f => Has(q, "ATTACHED")
            BY <2>4, <2>6
        <3>. QED
            BY <1>1, <2>3, <2>7, <2>8, <2>9, <3>1, ThreadNames
    <2>10. CASE th' = [th EXCEPT ![Central] = e] /\ flags' = [flags EXCEPT ![q] = rest]
        BY <1>1, <2>3, <2>4, <2>7, <2>8, <2>10, ThreadNames
    <2>. QED
        BY <2>5, <2>6, <2>9, <2>10
<1>11. CASE DetachSlot
    <2>1. \A s \in Slot : slot'[s] \in {slot[s], None}
        BY <1>11, RecordsAre DEF DetachSlot
    <2>2. PICK r : r = Idle
        OBVIOUS
    <2>. QED
        BY <1>2, <1>11, <2>1, <2>2, IdleFacts, ThreadNames DEF DetachSlot, history
<1>12. CASE DetachDevice
    <2>1. PICK r : r = [th[Central] EXCEPT !.pc = "close", !.ch = None, !.to = leaving, !.at = leaving,
                          !.force = TRUE, !.owed = TRUE]
        OBVIOUS
    <2>2. th' = [th EXCEPT ![Central] = r]
        BY <1>12, <2>1, RecordsAre, ThreadNames DEF DetachDevice, StartsClose
    <2>3. r.pc = "close"
        BY <2>1, RecordsAre, ThreadNames DEF ThreadState
    <2>. QED
        BY <1>2, <1>4, <1>12, <2>2, <2>3, ThreadNames DEF DetachDevice, channels
<1>13. CASE DetachEnds
    <2>1. PICK r : r = Idle
        OBVIOUS
    <2>. QED
        BY <1>2, <1>13, <2>1, IdleFacts, ThreadNames DEF DetachEnds, channels, history
<1>. QED
    BY <1>5, <1>6, <1>7, <1>8, <1>9, <1>10, <1>11, <1>12, <1>13 DEF Next

\* An attach begins, at a slot that no other thread attaches to, or excludes.
LEMMA BeginsApart ==
    ASSUME Base, ExclusiveInv, NEW t \in Thread, NEW p \in Channel, NEW s \in Slot,
           StartsAttach(t, p, s), UNCHANGED slot,
           \A c \in Channel : Has(c, "ATTACHED")' => Has(c, "ATTACHED")
    PROVE  ExclusiveInv'
<1>. SUFFICES ASSUME ~raced' PROVE (Apart /\ Checked /\ Respected)'
    BY DEF ExclusiveInv
<1>1. /\ Apart /\ Checked /\ Respected
      /\ \A u \in Thread : th[u].pc \in Attaching => th[u].slot # s /\ ~Excludes(th[u].slot, s)
    BY DEF StartsAttach, ExclusiveInv, Excludes, Attaching
<1>2. PICK r : r = [Idle EXCEPT !.pc = "check", !.ch = p, !.to = s[1], !.slot = s]
    OBVIOUS
<1>3. r.pc = "check" /\ r.slot = s
    BY <1>2 DEF Idle
<1>4. th'[t] = r /\ \A u \in Thread : u # t => th'[u] = th[u]
    BY <1>2, RecordsAre DEF StartsAttach
<1>5. Apart'
    <2>. SUFFICES ASSUME NEW u \in Thread, NEW v \in Thread, u # v,
                         th'[u].pc \in Attaching, th'[v].pc \in Attaching
                  PROVE  th'[u].slot # th'[v].slot /\ ~Excludes(th'[u].slot, th'[v].slot)
        BY DEF Apart, Excludes
    <2>1. CASE u = t
        BY <1>1, <1>3, <1>4, <2>1 DEF Excludes
    <2>2. CASE v = t
        BY <1>1, <1>3, <1>4, <2>2 DEF Excludes
    <2>3. CASE u # t /\ v # t
        BY <1>1, <1>4, <2>3 DEF Apart
    <2>. QED
        BY <2>1, <2>2, <2>3
<1>6. crossed \subseteq crossed'
    BY DEF StartsAttach, Crosses
<1>7. ASSUME NEW x \in Slot, Clear(x) PROVE Clear(x)'
    BY <1>6, <1>7, RecordsAre DEF Clear
<1>8. Checked'
    <2>. SUFFICES ASSUME NEW u \in Thread, NEW x \in Slot, th'[u].pc \in Attaching \ {"check"},
                         Excludes(x, th'[u].slot)
                  PROVE  Clear(x)'
        BY DEF Checked, Excludes
    <2>1. u # t /\ th'[u] = th[u]
        BY <1>3, <1>4
    <2>. QED
        BY <1>1, <1>7, <2>1 DEF Checked
<1>9. Respected'
    BY <1>1, <1>7 DEF Respected, Excludes
<1>. QED
    BY <1>5, <1>8, <1>9

\* A step of a thread that attaches, which leaves the slots of all as they are.
LEMMA ApartStays ==
    ASSUME Base, Apart, NEW t \in Thread, NEW r, th' = [th EXCEPT ![t] = r],
           th[t].pc \in Attaching, r.pc \in Attaching => r.slot = th[t].slot
    PROVE  Apart'
<1>1. \A u \in Thread : th'[u].pc \in Attaching => th[u].pc \in Attaching /\ th'[u].slot = th[u].slot
    BY RecordsAre
<1>. QED
    BY <1>1 DEF Apart, Excludes

LEMMA CheckExclusive ==
    ASSUME Base, ExclusiveInv, NEW t \in Thread, Check(t), ~GivesUp(t)
    PROVE  ExclusiveInv'
<1>. SUFFICES ASSUME Apart, Checked, Respected PROVE (Apart /\ Checked /\ Respected)'
    BY DEF ExclusiveInv, Check, history
<1>1. th[t].pc = "check" /\ th[t].slot \in Slot /\ th[t].pc \in Attaching
    BY RecordsAre DEF Check, At, Sound, Attaching
<1>2. PICK r : r = [th[t] EXCEPT !.pc = "open", !.at = Root(th[t].slot[1])]
    OBVIOUS
<1>3. th' = [th EXCEPT ![t] = r]
    BY <1>2, RecordsAre DEF Check
<1>4. r.slot = th[t].slot
    BY <1>2, RecordsAre, Fields
<1>5. ~Excluded(th[t].slot) /\ UNCHANGED <<slot, flags, crossed>>
    BY DEF Check, history
<1>6. Apart'
    BY <1>1, <1>3, <1>4, ApartStays
<1>7. ASSUME NEW x \in Slot, Clear(x) PROVE Clear(x)'
    BY <1>5, <1>7 DEF Clear, Has
<1>8. Checked'
    <2>. SUFFICES ASSUME NEW u \in Thread, NEW x \in Slot, th'[u].pc \in Attaching \ {"check"},
                         Excludes(x, th'[u].slot)
                  PROVE  Clear(x)
        BY <1>7 DEF Checked, Excludes
    <2>1. CASE u # t
        BY <1>3, <2>1, RecordsAre DEF Checked
    <2>2. CASE u = t
        <3>1. Excludes(x, th[t].slot)
            BY <1>3, <1>4, <2>2, RecordsAre
        <3>. QED
            BY <1>5, <3>1 DEF Excludes, Excluded, Clear
    <2>. QED
        BY <2>1, <2>2
<1>9. Respected'
    BY <1>7 DEF Respected, Excludes
<1>. QED
    BY <1>6, <1>8, <1>9

LEMMA SetSlotExclusive ==
    ASSUME Base, ChannelInv, ExclusiveInv, NEW t \in Thread, SetSlot(t)
    PROVE  ExclusiveInv'
<1>. SUFFICES ASSUME Apart, Checked, Respected PROVE (Apart /\ Checked /\ Respected)'
    BY DEF ExclusiveInv, SetSlot, history
<1>1. th[t].pc = "slot" /\ th[t].pc \in Attaching
    BY DEF SetSlot, At, Attaching
<1>2. th[t].ch \in Channel
    BY <1>1, RecordsAre DEF RecordOK
<1>3. PICK r : r = [th[t] EXCEPT !.pc = "attached"]
    OBVIOUS
<1>4. th' = [th EXCEPT ![t] = r]
    BY <1>3, RecordsAre DEF SetSlot, Goto
<1>5. r.pc = "attached" /\ r.slot = th[t].slot
    BY <1>3, RecordsAre, Fields
<1>6. UNCHANGED <<flags, crossed>> /\ \A x \in Slot : slot'[x] \in {slot[x], th[t].ch}
    BY RecordsAre DEF SetSlot, history
<1>7. ~Has(th[t].ch, "ATTACHED") \/ th[t].ch \in crossed
    BY <1>1, <1>2, AttachFacts DEF ChannelInv, WhileAttaching
<1>8. ASSUME NEW x \in Slot, Clear(x) PROVE Clear(x)'
    BY <1>6, <1>7, <1>8 DEF Clear, Has
<1>9. \A u \in Thread : th'[u].pc \in Attaching \ {"check"} =>
          th[u].pc \in Attaching \ {"check"} /\ th'[u].slot = th[u].slot
    BY <1>1, <1>4, <1>5, RecordsAre
<1>10. Apart'
    BY <1>1, <1>4, <1>5, ApartStays
<1>11. Checked'
    BY <1>8, <1>9 DEF Checked, Excludes
<1>12. Respected'
    BY <1>8 DEF Respected, Excludes
<1>. QED
    BY <1>10, <1>11, <1>12

LEMMA SetAttachedExclusive ==
    ASSUME Base, ChannelInv, ExclusiveInv, NEW t \in Thread, SetAttached(t)
    PROVE  ExclusiveInv'
<1>. SUFFICES ASSUME Apart, Checked, Respected PROVE (Apart /\ Checked /\ Respected)'
    BY DEF ExclusiveInv, SetAttached, history
<1>1. th[t].pc = "attached" /\ th[t].pc \in Attaching /\ th[t].slot \in Slot
    BY RecordsAre DEF SetAttached, At, Attaching, Sound
<1>2. th[t].ch \in Channel
    BY <1>1, RecordsAre DEF RecordOK
<1>3. th' = [th EXCEPT ![t] = Idle] /\ UNCHANGED <<slot, crossed>>
    BY DEF SetAttached, history
<1>4. \A u \in Thread : th'[u].pc \in Attaching => u # t /\ th'[u] = th[u]
    BY <1>3, RecordsAre, IdleFacts
<1>5. ASSUME NEW x \in Slot, Clear(x), slot[x] # th[t].ch \/ x # th[t].slot
      PROVE  Clear(x)'
    <2>1. CASE slot[x] # th[t].ch
        BY <1>2, <1>3, <1>5, <2>1, RecordsAre DEF Clear, SetAttached, Has
    <2>2. CASE slot[x] = th[t].ch
        <3>1. th[t].ch \in crossed
            BY <1>1, <1>2, <1>5, <2>2, AttachFacts DEF ChannelInv, WhileAttaching
        <3>. QED
            BY <1>3, <2>2, <3>1 DEF Clear
    <2>. QED
        BY <2>1, <2>2
<1>6. Apart'
    BY <1>4 DEF Apart, Excludes
<1>7. Checked'
    <2>. SUFFICES ASSUME NEW u \in Thread, NEW x \in Slot, th'[u].pc \in Attaching \ {"check"},
                         Excludes(x, th'[u].slot)
                  PROVE  Clear(x)'
        BY DEF Checked, Excludes
    <2>1. u # t /\ th'[u] = th[u]
        BY <1>4
    <2>2. x # th[t].slot
        BY <1>1, <2>1 DEF Apart
    <2>3. Clear(x)
        BY <2>1 DEF Checked
    <2>. QED
        BY <1>5, <2>2, <2>3
<1>8. Respected'
    <2>. SUFFICES ASSUME NEW x \in Slot, NEW y \in Slot, Excludes(x, y)
                  PROVE  Clear(x)' \/ Clear(y)'
        BY DEF Respected, Excludes
    <2>1. x # y
        BY ExclusiveAssumption DEF Excludes
    <2>2. CASE x = th[t].slot
        <3>1. Excludes(y, th[t].slot)
            BY <2>2 DEF Excludes
        <3>2. Clear(y)
            BY <1>1, <3>1 DEF Checked
        <3>. QED
            BY <1>5, <2>1, <2>2, <3>2
    <2>3. CASE y = th[t].slot
        <3>1. Clear(x)
            BY <1>1, <2>3 DEF Checked
        <3>. QED
            BY <1>5, <2>1, <2>3, <3>1
    <2>4. CASE x # th[t].slot /\ y # th[t].slot
        BY <1>5, <2>4 DEF Respected
    <2>. QED
        BY <2>2, <2>3, <2>4
<1>. QED
    BY <1>6, <1>7, <1>8

LEMMA StepExclusive ==
    ASSUME Base, ChannelInv, ExclusiveInv, [Next]_vars
    PROVE  ExclusiveInv'
<1>1. CASE UNCHANGED vars
    <2>1. NothingNew /\ crossed \subseteq crossed'
        BY <1>1 DEF vars, channels, history, NothingNew, Has
    <2>. QED
        BY <2>1, NothingNewKeeps
<1>2. ASSUME NEW p \in Channel, NEW s \in Slot, Match(p, s) PROVE ExclusiveInv'
    BY <1>2, BeginsApart, ThreadNames DEF Match, channels, Has
<1>3. ASSUME NEW t \in Server, NEW p \in Channel, NEW s \in Slot, ServerOpen(t, p, s)
      PROVE  ExclusiveInv'
    <2>1. \A c \in Channel : Has(c, "ATTACHED")' => Has(c, "ATTACHED")
        BY <1>3, RecordsAre DEF ServerOpen, Has
    <2>2. StartsAttach(t, p, s) /\ slot' = slot
        BY <1>3 DEF ServerOpen
    <2>. QED
        BY <2>1, <2>2, BeginsApart, ThreadNames
<1>4. ASSUME NEW t \in Thread, Attach(t), Next PROVE ExclusiveInv'
    <2>1. CASE SetSlot(t)
        BY <2>1, SetSlotExclusive
    <2>2. CASE SetAttached(t)
        BY <2>2, SetAttachedExclusive
    <2>3. CASE Check(t) /\ ~GivesUp(t)
        BY <2>3, CheckExclusive
    <2>4. CASE ~SetSlot(t) /\ ~SetAttached(t) /\ (~Check(t) \/ GivesUp(t))
        BY <1>4, <2>4, AttachOn, CrossedStays, NothingNewKeeps
    <2>. QED
        BY <2>1, <2>2, <2>3, <2>4
<1>5. ASSUME NEW t \in Thread, GiveBack(t), Next PROVE ExclusiveInv'
    BY <1>5, GiveBackOn, CrossedStays, NothingNewKeeps
<1>6. CASE /\ Next /\ ~\E t \in Thread : Attach(t) \/ GiveBack(t)
           /\ ~\E p \in Channel, s \in Slot : Match(p, s)
           /\ ~\E t \in Server, p \in Channel, s \in Slot : ServerOpen(t, p, s)
    BY <1>6, OtherOn, CrossedStays, NothingNewKeeps
<1>. QED
    BY <1>1, <1>2, <1>3, <1>4, <1>5, <1>6

LEMMA InitExclusive == Init => ExclusiveInv
<1>. SUFFICES ASSUME Init PROVE ExclusiveInv
    OBVIOUS
<1>1. \A t \in Thread : th[t].pc \notin Attaching
    BY IdleFacts DEF Init
<1>2. \A s \in Slot : Clear(s)
    BY DEF Init, Clear
<1>. QED
    BY <1>1, <1>2 DEF ExclusiveInv, Apart, Checked, Respected

THEOREM ExclusiveInvariant == Spec => [](Base /\ ChannelInv /\ ExclusiveInv)
<1>1. Base /\ ChannelInv /\ ExclusiveInv /\ [Next]_vars => ExclusiveInv'
    BY StepExclusive
<1>. QED
    BY <1>1, InitExclusive, ChannelInvariant, PTL DEF Spec

\* Channels that exclude each other are not attached together, unless their attaches
\* raced (phidget.c:973) or one of them crossed a close.
THEOREM ExclusiveSafe == Spec => []ExclusiveRespected
<1>1. Base /\ ExclusiveInv => ExclusiveRespected
    BY DEF ExclusiveInv, Respected, Clear, Excludes, ExclusiveRespected
<1>. QED
    BY <1>1, ExclusiveInvariant, PTL

-----------------------------------------------------------------------------
(* The channel that is attached is the one in its slot.  From its check on a *)
(* thread finds its slot free, since no other thread attaches to it and the  *)
(* one that empties it has found a channel in it that attaches no more.      *)

Reserved(p, r) ==
    IF r.pc # "attached" THEN slot[r.slot] = None /\ ~Emptying(r.slot)
    ELSE stolen \/ (slot[r.slot] = p /\ ~Emptying(r.slot))

Attached(p) == {"OPEN", "ATTACHED"} \subseteq flags[p] /\ "DETACHING" \notin flags[p]

InPlace(p) ==
    LET s == <<parent[p], index[p]>> IN stolen \/ (s \in Slot /\ slot[s] = p /\ ~Emptying(s))

Placed(p) ==
    /\ \A t \in Thread : th[t].ch = p /\ th[t].pc \in Attaching => Reserved(p, th[t])
    /\ Nobody(p) /\ Attached(p) => InPlace(p)

PlacedInv == raced \/ \A p \in Channel : p \in crossed \/ Placed(p)

\* A step that is not about channel p.
LEMMA PlacedAside ==
    ASSUME Base, NEW p \in Channel, Placed(p), stolen => stolen',
           \A t \in Thread : th[t].ch = p \/ th'[t].ch = p => th'[t] = th[t],
           Attached(p)' => Attached(p), parent'[p] = parent[p], index'[p] = index[p],
           \A t \in Thread : th[t].ch = p /\ th[t].pc \in Attaching \ {"attached"} =>
               slot'[th[t].slot] = slot[th[t].slot],
           \A s \in Slot : slot[s] = p /\ ~Emptying(s) => slot'[s] = p \/ stolen',
           \A t \in Thread : th[t].ch = p /\ th[t].pc \in Attaching =>
               \/ Emptying(th[t].slot)' => Emptying(th[t].slot)
               \/ stolen /\ th[t].pc = "attached",
           \A s \in Slot : Nobody(p) /\ Attached(p)' /\ slot[s] = p /\ Emptying(s)' => Emptying(s)
    PROVE  Placed(p)'
<1>1. ASSUME NEW t \in Thread, th'[t].ch = p, th'[t].pc \in Attaching
      PROVE  Reserved(p, th[t])'
    <2>1. th'[t] = th[t] /\ Reserved(p, th[t]) /\ th[t].slot \in Slot
        BY <1>1, RecordsAre DEF Placed, Sound
    <2>2. \/ Emptying(th[t].slot)' => Emptying(th[t].slot)
          \/ stolen /\ th[t].pc = "attached"
        BY <1>1, <2>1
    <2>3. th[t].pc # "attached" => slot'[th[t].slot] = slot[th[t].slot]
        BY <1>1, <2>1
    <2>4. CASE th[t].pc # "attached"
        BY <2>1, <2>2, <2>3, <2>4 DEF Reserved
    <2>5. CASE th[t].pc = "attached"
        BY <2>1, <2>2, <2>5 DEF Reserved
    <2>. QED
        BY <2>4, <2>5
<1>2. ASSUME Nobody(p)', Attached(p)' PROVE InPlace(p)'
    <2>1. Nobody(p) /\ InPlace(p)
        BY <1>2 DEF Placed, Nobody
    <2>. QED
        BY <1>2, <2>1 DEF InPlace
<1>. QED
    BY <1>1, <1>2 DEF Placed

\* A step of the thread t that works for p, or begins to.
LEMMA PlacedOwn ==
    ASSUME Base, NEW p \in Channel, NEW t \in Thread, NEW r, th' = [th EXCEPT ![t] = r],
           \A u \in Thread : th[u].ch = p => u = t,
           r.ch = p /\ r.pc \in Attaching => Reserved(p, r)',
           r.ch # p /\ Attached(p)' => InPlace(p)'
    PROVE  Placed(p)'
<1>1. th'[t] = r /\ \A u \in Thread : u # t => th'[u] = th[u]
    BY RecordsAre
<1>2. ASSUME NEW u \in Thread, th'[u].ch = p, th'[u].pc \in Attaching
      PROVE  Reserved(p, th[u])'
    <2>1. u = t
        BY <1>1, <1>2
    <2>2. Reserved(p, r)' /\ th'[u] = r
        BY <1>1, <1>2, <2>1
    <2>. QED
        BY <2>2 DEF Reserved
<1>3. Nobody(p)' => r.ch # p
    BY <1>1 DEF Nobody
<1>. QED
    BY <1>2, <1>3 DEF Placed

LEMMA StolenStays ==
    ASSUME Next, stolen
    PROVE  stolen'
<1>1. CASE \E p \in Channel, s \in Slot : Match(p, s)
    BY <1>1 DEF Match
<1>2. CASE \E t \in Server, p \in Channel, s \in Slot : ServerOpen(t, p, s)
    BY <1>2 DEF ServerOpen
<1>3. CASE \E t \in Server, s \in Slot : ServerClose(t, s)
    BY <1>3 DEF ServerClose
<1>4. CASE \E t \in Thread : Attach(t)
    BY <1>4 DEF Attach, Check, OpenDevice, SetParent, SetSlot, SetAttached, history
<1>5. CASE \E t \in Thread : GiveBack(t)
    BY <1>5 DEF GiveBack, GetParent, CloseDevice, CloseDeviceBack, Dropped, Unslot, Finish, history
<1>6. CASE \E p \in Channel :
               AttachDone(p) \/ AttachFails(p) \/ DetachDone(p) \/ UserOpen(p) \/ UserClose(p)
    BY <1>6 DEF AttachDone, AttachFails, DetachDone, UserOpen, UserClose, history
<1>7. CASE (\E d \in Device : Detach(d)) \/ (\E s \in Slot : DetachChannel(s))
    BY <1>7 DEF Detach, DetachChannel, history
<1>8. CASE DetachSlot \/ DetachDevice \/ DetachEnds
    BY <1>8 DEF DetachSlot, DetachDevice, DetachEnds, history
<1>. QED
    BY <1>1, <1>2, <1>3, <1>4, <1>5, <1>6, <1>7, <1>8 DEF Next

\* Only the central thread empties slots.
LEMMA EmptyingStep ==
    ASSUME Base, NEW t \in Thread, NEW r, th' = [th EXCEPT ![t] = r],
           \/ t # Central
           \/ r.pc \notin Closing \cup {"emptied"} \/ r.force
           \/ /\ th[t].pc \in Closing \cup {"emptied"} /\ ~th[t].force
              /\ r.slot = th[t].slot
    PROVE  \A s \in Slot : Emptying(s)' => Emptying(s)
<1>1. th'[Central] = IF t = Central THEN r ELSE th[Central]
    BY RecordsAre, ThreadNames
<1>. QED
    BY <1>1 DEF Emptying

LEMMA NotEmptying ==
    ASSUME Base, NEW s, leaving = None \/ th[Central] = Idle
    PROVE  ~Emptying(s)
<1>1. "idle" \notin Closing \cup {"emptied"} /\ \A v \in Attaching : v \notin Closing \cup {"emptied"}
    BY DEF Attaching, Closing
<1>. QED
    BY <1>1, IdleFacts DEF Base, Records, Emptying

-----------------------------------------------------------------------------
(* Places: the attach.                                                       *)

\* Another thread that attaches leaves the place of p alone.
LEMMA AttachPlacedAside ==
    ASSUME Base, Apart, Next, NEW p \in Channel, Placed(p), NEW t \in Thread, Attach(t),
           th[t].ch # p
    PROVE  Placed(p)'
<1>1. PICK r : th' = [th EXCEPT ![t] = r] /\ AttachingStep(t, r)
    BY AttachIs
<1>2. r.ch # p /\ th[t].pc \in Attaching /\ th[t].slot \in Slot
    BY <1>1, AttachIs, RecordsAre, IdleFacts DEF AttachingStep, Sound
<1>3. \A u \in Thread : th[u].ch = p \/ th'[u].ch = p => th'[u] = th[u] /\ u # t
    BY <1>1, <1>2, RecordsAre
<1>4. r.pc \notin Closing \cup {"emptied"}
    BY <1>1, IdleFacts DEF AttachingStep, Attaching, Closing, Idle
<1>5. \A s \in Slot : Emptying(s)' => Emptying(s)
    BY <1>1, <1>4, EmptyingStep
<1>6. flags'[p] = flags[p] /\ parent'[p] = parent[p] /\ index'[p] = index[p]
    BY AttachAside DEF Aside
<1>7. \A s \in Slot : slot'[s] # slot[s] => s = th[t].slot /\ slot[s] = None
    BY <1>2, RecordsAre DEF Attach, Check, OpenDevice, SetParent, SetSlot, SetAttached
<1>8. \A u \in Thread : th[u].ch = p /\ th[u].pc \in Attaching \ {"attached"} =>
          slot'[th[u].slot] = slot[th[u].slot]
    <2>. SUFFICES ASSUME NEW u \in Thread, th[u].ch = p, th[u].pc \in Attaching
                  PROVE  slot'[th[u].slot] = slot[th[u].slot]
        OBVIOUS
    <2>1. th[u].slot # th[t].slot /\ th[u].slot \in Slot
        BY <1>2, <1>3, RecordsAre DEF Apart, Sound
    <2>. QED
        BY <1>7, <2>1
<1>9. \A s \in Slot : slot[s] = p => slot'[s] = p
    BY <1>7, RecordsAre
<1>10. \A u \in Thread : th[u].ch = p /\ th[u].pc \in Attaching => th[u].slot \in Slot
    BY RecordsAre DEF Sound
<1>11. (Attached(p)' <=> Attached(p)) /\ (stolen => stolen')
    BY <1>6, StolenStays DEF Attached
<1>. QED
    BY <1>3, <1>5, <1>6, <1>8, <1>9, <1>10, <1>11, PlacedAside

\* Its own thread gives up, goes on, or occupies the slot, which is free.
LEMMA AttachPlacedOwn ==
    ASSUME Base, NEW p \in Channel, ChannelOK(p), Placed(p), NEW t \in Thread, Attach(t),
           th[t].ch = p
    PROVE  Placed(p)'
<1>1. PICK r : th' = [th EXCEPT ![t] = r] /\ AttachingStep(t, r)
    BY AttachIs
<1>2. th[t].pc \in Attaching /\ th[t].slot \in Slot
    BY AttachIs, RecordsAre DEF Sound
<1>3. /\ \A u \in Thread : th[u].ch = p => u = t
      /\ WhileAttaching(p, th[t]) /\ Reserved(p, th[t])
    BY <1>2, AttachFacts DEF Placed
<1>4. \A s \in Slot : Emptying(s)' => Emptying(s)
    <2>1. r.pc \notin Closing \cup {"emptied"}
        BY <1>1, IdleFacts DEF AttachingStep, Attaching, Closing, Idle
    <2>. QED
        BY <1>1, <2>1, EmptyingStep
<1>5. th'[t] = r
    BY <1>1, RecordsAre
<1>6. CASE GivesUp(t)
    <2>1. th'[t] = Idle /\ ~Attached(p)'
        BY <1>3, <1>6, RecordsAre DEF GivesUp, WhileAttaching, Attached, Has
    <2>2. r.ch # p
        BY <1>5, <2>1, IdleFacts, RecordsAre
    <2>. QED
        BY <1>1, <1>3, <2>1, <2>2, PlacedOwn
<1>7. CASE (Check(t) \/ OpenDevice(t) \/ SetParent(t)) /\ ~GivesUp(t)
    <2>1. th[t].pc # "attached" /\ slot' = slot
        BY <1>7 DEF Check, OpenDevice, SetParent, At
    <2>2. th'[t].pc \in {"open", "parent", "slot"} /\ th'[t].ch = p /\ th'[t].slot = th[t].slot
        <3>1. r # Idle => r.ch = p /\ r.slot = th[t].slot
            BY <1>1 DEF AttachingStep
        <3>2. r.pc \in {"open", "parent", "slot"}
            <4>1. th[t] \in ThreadState
                BY RecordsAre
            <4>2. CASE Check(t)
                <5>1. th'[t] = [th[t] EXCEPT !.pc = "open", !.at = Root(th[t].slot[1])]
                    BY <1>7, <4>2, RecordsAre DEF Check
                <5>. QED
                    BY <1>5, <4>1, <5>1 DEF ThreadState
            <4>3. CASE OpenDevice(t)
                <5>1. CASE Goto(t, "parent")
                    BY <1>5, <4>1, <5>1, RecordsAre DEF Goto, ThreadState
                <5>2. ASSUME NEW ok, th' = [th EXCEPT ![t].ok = ok, ![t].at = th[t].to]
                      PROVE  r.pc \in {"open", "parent", "slot"}
                    <6>1. th'[t] = [th[t] EXCEPT !.ok = ok, !.at = th[t].to]
                        BY <5>2, RecordsAre
                    <6>. QED
                        BY <1>5, <4>1, <4>3, <6>1 DEF ThreadState, OpenDevice, At
                <5>. QED
                    BY <1>7, <4>3, <5>1, <5>2 DEF OpenDevice
            <4>4. CASE SetParent(t)
                BY <1>5, <4>1, <4>4, RecordsAre DEF SetParent, Goto, ThreadState
            <4>. QED
                BY <1>7, <4>2, <4>3, <4>4
        <3>. QED
            BY <1>5, <3>1, <3>2, IdleFacts
    <2>3. Reserved(p, r)'
        BY <1>2, <1>3, <1>4, <1>5, <2>1, <2>2 DEF Reserved
    <2>. QED
        BY <1>1, <1>3, <1>5, <2>2, <2>3, PlacedOwn
<1>8. CASE SetSlot(t)
    <2>1. th[t].pc = "slot" /\ slot[th[t].slot] = None /\ ~Emptying(th[t].slot)
        BY <1>3, <1>8 DEF SetSlot, At, Reserved
    <2>2. slot'[th[t].slot] = p
        BY <1>2, <1>8, <2>1, RecordsAre DEF SetSlot
    <2>3. th'[t].pc = "attached"
        BY <1>8, RecordsAre DEF SetSlot, Goto, ThreadState
    <2>4. r.pc = "attached" /\ r.ch = p /\ r.slot = th[t].slot
        BY <1>1, <1>5, <2>3, IdleFacts DEF AttachingStep
    <2>5. Reserved(p, r)'
        BY <1>2, <1>4, <2>1, <2>2, <2>4 DEF Reserved
    <2>. QED
        BY <1>1, <1>3, <2>4, <2>5, PlacedOwn
<1>9. CASE SetAttached(t)
    <2>1. th[t].pc = "attached"
        BY <1>9 DEF SetAttached, At
    <2>2. parent[p] = th[t].slot[1] /\ index[p] = th[t].slot[2]
        BY <1>2, <1>3, <2>1, RecordsAre DEF WhileAttaching, Sound
    <2>3. <<parent[p], index[p]>> = th[t].slot
        BY <1>2, <2>2 DEF Slot
    <2>4. UNCHANGED <<slot, parent, index, stolen>>
        BY <1>9 DEF SetAttached, history
    <2>5. InPlace(p)'
        BY <1>2, <1>3, <1>4, <2>1, <2>3, <2>4 DEF InPlace, Reserved
    <2>6. r.ch # p
        BY <1>5, <1>9, IdleFacts, RecordsAre DEF SetAttached
    <2>. QED
        BY <1>1, <1>3, <2>5, <2>6, PlacedOwn
<1>. QED
    BY <1>6, <1>7, <1>8, <1>9 DEF Attach

LEMMA BeginsPlaced ==
    ASSUME Base, NEW p \in Channel, Placed(p), p \notin crossed',
           NEW t \in Thread, NEW q \in Channel, NEW s \in Slot, StartsAttach(t, q, s), UNCHANGED slot,
           th[t] = Idle, stolen => stolen',
           p = q => slot[s] = None /\ ~Emptying(s),
           p # q => UNCHANGED <<flags[p], parent[p], index[p]>>
    PROVE  Placed(p)'
<1>1. PICK r : r = [Idle EXCEPT !.pc = "check", !.ch = q, !.to = s[1], !.slot = s]
    OBVIOUS
<1>2. r.pc = "check" /\ r.ch = q /\ r.slot = s /\ th' = [th EXCEPT ![t] = r]
    BY <1>1 DEF Idle, StartsAttach
<1>3. r.pc \notin Closing \cup {"emptied"}
    BY <1>2 DEF Closing
<1>4. \A x \in Slot : Emptying(x)' => Emptying(x)
    BY <1>2, <1>3, EmptyingStep
<1>5. CASE p = q
    <2>1. Nobody(p)
        BY <1>5, Begins DEF StartsAttach
    <2>2. Reserved(p, r)'
        BY <1>2, <1>4, <1>5 DEF Reserved
    <2>. QED
        BY <1>2, <1>5, <2>1, <2>2, PlacedOwn DEF Nobody
<1>6. CASE p # q
    <2>1. \A u \in Thread : th[u].ch = p \/ th'[u].ch = p => th'[u] = th[u]
        BY <1>2, <1>6, RecordsAre, IdleFacts
    <2>2. \A u \in Thread : th[u].ch = p /\ th[u].pc \in Attaching => th[u].slot \in Slot
        BY RecordsAre DEF Sound
    <2>3. Attached(p)' <=> Attached(p)
        BY <1>6 DEF Attached
    <2>. QED
        BY <1>4, <1>6, <2>1, <2>2, <2>3, PlacedAside
<1>. QED
    BY <1>5, <1>6

LEMMA MatchPlaced ==
    ASSUME Base, Next, NEW p \in Channel, Placed(p), p \notin crossed',
           NEW q \in Channel, NEW s \in Slot, Match(q, s)
    PROVE  Placed(p)'
<1>1. th[Central] = Idle /\ slot[s] = None /\ ~Emptying(s)
    BY RecordsAre, ThreadNames, NotEmptying DEF Match, At, RecordOK, Free
<1>2. StartsAttach(Central, q, s) /\ UNCHANGED <<slot, flags, parent, index>>
    BY DEF Match, channels
<1>. QED
    BY <1>1, <1>2, BeginsPlaced, StolenStays, ThreadNames

LEMMA ServerOpenPlaced ==
    ASSUME Base, Next, NEW p \in Channel, ChannelOK(p), Placed(p), p \notin crossed',
           NEW t \in Server, NEW q \in Channel, NEW s \in Slot, ServerOpen(t, q, s)
    PROVE  Placed(p)'
<1>1. th[t] = Idle /\ ~Emptying(s) /\ t \in Thread
    BY RecordsAre, ThreadNames, NotEmptying DEF ServerOpen, At, RecordOK
<1>2. StartsAttach(t, q, s) /\ UNCHANGED <<slot, index>>
    BY DEF ServerOpen
<1>3. p # q => UNCHANGED <<flags[p], parent[p], index[p]>>
    BY RecordsAre DEF ServerOpen
<1>4. ASSUME p = q PROVE slot[s] = None
    <2>1. Nobody(p)
        BY <1>2, <1>4, Begins DEF StartsAttach
    <2>. QED
        BY <1>4, <2>1 DEF ServerOpen, ChannelOK, WhileIdle
<1>. QED
    BY <1>1, <1>2, <1>3, <1>4, BeginsPlaced, StolenStays

-----------------------------------------------------------------------------
(* Places: the close, and the flags.                                         *)

LEMMA ClosePlacedAside ==
    ASSUME Base, Next, NEW p \in Channel, Placed(p), NEW t \in Thread, GiveBack(t), th[t].ch # p
    PROVE  Placed(p)'
<1>1. PICK r : th' = [th EXCEPT ![t] = r] /\ ClosingStep(t, r)
    BY GiveBackIs
<1>2. th[t].pc \in Closing /\ RecordOK(t, th[t])
    BY GiveBackIs, RecordsAre
<1>3. r.ch # p
    BY <1>1, RecordsAre, IdleFacts DEF ClosingStep
<1>4. \A u \in Thread : th[u].ch = p \/ th'[u].ch = p => th'[u] = th[u]
    BY <1>1, <1>3, RecordsAre
<1>5. \A s \in Slot : Emptying(s)' => Emptying(s)
    <2>1. th[t].pc = "getparent" => ~th[t].force
        BY <1>2 DEF RecordOK
    <2>2. \/ t # Central
          \/ r.force
          \/ th[t].pc \in Closing /\ ~th[t].force /\ r.slot = th[t].slot
        BY <1>1, <1>2, <2>1 DEF ClosingStep
    <2>. QED
        BY <1>1, <2>2, EmptyingStep
<1>6. flags'[p] = flags[p] /\ parent'[p] = parent[p] /\ index'[p] = index[p]
    BY GiveBackAside DEF Aside
<1>7. Attached(p)' <=> Attached(p)
    BY <1>6 DEF Attached
<1>8. stolen => stolen'
    BY StolenStays
<1>9. CASE Unslot(t)
    <2>1. PICK x : x = <<th[t].to, index[th[t].ch]>>
        OBVIOUS
    <2>2. slot' = [slot EXCEPT ![x] = None] /\ (stolen' \/ slot[x] \in {th[t].ch, None})
        BY <1>9, <2>1 DEF Unslot
    <2>3. \A s \in Slot : slot[s] = p => slot'[s] = p \/ stolen'
        BY <2>2, RecordsAre
    <2>4. \A s \in Slot : slot[s] = None => slot'[s] = None
        BY <2>2, RecordsAre
    <2>5. \A u \in Thread : th[u].ch = p /\ th[u].pc \in Attaching \ {"attached"} =>
              slot'[th[u].slot] = slot[th[u].slot] /\ th[u].slot \in Slot
        BY <2>4, RecordsAre DEF Placed, Reserved, Sound
    <2>6. \A u \in Thread : th[u].ch = p /\ th[u].pc \in Attaching => th[u].slot \in Slot
        BY RecordsAre DEF Sound
    <2>. QED
        BY <1>4, <1>5, <1>6, <1>7, <1>8, <2>3, <2>5, <2>6, PlacedAside
<1>10. CASE ~Unslot(t)
    <2>1. slot' = slot
        BY <1>10 DEF GiveBack, GetParent, CloseDevice, CloseDeviceBack, Finish, channels
    <2>2. \A u \in Thread : th[u].ch = p /\ th[u].pc \in Attaching => th[u].slot \in Slot
        BY RecordsAre DEF Sound
    <2>. QED
        BY <1>4, <1>5, <1>6, <1>7, <1>8, <2>1, <2>2, PlacedAside
<1>. QED
    BY <1>9, <1>10

\* A channel that is given back is attached no more when that is done.
LEMMA ClosePlacedOwn ==
    ASSUME Base, NEW p \in Channel, ChannelOK(p), NEW t \in Thread, GiveBack(t), th[t].ch = p
    PROVE  Placed(p)'
<1>1. PICK r : th' = [th EXCEPT ![t] = r] /\ ClosingStep(t, r)
    BY GiveBackIs
<1>2. /\ th[t].pc \in Closing /\ \A u \in Thread : th[u].ch = p => u = t
      /\ WhileClosing(p, t, th[t]) /\ ~th[t].force /\ th[t] \in ThreadState
    BY GiveBackIs, CloseFacts
<1>3. r.pc \notin Attaching
    BY <1>1, IdleFacts DEF ClosingStep, Attaching, Closing
<1>4. th'[t] = r
    BY <1>1, RecordsAre
<1>5. ASSUME r.ch # p PROVE ~Attached(p)'
    <2>1. CASE Finish(t)
        BY <1>2, <2>1, RecordsAre DEF Finish, Attached, Has
    <2>2. CASE ~Finish(t)
        <3>1. th[t].pc # "finish" => flags' = flags
            BY <2>2 DEF GiveBack, GetParent, CloseDevice, CloseDeviceBack, Unslot, channels
        <3>2. flags' = flags
            BY <2>2 DEF GiveBack, GetParent, CloseDevice, CloseDeviceBack, Unslot, channels
        <3>3. CASE GetParent(t) \/ Unslot(t)
            <4>1. CASE GivesBackSlot(t)
                BY <1>2, <3>2, <4>1 DEF WhileClosing, Attached, Has
            <4>2. CASE ~GivesBackSlot(t)
                <5>1. \/ th' = [th EXCEPT ![t].pc = "finish"]
                      \/ \E d, owed : th' = [th EXCEPT ![t].pc = "close", ![t].ch = p, ![t].to = d,
                                          ![t].at = d, ![t].force = FALSE, ![t].owed = owed]
                    BY <3>3, <4>2 DEF GetParent, Unslot, StartsClose
                <5>2. CASE th' = [th EXCEPT ![t].pc = "finish"]
                    BY <1>2, <1>4, <1>5, <5>2, RecordsAre DEF ThreadState
                <5>3. ASSUME NEW d, NEW owed,
                             th' = [th EXCEPT ![t].pc = "close", ![t].ch = p, ![t].to = d,
                                          ![t].at = d, ![t].force = FALSE, ![t].owed = owed]
                      PROVE  FALSE
                    <6>1. th'[t] = [th[t] EXCEPT !.pc = "close", !.ch = p, !.to = d,
                                          !.at = d, !.force = FALSE, !.owed = owed]
                        BY <5>3, RecordsAre
                    <6>. QED
                        BY <1>2, <1>4, <1>5, <6>1 DEF ThreadState
                <5>. QED
                    BY <5>1, <5>2, <5>3
            <4>. QED
                BY <4>1, <4>2
        <3>4. CASE CloseDevice(t) \/ CloseDeviceBack(t)
            BY <1>2, <1>4, <1>5, <3>4, CloserOfChannel, RecordsAre
        <3>. QED
            BY <2>2, <3>3, <3>4 DEF GiveBack
    <2>. QED
        BY <2>1, <2>2
<1>. QED
    BY <1>1, <1>2, <1>3, <1>5, PlacedOwn

\* A close begins.
LEMMA CloseBeginsPlaced ==
    ASSUME Base, Next, NEW p \in Channel, Placed(p), p \notin crossed',
           NEW q \in Channel, NEW t \in Thread, th[t] = Idle, Crosses(q),
           NEW r, th' = [th EXCEPT ![t] = r], r.pc = "getparent", r.ch = q,
           UNCHANGED <<slot, parent, index>>,
           \A c \in Channel : c # q => flags'[c] = flags[c],
           p # q => \A s \in Slot :
               \/ slot[s] = p
               \/ \E u \in Thread : /\ th[u].ch = p /\ th[u].pc \in Attaching /\ th[u].slot = s
                                    /\ ~(stolen /\ th[u].pc = "attached")
               => (Emptying(s)' => Emptying(s))
    PROVE  Placed(p)'
<1>1. CASE p = q
    <2>1. Nobody(p)
        BY <1>1, Begins
    <2>. QED
        BY <1>1, <2>1, PlacedOwn DEF Nobody, Attaching
<1>2. CASE p # q
    <2>1. \A u \in Thread : th[u].ch = p \/ th'[u].ch = p => th'[u] = th[u]
        BY <1>2, RecordsAre, IdleFacts
    <2>2. \A u \in Thread : th[u].ch = p /\ th[u].pc \in Attaching => th[u].slot \in Slot
        BY RecordsAre DEF Sound
    <2>3. Attached(p)' <=> Attached(p)
        BY <1>2 DEF Attached
    <2>4. stolen => stolen'
        BY StolenStays
    <2>. QED
        BY <1>2, <2>1, <2>2, <2>3, <2>4, PlacedAside
<1>. QED
    BY <1>1, <1>2

LEMMA ClosersPlaced ==
    ASSUME Base, Next, NEW p \in Channel, Placed(p), p \notin crossed',
           \/ \E t \in Server, s \in Slot : ServerClose(t, s)
           \/ \E q \in Channel : UserClose(q) \/ AttachFails(q)
    PROVE  Placed(p)'
<1>1. ASSUME NEW t \in Thread, t # Central, At(t, "idle"), NEW q \in Channel, Crosses(q),
             th' = [th EXCEPT ![t] = [Idle EXCEPT !.pc = "getparent", !.ch = q]],
             UNCHANGED <<slot, parent, index>>, NEW f, flags' = [flags EXCEPT ![q] = f]
      PROVE  Placed(p)'
    <2>1. PICK r : r = [Idle EXCEPT !.pc = "getparent", !.ch = q]
        OBVIOUS
    <2>2. r.pc = "getparent" /\ r.ch = q
        BY <2>1 DEF Idle
    <2>3. th[t] = Idle /\ th' = [th EXCEPT ![t] = r]
        BY <1>1, <2>1, RecordsAre DEF At, RecordOK
    <2>4. \A s \in Slot : Emptying(s)' => Emptying(s)
        BY <1>1, <2>3, EmptyingStep
    <2>5. \A c \in Channel : c # q => flags'[c] = flags[c]
        BY <1>1, RecordsAre
    <2>6. p # q => \A s \in Slot :
              \/ slot[s] = p
              \/ \E u \in Thread : /\ th[u].ch = p /\ th[u].pc \in Attaching /\ th[u].slot = s
                                   /\ ~(stolen /\ th[u].pc = "attached")
              => (Emptying(s)' => Emptying(s))
        BY <2>4
    <2>7. Crosses(q) /\ UNCHANGED <<slot, parent, index>>
        BY <1>1
    <2>. QED
        BY <2>2, <2>3, <2>5, <2>6, <2>7, CloseBeginsPlaced
<1>2. CASE \E t \in Server, s \in Slot : ServerClose(t, s)
    <2>1. PICK t \in Server, s \in Slot : ServerClose(t, s)
        BY <1>2
    <2>2. PICK q : q = slot[s]
        OBVIOUS
    <2>3. PICK f : f = flags[q] \ {"OPEN"}
        OBVIOUS
    <2>4. /\ q \in Channel /\ At(t, "idle") /\ Crosses(q) /\ UNCHANGED <<slot, parent, index>>
          /\ th' = [th EXCEPT ![t] = [Idle EXCEPT !.pc = "getparent", !.ch = q]]
          /\ flags' = [flags EXCEPT ![q] = f]
        BY <2>1, <2>2, <2>3, ConstantsAssumption DEF ServerClose, ClosesChannel
    <2>. QED
        BY <1>1, <2>4, ThreadNames
<1>3. CASE \E q \in Channel : UserClose(q)
    <2>1. PICK q \in Channel : UserClose(q)
        BY <1>3
    <2>2. PICK f : f = flags[q] \ {"OPEN"}
        OBVIOUS
    <2>3. /\ At(<<q, "user">>, "idle") /\ Crosses(q) /\ UNCHANGED <<slot, parent, index>>
          /\ th' = [th EXCEPT ![<<q, "user">>] = [Idle EXCEPT !.pc = "getparent", !.ch = q]]
          /\ flags' = [flags EXCEPT ![q] = f]
        BY <2>1, <2>2 DEF UserClose, ClosesChannel
    <2>. QED
        BY <1>1, <2>3, ThreadNames
<1>4. CASE \E q \in Channel : AttachFails(q)
    <2>1. PICK q \in Channel : AttachFails(q)
        BY <1>4
    <2>2. PICK f : f = flags[q] \ {"ATTACHED", "ATTACHING", "QUEUED"}
        OBVIOUS
    <2>3. /\ At(<<q, "dispatcher">>, "idle") /\ Crosses(q) /\ UNCHANGED <<slot, parent, index>>
          /\ th' = [th EXCEPT ![<<q, "dispatcher">>] = [Idle EXCEPT !.pc = "getparent", !.ch = q]]
          /\ flags' = [flags EXCEPT ![q] = f]
        BY <2>1, <2>2 DEF AttachFails, AttachEvent
    <2>. QED
        BY <1>1, <2>3, ThreadNames
<1>. QED
    BY <1>2, <1>3, <1>4

LEMMA FlagsPlaced ==
    ASSUME Base, NEW p \in Channel, Placed(p), NEW q \in Channel,
           AttachDone(q) \/ DetachDone(q) \/ UserOpen(q)
    PROVE  Placed(p)'
<1>1. UNCHANGED <<th, slot, parent, index, stolen>>
    BY DEF AttachDone, DetachDone, UserOpen, history
<1>2. Attached(p)' => Attached(p)
    BY RecordsAre DEF AttachDone, DetachDone, UserOpen, Attached
<1>3. \A s \in Slot : Emptying(s)' <=> Emptying(s)
    BY <1>1 DEF Emptying
<1>4. \A u \in Thread : th[u].ch = p /\ th[u].pc \in Attaching => th[u].slot \in Slot
    BY RecordsAre DEF Sound
<1>. QED
    BY <1>1, <1>2, <1>3, <1>4, PlacedAside

-----------------------------------------------------------------------------
(* Places: a device detaches.                                                *)

LEMMA DetachOfDevicePlaced ==
    ASSUME Base, NEW p \in Channel, Placed(p), NEW d \in Device, Detach(d)
    PROVE  Placed(p)'
<1>1. UNCHANGED <<th, slot, flags, parent, index, stolen>>
    BY DEF Detach, channels, history
<1>2. \A s \in Slot : Emptying(s)' <=> Emptying(s)
    BY <1>1 DEF Emptying
<1>3. \A u \in Thread : th[u].ch = p /\ th[u].pc \in Attaching => th[u].slot \in Slot
    BY RecordsAre DEF Sound
<1>4. Attached(p)' <=> Attached(p)
    BY <1>1 DEF Attached
<1>. QED
    BY <1>1, <1>2, <1>3, <1>4, PlacedAside

\* A slot that is emptied is no slot that a thread attaches to: there was nobody in
\* it, or a channel that attaches (ATTACHING), which channelDetach waits for.
LEMMA DetachChannelPlaced ==
    ASSUME Base, Next, NEW p \in Channel, ChannelOK(p), Placed(p), p \notin crossed',
           NEW s \in Slot, DetachChannel(s)
    PROVE  Placed(p)'
<1>1. PICK q : q = slot[s]
    OBVIOUS
<1>2. /\ q \in Channel /\ ~Has(q, "ATTACHING") /\ th[Central] = Idle
      /\ UNCHANGED <<slot, parent, index, stolen>>
    BY <1>1, RecordsAre, ThreadNames DEF DetachChannel, At, RecordOK
<1>3. PICK g, e : /\ g = [Idle EXCEPT !.pc = "getparent", !.ch = q, !.slot = s]
                  /\ e = [Idle EXCEPT !.pc = "emptied", !.slot = s]
    OBVIOUS
<1>4. /\ g.pc = "getparent" /\ g.ch = q /\ g.slot = s
      /\ e.pc = "emptied" /\ e.ch = None /\ e.slot = s
    BY <1>3 DEF Idle
<1>5. \/ th' = [th EXCEPT ![Central] = g] /\ Crosses(q)
      \/ th' = [th EXCEPT ![Central] = e]
    BY <1>1, <1>3 DEF DetachChannel
<1>6. ASSUME NEW u \in Thread, th[u].ch = p, th[u].pc \in Attaching
      PROVE  th[u].slot \in Slot /\ (th[u].slot # s \/ (stolen /\ th[u].pc = "attached"))
    <2>1. th[u].slot \in Slot
        BY <1>6, RecordsAre DEF Sound
    <2>2. Reserved(p, th[u]) /\ WhileAttaching(p, th[u])
        BY <1>6 DEF Placed, ChannelOK
    <2>3. CASE th[u].pc # "attached"
        BY <1>1, <1>2, <2>1, <2>2, <2>3, RecordsAre DEF Reserved
    <2>4. CASE th[u].pc = "attached"
        BY <1>1, <1>2, <2>1, <2>2, <2>4 DEF Reserved, WhileAttaching
    <2>. QED
        BY <2>3, <2>4
<1>7. \A x \in Slot : Emptying(x)' => x = s
    BY <1>4, <1>5, RecordsAre, ThreadNames DEF Emptying
<1>8. \A c \in Channel : c # q => flags'[c] = flags[c]
    BY <1>1, <1>2, RecordsAre DEF DetachChannel
<1>9. CASE th' = [th EXCEPT ![Central] = g] /\ Crosses(q)
    <2>1. p # q => \A x \in Slot :
              \/ slot[x] = p
              \/ \E u \in Thread : /\ th[u].ch = p /\ th[u].pc \in Attaching /\ th[u].slot = x
                                   /\ ~(stolen /\ th[u].pc = "attached")
              => (Emptying(x)' => Emptying(x))
        BY <1>1, <1>6, <1>7
    <2>. QED
        BY <1>2, <1>4, <1>8, <1>9, <2>1, CloseBeginsPlaced, ThreadNames
<1>10. CASE th' = [th EXCEPT ![Central] = e]
    <2>1. \A u \in Thread : th[u].ch = p \/ th'[u].ch = p => th'[u] = th[u]
        BY <1>2, <1>4, <1>10, RecordsAre, IdleFacts, ThreadNames
    <2>2. CASE p # q
        <3>1. Attached(p)' <=> Attached(p)
            BY <1>8, <2>2 DEF Attached
        <3>2. \A x \in Slot : slot[x] = p => x # s
            BY <1>1, <2>2
        <3>. QED
            BY <1>2, <1>6, <1>7, <2>1, <3>1, <3>2, PlacedAside
    <2>3. CASE p = q
        <3>1. flags'[p] = IF Has(p, "ATTACHED") THEN flags[p] \cup {"DETACHING"} ELSE flags[p] \ {"QUEUED"}
            <4>1. PICK f : f = IF Has(q, "ATTACHED") THEN flags[q] \cup {"DETACHING"} ELSE flags[q] \ {"QUEUED"}
                OBVIOUS
            <4>2. g # e
                BY <1>4
            <4>3. flags' = [flags EXCEPT ![q] = f]
                <5>1. th'[Central] = e
                    BY <1>10, RecordsAre, ThreadNames
                <5>2. \/ th' = [th EXCEPT ![Central] = g]
                      \/ flags' = [flags EXCEPT ![q] = f]
                    BY <1>1, <1>3, <4>1 DEF DetachChannel
                <5>. QED
                    BY <4>2, <5>1, <5>2, RecordsAre, ThreadNames
            <4>4. flags'[p] = f
                BY <1>2, <2>3, <4>3, RecordsAre
            <4>. QED
                BY <2>3, <4>1, <4>4 DEF Has
        <3>2. ~Attached(p)'
            <4>1. CASE Has(p, "ATTACHED")
                BY <3>1, <4>1 DEF Attached
            <4>2. CASE ~Has(p, "ATTACHED")
                BY <3>1, <4>2 DEF Attached, Has
            <4>. QED
                BY <4>1, <4>2
        <3>3. \A u \in Thread : th[u].ch = p /\ th[u].pc \in Attaching => th[u].slot \in Slot
            BY RecordsAre DEF Sound
        <3>. QED
            BY <1>2, <1>6, <1>7, <2>1, <3>2, <3>3, PlacedAside
    <2>. QED
        BY <2>2, <2>3
<1>. QED
    BY <1>5, <1>9, <1>10

LEMMA DetachSlotPlaced ==
    ASSUME Base, NEW p \in Channel, Placed(p), DetachSlot
    PROVE  Placed(p)'
<1>1. /\ At(Central, "emptied") /\ th' = [th EXCEPT ![Central] = Idle]
      /\ slot' = [slot EXCEPT ![th[Central].slot] = None]
      /\ UNCHANGED <<flags, parent, index, stolen>>
    BY DEF DetachSlot, history
<1>2. th[Central].ch = None /\ ~th[Central].force
    BY <1>1, RecordsAre, ThreadNames DEF RecordOK, At
<1>3. \A u \in Thread : th[u].ch = p \/ th'[u].ch = p => th'[u] = th[u]
    BY <1>1, <1>2, RecordsAre, IdleFacts, ThreadNames
<1>4. \A s \in Slot : slot'[s] = slot[s] \/ Emptying(s)
    BY <1>1, <1>2, RecordsAre DEF Emptying, At
<1>5. \A s \in Slot : ~Emptying(s)'
    BY <1>1, RecordsAre, ThreadNames, IdleFacts DEF Emptying
<1>6. ASSUME NEW u \in Thread, th[u].ch = p, th[u].pc \in Attaching \ {"attached"}
      PROVE  slot'[th[u].slot] = slot[th[u].slot]
    <2>1. Reserved(p, th[u]) /\ th[u].slot \in Slot
        BY <1>6, RecordsAre DEF Placed, Sound
    <2>. QED
        BY <1>4, <1>6, <2>1 DEF Reserved
<1>7. Attached(p)' <=> Attached(p)
    BY <1>1 DEF Attached
<1>8. \A u \in Thread : th[u].ch = p /\ th[u].pc \in Attaching => th[u].slot \in Slot
    BY RecordsAre DEF Sound
<1>. QED
    BY <1>1, <1>3, <1>4, <1>5, <1>6, <1>7, <1>8, PlacedAside

LEMMA DetachEndPlaced ==
    ASSUME Base, Next, NEW p \in Channel, Placed(p), DetachDevice \/ DetachEnds
    PROVE  Placed(p)'
<1>1. UNCHANGED <<slot, flags, parent, index>> /\ (stolen => stolen')
    BY StolenStays DEF DetachDevice, DetachEnds, channels
<1>2. PICK r : r = [th[Central] EXCEPT !.pc = "close", !.ch = None, !.to = leaving, !.at = leaving,
                      !.force = TRUE, !.owed = TRUE]
    OBVIOUS
<1>3. r.force /\ r.ch = None
    BY <1>2, RecordsAre, ThreadNames DEF ThreadState
<1>4. th[Central].ch = None
    BY RecordsAre, ThreadNames, IdleFacts DEF DetachDevice, DetachEnds, At, RecordOK
<1>5. th' = [th EXCEPT ![Central] = r] \/ th' = [th EXCEPT ![Central] = Idle]
    BY <1>2, RecordsAre, ThreadNames DEF DetachDevice, DetachEnds, StartsClose
<1>6. \A u \in Thread : th[u].ch = p \/ th'[u].ch = p => th'[u] = th[u]
    BY <1>3, <1>4, <1>5, RecordsAre, IdleFacts, ThreadNames
<1>7. \A s \in Slot : ~Emptying(s)'
    BY <1>3, <1>5, RecordsAre, ThreadNames, IdleFacts DEF Emptying
<1>8. Attached(p)' <=> Attached(p)
    BY <1>1 DEF Attached
<1>9. \A u \in Thread : th[u].ch = p /\ th[u].pc \in Attaching => th[u].slot \in Slot
    BY RecordsAre DEF Sound
<1>. QED
    BY <1>1, <1>6, <1>7, <1>8, <1>9, PlacedAside

LEMMA NextPlaced ==
    ASSUME Base, Apart, Next, NEW p \in Channel, ChannelOK(p), Placed(p), p \notin crossed'
    PROVE  Placed(p)'
<1>1. CASE \E q \in Channel, s \in Slot : Match(q, s)
    BY <1>1, MatchPlaced
<1>2. CASE \E t \in Server, q \in Channel, s \in Slot : ServerOpen(t, q, s)
    BY <1>2, ServerOpenPlaced
<1>3. CASE \/ \E t \in Server, s \in Slot : ServerClose(t, s)
           \/ \E q \in Channel : UserClose(q) \/ AttachFails(q)
    BY <1>3, ClosersPlaced
<1>4. ASSUME NEW t \in Thread, Attach(t) PROVE Placed(p)'
    BY <1>4, AttachPlacedAside, AttachPlacedOwn
<1>5. ASSUME NEW t \in Thread, GiveBack(t) PROVE Placed(p)'
    BY <1>5, ClosePlacedAside, ClosePlacedOwn
<1>6. CASE \E q \in Channel : AttachDone(q) \/ DetachDone(q) \/ UserOpen(q)
    BY <1>6, FlagsPlaced
<1>7. CASE \E d \in Device : Detach(d)
    BY <1>7, DetachOfDevicePlaced
<1>8. CASE \E s \in Slot : DetachChannel(s)
    BY <1>8, DetachChannelPlaced
<1>9. CASE DetachSlot \/ DetachDevice \/ DetachEnds
    BY <1>9, DetachSlotPlaced, DetachEndPlaced
<1>. QED
    BY <1>1, <1>2, <1>3, <1>4, <1>5, <1>6, <1>7, <1>8, <1>9 DEF Next

LEMMA RacedStays ==
    ASSUME Base, Next, raced
    PROVE  raced'
<1>1. CASE \E p \in Channel, s \in Slot : Match(p, s)
    BY <1>1 DEF Match, StartsAttach
<1>2. CASE \E t \in Server, p \in Channel, s \in Slot : ServerOpen(t, p, s)
    BY <1>2 DEF ServerOpen, StartsAttach
<1>3. CASE \E t \in Thread : Attach(t)
    BY <1>3 DEF Attach, Check, OpenDevice, SetParent, SetSlot, SetAttached, history
<1>4. CASE \E t \in Thread : GiveBack(t)
    BY <1>4, GiveBackOn DEF NothingNew
<1>. QED
    BY <1>1, <1>2, <1>3, <1>4, OtherOn DEF NothingNew

LEMMA StepPlaced ==
    ASSUME Base, ChannelInv, ExclusiveInv, PlacedInv, [Next]_vars
    PROVE  PlacedInv'
<1>1. CASE Next
    <2>. SUFFICES ASSUME ~raced, NEW p \in Channel, p \notin crossed' PROVE Placed(p)'
        BY <1>1, RacedStays DEF PlacedInv
    <2>1. p \notin crossed
        BY <1>1, CrossedStays
    <2>. QED
        BY <1>1, <2>1, NextPlaced DEF ChannelInv, ExclusiveInv, PlacedInv
<1>2. CASE UNCHANGED vars
    <2>1. UNCHANGED <<th, slot, flags, parent, index, stolen, raced, crossed>>
        BY <1>2 DEF vars, channels, history
    <2>2. ASSUME NEW p \in Channel, Placed(p) PROVE Placed(p)'
        BY <2>1, <2>2 DEF Placed, Reserved, InPlace, Attached, Nobody, Emptying
    <2>. QED
        BY <2>1, <2>2 DEF PlacedInv
<1>. QED
    BY <1>1, <1>2

LEMMA InitPlaced == Init => PlacedInv
<1>. SUFFICES ASSUME Init, NEW p \in Channel PROVE Placed(p)
    BY DEF PlacedInv
<1>1. \A t \in Thread : th[t].pc \notin Attaching
    BY IdleFacts DEF Init
<1>2. ~Attached(p)
    BY DEF Init, Attached
<1>. QED
    BY <1>1, <1>2 DEF Placed

THEOREM PlacedInvariant == Spec => [](Base /\ PlacedInv)
<1>1. Base /\ ChannelInv /\ ExclusiveInv /\ PlacedInv /\ [Next]_vars => PlacedInv'
    BY StepPlaced
<1>. QED
    BY <1>1, InitPlaced, ExclusiveInvariant, PTL DEF Spec

\* A channel that is attached is the one in its slot, where the packets of its device
\* find it, unless attaches raced, a slot was given back by one that was not in it, or
\* its attach crossed a close.
THEOREM AttachedStaysInSlot == Spec => []AttachedIsInSlot
<1>1. Base /\ PlacedInv => AttachedIsInSlot
    <2>. SUFFICES ASSUME Base, PlacedInv, NEW p \in Channel, {"OPEN", "ATTACHED"} \subseteq flags[p],
                         "DETACHING" \notin flags[p], ~Busy(p), ~raced, ~stolen, p \notin crossed
                  PROVE  slot[<<parent[p], index[p]>>] = p
        BY DEF AttachedIsInSlot
    <2>1. Nobody(p) /\ Attached(p)
        BY NotBusy DEF Attached
    <2>. QED
        BY <2>1 DEF PlacedInv, Placed, InPlace
<1>. QED
    BY <1>1, PlacedInvariant, PTL

=============================================================================
