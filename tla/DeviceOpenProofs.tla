-------------------------- MODULE DeviceOpenProofs --------------------------
(* What is proved about the open and the close of devices: CLOSING is a       *)
(* token, a closer that comes back from the parent finds the reference it   *)
(* drops, and the references of a device are those that somebody counts on, *)
(* for any devices, channels and threads.                                   *)
EXTENDS DeviceOpen, TLAPS, FiniteSetTheorems

\* Where a thread can be, with locals it can have there.
ThreadState ==
    [pc : {"idle", "check", "open", "parent", "slot", "attached", "getparent",
           "close", "back", "unslot", "gone", "finish", "emptied"},
     ch : Channel \cup {None}, to : Device \cup {None}, at : Device \cup {None},
     slot : Slot \cup {None}, ok : BOOLEAN, force : BOOLEAN, owed : BOOLEAN]

Attaching == {"check", "open", "parent", "slot", "attached"}

Sound(r) ==
    /\ r.pc \in Attaching => r.slot \in Slot /\ r.to = r.slot[1]
    /\ r.pc = "open" => r.at \in Device
    /\ r.pc = "getparent" => r.ch \in Channel
    /\ r.pc = "close" => r.to \in Device /\ r.at \in Device /\ r.at \in {r.to, Parent[r.to]}
    /\ r.pc = "back" => r.to \in Device /\ r.at = r.to /\ Parent[r.to] # None

Threads ==
    /\ th \in [Thread -> ThreadState]
    /\ \A t \in Thread : Sound(th[t])
    /\ leaving \in Device \cup {None}

\* A device in the middle of its close has the reference that is to be dropped.
ClosingIsOpen == \A d \in Device : closing[d] => refs[d] > 0

IInv ==
    /\ TypeOK
    /\ Threads
    /\ ClosingIsToken
    /\ ClosingIsOpen

\* The parts of TypeOK.
DevicesTyped ==
    /\ {open, closing, present} \subseteq [Device -> BOOLEAN]
    /\ refs \in [Device -> Nat]
    /\ \A d \in Device : open[d] <=> refs[d] > 0
ChannelsTyped ==
    /\ slot \in [Slot -> Channel \cup {None}]
    /\ flags \in [Channel -> SUBSET {"OPEN", "ATTACHING", "ATTACHED", "DETACHING", "QUEUED"}]
    /\ parent \in [Channel -> Device \cup {None}]
    /\ index \in [Channel -> Index \cup {None}]

LEMMA Types == TypeOK <=> DevicesTyped /\ ChannelsTyped
BY DEF TypeOK, DevicesTyped, ChannelsTyped

\* A record of a thread that is not in the middle of a close.
Outside(r) == r.pc # "back" /\ (r.pc = "close" => r.at = r.to)

-----------------------------------------------------------------------------
(* Hubs have no parent, and no device is its own.                           *)

LEMMA ParentOfParent ==
    ASSUME NEW d \in Device, Parent[d] # None
    PROVE  Parent[d] \in Device /\ Parent[Parent[d]] = None /\ Parent[d] # d
BY ConstantsAssumption

LEMMA IdleIsSound == Idle \in ThreadState /\ Sound(Idle) /\ Outside(Idle)
BY DEF Idle, ThreadState, Sound, Outside, Attaching

-----------------------------------------------------------------------------
(* A step of one thread outside the middle of a close.                      *)

LEMMA TokenOutside ==
    ASSUME IInv, UNCHANGED closing, leaving' \in Device \cup {None},
           NEW t \in Thread, NEW r \in ThreadState, Sound(r),
           th' = [th EXCEPT ![t] = r], Outside(th[t]), Outside(r)
    PROVE  Threads' /\ ClosingIsToken'
<1>1. Threads'
    BY DEF IInv, Threads
<1>2. \A u \in Thread, d \in Device : ClosesParentOf(u, d)' <=> ClosesParentOf(u, d)
    <2>. SUFFICES ASSUME NEW u \in Thread, NEW d \in Device
                  PROVE  ClosesParentOf(u, d)' <=> ClosesParentOf(u, d)
        OBVIOUS
    <2>1. CASE u # t
        BY <2>1 DEF IInv, Threads, ClosesParentOf, At
    <2>2. CASE u = t
        <3>1. th'[u] = r
            BY <2>2 DEF IInv, Threads
        <3>2. ~ClosesParentOf(u, d)
            BY <2>2 DEF ClosesParentOf, Outside, At
        <3>3. ~ClosesParentOf(u, d)'
            BY <3>1 DEF ClosesParentOf, Outside, At
        <3>. QED
            BY <3>2, <3>3
    <2>. QED
        BY <2>1, <2>2
<1>3. ClosingIsToken'
    BY <1>2 DEF IInv, ClosingIsToken
<1>. QED
    BY <1>1, <1>3

LEMMA StepOutside ==
    ASSUME IInv, UNCHANGED devices, leaving' \in Device \cup {None},
           NEW t \in Thread, NEW r \in ThreadState, Sound(r),
           th' = [th EXCEPT ![t] = r], Outside(th[t]), Outside(r)
    PROVE  Threads' /\ ClosingIsToken' /\ ClosingIsOpen'
<1>1. Threads' /\ ClosingIsToken'
    BY TokenOutside DEF devices
<1>2. ClosingIsOpen'
    BY DEF IInv, ClosingIsOpen, devices
<1>. QED
    BY <1>1, <1>2

\* A step that leaves the threads and the devices alone.
LEMMA StepAside ==
    ASSUME IInv, UNCHANGED devices, UNCHANGED th, leaving' \in Device \cup {None}
    PROVE  Threads' /\ ClosingIsToken' /\ ClosingIsOpen'
BY DEF IInv, Threads, ClosingIsToken, ClosingIsOpen, devices, ClosesParentOf, At

LEMMA DevicesKept ==
    ASSUME IInv, UNCHANGED devices, UNCHANGED present
    PROVE  DevicesTyped'
<1>1. DevicesTyped
    BY Types DEF IInv
<1>. QED
    BY <1>1 DEF DevicesTyped, devices

-----------------------------------------------------------------------------
(* The invariant holds at the start and is preserved.                       *)

LEMMA InitSafe == Init => IInv
<1>. SUFFICES ASSUME Init PROVE IInv
    OBVIOUS
<1>1. DevicesTyped
    BY DEF Init, DevicesTyped
<1>2. ChannelsTyped
    BY DEF Init, ChannelsTyped
<1>3. Threads
    BY IdleIsSound DEF Init, Threads
<1>4. \A t \in Thread : th[t].pc = "idle"
    BY DEF Init, Idle
<1>5. ClosingIsToken
    BY <1>4 DEF Init, ClosingIsToken, ClosesParentOf, At
<1>6. ClosingIsOpen
    BY DEF Init, ClosingIsOpen
<1>. QED
    BY <1>1, <1>2, <1>3, <1>5, <1>6, Types DEF IInv

LEMMA MatchSafe == IInv /\ (\E p \in Channel, s \in Slot : Match(p, s)) => IInv'
<1>. SUFFICES ASSUME IInv, NEW p \in Channel, NEW s \in Slot, Match(p, s) PROVE IInv'
    OBVIOUS
<1>. DEFINE r == [Idle EXCEPT !.pc = "check", !.ch = p, !.to = s[1], !.slot = s]
<1>1. th' = [th EXCEPT ![Central] = r] /\ UNCHANGED <<devices, present>>
    BY DEF Match, StartsAttach, devices, detach
<1>2. Outside(th[Central]) /\ leaving' \in Device \cup {None}
    BY DEF IInv, Threads, Outside, At, Match, StartsAttach, devices, detach
<1>3. r \in ThreadState /\ Sound(r) /\ Outside(r)
    BY IdleIsSound DEF IInv, Threads, TypeOK, ThreadState, Sound, Outside, Attaching, Idle, Slot, At, Match, StartsAttach, devices, detach
<1>4. Threads' /\ ClosingIsToken' /\ ClosingIsOpen'
    <2>. Central \in Thread
        BY DEF Thread
    <2>. HIDE DEF r
    <2>. QED
        BY <1>1, <1>2, <1>3, StepOutside
<1>5. DevicesTyped'
    BY <1>1, DevicesKept
<1>6. ChannelsTyped'
    <2>1. ChannelsTyped
        BY Types DEF IInv
    <2>. QED
        BY <2>1 DEF IInv, Threads, ThreadState, Sound, Attaching, Slot, At, ChannelsTyped, channels, Match
<1>. QED
    BY <1>4, <1>5, <1>6 DEF IInv, TypeOK, DevicesTyped, ChannelsTyped

LEMMA ServerOpenSafe == IInv /\ (\E t \in Server, p \in Channel, s \in Slot : ServerOpen(t, p, s)) => IInv'
<1>. SUFFICES ASSUME IInv, NEW t \in Server, NEW p \in Channel, NEW s \in Slot, ServerOpen(t, p, s) PROVE IInv'
    OBVIOUS
<1>. DEFINE r == [Idle EXCEPT !.pc = "check", !.ch = p, !.to = s[1], !.slot = s]
<1>1. th' = [th EXCEPT ![t] = r] /\ UNCHANGED <<devices, present>>
    BY DEF ServerOpen, StartsAttach, devices, detach
<1>2. Outside(th[t]) /\ leaving' \in Device \cup {None}
    BY DEF IInv, Threads, Outside, At, ServerOpen, StartsAttach, devices, detach
<1>3. r \in ThreadState /\ Sound(r) /\ Outside(r)
    BY IdleIsSound DEF IInv, Threads, TypeOK, ThreadState, Sound, Outside, Attaching, Idle, Slot, At, ServerOpen, StartsAttach, devices, detach
<1>4. Threads' /\ ClosingIsToken' /\ ClosingIsOpen'
    <2>. t \in Thread
        BY DEF Thread
    <2>. HIDE DEF r
    <2>. QED
        BY <1>1, <1>2, <1>3, StepOutside
<1>5. DevicesTyped'
    BY <1>1, DevicesKept
<1>6. ChannelsTyped'
    <2>1. ChannelsTyped
        BY Types DEF IInv
    <2>. QED
        BY <2>1 DEF IInv, Threads, ThreadState, Sound, Attaching, Slot, At, ChannelsTyped, channels, ServerOpen
<1>. QED
    BY <1>4, <1>5, <1>6 DEF IInv, TypeOK, DevicesTyped, ChannelsTyped

LEMMA CheckSafe == IInv /\ (\E t \in Thread : Check(t)) => IInv'
<1>. SUFFICES ASSUME IInv, NEW t \in Thread, Check(t) PROVE IInv'
    OBVIOUS
<1>. DEFINE r == IF Has(th[t].ch, "OPEN") /\ ~Excluded(th[t].slot)
                THEN [th[t] EXCEPT !.pc = "open", !.at = Root(th[t].slot[1])] ELSE Idle
<1>1. th' = [th EXCEPT ![t] = r] /\ UNCHANGED <<devices, present>>
    BY DEF Check, GivesUp, Root, devices, detach
<1>2. Outside(th[t]) /\ leaving' \in Device \cup {None}
    BY DEF IInv, Threads, Outside, At, Check, GivesUp, Root, devices, detach
<1>3. r \in ThreadState /\ Sound(r) /\ Outside(r)
    <2>1. th[t] \in ThreadState /\ th[t].slot \in Slot /\ th[t].to = th[t].slot[1]
        BY DEF IInv, Threads, Sound, Attaching, Check, At
    <2>2. th[t].slot[1] \in Device
        BY <2>1 DEF Slot
    <2>3. Root(th[t].slot[1]) \in Device
        BY <2>2, ConstantsAssumption DEF Root
    <2>. DEFINE d == Root(th[t].slot[1])
    <2>. HIDE DEF d
    <2>4. [th[t] EXCEPT !.pc = "open", !.at = d] \in ThreadState
        BY <2>1, <2>3 DEF ThreadState, d
    <2>5. Sound([th[t] EXCEPT !.pc = "open", !.at = d]) /\ Outside([th[t] EXCEPT !.pc = "open", !.at = d])
        BY <2>1, <2>3 DEF ThreadState, Sound, Outside, Attaching, d
    <2>. QED
        BY <2>4, <2>5, IdleIsSound DEF d
<1>4. Threads' /\ ClosingIsToken' /\ ClosingIsOpen'
    <2>. t \in Thread
        BY DEF Thread
    <2>. HIDE DEF r
    <2>. QED
        BY <1>1, <1>2, <1>3, StepOutside
<1>5. DevicesTyped'
    BY <1>1, DevicesKept
<1>6. ChannelsTyped'
    <2>1. ChannelsTyped
        BY Types DEF IInv
    <2>. QED
        BY <2>1 DEF IInv, Threads, ThreadState, Sound, Attaching, Slot, At, ChannelsTyped, channels, Check, GivesUp
<1>. QED
    BY <1>4, <1>5, <1>6 DEF IInv, TypeOK, DevicesTyped, ChannelsTyped

LEMMA SetParentSafe == IInv /\ (\E t \in Thread : SetParent(t)) => IInv'
<1>. SUFFICES ASSUME IInv, NEW t \in Thread, SetParent(t) PROVE IInv'
    OBVIOUS
<1>. DEFINE r == [th[t] EXCEPT !.pc = "slot"]
<1>1. th' = [th EXCEPT ![t] = r] /\ UNCHANGED <<devices, present>>
    BY DEF SetParent, Goto, devices, detach
<1>2. Outside(th[t]) /\ leaving' \in Device \cup {None}
    BY DEF IInv, Threads, Outside, At, SetParent, Goto, devices, detach
<1>3. r \in ThreadState /\ Sound(r) /\ Outside(r)
    BY IdleIsSound DEF IInv, Threads, TypeOK, ThreadState, Sound, Outside, Attaching, Idle, Slot, At, SetParent, Goto, devices, detach
<1>4. Threads' /\ ClosingIsToken' /\ ClosingIsOpen'
    <2>. t \in Thread
        BY DEF Thread
    <2>. HIDE DEF r
    <2>. QED
        BY <1>1, <1>2, <1>3, StepOutside
<1>5. DevicesTyped'
    BY <1>1, DevicesKept
<1>6. ChannelsTyped'
    <2>1. ChannelsTyped
        BY Types DEF IInv
    <2>. QED
        BY <2>1 DEF IInv, Threads, ThreadState, Sound, Attaching, Slot, At, ChannelsTyped, channels, SetParent
<1>. QED
    BY <1>4, <1>5, <1>6 DEF IInv, TypeOK, DevicesTyped, ChannelsTyped

LEMMA SetSlotSafe == IInv /\ (\E t \in Thread : SetSlot(t)) => IInv'
<1>. SUFFICES ASSUME IInv, NEW t \in Thread, SetSlot(t) PROVE IInv'
    OBVIOUS
<1>. DEFINE r == [th[t] EXCEPT !.pc = "attached"]
<1>1. th' = [th EXCEPT ![t] = r] /\ UNCHANGED <<devices, present>>
    BY DEF SetSlot, Goto, devices, detach
<1>2. Outside(th[t]) /\ leaving' \in Device \cup {None}
    BY DEF IInv, Threads, Outside, At, SetSlot, Goto, devices, detach
<1>3. r \in ThreadState /\ Sound(r) /\ Outside(r)
    BY IdleIsSound DEF IInv, Threads, TypeOK, ThreadState, Sound, Outside, Attaching, Idle, Slot, At, SetSlot, Goto, devices, detach
<1>4. Threads' /\ ClosingIsToken' /\ ClosingIsOpen'
    <2>. t \in Thread
        BY DEF Thread
    <2>. HIDE DEF r
    <2>. QED
        BY <1>1, <1>2, <1>3, StepOutside
<1>5. DevicesTyped'
    BY <1>1, DevicesKept
<1>6. ChannelsTyped'
    <2>1. ChannelsTyped
        BY Types DEF IInv
    <2>. QED
        BY <2>1 DEF IInv, Threads, ThreadState, Sound, Attaching, Slot, At, ChannelsTyped, channels, SetSlot
<1>. QED
    BY <1>4, <1>5, <1>6 DEF IInv, TypeOK, DevicesTyped, ChannelsTyped

LEMMA SetAttachedSafe == IInv /\ (\E t \in Thread : SetAttached(t)) => IInv'
<1>. SUFFICES ASSUME IInv, NEW t \in Thread, SetAttached(t) PROVE IInv'
    OBVIOUS
<1>. DEFINE r == Idle
<1>1. th' = [th EXCEPT ![t] = r] /\ UNCHANGED <<devices, present>>
    BY DEF SetAttached, devices, detach
<1>2. Outside(th[t]) /\ leaving' \in Device \cup {None}
    BY DEF IInv, Threads, Outside, At, SetAttached, devices, detach
<1>3. r \in ThreadState /\ Sound(r) /\ Outside(r)
    BY IdleIsSound DEF IInv, Threads, TypeOK, ThreadState, Sound, Outside, Attaching, Idle, Slot, At, SetAttached, devices, detach
<1>4. Threads' /\ ClosingIsToken' /\ ClosingIsOpen'
    <2>. t \in Thread
        BY DEF Thread
    <2>. HIDE DEF r
    <2>. QED
        BY <1>1, <1>2, <1>3, StepOutside
<1>5. DevicesTyped'
    BY <1>1, DevicesKept
<1>6. ChannelsTyped'
    <2>1. ChannelsTyped
        BY Types DEF IInv
    <2>. QED
        BY <2>1 DEF IInv, Threads, ThreadState, Sound, Attaching, Slot, At, ChannelsTyped, channels, SetAttached
<1>. QED
    BY <1>4, <1>5, <1>6 DEF IInv, TypeOK, DevicesTyped, ChannelsTyped

LEMMA AttachFailsSafe == IInv /\ (\E p \in Channel : AttachFails(p)) => IInv'
<1>. SUFFICES ASSUME IInv, NEW p \in Channel, AttachFails(p) PROVE IInv'
    OBVIOUS
<1>. DEFINE r == [Idle EXCEPT !.pc = "getparent", !.ch = p]
<1>1. th' = [th EXCEPT ![<<p, "dispatcher">>] = r] /\ UNCHANGED <<devices, present>>
    BY DEF AttachFails, AttachEvent, devices, detach
<1>2. Outside(th[<<p, "dispatcher">>]) /\ leaving' \in Device \cup {None}
    BY DEF IInv, Threads, Outside, At, AttachFails, AttachEvent, devices, detach
<1>3. r \in ThreadState /\ Sound(r) /\ Outside(r)
    BY IdleIsSound DEF IInv, Threads, TypeOK, ThreadState, Sound, Outside, Attaching, Idle, Slot, At, AttachFails, AttachEvent, devices, detach
<1>4. Threads' /\ ClosingIsToken' /\ ClosingIsOpen'
    <2>. <<p, "dispatcher">> \in Thread
        BY DEF Thread
    <2>. HIDE DEF r
    <2>. QED
        BY <1>1, <1>2, <1>3, StepOutside
<1>5. DevicesTyped'
    BY <1>1, DevicesKept
<1>6. ChannelsTyped'
    <2>1. ChannelsTyped
        BY Types DEF IInv
    <2>. QED
        BY <2>1 DEF IInv, Threads, ThreadState, Sound, Attaching, Slot, At, ChannelsTyped, channels, AttachFails
<1>. QED
    BY <1>4, <1>5, <1>6 DEF IInv, TypeOK, DevicesTyped, ChannelsTyped

LEMMA UserCloseSafe == IInv /\ (\E p \in Channel : UserClose(p)) => IInv'
<1>. SUFFICES ASSUME IInv, NEW p \in Channel, UserClose(p) PROVE IInv'
    OBVIOUS
<1>. DEFINE r == [Idle EXCEPT !.pc = "getparent", !.ch = p]
<1>1. th' = [th EXCEPT ![<<p, "user">>] = r] /\ UNCHANGED <<devices, present>>
    BY DEF UserClose, ClosesChannel, devices, detach
<1>2. Outside(th[<<p, "user">>]) /\ leaving' \in Device \cup {None}
    BY DEF IInv, Threads, Outside, At, UserClose, ClosesChannel, devices, detach
<1>3. r \in ThreadState /\ Sound(r) /\ Outside(r)
    BY IdleIsSound DEF IInv, Threads, TypeOK, ThreadState, Sound, Outside, Attaching, Idle, Slot, At, UserClose, ClosesChannel, devices, detach
<1>4. Threads' /\ ClosingIsToken' /\ ClosingIsOpen'
    <2>. <<p, "user">> \in Thread
        BY DEF Thread
    <2>. HIDE DEF r
    <2>. QED
        BY <1>1, <1>2, <1>3, StepOutside
<1>5. DevicesTyped'
    BY <1>1, DevicesKept
<1>6. ChannelsTyped'
    <2>1. ChannelsTyped
        BY Types DEF IInv
    <2>. QED
        BY <2>1 DEF IInv, Threads, ThreadState, Sound, Attaching, Slot, At, ChannelsTyped, channels, UserClose, ClosesChannel
<1>. QED
    BY <1>4, <1>5, <1>6 DEF IInv, TypeOK, DevicesTyped, ChannelsTyped

LEMMA ServerCloseSafe == IInv /\ (\E t \in Server, s \in Slot : ServerClose(t, s)) => IInv'
<1>. SUFFICES ASSUME IInv, NEW t \in Server, NEW s \in Slot, ServerClose(t, s) PROVE IInv'
    OBVIOUS
<1>. DEFINE r == [Idle EXCEPT !.pc = "getparent", !.ch = slot[s]]
<1>1. th' = [th EXCEPT ![t] = r] /\ UNCHANGED <<devices, present>>
    BY DEF ServerClose, ClosesChannel, devices, detach
<1>2. Outside(th[t]) /\ leaving' \in Device \cup {None}
    BY DEF IInv, Threads, Outside, At, ServerClose, ClosesChannel, devices, detach
<1>3. r \in ThreadState /\ Sound(r) /\ Outside(r)
    BY ConstantsAssumption, IdleIsSound DEF IInv, Threads, TypeOK, ThreadState, Sound, Outside, Attaching, Idle, Slot, At, ServerClose, ClosesChannel, devices, detach
<1>4. Threads' /\ ClosingIsToken' /\ ClosingIsOpen'
    <2>. t \in Thread
        BY DEF Thread
    <2>. HIDE DEF r
    <2>. QED
        BY <1>1, <1>2, <1>3, StepOutside
<1>5. DevicesTyped'
    BY <1>1, DevicesKept
<1>6. ChannelsTyped'
    <2>1. ChannelsTyped
        BY Types DEF IInv
    <2>. QED
        BY <2>1 DEF IInv, Threads, ThreadState, Sound, Attaching, Slot, At, ChannelsTyped, channels, ServerClose, ClosesChannel
<1>. QED
    BY <1>4, <1>5, <1>6 DEF IInv, TypeOK, DevicesTyped, ChannelsTyped

LEMMA GetParentSafe == IInv /\ (\E t \in Thread : GetParent(t)) => IInv'
<1>. SUFFICES ASSUME IInv, NEW t \in Thread, GetParent(t) PROVE IInv'
    OBVIOUS
<1>. DEFINE r == IF HasDevice(th[t].ch)
                THEN [th[t] EXCEPT !.pc = "close", !.ch = th[t].ch, !.to = parent[th[t].ch],
                                   !.at = parent[th[t].ch], !.force = FALSE,
                                   !.owed = FALSE \/ holds[th[t].ch][parent[th[t].ch]] > 0]
                ELSE IF GivesBackSlot(t) THEN Idle ELSE [th[t] EXCEPT !.pc = "finish"]
<1>1. th' = [th EXCEPT ![t] = r] /\ UNCHANGED <<devices, present>>
    BY DEF GetParent, StartsClose, HasDevice, devices, detach
<1>2. Outside(th[t]) /\ leaving' \in Device \cup {None}
    BY DEF IInv, Threads, Outside, At, GetParent, StartsClose, HasDevice, devices, detach
<1>3. r \in ThreadState /\ Sound(r) /\ Outside(r)
    <2>1. th[t] \in ThreadState /\ th[t].ch \in Channel
        BY DEF IInv, Threads, Sound, GetParent, At
    <2>2. HasDevice(th[t].ch) => parent[th[t].ch] \in Device
        BY <2>1 DEF IInv, TypeOK, HasDevice
    <2>. DEFINE o == FALSE \/ holds[th[t].ch][parent[th[t].ch]] > 0
    <2>3. o \in BOOLEAN
        OBVIOUS
    <2>. HIDE DEF o
    <2>4. CASE HasDevice(th[t].ch)
        <3>1. r = [th[t] EXCEPT !.pc = "close", !.ch = th[t].ch, !.to = parent[th[t].ch],
                                !.at = parent[th[t].ch], !.force = FALSE, !.owed = o]
            BY <2>4 DEF o
        <3>. HIDE DEF r
        <3>. QED
            BY <3>1, <2>1, <2>2, <2>3, <2>4 DEF ThreadState, Sound, Outside, Attaching
    <2>5. CASE ~HasDevice(th[t].ch)
        BY <2>1, <2>5, IdleIsSound DEF ThreadState, Sound, Outside, Attaching
    <2>. QED
        BY <2>4, <2>5
<1>4. Threads' /\ ClosingIsToken' /\ ClosingIsOpen'
    <2>. t \in Thread
        BY DEF Thread
    <2>. HIDE DEF r
    <2>. QED
        BY <1>1, <1>2, <1>3, StepOutside
<1>5. DevicesTyped'
    BY <1>1, DevicesKept
<1>6. ChannelsTyped'
    <2>1. ChannelsTyped
        BY Types DEF IInv
    <2>. QED
        BY <2>1 DEF IInv, Threads, ThreadState, Sound, Attaching, Slot, At, ChannelsTyped, channels, GetParent
<1>. QED
    BY <1>4, <1>5, <1>6 DEF IInv, TypeOK, DevicesTyped, ChannelsTyped

LEMMA UnslotSafe == IInv /\ (\E t \in Thread : Unslot(t)) => IInv'
<1>. SUFFICES ASSUME IInv, NEW t \in Thread, Unslot(t) PROVE IInv'
    OBVIOUS
<1>. DEFINE r == IF GivesBackSlot(t) THEN Idle ELSE [th[t] EXCEPT !.pc = "finish"]
<1>1. th' = [th EXCEPT ![t] = r] /\ UNCHANGED <<devices, present>>
    BY DEF Unslot, devices, detach
<1>2. Outside(th[t]) /\ leaving' \in Device \cup {None}
    BY DEF IInv, Threads, Outside, At, Unslot, devices, detach
<1>3. r \in ThreadState /\ Sound(r) /\ Outside(r)
    BY IdleIsSound DEF IInv, Threads, TypeOK, ThreadState, Sound, Outside, Attaching, Idle, Slot, At, Unslot, devices, detach
<1>4. Threads' /\ ClosingIsToken' /\ ClosingIsOpen'
    <2>. t \in Thread
        BY DEF Thread
    <2>. HIDE DEF r
    <2>. QED
        BY <1>1, <1>2, <1>3, StepOutside
<1>5. DevicesTyped'
    BY <1>1, DevicesKept
<1>6. ChannelsTyped'
    <2>1. ChannelsTyped
        BY Types DEF IInv
    <2>. QED
        BY <2>1 DEF IInv, Threads, ThreadState, Sound, Attaching, Slot, At, ChannelsTyped, channels, Unslot
<1>. QED
    BY <1>4, <1>5, <1>6 DEF IInv, TypeOK, DevicesTyped, ChannelsTyped

LEMMA FinishSafe == IInv /\ (\E t \in Thread : Finish(t)) => IInv'
<1>. SUFFICES ASSUME IInv, NEW t \in Thread, Finish(t) PROVE IInv'
    OBVIOUS
<1>. DEFINE r == Ended(t)
<1>1. th' = [th EXCEPT ![t] = r] /\ UNCHANGED <<devices, present>>
    BY DEF Finish, Ended, devices, detach
<1>2. Outside(th[t]) /\ leaving' \in Device \cup {None}
    BY DEF IInv, Threads, Outside, At, Finish, Ended, devices, detach
<1>3. r \in ThreadState /\ Sound(r) /\ Outside(r)
    BY IdleIsSound DEF IInv, Threads, TypeOK, ThreadState, Sound, Outside, Attaching, Idle, Slot, At, Finish, Ended, devices, detach
<1>4. Threads' /\ ClosingIsToken' /\ ClosingIsOpen'
    <2>. t \in Thread
        BY DEF Thread
    <2>. HIDE DEF r
    <2>. QED
        BY <1>1, <1>2, <1>3, StepOutside
<1>5. DevicesTyped'
    BY <1>1, DevicesKept
<1>6. ChannelsTyped'
    <2>1. ChannelsTyped
        BY Types DEF IInv
    <2>. QED
        BY <2>1 DEF IInv, Threads, ThreadState, Sound, Attaching, Slot, At, ChannelsTyped, channels, Finish
<1>. QED
    BY <1>4, <1>5, <1>6 DEF IInv, TypeOK, DevicesTyped, ChannelsTyped

LEMMA DetachChannelSafe == IInv /\ (\E s \in Slot : DetachChannel(s)) => IInv'
<1>. SUFFICES ASSUME IInv, NEW s \in Slot, DetachChannel(s) PROVE IInv'
    OBVIOUS
<1>. DEFINE r == IF slot[s] \in Served /\ Has(slot[s], "OPEN")
                THEN [Idle EXCEPT !.pc = "getparent", !.ch = slot[s], !.slot = s]
                ELSE [Idle EXCEPT !.pc = "emptied", !.slot = s]
<1>1. th' = [th EXCEPT ![Central] = r] /\ UNCHANGED <<devices, present>>
    BY DEF DetachChannel, devices, detach
<1>2. Outside(th[Central]) /\ leaving' \in Device \cup {None}
    BY DEF IInv, Threads, Outside, At, DetachChannel, devices, detach
<1>3. r \in ThreadState /\ Sound(r) /\ Outside(r)
    BY ConstantsAssumption, IdleIsSound DEF IInv, Threads, TypeOK, ThreadState, Sound, Outside, Attaching, Idle, Slot, At, DetachChannel, devices, detach
<1>4. Threads' /\ ClosingIsToken' /\ ClosingIsOpen'
    <2>. Central \in Thread
        BY DEF Thread
    <2>. HIDE DEF r
    <2>. QED
        BY <1>1, <1>2, <1>3, StepOutside
<1>5. DevicesTyped'
    BY <1>1, DevicesKept
<1>6. ChannelsTyped'
    <2>1. ChannelsTyped
        BY Types DEF IInv
    <2>. QED
        BY <2>1 DEF IInv, Threads, ThreadState, Sound, Attaching, Slot, At, ChannelsTyped, channels, DetachChannel
<1>. QED
    BY <1>4, <1>5, <1>6 DEF IInv, TypeOK, DevicesTyped, ChannelsTyped

LEMMA DetachSlotSafe == IInv /\ (DetachSlot) => IInv'
<1>. SUFFICES ASSUME IInv, DetachSlot PROVE IInv'
    OBVIOUS
<1>. DEFINE r == Idle
<1>1. th' = [th EXCEPT ![Central] = r] /\ UNCHANGED <<devices, present>>
    BY DEF DetachSlot, devices, detach
<1>2. Outside(th[Central]) /\ leaving' \in Device \cup {None}
    BY DEF IInv, Threads, Outside, At, DetachSlot, devices, detach
<1>3. r \in ThreadState /\ Sound(r) /\ Outside(r)
    BY IdleIsSound DEF IInv, Threads, TypeOK, ThreadState, Sound, Outside, Attaching, Idle, Slot, At, DetachSlot, devices, detach
<1>4. Threads' /\ ClosingIsToken' /\ ClosingIsOpen'
    <2>. Central \in Thread
        BY DEF Thread
    <2>. HIDE DEF r
    <2>. QED
        BY <1>1, <1>2, <1>3, StepOutside
<1>5. DevicesTyped'
    BY <1>1, DevicesKept
<1>6. ChannelsTyped'
    <2>1. ChannelsTyped
        BY Types DEF IInv
    <2>. QED
        BY <2>1 DEF IInv, Threads, ThreadState, Sound, Attaching, Slot, At, ChannelsTyped, channels, DetachSlot
<1>. QED
    BY <1>4, <1>5, <1>6 DEF IInv, TypeOK, DevicesTyped, ChannelsTyped

LEMMA DetachDeviceSafe == IInv /\ (DetachDevice) => IInv'
<1>. SUFFICES ASSUME IInv, DetachDevice PROVE IInv'
    OBVIOUS
<1>. DEFINE r == [th[Central] EXCEPT !.pc = "close", !.ch = None, !.to = leaving, !.at = leaving,
                                 !.force = TRUE, !.owed = TRUE \/ holds[None][leaving] > 0]
<1>1. th' = [th EXCEPT ![Central] = r] /\ UNCHANGED devices
    BY DEF DetachDevice, StartsClose, devices
<1>2. Outside(th[Central]) /\ leaving' \in Device \cup {None}
    BY DEF IInv, Threads, Outside, At, DetachDevice, StartsClose, devices
<1>3. r \in ThreadState /\ Sound(r) /\ Outside(r)
    <2>1. th[Central] \in ThreadState /\ leaving \in Device
        BY DEF IInv, Threads, DetachDevice, Thread
    <2>. DEFINE o == TRUE \/ holds[None][leaving] > 0
    <2>2. o \in BOOLEAN
        OBVIOUS
    <2>. HIDE DEF o
    <2>3. r = [th[Central] EXCEPT !.pc = "close", !.ch = None, !.to = leaving, !.at = leaving,
                                  !.force = TRUE, !.owed = o]
        BY DEF o
    <2>. HIDE DEF r
    <2>. QED
        BY <2>1, <2>2, <2>3 DEF ThreadState, Sound, Outside, Attaching
<1>4. Threads' /\ ClosingIsToken' /\ ClosingIsOpen'
    <2>. Central \in Thread
        BY DEF Thread
    <2>. HIDE DEF r
    <2>. QED
        BY <1>1, <1>2, <1>3, StepOutside
<1>5. DevicesTyped'
    <2>1. DevicesTyped
        BY Types DEF IInv
    <2>. QED
        BY <2>1 DEF DevicesTyped, devices, DetachDevice, StartsClose, devices
<1>6. ChannelsTyped'
    <2>1. ChannelsTyped
        BY Types DEF IInv
    <2>. QED
        BY <2>1 DEF IInv, Threads, ThreadState, Sound, Attaching, Slot, At, ChannelsTyped, channels, DetachDevice
<1>. QED
    BY <1>4, <1>5, <1>6 DEF IInv, TypeOK, DevicesTyped, ChannelsTyped

LEMMA DetachEndsSafe == IInv /\ (DetachEnds) => IInv'
<1>. SUFFICES ASSUME IInv, DetachEnds PROVE IInv'
    OBVIOUS
<1>. DEFINE r == Idle
<1>1. th' = [th EXCEPT ![Central] = r] /\ UNCHANGED <<devices, present>>
    BY DEF DetachEnds, devices, detach
<1>2. Outside(th[Central]) /\ leaving' \in Device \cup {None}
    BY DEF IInv, Threads, Outside, At, DetachEnds, devices, detach
<1>3. r \in ThreadState /\ Sound(r) /\ Outside(r)
    BY IdleIsSound DEF IInv, Threads, TypeOK, ThreadState, Sound, Outside, Attaching, Idle, Slot, At, DetachEnds, devices, detach
<1>4. Threads' /\ ClosingIsToken' /\ ClosingIsOpen'
    <2>. Central \in Thread
        BY DEF Thread
    <2>. HIDE DEF r
    <2>. QED
        BY <1>1, <1>2, <1>3, StepOutside
<1>5. DevicesTyped'
    BY <1>1, DevicesKept
<1>6. ChannelsTyped'
    <2>1. ChannelsTyped
        BY Types DEF IInv
    <2>. QED
        BY <2>1 DEF IInv, Threads, ThreadState, Sound, Attaching, Slot, At, ChannelsTyped, channels, DetachEnds
<1>. QED
    BY <1>4, <1>5, <1>6 DEF IInv, TypeOK, DevicesTyped, ChannelsTyped

LEMMA AttachDoneSafe == IInv /\ (\E p \in Channel : AttachDone(p)) => IInv'
<1>. SUFFICES ASSUME IInv, NEW p \in Channel, AttachDone(p) PROVE IInv'
    OBVIOUS
<1>1. UNCHANGED <<devices, present, th>> /\ leaving' \in Device \cup {None}
    BY DEF IInv, Threads, detach, AttachDone
<1>2. Threads' /\ ClosingIsToken' /\ ClosingIsOpen'
    BY <1>1, StepAside
<1>3. DevicesTyped'
    BY <1>1, DevicesKept
<1>4. ChannelsTyped'
    <2>1. ChannelsTyped
        BY Types DEF IInv
    <2>. QED
        BY <2>1 DEF ChannelsTyped, channels, AttachDone
<1>. QED
    BY <1>2, <1>3, <1>4 DEF IInv, TypeOK, DevicesTyped, ChannelsTyped

LEMMA DetachDoneSafe == IInv /\ (\E p \in Channel : DetachDone(p)) => IInv'
<1>. SUFFICES ASSUME IInv, NEW p \in Channel, DetachDone(p) PROVE IInv'
    OBVIOUS
<1>1. UNCHANGED <<devices, present, th>> /\ leaving' \in Device \cup {None}
    BY DEF IInv, Threads, detach, DetachDone
<1>2. Threads' /\ ClosingIsToken' /\ ClosingIsOpen'
    BY <1>1, StepAside
<1>3. DevicesTyped'
    BY <1>1, DevicesKept
<1>4. ChannelsTyped'
    <2>1. ChannelsTyped
        BY Types DEF IInv
    <2>. QED
        BY <2>1 DEF ChannelsTyped, channels, DetachDone
<1>. QED
    BY <1>2, <1>3, <1>4 DEF IInv, TypeOK, DevicesTyped, ChannelsTyped

LEMMA UserOpenSafe == IInv /\ (\E p \in Channel : UserOpen(p)) => IInv'
<1>. SUFFICES ASSUME IInv, NEW p \in Channel, UserOpen(p) PROVE IInv'
    OBVIOUS
<1>1. UNCHANGED <<devices, present, th>> /\ leaving' \in Device \cup {None}
    BY DEF IInv, Threads, detach, UserOpen
<1>2. Threads' /\ ClosingIsToken' /\ ClosingIsOpen'
    BY <1>1, StepAside
<1>3. DevicesTyped'
    BY <1>1, DevicesKept
<1>4. ChannelsTyped'
    <2>1. ChannelsTyped
        BY Types DEF IInv
    <2>. QED
        BY <2>1 DEF ChannelsTyped, channels, UserOpen
<1>. QED
    BY <1>2, <1>3, <1>4 DEF IInv, TypeOK, DevicesTyped, ChannelsTyped

LEMMA DetachSafe == IInv /\ (\E d \in Device : Detach(d)) => IInv'
<1>. SUFFICES ASSUME IInv, NEW d \in Device, Detach(d) PROVE IInv'
    OBVIOUS
<1>1. UNCHANGED <<devices, present, th>> /\ leaving' \in Device \cup {None}
    BY DEF IInv, Threads, detach, Detach
<1>2. Threads' /\ ClosingIsToken' /\ ClosingIsOpen'
    BY <1>1, StepAside
<1>3. DevicesTyped'
    BY <1>1, DevicesKept
<1>4. ChannelsTyped'
    <2>1. ChannelsTyped
        BY Types DEF IInv
    <2>. QED
        BY <2>1 DEF ChannelsTyped, channels, Detach
<1>. QED
    BY <1>2, <1>3, <1>4 DEF IInv, TypeOK, DevicesTyped, ChannelsTyped

LEMMA OpenDeviceSafe == IInv /\ (\E t \in Thread : OpenDevice(t)) => IInv'
<1>. SUFFICES ASSUME IInv, NEW t \in Thread, OpenDevice(t) PROVE IInv'
    OBVIOUS
<1>. DEFINE d == th[t].at
<1>1. th[t] \in ThreadState /\ th[t].pc = "open" /\ d \in Device
      /\ th[t].slot \in Slot /\ th[t].to = th[t].slot[1]
    BY DEF IInv, Threads, Sound, OpenDevice, At, Attaching
<1>2. th[t].to \in Device
    BY <1>1 DEF Slot
<1>3. UNCHANGED <<closing, present, leaving, slot, parent, index>>
    BY DEF OpenDevice, detach
<1>4. PICK b \in BOOLEAN :
         /\ open[d] => b
         /\ open' = [open EXCEPT ![d] = b]
         /\ refs' = IF b THEN [refs EXCEPT ![d] = @ + 1] ELSE refs
         /\ \/ th' = [th EXCEPT ![t].ok = b, ![t].at = th[t].to] /\ UNCHANGED flags
            \/ Goto(t, "parent") /\ UNCHANGED flags
            \/ GivesUp(t)
    BY DEF OpenDevice
<1>5. DevicesTyped'
    BY <1>1, <1>3, <1>4 DEF IInv, TypeOK, DevicesTyped
<1>6. ClosingIsOpen'
    BY <1>1, <1>3, <1>4 DEF IInv, TypeOK, ClosingIsOpen
<1>7. ChannelsTyped'
    BY <1>3, <1>4 DEF IInv, TypeOK, ChannelsTyped, GivesUp
<1>8. Threads' /\ ClosingIsToken'
    <2>1. Outside(th[t]) /\ leaving' \in Device \cup {None}
        BY <1>1, <1>3 DEF Outside, IInv, Threads
    <2>2. CASE th' = [th EXCEPT ![t].ok = b, ![t].at = th[t].to]
        <3>. DEFINE r == [th[t] EXCEPT !.ok = b, !.at = th[t].to]
        <3>1. r \in ThreadState /\ Sound(r) /\ Outside(r)
            BY <1>1, <1>2 DEF ThreadState, Sound, Outside, Attaching
        <3>2. th' = [th EXCEPT ![t] = r]
            BY <2>2
        <3>. HIDE DEF r
        <3>. QED
            BY <1>3, <2>1, <3>1, <3>2, TokenOutside
    <2>3. CASE Goto(t, "parent")
        <3>. DEFINE r == [th[t] EXCEPT !.pc = "parent"]
        <3>1. r \in ThreadState /\ Sound(r) /\ Outside(r)
            BY <1>1, <1>2 DEF ThreadState, Sound, Outside, Attaching
        <3>2. th' = [th EXCEPT ![t] = r]
            BY <2>3 DEF Goto
        <3>. HIDE DEF r
        <3>. QED
            BY <1>3, <2>1, <3>1, <3>2, TokenOutside
    <2>4. CASE GivesUp(t)
        BY <1>3, <2>1, <2>4, IdleIsSound, TokenOutside DEF GivesUp
    <2>. QED
        BY <1>4, <2>2, <2>3, <2>4
<1>. QED
    BY <1>5, <1>6, <1>7, <1>8 DEF IInv, TypeOK, DevicesTyped, ChannelsTyped

\* What Dropped does to a device that is open.
LEMMA DroppedCounts ==
    ASSUME IInv, NEW t \in Thread, NEW d \in Device, open[d], Dropped(t, d), UNCHANGED present
    PROVE  /\ \A e \in Device \ {d} : refs'[e] = refs[e]
           /\ Parent[d] # None => refs'[d] = refs[d] - 1
           /\ open' \in [Device -> BOOLEAN] /\ refs' \in [Device -> Nat]
           /\ \A e \in Device : open'[e] <=> refs'[e] > 0
<1>1. refs[d] \in Nat /\ refs[d] > 0
    BY DEF IInv, TypeOK
<1>. DEFINE n == IF ByForce(t, d) /\ Parent[d] = None THEN 0 ELSE refs[d] - 1
<1>2. n \in Nat /\ (Parent[d] # None => n = refs[d] - 1)
    BY <1>1
<1>3. refs' = [refs EXCEPT ![d] = n] /\ open' = [open EXCEPT ![d] = n > 0]
    BY DEF Dropped, StillOpen
<1>. HIDE DEF n
<1>4. refs' \in [Device -> Nat] /\ refs'[d] = n /\ \A e \in Device \ {d} : refs'[e] = refs[e]
    BY <1>2, <1>3 DEF IInv, TypeOK
<1>5. (n > 0) \in BOOLEAN
    OBVIOUS
<1>6. open' \in [Device -> BOOLEAN]
    BY <1>3, <1>5 DEF IInv, TypeOK
<1>7. \A e \in Device : open'[e] <=> refs'[e] > 0
    BY <1>3, <1>4 DEF IInv, TypeOK
<1>. QED
    BY <1>2, <1>4, <1>6, <1>7

LEMMA CloseDeviceSafe == IInv /\ (\E t \in Thread : CloseDevice(t)) => IInv'
<1>. SUFFICES ASSUME IInv, NEW t \in Thread, CloseDevice(t) PROVE IInv'
    OBVIOUS
<1>. DEFINE d == th[t].at
            e == th[t].to
<1>1. th[t] \in ThreadState /\ th[t].pc = "close" /\ d \in Device /\ e \in Device
      /\ d \in {e, Parent[e]} /\ ~closing[d]
    BY DEF IInv, Threads, Sound, CloseDevice, At, MayEnter
<1>2. UNCHANGED <<present, leaving, slot, flags, parent, index>>
    BY DEF CloseDevice, detach, channels
<1>3. ChannelsTyped'
    BY <1>2 DEF IInv, TypeOK, ChannelsTyped
<1>4. ASSUME Returns(t, d), UNCHANGED closing
      PROVE  Threads' /\ ClosingIsToken'
    <2>1. CASE d # e
        <3>. DEFINE r == [th[t] EXCEPT !.pc = "back", !.at = e]
        <3>1. th' = [th EXCEPT ![t] = r]
            BY <1>4, <2>1 DEF Returns
        <3>2. r \in ThreadState /\ Sound(r)
            <4>1. d = Parent[e] /\ Parent[e] # None
                BY <1>1, <2>1, ConstantsAssumption
            <4>2. r \in ThreadState
                BY <1>1 DEF ThreadState
            <4>. QED
                BY <1>1, <4>1, <4>2 DEF ThreadState, Sound, Attaching
        <3>3. Threads'
            BY <1>2, <3>1, <3>2 DEF IInv, Threads
        <3>4. \A u \in Thread, f \in Device : ClosesParentOf(u, f)' <=> ClosesParentOf(u, f)
            BY <1>1, <2>1, <3>1 DEF IInv, Threads, ClosesParentOf, At, ThreadState
        <3>. QED
            BY <1>4, <3>3, <3>4 DEF IInv, ClosingIsToken
    <2>2. CASE d = e
        <3>. DEFINE r == [th[t] EXCEPT !.pc = IF th[t].force THEN "gone" ELSE "unslot", !.at = e]
        <3>1. th' = [th EXCEPT ![t] = r]
            BY <1>4, <2>2 DEF Returns
        <3>2. r \in ThreadState /\ Sound(r) /\ Outside(r) /\ Outside(th[t])
            BY <1>1, <2>2 DEF ThreadState, Sound, Attaching, Outside
        <3>3. leaving' \in Device \cup {None}
            BY <1>2 DEF IInv, Threads
        <3>. HIDE DEF r
        <3>. QED
            BY <1>4, <3>1, <3>2, <3>3, TokenOutside
    <2>. QED
        BY <2>1, <2>2
<1>5. CASE ~open[d] /\ Returns(t, d) /\ UNCHANGED devices
    <2>1. UNCHANGED closing
        BY <1>5 DEF devices
    <2>. QED
        BY <1>2, <1>3, <1>4, <1>5, <2>1 DEF IInv, TypeOK, ChannelsTyped, devices, ClosingIsOpen
<1>6. CASE /\ open[d] /\ Parent[d] # None
           /\ closing' = [closing EXCEPT ![d] = TRUE]
           /\ th' = [th EXCEPT ![t].at = Parent[d]]
           /\ UNCHANGED <<open, refs>>
    <2>1. d = e /\ Parent[d] \in Device /\ Parent[d] # d
        <3>1. Parent[d] \in Device /\ Parent[d] # d
            BY <1>1, <1>6, ParentOfParent
        <3>2. ASSUME d = Parent[e] PROVE FALSE
            <4>1. Parent[e] # None
                BY <1>1, <3>2, ConstantsAssumption
            <4>. QED
                BY <1>1, <1>6, <3>2, <4>1, ParentOfParent
        <3>. QED
            BY <1>1, <3>1, <3>2
    <2>. DEFINE r == [th[t] EXCEPT !.at = Parent[d]]
    <2>2. r \in ThreadState /\ Sound(r)
        BY <1>1, <2>1 DEF ThreadState, Sound, Attaching
    <2>3. Threads'
        BY <1>2, <1>6, <2>2 DEF IInv, Threads
    <2>4. \A u \in Thread, f \in Device :
             ClosesParentOf(u, f)' <=> ClosesParentOf(u, f) \/ (u = t /\ f = d)
        BY <1>1, <1>6, <2>1 DEF IInv, Threads, ClosesParentOf, At, ThreadState
    <2>5. \A u \in Thread : ~ClosesParentOf(u, d)
        BY <1>1 DEF IInv, ClosingIsToken
    <2>6. \A f \in Device : closing'[f] <=> closing[f] \/ f = d
        BY <1>1, <1>6 DEF IInv, TypeOK
    <2>7. ClosingIsToken'
        <3>1. ASSUME NEW f \in Device
              PROVE  closing'[f] <=> \E u \in Thread : ClosesParentOf(u, f)'
            BY <2>4, <2>6 DEF IInv, ClosingIsToken
        <3>2. ASSUME NEW f \in Device, NEW u \in Thread, NEW v \in Thread,
                     ClosesParentOf(u, f)', ClosesParentOf(v, f)'
              PROVE  u = v
            BY <3>2, <2>4, <2>5 DEF IInv, ClosingIsToken
        <3>. QED
            BY <3>1, <3>2 DEF ClosingIsToken
    <2>8. ClosingIsOpen'
        BY <1>1, <1>6, <2>6 DEF IInv, TypeOK, ClosingIsOpen
    <2>9. DevicesTyped'
        BY <1>1, <1>2, <1>6 DEF IInv, TypeOK, DevicesTyped
    <2>. QED
        BY <1>3, <2>3, <2>7, <2>8, <2>9 DEF IInv, TypeOK, DevicesTyped, ChannelsTyped
<1>7. CASE /\ open[d] /\ Parent[d] = None /\ Dropped(t, d) /\ Returns(t, d)
           /\ UNCHANGED closing
    <2>1. Threads' /\ ClosingIsToken'
        BY <1>4, <1>7
    <2>2. DevicesTyped'
        BY <1>1, <1>2, <1>7, DroppedCounts DEF IInv, TypeOK, DevicesTyped
    <2>3. ClosingIsOpen'
        BY <1>1, <1>2, <1>7, DroppedCounts DEF IInv, ClosingIsOpen
    <2>. QED
        BY <1>3, <2>1, <2>2, <2>3 DEF IInv, TypeOK, DevicesTyped, ChannelsTyped
<1>. QED
    BY <1>5, <1>6, <1>7 DEF CloseDevice

LEMMA CloseDeviceBackSafe == IInv /\ (\E t \in Thread : CloseDeviceBack(t)) => IInv'
<1>. SUFFICES ASSUME IInv, NEW t \in Thread, CloseDeviceBack(t) PROVE IInv'
    OBVIOUS
<1>. DEFINE d == th[t].at
<1>1. th[t] \in ThreadState /\ th[t].pc = "back" /\ d \in Device /\ th[t].to = d /\ Parent[d] # None
    BY DEF IInv, Threads, Sound, CloseDeviceBack, At
<1>2. ClosesParentOf(t, d)
    BY <1>1 DEF ClosesParentOf, At
<1>3. closing[d] /\ open[d] /\ refs[d] > 0
    BY <1>1, <1>2 DEF IInv, ClosingIsToken, ClosingIsOpen, TypeOK
<1>4. UNCHANGED <<present, leaving, slot, flags, parent, index>>
    BY DEF CloseDeviceBack, detach, channels
<1>5. ChannelsTyped'
    BY <1>4 DEF IInv, TypeOK, ChannelsTyped
<1>6. /\ \A e \in Device \ {d} : refs'[e] = refs[e]
      /\ refs'[d] = refs[d] - 1
      /\ open' \in [Device -> BOOLEAN] /\ refs' \in [Device -> Nat]
      /\ \A e \in Device : open'[e] <=> refs'[e] > 0
    BY <1>1, <1>3, <1>4, DroppedCounts DEF CloseDeviceBack
<1>7. CASE GoesRound(t, d)
    <2>1. th' = [th EXCEPT ![t].pc = "close", ![t].at = Parent[d]] /\ UNCHANGED closing /\ refs[d] > 1
        BY <1>7 DEF CloseDeviceBack, GoesRound
    <2>. DEFINE r == [th[t] EXCEPT !.pc = "close", !.at = Parent[d]]
    <2>2. r \in ThreadState /\ Sound(r) /\ Parent[d] # d
        BY <1>1, ParentOfParent DEF ThreadState, Sound, Attaching
    <2>3. Threads'
        BY <1>4, <2>1, <2>2 DEF IInv, Threads
    <2>4. \A u \in Thread, f \in Device : ClosesParentOf(u, f)' <=> ClosesParentOf(u, f)
        BY <1>1, <2>1, <2>2 DEF IInv, Threads, ClosesParentOf, At, ThreadState
    <2>5. ClosingIsToken'
        BY <2>1, <2>4 DEF IInv, ClosingIsToken
    <2>6. ClosingIsOpen'
        BY <1>1, <1>6, <2>1 DEF IInv, TypeOK, ClosingIsOpen
    <2>. QED
        BY <1>4, <1>5, <1>6, <2>1, <2>3, <2>5, <2>6 DEF IInv, TypeOK, ChannelsTyped
<1>8. CASE ~GoesRound(t, d)
    <2>1. Returns(t, d) /\ closing' = [closing EXCEPT ![d] = FALSE]
        BY <1>8 DEF CloseDeviceBack
    <2>. DEFINE r == [th[t] EXCEPT !.pc = IF th[t].force THEN "gone" ELSE "unslot", !.at = d]
    <2>2. th' = [th EXCEPT ![t] = r]
        BY <1>1, <2>1 DEF Returns
    <2>3. r \in ThreadState /\ Sound(r)
        BY <1>1 DEF ThreadState, Sound, Attaching
    <2>4. Threads'
        BY <1>4, <2>2, <2>3 DEF IInv, Threads
    <2>5. \A f \in Device : ~ClosesParentOf(t, f)'
        BY <1>1, <2>2 DEF IInv, Threads, ClosesParentOf, At, ThreadState
    <2>6. \A u \in Thread \ {t}, f \in Device : ClosesParentOf(u, f)' <=> ClosesParentOf(u, f)
        BY <2>2 DEF IInv, Threads, ClosesParentOf, At
    <2>7. \A f \in Device : f # d => ~ClosesParentOf(t, f)
        BY <1>1 DEF ClosesParentOf
    <2>8. \A f \in Device : closing'[f] <=> closing[f] /\ f # d
        BY <2>1 DEF IInv, TypeOK
    <2>9. ClosingIsToken'
        <3>1. ASSUME NEW f \in Device
              PROVE  closing'[f] <=> \E u \in Thread : ClosesParentOf(u, f)'
            <4>1. CASE f = d
                BY <1>1, <1>2, <2>5, <2>6, <2>8, <4>1 DEF IInv, ClosingIsToken
            <4>2. CASE f # d
                BY <2>5, <2>6, <2>7, <2>8, <4>2 DEF IInv, ClosingIsToken
            <4>. QED
                BY <4>1, <4>2
        <3>2. ASSUME NEW f \in Device, NEW u \in Thread, NEW v \in Thread,
                     ClosesParentOf(u, f)', ClosesParentOf(v, f)'
              PROVE  u = v
            BY <3>2, <2>5, <2>6 DEF IInv, ClosingIsToken
        <3>. QED
            BY <3>1, <3>2 DEF ClosingIsToken
    <2>10. ClosingIsOpen'
        BY <1>1, <1>6, <2>8 DEF IInv, TypeOK, ClosingIsOpen
    <2>11. closing' \in [Device -> BOOLEAN]
        BY <2>1 DEF IInv, TypeOK
    <2>. QED
        BY <1>4, <1>5, <1>6, <2>4, <2>9, <2>10, <2>11 DEF IInv, TypeOK, ChannelsTyped
<1>. QED
    BY <1>7, <1>8

-----------------------------------------------------------------------------

LEMMA StepSafe == IInv /\ [Next]_vars => IInv'
<1>. SUFFICES ASSUME IInv, [Next]_vars PROVE IInv'
    OBVIOUS
<1>1. CASE UNCHANGED vars
    BY <1>1 DEF vars, devices, channels, detach, IInv, TypeOK, Threads, ClosingIsToken,
        ClosingIsOpen, ClosesParentOf, At
<1>2. CASE Next
    <2>1. CASE \E t \in Thread : Attach(t) \/ GiveBack(t)
        BY <2>1, CheckSafe, OpenDeviceSafe, SetParentSafe, SetSlotSafe, SetAttachedSafe,
            GetParentSafe, CloseDeviceSafe, CloseDeviceBackSafe, UnslotSafe, FinishSafe
            DEF Attach, GiveBack
    <2>2. CASE \/ \E p \in Channel, s \in Slot : Match(p, s)
               \/ \E t \in Server, p \in Channel, s \in Slot : ServerOpen(t, p, s)
               \/ \E t \in Server, s \in Slot : ServerClose(t, s)
        BY <2>2, MatchSafe, ServerOpenSafe, ServerCloseSafe
    <2>3. CASE \E p \in Channel :
                  AttachDone(p) \/ AttachFails(p) \/ DetachDone(p) \/ UserOpen(p) \/ UserClose(p)
        BY <2>3, AttachDoneSafe, AttachFailsSafe, DetachDoneSafe, UserOpenSafe, UserCloseSafe
    <2>4. CASE \/ \E d \in Device : Detach(d)
               \/ \E s \in Slot : DetachChannel(s)
               \/ DetachSlot \/ DetachDevice \/ DetachEnds
        BY <2>4, DetachSafe, DetachChannelSafe, DetachSlotSafe, DetachDeviceSafe, DetachEndsSafe
    <2>. QED
        BY <1>2, <2>1, <2>2, <2>3, <2>4 DEF Next
<1>. QED
    BY <1>1, <1>2

LEMMA InductiveInvariant == Spec => []IInv
BY InitSafe, StepSafe, PTL DEF Spec

\* Every variable keeps its type, and a device is open exactly while references of its
\* connection are held: for any devices, channels, threads, failures and detaches.
THEOREM DevicesCorrect == Spec => []TypeOK
<1>1. IInv => TypeOK
    BY DEF IInv
<1>. QED
    BY <1>1, InductiveInvariant, PTL

\* CLOSING (phidget.c:709) is held by one thread, whatever channels and hubs do.
THEOREM ClosingToken == Spec => []ClosingIsToken
<1>1. IInv => ClosingIsToken
    BY DEF IInv
<1>. QED
    BY <1>1, InductiveInvariant, PTL

\* The assertion of phidget.c:735 holds.
THEOREM CloserSafe == Spec => []CloserFindsItOpen
<1>1. IInv => CloserFindsItOpen
    <2>. SUFFICES ASSUME IInv, NEW t \in Thread, At(t, "back") PROVE refs[th[t].to] > 0
        BY DEF CloserFindsItOpen
    <2>1. th[t].to \in Device /\ Parent[th[t].to] # None
        BY DEF IInv, Threads, Sound, At
    <2>2. ClosesParentOf(t, th[t].to)
        BY <2>1 DEF ClosesParentOf
    <2>. QED
        BY <2>1, <2>2 DEF IInv, ClosingIsToken, ClosingIsOpen
<1>. QED
    BY <1>1, InductiveInvariant, PTL

-----------------------------------------------------------------------------
(* The references of a device are those that somebody counts on.            *)
(*                                                                          *)
(* HeldIsOpen and OpenIsHeld are not inductive: they say that references     *)
(* are there and that none is left, and a close drops one without looking   *)
(* whose it is.  The invariant counts them.  Every reference of a device is  *)
(* matched by a claim: an open that a channel holds, one that a closer has   *)
(* still to give back, a reference of a device on a hub, or the open of the  *)
(* hub by a thread that has not opened the device yet.                      *)

\* A thread at record r is to drop a reference of d that a channel held.
Closes(r, d) == r.pc \in {"close", "back"} /\ r.to = d /\ r.owed

\* It has opened hub d, and not yet the device on it.
OpensOn(r, d) == r.pc = "open" /\ r.at = r.to /\ Parent[r.to] = d /\ r.ok

\* The references of device c that the hub has one for, each.  A thread that is back
\* from the hub has dropped that one already.
Backs(c) == \E t \in Thread : At(t, "back") /\ th[t].to = c
Matched(c) == IF Backs(c) THEN refs[c] - 1 ELSE refs[c]

Kind == {"hold", "closer", "opener", "child"}
Who == Channel \cup Thread \cup Device

IsClaim(k, w, n, d) ==
    \/ k = "hold" /\ w \in Channel /\ n < holds[w][d]
    \/ k = "closer" /\ w \in Thread /\ n = 0 /\ Closes(th[w], d)
    \/ k = "opener" /\ w \in Thread /\ n = 0 /\ OpensOn(th[w], d)
    \/ k = "child" /\ w \in Device /\ Parent[w] = d /\ n < Matched(w)

\* One for every reference of d that somebody counts on.
Claims(d) == {c \in Kind \X Who \X Nat : IsClaim(c[1], c[2], c[3], d)}

\* A device is closed by force, which takes every reference.
Forced(d) == \E t \in Thread : th[t].pc \in {"close", "back"} /\ th[t].to = d /\ th[t].force

Counted(d) ==
    /\ IsFiniteSet(Claims(d))
    /\ present[d] /\ ~stolen /\ ~orphaned => refs[d] >= Cardinality(Claims(d))
    /\ ~Forced(d) => refs[d] <= Cardinality(Claims(d))

Tidy(r) ==
    /\ r.pc \in {"check", "open"} => r.ch \in Channel
    /\ r.pc = "open" => r.at \in {r.to, Parent[r.to]}
    /\ r.pc \in {"close", "back"} /\ r.force => ~present[r.to]

\* A device is on a hub that is there, and a hub that leaves has none.
Shape ==
    /\ holds \in [Channel -> [Device -> Nat]]
    /\ \A t \in Thread : Tidy(th[t])
    /\ \A d \in Device : present[d] /\ Parent[d] # None => present[Parent[d]]
    /\ leaving # None => \A d \in Device : Parent[d] = leaving => ~present[d]

CountInv == Shape /\ \A d \in Device : Counted(d)

-----------------------------------------------------------------------------
(* Steps that add or remove a claim, or none.                               *)

LEMMA ClaimIn ==
    ASSUME NEW d, NEW k \in Kind, NEW w \in Who, NEW n \in Nat
    PROVE  <<k, w, n>> \in Claims(d) <=> IsClaim(k, w, n, d)
BY DEF Claims

LEMMA ClaimInNext ==
    ASSUME NEW d, NEW k \in Kind, NEW w \in Who, NEW n \in Nat
    PROVE  <<k, w, n>> \in Claims(d)' <=> IsClaim(k, w, n, d)'
BY DEF Claims

LEMMA ClaimsAre ==
    ASSUME NEW d, NEW c \in Claims(d)
    PROVE  \E k \in Kind, w \in Who, n \in Nat : c = <<k, w, n>>
BY DEF Claims

LEMMA ClaimsAreNext ==
    ASSUME NEW d, NEW c \in Claims(d)'
    PROVE  \E k \in Kind, w \in Who, n \in Nat : c = <<k, w, n>>
BY DEF Claims

LEMMA ClaimsStay ==
    ASSUME NEW d, \A k \in Kind, w \in Who, n \in Nat : IsClaim(k, w, n, d)' <=> IsClaim(k, w, n, d)
    PROVE  Claims(d)' = Claims(d)
<1>1. ASSUME NEW c \in Claims(d) PROVE c \in Claims(d)'
    BY ClaimsAre, ClaimIn, ClaimInNext
<1>2. ASSUME NEW c \in Claims(d)' PROVE c \in Claims(d)
    BY ClaimsAreNext, ClaimIn, ClaimInNext
<1>. QED
    BY <1>1, <1>2

\* A step adds a claim on d, takes one away, or does both.
Adds(k0, w0, n0, d) ==
    /\ ~IsClaim(k0, w0, n0, d)
    /\ \A k \in Kind, w \in Who, n \in Nat :
          IsClaim(k, w, n, d)' <=> IsClaim(k, w, n, d) \/ (k = k0 /\ w = w0 /\ n = n0)
Removes(k0, w0, n0, d) ==
    /\ IsClaim(k0, w0, n0, d)
    /\ \A k \in Kind, w \in Who, n \in Nat :
          IsClaim(k, w, n, d)' <=> IsClaim(k, w, n, d) /\ ~(k = k0 /\ w = w0 /\ n = n0)
Swaps(k0, w0, n0, k1, w1, n1, d) ==
    /\ IsClaim(k0, w0, n0, d) /\ ~IsClaim(k1, w1, n1, d)
    /\ \A k \in Kind, w \in Who, n \in Nat :
          IsClaim(k, w, n, d)' <=> \/ IsClaim(k, w, n, d) /\ ~(k = k0 /\ w = w0 /\ n = n0)
                                   \/ k = k1 /\ w = w1 /\ n = n1

LEMMA ClaimAdded ==
    ASSUME NEW d, NEW k0 \in Kind, NEW w0 \in Who, NEW n0 \in Nat, Adds(k0, w0, n0, d)
    PROVE  Claims(d)' = Claims(d) \cup {<<k0, w0, n0>>} /\ <<k0, w0, n0>> \notin Claims(d)
<1>. USE DEF Adds
<1>1. ASSUME NEW c \in Claims(d) PROVE c \in Claims(d)'
    BY ClaimsAre, ClaimIn, ClaimInNext
<1>2. <<k0, w0, n0>> \in Claims(d)' /\ <<k0, w0, n0>> \notin Claims(d)
    BY ClaimIn, ClaimInNext
<1>3. ASSUME NEW c \in Claims(d)' PROVE c \in Claims(d) \cup {<<k0, w0, n0>>}
    <2>1. PICK k \in Kind, w \in Who, n \in Nat : c = <<k, w, n>>
        BY ClaimsAreNext
    <2>2. IsClaim(k, w, n, d)'
        BY <2>1, ClaimInNext
    <2>. QED
        BY <2>1, <2>2, ClaimIn
<1>. QED
    BY <1>1, <1>2, <1>3

LEMMA ClaimRemoved ==
    ASSUME NEW d, NEW k0 \in Kind, NEW w0 \in Who, NEW n0 \in Nat, Removes(k0, w0, n0, d)
    PROVE  Claims(d)' = Claims(d) \ {<<k0, w0, n0>>} /\ <<k0, w0, n0>> \in Claims(d)
<1>. USE DEF Removes
<1>1. <<k0, w0, n0>> \in Claims(d) /\ <<k0, w0, n0>> \notin Claims(d)'
    BY ClaimIn, ClaimInNext
<1>2. ASSUME NEW c \in Claims(d)' PROVE c \in Claims(d)
    BY ClaimsAreNext, ClaimIn, ClaimInNext
<1>3. ASSUME NEW c \in Claims(d), c # <<k0, w0, n0>> PROVE c \in Claims(d)'
    <2>1. PICK k \in Kind, w \in Who, n \in Nat : c = <<k, w, n>>
        BY ClaimsAre
    <2>2. IsClaim(k, w, n, d) /\ ~(k = k0 /\ w = w0 /\ n = n0)
        BY <1>3, <2>1, ClaimIn
    <2>. QED
        BY <2>1, <2>2, ClaimInNext
<1>. QED
    BY <1>1, <1>2, <1>3

LEMMA ClaimSwapped ==
    ASSUME NEW d, NEW k0 \in Kind, NEW w0 \in Who, NEW n0 \in Nat,
           NEW k1 \in Kind, NEW w1 \in Who, NEW n1 \in Nat, Swaps(k0, w0, n0, k1, w1, n1, d)
    PROVE  \E x, y : /\ x \in Claims(d) /\ y \notin Claims(d)
                     /\ Claims(d)' = (Claims(d) \ {x}) \cup {y}
<1>. USE DEF Swaps
<1>. DEFINE x == <<k0, w0, n0>>
            y == <<k1, w1, n1>>
<1>1. x \in Claims(d) /\ y \notin Claims(d) /\ y \in Claims(d)'
    BY ClaimIn, ClaimInNext
<1>2. x \notin Claims(d)'
    <2>1. ~(k0 = k1 /\ w0 = w1 /\ n0 = n1)
        OBVIOUS
    <2>. QED
        BY <2>1, ClaimInNext
<1>3. ASSUME NEW c \in Claims(d)' PROVE c \in Claims(d) \cup {y}
    <2>1. PICK k \in Kind, w \in Who, n \in Nat : c = <<k, w, n>>
        BY ClaimsAreNext
    <2>2. IsClaim(k, w, n, d)'
        BY <2>1, ClaimInNext
    <2>. QED
        BY <2>1, <2>2, ClaimIn
<1>4. ASSUME NEW c \in Claims(d), c # x PROVE c \in Claims(d)'
    <2>1. PICK k \in Kind, w \in Who, n \in Nat : c = <<k, w, n>>
        BY ClaimsAre
    <2>2. IsClaim(k, w, n, d) /\ ~(k = k0 /\ w = w0 /\ n = n0)
        BY <1>4, <2>1, ClaimIn
    <2>. QED
        BY <2>1, <2>2, ClaimInNext
<1>. HIDE DEF x, y
<1>5. Claims(d)' = (Claims(d) \ {x}) \cup {y}
    BY <1>1, <1>2, <1>3, <1>4
<1>. QED
    BY <1>1, <1>5

\* Device d gets n references and as many claims, or what it gets matters no more.
Moves(d, n) ==
    /\ present'[d] /\ ~stolen' /\ ~orphaned' =>
          present[d] /\ ~stolen /\ ~orphaned /\ refs'[d] >= refs[d] + n
    /\ ~Forced(d)' => refs'[d] = 0 \/ (~Forced(d) /\ refs'[d] <= refs[d] + n)

LEMMA CountMoves ==
    ASSUME NEW d \in Device, Counted(d), refs[d] \in Nat, refs'[d] \in Nat, NEW n \in Int,
           Moves(d, n), IsFiniteSet(Claims(d)'),
           Cardinality(Claims(d)') = Cardinality(Claims(d)) + n
    PROVE  Counted(d)'
<1>. PICK A : A = Claims(d)
    OBVIOUS
<1>. PICK B : B = Claims(d)'
    OBVIOUS
<1>1. IsFiniteSet(A) /\ IsFiniteSet(B) /\ Cardinality(B) = Cardinality(A) + n
    BY DEF Counted
<1>2. Cardinality(A) \in Nat /\ Cardinality(B) \in Nat
    BY <1>1, FS_CardinalityType
<1>3. present'[d] /\ ~stolen' /\ ~orphaned' => refs'[d] >= Cardinality(B)
    BY <1>1, <1>2 DEF Counted, Moves
<1>4. ~Forced(d)' => refs'[d] <= Cardinality(B)
    BY <1>1, <1>2 DEF Counted, Moves
<1>. QED
    BY <1>1, <1>3, <1>4 DEF Counted

LEMMA CountStays ==
    ASSUME NEW d \in Device, Counted(d), refs[d] \in Nat, refs'[d] \in Nat,
           Moves(d, 0), Claims(d)' = Claims(d)
    PROVE  Counted(d)'
<1>1. IsFiniteSet(Claims(d)) /\ Cardinality(Claims(d)) \in Nat
    BY FS_CardinalityType DEF Counted
<1>. QED
    BY <1>1, CountMoves

LEMMA CountUp ==
    ASSUME NEW d \in Device, Counted(d), refs[d] \in Nat, refs'[d] \in Nat,
           Moves(d, 1), NEW k \in Kind, NEW w \in Who, NEW n \in Nat, Adds(k, w, n, d)
    PROVE  Counted(d)'
<1>. PICK x : x \notin Claims(d) /\ Claims(d)' = Claims(d) \cup {x}
    BY ClaimAdded
<1>1. IsFiniteSet(Claims(d))
    BY DEF Counted
<1>2. IsFiniteSet(Claims(d)') /\ Cardinality(Claims(d)') = Cardinality(Claims(d)) + 1
    BY <1>1, FS_AddElement
<1>. PICK m \in Int : m = 1
    OBVIOUS
<1>3. Moves(d, m) /\ Cardinality(Claims(d)') = Cardinality(Claims(d)) + m
    BY <1>2
<1>. QED
    BY <1>2, <1>3, CountMoves

LEMMA CountDown ==
    ASSUME NEW d \in Device, Counted(d), refs[d] \in Nat, refs'[d] \in Nat,
           Moves(d, -1), NEW k \in Kind, NEW w \in Who, NEW n \in Nat, Removes(k, w, n, d)
    PROVE  Counted(d)'
<1>. PICK x : x \in Claims(d) /\ Claims(d)' = Claims(d) \ {x}
    BY ClaimRemoved
<1>1. IsFiniteSet(Claims(d)) /\ Cardinality(Claims(d)) \in Nat
    BY FS_CardinalityType DEF Counted
<1>2. IsFiniteSet(Claims(d)') /\ Cardinality(Claims(d)') = Cardinality(Claims(d)) - 1
    BY <1>1, FS_RemoveElement
<1>. PICK m \in Int : m = -1
    OBVIOUS
<1>3. Moves(d, m) /\ Cardinality(Claims(d)') = Cardinality(Claims(d)) + m
    BY <1>1, <1>2
<1>. QED
    BY <1>2, <1>3, CountMoves

LEMMA CountSwaps ==
    ASSUME NEW d \in Device, Counted(d), refs[d] \in Nat, refs'[d] \in Nat,
           Moves(d, 0), NEW k \in Kind, NEW w \in Who, NEW n \in Nat,
           NEW k1 \in Kind, NEW w1 \in Who, NEW n1 \in Nat, Swaps(k, w, n, k1, w1, n1, d)
    PROVE  Counted(d)'
<1>. PICK x, y : /\ x \in Claims(d) /\ y \notin Claims(d)
                 /\ Claims(d)' = (Claims(d) \ {x}) \cup {y}
    BY ClaimSwapped
<1>1. IsFiniteSet(Claims(d)) /\ Cardinality(Claims(d)) \in Nat
    BY FS_CardinalityType DEF Counted
<1>2. /\ IsFiniteSet(Claims(d) \ {x}) /\ y \notin Claims(d) \ {x}
      /\ Cardinality(Claims(d) \ {x}) = Cardinality(Claims(d)) - 1
    BY <1>1, FS_RemoveElement
<1>3. IsFiniteSet(Claims(d)') /\ Cardinality(Claims(d)') = Cardinality(Claims(d) \ {x}) + 1
    BY <1>2, FS_AddElement
<1>4. Cardinality(Claims(d)') = Cardinality(Claims(d)) + 0
    BY <1>1, <1>2, <1>3
<1>. QED
    BY <1>3, <1>4, CountMoves

-----------------------------------------------------------------------------
(* A step of one thread.                                                    *)

\* What thread t contributes, from record th[t] to record r.
LEMMA ThreadMoves ==
    ASSUME IInv, NEW t \in Thread, NEW r, th' = [th EXCEPT ![t] = r]
    PROVE  /\ th'[t] = r
           /\ \A u \in Thread : u # t => th'[u] = th[u]
BY DEF IInv, Threads

LEMMA BacksMoves ==
    ASSUME IInv, NEW t \in Thread, NEW r, th' = [th EXCEPT ![t] = r],
           NEW c \in Device, (r.pc = "back" /\ r.to = c) <=> (th[t].pc = "back" /\ th[t].to = c)
    PROVE  Backs(c)' <=> Backs(c)
BY ThreadMoves DEF Backs, At

\* Record r holds d by force.
Forces(r, d) == r.pc \in {"close", "back"} /\ r.to = d /\ r.force

LEMMA ForcedMoves ==
    ASSUME IInv, NEW t \in Thread, NEW r, th' = [th EXCEPT ![t] = r],
           NEW d \in Device, Forces(th[t], d) => Forces(r, d)
    PROVE  ~Forced(d)' => ~Forced(d)
BY ThreadMoves DEF Forced, Forces

\* A step of thread t to record r makes no difference to the references of device x.
Alike(t, r, x) ==
    /\ \A p \in Channel : holds'[p][x] = holds[p][x]
    /\ Closes(r, x) <=> Closes(th[t], x)
    /\ OpensOn(r, x) <=> OpensOn(th[t], x)
    /\ \A c \in Device : Parent[c] = x => Matched(c)' = Matched(c)

LEMMA Untouched ==
    ASSUME IInv, CountInv, NEW t \in Thread, NEW r, th' = [th EXCEPT ![t] = r],
           NEW x \in Device, Alike(t, r, x)
    PROVE  Claims(x)' = Claims(x)
<1>. USE DEF Alike
<1>1. \A u \in Thread : /\ Closes(th[u], x)' <=> Closes(th[u], x)
                        /\ OpensOn(th[u], x)' <=> OpensOn(th[u], x)
    BY ThreadMoves DEF Closes, OpensOn
<1>2. ASSUME NEW k \in Kind, NEW w \in Who, NEW n \in Nat
      PROVE  IsClaim(k, w, n, x)' <=> IsClaim(k, w, n, x)
    BY <1>1 DEF IsClaim
<1>. QED
    BY <1>2, ClaimsStay

\* The thread has nothing to do with a reference.
NoClaim(r) ==
    /\ r.pc \notin {"close", "back"}
    /\ r.pc = "open" /\ r.at = r.to => Parent[r.to] = None \/ ~r.ok

\* The shape after a step that takes no device away.
LEMMA ShapeMoves ==
    ASSUME IInv, Shape, NEW t \in Thread, NEW r, th' = [th EXCEPT ![t] = r],
           Tidy(r), UNCHANGED present, holds' \in [Channel -> [Device -> Nat]],
           leaving' # None => \A d \in Device : Parent[d] = leaving' => ~present[d]
    PROVE  Shape'
<1>1. \A u \in Thread : Tidy(th[u])'
    BY ThreadMoves DEF Shape, Tidy
<1>. QED
    BY <1>1 DEF Shape

LEMMA Quiet ==
    ASSUME IInv, CountInv, NEW t \in Thread, NEW r, th' = [th EXCEPT ![t] = r],
           Tidy(r), NoClaim(r), NoClaim(th[t]),
           UNCHANGED <<refs, holds, present>>, stolen => stolen', orphaned => orphaned',
           leaving' # None => \A d \in Device : Parent[d] = leaving' => ~present[d]
    PROVE  CountInv'
<1>1. Shape'
    BY ShapeMoves DEF CountInv, Shape
<1>2. ASSUME NEW d \in Device PROVE Counted(d)'
    <2>1. ~Closes(r, d) /\ ~Closes(th[t], d) /\ ~OpensOn(r, d) /\ ~OpensOn(th[t], d)
        BY ConstantsAssumption DEF NoClaim, Closes, OpensOn
    <2>2. ASSUME NEW c \in Device PROVE Matched(c)' = Matched(c)
        <3>1. Backs(c)' <=> Backs(c)
            BY BacksMoves DEF NoClaim
        <3>. QED
            BY <3>1 DEF Matched
    <2>3. Claims(d)' = Claims(d)
        <3>1. Alike(t, r, d)
            BY <2>1, <2>2 DEF Alike
        <3>. QED
            BY <3>1, Untouched
    <2>4. ~Forced(d)' => ~Forced(d)
        BY ForcedMoves DEF NoClaim, Forces
    <2>5. refs[d] \in Nat
        BY DEF IInv, TypeOK
    <2>6. Moves(d, 0)
        BY <2>4, <2>5 DEF Moves
    <2>. QED
        BY <2>3, <2>5, <2>6, CountStays DEF CountInv
<1>. QED
    BY <1>1, <1>2 DEF CountInv

-----------------------------------------------------------------------------
(* The steps that have nothing to do with a reference.                      *)

LEMMA IdleIsQuiet == Tidy(Idle) /\ NoClaim(Idle)
BY DEF Idle, Tidy, NoClaim

LEMMA NoneLeft ==
    ASSUME CountInv, leaving' = leaving \/ leaving' = None
    PROVE  leaving' # None => \A d \in Device : Parent[d] = leaving' => ~present[d]
BY DEF CountInv, Shape

LEMMA MatchCounts == IInv /\ CountInv /\ (\E p \in Channel, s \in Slot : Match(p, s)) => CountInv'
<1>. SUFFICES ASSUME IInv, CountInv, NEW p \in Channel, NEW s \in Slot, Match(p, s) PROVE CountInv'
    OBVIOUS
<1>. DEFINE r == [Idle EXCEPT !.pc = "check", !.ch = p, !.to = s[1], !.slot = s]
<1>1. Central \in Thread
    BY DEF Thread
<1>2. th' = [th EXCEPT ![Central] = r]
    BY <1>1 DEF IInv, Threads, Match, StartsAttach
<1>3. Tidy(r) /\ NoClaim(r) /\ NoClaim(th[Central])
    BY <1>1, ConstantsAssumption DEF CountInv, Shape, IInv, Threads, Sound, Attaching, TypeOK, Tidy, NoClaim, At, Idle, Match, StartsAttach
<1>4. UNCHANGED <<refs, holds, present>> /\ (stolen => stolen') /\ (orphaned => orphaned')
    BY DEF devices, detach, history, Match, StartsAttach
<1>5. leaving' # None => \A d \in Device : Parent[d] = leaving' => ~present[d]
    BY NoneLeft DEF detach, Match, StartsAttach
<1>. HIDE DEF r
<1>. QED
    BY <1>1, <1>2, <1>3, <1>4, <1>5, Quiet

LEMMA ServerOpenCounts == IInv /\ CountInv /\ (\E t \in Server, p \in Channel, s \in Slot : ServerOpen(t, p, s)) => CountInv'
<1>. SUFFICES ASSUME IInv, CountInv, NEW t \in Server, NEW p \in Channel, NEW s \in Slot, ServerOpen(t, p, s) PROVE CountInv'
    OBVIOUS
<1>. DEFINE r == [Idle EXCEPT !.pc = "check", !.ch = p, !.to = s[1], !.slot = s]
<1>1. t \in Thread
    BY DEF Thread
<1>2. th' = [th EXCEPT ![t] = r]
    BY <1>1 DEF IInv, Threads, ServerOpen, StartsAttach
<1>3. Tidy(r) /\ NoClaim(r) /\ NoClaim(th[t])
    BY <1>1, ConstantsAssumption DEF CountInv, Shape, IInv, Threads, Sound, Attaching, TypeOK, Tidy, NoClaim, At, Idle, ServerOpen, StartsAttach
<1>4. UNCHANGED <<refs, holds, present>> /\ (stolen => stolen') /\ (orphaned => orphaned')
    BY DEF devices, detach, history, ServerOpen, StartsAttach
<1>5. leaving' # None => \A d \in Device : Parent[d] = leaving' => ~present[d]
    BY NoneLeft DEF detach, ServerOpen, StartsAttach
<1>. HIDE DEF r
<1>. QED
    BY <1>1, <1>2, <1>3, <1>4, <1>5, Quiet

LEMMA CheckCounts == IInv /\ CountInv /\ (\E t \in Thread : Check(t)) => CountInv'
<1>. SUFFICES ASSUME IInv, CountInv, NEW t \in Thread, Check(t) PROVE CountInv'
    OBVIOUS
<1>. DEFINE r == IF Has(th[t].ch, "OPEN") /\ ~Excluded(th[t].slot)
                THEN [th[t] EXCEPT !.pc = "open", !.at = Root(th[t].slot[1])] ELSE Idle
<1>1. t \in Thread
    BY DEF Thread
<1>2. th' = [th EXCEPT ![t] = r]
    BY <1>1 DEF IInv, Threads, Check, GivesUp, Root
<1>3. Tidy(r) /\ NoClaim(r) /\ NoClaim(th[t])
    <2>1. th[t].pc = "check" /\ th[t].slot \in Slot /\ th[t].to = th[t].slot[1] /\ th[t].ch \in Channel
        BY DEF CountInv, Shape, IInv, Threads, Sound, Attaching, Tidy, At, Check
    <2>2. th[t].to \in Device
        BY <2>1 DEF Slot
    <2>3. CASE r = Idle
        BY <2>1, <2>3, IdleIsQuiet DEF NoClaim
    <2>4. CASE r = [th[t] EXCEPT !.pc = "open", !.at = Root(th[t].to)]
        <3>1. /\ r.pc = "open" /\ r.ch = th[t].ch /\ r.to = th[t].to /\ r.at = Root(th[t].to)
            <4>. HIDE DEF r
            <4>1. th[t] \in ThreadState
                BY DEF IInv, Threads
            <4>. QED
                BY <2>4, <4>1 DEF ThreadState
        <3>2. Root(th[t].to) \in {th[t].to, Parent[th[t].to]}
            BY DEF Root
        <3>3. Root(th[t].to) = th[t].to => Parent[th[t].to] = None
            BY <2>2, ParentOfParent DEF Root
        <3>. QED
            BY <2>1, <3>1, <3>2, <3>3 DEF Tidy, NoClaim
    <2>. QED
        BY <2>1, <2>3, <2>4
<1>4. UNCHANGED <<refs, holds, present>> /\ (stolen => stolen') /\ (orphaned => orphaned')
    BY DEF devices, detach, history, Check, GivesUp, Root
<1>5. leaving' # None => \A d \in Device : Parent[d] = leaving' => ~present[d]
    BY NoneLeft DEF detach, Check, GivesUp, Root
<1>. HIDE DEF r
<1>. QED
    BY <1>1, <1>2, <1>3, <1>4, <1>5, Quiet

LEMMA SetParentCounts == IInv /\ CountInv /\ (\E t \in Thread : SetParent(t)) => CountInv'
<1>. SUFFICES ASSUME IInv, CountInv, NEW t \in Thread, SetParent(t) PROVE CountInv'
    OBVIOUS
<1>. DEFINE r == [th[t] EXCEPT !.pc = "slot"]
<1>1. t \in Thread
    BY DEF Thread
<1>2. th' = [th EXCEPT ![t] = r]
    BY <1>1 DEF IInv, Threads, SetParent, Goto
<1>3. Tidy(r) /\ NoClaim(r) /\ NoClaim(th[t])
    BY <1>1, ConstantsAssumption DEF CountInv, Shape, IInv, Threads, Sound, Attaching, TypeOK, Tidy, NoClaim, At, Idle, SetParent, Goto
<1>4. UNCHANGED <<refs, holds, present>> /\ (stolen => stolen') /\ (orphaned => orphaned')
    BY DEF devices, detach, history, SetParent, Goto
<1>5. leaving' # None => \A d \in Device : Parent[d] = leaving' => ~present[d]
    BY NoneLeft DEF detach, SetParent, Goto
<1>. HIDE DEF r
<1>. QED
    BY <1>1, <1>2, <1>3, <1>4, <1>5, Quiet

LEMMA SetSlotCounts == IInv /\ CountInv /\ (\E t \in Thread : SetSlot(t)) => CountInv'
<1>. SUFFICES ASSUME IInv, CountInv, NEW t \in Thread, SetSlot(t) PROVE CountInv'
    OBVIOUS
<1>. DEFINE r == [th[t] EXCEPT !.pc = "attached"]
<1>1. t \in Thread
    BY DEF Thread
<1>2. th' = [th EXCEPT ![t] = r]
    BY <1>1 DEF IInv, Threads, SetSlot, Goto
<1>3. Tidy(r) /\ NoClaim(r) /\ NoClaim(th[t])
    BY <1>1, ConstantsAssumption DEF CountInv, Shape, IInv, Threads, Sound, Attaching, TypeOK, Tidy, NoClaim, At, Idle, SetSlot, Goto
<1>4. UNCHANGED <<refs, holds, present>> /\ (stolen => stolen') /\ (orphaned => orphaned')
    BY DEF devices, detach, history, SetSlot, Goto
<1>5. leaving' # None => \A d \in Device : Parent[d] = leaving' => ~present[d]
    BY NoneLeft DEF detach, SetSlot, Goto
<1>. HIDE DEF r
<1>. QED
    BY <1>1, <1>2, <1>3, <1>4, <1>5, Quiet

LEMMA SetAttachedCounts == IInv /\ CountInv /\ (\E t \in Thread : SetAttached(t)) => CountInv'
<1>. SUFFICES ASSUME IInv, CountInv, NEW t \in Thread, SetAttached(t) PROVE CountInv'
    OBVIOUS
<1>. DEFINE r == Idle
<1>1. t \in Thread
    BY DEF Thread
<1>2. th' = [th EXCEPT ![t] = r]
    BY <1>1 DEF IInv, Threads, SetAttached
<1>3. Tidy(r) /\ NoClaim(r) /\ NoClaim(th[t])
    BY <1>1, ConstantsAssumption DEF CountInv, Shape, IInv, Threads, Sound, Attaching, TypeOK, Tidy, NoClaim, At, Idle, SetAttached
<1>4. UNCHANGED <<refs, holds, present>> /\ (stolen => stolen') /\ (orphaned => orphaned')
    BY DEF devices, detach, history, SetAttached
<1>5. leaving' # None => \A d \in Device : Parent[d] = leaving' => ~present[d]
    BY NoneLeft DEF detach, SetAttached
<1>. HIDE DEF r
<1>. QED
    BY <1>1, <1>2, <1>3, <1>4, <1>5, Quiet

LEMMA AttachDoneCounts == IInv /\ CountInv /\ (\E p \in Channel : AttachDone(p)) => CountInv'
<1>. SUFFICES ASSUME IInv, CountInv, NEW p \in Channel, AttachDone(p) PROVE CountInv'
    OBVIOUS
<1>. DEFINE r == th[<<p, "dispatcher">>]
<1>1. <<p, "dispatcher">> \in Thread
    BY DEF Thread
<1>2. th' = [th EXCEPT ![<<p, "dispatcher">>] = r]
    BY <1>1 DEF IInv, Threads, AttachDone, AttachEvent
<1>3. Tidy(r) /\ NoClaim(r) /\ NoClaim(th[<<p, "dispatcher">>])
    BY <1>1, ConstantsAssumption DEF CountInv, Shape, IInv, Threads, Sound, Attaching, TypeOK, Tidy, NoClaim, At, Idle, AttachDone, AttachEvent
<1>4. UNCHANGED <<refs, holds, present>> /\ (stolen => stolen') /\ (orphaned => orphaned')
    BY DEF devices, detach, history, AttachDone, AttachEvent
<1>5. leaving' # None => \A d \in Device : Parent[d] = leaving' => ~present[d]
    BY NoneLeft DEF detach, AttachDone, AttachEvent
<1>. HIDE DEF r
<1>. QED
    BY <1>1, <1>2, <1>3, <1>4, <1>5, Quiet

LEMMA AttachFailsCounts == IInv /\ CountInv /\ (\E p \in Channel : AttachFails(p)) => CountInv'
<1>. SUFFICES ASSUME IInv, CountInv, NEW p \in Channel, AttachFails(p) PROVE CountInv'
    OBVIOUS
<1>. DEFINE r == [Idle EXCEPT !.pc = "getparent", !.ch = p]
<1>1. <<p, "dispatcher">> \in Thread
    BY DEF Thread
<1>2. th' = [th EXCEPT ![<<p, "dispatcher">>] = r]
    BY <1>1 DEF IInv, Threads, AttachFails, AttachEvent
<1>3. Tidy(r) /\ NoClaim(r) /\ NoClaim(th[<<p, "dispatcher">>])
    BY <1>1, ConstantsAssumption DEF CountInv, Shape, IInv, Threads, Sound, Attaching, TypeOK, Tidy, NoClaim, At, Idle, AttachFails, AttachEvent
<1>4. UNCHANGED <<refs, holds, present>> /\ (stolen => stolen') /\ (orphaned => orphaned')
    BY DEF devices, detach, history, AttachFails, AttachEvent
<1>5. leaving' # None => \A d \in Device : Parent[d] = leaving' => ~present[d]
    BY NoneLeft DEF detach, AttachFails, AttachEvent
<1>. HIDE DEF r
<1>. QED
    BY <1>1, <1>2, <1>3, <1>4, <1>5, Quiet

LEMMA DetachDoneCounts == IInv /\ CountInv /\ (\E p \in Channel : DetachDone(p)) => CountInv'
<1>. SUFFICES ASSUME IInv, CountInv, NEW p \in Channel, DetachDone(p) PROVE CountInv'
    OBVIOUS
<1>. DEFINE r == th[<<p, "dispatcher">>]
<1>1. <<p, "dispatcher">> \in Thread
    BY DEF Thread
<1>2. th' = [th EXCEPT ![<<p, "dispatcher">>] = r]
    BY <1>1 DEF IInv, Threads, DetachDone
<1>3. Tidy(r) /\ NoClaim(r) /\ NoClaim(th[<<p, "dispatcher">>])
    BY <1>1, ConstantsAssumption DEF CountInv, Shape, IInv, Threads, Sound, Attaching, TypeOK, Tidy, NoClaim, At, Idle, DetachDone
<1>4. UNCHANGED <<refs, holds, present>> /\ (stolen => stolen') /\ (orphaned => orphaned')
    BY DEF devices, detach, history, DetachDone
<1>5. leaving' # None => \A d \in Device : Parent[d] = leaving' => ~present[d]
    BY NoneLeft DEF detach, DetachDone
<1>. HIDE DEF r
<1>. QED
    BY <1>1, <1>2, <1>3, <1>4, <1>5, Quiet

LEMMA UserOpenCounts == IInv /\ CountInv /\ (\E p \in Channel : UserOpen(p)) => CountInv'
<1>. SUFFICES ASSUME IInv, CountInv, NEW p \in Channel, UserOpen(p) PROVE CountInv'
    OBVIOUS
<1>. DEFINE r == th[<<p, "user">>]
<1>1. <<p, "user">> \in Thread
    BY DEF Thread
<1>2. th' = [th EXCEPT ![<<p, "user">>] = r]
    BY <1>1 DEF IInv, Threads, UserOpen
<1>3. Tidy(r) /\ NoClaim(r) /\ NoClaim(th[<<p, "user">>])
    BY <1>1, ConstantsAssumption DEF CountInv, Shape, IInv, Threads, Sound, Attaching, TypeOK, Tidy, NoClaim, At, Idle, UserOpen
<1>4. UNCHANGED <<refs, holds, present>> /\ (stolen => stolen') /\ (orphaned => orphaned')
    BY DEF devices, detach, history, UserOpen
<1>5. leaving' # None => \A d \in Device : Parent[d] = leaving' => ~present[d]
    BY NoneLeft DEF detach, UserOpen
<1>. HIDE DEF r
<1>. QED
    BY <1>1, <1>2, <1>3, <1>4, <1>5, Quiet

LEMMA UserCloseCounts == IInv /\ CountInv /\ (\E p \in Channel : UserClose(p)) => CountInv'
<1>. SUFFICES ASSUME IInv, CountInv, NEW p \in Channel, UserClose(p) PROVE CountInv'
    OBVIOUS
<1>. DEFINE r == [Idle EXCEPT !.pc = "getparent", !.ch = p]
<1>1. <<p, "user">> \in Thread
    BY DEF Thread
<1>2. th' = [th EXCEPT ![<<p, "user">>] = r]
    BY <1>1 DEF IInv, Threads, UserClose, ClosesChannel
<1>3. Tidy(r) /\ NoClaim(r) /\ NoClaim(th[<<p, "user">>])
    BY <1>1, ConstantsAssumption DEF CountInv, Shape, IInv, Threads, Sound, Attaching, TypeOK, Tidy, NoClaim, At, Idle, UserClose, ClosesChannel
<1>4. UNCHANGED <<refs, holds, present>> /\ (stolen => stolen') /\ (orphaned => orphaned')
    BY DEF devices, detach, history, UserClose, ClosesChannel
<1>5. leaving' # None => \A d \in Device : Parent[d] = leaving' => ~present[d]
    BY NoneLeft DEF detach, UserClose, ClosesChannel
<1>. HIDE DEF r
<1>. QED
    BY <1>1, <1>2, <1>3, <1>4, <1>5, Quiet

LEMMA ServerCloseCounts == IInv /\ CountInv /\ (\E t \in Server, s \in Slot : ServerClose(t, s)) => CountInv'
<1>. SUFFICES ASSUME IInv, CountInv, NEW t \in Server, NEW s \in Slot, ServerClose(t, s) PROVE CountInv'
    OBVIOUS
<1>. DEFINE r == [Idle EXCEPT !.pc = "getparent", !.ch = slot[s]]
<1>1. t \in Thread
    BY DEF Thread
<1>2. th' = [th EXCEPT ![t] = r]
    BY <1>1 DEF IInv, Threads, ServerClose, ClosesChannel
<1>3. Tidy(r) /\ NoClaim(r) /\ NoClaim(th[t])
    BY <1>1, ConstantsAssumption DEF CountInv, Shape, IInv, Threads, Sound, Attaching, TypeOK, Tidy, NoClaim, At, Idle, ServerClose, ClosesChannel
<1>4. UNCHANGED <<refs, holds, present>> /\ (stolen => stolen') /\ (orphaned => orphaned')
    BY DEF devices, detach, history, ServerClose, ClosesChannel
<1>5. leaving' # None => \A d \in Device : Parent[d] = leaving' => ~present[d]
    BY NoneLeft DEF detach, ServerClose, ClosesChannel
<1>. HIDE DEF r
<1>. QED
    BY <1>1, <1>2, <1>3, <1>4, <1>5, Quiet

LEMMA UnslotCounts == IInv /\ CountInv /\ (\E t \in Thread : Unslot(t)) => CountInv'
<1>. SUFFICES ASSUME IInv, CountInv, NEW t \in Thread, Unslot(t) PROVE CountInv'
    OBVIOUS
<1>. DEFINE r == IF GivesBackSlot(t) THEN Idle ELSE [th[t] EXCEPT !.pc = "finish"]
<1>1. t \in Thread
    BY DEF Thread
<1>2. th' = [th EXCEPT ![t] = r]
    BY <1>1 DEF IInv, Threads, Unslot
<1>3. Tidy(r) /\ NoClaim(r) /\ NoClaim(th[t])
    BY <1>1, ConstantsAssumption DEF CountInv, Shape, IInv, Threads, Sound, Attaching, TypeOK, Tidy, NoClaim, At, Idle, Unslot
<1>4. UNCHANGED <<refs, holds, present>> /\ (stolen => stolen') /\ (orphaned => orphaned')
    BY DEF devices, detach, history, Unslot
<1>5. leaving' # None => \A d \in Device : Parent[d] = leaving' => ~present[d]
    BY NoneLeft DEF detach, Unslot
<1>. HIDE DEF r
<1>. QED
    BY <1>1, <1>2, <1>3, <1>4, <1>5, Quiet

LEMMA FinishCounts == IInv /\ CountInv /\ (\E t \in Thread : Finish(t)) => CountInv'
<1>. SUFFICES ASSUME IInv, CountInv, NEW t \in Thread, Finish(t) PROVE CountInv'
    OBVIOUS
<1>. DEFINE r == Ended(t)
<1>1. t \in Thread
    BY DEF Thread
<1>2. th' = [th EXCEPT ![t] = r]
    BY <1>1 DEF IInv, Threads, Finish, Ended
<1>3. Tidy(r) /\ NoClaim(r) /\ NoClaim(th[t])
    BY <1>1, ConstantsAssumption DEF CountInv, Shape, IInv, Threads, Sound, Attaching, TypeOK, Tidy, NoClaim, At, Idle, Finish, Ended
<1>4. UNCHANGED <<refs, holds, present>> /\ (stolen => stolen') /\ (orphaned => orphaned')
    BY DEF devices, detach, history, Finish, Ended
<1>5. leaving' # None => \A d \in Device : Parent[d] = leaving' => ~present[d]
    BY NoneLeft DEF detach, Finish, Ended
<1>. HIDE DEF r
<1>. QED
    BY <1>1, <1>2, <1>3, <1>4, <1>5, Quiet

LEMMA DetachCounts == IInv /\ CountInv /\ (\E d \in Device : Detach(d)) => CountInv'
<1>. SUFFICES ASSUME IInv, CountInv, NEW d \in Device, Detach(d) PROVE CountInv'
    OBVIOUS
<1>. DEFINE r == th[Central]
<1>1. Central \in Thread
    BY DEF Thread
<1>2. th' = [th EXCEPT ![Central] = r]
    BY <1>1 DEF IInv, Threads, Detach
<1>3. Tidy(r) /\ NoClaim(r) /\ NoClaim(th[Central])
    BY <1>1, ConstantsAssumption DEF CountInv, Shape, IInv, Threads, Sound, Attaching, TypeOK, Tidy, NoClaim, At, Idle, Detach
<1>4. UNCHANGED <<refs, holds, present>> /\ (stolen => stolen') /\ (orphaned => orphaned')
    BY DEF devices, detach, history, Detach
<1>5. leaving' # None => \A c \in Device : Parent[c] = leaving' => ~present[c]
    BY DEF Detach
<1>. HIDE DEF r
<1>. QED
    BY <1>1, <1>2, <1>3, <1>4, <1>5, Quiet

LEMMA DetachChannelCounts == IInv /\ CountInv /\ (\E s \in Slot : DetachChannel(s)) => CountInv'
<1>. SUFFICES ASSUME IInv, CountInv, NEW s \in Slot, DetachChannel(s) PROVE CountInv'
    OBVIOUS
<1>. DEFINE r == IF slot[s] \in Served /\ Has(slot[s], "OPEN")
                THEN [Idle EXCEPT !.pc = "getparent", !.ch = slot[s], !.slot = s]
                ELSE [Idle EXCEPT !.pc = "emptied", !.slot = s]
<1>1. Central \in Thread
    BY DEF Thread
<1>2. th' = [th EXCEPT ![Central] = r]
    BY <1>1 DEF IInv, Threads, DetachChannel
<1>3. Tidy(r) /\ NoClaim(r) /\ NoClaim(th[Central])
    BY <1>1, ConstantsAssumption DEF CountInv, Shape, IInv, Threads, Sound, Attaching, TypeOK, Tidy, NoClaim, At, Idle, DetachChannel
<1>4. UNCHANGED <<refs, holds, present>> /\ (stolen => stolen') /\ (orphaned => orphaned')
    BY DEF devices, detach, history, DetachChannel
<1>5. leaving' # None => \A d \in Device : Parent[d] = leaving' => ~present[d]
    BY NoneLeft DEF detach, DetachChannel
<1>. HIDE DEF r
<1>. QED
    BY <1>1, <1>2, <1>3, <1>4, <1>5, Quiet

LEMMA DetachSlotCounts == IInv /\ CountInv /\ (DetachSlot) => CountInv'
<1>. SUFFICES ASSUME IInv, CountInv, DetachSlot PROVE CountInv'
    OBVIOUS
<1>. DEFINE r == Idle
<1>1. Central \in Thread
    BY DEF Thread
<1>2. th' = [th EXCEPT ![Central] = r]
    BY <1>1 DEF IInv, Threads, DetachSlot
<1>3. Tidy(r) /\ NoClaim(r) /\ NoClaim(th[Central])
    BY <1>1, ConstantsAssumption DEF CountInv, Shape, IInv, Threads, Sound, Attaching, TypeOK, Tidy, NoClaim, At, Idle, DetachSlot
<1>4. UNCHANGED <<refs, holds, present>> /\ (stolen => stolen') /\ (orphaned => orphaned')
    BY DEF devices, detach, history, DetachSlot
<1>5. leaving' # None => \A d \in Device : Parent[d] = leaving' => ~present[d]
    BY NoneLeft DEF detach, DetachSlot
<1>. HIDE DEF r
<1>. QED
    BY <1>1, <1>2, <1>3, <1>4, <1>5, Quiet

LEMMA DetachEndsCounts == IInv /\ CountInv /\ (DetachEnds) => CountInv'
<1>. SUFFICES ASSUME IInv, CountInv, DetachEnds PROVE CountInv'
    OBVIOUS
<1>. DEFINE r == Idle
<1>1. Central \in Thread
    BY DEF Thread
<1>2. th' = [th EXCEPT ![Central] = r]
    BY <1>1 DEF IInv, Threads, DetachEnds
<1>3. Tidy(r) /\ NoClaim(r) /\ NoClaim(th[Central])
    BY <1>1, ConstantsAssumption DEF CountInv, Shape, IInv, Threads, Sound, Attaching, TypeOK, Tidy, NoClaim, At, Idle, DetachEnds
<1>4. UNCHANGED <<refs, holds, present>> /\ (stolen => stolen') /\ (orphaned => orphaned')
    BY DEF devices, detach, history, DetachEnds
<1>5. leaving' # None => \A d \in Device : Parent[d] = leaving' => ~present[d]
    BY NoneLeft DEF detach, DetachEnds
<1>. HIDE DEF r
<1>. QED
    BY <1>1, <1>2, <1>3, <1>4, <1>5, Quiet

-----------------------------------------------------------------------------
(* A close begins: the reference that a channel held is the closer's.       *)

LEMMA GetParentCounts == IInv /\ CountInv /\ (\E t \in Thread : GetParent(t)) => CountInv'
<1>. SUFFICES ASSUME IInv, CountInv, NEW t \in Thread, GetParent(t) PROVE CountInv'
    OBVIOUS
<1>. PICK p : p = th[t].ch
    OBVIOUS
<1>. PICK d : d = parent[p]
    OBVIOUS
<1>1. p \in Channel /\ th[t].pc = "getparent" /\ d \in Device \cup {None}
    BY DEF GetParent, At, IInv, Threads, Sound, TypeOK
<1>2. UNCHANGED <<refs, present, leaving, stolen, orphaned>> /\ NoClaim(th[t])
    BY <1>1 DEF GetParent, devices, detach, NoClaim
<1>3. leaving' # None => \A c \in Device : Parent[c] = leaving' => ~present[c]
    BY <1>2, NoneLeft
<1>4. CASE ~HasDevice(p)
    <2>. DEFINE r == IF GivesBackSlot(t) THEN Idle ELSE [th[t] EXCEPT !.pc = "finish"]
    <2>1. th' = [th EXCEPT ![t] = r] /\ UNCHANGED holds
        BY <1>4 DEF GetParent, IInv, Threads
    <2>2. Tidy(r) /\ NoClaim(r)
        <3>1. th[t] \in ThreadState
            BY DEF IInv, Threads
        <3>. QED
            BY <3>1, IdleIsQuiet DEF ThreadState, Tidy, NoClaim
    <2>. HIDE DEF r
    <2>. QED
        BY <1>2, <1>3, <2>1, <2>2, Quiet
<1>5. CASE HasDevice(p)
    <2>. PICK r : r = [th[t] EXCEPT !.pc = "close", !.ch = p, !.to = d, !.at = d,
                              !.force = FALSE, !.owed = FALSE \/ holds[p][d] > 0]
        OBVIOUS
    <2>1. d \in Device
        BY <1>1, <1>5 DEF HasDevice
    <2>2. /\ th' = [th EXCEPT ![t] = r]
          /\ holds' = IF holds[p][d] > 0 THEN [holds EXCEPT ![p][d] = @ - 1] ELSE holds
        BY <1>5 DEF GetParent, StartsClose
    <2>3. r.pc = "close" /\ r.to = d /\ ~r.force /\ (r.owed <=> holds[p][d] > 0)
        <3>1. th[t] \in ThreadState
            BY DEF IInv, Threads
        <3>. QED
            BY <3>1 DEF ThreadState
    <2>4. holds \in [Channel -> [Device -> Nat]]
        BY DEF CountInv, Shape
    <2>5. holds' \in [Channel -> [Device -> Nat]]
        BY <1>1, <2>1, <2>2, <2>4
    <2>6. Tidy(r)
        BY <2>3 DEF Tidy
    <2>7. Shape'
        BY <1>2, <1>3, <2>2, <2>5, <2>6, ShapeMoves DEF CountInv
    <2>8. \A c \in Device : Matched(c)' = Matched(c)
        BY <1>1, <1>2, <2>2, <2>3, BacksMoves DEF Matched
    <2>9. \A x \in Device : ~Closes(th[t], x) /\ ~OpensOn(th[t], x) /\ ~OpensOn(r, x)
        BY <1>1, <2>3 DEF Closes, OpensOn
    <2>10. \A x \in Device : Counted(x) /\ refs[x] \in Nat /\ refs'[x] \in Nat /\ Moves(x, 0)
        <3>. SUFFICES ASSUME NEW x \in Device
                      PROVE  Counted(x) /\ refs[x] \in Nat /\ refs'[x] \in Nat /\ Moves(x, 0)
            OBVIOUS
        <3>1. ~Forced(x)' => ~Forced(x)
            BY <1>1, <2>2, <2>3, ForcedMoves DEF Forces
        <3>2. refs[x] \in Nat /\ Counted(x)
            BY DEF IInv, TypeOK, CountInv
        <3>. QED
            BY <1>2, <3>1, <3>2 DEF Moves
    <2>11. ASSUME NEW x \in Device PROVE Counted(x)'
        <3>1. CASE x = d /\ holds[p][d] > 0
            <4>. PICK m \in Int : m = holds[p][d] - 1
                BY <1>1, <2>1, <2>4
            <4>1. m \in Nat /\ holds'[p][d] = m /\ \A q \in Channel : q # p => holds'[q][d] = holds[q][d]
                BY <1>1, <2>1, <2>2, <2>4, <3>1
            <4>2. "hold" \in Kind /\ "closer" \in Kind /\ p \in Who /\ t \in Who /\ 0 \in Nat
                BY <1>1 DEF Kind, Who
            <4>3. IsClaim("hold", p, m, d) /\ ~IsClaim("closer", t, 0, d)
                BY <1>1, <2>1, <2>4, <2>9, <4>1 DEF IsClaim
            <4>4. /\ \A q \in Channel : \A n \in Nat :
                        n < holds'[q][d] <=> n < holds[q][d] /\ ~(q = p /\ n = m)
                BY <1>1, <2>1, <2>4, <4>1
            <4>5. /\ Closes(th'[t], d)
                  /\ \A u \in Thread : /\ u # t => th'[u] = th[u]
                                       /\ ~OpensOn(th'[t], d)
                <5>1. Closes(r, d) /\ ~OpensOn(r, d)
                    BY <2>1, <2>3, <2>9, <3>1 DEF Closes
                <5>. QED
                    BY <2>2, <5>1, ThreadMoves
            <4>6. Swaps("hold", p, m, "closer", t, 0, d)
                BY <2>8, <2>9, <2>1, <4>3, <4>4, <4>5 DEF IsClaim, Swaps
            <4>. QED
                BY <2>1, <2>10, <3>1, <4>1, <4>2, <4>6, CountSwaps
        <3>2. CASE x # d \/ ~(holds[p][d] > 0)
            <4>1. \A q \in Channel : holds'[q][x] = holds[q][x]
                BY <1>1, <2>1, <2>2, <2>4, <3>2
            <4>2. ~Closes(r, x)
                BY <2>3, <3>2 DEF Closes
            <4>3. Claims(x)' = Claims(x)
                <5>1. Alike(t, r, x)
                    BY <2>8, <2>9, <4>1, <4>2 DEF Alike
                <5>. QED
                    BY <2>2, <5>1, Untouched
            <4>. QED
                BY <2>10, <4>3, CountStays
        <3>. QED
            BY <3>1, <3>2
    <2>. QED
        BY <2>7, <2>11 DEF CountInv
<1>. QED
    BY <1>4, <1>5

-----------------------------------------------------------------------------
(* A device is opened: the reference of the hub is the opener's, then the   *)
(* device's; that of the device is the channel's.                           *)

LEMMA BackIsOpen ==
    ASSUME IInv, NEW c \in Device, Backs(c)
    PROVE  closing[c] /\ refs[c] > 0
<1>. PICK t \in Thread : th[t].pc = "back" /\ th[t].to = c
    BY DEF Backs, At
<1>1. ClosesParentOf(t, c)
    BY DEF IInv, Threads, Sound, ClosesParentOf, At
<1>2. closing[c]
    BY <1>1 DEF IInv, ClosingIsToken
<1>. QED
    BY <1>2 DEF IInv, ClosingIsOpen

LEMMA MatchedType ==
    ASSUME IInv, NEW c \in Device
    PROVE  Matched(c) \in Nat
<1>1. refs[c] \in Nat
    BY DEF IInv, TypeOK
<1>2. CASE Backs(c)
    BY <1>1, <1>2, BackIsOpen DEF Matched
<1>3. CASE ~Backs(c)
    BY <1>1, <1>3 DEF Matched
<1>. QED
    BY <1>2, <1>3

\* The hub of the device that thread t attaches to is open now.
LEMMA HubOpens ==
    ASSUME IInv, CountInv, NEW t \in Thread, NEW h \in Device,
           th[t].pc = "open", th[t].to \in Device, Parent[th[t].to] = h, th[t].at = h, h # th[t].to,
           th' = [th EXCEPT ![t].ok = TRUE, ![t].at = th[t].to],
           refs' = [refs EXCEPT ![h] = @ + 1],
           UNCHANGED <<holds, present, leaving, stolen>>, orphaned => orphaned'
    PROVE  CountInv'
<1>. PICK r : r = [th[t] EXCEPT !.ok = TRUE, !.at = th[t].to]
    OBVIOUS
<1>1. th' = [th EXCEPT ![t] = r]
    OBVIOUS
<1>2. r.pc = "open" /\ r.to = th[t].to /\ r.at = th[t].to /\ r.ch = th[t].ch /\ r.ok
    <2>1. th[t] \in ThreadState
        BY DEF IInv, Threads
    <2>. QED
        BY <2>1 DEF ThreadState
<1>3. Tidy(r)
    BY <1>2 DEF CountInv, Shape, Tidy
<1>4. Shape'
    <2>1. leaving' # None => \A c \in Device : Parent[c] = leaving' => ~present[c]
        BY NoneLeft
    <2>. QED
        BY <1>1, <1>3, <2>1, ShapeMoves DEF CountInv, Shape
<1>5. refs \in [Device -> Nat] /\ \A x \in Device : Counted(x)
    BY DEF IInv, TypeOK, CountInv
<1>6. \A c \in Device : Backs(c)' <=> Backs(c)
    BY <1>1, <1>2, BacksMoves
<1>7. \A c, x \in Device : Parent[c] = x => Matched(c)' = Matched(c)
    <2>. SUFFICES ASSUME NEW c \in Device, NEW x \in Device, Parent[c] = x
                  PROVE  Matched(c)' = Matched(c)
        OBVIOUS
    <2>1. Parent[h] = None /\ x # None
        BY ConstantsAssumption
    <2>2. refs'[c] = refs[c]
        BY <1>5, <2>1
    <2>. QED
        BY <1>6, <2>2 DEF Matched
<1>8. \A x \in Device : ~Closes(r, x) /\ ~Closes(th[t], x) /\ ~OpensOn(th[t], x) /\ (OpensOn(r, x) <=> x = h)
    BY <1>2 DEF Closes, OpensOn
<1>9. \A x \in Device : ~Forced(x)' => ~Forced(x)
    BY <1>1, <1>2, ForcedMoves DEF Forces
<1>10. ASSUME NEW x \in Device PROVE Counted(x)'
    <2>1. CASE x # h
        <3>1. Claims(x)' = Claims(x)
            <4>1. ~Closes(r, x) /\ ~Closes(th[t], x) /\ ~OpensOn(th[t], x) /\ ~OpensOn(r, x)
                BY <1>8, <2>1
            <4>2. \A c \in Device : Parent[c] = x => Matched(c)' = Matched(c)
                BY <1>7
            <4>3. Alike(t, r, x)
                BY <4>1, <4>2 DEF Alike
            <4>. QED
                BY <1>1, <4>3, Untouched
        <3>2. refs'[x] = refs[x] /\ refs[x] \in Nat
            BY <1>5, <2>1
        <3>3. Moves(x, 0)
            BY <1>9, <3>2 DEF Moves
        <3>. QED
            BY <1>5, <3>1, <3>2, <3>3, CountStays
    <2>2. CASE x = h
        <3>1. /\ \A u \in Thread : u # t => th'[u] = th[u]
              /\ th'[t] = r
            BY <1>1, ThreadMoves
        <3>2. Adds("opener", t, 0, h)
            <4>1. ~IsClaim("opener", t, 0, h)
                BY <1>8 DEF IsClaim
            <4>2. ASSUME NEW k \in Kind, NEW w \in Who, NEW n \in Nat
                  PROVE  IsClaim(k, w, n, h)' <=> IsClaim(k, w, n, h) \/ (k = "opener" /\ w = t /\ n = 0)
                BY <1>7, <1>8, <3>1 DEF IsClaim
            <4>. QED
                BY <4>1, <4>2 DEF Adds
        <3>3. "opener" \in Kind /\ t \in Who /\ 0 \in Nat
            BY DEF Kind, Who
        <3>4. refs'[h] = refs[h] + 1 /\ refs[h] \in Nat /\ refs'[h] \in Nat
            BY <1>5
        <3>5. Moves(h, 1)
            BY <1>9, <3>4 DEF Moves
        <3>. QED
            BY <1>5, <2>2, <3>2, <3>3, <3>4, <3>5, CountUp
    <2>. QED
        BY <2>1, <2>2
<1>. QED
    BY <1>4, <1>10 DEF CountInv

\* The device itself is open now, for the channel of thread t.
LEMMA DeviceOpens ==
    ASSUME IInv, CountInv, NEW t \in Thread, NEW d \in Device, NEW p \in Channel,
           th[t].pc = "open", th[t].to = d, th[t].at = d,
           th' = [th EXCEPT ![t].pc = "parent"],
           refs' = [refs EXCEPT ![d] = @ + 1],
           holds' = [holds EXCEPT ![p][d] = @ + 1],
           UNCHANGED <<present, leaving, stolen>>, orphaned => orphaned',
           Parent[d] # None => th[t].ok \/ orphaned'
    PROVE  CountInv'
<1>. PICK r : r = [th[t] EXCEPT !.pc = "parent"]
    OBVIOUS
<1>1. th' = [th EXCEPT ![t] = r]
    OBVIOUS
<1>2. r.pc = "parent" /\ r.to = d
    <2>1. th[t] \in ThreadState
        BY DEF IInv, Threads
    <2>. QED
        BY <2>1 DEF ThreadState
<1>3. holds \in [Channel -> [Device -> Nat]] /\ refs \in [Device -> Nat] /\ \A x \in Device : Counted(x)
    BY DEF IInv, TypeOK, CountInv, Shape
<1>4. /\ refs'[d] = refs[d] + 1 /\ \A x \in Device : x # d => refs'[x] = refs[x]
      /\ holds'[p][d] = holds[p][d] + 1
      /\ \A q \in Channel, x \in Device : q # p \/ x # d => holds'[q][x] = holds[q][x]
    BY <1>3
<1>5. Shape'
    <2>1. leaving' # None => \A c \in Device : Parent[c] = leaving' => ~present[c]
        BY NoneLeft
    <2>2. Tidy(r)
        BY <1>2 DEF Tidy
    <2>3. holds' \in [Channel -> [Device -> Nat]]
        BY <1>3
    <2>. QED
        BY <1>1, <2>1, <2>2, <2>3, ShapeMoves DEF CountInv
<1>6. \A c \in Device : Backs(c)' <=> Backs(c)
    BY <1>1, <1>2, BacksMoves
<1>7. \A c \in Device : Matched(c)' = IF c = d THEN Matched(d) + 1 ELSE Matched(c)
    BY <1>3, <1>4, <1>6 DEF Matched
<1>8. \A x \in Device : ~Closes(r, x) /\ ~Closes(th[t], x) /\ ~OpensOn(r, x)
    BY <1>2 DEF Closes, OpensOn
<1>9. \A x \in Device : ~Forced(x)' => ~Forced(x)
    BY <1>1, <1>2, ForcedMoves DEF Forces
<1>10. th'[t] = r /\ \A u \in Thread : u # t => th'[u] = th[u]
    BY <1>1, ThreadMoves
<1>11. None \notin Device /\ (Parent[d] \in Device => Parent[d] # d)
    BY ParentOfParent, ConstantsAssumption
<1>12. ASSUME NEW x \in Device PROVE Counted(x)'
    <2>1. CASE x # d /\ Parent[d] # x
        <3>1. \A c \in Device : Parent[c] = x => Matched(c)' = Matched(c)
            BY <1>7, <2>1
        <3>2. ~OpensOn(th[t], x)
            BY <2>1 DEF OpensOn
        <3>3. \A q \in Channel : holds'[q][x] = holds[q][x]
            BY <1>4, <2>1
        <3>4. Claims(x)' = Claims(x)
            <4>1. Alike(t, r, x)
                BY <1>8, <3>1, <3>2, <3>3 DEF Alike
            <4>. QED
                BY <1>1, <4>1, Untouched
        <3>5. refs'[x] = refs[x] /\ refs[x] \in Nat
            BY <1>3, <1>4, <2>1
        <3>6. Moves(x, 0)
            BY <1>9, <3>5 DEF Moves
        <3>. QED
            BY <1>3, <3>4, <3>5, <3>6, CountStays
    <2>2. CASE x = d
        <3>. PICK n \in Nat : n = holds[p][d]
            BY <1>3
        <3>1. \A c \in Device : Parent[c] = d => Matched(c)' = Matched(c)
            BY <1>7, <1>11
        <3>2. ~OpensOn(th[t], d)
            BY <1>11 DEF OpensOn
        <3>3. Adds("hold", p, n, d)
            <4>1. ~IsClaim("hold", p, n, d)
                BY DEF IsClaim
            <4>2. \A q \in Channel : \A m \in Nat : m < holds'[q][d] <=> m < holds[q][d] \/ (q = p /\ m = n)
                <5>. SUFFICES ASSUME NEW q \in Channel, NEW m \in Nat
                              PROVE  m < holds'[q][d] <=> m < holds[q][d] \/ (q = p /\ m = n)
                    OBVIOUS
                <5>1. CASE q = p
                    <6>1. holds'[p][d] = n + 1 /\ holds[p][d] = n
                        BY <1>4
                    <6>. QED
                        BY <5>1, <6>1
                <5>2. CASE q # p
                    BY <1>4, <5>2
                <5>. QED
                    BY <5>1, <5>2
            <4>3. ASSUME NEW k \in Kind, NEW w \in Who, NEW m \in Nat
                  PROVE  IsClaim(k, w, m, d)' <=> IsClaim(k, w, m, d) \/ (k = "hold" /\ w = p /\ m = n)
                BY <1>8, <1>10, <3>1, <3>2, <4>2 DEF IsClaim
            <4>. QED
                BY <4>1, <4>3 DEF Adds
        <3>4. "hold" \in Kind /\ p \in Who
            BY DEF Kind, Who
        <3>5. refs[d] \in Nat /\ refs'[d] \in Nat /\ refs'[d] = refs[d] + 1
            BY <1>3, <1>4
        <3>6. Moves(d, 1)
            BY <1>9, <3>5 DEF Moves
        <3>. QED
            BY <1>3, <2>2, <3>3, <3>4, <3>5, <3>6, CountUp
    <2>3. CASE x # d /\ Parent[d] = x
        <3>. PICK n \in Nat : n = Matched(d)
            BY MatchedType
        <3>1. \A c \in Device : \A m \in Nat : m < Matched(c)' <=> m < Matched(c) \/ (c = d /\ m = n)
            <4>1. \A c \in Device : Matched(c) \in Nat
                BY MatchedType
            <4>. QED
                BY <1>7, <4>1
        <3>2. \A q \in Channel : holds'[q][x] = holds[q][x]
            BY <1>4, <2>3
        <3>3. "child" \in Kind /\ d \in Who /\ "opener" \in Kind /\ t \in Who /\ 0 \in Nat
            BY DEF Kind, Who
        <3>4. refs[x] \in Nat /\ refs'[x] = refs[x]
            BY <1>3, <1>4, <2>3
        <3>5. ~IsClaim("child", d, n, x)
            BY DEF IsClaim
        <3>6. CASE th[t].ok
            <4>1. OpensOn(th[t], x)
                BY <2>3, <3>6 DEF OpensOn
            <4>2. IsClaim("opener", t, 0, x)
                BY <4>1 DEF IsClaim
            <4>3. ASSUME NEW k \in Kind, NEW w \in Who, NEW m \in Nat
                  PROVE  IsClaim(k, w, m, x)' <=>
                            \/ IsClaim(k, w, m, x) /\ ~(k = "opener" /\ w = t /\ m = 0)
                            \/ k = "child" /\ w = d /\ m = n
                BY <1>8, <1>10, <2>3, <3>1, <3>2, <4>1 DEF IsClaim
            <4>4. Swaps("opener", t, 0, "child", d, n, x)
                BY <3>5, <4>2, <4>3 DEF Swaps
            <4>5. Moves(x, 0)
                BY <1>9, <3>4 DEF Moves
            <4>. QED
                BY <1>3, <3>3, <3>4, <4>4, <4>5, CountSwaps
        <3>7. CASE ~th[t].ok
            <4>1. ~OpensOn(th[t], x)
                BY <3>7 DEF OpensOn
            <4>2. ASSUME NEW k \in Kind, NEW w \in Who, NEW m \in Nat
                  PROVE  IsClaim(k, w, m, x)' <=> IsClaim(k, w, m, x) \/ (k = "child" /\ w = d /\ m = n)
                BY <1>8, <1>10, <2>3, <3>1, <3>2, <4>1 DEF IsClaim
            <4>3. Adds("child", d, n, x)
                BY <3>5, <4>2 DEF Adds
            <4>4. orphaned'
                BY <1>11, <2>3, <3>7
            <4>5. Moves(x, 1)
                BY <1>9, <3>4, <4>4 DEF Moves
            <4>. QED
                BY <1>3, <3>3, <3>4, <4>3, <4>5, CountUp
        <3>. QED
            BY <3>6, <3>7
    <2>. QED
        BY <2>1, <2>2, <2>3
<1>. QED
    BY <1>5, <1>12 DEF CountInv

LEMMA OpenDeviceCounts == IInv /\ CountInv /\ (\E t \in Thread : OpenDevice(t)) => CountInv'
<1>. SUFFICES ASSUME IInv, CountInv, NEW t \in Thread, OpenDevice(t) PROVE CountInv'
    OBVIOUS
<1>. PICK d : d = th[t].at
    OBVIOUS
<1>. PICK p : p = th[t].ch
    OBVIOUS
<1>1. /\ th[t].pc = "open" /\ th[t].to \in Device /\ d \in Device /\ p \in Channel
      /\ d \in {th[t].to, Parent[th[t].to]}
    BY DEF OpenDevice, At, IInv, Threads, Sound, Attaching, Slot, CountInv, Shape, Tidy
<1>. PICK r \in BOOLEAN :
        /\ IF open[d] THEN r /\ UNCHANGED fails ELSE Opens(t, d, r)
        /\ refs' = IF r THEN [refs EXCEPT ![d] = @ + 1] ELSE refs
        /\ \/ /\ d # th[t].to
              /\ th' = [th EXCEPT ![t].ok = r, ![t].at = th[t].to]
              /\ UNCHANGED <<flags, holds>>
           \/ /\ d = th[t].to /\ r
              /\ Goto(t, "parent")
              /\ holds' = [holds EXCEPT ![p][d] = @ + 1]
              /\ UNCHANGED flags
           \/ /\ d = th[t].to /\ ~r
              /\ GivesUp(t)
              /\ UNCHANGED holds
    BY DEF OpenDevice
<1>2. /\ UNCHANGED <<present, leaving, stolen>>
      /\ orphaned' = (orphaned \/ (open[d] /\ ~th[t].ok))
    BY DEF OpenDevice, detach
<1>3. leaving' # None => \A c \in Device : Parent[c] = leaving' => ~present[c]
    BY <1>2, NoneLeft
<1>4. CASE d # th[t].to /\ r
    BY <1>1, <1>2, <1>4, HubOpens
<1>5. CASE d # th[t].to /\ ~r
    <2>. PICK s : s = [th[t] EXCEPT !.ok = FALSE, !.at = th[t].to]
        OBVIOUS
    <2>1. th' = [th EXCEPT ![t] = s]
        BY <1>5
    <2>2. s.pc = "open" /\ s.to = th[t].to /\ s.at = th[t].to /\ s.ch = p /\ ~s.ok
        <3>1. th[t] \in ThreadState
            BY DEF IInv, Threads
        <3>2. /\ s.pc = th[t].pc /\ s.to = th[t].to /\ s.ch = th[t].ch /\ s.at = th[t].to
              /\ s.ok = FALSE
            BY <3>1 DEF ThreadState
        <3>. QED
            BY <1>1, <3>2
    <2>3. Tidy(s) /\ NoClaim(s) /\ NoClaim(th[t])
        BY <1>1, <1>5, <2>2 DEF Tidy, NoClaim
    <2>4. UNCHANGED <<refs, holds, present>>
        BY <1>2, <1>5
    <2>. QED
        BY <1>2, <1>3, <2>1, <2>3, <2>4, Quiet
<1>6. CASE d = th[t].to /\ r
    <2>1. Parent[d] # None => th[t].ok \/ orphaned'
        BY <1>2, <1>6 DEF Opens
    <2>. QED
        BY <1>1, <1>2, <1>6, <2>1, DeviceOpens DEF Goto
<1>7. CASE d = th[t].to /\ ~r
    <2>1. th' = [th EXCEPT ![t] = Idle]
        BY <1>7 DEF GivesUp
    <2>2. UNCHANGED <<refs, holds, present>>
        BY <1>2, <1>7
    <2>3. NoClaim(th[t])
        BY <1>1, <1>7 DEF NoClaim, Opens
    <2>. QED
        BY <1>2, <1>3, <2>1, <2>2, <2>3, IdleIsQuiet, Quiet
<1>. QED
    BY <1>4, <1>5, <1>6, <1>7

-----------------------------------------------------------------------------
(* A device is closed: the hub's reference goes first, then the device's.   *)

\* A thread that has let go of the lock of c is the only one that closes its hub.
LEMMA OneCloser ==
    ASSUME IInv, NEW t \in Thread, NEW c \in Device, ClosesParentOf(t, c)
    PROVE  /\ closing[c] /\ refs[c] > 0
           /\ \A u \in Thread : u # t => ~(At(u, "back") /\ th[u].to = c)
<1>1. closing[c]
    BY DEF IInv, ClosingIsToken
<1>2. \A u \in Thread : At(u, "back") /\ th[u].to = c => ClosesParentOf(u, c)
    BY DEF IInv, Threads, Sound, ClosesParentOf, At
<1>. QED
    BY <1>1, <1>2 DEF IInv, ClosingIsOpen, ClosingIsToken

\* The closer of d has nothing to drop any more.
LEMMA CloserDone ==
    ASSUME IInv, CountInv, NEW t \in Thread, NEW r, th' = [th EXCEPT ![t] = r], NEW d \in Device,
           Closes(th[t], d), r.pc \notin {"open", "close", "back"}, UNCHANGED holds,
           \A c \in Device : Parent[c] = d => Matched(c)' = Matched(c)
    PROVE  Removes("closer", t, 0, d)
<1>1. th'[t] = r /\ \A u \in Thread : u # t => th'[u] = th[u]
    BY ThreadMoves
<1>2. ~Closes(r, d) /\ ~OpensOn(r, d) /\ ~OpensOn(th[t], d)
    BY DEF Closes, OpensOn
<1>3. IsClaim("closer", t, 0, d)
    BY DEF IsClaim
<1>4. ASSUME NEW k \in Kind, NEW w \in Who, NEW n \in Nat
      PROVE  IsClaim(k, w, n, d)' <=> IsClaim(k, w, n, d) /\ ~(k = "closer" /\ w = t /\ n = 0)
    BY <1>1, <1>2 DEF IsClaim
<1>. QED
    BY <1>3, <1>4 DEF Removes

\* The closer of device c comes back from its hub h.
LEMMA ChildDone ==
    ASSUME IInv, CountInv, NEW t \in Thread, NEW r, th' = [th EXCEPT ![t] = r],
           NEW c \in Device, NEW h \in Device,
           th[t].pc = "close", th[t].to = c, th[t].at # c, Parent[c] = h,
           r.pc = "back", r.to = c, UNCHANGED holds,
           \A e \in Device : Parent[e] # None => refs'[e] = refs[e]
    PROVE  /\ \E n \in Nat : Removes("child", c, n, h)
           /\ \A e \in Device : Parent[e] # None /\ e # c => Matched(e)' = Matched(e)
<1>1. th'[t] = r /\ \A u \in Thread : u # t => th'[u] = th[u]
    BY ThreadMoves
<1>2. ClosesParentOf(t, c) /\ h # None
    BY ConstantsAssumption DEF ClosesParentOf, At
<1>3. refs[c] > 0 /\ ~Backs(c)
    BY <1>2, OneCloser DEF Backs, At
<1>. PICK n \in Nat : n = refs[c] - 1
    BY <1>3 DEF IInv, TypeOK
<1>4. Matched(c) = n + 1 /\ Matched(c)' = n
    <2>1. Backs(c)'
        BY <1>1 DEF Backs, At
    <2>2. refs'[c] = refs[c] /\ refs[c] \in Nat
        BY <1>2 DEF IInv, TypeOK
    <2>. QED
        BY <1>3, <2>1, <2>2 DEF Matched
<1>5. ASSUME NEW e \in Device, Parent[e] # None, e # c PROVE Matched(e)' = Matched(e)
    <2>1. Backs(e)' <=> Backs(e)
        BY <1>5, BacksMoves
    <2>. QED
        BY <1>5, <2>1 DEF Matched
<1>6. \A e \in Device : Parent[e] = h =>
         \A m \in Nat : m < Matched(e)' <=> m < Matched(e) /\ ~(e = c /\ m = n)
    <2>. SUFFICES ASSUME NEW e \in Device, Parent[e] = h, NEW m \in Nat
                  PROVE  m < Matched(e)' <=> m < Matched(e) /\ ~(e = c /\ m = n)
        OBVIOUS
    <2>1. CASE e = c
        BY <1>4, <2>1
    <2>2. CASE e # c
        BY <1>2, <1>5, <2>2
    <2>. QED
        BY <2>1, <2>2
<1>7. ~Closes(r, h) /\ ~Closes(th[t], h) /\ ~OpensOn(r, h) /\ ~OpensOn(th[t], h)
    <2>1. h # c
        BY <1>2, ParentOfParent
    <2>. QED
        BY <2>1 DEF Closes, OpensOn
<1>8. IsClaim("child", c, n, h)
    BY <1>4 DEF IsClaim
<1>9. ASSUME NEW k \in Kind, NEW w \in Who, NEW m \in Nat
      PROVE  IsClaim(k, w, m, h)' <=> IsClaim(k, w, m, h) /\ ~(k = "child" /\ w = c /\ m = n)
    BY <1>1, <1>6, <1>7 DEF IsClaim
<1>10. Removes("child", c, n, h)
    BY <1>8, <1>9 DEF Removes
<1>. QED
    BY <1>5, <1>10

\* A closer stays at its device, and by force or not.
LEMMA CloserShape ==
    ASSUME IInv, CountInv, NEW t \in Thread, NEW r, th' = [th EXCEPT ![t] = r],
           th[t].pc \in {"close", "back"}, r.pc \in {"close", "back", "gone", "unslot"},
           r.to = th[t].to, r.force = th[t].force, UNCHANGED <<holds, present, leaving>>
    PROVE  Shape'
<1>1. Tidy(r)
    BY DEF CountInv, Shape, Tidy
<1>2. leaving' # None => \A c \in Device : Parent[c] = leaving' => ~present[c]
    BY NoneLeft
<1>. QED
    BY <1>1, <1>2, ShapeMoves DEF CountInv, Shape

\* Thread t is done with the close of device d, which has n references now.
Leaves(t, r, d, n) ==
    /\ th' = [th EXCEPT ![t] = r] /\ refs' = [refs EXCEPT ![d] = n]
    /\ th[t].pc \in {"close", "back"} /\ th[t].to = d
    /\ r.pc \in {"gone", "unslot"} /\ r.to = d /\ r.force = th[t].force
    /\ UNCHANGED <<holds, present, leaving, orphaned>> /\ (stolen => stolen')
    /\ n = refs[d] - 1 \/ n = 0
    /\ th[t].force => n = 0
    /\ present[d] => n >= refs[d] - 1
    /\ ~th[t].owed => stolen' \/ n = refs[d]
    /\ Parent[d] # None => Matched(d)' = Matched(d)

LEMMA CloserLeaves ==
    ASSUME IInv, CountInv, NEW t \in Thread, NEW r, NEW d \in Device, NEW n \in Nat,
           Leaves(t, r, d, n)
    PROVE  CountInv'
<1>. USE DEF Leaves
<1>1. Shape'
    BY CloserShape
<1>2. refs \in [Device -> Nat] /\ \A x \in Device : Counted(x)
    BY DEF IInv, TypeOK, CountInv
<1>3. /\ refs'[d] = n /\ \A x \in Device : x # d => refs'[x] = refs[x]
      /\ \A x \in Device : refs'[x] \in Nat
    BY <1>2
<1>4. \A c, x \in Device : Parent[c] = x => Matched(c)' = Matched(c)
    <2>. SUFFICES ASSUME NEW c \in Device, NEW x \in Device, Parent[c] = x
                  PROVE  Matched(c)' = Matched(c)
        OBVIOUS
    <2>1. x # None
        BY ConstantsAssumption
    <2>2. CASE c = d
        BY <2>1, <2>2
    <2>3. CASE c # d
        <3>1. Backs(c)' <=> Backs(c)
            BY <2>3, BacksMoves
        <3>. QED
            BY <1>3, <2>3, <3>1 DEF Matched
    <2>. QED
        BY <2>2, <2>3
<1>5. \A x \in Device : ~Closes(r, x) /\ ~OpensOn(r, x) /\ ~OpensOn(th[t], x)
    BY DEF Closes, OpensOn
<1>6. \A x \in Device : ~Forces(th[t], x) => (~Forced(x)' => ~Forced(x))
    BY ForcedMoves
<1>7. ASSUME NEW x \in Device, x # d PROVE Counted(x)'
    <2>1. Alike(t, r, x)
        <3>1. ~Closes(th[t], x)
            BY <1>7 DEF Closes
        <3>. QED
            BY <1>4, <1>5, <3>1 DEF Alike
    <2>2. Claims(x)' = Claims(x)
        BY <2>1, Untouched
    <2>3. ~Forces(th[t], x)
        BY <1>7 DEF Forces
    <2>4. Moves(x, 0)
        BY <1>2, <1>3, <1>6, <1>7, <2>3 DEF Moves
    <2>. QED
        BY <1>2, <1>3, <2>2, <2>4, CountStays
<1>8. Counted(d)'
    <2>1. ~Forced(d)' => n = 0 \/ ~Forced(d)
        BY <1>6 DEF Forces
    <2>2. CASE th[t].owed
        <3>1. Closes(th[t], d)
            BY <2>2 DEF Closes
        <3>2. \A c \in Device : Parent[c] = d => Matched(c)' = Matched(c)
            BY <1>4
        <3>3. Removes("closer", t, 0, d)
            BY <3>1, <3>2, CloserDone
        <3>4. "closer" \in Kind /\ t \in Who /\ 0 \in Nat
            BY DEF Kind, Who
        <3>5. Moves(d, -1)
            BY <1>2, <1>3, <2>1 DEF Moves
        <3>. QED
            BY <1>2, <1>3, <3>3, <3>4, <3>5, CountDown
    <2>3. CASE ~th[t].owed
        <3>1. Alike(t, r, d)
            <4>1. ~Closes(th[t], d)
                BY <2>3 DEF Closes
            <4>. QED
                BY <1>4, <1>5, <4>1 DEF Alike
        <3>2. Claims(d)' = Claims(d)
            BY <3>1, Untouched
        <3>3. n <= refs[d] \/ n = 0
            BY <1>2
        <3>4. Moves(d, 0)
            BY <1>2, <1>3, <2>1, <2>3, <3>3 DEF Moves
        <3>. QED
            BY <1>2, <1>3, <3>2, <3>4, CountStays
    <2>. QED
        BY <2>2, <2>3
<1>. QED
    BY <1>1, <1>7, <1>8 DEF CountInv

\* Thread t comes back to device c from the close of its hub h, which has n
\* references now.
ComesBack(t, r, c, h, n) ==
    /\ th' = [th EXCEPT ![t] = r] /\ refs' = [refs EXCEPT ![h] = n]
    /\ th[t].pc = "close" /\ th[t].to = c /\ th[t].at = h /\ h # c /\ Parent[c] = h
    /\ r.pc = "back" /\ r.to = c /\ r.force = th[t].force /\ r.owed = th[t].owed
    /\ UNCHANGED <<holds, present, leaving, orphaned>> /\ (stolen => stolen')
    /\ n = refs[h] - 1 \/ (n = 0 /\ refs[h] = 0)

LEMMA HubCloses ==
    ASSUME IInv, CountInv, NEW t \in Thread, NEW r, NEW c \in Device, NEW h \in Device, NEW n \in Nat,
           ComesBack(t, r, c, h, n)
    PROVE  CountInv'
<1>. USE DEF ComesBack
<1>1. Shape'
    BY CloserShape
<1>2. refs \in [Device -> Nat] /\ \A x \in Device : Counted(x)
    BY DEF IInv, TypeOK, CountInv
<1>3. /\ refs'[h] = n /\ \A x \in Device : x # h => refs'[x] = refs[x]
      /\ \A x \in Device : refs'[x] \in Nat
    BY <1>2
<1>4. Parent[h] = None /\ None \notin Device
    BY ConstantsAssumption
<1>5. \A e \in Device : Parent[e] # None => refs'[e] = refs[e]
    BY <1>3, <1>4
<1>6. /\ \E m \in Nat : Removes("child", c, m, h)
      /\ \A e \in Device : Parent[e] # None /\ e # c => Matched(e)' = Matched(e)
    BY <1>5, ChildDone
<1>7. \A x \in Device : ~Forced(x)' => ~Forced(x)
    BY ForcedMoves DEF Forces
<1>8. ASSUME NEW x \in Device, x # h PROVE Counted(x)'
    <2>1. Alike(t, r, x)
        <3>1. Closes(r, x) <=> Closes(th[t], x)
            BY DEF Closes
        <3>2. ~OpensOn(r, x) /\ ~OpensOn(th[t], x)
            BY DEF OpensOn
        <3>3. \A e \in Device : Parent[e] = x => Matched(e)' = Matched(e)
            BY <1>4, <1>6, <1>8
        <3>. QED
            BY <3>1, <3>2, <3>3 DEF Alike
    <2>2. Claims(x)' = Claims(x)
        BY <2>1, Untouched
    <2>3. Moves(x, 0)
        BY <1>2, <1>3, <1>7, <1>8 DEF Moves
    <2>. QED
        BY <1>2, <1>3, <2>2, <2>3, CountStays
<1>9. Counted(h)'
    <2>. PICK m \in Nat : Removes("child", c, m, h)
        BY <1>6
    <2>1. "child" \in Kind /\ c \in Who
        BY DEF Kind, Who
    <2>2. Moves(h, -1)
        BY <1>2, <1>3, <1>7 DEF Moves
    <2>. QED
        BY <1>2, <1>3, <2>1, <2>2, CountDown
<1>. QED
    BY <1>1, <1>8, <1>9 DEF CountInv

\* Thread t goes on to the hub of device d: to its close, or, by force and with one
\* reference of d less, round again.
GoesOn(t, r, d, n) ==
    /\ th' = [th EXCEPT ![t] = r] /\ refs' = [refs EXCEPT ![d] = n]
    /\ th[t].pc \in {"close", "back"} /\ th[t].to = d
    /\ r.pc = "close" /\ r.to = d /\ r.force = th[t].force /\ r.owed = th[t].owed
    /\ UNCHANGED <<holds, present, leaving, orphaned>> /\ (stolen => stolen')
    /\ n = refs[d] \/ th[t].force
    /\ Parent[d] # None /\ Matched(d)' = Matched(d)

LEMMA CloserGoesOn ==
    ASSUME IInv, CountInv, NEW t \in Thread, NEW r, NEW d \in Device, NEW n \in Nat,
           GoesOn(t, r, d, n)
    PROVE  CountInv'
<1>. USE DEF GoesOn
<1>1. Shape'
    BY CloserShape
<1>2. refs \in [Device -> Nat] /\ \A x \in Device : Counted(x)
    BY DEF IInv, TypeOK, CountInv
<1>3. /\ refs'[d] = n /\ \A x \in Device : x # d => refs'[x] = refs[x]
      /\ \A x \in Device : refs'[x] \in Nat
    BY <1>2
<1>4. \A c \in Device : Matched(c)' = Matched(c)
    <2>. SUFFICES ASSUME NEW c \in Device, c # d
                  PROVE  Matched(c)' = Matched(c)
        OBVIOUS
    <2>1. Backs(c)' <=> Backs(c)
        BY BacksMoves
    <2>. QED
        BY <1>3, <2>1 DEF Matched
<1>5. \A x \in Device : ~Forced(x)' => ~Forced(x)
    BY ForcedMoves DEF Forces
<1>6. ASSUME NEW x \in Device PROVE Counted(x)'
    <2>1. Alike(t, r, x)
        <3>1. Closes(r, x) <=> Closes(th[t], x)
            BY DEF Closes
        <3>2. ~OpensOn(r, x) /\ ~OpensOn(th[t], x)
            BY DEF OpensOn
        <3>. QED
            BY <1>4, <3>1, <3>2 DEF Alike
    <2>2. Claims(x)' = Claims(x)
        BY <2>1, Untouched
    <2>3. CASE refs'[x] = refs[x]
        <3>1. Moves(x, 0)
            BY <1>2, <1>5, <2>3 DEF Moves
        <3>. QED
            BY <1>2, <1>3, <2>2, <3>1, CountStays
    <2>4. CASE x = d /\ th[t].force
        <3>1. ~present[d] /\ Forced(d)'
            <4>1. th'[t] = r
                BY ThreadMoves
            <4>. QED
                BY <2>4, <4>1 DEF Forced, CountInv, Shape, Tidy
        <3>2. Moves(d, 0)
            BY <3>1 DEF Moves
        <3>. QED
            BY <1>2, <1>3, <2>2, <2>4, <3>2, CountStays
    <2>. QED
        BY <1>3, <2>3, <2>4
<1>. QED
    BY <1>1, <1>6 DEF CountInv

LEMMA CloseDeviceCounts == IInv /\ CountInv /\ (\E t \in Thread : CloseDevice(t)) => CountInv'
<1>. SUFFICES ASSUME IInv, CountInv, NEW t \in Thread, CloseDevice(t) PROVE CountInv'
    OBVIOUS
<1>. PICK d : d = th[t].at
    OBVIOUS
<1>. PICK c : c = th[t].to
    OBVIOUS
<1>1. /\ th[t].pc = "close" /\ c \in Device /\ d \in Device /\ d \in {c, Parent[c]}
      /\ refs \in [Device -> Nat] /\ \A x \in Device : open[x] <=> refs[x] > 0
    BY DEF CloseDevice, At, IInv, Threads, Sound, TypeOK
<1>2. UNCHANGED <<holds, present, leaving, orphaned>>
    BY DEF CloseDevice, detach
<1>3. d # c => Parent[c] = d /\ Parent[d] = None
    BY <1>1, ConstantsAssumption
<1>. PICK q : q = CASE d # c -> "back"
                    [] d = c /\ th[t].force -> "gone"
                    [] OTHER -> "unslot"
    OBVIOUS
<1>. PICK r : r = [th[t] EXCEPT !.pc = q, !.at = c]
    OBVIOUS
<1>4. r.pc = q /\ r.to = c /\ r.force = th[t].force /\ r.owed = th[t].owed
    <2>1. th[t] \in ThreadState
        BY DEF IInv, Threads
    <2>. QED
        BY <2>1 DEF ThreadState
<1>5. q = "back" <=> d # c
    OBVIOUS
<1>6. d = c => q \in {"gone", "unslot"}
    OBVIOUS
<1>7. Returns(t, d) => th' = [th EXCEPT ![t] = r]
    BY DEF Returns
<1>8. d = c => (~At(t, "back") /\ r.pc # "back")
    BY <1>1, <1>4, <1>5 DEF At
<1>9. CASE ~open[d]
    <2>1. th' = [th EXCEPT ![t] = r] /\ UNCHANGED <<refs, stolen>>
        BY <1>7, <1>9 DEF CloseDevice, devices
    <2>. PICK n \in Nat : n = 0
        OBVIOUS
    <2>2. refs[d] = n /\ refs' = [refs EXCEPT ![d] = n]
        BY <1>1, <1>9, <2>1
    <2>3. CASE d # c
        <3>1. ComesBack(t, r, c, d, n)
            BY <1>1, <1>2, <1>3, <1>4, <1>5, <2>1, <2>2, <2>3 DEF ComesBack
        <3>. QED
            BY <1>1, <3>1, HubCloses
    <2>4. CASE d = c
        <3>1. Matched(d)' = Matched(d)
            <4>1. Backs(d)' <=> Backs(d)
                BY <1>8, <1>1, <2>1, <2>4, BacksMoves DEF At
            <4>. QED
                BY <2>1, <4>1 DEF Matched
        <3>. QED
            <4>. r.pc \in {"gone", "unslot"} /\ (present[d] => n >= refs[d] - 1)
                BY <1>4, <1>6, <2>2, <2>4
            <4>1. Leaves(t, r, d, n)
                BY <1>1, <1>2, <1>4, <2>1, <2>2, <2>4, <3>1 DEF Leaves
            <4>. QED
                BY <1>1, <4>1, CloserLeaves
    <2>. QED
        BY <2>3, <2>4
<1>10. CASE open[d] /\ Parent[d] # None
    <2>. PICK s : s = [th[t] EXCEPT !.pc = "close", !.at = Parent[d]]
        OBVIOUS
    <2>1. s.pc = "close" /\ s.to = c /\ s.force = th[t].force /\ s.owed = th[t].owed
        <3>1. th[t] \in ThreadState
            BY DEF IInv, Threads
        <3>. QED
            BY <3>1 DEF ThreadState
    <2>2. th' = [th EXCEPT ![t] = s] /\ UNCHANGED <<refs, stolen>> /\ d = c
        <3>1. th' = [th EXCEPT ![t].at = Parent[d]] /\ UNCHANGED <<refs, stolen>>
            BY <1>10 DEF CloseDevice
        <3>2. s = [th[t] EXCEPT !.at = Parent[d]]
            <4>1. th[t] \in ThreadState
                BY DEF IInv, Threads
            <4>. QED
                BY <1>1, <4>1 DEF ThreadState
        <3>. QED
            BY <1>3, <1>10, <3>1, <3>2
    <2>. PICK n \in Nat : n = refs[d]
        BY <1>1
    <2>3. refs' = [refs EXCEPT ![d] = n]
        BY <1>1, <2>2
    <2>4. Matched(d)' = Matched(d)
        <3>1. Backs(d)' <=> Backs(d)
            BY <1>1, <2>1, <2>2, BacksMoves
        <3>. QED
            BY <2>2, <3>1 DEF Matched
    <2>. QED
        <3>1. GoesOn(t, s, d, n)
            BY <1>1, <1>2, <1>10, <2>1, <2>2, <2>3, <2>4 DEF GoesOn
        <3>. QED
            BY <1>1, <3>1, CloserGoesOn
<1>11. CASE open[d] /\ Parent[d] = None
    <2>. PICK n : n = IF ByForce(t, d) /\ Parent[d] = None THEN 0 ELSE refs[d] - 1
        OBVIOUS
    <2>1. /\ th' = [th EXCEPT ![t] = r] /\ refs' = [refs EXCEPT ![d] = n]
          /\ stolen' = (stolen \/ ~th[t].owed)
        BY <1>7, <1>11 DEF CloseDevice, Dropped
    <2>2. n \in Nat /\ (n = refs[d] - 1 \/ n = 0) /\ (~ByForce(t, d) => n = refs[d] - 1)
        BY <1>1, <1>11
    <2>3. CASE d # c
        <3>1. n = refs[d] - 1
            BY <2>2, <2>3 DEF ByForce
        <3>. QED
            <4>1. ComesBack(t, r, c, d, n)
                BY <1>1, <1>2, <1>3, <1>4, <1>5, <2>1, <2>2, <2>3, <3>1 DEF ComesBack
            <4>. QED
                BY <1>1, <2>2, <4>1, HubCloses
    <2>4. CASE d = c
        <3>1. ByForce(t, d) <=> th[t].force
            BY <2>4 DEF ByForce
        <3>2. th[t].force => n = 0 /\ ~present[d]
            BY <1>1, <1>11, <2>4, <3>1 DEF CountInv, Shape, Tidy
        <3>3. present[d] => n >= refs[d] - 1
            BY <1>1, <2>2, <3>1, <3>2
        <3>. QED
            <4>1. Leaves(t, r, d, n)
                BY <1>1, <1>2, <1>4, <1>6, <1>11, <2>1, <2>2, <2>4, <3>2, <3>3 DEF Leaves
            <4>. QED
                BY <1>1, <2>2, <4>1, CloserLeaves
    <2>. QED
        BY <2>3, <2>4
<1>. QED
    BY <1>9, <1>10, <1>11

LEMMA CloseDeviceBackCounts == IInv /\ CountInv /\ (\E t \in Thread : CloseDeviceBack(t)) => CountInv'
<1>. SUFFICES ASSUME IInv, CountInv, NEW t \in Thread, CloseDeviceBack(t) PROVE CountInv'
    OBVIOUS
<1>. PICK d : d = th[t].at
    OBVIOUS
<1>1. /\ th[t].pc = "back" /\ th[t].to = d /\ d \in Device /\ Parent[d] # None
      /\ refs \in [Device -> Nat] /\ \A x \in Device : open[x] <=> refs[x] > 0
    BY DEF CloseDeviceBack, At, IInv, Threads, Sound, TypeOK
<1>2. UNCHANGED <<holds, present, leaving, orphaned>>
    BY DEF CloseDeviceBack, detach
<1>3. ClosesParentOf(t, d)
    BY <1>1 DEF ClosesParentOf, At
<1>4. refs[d] > 0 /\ \A u \in Thread : u # t => ~(At(u, "back") /\ th[u].to = d)
    BY <1>1, <1>3, OneCloser
<1>. PICK n \in Nat : n = refs[d] - 1
    BY <1>1, <1>4
<1>5. refs' = [refs EXCEPT ![d] = n] /\ stolen' = (stolen \/ ~th[t].owed)
    BY <1>1 DEF CloseDeviceBack, Dropped
<1>. PICK q : q = IF GoesRound(t, d) THEN "close" ELSE IF th[t].force THEN "gone" ELSE "unslot"
    OBVIOUS
<1>. PICK a : a = IF GoesRound(t, d) THEN Parent[d] ELSE d
    OBVIOUS
<1>. PICK r : r = [th[t] EXCEPT !.pc = q, !.at = a]
    OBVIOUS
<1>6. r.pc = q /\ r.to = d /\ r.force = th[t].force /\ r.owed = th[t].owed
    <2>1. th[t] \in ThreadState
        BY DEF IInv, Threads
    <2>. QED
        BY <1>1, <2>1 DEF ThreadState
<1>7. th' = [th EXCEPT ![t] = r]
    BY <1>1 DEF CloseDeviceBack, Returns
<1>8. Matched(d)' = Matched(d)
    <2>1. Backs(d)
        BY <1>1 DEF Backs, At
    <2>2. th'[t] = r /\ \A u \in Thread : u # t => th'[u] = th[u]
        BY <1>7, ThreadMoves
    <2>3. q # "back"
        OBVIOUS
    <2>4. ~Backs(d)'
        BY <1>4, <1>6, <2>2, <2>3 DEF Backs, At
    <2>5. refs'[d] = n
        BY <1>1, <1>5
    <2>. QED
        BY <2>1, <2>4, <2>5 DEF Matched
<1>9. ByForce(t, d) <=> th[t].force
    BY <1>1 DEF ByForce
<1>10. CASE GoesRound(t, d)
    <2>1. th[t].force /\ q = "close"
        BY <1>9, <1>10 DEF GoesRound
    <2>. QED
        <3>1. GoesOn(t, r, d, n)
            BY <1>1, <1>2, <1>5, <1>6, <1>7, <1>8, <2>1 DEF GoesOn
        <3>. QED
            BY <1>1, <3>1, CloserGoesOn
<1>11. CASE ~GoesRound(t, d)
    <2>1. q \in {"gone", "unslot"}
        BY <1>11
    <2>2. th[t].force => n = 0
        BY <1>1, <1>4, <1>9, <1>11 DEF GoesRound
    <2>. QED
        <3>1. present[d] => n >= refs[d] - 1
            BY <1>1
        <3>2. r.pc \in {"gone", "unslot"}
            BY <1>6, <2>1
        <3>3. /\ n = refs[d] - 1 \/ n = 0
              /\ ~th[t].owed => stolen' \/ n = refs[d]
            BY <1>5
        <3>4. Leaves(t, r, d, n)
            BY <1>1, <1>2, <1>5, <1>6, <1>7, <1>8, <2>2, <3>1, <3>2, <3>3 DEF Leaves
        <3>. QED
            BY <1>1, <3>4, CloserLeaves
<1>. QED
    BY <1>10, <1>11

LEMMA DetachDeviceCounts == IInv /\ CountInv /\ DetachDevice => CountInv'
<1>. SUFFICES ASSUME IInv, CountInv, DetachDevice PROVE CountInv'
    OBVIOUS
<1>. PICK d : d = leaving
    OBVIOUS
<1>. PICK t \in Thread : t = Central
    BY DEF Thread
<1>. PICK o : o = (TRUE \/ holds[None][d] > 0)
    OBVIOUS
<1>. PICK r : r = [th[t] EXCEPT !.pc = "close", !.ch = None, !.to = d, !.at = d, !.force = TRUE, !.owed = o]
    OBVIOUS
<1>1. d \in Device /\ th[t].pc = "idle" /\ leaving' = d /\ o = TRUE
    BY DEF DetachDevice, At, IInv, Threads
<1>2. /\ th' = [th EXCEPT ![t] = r]
      /\ present' = [present EXCEPT ![d] = FALSE]
      /\ holds' = [p \in Channel |-> [holds[p] EXCEPT ![d] = 0]]
      /\ UNCHANGED <<refs, stolen, orphaned>>
    BY DEF DetachDevice, StartsClose, devices
<1>3. r.pc = "close" /\ r.to = d /\ r.force = TRUE /\ r.owed = TRUE
    <2>1. th[t] \in ThreadState
        BY DEF IInv, Threads
    <2>. QED
        BY <1>1, <2>1 DEF ThreadState
<1>4. th'[t] = r /\ \A u \in Thread : u # t => th'[u] = th[u]
    BY <1>2, ThreadMoves
<1>5. /\ refs \in [Device -> Nat] /\ present \in [Device -> BOOLEAN]
      /\ holds \in [Channel -> [Device -> Nat]] /\ \A x \in Device : Counted(x)
    BY DEF IInv, TypeOK, CountInv, Shape
<1>6. ~present'[d] /\ \A x \in Device : x # d => present'[x] = present[x]
    BY <1>1, <1>2, <1>5
<1>7. Shape'
    <2>1. holds' \in [Channel -> [Device -> Nat]]
        BY <1>1, <1>2, <1>5
    <2>2. ASSUME NEW u \in Thread PROVE Tidy(th[u])'
        <3>1. CASE u = t
            BY <1>3, <1>4, <1>6, <3>1 DEF Tidy
        <3>2. CASE u # t
            <4>1. Tidy(th[u]) /\ th'[u] = th[u] /\ (th[u].pc \in {"close", "back"} => th[u].to \in Device)
                BY <1>4, <3>2 DEF CountInv, Shape, IInv, Threads, Sound
            <4>. QED
                BY <1>6, <4>1 DEF Tidy
        <3>. QED
            BY <3>1, <3>2
    <2>3. \A c \in Device : Parent[c] = d => ~present[c] /\ ~present'[c]
        <3>1. leaving # None
            BY <1>1, ConstantsAssumption
        <3>. QED
            BY <1>6, <3>1 DEF CountInv, Shape
    <2>4. \A c \in Device : present'[c] /\ Parent[c] # None => present'[Parent[c]]
        <3>. SUFFICES ASSUME NEW c \in Device, present'[c], Parent[c] # None PROVE present'[Parent[c]]
            OBVIOUS
        <3>1. c # d /\ Parent[c] # d
            BY <1>6, <2>3
        <3>2. Parent[c] \in Device /\ present[Parent[c]]
            BY <1>6, <3>1, ParentOfParent DEF CountInv, Shape
        <3>. QED
            BY <1>6, <3>1, <3>2
    <2>. QED
        BY <1>1, <2>1, <2>2, <2>3, <2>4 DEF Shape
<1>8. \A c \in Device : Matched(c)' = Matched(c)
    <2>. SUFFICES ASSUME NEW c \in Device PROVE Matched(c)' = Matched(c)
        OBVIOUS
    <2>1. Backs(c)' <=> Backs(c)
        BY <1>1, <1>2, <1>3, BacksMoves
    <2>. QED
        BY <1>2, <2>1 DEF Matched
<1>9. ASSUME NEW x \in Device, x # d PROVE Counted(x)'
    <2>1. Alike(t, r, x)
        <3>1. \A p \in Channel : holds'[p][x] = holds[p][x]
            BY <1>2, <1>5, <1>9
        <3>2. ~Closes(r, x) /\ ~Closes(th[t], x) /\ ~OpensOn(r, x) /\ ~OpensOn(th[t], x)
            BY <1>1, <1>3, <1>9 DEF Closes, OpensOn
        <3>. QED
            BY <1>8, <3>1, <3>2 DEF Alike
    <2>2. Claims(x)' = Claims(x)
        BY <1>2, <2>1, Untouched
    <2>3. ~Forced(x)' => ~Forced(x)
        BY <1>1, <1>2, ForcedMoves DEF Forces
    <2>4. Moves(x, 0)
        BY <1>2, <1>5, <1>6, <1>9, <2>3 DEF Moves
    <2>. QED
        BY <1>2, <1>5, <2>2, <2>4, CountStays
<1>10. Counted(d)'
    <2>1. Forced(d)'
        <3>1. th'[t].pc = "close" /\ th'[t].to = d /\ th'[t].force
            BY <1>3, <1>4
        <3>. QED
            BY <3>1 DEF Forced
    <2>2. ASSUME NEW c \in Claims(d)' PROVE c \in Claims(d) \cup {<<"closer", t, 0>>}
        <3>1. PICK k \in Kind, w \in Who, n \in Nat : c = <<k, w, n>>
            BY ClaimsAreNext
        <3>2. IsClaim(k, w, n, d)'
            BY <3>1, ClaimInNext
        <3>3. \A p \in Channel : holds'[p][d] = 0
            BY <1>1, <1>2, <1>5
        <3>4. ~OpensOn(r, d)
            BY <1>3 DEF OpensOn
        <3>5. IsClaim(k, w, n, d) \/ (k = "closer" /\ w = t /\ n = 0)
            BY <1>4, <1>8, <3>2, <3>3, <3>4 DEF IsClaim
        <3>. QED
            BY <3>1, <3>5, ClaimIn
    <2>3. IsFiniteSet(Claims(d) \cup {<<"closer", t, 0>>})
        BY <1>1, <1>5, FS_AddElement DEF Counted
    <2>4. Claims(d)' \subseteq Claims(d) \cup {<<"closer", t, 0>>}
        BY <2>2
    <2>5. IsFiniteSet(Claims(d)')
        BY <2>3, <2>4, FS_Subset
    <2>. QED
        BY <1>6, <2>1, <2>5 DEF Counted
<1>. QED
    BY <1>7, <1>9, <1>10 DEF CountInv

-----------------------------------------------------------------------------
(* The invariant, and what it says of the devices.                          *)

LEMMA InitCounts == Init => CountInv
<1>. SUFFICES ASSUME Init PROVE CountInv
    OBVIOUS
<1>1. \A t \in Thread : th[t] = Idle
    BY DEF Init
<1>2. Shape
    <2>1. \A t \in Thread : Tidy(th[t])
        BY <1>1, IdleIsQuiet
    <2>2. holds \in [Channel -> [Device -> Nat]]
        BY DEF Init
    <2>3. \A d \in Device : present[d]
        BY DEF Init
    <2>4. \A d \in Device : Parent[d] # None => present[Parent[d]]
        BY <2>3, ParentOfParent
    <2>5. leaving = None
        BY DEF Init
    <2>. QED
        BY <2>1, <2>2, <2>3, <2>4, <2>5 DEF Shape
<1>3. ASSUME NEW d \in Device PROVE Counted(d)
    <2>1. ASSUME NEW k \in Kind, NEW w \in Who, NEW n \in Nat PROVE ~IsClaim(k, w, n, d)
        <3>1. \A t \in Thread : ~Closes(th[t], d) /\ ~OpensOn(th[t], d) /\ ~At(t, "back")
            BY <1>1 DEF Idle, Closes, OpensOn, At
        <3>2. \A c \in Device : Matched(c) = 0
            BY <3>1 DEF Init, Matched, Backs
        <3>. QED
            BY <3>1, <3>2 DEF Init, IsClaim
    <2>2. Claims(d) = {}
        BY <2>1, ClaimsAre, ClaimIn
    <2>3. IsFiniteSet(Claims(d)) /\ Cardinality(Claims(d)) = 0
        BY <2>2, FS_EmptySet
    <2>4. refs[d] = 0
        BY DEF Init
    <2>. QED
        BY <2>3, <2>4 DEF Counted
<1>. QED
    BY <1>2, <1>3 DEF CountInv

LEMMA StutterCounts == IInv /\ CountInv /\ UNCHANGED vars => CountInv'
<1>. SUFFICES ASSUME IInv, CountInv, UNCHANGED vars PROVE CountInv'
    OBVIOUS
<1>1. UNCHANGED <<th, refs, holds, present, leaving, stolen, orphaned>>
    BY DEF vars, devices, detach, history
<1>2. Shape'
    BY <1>1 DEF CountInv, Shape, Tidy
<1>3. ASSUME NEW d \in Device PROVE Counted(d)'
    <2>1. \A k \in Kind, w \in Who, n \in Nat : IsClaim(k, w, n, d)' <=> IsClaim(k, w, n, d)
        BY <1>1 DEF IsClaim, Matched, Backs, At
    <2>2. Claims(d)' = Claims(d)
        BY <2>1, ClaimsStay
    <2>3. Moves(d, 0) /\ refs[d] \in Nat /\ refs'[d] \in Nat
        BY <1>1 DEF Moves, Forced, IInv, TypeOK
    <2>. QED
        BY <2>2, <2>3, CountStays DEF CountInv
<1>. QED
    BY <1>2, <1>3 DEF CountInv

LEMMA StepCounts == IInv /\ CountInv /\ [Next]_vars => CountInv'
<1>. SUFFICES ASSUME IInv, CountInv, [Next]_vars PROVE CountInv'
    OBVIOUS
<1>1. CASE UNCHANGED vars
    BY <1>1, StutterCounts
<1>2. CASE Next
    BY <1>2, MatchCounts, ServerOpenCounts, ServerCloseCounts, CheckCounts, OpenDeviceCounts,
       SetParentCounts, SetSlotCounts, SetAttachedCounts, GetParentCounts, CloseDeviceCounts,
       CloseDeviceBackCounts, UnslotCounts, FinishCounts, AttachDoneCounts, AttachFailsCounts,
       DetachDoneCounts, UserOpenCounts, UserCloseCounts, DetachCounts, DetachChannelCounts,
       DetachSlotCounts, DetachDeviceCounts, DetachEndsCounts
       DEF Next, Attach, GiveBack
<1>. QED
    BY <1>1, <1>2

\* The references of every device are those that somebody counts on, unless it is
\* closed by force.
THEOREM CountInvariant == Spec => [](IInv /\ CountInv)
<1>1. Init => IInv /\ CountInv
    BY InitSafe, InitCounts
<1>2. IInv /\ CountInv /\ [Next]_vars => (IInv /\ CountInv)'
    BY StepSafe, StepCounts
<1>. QED
    BY <1>1, <1>2, PTL DEF Spec

LEMMA ClaimNeedsReference ==
    ASSUME IInv, CountInv, NEW d \in Device, present[d], ~stolen, ~orphaned,
           NEW k \in Kind, NEW w \in Who, NEW n \in Nat, IsClaim(k, w, n, d)
    PROVE  open[d]
<1>1. Claims(d) # {}
    BY ClaimIn
<1>2. IsFiniteSet(Claims(d)) /\ refs[d] >= Cardinality(Claims(d))
    BY DEF CountInv, Counted
<1>3. Cardinality(Claims(d)) \in Nat /\ Cardinality(Claims(d)) # 0
    BY <1>1, <1>2, FS_CardinalityType, FS_EmptySet
<1>4. refs[d] \in Nat /\ refs[d] > 0
    BY <1>2, <1>3 DEF IInv, TypeOK
<1>. QED
    BY <1>4 DEF IInv, TypeOK

LEMMA HeldFollows == IInv /\ CountInv => HeldIsOpen
<1>. SUFFICES ASSUME IInv, CountInv, NEW p \in Channel, NEW d \in Device,
                     holds[p][d] > 0, present[d], ~stolen, ~orphaned
              PROVE  open[d] /\ (Parent[d] # None /\ ~closing[d] => open[Parent[d]])
    BY DEF HeldIsOpen
<1>. PICK zero \in Nat : zero = 0
    OBVIOUS
<1>1. IsClaim("hold", p, zero, d) /\ "hold" \in Kind /\ p \in Who
    BY DEF IsClaim, Kind, Who
<1>2. open[d]
    BY <1>1, ClaimNeedsReference
<1>3. ASSUME Parent[d] # None, ~closing[d] PROVE open[Parent[d]]
    <2>1. Parent[d] \in Device /\ present[Parent[d]]
        BY <1>3, ParentOfParent DEF CountInv, Shape
    <2>2. ~Backs(d)
        BY <1>3, BackIsOpen
    <2>3. refs[d] > 0 /\ Matched(d) = refs[d]
        BY <1>2, <2>2 DEF IInv, TypeOK, Matched
    <2>4. IsClaim("child", d, zero, Parent[d]) /\ "child" \in Kind /\ d \in Who
        BY <2>3 DEF IsClaim, Kind, Who
    <2>. QED
        BY <2>1, <2>4, ClaimNeedsReference
<1>. QED
    BY <1>2, <1>3

\* A device that openDevice returned OK for stays open, and its hub too, until it is
\* closed for that channel or detaches, whatever the others do.
THEOREM HeldStaysOpen == Spec => []HeldIsOpen
BY CountInvariant, HeldFollows, PTL

LEMMA ReferenceNeedsClaim ==
    ASSUME IInv, CountInv, NEW d \in Device, open[d], ~Forced(d)
    PROVE  \E k \in Kind, w \in Who, n \in Nat : IsClaim(k, w, n, d)
<1>1. refs[d] \in Nat /\ refs[d] > 0
    BY DEF IInv, TypeOK
<1>2. IsFiniteSet(Claims(d)) /\ refs[d] <= Cardinality(Claims(d))
    BY DEF CountInv, Counted
<1>3. Claims(d) # {}
    BY <1>1, <1>2, FS_EmptySet
<1>. PICK c : c \in Claims(d)
    BY <1>3
<1>4. PICK k \in Kind, w \in Who, n \in Nat : c = <<k, w, n>>
    BY ClaimsAre
<1>. QED
    BY <1>4, ClaimIn

LEMMA OpenFollows == IInv /\ CountInv => OpenIsHeld
<1>. SUFFICES ASSUME IInv, CountInv, \A t \in Thread : th[t].pc \notin {"open", "close", "back"},
                     NEW d \in Device, open[d]
              PROVE  \E p \in Channel, c \in Device : holds[p][c] > 0 /\ d \in {c, Parent[c]}
    BY DEF OpenIsHeld
<1>1. \A c \in Device : ~Forced(c) /\ ~Backs(c)
    BY DEF Forced, Backs, At
<1>2. \A c \in Device : open[c] <=> refs[c] > 0
    BY DEF IInv, TypeOK
<1>3. ASSUME NEW e \in Device, open[e]
      PROVE  \/ \E p \in Channel : holds[p][e] > 0
             \/ \E c \in Device : Parent[c] = e /\ open[c]
    <2>1. PICK k \in Kind, w \in Who, n \in Nat : IsClaim(k, w, n, e)
        BY <1>1, <1>3, ReferenceNeedsClaim
    <2>2. \A t \in Thread : ~Closes(th[t], e) /\ ~OpensOn(th[t], e)
        BY DEF Closes, OpensOn
    <2>3. CASE k = "hold"
        BY <2>1, <2>3 DEF IsClaim, CountInv, Shape
    <2>4. CASE k = "child"
        <3>1. w \in Device /\ Parent[w] = e /\ n < refs[w]
            BY <1>1, <2>1, <2>4 DEF IsClaim, Matched
        <3>2. refs[w] \in Nat
            BY <3>1 DEF IInv, TypeOK
        <3>. QED
            BY <1>2, <3>1, <3>2
    <2>. QED
        BY <2>1, <2>2, <2>3, <2>4 DEF IsClaim
<1>4. CASE \E p \in Channel : holds[p][d] > 0
    BY <1>4
<1>5. CASE \E c \in Device : Parent[c] = d /\ open[c]
    <2>. PICK c \in Device : Parent[c] = d /\ open[c]
        BY <1>5
    <2>1. ~\E b \in Device : Parent[b] = c
        BY ConstantsAssumption
    <2>2. \E p \in Channel : holds[p][c] > 0
        BY <1>3, <2>1
    <2>. QED
        BY <2>2
<1>. QED
    BY <1>3, <1>4, <1>5

\* When nobody opens or closes, a device is open only for a channel that holds it or
\* one on it: no reference is forgotten, and a detach by force takes them all.
THEOREM OpenForSomebody == Spec => []OpenIsHeld
BY CountInvariant, OpenFollows, PTL

=============================================================================
