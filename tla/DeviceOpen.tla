----------------------------- MODULE DeviceOpen -----------------------------
(* Channels attach to slots of devices and are closed, devices are opened   *)
(* when the first channel needs them and closed when the last one is done,  *)
(* and a VINT device takes its hub with it (phidget.c, manager.c,           *)
(* network/channel.c).                                                      *)
(*                                                                          *)
(* Threads meet here without a common lock: the central thread attaches and *)
(* detaches, users close, dispatchers give an attach up, the threads of     *)
(* network clients attach and close.  An action is what a thread does under *)
(* one hold of the run lock of a device, the run lock of a channel, or the  *)
(* member lock of a device.                                                 *)
EXTENDS Naturals, FiniteSets

CONSTANTS
    Device,         \* device objects; one that has detached does not come back
    Parent,         \* Parent[d]: the hub of d, or None
    Index,          \* indices of channel[] in a device
    Exclusive,      \* <<r, s>>: a channel in slot r keeps others out of s: of one device
                    \* by definition, of two on one port because of its mode
    Channel,        \* channels
    Served,         \* the channels that network clients open (OPENBYNETCLIENT)
    Fits,           \* Fits[p]: the slots that channel p may attach to
    Central,        \* the thread that attaches and detaches
    Server,         \* threads of network clients' connections
    None,           \* a null pointer
    MaxOpen,        \* bound: how often a channel is opened
    MaxFail         \* bound: how often a device does not open or an attach fails

\* device->channel[index]
Slot == Device \X Index

\* A channel is closed by one user's thread and its events run on one
\* dispatcher, at a time.
Thread == {Central} \cup Server \cup (Channel \X {"user", "dispatcher"})

ASSUME ConstantsAssumption ==
    /\ None \notin Device \cup Channel
    /\ Parent \in [Device -> Device \cup {None}]
    /\ \A d \in Device : Parent[d] # None => Parent[Parent[d]] = None
    /\ Exclusive \subseteq Slot \X Slot
    /\ Served \subseteq Channel
    /\ Fits \in [Channel -> SUBSET Slot]
    /\ {MaxOpen, MaxFail} \subseteq Nat

ASSUME ThreadsAssumption ==
    /\ Central \notin Server
    /\ ({Central} \cup Server) \cap (Channel \X {"user", "dispatcher"}) = {}

\* attachLocalChannel passes over the slot itself, and over its device.
ASSUME ExclusiveAssumption == \A s \in Slot : <<s, s>> \notin Exclusive

VARIABLES
    open,       \* open[d]: PHIDGET_OPEN_FLAG of the device
    refs,       \* references of device->conn that its openers hold
    closing,    \* closing[d]: PHIDGET_CLOSING_FLAG
    present,    \* present[d]: PHIDGET_ATTACHED_FLAG of the device
    slot,       \* slot[s]: device->channel[index], or None
    flags,      \* flags[p]: flags of the channel, and QUEUED: its attach event is queued
    parent,     \* channel->parent
    index,      \* channel->uniqueIndex
    th,         \* th[t]: where thread t is, and its locals
    leaving,    \* the device that the central thread is detaching, or None
    todo,       \* its slots that remain to be detached
    opens,      \* opens left to each channel (bound)
    fails,      \* failures left (bound)
    holds,      \* history: holds[p][d]: opens of d made for p and not given back
    crossed,    \* history: channels that attached while they were closed or given up
    stolen,     \* history: a channel gave back an open or a slot that was not its own
    orphaned,   \* history: a device is open whose parent could not be opened
    raced       \* history: two attaches that exclude each other were made at a time

devices == <<open, refs, closing>>
channels == <<slot, flags, parent, index>>
detach == <<present, leaving, todo>>
history == <<holds, crossed, stolen, orphaned, raced>>
bounds == <<opens, fails>>
vars == <<devices, channels, detach, th, bounds, history>>

Idle == [pc |-> "idle", ch |-> None, to |-> None, at |-> None, slot |-> None,
         ok |-> TRUE, force |-> FALSE, owed |-> TRUE]

Init ==
    /\ open = [d \in Device |-> FALSE]
    /\ refs = [d \in Device |-> 0]
    /\ closing = [d \in Device |-> FALSE]
    /\ present = [d \in Device |-> TRUE]
    /\ slot = [s \in Slot |-> None]
    /\ flags = [p \in Channel |-> {}]
    /\ parent = [p \in Channel |-> None]
    /\ index = [p \in Channel |-> None]
    /\ th = [t \in Thread |-> Idle]
    /\ leaving = None
    /\ todo = {}
    /\ opens = [p \in Channel |-> MaxOpen]
    /\ fails = MaxFail
    /\ holds = [p \in Channel |-> [d \in Device |-> 0]]
    /\ crossed = {}
    /\ stolen = FALSE
    /\ orphaned = FALSE
    /\ raced = FALSE

At(t, pc) == th[t].pc = pc
Goto(t, pc) == th' = [th EXCEPT ![t].pc = pc]
Has(p, f) == f \in flags[p]

\* A thread is at work on channel p.
Busy(p) == \E t \in Thread : th[t].ch = p /\ ~At(t, "idle")

\* What is taken back while it is made, or made while it is taken back.
Crosses(p) == crossed' = IF Busy(p) THEN crossed \cup {p} ELSE crossed

-----------------------------------------------------------------------------
(* openDevice and closeDevice                                               *)

Root(d) == IF Parent[d] = None THEN d ELSE Parent[d]

\* May the open of device d, which is not open yet, end with r?  A VINT device is
\* open when its hub is; what is no longer there cannot be opened.
Opens(t, d, r) ==
    /\ Parent[d] # None => r = th[t].ok
    /\ Parent[d] = None => (r => present[d]) /\ (~r => ~present[d] \/ fails > 0)
    /\ fails' = IF ~r /\ Parent[d] = None /\ present[d] THEN fails - 1 ELSE fails

\* attachLocalChannel returns an error.  A network client's channel that is in no
\* slot is dropped.
GivesUp(t) ==
    LET p == th[t].ch IN
    /\ th' = [th EXCEPT ![t] = Idle]
    /\ flags' = IF p \in Served /\ slot[th[t].slot] # p THEN [flags EXCEPT ![p] = {}] ELSE flags

\* openDevice: the parent first, then the device, each under its run lock.  One
\* that is open already is retained, whatever has become of its parent.
OpenDevice(t) ==
    LET d == th[t].at
        p == th[t].ch
    IN
    /\ At(t, "open")
    /\ \E r \in BOOLEAN :
        /\ IF open[d] THEN r /\ UNCHANGED fails ELSE Opens(t, d, r)
        /\ open' = [open EXCEPT ![d] = r]
        /\ refs' = IF r THEN [refs EXCEPT ![d] = @ + 1] ELSE refs
        /\ \/ /\ d # th[t].to
              /\ th' = [th EXCEPT ![t].ok = r, ![t].at = th[t].to]
              /\ UNCHANGED <<flags, holds>>
           \/ /\ d = th[t].to /\ r
              /\ Goto(t, "parent")
              /\ holds' = [holds EXCEPT ![p][d] = @ + 1]
              /\ UNCHANGED flags
           \/ /\ d = th[t].to /\ ~r
              /\ GivesUp(t)
              /\ UNCHANGED holds
    /\ orphaned' = (orphaned \/ (open[d] /\ ~th[t].ok))
    /\ UNCHANGED <<closing, slot, parent, index, detach, opens, crossed, stolen, raced>>

\* Thread t begins to close device d for channel p (or by force, for none).
StartsClose(t, p, d, force) ==
    /\ th' = [th EXCEPT ![t].pc = "close", ![t].ch = p, ![t].to = d, ![t].at = d,
                        ![t].force = force, ![t].owed = force \/ holds[p][d] > 0]

\* Another closer of the device is waited for.
MayEnterMutant(d) == TRUE
MayEnter(d) == ~closing[d]

\* By force, but a parent is never closed by force, "as it may not be detached".
ByForceMutant(t, d) == th[t].force
ByForce(t, d) == th[t].force /\ d = th[t].to

\* "Still open": openers hold n references.
StillOpenMutant(n) == n > 1
StillOpen(n) == n > 0

\* One reference is dropped.  By force it is all of them, where there is no parent
\* to be closed once more for each.
Dropped(t, d) ==
    LET n == IF ByForce(t, d) /\ Parent[d] = None THEN 0 ELSE refs[d] - 1 IN
    /\ refs' = [refs EXCEPT ![d] = n]
    /\ open' = [open EXCEPT ![d] = StillOpen(n)]
    /\ stolen' = (stolen \/ ~th[t].owed)

\* closeDevice on device d returns to whoever called it.
Returns(t, d) ==
    th' = [th EXCEPT ![t].pc = CASE d # th[t].to -> "back"
                                 [] d = th[t].to /\ th[t].force -> "gone"
                                 [] OTHER -> "unslot",
                     ![t].at = th[t].to]

\* closeDevice, up to the close of the parent.
CloseDevice(t) ==
    LET d == th[t].at IN
    /\ At(t, "close")
    /\ MayEnter(d)
    /\ \/ /\ ~open[d]
          /\ Returns(t, d)
          /\ UNCHANGED <<devices, stolen, raced>>
       \/ /\ open[d] /\ Parent[d] # None
          /\ closing' = [closing EXCEPT ![d] = TRUE]
          /\ th' = [th EXCEPT ![t].at = Parent[d]]
          /\ UNCHANGED <<open, refs, stolen, raced>>
       \/ /\ open[d] /\ Parent[d] = None
          /\ Dropped(t, d)
          /\ Returns(t, d)
          /\ UNCHANGED closing
    /\ UNCHANGED <<channels, detach, bounds, holds, crossed, orphaned, raced>>

\* "In the force case, we need to keep closing this and the parent".
GoesRoundMutant(t, d) == FALSE
GoesRound(t, d) == ByForce(t, d) /\ refs[d] > 1

\* closeDevice, after the close of the parent.  By force it goes round again
\* until the last reference is gone.
CloseDeviceBack(t) ==
    LET d == th[t].at IN
    /\ At(t, "back")
    /\ Dropped(t, d)
    /\ IF GoesRound(t, d)
       THEN /\ th' = [th EXCEPT ![t].pc = "close", ![t].at = Parent[d]]
            /\ UNCHANGED closing
       ELSE /\ closing' = [closing EXCEPT ![d] = FALSE]
            /\ Returns(t, d)
    /\ UNCHANGED <<channels, detach, bounds, holds, crossed, orphaned, raced>>

-----------------------------------------------------------------------------
(* attachLocalChannel, by the central thread or for a network client        *)

\* Thread t begins to attach channel p to slot s; another thread may be at it, for
\* this slot or one that excludes it.
StartsAttach(t, p, s) ==
    /\ th' = [th EXCEPT ![t] = [Idle EXCEPT !.pc = "check", !.ch = p, !.to = s[1], !.slot = s]]
    /\ Crosses(p)
    /\ raced' = (raced \/ \E u \in Thread :
                    /\ th[u].pc \in {"check", "open", "parent", "slot", "attached"}
                    /\ th[u].slot = s \/ <<th[u].slot, s>> \in Exclusive)

\* Nobody is in slot s.
FreeMutant(s) == TRUE
Free(s) == slot[s] = None

\* _matchOpenChannels: a channel that is open and a slot that is free.
Match(p, s) ==
    /\ At(Central, "idle") /\ leaving = None
    /\ p \notin Served /\ s \in Fits[p]
    /\ present[s[1]] /\ Free(s)
    /\ Has(p, "OPEN") /\ ~Has(p, "ATTACHED") /\ ~Has(p, "DETACHING")
    /\ StartsAttach(Central, p, s)
    /\ UNCHANGED <<devices, channels, detach, bounds, holds, stolen, orphaned>>

\* openServerChannel: the channel of the slot, when it is not open, or a new one.
ServerOpen(t, p, s) ==
    /\ At(t, "idle") /\ leaving = None
    /\ p \in Served /\ s \in Fits[p]
    /\ present[s[1]]
    /\ \/ /\ slot[s] = None
          /\ ~Busy(p) /\ flags[p] = {} /\ \A r \in Slot : slot[r] # p
          /\ parent' = [parent EXCEPT ![p] = None]
       \/ /\ slot[s] = p /\ ~Has(p, "OPEN")
          /\ UNCHANGED parent
    /\ opens[p] > 0
    /\ opens' = [opens EXCEPT ![p] = @ - 1]
    /\ flags' = [flags EXCEPT ![p] = @ \cup {"OPEN"}]
    /\ StartsAttach(t, p, s)
    /\ UNCHANGED <<devices, slot, index, detach, fails, holds, stolen, orphaned>>

\* A channel that is open already excludes slot s: an attached one on the same
\* port, or any on the same device.
ExcludedMutant(s) == \E r \in Slot : <<r, s>> \in Exclusive /\ r[1] # s[1] /\ slot[r] # None
Excluded(s) ==
    \E r \in Slot : /\ <<r, s>> \in Exclusive /\ slot[r] # None
                    /\ r[1] # s[1] => Has(slot[r], "ATTACHED")

\* The checks of attachLocalChannel; for a VINT device they wait for the lock of
\* the device list.
Check(t) ==
    LET p == th[t].ch
        s == th[t].slot
    IN
    /\ At(t, "check")
    /\ Parent[s[1]] = None \/ leaving = None
    /\ index' = IF Has(p, "OPEN") THEN [index EXCEPT ![p] = s[2]] ELSE index
    /\ IF Has(p, "OPEN") /\ ~Excluded(s)
       THEN /\ th' = [th EXCEPT ![t].pc = "open", ![t].at = Root(s[1])]
            /\ UNCHANGED flags
       ELSE GivesUp(t)
    /\ UNCHANGED <<devices, slot, parent, detach, bounds, history>>

\* startDispatch, ATTACHING, setParent.
SetParent(t) ==
    LET p == th[t].ch IN
    /\ At(t, "parent")
    /\ flags' = [flags EXCEPT ![p] = @ \cup {"ATTACHING", "QUEUED"}]
    /\ parent' = [parent EXCEPT ![p] = th[t].to]
    /\ Goto(t, "slot")
    /\ UNCHANGED <<devices, slot, index, detach, bounds, history>>

\* setChannel, whose DUPLICATE nobody looks at.
SetSlot(t) ==
    LET s == th[t].slot IN
    /\ At(t, "slot")
    /\ slot' = IF slot[s] = None THEN [slot EXCEPT ![s] = th[t].ch] ELSE slot
    /\ Goto(t, "attached")
    /\ UNCHANGED <<devices, flags, parent, index, detach, bounds, history>>

SetAttached(t) ==
    /\ At(t, "attached")
    /\ flags' = [flags EXCEPT ![th[t].ch] = @ \cup {"ATTACHED"}]
    /\ th' = [th EXCEPT ![t] = Idle]
    /\ UNCHANGED <<devices, slot, parent, index, detach, bounds, history>>

-----------------------------------------------------------------------------
(* The dispatcher of a channel, as far as the attach goes                   *)

AttachEvent(p) ==
    At(<<p, "dispatcher">>, "idle") /\ {"ATTACHED", "ATTACHING", "QUEUED"} \subseteq flags[p]

AttachDone(p) ==
    /\ AttachEvent(p)
    /\ flags' = [flags EXCEPT ![p] = @ \ {"ATTACHING", "QUEUED"}]
    /\ UNCHANGED <<devices, slot, parent, index, detach, th, bounds, history>>

\* attach_error: the flags first, then the parent, which the channel keeps.
AttachFails(p) ==
    /\ AttachEvent(p) /\ fails > 0
    /\ fails' = fails - 1
    /\ flags' = [flags EXCEPT ![p] = @ \ {"ATTACHED", "ATTACHING", "QUEUED"}]
    /\ Crosses(p)
    /\ th' = [th EXCEPT ![<<p, "dispatcher">>] = [Idle EXCEPT !.pc = "getparent", !.ch = p]]
    /\ UNCHANGED <<devices, slot, parent, index, detach, opens, holds, stolen, orphaned, raced>>

\* The detach event.
DetachDone(p) ==
    /\ At(<<p, "dispatcher">>, "idle") /\ Has(p, "DETACHING")
    /\ flags' = [flags EXCEPT ![p] = @ \ {"ATTACHED", "DETACHING"}]
    /\ UNCHANGED <<devices, slot, parent, index, detach, th, bounds, history>>

-----------------------------------------------------------------------------
(* Phidget_open and Phidget_close                                           *)

UserOpen(p) ==
    /\ p \notin Served /\ At(<<p, "user">>, "idle")
    /\ ~Has(p, "OPEN") /\ opens[p] > 0
    /\ opens' = [opens EXCEPT ![p] = @ - 1]
    /\ flags' = [flags EXCEPT ![p] = (@ \cup {"OPEN"}) \ {"ATTACHED"}]
    /\ UNCHANGED <<devices, slot, parent, index, detach, th, history, fails>>

\* Phidget_close on thread t: the first to clear OPEN goes on.
ClosesChannel(t, p, rest) ==
    /\ Has(p, "OPEN")
    /\ flags' = [flags EXCEPT ![p] = rest \ {"OPEN"}]
    /\ Crosses(p)
    /\ th' = [th EXCEPT ![t] = [Idle EXCEPT !.pc = "getparent", !.ch = p]]

UserClose(p) ==
    /\ p \notin Served /\ At(<<p, "user">>, "idle")
    /\ ClosesChannel(<<p, "user">>, p, flags[p])
    /\ UNCHANGED <<devices, slot, parent, index, detach, bounds, holds, stolen, orphaned, raced>>

\* closeServerChannel finds the channel in its slot.
ServerClose(t, s) ==
    LET p == slot[s] IN
    /\ At(t, "idle") /\ leaving = None /\ present[s[1]]
    /\ p \in Served /\ Has(p, "ATTACHED")
    /\ ClosesChannel(t, p, flags[p])
    /\ UNCHANGED <<devices, slot, parent, index, detach, bounds, holds, stolen, orphaned, raced>>

\* Where a thread goes on that has closed the device of its channel.
GivesBackSlot(t) == t \in Channel \X {"dispatcher"}
Ended(t) == IF t = Central THEN [Idle EXCEPT !.pc = "emptied", !.slot = th[t].slot] ELSE Idle

\* The channel has a device to be closed: also when it is not attached any more.
HasDeviceMutant(p) == parent[p] # None /\ Has(p, "ATTACHED") /\ ~Has(p, "DETACHING")
HasDevice(p) == parent[p] # None

GetParent(t) ==
    LET p == th[t].ch
        d == parent[p]
    IN
    /\ At(t, "getparent")
    /\ \/ /\ ~HasDevice(p)
          /\ th' = IF GivesBackSlot(t) THEN [th EXCEPT ![t] = Idle] ELSE [th EXCEPT ![t].pc = "finish"]
          /\ UNCHANGED holds
       \/ /\ HasDevice(p)
          /\ StartsClose(t, p, d, FALSE)
          /\ holds' = IF holds[p][d] > 0 THEN [holds EXCEPT ![p][d] = @ - 1] ELSE holds
    /\ UNCHANGED <<devices, channels, detach, bounds, crossed, stolen, orphaned, raced>>

\* setChannel(device, channel->uniqueIndex, NULL), whoever is in that slot.
Unslot(t) ==
    LET p == th[t].ch
        s == <<th[t].to, index[p]>>
    IN
    /\ At(t, "unslot")
    /\ slot' = [slot EXCEPT ![s] = None]
    /\ stolen' = (stolen \/ slot[s] \notin {p, None})
    /\ th' = IF GivesBackSlot(t) THEN [th EXCEPT ![t] = Idle] ELSE [th EXCEPT ![t].pc = "finish"]
    /\ UNCHANGED <<devices, flags, parent, index, detach, bounds, holds, crossed, orphaned, raced>>

\* channelClose.
Finish(t) ==
    LET p == th[t].ch IN
    /\ At(t, "finish")
    /\ flags' = IF Has(p, "DETACHING") THEN flags ELSE [flags EXCEPT ![p] = @ \ {"ATTACHED", "QUEUED"}]
    /\ th' = [th EXCEPT ![t] = Ended(t)]
    /\ UNCHANGED <<devices, slot, parent, index, detach, bounds, history>>

-----------------------------------------------------------------------------
(* deviceDetach, with the lock of the device list                           *)

Detach(d) ==
    /\ At(Central, "idle") /\ leaving = None
    /\ present[d] /\ \A c \in Device : Parent[c] = d => ~present[c]
    /\ leaving' = d
    /\ todo' = {d} \X Index
    /\ UNCHANGED <<devices, channels, present, th, bounds, history>>

\* channelDetach waits until the channel attaches no more.  A channel of a
\* network client is closed.
DetachChannel(s) ==
    LET p == slot[s]
        rest == IF Has(p, "ATTACHED") THEN flags[p] \cup {"DETACHING"} ELSE flags[p] \ {"QUEUED"}
    IN
    /\ At(Central, "idle") /\ s \in todo
    /\ p # None /\ ~Has(p, "ATTACHING")
    /\ \/ /\ p \in Served
          /\ Has(p, "OPEN")
          /\ flags' = [flags EXCEPT ![p] = rest \ {"OPEN"}]
          /\ Crosses(p)
          /\ th' = [th EXCEPT ![Central] = [Idle EXCEPT !.pc = "getparent", !.ch = p, !.slot = s]]
       \/ /\ p \notin Served \/ ~Has(p, "OPEN")
          /\ flags' = [flags EXCEPT ![p] = rest]
          /\ th' = [th EXCEPT ![Central] = [Idle EXCEPT !.pc = "emptied", !.slot = s]]
          /\ UNCHANGED crossed
    /\ UNCHANGED <<devices, slot, parent, index, detach, bounds, holds, stolen, orphaned, raced>>

DetachSlot ==
    /\ At(Central, "emptied")
    /\ slot' = [slot EXCEPT ![th[Central].slot] = None]
    /\ todo' = todo \ {th[Central].slot}
    /\ th' = [th EXCEPT ![Central] = Idle]
    /\ UNCHANGED <<devices, flags, parent, index, present, leaving, bounds, history>>

\* With the channels gone, the device is closed by force.
DetachDevice ==
    LET d == leaving IN
    /\ At(Central, "idle") /\ d # None
    /\ \A s \in todo : slot[s] = None
    /\ todo' = {}
    /\ present' = [present EXCEPT ![d] = FALSE]
    /\ StartsClose(Central, None, d, TRUE)
    /\ holds' = [p \in Channel |-> [holds[p] EXCEPT ![d] = 0]]
    /\ UNCHANGED <<devices, channels, leaving, bounds, crossed, stolen, orphaned, raced>>

DetachEnds ==
    /\ At(Central, "gone")
    /\ leaving' = None
    /\ th' = [th EXCEPT ![Central] = Idle]
    /\ UNCHANGED <<devices, channels, present, todo, bounds, history>>

-----------------------------------------------------------------------------

Attach(t) == Check(t) \/ OpenDevice(t) \/ SetParent(t) \/ SetSlot(t) \/ SetAttached(t)
GiveBack(t) == GetParent(t) \/ CloseDevice(t) \/ CloseDeviceBack(t) \/ Unslot(t) \/ Finish(t)

Next ==
    \/ \E p \in Channel, s \in Slot : Match(p, s)
    \/ \E t \in Server, p \in Channel, s \in Slot : ServerOpen(t, p, s)
    \/ \E t \in Server, s \in Slot : ServerClose(t, s)
    \/ \E t \in Thread : Attach(t) \/ GiveBack(t)
    \/ \E p \in Channel :
          AttachDone(p) \/ AttachFails(p) \/ DetachDone(p) \/ UserOpen(p) \/ UserClose(p)
    \/ \E d \in Device : Detach(d)
    \/ \E s \in Slot : DetachChannel(s)
    \/ DetachSlot \/ DetachDevice \/ DetachEnds

Spec == Init /\ [][Next]_vars

-----------------------------------------------------------------------------
(* Properties                                                               *)

\* A device is open while openers hold references of its connection (phidget.c:748).
TypeOK ==
    /\ {open, closing, present} \subseteq [Device -> BOOLEAN]
    /\ refs \in [Device -> Nat]
    /\ slot \in [Slot -> Channel \cup {None}]
    /\ flags \in [Channel -> SUBSET {"OPEN", "ATTACHING", "ATTACHED", "DETACHING", "QUEUED"}]
    /\ parent \in [Channel -> Device \cup {None}]
    /\ index \in [Channel -> Index \cup {None}]
    /\ \A d \in Device : open[d] <=> refs[d] > 0

\* Thread t has let go of the run lock of device d to close its parent.
ClosesParentOf(t, d) ==
    /\ th[t].to = d /\ Parent[d] # None
    /\ At(t, "back") \/ (At(t, "close") /\ th[t].at # d)

\* phidget.c:701 ("Another thread closing? wait"): while the run lock is free in the
\* middle of a close, CLOSING keeps other closers of the device out, and each
\* finds it cleared after its own close.
ClosingIsToken ==
    \A d \in Device :
        /\ closing[d] <=> \E t \in Thread : ClosesParentOf(t, d)
        /\ \A t, u \in Thread : ClosesParentOf(t, d) /\ ClosesParentOf(u, d) => t = u

\* phidget.c:734 ("Ref count should never reach 0 from closeDevice"): when the parent
\* is closed and the run lock taken again, the reference to be dropped is still
\* there.
CloserFindsItOpen == \A t \in Thread : At(t, "back") => refs[th[t].to] > 0

\* What openDevice returned OK for stays open, and the hub below it, until it is
\* closed for that channel or the device detaches: whatever other channels do.  Two
\* things break it: a close that follows a failed attach gives the device back
\* once more (stolen, dispatch.c:1091), and openDevice retains an open device
\* whose hub it could not open (orphaned, phidget.c:639).
HeldIsOpen ==
    \A p \in Channel, d \in Device :
        holds[p][d] > 0 /\ present[d] =>
            \/ open[d] /\ (Parent[d] # None /\ ~closing[d] => open[Parent[d]])
            \/ stolen \/ orphaned

\* When nobody opens or closes, a device is open only for a channel that holds it, or
\* for a device on it that a channel holds: a detach by force gives back every
\* reference of the hub, and no more.
OpenIsHeld ==
    (\A t \in Thread : th[t].pc \notin {"open", "close", "back"}) =>
        \A d \in Device : open[d] =>
            \E p \in Channel, c \in Device : holds[p][c] > 0 /\ d \in {c, Parent[c]}

\* A channel that is closed has given back its devices and its slot, but for a close
\* that met an attach: attachLocalChannel looks at OPEN before the "slow"
\* openDevice (phidget.c:1009) and never after it.
CloseGivesBack ==
    \A p \in Channel :
        ~Busy(p) /\ ~Has(p, "OPEN") /\ p \notin crossed =>
            /\ \A d \in Device : holds[p][d] = 0
            /\ \A s \in Slot : slot[s] # p

\* Channels that exclude each other are not attached together, when they do not
\* attach at a time: the lock of phidget.c:973 is released long before the slot
\* is taken.  A slot is no proof that its channel is attached to it: one whose
\* attach failed is matched to another device while its dispatcher has not given
\* this slot back yet (dispatch.c:1091).
ExclusiveRespected ==
    \A r, s \in Slot :
        /\ {<<r, s>>, <<s, r>>} \subseteq Exclusive /\ slot[r] # None /\ slot[s] # None
        /\ Has(slot[r], "ATTACHED") /\ Has(slot[s], "ATTACHED")
        => raced \/ slot[r] \in crossed \/ slot[s] \in crossed

\* network/channel.c:116: "There is a race where the channel could get opened while
\* [we] are creating ours, but attachChannel() will double check": two channels do
\* not get attached to one slot.
DoubleChecked ==
    \A p, r \in Channel :
        /\ p # r /\ ~Busy(p) /\ ~Busy(r)
        /\ {"OPEN", "ATTACHED"} \subseteq flags[p] \cap flags[r]
        => <<parent[p], index[p]>> # <<parent[r], index[r]>>

\* The same, but for two that attach at a time; and the one that is attached is the
\* one in the slot, where the device's packets find it.
AttachedIsInSlot ==
    \A p \in Channel :
        {"OPEN", "ATTACHED"} \subseteq flags[p] /\ "DETACHING" \notin flags[p] /\ ~Busy(p) =>
            slot[<<parent[p], index[p]>>] = p \/ raced \/ stolen \/ p \in crossed

=============================================================================
