----------------------------- MODULE HubPackets -----------------------------
(* The packets a VINT hub sends to the devices on its ports: the packet       *)
(* trackers that match an answer to its packet (util/packettracker.c), the    *)
(* count of bytes in the buffer that the hub's firmware keeps for each port    *)
(* (device/hubdevice.c), and the callers of the two, sendpacket and the        *)
(* transactions (phidget.c).                                                   *)
(*                                                                             *)
(* Each port has one sender, the thread that holds bridgeInputLock of the      *)
(* device on the port (deviceBridgeInput, devices.c).  The reader is the       *)
(* thread that hands the hub's input reports to PhidgetHubDevice_dataInput.    *)
(* The hub itself is external: its firmware keeps the packets of a port in a   *)
(* ring, answers them in order, and its reports may be lost.                   *)
(*                                                                             *)
(* A step is what happens under one hold of the lock of the hub or of a        *)
(* tracker.  Not modelled: a hub that detaches, the closing of a device, and   *)
(* the data of the devices.                                                    *)
EXTENDS Integers, Sequences, FiniteSets, SequencesExt, FiniteSetsExt

CONSTANTS
    NumPorts,       \* numVintPorts
    PerPort,        \* VINTHUB_PACKETIDS_PER_PORT
    BufferLen,      \* internalPacketInBufferLen
    Sizes,          \* lengths of packets
    Unknown,        \* PUNK_SIZE
    NoId,
    MaxBatch,       \* bound: packets of a transaction
    MaxRequests,    \* bound: requests of each sender
    MaxFaults       \* bound: reports lost and sends that fail

ASSUME HubAssumption ==
    /\ {NumPorts, PerPort, BufferLen} \subseteq Nat \ {0}
    /\ Sizes \subseteq Nat \ {0}
    /\ {MaxBatch, MaxRequests, MaxFaults} \subseteq Nat
    /\ Unknown \notin Nat
    /\ NoId \notin Nat

VARIABLES
    state,          \* [Id -> set of flags]: _state of a tracker
    code,           \* [Id -> Code]: its _returnCode
    len,            \* [Id -> Nat]: its len
    counter,        \* [Port -> Nat]: where the search for a tracker starts
    space,          \* [Port -> Nat or Unknown]: outstandingPacketCnt
    th,             \* [Port -> record]: the sender of each port
    rd,             \* the reader
    fw,             \* [Port -> Seq]: the packets in the firmware's buffer
    pipe,           \* Seq: the reports that the reader has not seen
    asked,          \* requests for the buffer status that the hub has not seen
    gap,            \* a report was lost since the last one read
    left,           \* [Port -> Nat]: requests to come
    lost, fails,    \* reports lost and sends failed so far
    taken           \* [Port -> Nat]: packets of the request that the device took

trackers == <<state, code, len, counter>>
hub == <<fw, pipe, asked>>
bounds == <<left, lost, fails>>
vars == <<trackers, space, th, rd, hub, gap, bounds, taken>>

Port == 0..NumPorts - 1
FirstId(p) == p * PerPort + 1
LastId(p) == (p + 1) * PerPort
IdsOf(p) == FirstId(p)..LastId(p)
Id == 1..NumPorts * PerPort
PortOf(i) == (i - 1) \div PerPort

Flag == {"INUSE", "SIGNALLED", "SENT", "ABANDONED"}
Code == {"UNKNOWNVAL", "OK", "UNEXPECTED", "NOSPC", "INTERRUPTED", "TIMEOUT"}

Used(p) == FoldSeq(LAMBDA pkt, n : n + pkt.len, 0, fw[p])

Idle(res) == [pc |-> "idle", id |-> NoId, size |-> 0, list |-> <<>>, todo |-> 0,
              all |-> 0, trans |-> FALSE, ending |-> FALSE, res |-> res, error |-> "OK"]

Reads == [pc |-> "idle", id |-> NoId, code |-> "OK", len |-> 0, gap |-> FALSE]

\* The hub was opened: the counts are unknown and the status was asked for
Init ==
    /\ state = [i \in Id |-> {}]
    /\ code = [i \in Id |-> "UNKNOWNVAL"]
    /\ len = [i \in Id |-> 0]
    /\ counter = [p \in Port |-> 0]
    /\ space = [p \in Port |-> Unknown]
    /\ th = [p \in Port |-> Idle("OK")]
    /\ rd = Reads
    /\ fw = [p \in Port |-> <<>>]
    /\ pipe = <<>>
    /\ asked = 1
    /\ gap = FALSE
    /\ left = [p \in Port |-> MaxRequests]
    /\ lost = 0
    /\ fails = 0
    /\ taken = [p \in Port |-> 0]

At(p, where) == th[p].pc = where
Goto(p, where) == th' = [th EXCEPT ![p].pc = where]
Is(i, flag) == flag \in state[i]

-----------------------------------------------------------------------------
(* The sender of a port *)

\* One packet, or a transaction of several
Request(p) ==
    /\ At(p, "idle")
    /\ left[p] > 0
    /\ \E n \in 1..MaxBatch :
        th' = [th EXCEPT ![p] = [Idle("OK") EXCEPT !.pc = "get", !.todo = n,
                                                   !.all = n, !.trans = n > 1]]
    /\ left' = [left EXCEPT ![p] = @ - 1]
    /\ taken' = [taken EXCEPT ![p] = 0]
    /\ UNCHANGED <<trackers, space, rd, hub, gap, lost, fails>>

\* The result of a request of t.all packets
Over(t, res) == [Idle(res) EXCEPT !.all = t.all]

FirstErrorMutant(error, res) == res
\* The first error of a transaction is its result
FirstError(error, res) == IF error = "OK" THEN res ELSE error

\* endTransaction waits for the trackers that are left, one after the other
Ends(t) ==
    IF t.list # <<>> THEN [t EXCEPT !.pc = "wait", !.id = Head(t.list), !.ending = TRUE]
    ELSE Over(t, FirstError(t.error, t.res))

\* sendpacket returned res.  A transaction goes on with its next packet, and
\* ends after the last or after one that failed.
Sent(t, res) ==
    IF ~t.trans THEN Over(t, res)
    ELSE IF res = "OK" /\ t.todo > 1 THEN [t EXCEPT !.pc = "get", !.id = NoId, !.todo = @ - 1]
    ELSE Ends([t EXCEPT !.res = res])

\* The j-th tracker that getPacketTracker looks at: it cycles through the
\* packet ids of the port
Candidate(p, j) ==
    LET i == j + counter[p] IN
    IF i > LastId(p) THEN i - (LastId(p) - FirstId(p)) ELSE i

FreeAt(p) == {j \in IdsOf(p) : ~Is(Candidate(p, j), "INUSE")}

GetTracker(p) ==
    /\ At(p, "get")
    /\ \E j \in FreeAt(p), n \in Sizes :
        LET i == Candidate(p, j) IN
        /\ \A k \in FreeAt(p) : j <= k
        /\ state' = [state EXCEPT ![i] = @ \cup {"INUSE"}]
        /\ code' = [code EXCEPT ![i] = "UNKNOWNVAL"]
        /\ len' = [len EXCEPT ![i] = 0]
        /\ th' = [th EXCEPT ![p].pc = "claim", ![p].id = i, ![p].size = n]
    /\ counter' = [counter EXCEPT ![p] = IF @ + 1 > LastId(p) - FirstId(p) THEN 0 ELSE @ + 1]
    /\ UNCHANGED <<space, rd, hub, gap, bounds, taken>>

\* getPacketTrackerWait gives up
GetTimesOut(p) ==
    /\ At(p, "get")
    /\ FreeAt(p) = {}
    /\ th' = [th EXCEPT ![p] = Sent(th[p], "TIMEOUT")]
    /\ UNCHANGED <<trackers, space, rd, hub, gap, bounds, taken>>

Fits(p) == space[p] # Unknown /\ space[p] + th[p].size < BufferLen

\* PhidgetHubDevice_claimPacketSpace
ClaimSpace(p) ==
    /\ At(p, "claim")
    /\ Fits(p)
    /\ space' = [space EXCEPT ![p] = @ + th[p].size]
    /\ Goto(p, "length")
    /\ UNCHANGED <<trackers, rd, hub, gap, bounds, taken>>

\* ... gives up: the tracker is released by force
ClaimTimesOut(p) ==
    /\ At(p, "claim")
    /\ ~Fits(p)
    /\ state' = [state EXCEPT ![th[p].id] = {}]
    /\ th' = [th EXCEPT ![p] = Sent(th[p], "TIMEOUT")]
    /\ UNCHANGED <<code, len, counter, space, rd, hub, gap, bounds, taken>>

SetLength(p) ==
    /\ At(p, "length")
    /\ len' = [len EXCEPT ![th[p].id] = th[p].size]
    /\ Goto(p, "send")
    /\ UNCHANGED <<state, code, counter, space, rd, hub, gap, bounds, taken>>

\* sendpacketWithTracking: the packet is with the hub, in the buffer of its
\* port or, when that is full, answered at once
Send(p) ==
    LET i == th[p].id IN
    /\ At(p, "send")
    /\ ~Is(i, "SIGNALLED")
    /\ state' = [state EXCEPT ![i] = @ \cup {"SENT"}]
    /\ IF Used(p) + th[p].size < BufferLen
       THEN /\ fw' = [fw EXCEPT ![p] = Append(@, [id |-> i, len |-> th[p].size,
                                                 request |-> left[p]])]
            /\ UNCHANGED pipe
       ELSE /\ pipe' = Append(pipe, [kind |-> "return", id |-> i, code |-> "NOSPC"])
            /\ UNCHANGED fw
    /\ Goto(p, IF th[p].trans THEN "reap" ELSE "wait")
    /\ UNCHANGED <<code, len, counter, space, rd, asked, gap, bounds, taken>>

\* The transport fails
SendFails(p) ==
    /\ At(p, "send")
    /\ ~Is(th[p].id, "SIGNALLED")
    /\ lost + fails < MaxFaults
    /\ fails' = fails + 1
    /\ th' = [th EXCEPT ![p].pc = "release", ![p].res = "UNEXPECTED"]
    /\ UNCHANGED <<trackers, space, rd, hub, gap, left, lost, taken>>

\* The tracker was signalled before the packet was sent
SendInterrupted(p) ==
    /\ At(p, "send")
    /\ Is(th[p].id, "SIGNALLED")
    /\ th' = [th EXCEPT ![p].pc = "release", ![p].res = "INTERRUPTED"]
    /\ UNCHANGED <<trackers, space, rd, hub, gap, bounds, taken>>

\* In a transaction the first tracker that is done is released after each send,
\* and that of the packet sent is kept
Done(p) == {k \in DOMAIN th[p].list : Is(th[p].list[k], "SIGNALLED")}

Reap(p) ==
    LET t == th[p] IN
    /\ At(p, "reap")
    /\ \/ /\ Done(p) = {}
          /\ th' = [th EXCEPT ![p] = Sent([t EXCEPT !.list = Append(@, t.id)], "OK")]
          /\ UNCHANGED state
       \/ \E k \in Done(p) :
          /\ \A other \in Done(p) : k <= other
          /\ th' = [th EXCEPT ![p] =
                        Sent([t EXCEPT !.list = Append(RemoveAt(@, k), t.id),
                                       !.error = FirstError(@, code[t.list[k]])], "OK")]
          /\ state' = [state EXCEPT ![t.list[k]] = {}]
    /\ UNCHANGED <<code, len, counter, space, rd, hub, gap, bounds, taken>>

\* waitForPendingPacket returned: what sendpacketWithTracking returns, or what
\* endTransaction makes of it
Waited(p, res) ==
    th' = [th EXCEPT ![p].pc = "release",
                     ![p].res = IF th[p].ending THEN @ ELSE res,
                     ![p].error = IF th[p].ending THEN FirstError(@, res) ELSE @]

WaitAnswered(p) ==
    /\ At(p, "wait")
    /\ Is(th[p].id, "SIGNALLED")
    /\ Waited(p, code[th[p].id])
    /\ UNCHANGED <<trackers, space, rd, hub, gap, bounds, taken>>

WaitTimesOut(p) ==
    /\ At(p, "wait")
    /\ ~Is(th[p].id, "SIGNALLED")
    /\ Waited(p, "TIMEOUT")
    /\ UNCHANGED <<trackers, space, rd, hub, gap, bounds, taken>>

\* releasePacketTracker: one that was sent and is not answered is abandoned
ReleasedMutant(i) == {}
Released(i) ==
    IF {"INUSE", "SIGNALLED", "SENT"} \cap state[i] = {"INUSE", "SENT"}
    THEN state[i] \cup {"ABANDONED"}
    ELSE {}

Release(p) ==
    LET t == th[p] IN
    /\ At(p, "release")
    /\ state' = [state EXCEPT ![t.id] = Released(t.id)]
    /\ th' = [th EXCEPT ![p] = IF t.ending THEN Ends([t EXCEPT !.list = Tail(@)])
                               ELSE Sent(t, t.res)]
    /\ UNCHANGED <<code, len, counter, space, rd, hub, gap, bounds, taken>>

Sender(p) ==
    \/ GetTracker(p) \/ ClaimSpace(p) \/ SetLength(p)
    \/ Send(p) \/ SendInterrupted(p) \/ Reap(p)
    \/ WaitAnswered(p) \/ Release(p)

TimesOut(p) == GetTimesOut(p) \/ ClaimTimesOut(p) \/ WaitTimesOut(p)

-----------------------------------------------------------------------------
(* The reader: PhidgetHubDevice_dataInput *)

\* What the reader does when it is through with the answers and the status of a
\* report: its packet counter says whether one was lost before it
Checked(r) == IF r.gap THEN [r EXCEPT !.pc = "asklost"] ELSE Reads

\* A report with an answer: the length of its packet is read before the tracker
\* is signalled, because then another packet may claim it
ReadReturn ==
    /\ rd.pc = "idle"
    /\ pipe # <<>>
    /\ Head(pipe).kind = "return"
    /\ rd' = [pc |-> "code", id |-> Head(pipe).id, code |-> Head(pipe).code,
              len |-> len[Head(pipe).id], gap |-> gap]
    /\ pipe' = Tail(pipe)
    /\ gap' = FALSE
    /\ UNCHANGED <<trackers, space, th, fw, asked, bounds, taken>>

\* A report with the buffer status: it fills in the counts that are unknown
FilledMutant(p) == space[p] # Unknown
FilledIn(p) == space[p] = Unknown

ReadStatus ==
    /\ rd.pc = "idle"
    /\ pipe # <<>>
    /\ Head(pipe).kind = "status"
    /\ space' = [p \in Port |-> IF FilledIn(p) THEN Head(pipe).used[p] ELSE space[p]]
    /\ rd' = Checked([rd EXCEPT !.gap = gap])
    /\ pipe' = Tail(pipe)
    /\ gap' = FALSE
    /\ UNCHANGED <<trackers, th, fw, asked, bounds, taken>>

\* A report with nothing but the data of devices
ReadData ==
    /\ rd.pc = "idle"
    /\ pipe # <<>>
    /\ Head(pipe).kind = "data"
    /\ rd' = Checked([rd EXCEPT !.gap = gap])
    /\ pipe' = Tail(pipe)
    /\ gap' = FALSE
    /\ UNCHANGED <<trackers, space, th, fw, asked, bounds, taken>>

\* setPacketReturnCode does not know the packet: the counts will be out
ReturnUnexpected ==
    /\ rd.pc = "code"
    /\ ~Is(rd.id, "INUSE") \/ Is(rd.id, "SIGNALLED")
    /\ rd' = [rd EXCEPT !.pc = "unknown"]
    /\ UNCHANGED <<trackers, space, th, hub, gap, bounds, taken>>

\* What an answer does to an abandoned tracker
AnsweredMutant(i) == state[i]
Answered(i) == {}

\* setPacketReturnCode: an abandoned tracker is free again
SetReturnCode ==
    LET i == rd.id IN
    /\ rd.pc = "code"
    /\ Is(i, "INUSE")
    /\ ~Is(i, "SIGNALLED")
    /\ IF Is(i, "ABANDONED")
       THEN /\ state' = [state EXCEPT ![i] = Answered(i)]
            /\ UNCHANGED code
       ELSE /\ state' = [state EXCEPT ![i] = @ \cup {"SIGNALLED"}]
            /\ code' = [code EXCEPT ![i] = rd.code]
    /\ rd' = [rd EXCEPT !.pc = "space"]
    /\ UNCHANGED <<len, counter, space, th, hub, gap, bounds, taken>>

GivenBackMutant(n, size) == n - size
\* What is left of a count of n.  "When a packet is lost, things can get out of
\* sync.  Make sure we don't go below 0!"
GivenBack(n, size) == IF n < size THEN 0 ELSE n - size

LengthMutant == len[rd.id]
\* The length of the packet when its answer was read: the tracker may be another
\* packet's by now
Length == rd.len

\* PhidgetHubDevice_releasePacketSpace
ReleaseSpace ==
    LET p == PortOf(rd.id) IN
    /\ rd.pc = "space"
    /\ space' = [space EXCEPT ![p] = IF @ = Unknown THEN Unknown ELSE GivenBack(@, Length)]
    /\ rd' = IF rd.code = "NOSPC" THEN [rd EXCEPT !.pc = "unknown"] ELSE Checked(rd)
    /\ UNCHANGED <<trackers, th, hub, gap, bounds, taken>>

\* readInTXBufferCounts
CountsUnknown ==
    /\ rd.pc = "unknown"
    /\ space' = [space EXCEPT ![PortOf(rd.id)] = Unknown]
    /\ rd' = [rd EXCEPT !.pc = "ask"]
    /\ UNCHANGED <<trackers, th, hub, gap, bounds, taken>>

\* The buffer status was asked for
Asked == IF rd.pc = "ask" THEN Checked(rd) ELSE [rd EXCEPT !.pc = "kill"]

AskStatus ==
    /\ rd.pc \in {"ask", "asklost"}
    /\ asked' = asked + 1
    /\ rd' = Asked
    /\ UNCHANGED <<trackers, space, th, fw, pipe, gap, bounds, taken>>

\* The request cannot be sent: that is only logged
AskFails ==
    /\ rd.pc \in {"ask", "asklost"}
    /\ rd' = Asked
    /\ UNCHANGED <<trackers, space, th, hub, gap, bounds, taken>>

\* _setPacketsReturnCode: what it does to a tracker, sent but not released
Outstanding(i) == {"INUSE", "SENT"} \subseteq state[i]

KilledMutant(i) == state[i] \cup {"SIGNALLED"}
Killed(i) == IF Is(i, "ABANDONED") THEN {} ELSE state[i] \cup {"SIGNALLED"}

\* The outstanding packets are killed: whoever waits is interrupted, and the
\* counts are unknown
KillOutstanding ==
    /\ rd.pc = "kill"
    /\ space' = [p \in Port |-> IF space[p] = 0 THEN 0 ELSE Unknown]
    /\ state' = [i \in Id |-> IF Outstanding(i) THEN Killed(i) ELSE state[i]]
    /\ code' = [i \in Id |-> IF Outstanding(i) /\ ~Is(i, "ABANDONED") THEN "INTERRUPTED"
                             ELSE code[i]]
    /\ rd' = Reads
    /\ UNCHANGED <<len, counter, th, hub, gap, bounds, taken>>

Reader ==
    \/ ReadReturn \/ ReadStatus \/ ReadData \/ ReturnUnexpected \/ SetReturnCode
    \/ ReleaseSpace \/ CountsUnknown \/ AskStatus \/ KillOutstanding

-----------------------------------------------------------------------------
(* The hub *)

\* The device on port p takes or rejects the first packet in its buffer
Answer(p) ==
    /\ fw[p] # <<>>
    /\ \E c \in {"OK", "UNEXPECTED"} :
        /\ pipe' = Append(pipe, [kind |-> "return", id |-> Head(fw[p]).id, code |-> c])
        /\ taken' = [taken EXCEPT ![p] =
                        IF c = "OK" /\ Head(fw[p]).request = left[p] THEN @ + 1 ELSE @]
    /\ fw' = [fw EXCEPT ![p] = Tail(@)]
    /\ UNCHANGED <<trackers, space, th, rd, asked, gap, bounds>>

Status ==
    /\ asked > 0
    /\ asked' = asked - 1
    /\ pipe' = Append(pipe, [kind |-> "status", used |-> [p \in Port |-> Used(p)]])
    /\ UNCHANGED <<trackers, space, th, rd, fw, gap, bounds, taken>>

\* Any report shows that one was lost before it
Data ==
    /\ gap
    /\ pipe = <<>>
    /\ pipe' = <<[kind |-> "data"]>>
    /\ UNCHANGED <<trackers, space, th, rd, fw, asked, gap, bounds, taken>>

\* A report is lost: the next one, or one with nothing but the data of devices
Lose ==
    /\ lost + fails < MaxFaults
    /\ lost' = lost + 1
    /\ gap' = TRUE
    /\ \/ pipe # <<>> /\ pipe' = Tail(pipe)
       \/ UNCHANGED pipe
    /\ UNCHANGED <<trackers, space, th, rd, fw, asked, left, fails, taken>>

Next ==
    \/ \E p \in Port : Request(p) \/ Sender(p) \/ TimesOut(p) \/ SendFails(p) \/ Answer(p)
    \/ Reader \/ AskFails \/ Status \/ Data \/ Lose

Spec == Init /\ [][Next]_vars

\* The threads run and the hub answers; nobody has to time out
FairSpec ==
    /\ Spec
    /\ \A p \in Port : WF_vars(Sender(p)) /\ WF_vars(Answer(p))
    /\ WF_vars(Reader)
    /\ WF_vars(Status)

-----------------------------------------------------------------------------
(* Properties *)

Holding == {"claim", "length", "send", "reap", "wait", "release"}

TypeOK ==
    /\ state \in [Id -> SUBSET Flag]
    /\ code \in [Id -> Code]
    /\ len \in [Id -> Nat]
    /\ counter \in [Port -> Nat]
    /\ space \in [Port -> Nat \cup {Unknown}]
    /\ \A p \in Port :
        /\ th[p].pc \in Holding \cup {"idle", "get"}
        /\ th[p].id \in IF th[p].pc \in Holding THEN IdsOf(p) ELSE {NoId}
        /\ th[p].size \in Sizes \cup {0}
        /\ th[p].list \in Seq(IdsOf(p))
        /\ {th[p].todo, th[p].all} \subseteq Nat
        /\ {th[p].trans, th[p].ending} \subseteq BOOLEAN
        /\ {th[p].res, th[p].error} \subseteq Code
        /\ \A k \in DOMAIN fw[p] : fw[p][k].id \in IdsOf(p)
    /\ rd.pc \in {"idle", "code", "space", "unknown", "ask", "asklost", "kill"}
    /\ rd.id \in Id \cup {NoId}
    /\ \A k \in DOMAIN pipe : pipe[k].kind \in {"return", "status", "data"}
    /\ asked \in Nat
    /\ gap \in BOOLEAN

\* The trackers the sender of port p has claimed
Held(p) == (IF th[p].id = NoId THEN {} ELSE {th[p].id}) \cup ToSet(th[p].list)

\* No tracker is lost and none is given away twice: those in use are the ones
\* of the sender of the port and the abandoned ones, and a free one carries no
\* flag of an earlier packet, so the next packet is not mistaken for it
TrackersAccounted ==
    /\ \A p \in Port : IsInjective(th[p].list)
    /\ \A i \in Id :
        /\ Is(i, "INUSE") <=> (i \in Held(PortOf(i)) \/ Is(i, "ABANDONED"))
        /\ Is(i, "ABANDONED") => i \notin Held(PortOf(i)) /\ ~Is(i, "SIGNALLED")
        /\ ~Is(i, "INUSE") => state[i] = {}

\* The ids of the packets on their way: in the firmware's buffer, in the reports
\* and with the reader
PacketIds(p) == {fw[p][k].id : k \in DOMAIN fw[p]}
Answers == {k \in DOMAIN pipe : pipe[k].kind = "return"}
AnswerIds == {pipe[k].id : k \in Answers}
ReaderIds == IF rd.pc = "code" THEN {rd.id} ELSE {}

OnTheWay(p) == PacketIds(p) \cup (IdsOf(p) \cap (AnswerIds \cup ReaderIds))

\* As long as no report is lost, the id of a packet on its way is not given to
\* another: it is in one place, and its tracker waits for the answer and still
\* has its length, so each answer meets its own packet
IdNotReused ==
    lost = 0 =>
        /\ \A p \in Port : IsInjective([k \in DOMAIN fw[p] |-> fw[p][k].id])
        /\ IsInjective([k \in Answers |-> pipe[k].id])
        /\ AnswerIds \cap ReaderIds = {}
        /\ \A p \in Port :
            /\ PacketIds(p) \cap (AnswerIds \cup ReaderIds) = {}
            /\ \A i \in OnTheWay(p) :
                {"INUSE", "SENT"} \subseteq state[i] /\ ~Is(i, "SIGNALLED")

\* The bytes of port p that were claimed and not yet released
Claimed(p) ==
    MapThenSumSet(LAMBDA i : len[i], OnTheWay(p))
    + (IF rd.pc = "space" /\ PortOf(rd.id) = p THEN rd.len ELSE 0)
    + (IF th[p].pc \in {"length", "send"} THEN th[p].size ELSE 0)

\* As long as no report is lost, the count covers what the port's buffer holds
\* and will be sent, and is exact unless a send has failed: then its bytes are
\* never given back
SpaceCovers ==
    lost = 0 => \A p \in Port : space[p] # Unknown =>
        /\ space[p] >= Claimed(p)
        /\ fails = 0 => space[p] = Claimed(p)

\* A request that ends well had each of its packets taken by the device, also
\* those whose tracker was released before the transaction ended
ResultHonest ==
    lost = 0 => \A p \in Port :
        At(p, "idle") /\ th[p].res = "OK" /\ th[p].all > 0 => taken[p] = th[p].all

\* As long as nothing is lost and nothing fails, a request ends without a
\* timeout having to happen
RequestEnds ==
    [](lost = 0 /\ fails = 0) => \A p \in Port : ~At(p, "idle") ~> At(p, "idle")

\* ... and an abandoned tracker is free again
AbandonedComesBack ==
    [](lost = 0 /\ fails = 0) => \A i \in Id : Is(i, "ABANDONED") ~> ~Is(i, "ABANDONED")

\* phidget.c:1490: the trackers that are done are released during the
\* transaction "so we don't run out".  So the sender never waits for a tracker
\* while it holds one that is done, which only it can release.
DoesNotRunOut ==
    \A p \in Port : At(p, "get") /\ FreeAt(p) = {} =>
        \E i \in IdsOf(p) : Is(i, "INUSE") /\ ~Is(i, "SIGNALLED")

=============================================================================
