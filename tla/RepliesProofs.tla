---------------------------- MODULE RepliesProofs ---------------------------
(* What is proved about the requests of a connection: entries of the list   *)
(* are allocated, only the close of the connection can make a thread use a  *)
(* freed one, and the requests implement ReplyPromise.                      *)
EXTENDS Replies, TLAPS

Walking == {"next", "close", "free"}
Early == {"serve", "leave", "first"}

\* The types, those of Boolean variables apart.
Bits ==
    /\ closed \in BOOLEAN /\ undefined \in BOOLEAN
    /\ live \in [User -> BOOLEAN] /\ late \in [User -> BOOLEAN]
Data ==
    /\ wlock \in User \cup {Nobody}
    /\ \A u \in User : wlock = u => pc[u] \in {"write", "close", "free"}
    /\ reqseq \in 0..MaxSeq
    /\ asked \subseteq 1..MaxSeq
    /\ pc \in [User -> {"idle", "write", "wait", "read", "close", "free"}]
    /\ num \in [User -> 0..MaxSeq]
    /\ got \in [User -> 0..MaxSeq]
    /\ flags \in [User -> SUBSET Flag]
    /\ after \in [User -> Entry \cup {NoEntry}]
    /\ res \in [User -> {"none", "answered", "failed"}]
    /\ rd \in [pc : {"serve", "leave", "first", "next", "close", "free", "closed"},
               cur : Entry \cup {NoEntry}, next : Entry \cup {NoEntry}]

LEMMA Types == TypeOK <=> Bits /\ Data
BY Zenon DEF TypeOK, Bits, Data

\* No entry that anyone points at has a number yet to be given out.
NumbersGiven ==
    /\ \A u \in User : num[u] <= reqseq /\ after[u][2] <= reqseq
    /\ \A k \in asked : k <= reqseq
    /\ rd.cur[2] <= reqseq /\ rd.next[2] <= reqseq

\* A thread waits, for a number, exactly while WAITING is set.
WaitingShown ==
    \A u \in User :
        /\ "WAITING" \in flags[u] <=> pc[u] \in {"write", "wait"}
        /\ "WAITING" \in flags[u] => num[u] # 0

\* Whoever is about to free an entry has taken it from the list.
FreedIsUnlisted ==
    /\ \A u \in User : pc[u] = "free" => "ONLIST" \notin flags[u]
    /\ rd.pc = "free" /\ Valid(rd.cur) =>
         flags[rd.cur[1]] \cap {"ONLIST", "WAITING"} = {}

WalkerHasEntry == rd.pc \in Walking => rd.cur \in Entry

\* Until the close walks the list, a request in progress has its entry.
EarlyIsSafe == rd.pc \in Early => ~undefined /\ \A u \in User : pc[u] # "idle" => live[u]

\* The result of a request is known when its wait is over, and a waiting one has
\* a reply exactly when RECEIVED says so.
ResultKnown ==
    \A u \in User :
        /\ pc[u] = "read" => res[u] = "answered"
        /\ pc[u] \in {"close", "free"} => res[u] \in {"answered", "failed"}
        /\ pc[u] \in {"write", "wait"} => ("RECEIVED" \in flags[u] <=> got[u] # 0)

IInv ==
    /\ TypeOK
    /\ NumbersGiven
    /\ WaitingShown
    /\ FreedIsUnlisted
    /\ WalkerHasEntry
    /\ ListedIsLive
    /\ EarlyIsSafe
    /\ ResultKnown

-----------------------------------------------------------------------------
(* Where a pointer into the list leads.                                     *)

\* The entry behind a number is one of the list, with its number, or none.
LEMMA BehindInEntry ==
    ASSUME TypeOK, NumbersGiven, NEW n
    PROVE  /\ Behind(n) \in Entry \cup {NoEntry}
           /\ Behind(n)[2] <= reqseq
<1>1. CASE \E v \in User : IsBehind(v, n)
    <2>. DEFINE w == CHOOSE v \in User : IsBehind(v, n)
    <2>1. w \in User
        BY <1>1
    <2>2. Behind(n) = <<w, num[w]>>
        BY <1>1 DEF Behind
    <2>3. num[w] \in 0..MaxSeq /\ num[w] <= reqseq
        BY <2>1 DEF TypeOK, NumbersGiven
    <2>. HIDE DEF w
    <2>. QED
        BY <2>1, <2>2, <2>3 DEF Entry
<1>2. CASE ~\E v \in User : IsBehind(v, n)
    <2>1. Behind(n) = <<Nobody, 0>>
        BY <1>2 DEF Behind, NoEntry
    <2>2. reqseq \in Nat
        BY SeqAssumption DEF TypeOK
    <2>. QED
        BY <2>1, <2>2 DEF NoEntry
<1>. QED
    BY <1>1, <1>2

\* A real entry is not the null pointer.
LEMMA EntryIsReal ==
    ASSUME NEW e \in Entry \cup {NoEntry}, e # NoEntry
    PROVE  e \in Entry /\ e[1] \in User /\ e[2] \in 0..MaxSeq
BY DEF Entry

\* A walker that goes to e has an entry or is done.
LEMMA AtIsWalker ==
    ASSUME TypeOK, NEW e \in Entry \cup {NoEntry}, e[2] <= reqseq
    PROVE  /\ At(e) \in [pc : {"serve", "leave", "first", "next", "close", "free", "closed"},
                         cur : Entry \cup {NoEntry}, next : Entry \cup {NoEntry}]
           /\ At(e).pc \in {"next", "closed"}
           /\ At(e).pc = "next" => At(e).cur \in Entry
           /\ At(e).cur[2] <= reqseq /\ At(e).next[2] <= reqseq
<1>1. reqseq \in Nat
    BY SeqAssumption DEF TypeOK
<1>2. NoEntry[2] = 0
    BY DEF NoEntry
<1>. QED
    BY <1>1, <1>2 DEF At

-----------------------------------------------------------------------------
(* The invariant holds at the start and is preserved.                       *)

LEMMA InitSafe == Init => IInv
<1>. SUFFICES ASSUME Init PROVE IInv
    OBVIOUS
<1>1. TypeOK
    <2>1. Bits
        BY DEF Init, Bits
    <2>2. Data
        BY SeqAssumption, NobodyAssumption DEF Init, Data, NoEntry, Flag
    <2>. QED
        BY <2>1, <2>2, Types
<1>2. NumbersGiven
    BY SeqAssumption DEF Init, NumbersGiven, NoEntry
<1>. QED
    BY <1>1, <1>2 DEF Init, IInv, WaitingShown, FreedIsUnlisted, WalkerHasEntry, Walking,
        ListedIsLive, Listed, EarlyIsSafe, Early, ResultKnown

LEMMA OpenSafe == IInv /\ ~undefined /\ (\E u \in User : Open(u)) => IInv'
<1>. SUFFICES ASSUME IInv, ~undefined, NEW u \in User, Open(u) PROVE IInv'
    OBVIOUS
<1>. USE DEF IInv
<1>1. reqseq \in Nat /\ reqseq + 1 \in 1..MaxSeq
    BY SeqAssumption DEF TypeOK, Open
<1>2. TypeOK'
    <2>1. Bits /\ Data
        BY Types
    <2>2. Bits'
        BY <2>1 DEF Bits, Open
    <2>3. Data'
        BY <2>1, <1>1, SeqAssumption DEF Data, Open, NoEntry, Flag
    <2>. QED
        BY <2>2, <2>3, Types DEF TypeOK, Bits, Data
<1>3. NumbersGiven'
    <2>1. \A v \in User : num'[v] \in Nat /\ num'[v] <= reqseq'
        BY <1>1, SeqAssumption DEF TypeOK, NumbersGiven, Open
    <2>2. \A v \in User : after'[v][2] <= reqseq'
        <3>. SUFFICES ASSUME NEW v \in User PROVE after'[v][2] <= reqseq'
            OBVIOUS
        <3>1. after[v][2] \in Nat
            BY SeqAssumption DEF TypeOK, Entry, NoEntry
        <3>. QED
            BY <3>1, <1>1 DEF TypeOK, NumbersGiven, Open, NoEntry
    <2>3. rd.cur[2] \in Nat /\ rd.next[2] \in Nat
        BY SeqAssumption DEF TypeOK, Entry, NoEntry
    <2>. QED
        BY <2>1, <2>2, <2>3, <1>1 DEF NumbersGiven, Open, TypeOK
<1>4. WaitingShown'
    BY <1>1 DEF TypeOK, WaitingShown, Open
<1>5. FreedIsUnlisted'
    <2>1. num'[u] # rd.cur[2]
        BY <1>1 DEF NumbersGiven, TypeOK, Open
    <2>2. Valid(rd.cur)' => rd.cur[1] # u \/ rd.pc # "free"
        BY <2>1 DEF Valid, Open
    <2>3. rd.pc = "free" /\ Valid(rd.cur)' => rd.cur[1] \in User /\ rd.cur[1] # u
        BY <2>2 DEF WalkerHasEntry, Walking, Entry
    <2>4. rd.pc = "free" /\ Valid(rd.cur)' => Valid(rd.cur) /\ flags'[rd.cur[1]] = flags[rd.cur[1]]
        BY <2>3 DEF Valid, Open, TypeOK
    <2>. QED
        BY <2>4 DEF FreedIsUnlisted, Open, TypeOK
<1>6. WalkerHasEntry'
    BY DEF WalkerHasEntry, Open
<1>7. ListedIsLive'
    BY DEF ListedIsLive, Listed, Open, TypeOK
<1>8. EarlyIsSafe'
    BY DEF EarlyIsSafe, Open, TypeOK
<1>9. ResultKnown'
    BY DEF ResultKnown, Open, TypeOK
<1>. QED
    BY <1>2, <1>3, <1>4, <1>5, <1>6, <1>7, <1>8, <1>9

LEMMA WriteSafe == IInv /\ ~undefined /\ (\E u \in User : Write(u)) => IInv'
<1>. SUFFICES ASSUME IInv, ~undefined, NEW u \in User, Write(u) PROVE IInv'
    OBVIOUS
<1>. USE DEF IInv
<1>1. TypeOK'
    <2>1. Bits /\ Data
        BY Types
    <2>2. Bits'
        BY <2>1 DEF Bits, Write, Sent, Unlocks, wfr
    <2>3. num[u] \in 1..MaxSeq
        BY SeqAssumption DEF TypeOK, WaitingShown, Write
    <2>4. Data'
        BY <2>1, <2>3, NobodyAssumption DEF Data, Write, Sent, Unlocks, wfr
    <2>. QED
        BY <2>2, <2>4, Types DEF TypeOK, Bits, Data
<1>2. NumbersGiven'
    BY SeqAssumption DEF TypeOK, NumbersGiven, Write, Sent, Unlocks, wfr
<1>3. WaitingShown'
    BY DEF TypeOK, WaitingShown, Write, Sent, Unlocks, wfr
<1>4. FreedIsUnlisted'
    BY DEF TypeOK, FreedIsUnlisted, Valid, WalkerHasEntry, Walking, Entry, Write, Sent, Unlocks, wfr
<1>5. WalkerHasEntry'
    BY DEF WalkerHasEntry, Walking, Write, Sent, Unlocks, wfr
<1>6. ListedIsLive'
    BY DEF TypeOK, ListedIsLive, Listed, Write, Sent, Unlocks, wfr
<1>7. EarlyIsSafe'
    BY DEF TypeOK, EarlyIsSafe, Early, Write, Sent, Unlocks, wfr
<1>8. ResultKnown'
    BY DEF TypeOK, ResultKnown, WaitingShown, Write, Sent, Unlocks, wfr
<1>. QED
    BY <1>1, <1>2, <1>3, <1>4, <1>5, <1>6, <1>7, <1>8

LEMMA CancelSafe == IInv /\ ~undefined /\ (\E u \in User : Cancel(u)) => IInv'
<1>. SUFFICES ASSUME IInv, ~undefined, NEW u \in User, Cancel(u) PROVE IInv'
    OBVIOUS
<1>. USE DEF IInv
<1>1. TypeOK'
    <2>1. Bits /\ Data
        BY Types
    <2>2. Bits'
        BY <2>1 DEF Bits, Cancel, Cancelled
    <2>3. Data'
        BY <2>1, SeqAssumption DEF Data, Cancel, Cancelled, NoEntry, Flag
    <2>. QED
        BY <2>2, <2>3, Types DEF TypeOK, Bits, Data
<1>2. NumbersGiven'
    BY DEF NumbersGiven, Cancel, Cancelled
<1>3. WaitingShown'
    BY DEF TypeOK, WaitingShown, Cancel, Cancelled
<1>4. FreedIsUnlisted'
    BY DEF TypeOK, FreedIsUnlisted, Valid, WalkerHasEntry, Walking, Entry, Cancel, Cancelled
<1>5. WalkerHasEntry'
    BY DEF WalkerHasEntry, Walking, Cancel, Cancelled
<1>6. ListedIsLive'
    BY DEF TypeOK, ListedIsLive, Listed, Cancel, Cancelled
<1>7. EarlyIsSafe'
    BY DEF TypeOK, EarlyIsSafe, Early, Cancel, Cancelled
<1>8. ResultKnown'
    BY DEF TypeOK, ResultKnown, WaitingShown, Cancel, Cancelled
<1>. QED
    BY <1>1, <1>2, <1>3, <1>4, <1>5, <1>6, <1>7, <1>8

LEMMA WriteOtherSafe == IInv /\ ~undefined /\ WriteOther => IInv'
<1>. SUFFICES ASSUME IInv, ~undefined, WriteOther PROVE IInv'
    OBVIOUS
<1>. USE DEF IInv
<1>1. TypeOK'
    <2>1. Bits /\ Data
        BY Types
    <2>2. Bits'
        BY <2>1 DEF Bits, WriteOther, wfr
    <2>3. Data'
        BY <2>1, SeqAssumption DEF Data, WriteOther, wfr, NoEntry, Flag
    <2>. QED
        BY <2>2, <2>3, Types DEF TypeOK, Bits, Data
<1>2. NumbersGiven'
    <2>1. rd.cur[2] \in Nat /\ rd.next[2] \in Nat /\ \A u \in User : after[u][2] \in Nat
        BY SeqAssumption DEF TypeOK, Entry, NoEntry
    <2>. QED
        BY <2>1, SeqAssumption DEF TypeOK, NumbersGiven, WriteOther, wfr
<1>3. WaitingShown'
    BY DEF TypeOK, WaitingShown, WriteOther, wfr
<1>4. FreedIsUnlisted'
    BY DEF TypeOK, FreedIsUnlisted, Valid, WalkerHasEntry, Walking, Entry, WriteOther, wfr
<1>5. WalkerHasEntry'
    BY DEF WalkerHasEntry, Walking, WriteOther, wfr
<1>6. ListedIsLive'
    BY DEF TypeOK, ListedIsLive, Listed, WriteOther, wfr
<1>7. EarlyIsSafe'
    BY DEF TypeOK, EarlyIsSafe, Early, WriteOther, wfr
<1>8. ResultKnown'
    BY DEF TypeOK, ResultKnown, WaitingShown, WriteOther, wfr
<1>. QED
    BY <1>1, <1>2, <1>3, <1>4, <1>5, <1>6, <1>7, <1>8

LEMMA WaitSafe == IInv /\ ~undefined /\ (\E u \in User : Wait(u)) => IInv'
<1>. SUFFICES ASSUME IInv, ~undefined, NEW u \in User, Wait(u) PROVE IInv'
    OBVIOUS
<1>. USE DEF IInv
<1>1. TypeOK'
    <2>1. Bits /\ Data
        BY Types
    <2>2. Bits'
        BY <2>1 DEF Bits, Wait, Touch
    <2>3. Data'
        BY <2>1, SeqAssumption DEF Data, Wait, Touch, NoEntry, Flag
    <2>. QED
        BY <2>2, <2>3, Types DEF TypeOK, Bits, Data
<1>2. NumbersGiven'
    BY DEF NumbersGiven, Wait, Touch
<1>3. WaitingShown'
    BY DEF TypeOK, WaitingShown, Wait, Touch
<1>4. FreedIsUnlisted'
    BY DEF TypeOK, FreedIsUnlisted, Valid, WalkerHasEntry, Walking, Entry, Wait, Touch
<1>5. WalkerHasEntry'
    BY DEF WalkerHasEntry, Walking, Wait, Touch
<1>6. ListedIsLive'
    BY DEF TypeOK, ListedIsLive, Listed, Wait, Touch
<1>7. EarlyIsSafe'
    BY DEF TypeOK, EarlyIsSafe, Early, Wait, Touch
<1>8. ResultKnown'
    BY DEF TypeOK, ResultKnown, WaitingShown, Wait, Touch
<1>. QED
    BY <1>1, <1>2, <1>3, <1>4, <1>5, <1>6, <1>7, <1>8

LEMMA ReadSafe == IInv /\ ~undefined /\ (\E u \in User : Read(u)) => IInv'
<1>. SUFFICES ASSUME IInv, ~undefined, NEW u \in User, Read(u) PROVE IInv'
    OBVIOUS
<1>. USE DEF IInv
<1>1. TypeOK'
    <2>1. Bits /\ Data
        BY Types
    <2>2. Bits'
        BY <2>1 DEF Bits, Read, Touch, wfr
    <2>3. Data'
        BY <2>1, SeqAssumption DEF Data, Read, Touch, wfr, NoEntry, Flag
    <2>. QED
        BY <2>2, <2>3, Types DEF TypeOK, Bits, Data
<1>2. NumbersGiven'
    BY DEF NumbersGiven, Read, Touch, wfr
<1>3. WaitingShown'
    BY DEF TypeOK, WaitingShown, Read, Touch, wfr
<1>4. FreedIsUnlisted'
    BY DEF TypeOK, FreedIsUnlisted, Valid, WalkerHasEntry, Walking, Entry, Read, Touch, wfr
<1>5. WalkerHasEntry'
    BY DEF WalkerHasEntry, Walking, Read, Touch, wfr
<1>6. ListedIsLive'
    BY DEF TypeOK, ListedIsLive, Listed, Read, Touch, wfr
<1>7. EarlyIsSafe'
    BY DEF TypeOK, EarlyIsSafe, Early, Read, Touch, wfr
<1>8. ResultKnown'
    BY DEF TypeOK, ResultKnown, WaitingShown, Read, Touch, wfr
<1>. QED
    BY <1>1, <1>2, <1>3, <1>4, <1>5, <1>6, <1>7, <1>8

LEMMA CloseSafe == IInv /\ ~undefined /\ (\E u \in User : Close(u)) => IInv'
<1>. SUFFICES ASSUME IInv, ~undefined, NEW u \in User, Close(u) PROVE IInv'
    OBVIOUS
<1>. USE DEF IInv
<1>1. TypeOK'
    <2>1. Bits /\ Data
        BY Types
    <2>2. Bits'
        BY <2>1 DEF Bits, Close, Touch, Unlinked
    <2>3. Behind(num[u]) \in Entry \cup {NoEntry}
        BY BehindInEntry
    <2>4. Data'
        BY <2>1, <2>3, SeqAssumption DEF Data, Close, Unlinked, Flag
    <2>. QED
        BY <2>2, <2>4, Types DEF TypeOK, Bits, Data
<1>2. NumbersGiven'
    <2>1. \A v \in User : after'[v] = after[v] \/ after'[v] = Behind(num[u])
        BY DEF TypeOK, Close, Unlinked
    <2>2. \A v \in User : after'[v][2] <= reqseq
        BY <2>1, BehindInEntry DEF NumbersGiven
    <2>. QED
        BY <2>2 DEF NumbersGiven, Close, Unlinked
<1>3. WaitingShown'
    BY DEF TypeOK, WaitingShown, Close, Touch, Unlinked
<1>4. FreedIsUnlisted'
    BY DEF TypeOK, FreedIsUnlisted, Valid, WalkerHasEntry, Walking, Entry, Close, Touch, Unlinked
<1>5. WalkerHasEntry'
    BY DEF WalkerHasEntry, Walking, Close, Touch, Unlinked
<1>6. ListedIsLive'
    BY DEF TypeOK, ListedIsLive, Listed, Close, Touch, Unlinked
<1>7. EarlyIsSafe'
    BY DEF TypeOK, EarlyIsSafe, Early, Close, Touch, Unlinked
<1>8. ResultKnown'
    BY DEF TypeOK, ResultKnown, WaitingShown, Close, Touch, Unlinked
<1>. QED
    BY <1>1, <1>2, <1>3, <1>4, <1>5, <1>6, <1>7, <1>8

LEMMA FreeSafe == IInv /\ ~undefined /\ (\E u \in User : Free(u)) => IInv'
<1>. SUFFICES ASSUME IInv, ~undefined, NEW u \in User, Free(u) PROVE IInv'
    OBVIOUS
<1>. USE DEF IInv
<1>1. TypeOK'
    <2>1. Bits /\ Data
        BY Types
    <2>2. Bits'
        BY <2>1 DEF Bits, Free, Touch, Freed
    <2>3. Data'
        BY <2>1, SeqAssumption, NobodyAssumption DEF Data, Free, Touch, Freed, Unlocks, NoEntry, Flag
    <2>. QED
        BY <2>2, <2>3, Types DEF TypeOK, Bits, Data
<1>2. NumbersGiven'
    <2>1. \A v \in User : after'[v] = after[v] \/ after'[v] = NoEntry
        BY DEF TypeOK, Free, Freed
    <2>2. \A v \in User : after'[v][2] <= reqseq
        BY <2>1, SeqAssumption DEF NumbersGiven, NoEntry, TypeOK
    <2>. QED
        BY <2>2 DEF NumbersGiven, Free, Freed
<1>3. WaitingShown'
    BY DEF TypeOK, WaitingShown, Free, Touch, Freed
<1>4. FreedIsUnlisted'
    BY DEF TypeOK, FreedIsUnlisted, Valid, WalkerHasEntry, Walking, Entry, Free, Touch, Freed
<1>5. WalkerHasEntry'
    BY DEF WalkerHasEntry, Walking, Free, Touch, Freed
<1>6. ListedIsLive'
    BY DEF TypeOK, ListedIsLive, Listed, FreedIsUnlisted, Free, Touch, Freed
<1>7. EarlyIsSafe'
    BY DEF TypeOK, EarlyIsSafe, Early, Free, Touch, Freed
<1>8. ResultKnown'
    BY DEF TypeOK, ResultKnown, WaitingShown, Free, Touch, Freed
<1>. QED
    BY <1>1, <1>2, <1>3, <1>4, <1>5, <1>6, <1>7, <1>8

LEMMA HandleReplySafe == IInv /\ ~undefined /\ (\E k \in asked : HandleReply(k)) => IInv'
<1>. SUFFICES ASSUME IInv, ~undefined, NEW k \in asked, HandleReply(k) PROVE IInv'
    OBVIOUS
<1>. USE DEF IInv
<1>1. TypeOK'
    <2>1. Bits /\ Data
        BY Types
    <2>2. Bits'
        BY <2>1 DEF Bits, HandleReply, Matches, Accepts
    <2>3. Data'
        BY <2>1, SeqAssumption DEF Data, HandleReply, Matches, Accepts, NoEntry, Flag
    <2>. QED
        BY <2>2, <2>3, Types DEF TypeOK, Bits, Data
<1>2. NumbersGiven'
    BY DEF TypeOK, NumbersGiven, HandleReply
<1>3. WaitingShown'
    BY DEF TypeOK, WaitingShown, HandleReply
<1>4. FreedIsUnlisted'
    <2>1. \A v \in User : "ONLIST" \in flags'[v] => "ONLIST" \in flags[v]
        BY DEF TypeOK, HandleReply
    <2>2. rd'.pc # "free"
        BY DEF HandleReply, TypeOK
    <2>3. pc' = pc
        BY DEF HandleReply
    <2>. QED
        BY <2>1, <2>2, <2>3 DEF FreedIsUnlisted
<1>5. WalkerHasEntry'
    BY DEF TypeOK, WalkerHasEntry, Walking, HandleReply
<1>6. ListedIsLive'
    BY DEF TypeOK, ListedIsLive, Listed, HandleReply, Matches, Accepts
<1>7. EarlyIsSafe'
    BY DEF TypeOK, EarlyIsSafe, Early, HandleReply, Matches, Accepts
<1>8. ResultKnown'
    <2>1. k # 0
        BY SeqAssumption DEF TypeOK
    <2>. QED
        BY <2>1 DEF TypeOK, ResultKnown, HandleReply
<1>. QED
    BY <1>1, <1>2, <1>3, <1>4, <1>5, <1>6, <1>7, <1>8

LEMMA LeaveSafe == IInv /\ ~undefined /\ Leave => IInv'
<1>. SUFFICES ASSUME IInv, ~undefined, Leave PROVE IInv'
    OBVIOUS
<1>. USE DEF IInv
<1>1. TypeOK'
    <2>1. Bits /\ Data
        BY Types
    <2>2. Bits'
        BY <2>1 DEF Bits, Leave, wfr
    <2>3. Data'
        BY <2>1, SeqAssumption DEF Data, Leave, wfr, NoEntry, Flag
    <2>. QED
        BY <2>2, <2>3, Types DEF TypeOK, Bits, Data
<1>2. NumbersGiven'
    BY DEF TypeOK, NumbersGiven, Leave, wfr
<1>3. WaitingShown'
    BY DEF TypeOK, WaitingShown, Leave, wfr
<1>4. FreedIsUnlisted'
    BY DEF TypeOK, FreedIsUnlisted, Valid, WalkerHasEntry, Walking, Entry, Leave, wfr
<1>5. WalkerHasEntry'
    BY DEF WalkerHasEntry, Walking, Leave, wfr
<1>6. ListedIsLive'
    BY DEF TypeOK, ListedIsLive, Listed, Leave, wfr
<1>7. EarlyIsSafe'
    BY DEF TypeOK, EarlyIsSafe, Early, Leave, wfr
<1>8. ResultKnown'
    BY DEF TypeOK, ResultKnown, WaitingShown, Leave, wfr
<1>. QED
    BY <1>1, <1>2, <1>3, <1>4, <1>5, <1>6, <1>7, <1>8

LEMMA SetClosedSafe == IInv /\ ~undefined /\ SetClosed => IInv'
<1>. SUFFICES ASSUME IInv, ~undefined, SetClosed PROVE IInv'
    OBVIOUS
<1>. USE DEF IInv
<1>1. TypeOK'
    <2>1. Bits /\ Data
        BY Types
    <2>2. Bits'
        BY <2>1 DEF Bits, SetClosed, wfr
    <2>3. Data'
        BY <2>1, SeqAssumption DEF Data, SetClosed, wfr, NoEntry, Flag
    <2>. QED
        BY <2>2, <2>3, Types DEF TypeOK, Bits, Data
<1>2. NumbersGiven'
    BY DEF TypeOK, NumbersGiven, SetClosed, wfr
<1>3. WaitingShown'
    BY DEF TypeOK, WaitingShown, SetClosed, wfr
<1>4. FreedIsUnlisted'
    BY DEF TypeOK, FreedIsUnlisted, Valid, WalkerHasEntry, Walking, Entry, SetClosed, wfr
<1>5. WalkerHasEntry'
    BY DEF WalkerHasEntry, Walking, SetClosed, wfr
<1>6. ListedIsLive'
    BY DEF TypeOK, ListedIsLive, Listed, SetClosed, wfr
<1>7. EarlyIsSafe'
    BY DEF TypeOK, EarlyIsSafe, Early, SetClosed, wfr
<1>8. ResultKnown'
    BY DEF TypeOK, ResultKnown, WaitingShown, SetClosed, wfr
<1>. QED
    BY <1>1, <1>2, <1>3, <1>4, <1>5, <1>6, <1>7, <1>8

LEMMA FirstSafe == IInv /\ ~undefined /\ First => IInv'
<1>. SUFFICES ASSUME IInv, ~undefined, First PROVE IInv'
    OBVIOUS
<1>. USE DEF IInv
<1>a. /\ Behind(reqseq + 1) \in Entry \cup {NoEntry}
      /\ Behind(reqseq + 1)[2] <= reqseq
    BY BehindInEntry
<1>b. /\ rd' \in [pc : {"serve", "leave", "first", "next", "close", "free", "closed"},
                  cur : Entry \cup {NoEntry}, next : Entry \cup {NoEntry}]
      /\ rd'.pc \in {"next", "closed"} /\ (rd'.pc = "next" => rd'.cur \in Entry)
      /\ rd'.cur[2] <= reqseq /\ rd'.next[2] <= reqseq
    BY <1>a, AtIsWalker DEF First
<1>1. TypeOK'
    <2>1. Bits /\ Data
        BY Types
    <2>2. Bits'
        BY <2>1 DEF Bits, First, wfr
    <2>3. Data'
        BY <2>1, <1>b DEF Data, First, wfr
    <2>. QED
        BY <2>2, <2>3, Types DEF TypeOK, Bits, Data
<1>2. NumbersGiven'
    BY <1>b DEF NumbersGiven, First, wfr
<1>3. WaitingShown'
    BY DEF TypeOK, WaitingShown, First, wfr
<1>4. FreedIsUnlisted'
    BY <1>b DEF FreedIsUnlisted, First, wfr
<1>5. WalkerHasEntry'
    BY <1>b DEF WalkerHasEntry, Walking
<1>6. ListedIsLive'
    BY DEF TypeOK, ListedIsLive, Listed, First, wfr
<1>7. EarlyIsSafe'
    BY <1>b DEF EarlyIsSafe, Early
<1>8. ResultKnown'
    BY DEF TypeOK, ResultKnown, WaitingShown, First, wfr
<1>. QED
    BY <1>1, <1>2, <1>3, <1>4, <1>5, <1>6, <1>7, <1>8

LEMMA WalkNextSafe == IInv /\ ~undefined /\ WalkNext => IInv'
<1>. SUFFICES ASSUME IInv, ~undefined, WalkNext PROVE IInv'
    OBVIOUS
<1>. USE DEF IInv
<1>. DEFINE u == rd.cur[1]
            e == IF u \in Listed THEN Behind(num[u]) ELSE after[u]
<1>a. rd.cur \in Entry /\ u \in User
    BY DEF WalkerHasEntry, Walking, WalkNext, Entry
<1>b. e \in Entry \cup {NoEntry} /\ e[2] <= reqseq
    BY <1>a, BehindInEntry DEF TypeOK, NumbersGiven
<1>c. rd' = [rd EXCEPT !.pc = "close", !.next = e]
    BY DEF WalkNext
<1>. HIDE DEF e
<1>1. TypeOK'
    <2>1. Bits /\ Data
        BY Types
    <2>2. Bits'
        BY <2>1 DEF Bits, WalkNext, wfr
    <2>3. Data'
        BY <2>1, <1>b, <1>c DEF Data, WalkNext, wfr
    <2>. QED
        BY <2>2, <2>3, Types DEF TypeOK, Bits, Data
<1>2. NumbersGiven'
    BY <1>b, <1>c DEF TypeOK, NumbersGiven, WalkNext, wfr
<1>3. WaitingShown'
    BY DEF TypeOK, WaitingShown, WalkNext, wfr
<1>4. FreedIsUnlisted'
    BY <1>c DEF TypeOK, FreedIsUnlisted, WalkNext, wfr
<1>5. WalkerHasEntry'
    BY <1>a, <1>c DEF TypeOK, WalkerHasEntry
<1>6. ListedIsLive'
    BY DEF TypeOK, ListedIsLive, Listed, WalkNext, wfr
<1>7. EarlyIsSafe'
    BY <1>c DEF TypeOK, EarlyIsSafe, Early
<1>8. ResultKnown'
    BY DEF TypeOK, ResultKnown, WaitingShown, WalkNext, wfr
<1>. QED
    BY <1>1, <1>2, <1>3, <1>4, <1>5, <1>6, <1>7, <1>8

LEMMA WalkCloseSafe == IInv /\ ~undefined /\ WalkClose => IInv'
<1>. SUFFICES ASSUME IInv, ~undefined, WalkClose PROVE IInv'
    OBVIOUS
<1>. USE DEF IInv
<1>. DEFINE u == rd.cur[1]
<1>a. rd.cur \in Entry /\ u \in User
    BY DEF WalkerHasEntry, Walking, WalkClose, Entry
<1>c. "WAITING" \in flags[u] => rd'.pc \in {"next", "closed"}
    BY AtIsWalker DEF WalkClose, TypeOK, NumbersGiven
<1>b. /\ rd' \in [pc : {"serve", "leave", "first", "next", "close", "free", "closed"},
                  cur : Entry \cup {NoEntry}, next : Entry \cup {NoEntry}]
      /\ rd'.pc \in {"next", "closed", "free"} /\ (rd'.pc # "closed" => rd'.cur \in Entry)
      /\ rd'.cur[2] <= reqseq /\ rd'.next[2] <= reqseq
    <2>1. CASE "WAITING" \in flags[u]
        BY <2>1, AtIsWalker DEF WalkClose, TypeOK, NumbersGiven
    <2>2. CASE "WAITING" \notin flags[u]
        BY <2>2, <1>a DEF WalkClose, TypeOK, NumbersGiven
    <2>. QED
        BY <2>1, <2>2
<1>1. TypeOK'
    <2>1. Bits /\ Data
        BY Types
    <2>2. Bits'
        BY <2>1 DEF Bits, WalkClose, Unlinked
    <2>3. Behind(num[u]) \in Entry \cup {NoEntry}
        BY BehindInEntry
    <2>4. Data'
        BY <2>1, <2>3, <1>a, <1>b, SeqAssumption DEF Data, WalkClose, Unlinked, Flag
    <2>. QED
        BY <2>2, <2>4, Types DEF TypeOK, Bits, Data
<1>2. NumbersGiven'
    <2>1. \A v \in User : after'[v] = after[v] \/ after'[v] = Behind(num[u])
        BY <1>a DEF TypeOK, WalkClose, Unlinked
    <2>2. \A v \in User : after'[v][2] <= reqseq
        BY <2>1, BehindInEntry DEF NumbersGiven
    <2>. QED
        BY <2>2, <1>b DEF NumbersGiven, WalkClose, Unlinked
<1>3. WaitingShown'
    BY <1>a DEF TypeOK, WaitingShown, WalkClose, Unlinked
<1>4. FreedIsUnlisted'
    <2>1. CASE "WAITING" \in flags[u]
        <3>1. rd'.pc # "free"
            BY <2>1, <1>c
        <3>. QED
            BY <3>1, <1>a DEF TypeOK, FreedIsUnlisted, WalkClose, Unlinked
    <2>2. CASE "WAITING" \notin flags[u]
        <3>1. rd'.cur = rd.cur
            BY <2>2 DEF WalkClose, TypeOK
        <3>2. flags'[u] \cap {"ONLIST", "WAITING"} = {}
            BY <2>2, <1>a DEF WalkClose, Unlinked, TypeOK
        <3>. QED
            BY <3>1, <3>2, <1>a DEF TypeOK, FreedIsUnlisted, WalkClose, Unlinked
    <2>. QED
        BY <2>1, <2>2
<1>5. WalkerHasEntry'
    BY <1>a, <1>b DEF WalkerHasEntry, Walking
<1>6. ListedIsLive'
    BY <1>a DEF TypeOK, ListedIsLive, Listed, WalkClose, Unlinked
<1>7. EarlyIsSafe'
    BY <1>b DEF EarlyIsSafe, Early
<1>8. ResultKnown'
    BY <1>a DEF TypeOK, ResultKnown, WalkClose, Unlinked
<1>. QED
    BY <1>1, <1>2, <1>3, <1>4, <1>5, <1>6, <1>7, <1>8

LEMMA WalkFreeSafe == IInv /\ ~undefined /\ WalkFree => IInv'
<1>. SUFFICES ASSUME IInv, ~undefined, WalkFree PROVE IInv'
    OBVIOUS
<1>. USE DEF IInv
<1>. DEFINE u == rd.cur[1]
<1>a. rd.cur \in Entry /\ u \in User
    BY DEF WalkerHasEntry, Walking, WalkFree, Entry
<1>b. /\ rd' \in [pc : {"serve", "leave", "first", "next", "close", "free", "closed"},
                  cur : Entry \cup {NoEntry}, next : Entry \cup {NoEntry}]
      /\ rd'.pc \in {"next", "closed"} /\ (rd'.pc = "next" => rd'.cur \in Entry)
      /\ rd'.cur[2] <= reqseq /\ rd'.next[2] <= reqseq
    BY AtIsWalker DEF WalkFree, TypeOK, NumbersGiven
<1>1. TypeOK'
    <2>1. Bits /\ Data
        BY Types
    <2>2. Bits'
        BY <2>1 DEF Bits, WalkFree, Freed
    <2>3. Data'
        BY <2>1, <1>b DEF Data, WalkFree, Freed, Flag
    <2>. QED
        BY <2>2, <2>3, Types DEF TypeOK, Bits, Data
<1>2. NumbersGiven'
    <2>1. \A v \in User : after'[v] = after[v] \/ after'[v] = NoEntry
        BY <1>a DEF TypeOK, WalkFree, Freed
    <2>2. \A v \in User : after'[v][2] <= reqseq
        BY <2>1, SeqAssumption DEF NumbersGiven, NoEntry, TypeOK
    <2>. QED
        BY <2>2, <1>b DEF NumbersGiven, WalkFree, Freed
<1>3. WaitingShown'
    <2>1. "WAITING" \notin flags[u]
        BY DEF FreedIsUnlisted, WalkFree
    <2>. QED
        BY <2>1, <1>a DEF TypeOK, WaitingShown, WalkFree, Freed
<1>4. FreedIsUnlisted'
    BY <1>a, <1>b DEF TypeOK, FreedIsUnlisted, WalkFree, Freed
<1>5. WalkerHasEntry'
    BY <1>b DEF WalkerHasEntry, Walking
<1>6. ListedIsLive'
    BY <1>a DEF TypeOK, ListedIsLive, Listed, FreedIsUnlisted, WalkFree, Freed
<1>7. EarlyIsSafe'
    BY <1>b DEF EarlyIsSafe, Early
<1>8. ResultKnown'
    <2>1. pc[u] \notin {"write", "wait"}
        BY <1>a DEF FreedIsUnlisted, WalkFree, WaitingShown
    <2>. QED
        BY <2>1, <1>a DEF TypeOK, ResultKnown, WalkFree, Freed
<1>. QED
    BY <1>1, <1>2, <1>3, <1>4, <1>5, <1>6, <1>7, <1>8

LEMMA StraySafe == IInv /\ ~undefined /\ Stray => IInv'
<1>. SUFFICES ASSUME IInv, ~undefined, Stray PROVE IInv'
    OBVIOUS
<1>. USE DEF IInv
<1>1. TypeOK'
    <2>1. Bits /\ Data
        BY Types
    <2>2. Bits'
        BY <2>1 DEF Bits, Stray, wfr
    <2>3. Data'
        BY <2>1, SeqAssumption DEF Data, Stray, wfr, NoEntry, Flag
    <2>. QED
        BY <2>2, <2>3, Types DEF TypeOK, Bits, Data
<1>2. NumbersGiven'
    BY DEF NumbersGiven, Stray, wfr
<1>3. WaitingShown'
    BY DEF TypeOK, WaitingShown, Stray, wfr
<1>4. FreedIsUnlisted'
    BY DEF TypeOK, FreedIsUnlisted, Valid, WalkerHasEntry, Walking, Entry, Stray, wfr
<1>5. WalkerHasEntry'
    BY DEF WalkerHasEntry, Walking, Stray, wfr
<1>6. ListedIsLive'
    BY DEF TypeOK, ListedIsLive, Listed, Stray, wfr
<1>7. EarlyIsSafe'
    BY DEF TypeOK, EarlyIsSafe, Early, Stray, wfr
<1>8. ResultKnown'
    BY DEF TypeOK, ResultKnown, WaitingShown, Stray, wfr
<1>. QED
    BY <1>1, <1>2, <1>3, <1>4, <1>5, <1>6, <1>7, <1>8

-----------------------------------------------------------------------------
(* The theorems.                                                            *)

LEMMA StepSafe == IInv /\ [Next]_vars => IInv'
<1>. SUFFICES ASSUME IInv, [Next]_vars PROVE IInv'
    OBVIOUS
<1>1. CASE Next
    BY <1>1, OpenSafe, WriteSafe, CancelSafe, WriteOtherSafe, WaitSafe, ReadSafe, CloseSafe, FreeSafe,
       HandleReplySafe, LeaveSafe, SetClosedSafe, FirstSafe, WalkNextSafe, WalkCloseSafe, WalkFreeSafe,
       StraySafe DEF Next, Step, Walk
<1>2. CASE UNCHANGED vars
    BY <1>2 DEF vars, wfr, IInv, TypeOK, NumbersGiven, WaitingShown, FreedIsUnlisted, Valid,
        WalkerHasEntry, ListedIsLive, Listed, EarlyIsSafe, ResultKnown
<1>. QED
    BY <1>1, <1>2

\* The strengthened invariant.
LEMMA InductiveInvariant == Spec => []IInv
BY InitSafe, StepSafe, PTL DEF Spec

\* Every variable keeps its type.
THEOREM RepliesTyped == Spec => []TypeOK
<1>1. IInv => TypeOK
    BY DEF IInv
<1>. QED
    BY <1>1, InductiveInvariant, PTL

\* Whatever handleReply finds on the list nc->waitforreply is allocated.
THEOREM ListSound == Spec => []ListedIsLive
<1>1. IInv => ListedIsLive
    BY DEF IInv
<1>. QED
    BY <1>1, InductiveInvariant, PTL

\* Until PhidgetNetConnClose walks the list, no WaitForReply is used after it was
\* freed, whatever times out, fails or is answered late.
THEOREM StrayFromCloseOnly == Spec => []StrayOnlyInClose
<1>1. IInv => StrayOnlyInClose
    BY DEF IInv, EarlyIsSafe, Early, StrayOnlyInClose
<1>. QED
    BY <1>1, InductiveInvariant, PTL

-----------------------------------------------------------------------------
(* The requests of a connection implement ReplyPromise.                     *)

StageOf == [u \in User |-> Stage(u)]

\* Two stages differ only where the step or the result does.
LEMMA StageMoves ==
    ASSUME NEW u \in User,
           \A v \in User \ {u} : pc'[v] = pc[v] /\ res'[v] = res[v]
    PROVE  StageOf' = [StageOf EXCEPT ![u] = Stage(u)']
BY DEF StageOf, Stage

LEMMA StageStays ==
    ASSUME pc' = pc, res' = res
    PROVE  StageOf' = StageOf
BY DEF StageOf, Stage

LEMMA InitPromised == Init => Promise!Init
BY DEF Init, Promise!Init, Stage

LEMMA OpenPromised ==
    ASSUME IInv, NEW u \in User, Open(u)
    PROVE  Promise!Next
<1>1. StageOf' = [StageOf EXCEPT ![u] = "asking"]
    <2>1. Stage(u)' = "asking"
        BY DEF Stage, Open, IInv, TypeOK
    <2>2. \A v \in User \ {u} : pc'[v] = pc[v] /\ res'[v] = res[v]
        BY DEF Open, IInv, TypeOK
    <2>. QED
        BY <2>1, <2>2, StageMoves
<1>2. StageOf[u] = "idle"
    BY DEF StageOf, Stage, Open
<1>3. /\ \A v \in User : num'[u] > num[v]
      /\ \A k \in asked : num'[u] > k
      /\ num' = [num EXCEPT ![u] = num'[u]]
    BY SeqAssumption DEF Open, IInv, TypeOK, NumbersGiven
<1>4. Promise!Ask(u)
    BY <1>1, <1>2, <1>3 DEF Promise!Ask, StageOf, Open
<1>. QED
    BY <1>4 DEF Promise!Next

LEMMA WritePromised ==
    ASSUME IInv, NEW u \in User, Write(u)
    PROVE  Promise!Next
<1>1. StageOf' = [StageOf EXCEPT ![u] = "waiting"]
    <2>1. Stage(u)' = "waiting"
        BY DEF Stage, Write, IInv, TypeOK
    <2>2. \A v \in User \ {u} : pc'[v] = pc[v] /\ res'[v] = res[v]
        BY DEF Write, IInv, TypeOK
    <2>. QED
        BY <2>1, <2>2, StageMoves
<1>2. StageOf[u] = "asking"
    BY DEF StageOf, Stage, Write
<1>3. asked' \in {asked, asked \cup {num[u]}}
    BY DEF Write, Sent
<1>4. Promise!Sent(u)
    BY <1>1, <1>2, <1>3 DEF Promise!Sent, StageOf, Write, wfr
<1>. QED
    BY <1>4 DEF Promise!Next

LEMMA CancelPromised ==
    ASSUME IInv, NEW u \in User, Cancel(u)
    PROVE  Promise!Next
<1>1. StageOf' = [StageOf EXCEPT ![u] = "failed"]
    <2>1. Stage(u)' = "failed"
        BY DEF Stage, Cancel, IInv, TypeOK
    <2>2. \A v \in User \ {u} : pc'[v] = pc[v] /\ res'[v] = res[v]
        BY DEF Cancel, IInv, TypeOK
    <2>. QED
        BY <2>1, <2>2, StageMoves
<1>2. StageOf[u] = "asking"
    BY DEF StageOf, Stage, Cancel
<1>3. Promise!Failed(u)
    BY <1>1, <1>2 DEF Promise!Failed, StageOf, Cancel, Cancelled
<1>. QED
    BY <1>3 DEF Promise!Next

LEMMA WaitPromised ==
    ASSUME IInv, NEW u \in User, Wait(u)
    PROVE  Promise!Next
<1>1. StageOf' = [StageOf EXCEPT ![u] = res'[u]]
    <2>1. Stage(u)' = res'[u]
        BY DEF Stage, Wait, IInv, TypeOK
    <2>2. \A v \in User \ {u} : pc'[v] = pc[v] /\ res'[v] = res[v]
        BY DEF Wait, IInv, TypeOK
    <2>. QED
        BY <2>1, <2>2, StageMoves
<1>2. StageOf[u] = "waiting"
    BY DEF StageOf, Stage, Wait
<1>3. CASE "RECEIVED" \in flags[u]
    <2>1. res'[u] = "answered" /\ got[u] # 0
        BY <1>3 DEF Wait, IInv, TypeOK, ResultKnown
    <2>2. Promise!Answered(u)
        BY <1>1, <1>2, <2>1 DEF Promise!Answered, StageOf, Wait
    <2>. QED
        BY <2>2 DEF Promise!Next
<1>4. CASE "RECEIVED" \notin flags[u]
    <2>1. res'[u] = "failed" /\ got[u] = 0
        BY <1>4 DEF Wait, IInv, TypeOK, ResultKnown
    <2>2. Promise!Failed(u)
        BY <1>1, <1>2, <2>1 DEF Promise!Failed, StageOf, Wait
    <2>. QED
        BY <2>2 DEF Promise!Next
<1>. QED
    BY <1>3, <1>4

\* What a thread does after its wait is over, before it returns, shows nothing.
LEMMA InnerPromised ==
    ASSUME IInv, NEW u \in User, Read(u) \/ Close(u)
    PROVE  UNCHANGED Promise!vars
<1>1. /\ pc[u] \in {"read", "close"} /\ pc'[u] \in {"close", "free"}
      /\ res' = res
      /\ \A v \in User \ {u} : pc'[v] = pc[v]
    BY DEF Read, Close, IInv, TypeOK
<1>2. StageOf' = StageOf
    BY <1>1 DEF StageOf, Stage
<1>3. UNCHANGED <<num, got, asked>>
    BY DEF Read, Close, Unlinked, wfr
<1>. QED
    BY <1>2, <1>3 DEF Promise!vars, StageOf

LEMMA FreePromised ==
    ASSUME IInv, NEW u \in User, Free(u)
    PROVE  Promise!Next
<1>1. StageOf' = [StageOf EXCEPT ![u] = "idle"]
    <2>1. Stage(u)' = "idle"
        BY DEF Stage, Free, IInv, TypeOK
    <2>2. \A v \in User \ {u} : pc'[v] = pc[v] /\ res'[v] = res[v]
        BY DEF Free, IInv, TypeOK
    <2>. QED
        BY <2>1, <2>2, StageMoves
<1>2. StageOf[u] \in {"answered", "failed"}
    BY DEF StageOf, Stage, Free, IInv, ResultKnown
<1>3. Promise!Return(u)
    BY <1>1, <1>2 DEF Promise!Return, StageOf, Free, Freed
<1>. QED
    BY <1>3 DEF Promise!Next

LEMMA HandleReplyPromised ==
    ASSUME IInv, NEW k \in asked, HandleReply(k)
    PROVE  Promise!Next
<1>1. StageOf' = StageOf
    BY StageStays DEF HandleReply
<1>2. CASE \E u \in User : /\ Matches(u, k) /\ Accepts(u)
                          /\ got' = [got EXCEPT ![u] = k]
    <2>1. PICK u \in User : /\ Matches(u, k) /\ Accepts(u)
                           /\ got' = [got EXCEPT ![u] = k]
        BY <1>2
    <2>2. StageOf[u] \in {"asking", "waiting"}
        BY <2>1 DEF Accepts, IInv, WaitingShown, StageOf, Stage
    <2>3. Promise!Same(num[u], k)
        BY <2>1 DEF Matches, Same, Promise!Same
    <2>4. Promise!Deliver(u, k)
        BY <1>1, <2>1, <2>2, <2>3 DEF Promise!Deliver, StageOf, HandleReply
    <2>. QED
        BY <2>4 DEF Promise!Next
<1>3. CASE got' = got
    <2>1. Promise!Ignore(k)
        BY <1>1, <1>3 DEF Promise!Ignore, StageOf, HandleReply
    <2>. QED
        BY <2>1 DEF Promise!Next
<1>. QED
    BY <1>2, <1>3 DEF HandleReply

\* Neither do other writers and the close of the connection.
LEMMA OthersPromised ==
    ASSUME WriteOther \/ Leave \/ Walk \/ Stray \/ UNCHANGED vars
    PROVE  UNCHANGED Promise!vars
<1>1. UNCHANGED <<pc, res, num, got, asked>>
    BY DEF WriteOther, Leave, Walk, Stray, SetClosed, First, WalkNext, WalkClose, WalkFree,
        Unlinked, Freed, vars, wfr
<1>2. StageOf' = StageOf
    BY <1>1, StageStays
<1>. QED
    BY <1>1, <1>2 DEF Promise!vars, StageOf

\* The requests of a connection keep what ReplyPromise promises: a reply goes to
\* the one request that waits for its number, and a request is answered by a
\* reply it was given, or fails.
THEOREM RepliesKeepPromise == Spec => KeepsPromise
<1>1. IInv /\ [Next]_vars => [Promise!Next]_Promise!vars
    <2>. SUFFICES ASSUME IInv, [Next]_vars PROVE Promise!Next \/ UNCHANGED Promise!vars
        OBVIOUS
    <2>1. CASE \E u \in User : Step(u)
        <3>1. PICK u \in User : Step(u)
            BY <2>1
        <3>. QED
            BY <3>1, OpenPromised, WritePromised, CancelPromised, WaitPromised, InnerPromised,
               FreePromised DEF Step
    <2>2. CASE \E k \in asked : HandleReply(k)
        BY <2>2, HandleReplyPromised
    <2>3. CASE WriteOther \/ Leave \/ Walk \/ Stray \/ UNCHANGED vars
        BY <2>3, OthersPromised
    <2>. QED
        BY <2>1, <2>2, <2>3 DEF Next
<1>. QED
    BY <1>1, InitPromised, InductiveInvariant, PTL DEF Spec, KeepsPromise, Promise!Spec

=============================================================================
