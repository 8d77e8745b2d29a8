-------------------------- MODULE HubPacketsProofs --------------------------
(* The proof that the trackers of a hub are accounted for, whatever the number *)
(* of ports, trackers, packets, losses and failures, and that an answer meets  *)
(* its packet.                                                                 *)
EXTENDS HubPackets, SequenceTheorems, TLAPS

-----------------------------------------------------------------------------
(* Sequences without repetition                                               *)

LEMMA ToSetMembers ==
    ASSUME NEW S, NEW s \in Seq(S)
    PROVE  /\ ToSet(s) \subseteq S
           /\ \A x : x \in ToSet(s) <=> \E k \in 1..Len(s) : x = s[k]
BY DEF ToSet

LEMMA AppendNew ==
    ASSUME NEW S, NEW s \in Seq(S), NEW x \in S, IsInjective(s), x \notin ToSet(s)
    PROVE  /\ Append(s, x) \in Seq(S)
           /\ IsInjective(Append(s, x))
           /\ ToSet(Append(s, x)) = ToSet(s) \cup {x}
<1>1. /\ Append(s, x) \in Seq(S)
      /\ Len(Append(s, x)) = Len(s) + 1
      /\ \A k \in 1..Len(s) : Append(s, x)[k] = s[k]
      /\ Append(s, x)[Len(s) + 1] = x
  BY AppendProperties
<1>2. Len(s) \in Nat /\ DOMAIN s = 1..Len(s) /\ DOMAIN Append(s, x) = 1..Len(s) + 1
  BY <1>1, LenProperties
<1>3. ToSet(Append(s, x)) = ToSet(s) \cup {x}
  BY <1>1, <1>2 DEF ToSet
<1>4. IsInjective(Append(s, x))
  BY <1>1, <1>2 DEF IsInjective, ToSet
<1>. QED BY <1>1, <1>3, <1>4

LEMMA TailOld ==
    ASSUME NEW S, NEW s \in Seq(S), IsInjective(s), s # <<>>
    PROVE  /\ Tail(s) \in Seq(S)
           /\ IsInjective(Tail(s))
           /\ Head(s) \in ToSet(s)
           /\ ToSet(Tail(s)) = ToSet(s) \ {Head(s)}
<1>1. /\ Tail(s) \in Seq(S)
      /\ Len(Tail(s)) = Len(s) - 1
      /\ \A k \in 1..Len(Tail(s)) : Tail(s)[k] = s[k + 1]
      /\ Head(s) = s[1]
  BY HeadTailProperties
<1>2. Len(s) \in Nat \ {0} /\ DOMAIN s = 1..Len(s) /\ DOMAIN Tail(s) = 1..Len(s) - 1
  BY <1>1, LenProperties, EmptySeq
<1>3. Head(s) \in ToSet(s)
  BY <1>1, <1>2 DEF ToSet
<1>4. IsInjective(Tail(s))
  BY <1>1, <1>2 DEF IsInjective
<1>5. ASSUME NEW x \in ToSet(Tail(s)) PROVE x \in ToSet(s) \ {Head(s)}
  <2>1. PICK k \in 1..Len(s) - 1 : x = s[k + 1]
    BY <1>1, <1>2, <1>5 DEF ToSet
  <2>. QED BY <2>1, <1>1, <1>2 DEF ToSet, IsInjective
<1>6. ASSUME NEW x \in ToSet(s) \ {Head(s)} PROVE x \in ToSet(Tail(s))
  <2>1. PICK k \in 1..Len(s) : x = s[k] /\ k # 1
    BY <1>1, <1>2, <1>6 DEF ToSet
  <2>2. k - 1 \in 1..Len(s) - 1 /\ Tail(s)[k - 1] = s[k]
    BY <2>1, <1>1, <1>2
  <2>. QED BY <2>1, <2>2, <1>2 DEF ToSet
<1>. QED BY <1>1, <1>3, <1>4, <1>5, <1>6

LEMMA RemoveAtElements ==
    ASSUME NEW S, NEW s \in Seq(S), NEW i \in 1..Len(s)
    PROVE  /\ RemoveAt(s, i) \in Seq(S)
           /\ Len(RemoveAt(s, i)) = Len(s) - 1
           /\ \A j \in 1..Len(s) - 1 :
                RemoveAt(s, i)[j] = IF j < i THEN s[j] ELSE s[j + 1]
<1> DEFINE a == SubSeq(s, 1, i - 1)
           b == SubSeq(s, i + 1, Len(s))
<1>1. /\ a \in Seq(S) /\ Len(a) = i - 1
      /\ \A j \in 1..i - 1 : a[j] = s[j]
    BY SubSeqProperties, ElementOfSeq
<1>2. /\ b \in Seq(S) /\ Len(b) = Len(s) - i
      /\ \A j \in 1..Len(s) - i : b[j] = s[i + j]
    BY SubSeqProperties, ElementOfSeq
<1>3. /\ a \o b \in Seq(S)
      /\ Len(a \o b) = Len(a) + Len(b)
      /\ \A j \in 1..Len(a) + Len(b) :
            (a \o b)[j] = IF j <= Len(a) THEN a[j] ELSE b[j - Len(a)]
    BY <1>1, <1>2, ConcatProperties
<1>4. RemoveAt(s, i) = a \o b
    BY DEF RemoveAt
<1>. HIDE DEF a, b
<1>5. Len(a \o b) = Len(s) - 1
    BY <1>1, <1>2, <1>3
<1>6. ASSUME NEW j \in 1..Len(s) - 1
      PROVE  (a \o b)[j] = IF j < i THEN s[j] ELSE s[j + 1]
  <2>1. CASE j < i
    BY <2>1, <1>1, <1>2, <1>3
  <2>2. CASE ~(j < i)
    <3>1. j - (i - 1) \in 1..Len(s) - i
      BY <2>2
    <3>2. b[j - (i - 1)] = s[i + (j - (i - 1))]
      BY <3>1, <1>2
    <3>. QED BY <2>2, <3>2, <1>1, <1>2, <1>3
  <2>. QED BY <2>1, <2>2
<1>. QED BY <1>3, <1>4, <1>5, <1>6

LEMMA RemoveAtOld ==
    ASSUME NEW S, NEW s \in Seq(S), NEW i \in 1..Len(s), IsInjective(s)
    PROVE  /\ RemoveAt(s, i) \in Seq(S)
           /\ IsInjective(RemoveAt(s, i))
           /\ ToSet(RemoveAt(s, i)) = ToSet(s) \ {s[i]}
<1> DEFINE r == RemoveAt(s, i)
           from(j) == IF j < i THEN j ELSE j + 1
           n == Len(s)
<1>1. n \in Nat /\ i \in 1..n /\ DOMAIN s = 1..n
  BY LenProperties
<1>2. r \in Seq(S) /\ DOMAIN r = 1..n - 1
  BY <1>1, RemoveAtElements, LenProperties
<1>3. \A j \in 1..n - 1 : r[j] = s[from(j)]
  BY RemoveAtElements
<1>. HIDE DEF r, n
<1>4. \A j \in 1..n - 1 : from(j) \in 1..n /\ from(j) # i
  BY <1>1
<1>5. \A j, k \in 1..n - 1 : from(j) = from(k) => j = k
  BY <1>1
<1>6. \A k \in 1..n : k # i => \E j \in 1..n - 1 : from(j) = k
  <2>. SUFFICES ASSUME NEW k \in 1..n, k # i PROVE \E j \in 1..n - 1 : from(j) = k
    OBVIOUS
  <2>1. CASE k < i
    <3>1. k \in 1..n - 1 /\ from(k) = k
      BY <1>1, <2>1
    <3>. QED BY <3>1
  <2>2. CASE k > i
    <3>1. k - 1 \in 1..n - 1 /\ from(k - 1) = k
      BY <1>1, <2>2
    <3>. QED BY <3>1
  <2>. QED BY <1>1, <2>1, <2>2
<1>. HIDE DEF from
<1>7. \A j, k \in 1..n : s[j] = s[k] => j = k
  BY <1>1 DEF IsInjective
<1>8. IsInjective(r)
  BY <1>2, <1>3, <1>4, <1>5, <1>7 DEF IsInjective
<1>9. ToSet(r) = ToSet(s) \ {s[i]}
  <2>1. ToSet(r) = {s[from(j)] : j \in 1..n - 1}
    BY <1>2, <1>3 DEF ToSet
  <2>2. ToSet(s) = {s[k] : k \in 1..n}
    BY <1>1 DEF ToSet
  <2>3. ASSUME NEW j \in 1..n - 1 PROVE s[from(j)] \in ToSet(s) \ {s[i]}
    BY <1>1, <1>4, <1>7, <2>2
  <2>4. ASSUME NEW k \in 1..n, s[k] # s[i] PROVE s[k] \in ToSet(r)
    BY <1>6, <2>1, <2>4
  <2>. QED BY <2>1, <2>2, <2>3, <2>4
<1>. QED BY <1>2, <1>8, <1>9 DEF r

-----------------------------------------------------------------------------
(* The ids of a port                                                          *)

LEMMA TimesMonotonic ==
    ASSUME NEW a \in Int, NEW b \in Int, NEW n \in Nat, a <= b
    PROVE  a * n <= b * n
<1>1. PICK d \in Nat : b = a + d
  BY b - a \in Nat
<1>2. b * n = a * n + d * n
  BY <1>1
<1>3. d * n >= 0
  OBVIOUS
<1>. QED BY <1>2, <1>3

LEMMA PortBounds ==
    ASSUME NEW p \in Port, NEW i \in IdsOf(p)
    PROVE  i \in Id /\ PortOf(i) = p
<1>1. /\ NumPorts \in Nat \ {0} /\ PerPort \in Nat \ {0}
      /\ p \in Int /\ 0 <= p /\ p + 1 <= NumPorts
  BY HubAssumption DEF Port
<1>2. i \in Int /\ p * PerPort <= i - 1 /\ i - 1 < (p + 1) * PerPort
  BY <1>1 DEF IdsOf, FirstId, LastId
<1>3. 0 * PerPort <= p * PerPort /\ (p + 1) * PerPort <= NumPorts * PerPort
  BY <1>1, TimesMonotonic
<1>4. i \in Id
  BY <1>1, <1>2, <1>3 DEF Id
<1> DEFINE q == (i - 1) \div PerPort
<1>5. q \in Int /\ q * PerPort <= i - 1 /\ i - 1 < (q + 1) * PerPort
  BY <1>1, <1>2
<1>. HIDE DEF q
<1>6. ~(q + 1 <= p)
  BY <1>1, <1>2, <1>5, TimesMonotonic
<1>7. ~(p + 1 <= q)
  BY <1>1, <1>2, <1>5, TimesMonotonic
<1>8. q = p
  BY <1>1, <1>5, <1>6, <1>7
<1>. QED BY <1>4, <1>8 DEF q, PortOf

LEMMA IdHasPort ==
    ASSUME NEW i \in Id
    PROVE  PortOf(i) \in Port
<1>1. /\ NumPorts \in Nat \ {0} /\ PerPort \in Nat \ {0}
      /\ i \in Int /\ 0 <= i - 1 /\ i - 1 < NumPorts * PerPort
  BY HubAssumption DEF Id
<1> DEFINE q == (i - 1) \div PerPort
<1>2. q \in Int /\ q * PerPort <= i - 1 /\ i - 1 < (q + 1) * PerPort
  BY <1>1
<1>. HIDE DEF q
<1>3. ~(NumPorts <= q)
  BY <1>1, <1>2, TimesMonotonic
<1>4. ~(q + 1 <= 0)
  <2>. SUFFICES ASSUME q + 1 <= 0 PROVE FALSE
    OBVIOUS
  <2>1. (q + 1) * PerPort <= 0 * PerPort
    BY <1>1, <1>2, TimesMonotonic
  <2>. QED BY <1>1, <1>2, <2>1
<1>5. q \in 0..NumPorts - 1
  BY <1>1, <1>2, <1>3, <1>4
<1>. QED BY <1>5 DEF q, PortOf, Port

-----------------------------------------------------------------------------
(* The inductive invariant                                                    *)

ThreadState ==
    [pc : Holding \cup {"idle", "get"}, id : Id \cup {NoId}, size : Nat,
     list : Seq(Id), todo : Nat, all : Nat, trans : BOOLEAN, ending : BOOLEAN,
     res : Code, error : Code]

Packet == [id : Id, len : Nat, request : Nat]

\* A thread has the tracker it works on and those of its transaction, which are
\* of its port.  Until the transaction ends the first is not among the others;
\* then it is their first.
ThreadOK(p, t) ==
    /\ t \in ThreadState
    /\ t.id \in IF t.pc \in Holding THEN IdsOf(p) ELSE {NoId}
    /\ ToSet(t.list) \subseteq IdsOf(p)
    /\ IsInjective(t.list)
    /\ t.pc \in {"get", "claim", "length", "send", "reap"} => ~t.ending
    /\ t.pc \in Holding => IF t.ending THEN t.list # <<>> /\ t.id = Head(t.list)
                           ELSE t.id \notin ToSet(t.list)
    /\ ~t.trans \/ t.pc = "idle" => t.list = <<>>
    /\ t.pc = "reap" => t.trans

\* A report with an answer is one for a tracker of the hub
ReportsOK(s) ==
    /\ \E S : s \in Seq(S)
    /\ \A k \in 1..Len(s) : s[k].kind = "return" => s[k].id \in Id /\ s[k].code \in Code

TypesOK ==
    /\ state \in [Id -> SUBSET Flag]
    /\ code \in [Id -> Code]
    /\ len \in [Id -> Nat]
    /\ counter \in [Port -> 0..PerPort - 1]
    /\ left \in [Port -> Nat]
    /\ fw \in [Port -> Seq(Packet)]
    /\ rd \in [pc : {"idle", "code", "space", "unknown", "ask", "asklost", "kill"},
           id : Id \cup {NoId}, code : Code, len : Nat, gap : BOOLEAN]
    /\ rd.pc = "code" => rd.id \in Id
    /\ gap \in BOOLEAN
    /\ ReportsOK(pipe)

HeldBy(t) == (IF t.id = NoId THEN {} ELSE {t.id}) \cup ToSet(t.list)

\* What TrackersAccounted says of a tracker with flags s that is held or not
Accounted(s, held) ==
    /\ "INUSE" \in s <=> held \/ "ABANDONED" \in s
    /\ "ABANDONED" \in s => ~held /\ "SIGNALLED" \notin s
    /\ "INUSE" \notin s => s = {}

ThreadsOK ==
    /\ th \in [Port -> ThreadState]
    /\ \A p \in Port : ThreadOK(p, th[p])

IInv ==
    /\ TypesOK
    /\ ThreadsOK
    /\ \A p \in Port : \A i \in IdsOf(p) : Accounted(state[i], i \in HeldBy(th[p]))

LEMMA NoIdIsNone == NoId \notin Id
BY HubAssumption DEF Id

LEMMA IdsDisjoint ==
    ASSUME NEW p \in Port, NEW q \in Port, p # q
    PROVE  IdsOf(p) \cap IdsOf(q) = {}
BY PortBounds

LEMMA IdInPort ==
    ASSUME NEW i \in Id PROVE i \in IdsOf(PortOf(i))
<1>1. /\ NumPorts \in Nat \ {0} /\ PerPort \in Nat \ {0}
      /\ i \in Int /\ 0 <= i - 1
  BY HubAssumption DEF Id
<1> DEFINE q == (i - 1) \div PerPort
<1>2. q \in Int /\ q * PerPort <= i - 1 /\ i - 1 < (q + 1) * PerPort
  BY <1>1
<1>. HIDE DEF q
<1>3. i \in q * PerPort + 1..(q + 1) * PerPort
  BY <1>1, <1>2
<1>. QED BY <1>3 DEF q, PortOf, IdsOf, FirstId, LastId

\* The invariant is stronger than the property
LEMMA IInvAccounted == IInv => TrackersAccounted
<1>. SUFFICES ASSUME IInv PROVE TrackersAccounted
  OBVIOUS
<1>1. \A p \in Port : IsInjective(th[p].list)
  BY DEF IInv, ThreadsOK, ThreadOK
<1>2. ASSUME NEW i \in Id
      PROVE  Accounted(state[i], i \in Held(PortOf(i)))
  <2>1. PortOf(i) \in Port /\ i \in IdsOf(PortOf(i))
    BY IdHasPort, IdInPort
  <2>. QED BY <2>1 DEF IInv, HeldBy, Held
<1>. QED BY <1>1, <1>2 DEF TrackersAccounted, Accounted, Is

\* A step of the sender of port p that touches only trackers of its port
LEMMA SenderStep ==
    ASSUME IInv, NEW p \in Port, NEW t,
           ThreadOK(p, t),
           th' = [th EXCEPT ![p] = t],
           TypesOK',
           \A i \in Id \ IdsOf(p) : state'[i] = state[i],
           \A i \in IdsOf(p) : Accounted(state'[i], i \in HeldBy(t))
    PROVE  IInv'
<1>1. th' \in [Port -> ThreadState] /\ th'[p] = t /\ \A q \in Port \ {p} : th'[q] = th[q]
  BY DEF IInv, ThreadsOK, ThreadOK
<1>2. ThreadsOK'
  BY <1>1 DEF IInv, ThreadsOK, ThreadOK
<1>3. ASSUME NEW q \in Port, NEW i \in IdsOf(q)
      PROVE  Accounted(state'[i], i \in HeldBy(th'[q]))
  <2>1. CASE q = p
    BY <2>1, <1>1
  <2>2. CASE q # p
    <3>1. i \in Id \ IdsOf(p)
      BY <2>2, PortBounds, IdsDisjoint
    <3>. QED BY <2>2, <3>1, <1>1 DEF IInv
  <2>. QED BY <2>1, <2>2
<1>. QED BY <1>2, <1>3 DEF IInv

\* ... that keeps its trackers and their flags
LEMMA SenderKeeps ==
    ASSUME IInv, NEW p \in Port, NEW t,
           ThreadOK(p, t),
           th' = [th EXCEPT ![p] = t],
           TypesOK',
           state' = state,
           HeldBy(t) = HeldBy(th[p])
    PROVE  IInv'
<1>1. \A i \in IdsOf(p) : Accounted(state'[i], i \in HeldBy(t))
  BY DEF IInv
<1>. QED BY <1>1, SenderStep

\* ... that lets one of its trackers go, free or abandoned
LEMMA SenderReleases ==
    ASSUME IInv, NEW p \in Port, NEW t, NEW i \in IdsOf(p), NEW s,
           ThreadOK(p, t),
           th' = [th EXCEPT ![p] = t],
           TypesOK',
           state' = [state EXCEPT ![i] = s],
           Accounted(s, FALSE),
           HeldBy(t) = HeldBy(th[p]) \ {i}
    PROVE  IInv'
<1>1. i \in Id /\ state'[i] = s /\ \A j \in Id \ {i} : state'[j] = state[j]
  BY PortBounds DEF IInv, TypesOK
<1>2. ASSUME NEW j \in IdsOf(p) PROVE Accounted(state'[j], j \in HeldBy(t))
  <2>1. CASE j = i
    <3>1. ~(j \in HeldBy(t))
      BY <2>1
    <3>. QED BY <2>1, <3>1, <1>1 DEF Accounted
  <2>2. CASE j # i
    <3>1. state'[j] = state[j] /\ (j \in HeldBy(t) <=> j \in HeldBy(th[p]))
      BY <2>2, <1>1, PortBounds
    <3>2. Accounted(state[j], j \in HeldBy(th[p]))
      BY DEF IInv
    <3>. QED BY <3>1, <3>2 DEF Accounted
  <2>. QED BY <2>1, <2>2
<1>. QED BY <1>1, <1>2, SenderStep

\* A step of the reader or the hub
LEMMA OtherStep ==
    ASSUME IInv, th' = th, TypesOK',
           \A i \in Id, held \in BOOLEAN :
                Accounted(state[i], held) => Accounted(state'[i], held)
    PROVE  IInv'
<1>1. ThreadsOK'
  BY DEF IInv, ThreadsOK
<1>2. ASSUME NEW q \in Port, NEW i \in IdsOf(q)
      PROVE  Accounted(state'[i], i \in HeldBy(th'[q]))
  <2>1. i \in Id /\ (i \in HeldBy(th[q])) \in BOOLEAN
    BY PortBounds
  <2>2. Accounted(state[i], i \in HeldBy(th[q]))
    BY DEF IInv
  <2>. QED BY <2>1, <2>2
<1>. QED BY <1>1, <1>2 DEF IInv

LEMMA ReportAdded ==
    ASSUME NEW s, ReportsOK(s), NEW r, r.kind = "return" => r.id \in Id /\ r.code \in Code
    PROVE  ReportsOK(Append(s, r))
<1>1. PICK S : s \in Seq(S)
  BY DEF ReportsOK
<1>2. s \in Seq(S \cup {r})
  BY <1>1
<1>3. /\ Append(s, r) \in Seq(S \cup {r})
      /\ Len(Append(s, r)) = Len(s) + 1
      /\ \A k \in 1..Len(s) : Append(s, r)[k] = s[k]
      /\ Append(s, r)[Len(s) + 1] = r
  BY <1>2, AppendProperties
<1>4. Len(s) \in Nat
  BY <1>1, LenProperties
<1>. QED BY <1>3, <1>4 DEF ReportsOK

LEMMA ReportRead ==
    ASSUME NEW s, ReportsOK(s), s # <<>>
    PROVE  /\ ReportsOK(Tail(s))
           /\ Head(s).kind = "return" => Head(s).id \in Id /\ Head(s).code \in Code
<1>1. PICK S : s \in Seq(S)
  BY DEF ReportsOK
<1>2. /\ Tail(s) \in Seq(S)
      /\ Len(Tail(s)) = Len(s) - 1
      /\ \A k \in 1..Len(Tail(s)) : Tail(s)[k] = s[k + 1]
      /\ Head(s) = s[1]
  BY <1>1, HeadTailProperties
<1>3. Len(s) \in Nat \ {0}
  BY <1>1, LenProperties, EmptySeq
<1>. QED BY <1>2, <1>3 DEF ReportsOK

LEMMA EmptyList == <<>> \in Seq(Id) /\ IsInjective(<<>>) /\ ToSet(<<>>) = {}
<1>1. <<>> \in Seq(Id) /\ DOMAIN <<>> = {}
  OBVIOUS
<1>. QED BY <1>1 DEF IsInjective, ToSet

LEMMA Holds == Holding = {"claim", "length", "send", "reap", "wait", "release"}
BY DEF Holding

-----------------------------------------------------------------------------
(* The steps                                                                  *)

LEMMA IdleOK ==
    ASSUME NEW res \in Code
    PROVE  /\ Idle(res) \in ThreadState
           /\ Idle(res).pc = "idle" /\ Idle(res).id = NoId /\ Idle(res).list = <<>>
           /\ ~Idle(res).ending /\ ~Idle(res).trans
<1>1. /\ <<>> \in Seq(Id) /\ NoId \in Id \cup {NoId} /\ "OK" \in Code
      /\ "idle" \in Holding \cup {"idle", "get"}
  BY EmptyList DEF Code
<1>2. 0 \in Nat /\ FALSE \in BOOLEAN
  OBVIOUS
<1>. QED BY <1>1, <1>2 DEF Idle, ThreadState

\* A request is over
LEMMA OverOK ==
    ASSUME NEW p \in Port, NEW t \in ThreadState, NEW res \in Code
    PROVE  /\ ThreadOK(p, Over(t, res))
           /\ HeldBy(Over(t, res)) = {}
<1> DEFINE u == Over(t, res)
<1>1. t.all \in Nat
  BY DEF ThreadState
<1>2. u \in ThreadState
      /\ u.pc = "idle" /\ u.id = NoId /\ u.list = <<>> /\ ~u.ending /\ ~u.trans
  BY <1>1, IdleOK DEF Over, ThreadState
<1>. HIDE DEF u
<1>. QED BY <1>2, EmptyList, Holds DEF u, ThreadOK, HeldBy

\* A transaction ends, with the trackers of t.list
LEMMA EndsOK ==
    ASSUME NEW p \in Port, NEW t \in ThreadState, IsInjective(t.list),
           ToSet(t.list) \subseteq IdsOf(p), t.trans
    PROVE  ThreadOK(p, Ends(t)) /\ HeldBy(Ends(t)) = ToSet(t.list)
<1>1. CASE t.list = <<>>
  <2>1. FirstError(t.error, t.res) \in Code
    BY DEF FirstError, ThreadState
  <2>2. Ends(t) = Over(t, FirstError(t.error, t.res))
    BY <1>1 DEF Ends
  <2>. QED BY <1>1, <2>1, <2>2, OverOK, EmptyList
<1>2. CASE t.list # <<>>
  <2> DEFINE u == [t EXCEPT !.pc = "wait", !.id = Head(t.list), !.ending = TRUE]
  <2>1. t.list \in Seq(Id)
    BY DEF ThreadState
  <2>2. Head(t.list) \in ToSet(t.list) /\ Head(t.list) \in Id
    BY <1>2, <2>1, TailOld, ToSetMembers
  <2>3. u \in ThreadState /\ u.pc = "wait" /\ u.id = Head(t.list) /\ u.ending
        /\ u.list = t.list /\ u.trans
    BY <2>2, Holds DEF ThreadState
  <2>. HIDE DEF u
  <2>4. ThreadOK(p, u)
    BY <1>2, <2>2, <2>3, Holds DEF ThreadOK
  <2>5. HeldBy(u) = ToSet(t.list)
    BY <2>2, <2>3, NoIdIsNone DEF HeldBy
  <2>. QED BY <1>2, <2>4, <2>5 DEF Ends, u
<1>. QED BY <1>1, <1>2

\* sendpacket returns, with the trackers of t.list
LEMMA SentOK ==
    ASSUME NEW p \in Port, NEW t \in ThreadState, NEW res \in Code, IsInjective(t.list),
           ToSet(t.list) \subseteq IdsOf(p), ~t.ending, t.trans \/ t.list = <<>>
    PROVE  ThreadOK(p, Sent(t, res)) /\ HeldBy(Sent(t, res)) = ToSet(t.list)
<1>1. CASE ~t.trans
  <2>1. Sent(t, res) = Over(t, res)
    BY <1>1 DEF Sent
  <2>. QED BY <1>1, <2>1, EmptyList, OverOK
<1>2. CASE t.trans /\ res = "OK" /\ t.todo > 1
  <2> DEFINE u == [t EXCEPT !.pc = "get", !.id = NoId, !.todo = @ - 1]
  <2>1. t.todo - 1 \in Nat
    BY <1>2 DEF ThreadState
  <2>2. u \in ThreadState /\ u.pc = "get" /\ u.id = NoId /\ u.list = t.list
        /\ u.ending = t.ending /\ u.trans = t.trans
    BY <2>1 DEF ThreadState
  <2>3. Sent(t, res) = u
    BY <1>2 DEF Sent
  <2>. HIDE DEF u
  <2>. QED BY <1>2, <2>2, <2>3, Holds DEF ThreadOK, HeldBy
<1>3. CASE t.trans /\ ~(res = "OK" /\ t.todo > 1)
  <2> DEFINE u == [t EXCEPT !.res = res]
  <2>1. u \in ThreadState /\ u.list = t.list /\ u.trans = t.trans
    BY DEF ThreadState
  <2>2. Sent(t, res) = Ends(u)
    BY <1>3 DEF Sent
  <2>. HIDE DEF u
  <2>. QED BY <1>3, <2>1, <2>2, EndsOK
<1>. QED BY <1>1, <1>2, <1>3

\* The other parts of the types, when a sender leaves the trackers' codes and the
\* reports alone
LEMMA SenderTypes ==
    ASSUME IInv, UNCHANGED <<code, len, counter, left, fw, rd, gap, pipe>>,
           state' \in [Id -> SUBSET Flag]
    PROVE  TypesOK'
BY DEF IInv, TypesOK, ReportsOK

LEMMA RequestStep ==
    ASSUME IInv, NEW p \in Port, Request(p) PROVE IInv'
<1>1. PICK n \in 1..MaxBatch :
        th' = [th EXCEPT ![p] = [Idle("OK") EXCEPT !.pc = "get", !.todo = n,
                                                   !.all = n, !.trans = n > 1]]
  BY DEF Request
<1> DEFINE b == n > 1
           t == [Idle("OK") EXCEPT !.pc = "get", !.todo = n, !.all = n, !.trans = b]
<1>2. n \in Nat /\ b \in BOOLEAN /\ "OK" \in Code
  BY HubAssumption DEF Code
<1>. HIDE DEF b
<1>3. t \in ThreadState
      /\ t.pc = "get" /\ t.id = NoId /\ t.list = <<>> /\ ~t.ending
  <2> DEFINE u == Idle("OK")
  <2>1. u \in ThreadState /\ u.id = NoId /\ u.list = <<>> /\ ~u.ending
    BY <1>2, IdleOK
  <2>. HIDE DEF u
  <2>2. [u EXCEPT !.pc = "get", !.todo = n, !.all = n, !.trans = b] \in ThreadState
    BY <1>2, <2>1 DEF ThreadState
  <2>3. t = [u EXCEPT !.pc = "get", !.todo = n, !.all = n, !.trans = b]
    BY DEF u
  <2>. HIDE DEF t
  <2>. QED BY <2>1, <2>2, <2>3 DEF ThreadState
<1>. HIDE DEF t
<1>5. ThreadOK(p, t) /\ HeldBy(t) = {}
  BY <1>3, EmptyList, Holds DEF ThreadOK, HeldBy
<1>6. th[p].pc = "idle" /\ HeldBy(th[p]) = {}
  BY EmptyList, Holds DEF Request, At, IInv, ThreadsOK, ThreadOK, HeldBy
<1>7. TypesOK'
  <2>1. left' \in [Port -> Nat]
    BY DEF Request, IInv, TypesOK
  <2>. QED BY <2>1 DEF Request, trackers, hub, IInv, TypesOK, ReportsOK
<1>8. state' = state /\ th' = [th EXCEPT ![p] = t]
  BY <1>1 DEF Request, trackers, t, b
<1>. QED BY <1>5, <1>6, <1>7, <1>8, SenderKeeps

LEMMA CandidateOK ==
    ASSUME NEW p \in Port, counter \in [Port -> 0..PerPort - 1], NEW j \in IdsOf(p)
    PROVE  Candidate(p, j) \in IdsOf(p)
<1> DEFINE f == FirstId(p)
           l == LastId(p)
           c == counter[p]
<1>1. p \in Int /\ PerPort \in Nat \ {0} /\ c \in 0..PerPort - 1
  BY HubAssumption DEF Port
<1>2. f \in Int /\ l = f + PerPort - 1
  <2>1. (p + 1) * PerPort = p * PerPort + PerPort /\ p * PerPort \in Int
    BY <1>1
  <2>. QED BY <2>1, <1>1 DEF FirstId, LastId
<1>3. j \in f..l
  BY DEF IdsOf
<1>5. Candidate(p, j) = IF j + c > l THEN j + c - (l - f) ELSE j + c
  BY <1>1, <1>2, <1>3 DEF Candidate
<1>. HIDE DEF f, l, c
<1>4. (IF j + c > l THEN j + c - (l - f) ELSE j + c) \in f..l
  BY <1>1, <1>2, <1>3
<1>. QED BY <1>4, <1>5 DEF f, l, IdsOf

LEMMA GetTrackerStep ==
    ASSUME IInv, NEW p \in Port, GetTracker(p) PROVE IInv'
<1>1. PICK j \in FreeAt(p), n \in Sizes :
        /\ state' = [state EXCEPT ![Candidate(p, j)] = @ \cup {"INUSE"}]
        /\ code' = [code EXCEPT ![Candidate(p, j)] = "UNKNOWNVAL"]
        /\ len' = [len EXCEPT ![Candidate(p, j)] = 0]
        /\ th' = [th EXCEPT ![p].pc = "claim", ![p].id = Candidate(p, j), ![p].size = n]
  BY DEF GetTracker
<1> DEFINE i == Candidate(p, j)
           t == [th[p] EXCEPT !.pc = "claim", !.id = i, !.size = n]
<1>2. i \in IdsOf(p) /\ i \in Id /\ "INUSE" \notin state[i]
  BY CandidateOK, PortBounds DEF FreeAt, Is, IInv, TypesOK
<1>. HIDE DEF i
<1>3. /\ th[p] \in ThreadState /\ ThreadOK(p, th[p])
      /\ th[p].pc = "get" /\ th[p].id = NoId /\ ~th[p].ending
  BY Holds DEF GetTracker, At, IInv, ThreadsOK, ThreadOK
<1>4. HeldBy(th[p]) = ToSet(th[p].list) /\ i \notin ToSet(th[p].list) /\ state[i] = {}
  BY <1>2, <1>3 DEF IInv, Accounted, HeldBy
<1>5. n \in Nat
  BY HubAssumption
<1>6. t \in ThreadState /\ t.pc = "claim" /\ t.id = i /\ t.list = th[p].list
      /\ t.ending = th[p].ending /\ t.trans = th[p].trans
  BY <1>2, <1>3, <1>5, Holds DEF ThreadState
<1>7. th' = [th EXCEPT ![p] = t]
  BY <1>1 DEF i, IInv, ThreadsOK
<1>. HIDE DEF t
<1>8. ThreadOK(p, t)
  BY <1>2, <1>3, <1>4, <1>6, Holds DEF ThreadOK
<1>9. HeldBy(t) = HeldBy(th[p]) \cup {i}
  BY <1>2, <1>4, <1>6, NoIdIsNone DEF HeldBy
<1>10. /\ \A k \in Id \ {i} : state'[k] = state[k]
       /\ state'[i] = {"INUSE"}
       /\ state' \in [Id -> SUBSET Flag]
  BY <1>1, <1>2, <1>4 DEF i, IInv, TypesOK, Flag
<1>11. TypesOK'
  <2>1. code' \in [Id -> Code] /\ len' \in [Id -> Nat]
    BY <1>1, <1>2 DEF i, IInv, TypesOK, Code
  <2>2. counter' \in [Port -> 0..PerPort - 1]
    <3>1. LastId(p) - FirstId(p) = PerPort - 1
      <4>1. p \in Int /\ PerPort \in Nat \ {0}
        BY HubAssumption DEF Port
      <4>2. (p + 1) * PerPort = p * PerPort + PerPort /\ p * PerPort \in Int
        BY <4>1
      <4>. QED BY <4>1, <4>2 DEF FirstId, LastId
    <3>2. counter \in [Port -> 0..PerPort - 1] /\ PerPort \in Nat \ {0}
      BY HubAssumption DEF IInv, TypesOK
    <3>3. counter' = [counter EXCEPT ![p] = IF @ + 1 > PerPort - 1 THEN 0 ELSE @ + 1]
      BY <3>1 DEF GetTracker
    <3>. QED BY <3>2, <3>3
  <2>. QED BY <2>1, <2>2, <1>10 DEF GetTracker, hub, bounds, IInv, TypesOK, ReportsOK
<1>12. ASSUME NEW k \in IdsOf(p) PROVE Accounted(state'[k], k \in HeldBy(t))
  <2>1. CASE k = i
    BY <2>1, <1>9, <1>10 DEF Accounted
  <2>2. CASE k # i
    <3>1. state'[k] = state[k] /\ (k \in HeldBy(t) <=> k \in HeldBy(th[p]))
      BY <2>2, <1>9, <1>10, PortBounds
    <3>2. Accounted(state[k], k \in HeldBy(th[p]))
      BY DEF IInv
    <3>. QED BY <3>1, <3>2 DEF Accounted
  <2>. QED BY <2>1, <2>2
<1>. QED BY <1>2, <1>7, <1>8, <1>10, <1>11, <1>12, SenderStep

\* What the invariant says of the sender of a port
LEMMA ThreadFacts ==
    ASSUME IInv, NEW p \in Port
    PROVE  /\ th \in [Port -> ThreadState]
           /\ ThreadOK(p, th[p])
           /\ th[p] \in ThreadState
           /\ th[p].list \in Seq(Id)
           /\ \A i \in IdsOf(p) : Accounted(state[i], i \in HeldBy(th[p]))
           /\ state \in [Id -> SUBSET Flag]
           /\ code \in [Id -> Code]
           /\ IdsOf(p) \subseteq Id
<1>1. th[p] \in ThreadState /\ th[p].list \in Seq(Id)
  BY DEF IInv, ThreadsOK, ThreadState
<1>. QED BY <1>1, PortBounds DEF IInv, ThreadsOK, TypesOK

\* ... while it works on a tracker
LEMMA HoldingFacts ==
    ASSUME IInv, NEW p \in Port, th[p].pc \in Holding
    PROVE  /\ th[p].id \in IdsOf(p) /\ th[p].id \in Id
           /\ ~th[p].ending => /\ th[p].id \notin ToSet(th[p].list)
                               /\ HeldBy(th[p]) = ToSet(th[p].list) \cup {th[p].id}
           /\ th[p].ending => /\ th[p].list # <<>> /\ th[p].id = Head(th[p].list)
                              /\ th[p].trans
                              /\ HeldBy(th[p]) = ToSet(th[p].list)
<1>1. th[p].id \in IdsOf(p) /\ th[p].id \in Id /\ th[p].id # NoId
  BY ThreadFacts, NoIdIsNone DEF ThreadOK
<1>2. CASE ~th[p].ending
  BY <1>1, <1>2, ThreadFacts DEF ThreadOK, HeldBy
<1>3. CASE th[p].ending
  <2>1. th[p].list # <<>> /\ th[p].id = Head(th[p].list) /\ th[p].trans
    BY <1>3, ThreadFacts DEF ThreadOK, ThreadState
  <2>2. Head(th[p].list) \in ToSet(th[p].list)
    BY <2>1, ThreadFacts, TailOld DEF ThreadOK
  <2>. QED BY <1>1, <1>3, <2>1, <2>2 DEF HeldBy
<1>. QED BY <1>2, <1>3, <1>1 DEF ThreadState

\* The sender goes on with the same trackers
LEMMA MovesOn ==
    ASSUME IInv, NEW p \in Port, th[p].pc \in Holding, NEW t \in ThreadState,
           t.pc \in Holding, t.pc = "reap" => t.trans,
           t.pc \in {"claim", "length", "send", "reap"} => ~t.ending,
           t.id = th[p].id, t.list = th[p].list, t.trans = th[p].trans,
           t.ending = th[p].ending
    PROVE  ThreadOK(p, t) /\ HeldBy(t) = HeldBy(th[p])
<1>1. ThreadOK(p, th[p])
  BY ThreadFacts
<1>2. t.pc # "get" /\ t.pc # "idle" /\ th[p].pc # "idle"
  BY Holds
<1>3. ThreadOK(p, t)
  BY <1>1, <1>2 DEF ThreadOK
<1>. QED BY <1>3 DEF HeldBy

LEMMA GetTimesOutStep ==
    ASSUME IInv, NEW p \in Port, GetTimesOut(p) PROVE IInv'
<1>1. th[p].pc = "get" /\ th[p].id = NoId /\ ~th[p].ending
  BY ThreadFacts, Holds DEF GetTimesOut, At, ThreadOK
<1>2. HeldBy(th[p]) = ToSet(th[p].list)
  BY <1>1 DEF HeldBy
<1>3. ThreadOK(p, Sent(th[p], "TIMEOUT")) /\ HeldBy(Sent(th[p], "TIMEOUT")) = ToSet(th[p].list)
  <2>1. "TIMEOUT" \in Code
    BY DEF Code
  <2>. QED BY <2>1, <1>1, SentOK, ThreadFacts DEF ThreadOK, ThreadState
<1>4. TypesOK'
  BY SenderTypes, ThreadFacts DEF GetTimesOut, trackers, hub, bounds
<1>5. state' = state /\ th' = [th EXCEPT ![p] = Sent(th[p], "TIMEOUT")]
  BY DEF GetTimesOut, trackers
<1>. QED BY <1>2, <1>3, <1>4, <1>5, SenderKeeps

LEMMA ClaimStep ==
    ASSUME IInv, NEW p \in Port, ClaimSpace(p) \/ SetLength(p) PROVE IInv'
<1>1. PICK pc \in {"length", "send"} : th' = [th EXCEPT ![p].pc = pc]
  BY DEF ClaimSpace, SetLength, Goto
<1> DEFINE t == [th[p] EXCEPT !.pc = pc]
<1>2. th[p].pc \in {"claim", "length"} /\ th[p].pc \in Holding /\ ~th[p].ending
  BY ThreadFacts, Holds DEF ClaimSpace, SetLength, At, ThreadOK
<1>3. /\ t \in ThreadState /\ t.pc = pc /\ t.id = th[p].id /\ t.list = th[p].list
      /\ t.trans = th[p].trans /\ t.ending = th[p].ending
  BY <1>1, ThreadFacts, Holds DEF ThreadState
<1>4. th' = [th EXCEPT ![p] = t]
  BY <1>1, ThreadFacts
<1>. HIDE DEF t
<1>5. ThreadOK(p, t) /\ HeldBy(t) = HeldBy(th[p])
  BY <1>1, <1>2, <1>3, MovesOn, Holds
<1>6. TypesOK'
  <2>1. CASE ClaimSpace(p)
    BY <2>1, SenderTypes, ThreadFacts DEF ClaimSpace, trackers, hub, bounds
  <2>2. CASE SetLength(p)
    <3>1. th[p].size \in Nat /\ th[p].id \in Id
      BY <1>2, ThreadFacts, HoldingFacts DEF ThreadState
    <3>2. len' \in [Id -> Nat]
      BY <2>2, <3>1 DEF SetLength, IInv, TypesOK
    <3>. QED BY <2>2, <3>2 DEF SetLength, hub, bounds, IInv, TypesOK, ReportsOK
  <2>. QED BY <2>1, <2>2
<1>7. state' = state
  BY DEF ClaimSpace, SetLength, trackers
<1>. QED BY <1>4, <1>5, <1>6, <1>7, SenderKeeps

LEMMA ClaimTimesOutStep ==
    ASSUME IInv, NEW p \in Port, ClaimTimesOut(p) PROVE IInv'
<1> DEFINE i == th[p].id
           t == Sent(th[p], "TIMEOUT")
<1>1. th[p].pc \in Holding /\ ~th[p].ending
  BY ThreadFacts, Holds DEF ClaimTimesOut, At, ThreadOK
<1>2. /\ i \in IdsOf(p) /\ i \notin ToSet(th[p].list)
      /\ HeldBy(th[p]) = ToSet(th[p].list) \cup {i}
  BY <1>1, HoldingFacts
<1>3. ThreadOK(p, t) /\ HeldBy(t) = HeldBy(th[p]) \ {i}
  <2>1. "TIMEOUT" \in Code
    BY DEF Code
  <2>. QED BY <2>1, <1>1, <1>2, SentOK, ThreadFacts DEF ThreadOK, ThreadState
<1>4. state' = [state EXCEPT ![i] = {}] /\ th' = [th EXCEPT ![p] = t]
  BY DEF ClaimTimesOut
<1>5. TypesOK'
  <2>1. state' \in [Id -> SUBSET Flag]
    BY <1>4, ThreadFacts
  <2>. QED BY <2>1, SenderTypes DEF ClaimTimesOut, hub, bounds
<1>6. Accounted({}, FALSE)
  BY DEF Accounted
<1>. HIDE DEF i, t
<1>. QED BY <1>2, <1>3, <1>4, <1>5, <1>6, SenderReleases

LEMMA SendStep ==
    ASSUME IInv, NEW p \in Port, Send(p) PROVE IInv'
<1> DEFINE i == th[p].id
           pc == IF th[p].trans THEN "reap" ELSE "wait"
           t == [th[p] EXCEPT !.pc = pc]
<1>1. th[p].pc \in Holding /\ ~th[p].ending
  BY ThreadFacts, Holds DEF Send, At, ThreadOK
<1>2. i \in IdsOf(p) /\ i \in Id /\ i \in HeldBy(th[p])
  BY <1>1, HoldingFacts
<1>3. /\ pc \in Holding /\ (pc = "reap" => th[p].trans)
  BY Holds
<1>4. th' = [th EXCEPT ![p] = t]
  BY ThreadFacts DEF Send, Goto
<1>5. /\ t \in ThreadState /\ t.pc = pc /\ t.id = th[p].id /\ t.list = th[p].list
      /\ t.trans = th[p].trans /\ t.ending = th[p].ending
  BY <1>3, ThreadFacts DEF ThreadState
<1>. HIDE DEF t, pc
<1>6. ThreadOK(p, t) /\ HeldBy(t) = HeldBy(th[p])
  BY <1>1, <1>3, <1>5, MovesOn
<1>7. /\ state' = [state EXCEPT ![i] = @ \cup {"SENT"}]
      /\ state' \in [Id -> SUBSET Flag]
  BY <1>2, ThreadFacts DEF Send, Flag
<1>8. TypesOK'
  <2>1. fw' \in [Port -> Seq(Packet)] /\ ReportsOK(pipe')
    <3>1. CASE Used(p) + th[p].size < BufferLen
      <4> DEFINE pkt == [id |-> i, len |-> th[p].size, request |-> left[p]]
      <4>1. pkt \in Packet
        BY <1>2, ThreadFacts DEF Packet, IInv, TypesOK, ThreadState
      <4>2. fw \in [Port -> Seq(Packet)] /\ ReportsOK(pipe)
        BY DEF IInv, TypesOK
      <4>3. fw' = [fw EXCEPT ![p] = Append(@, pkt)] /\ pipe' = pipe
        BY <3>1 DEF Send
      <4>. HIDE DEF pkt
      <4>4. Append(fw[p], pkt) \in Seq(Packet)
        BY <4>1, <4>2, AppendProperties
      <4>. QED BY <4>2, <4>3, <4>4
    <3>2. CASE ~(Used(p) + th[p].size < BufferLen)
      <4> DEFINE r == [kind |-> "return", id |-> i, code |-> "NOSPC"]
      <4>1. r.id \in Id /\ r.code \in Code
        BY <1>2 DEF Code
      <4>2. fw \in [Port -> Seq(Packet)] /\ ReportsOK(pipe)
        BY DEF IInv, TypesOK
      <4>3. fw' = fw /\ pipe' = Append(pipe, r)
        BY <3>2 DEF Send
      <4>. HIDE DEF r
      <4>. QED BY <4>1, <4>2, <4>3, ReportAdded
    <3>. QED BY <3>1, <3>2
  <2>. QED BY <1>7, <2>1 DEF Send, bounds, IInv, TypesOK
<1>9. ASSUME NEW k \in IdsOf(p) PROVE Accounted(state'[k], k \in HeldBy(t))
  <2>1. Accounted(state[k], k \in HeldBy(th[p])) /\ k \in Id
    BY ThreadFacts
  <2>2. CASE k = i
    BY <2>1, <2>2, <1>2, <1>6, <1>7, ThreadFacts DEF Accounted
  <2>3. CASE k # i
    BY <2>1, <2>3, <1>6, <1>7, ThreadFacts
  <2>. QED BY <2>2, <2>3
<1>10. \A k \in Id \ IdsOf(p) : state'[k] = state[k]
  BY <1>2, <1>7, ThreadFacts
<1>. QED BY <1>4, <1>6, <1>8, <1>9, <1>10, SenderStep

\* A packet that is not sent, or a wait that is over
LEMMA WaitStep ==
    ASSUME IInv, NEW p \in Port,
           SendFails(p) \/ SendInterrupted(p) \/ WaitAnswered(p) \/ WaitTimesOut(p)
    PROVE  IInv'
<1>1. th[p].pc \in {"send", "wait"} /\ th[p].pc \in Holding
  BY Holds DEF SendFails, SendInterrupted, WaitAnswered, WaitTimesOut, At
<1>2. PICK res \in Code, error \in Code :
        th' = [th EXCEPT ![p].pc = "release", ![p].res = res, ![p].error = error]
  <2>1. /\ th \in [Port -> ThreadState] /\ th[p].res \in Code /\ th[p].error \in Code
    BY ThreadFacts DEF ThreadState
  <2>2. CASE SendFails(p) \/ SendInterrupted(p)
    <3>1. PICK res \in Code : th' = [th EXCEPT ![p].pc = "release", ![p].res = res]
      BY <2>2 DEF SendFails, SendInterrupted, Code
    <3>2. th' = [th EXCEPT ![p].pc = "release", ![p].res = res, ![p].error = th[p].error]
      BY <3>1, <2>1 DEF ThreadState
    <3>. QED BY <3>2, <2>1
  <2>3. CASE WaitAnswered(p) \/ WaitTimesOut(p)
    <3>1. PICK res \in Code : Waited(p, res)
      BY <2>3, <1>1, HoldingFacts, ThreadFacts DEF WaitAnswered, WaitTimesOut, Code
    <3>2. FirstError(th[p].error, res) \in Code
      BY <2>1 DEF FirstError
    <3> DEFINE r == IF th[p].ending THEN th[p].res ELSE res
               e == IF th[p].ending THEN FirstError(th[p].error, res) ELSE th[p].error
    <3>3. r \in Code /\ e \in Code
      BY <2>1, <3>2
    <3>4. th' = [th EXCEPT ![p].pc = "release", ![p].res = r, ![p].error = e]
      BY <3>1, <2>1 DEF Waited
    <3>. HIDE DEF r, e
    <3>. QED BY <3>3, <3>4
  <2>. QED BY <2>2, <2>3
<1> DEFINE t == [th[p] EXCEPT !.pc = "release", !.res = res, !.error = error]
<1>3. th' = [th EXCEPT ![p] = t]
  BY <1>2, ThreadFacts
<1>4. /\ t \in ThreadState /\ t.pc = "release" /\ t.id = th[p].id /\ t.list = th[p].list
      /\ t.trans = th[p].trans /\ t.ending = th[p].ending
  BY <1>2, ThreadFacts, Holds DEF ThreadState
<1>. HIDE DEF t
<1>5. ThreadOK(p, t) /\ HeldBy(t) = HeldBy(th[p])
  BY <1>1, <1>4, MovesOn, Holds
<1>6. state' = state
  BY DEF SendFails, SendInterrupted, WaitAnswered, WaitTimesOut, trackers
<1>7. TypesOK'
  BY <1>6, SenderTypes, ThreadFacts
     DEF SendFails, SendInterrupted, WaitAnswered, WaitTimesOut, trackers, hub, bounds
<1>. QED BY <1>3, <1>5, <1>6, <1>7, SenderKeeps

\* A transaction keeps the tracker of the packet it has sent, and releases the
\* first one that is done
LEMMA ReapStep ==
    ASSUME IInv, NEW p \in Port, Reap(p) PROVE IInv'
<1> DEFINE t == th[p]
           i == th[p].id
           s == th[p].list
<1>1. t.pc = "reap" /\ t.pc \in Holding /\ ~t.ending /\ t.trans
  BY ThreadFacts, Holds DEF Reap, At, ThreadOK
<1>2. /\ i \in IdsOf(p) /\ i \in Id /\ i \notin ToSet(s)
      /\ HeldBy(t) = ToSet(s) \cup {i}
  BY <1>1, HoldingFacts
<1>3. t \in ThreadState /\ s \in Seq(Id) /\ IsInjective(s) /\ ToSet(s) \subseteq IdsOf(p)
  BY ThreadFacts DEF ThreadOK
<1>4. "OK" \in Code
  BY DEF Code
<1>5. CASE Done(p) = {}
  <2> DEFINE u == [t EXCEPT !.list = Append(@, t.id)]
  <2>1. /\ Append(s, i) \in Seq(Id) /\ IsInjective(Append(s, i))
        /\ ToSet(Append(s, i)) = ToSet(s) \cup {i}
    BY <1>2, <1>3, AppendNew
  <2>2. u \in ThreadState /\ u.list = Append(s, i) /\ ~u.ending /\ u.trans
    BY <2>1, <1>1, <1>3 DEF ThreadState
  <2>3. th' = [th EXCEPT ![p] = Sent(u, "OK")] /\ state' = state
    BY <1>5 DEF Reap
  <2>. HIDE DEF u
  <2>4. ThreadOK(p, Sent(u, "OK")) /\ HeldBy(Sent(u, "OK")) = HeldBy(t)
    BY <2>1, <2>2, <1>2, <1>3, <1>4, SentOK
  <2>5. TypesOK'
    BY <2>3, SenderTypes, ThreadFacts DEF Reap, hub, bounds
  <2>. QED BY <2>3, <2>4, <2>5, SenderKeeps
<1>6. ASSUME NEW k \in Done(p),
             th' = [th EXCEPT ![p] =
                        Sent([t EXCEPT !.list = Append(RemoveAt(@, k), t.id),
                                       !.error = FirstError(@, code[t.list[k]])], "OK")],
             state' = [state EXCEPT ![t.list[k]] = {}]
      PROVE  IInv'
  <2> DEFINE j == s[k]
             l == Append(RemoveAt(s, k), i)
             e == FirstError(t.error, code[j])
             u == [t EXCEPT !.list = l, !.error = e]
  <2>1. k \in 1..Len(s) /\ j \in ToSet(s) /\ j \in IdsOf(p) /\ j \in Id
    BY <1>3, ThreadFacts, ToSetMembers DEF Done, ToSet
  <2>2. /\ RemoveAt(s, k) \in Seq(Id) /\ IsInjective(RemoveAt(s, k))
        /\ ToSet(RemoveAt(s, k)) = ToSet(s) \ {j}
    BY <2>1, <1>3, RemoveAtOld
  <2>3. /\ l \in Seq(Id) /\ IsInjective(l)
        /\ ToSet(l) = (ToSet(s) \ {j}) \cup {i}
    BY <2>2, <1>2, AppendNew
  <2>4. e \in Code
    BY <2>1, <1>3, ThreadFacts DEF FirstError, ThreadState
  <2>5. th' = [th EXCEPT ![p] = Sent(u, "OK")] /\ state' = [state EXCEPT ![j] = {}]
    BY <1>6
  <2>. HIDE DEF j, l, e
  <2>6. u \in ThreadState /\ u.list = l /\ ~u.ending /\ u.trans
    BY <2>3, <2>4, <1>1, <1>3 DEF ThreadState
  <2>. HIDE DEF u
  <2>7. ToSet(l) \subseteq IdsOf(p) /\ ToSet(l) = HeldBy(t) \ {j}
    BY <2>1, <2>3, <1>2, <1>3
  <2>8. ThreadOK(p, Sent(u, "OK")) /\ HeldBy(Sent(u, "OK")) = HeldBy(t) \ {j}
    BY <2>3, <2>6, <2>7, <1>4, SentOK
  <2>9. TypesOK'
    <3>1. state' \in [Id -> SUBSET Flag]
      BY <2>5, ThreadFacts
    <3>. QED BY <3>1, SenderTypes DEF Reap, hub, bounds
  <2>10. Accounted({}, FALSE)
    BY DEF Accounted
  <2>. QED BY <2>1, <2>5, <2>8, <2>9, <2>10, SenderReleases
<1>. QED BY <1>5, <1>6 DEF Reap

\* A tracker is released, free or abandoned
LEMMA ReleaseStep ==
    ASSUME IInv, NEW p \in Port, Release(p) PROVE IInv'
<1> DEFINE t == th[p]
           i == th[p].id
           u == IF t.ending THEN Ends([t EXCEPT !.list = Tail(@)]) ELSE Sent(t, t.res)
<1>1. t.pc \in Holding /\ t \in ThreadState /\ t.list \in Seq(Id)
      /\ IsInjective(t.list) /\ ToSet(t.list) \subseteq IdsOf(p)
      /\ (t.trans \/ t.list = <<>>)
  BY ThreadFacts, Holds DEF Release, At, ThreadOK, ThreadState
<1>2. i \in IdsOf(p) /\ i \in Id
  BY <1>1, HoldingFacts
<1>3. /\ th' = [th EXCEPT ![p] = u]
      /\ state' = [state EXCEPT ![i] = Released(i)]
  BY DEF Release
<1>4. ThreadOK(p, u) /\ HeldBy(u) = HeldBy(t) \ {i}
  <2>1. CASE t.ending
    <3> DEFINE v == [t EXCEPT !.list = Tail(@)]
    <3>1. /\ t.list # <<>> /\ i = Head(t.list) /\ t.trans
          /\ HeldBy(t) = ToSet(t.list)
      BY <1>1, <2>1, HoldingFacts
    <3>2. /\ Tail(t.list) \in Seq(Id) /\ IsInjective(Tail(t.list))
          /\ ToSet(Tail(t.list)) = ToSet(t.list) \ {i}
      BY <1>1, <3>1, TailOld
    <3>3. v \in ThreadState /\ v.list = Tail(t.list) /\ v.trans
      BY <1>1, <3>1, <3>2 DEF ThreadState
    <3>4. u = Ends(v)
      BY <2>1
    <3>. HIDE DEF v, u
    <3>. QED BY <1>1, <3>1, <3>2, <3>3, <3>4, EndsOK
  <2>2. CASE ~t.ending
    <3>1. u = Sent(t, t.res) /\ t.res \in Code
      BY <1>1, <2>2 DEF ThreadState
    <3>2. i \notin ToSet(t.list) /\ HeldBy(t) = ToSet(t.list) \cup {i}
      BY <1>1, <2>2, HoldingFacts
    <3>. HIDE DEF u
    <3>. QED BY <1>1, <2>2, <3>1, <3>2, SentOK
  <2>. QED BY <2>1, <2>2
<1>5. i \in HeldBy(t) /\ Accounted(state[i], TRUE)
  <2>1. i \in HeldBy(t)
    BY <1>2, NoIdIsNone DEF HeldBy
  <2>2. Accounted(state[i], i \in HeldBy(t))
    BY <1>2, ThreadFacts
  <2>. QED BY <2>1, <2>2 DEF Accounted
<1>6. Released(i) \subseteq Flag /\ Accounted(Released(i), FALSE)
  <2>1. state[i] \subseteq Flag
    BY <1>2, ThreadFacts
  <2>. QED BY <2>1, <1>5 DEF Released, Accounted, Flag
<1>7. TypesOK'
  <2>1. state' \in [Id -> SUBSET Flag]
    BY <1>3, <1>6, ThreadFacts
  <2>. QED BY <2>1, SenderTypes DEF Release, hub, bounds
<1>. HIDE DEF u, i
<1>. QED BY <1>2, <1>3, <1>4, <1>6, <1>7, SenderReleases

LEMMA SenderSteps ==
    ASSUME IInv, NEW p \in Port, Request(p) \/ Sender(p) \/ TimesOut(p) \/ SendFails(p)
    PROVE  IInv'
BY RequestStep, GetTrackerStep, GetTimesOutStep, ClaimStep, ClaimTimesOutStep, SendStep,
   WaitStep, ReapStep, ReleaseStep
   DEF Sender, TimesOut

\* The steps of the reader and the hub that leave the trackers alone
LEMMA ReportStep ==
    ASSUME IInv,
           ReadReturn \/ ReadStatus \/ ReadData \/ Status \/ Data \/ Lose
    PROVE  IInv'
<1>1. /\ ReportsOK(pipe) /\ len \in [Id -> Nat] /\ gap \in BOOLEAN
      /\ rd \in [pc : {"idle", "code", "space", "unknown", "ask", "asklost", "kill"},
                 id : Id \cup {NoId}, code : Code, len : Nat, gap : BOOLEAN]
  BY DEF IInv, TypesOK
<1>2. /\ th' = th /\ state' = state /\ code' = code /\ len' = len /\ counter' = counter
      /\ left' = left /\ fw' = fw
  BY DEF ReadReturn, ReadStatus, ReadData, Status, Data, Lose, trackers, bounds
<1>3. gap' \in BOOLEAN
  BY <1>1 DEF ReadReturn, ReadStatus, ReadData, Status, Data, Lose
<1>4. Reads \in [pc : {"idle", "code", "space", "unknown", "ask", "asklost", "kill"},
                 id : Id \cup {NoId}, code : Code, len : Nat, gap : BOOLEAN]
      /\ Reads.pc = "idle"
  BY DEF Reads, Code
<1>5. /\ rd' \in [pc : {"idle", "code", "space", "unknown", "ask", "asklost", "kill"},
                  id : Id \cup {NoId}, code : Code, len : Nat, gap : BOOLEAN]
      /\ rd'.pc = "code" => rd'.id \in Id
  <2>1. CASE ReadReturn
    <3>1. Head(pipe).id \in Id /\ Head(pipe).code \in Code
      BY <2>1, <1>1, ReportRead DEF ReadReturn
    <3>2. rd' = [pc |-> "code", id |-> Head(pipe).id, code |-> Head(pipe).code,
                 len |-> len[Head(pipe).id], gap |-> gap]
      BY <2>1 DEF ReadReturn
    <3>3. len[Head(pipe).id] \in Nat
      BY <3>1, <1>1
    <3>. QED BY <3>1, <3>2, <3>3, <1>1
  <2>2. CASE ReadStatus \/ ReadData
    <3> DEFINE r == [rd EXCEPT !.gap = gap]
    <3>1. r \in [pc : {"idle", "code", "space", "unknown", "ask", "asklost", "kill"},
                 id : Id \cup {NoId}, code : Code, len : Nat, gap : BOOLEAN]
      BY <1>1
    <3>2. rd' = Checked(r)
      BY <2>2 DEF ReadStatus, ReadData
    <3>. HIDE DEF r
    <3>. QED BY <3>1, <3>2, <1>4 DEF Checked
  <2>3. CASE Status \/ Data \/ Lose
    BY <2>3, <1>1 DEF Status, Data, Lose, IInv, TypesOK
  <2>. QED BY <2>1, <2>2, <2>3
<1>6. ReportsOK(pipe')
  <2>1. CASE ReadReturn \/ ReadStatus \/ ReadData
    BY <2>1, <1>1, ReportRead DEF ReadReturn, ReadStatus, ReadData
  <2>2. CASE Status
    <3> DEFINE r == [kind |-> "status", used |-> [p \in Port |-> Used(p)]]
    <3>1. pipe' = Append(pipe, r) /\ r.kind # "return"
      BY <2>2 DEF Status
    <3>. HIDE DEF r
    <3>. QED BY <3>1, <1>1, ReportAdded
  <2>3. CASE Data
    <3> DEFINE r == [kind |-> "data"]
    <3>1. pipe = <<>> /\ pipe' = <<r>> /\ r.kind # "return"
      BY <2>3 DEF Data
    <3>. HIDE DEF r
    <3>2. <<r>> \in Seq({r}) /\ Len(<<r>>) = 1 /\ <<r>>[1] = r
      OBVIOUS
    <3>3. \A k \in 1..Len(<<r>>) : <<r>>[k].kind # "return"
      BY <3>1, <3>2
    <3>. QED BY <3>1, <3>2, <3>3 DEF ReportsOK
  <2>4. CASE Lose
    BY <2>4, <1>1, ReportRead DEF Lose
  <2>. QED BY <2>1, <2>2, <2>3, <2>4
<1>7. TypesOK'
  BY <1>2, <1>3, <1>5, <1>6 DEF IInv, TypesOK
<1>. QED BY <1>2, <1>7, OtherStep

LEMMA AnswerStep ==
    ASSUME IInv, NEW p \in Port, Answer(p) PROVE IInv'
<1>1. fw \in [Port -> Seq(Packet)] /\ ReportsOK(pipe) /\ fw[p] # <<>>
  BY DEF Answer, IInv, TypesOK
<1>2. Head(fw[p]) \in Packet /\ Tail(fw[p]) \in Seq(Packet)
  <2>1. fw[p] \in Seq(Packet) /\ fw[p] # <<>>
    BY <1>1
  <2>. QED BY <2>1, HeadTailProperties
<1>3. PICK c \in {"OK", "UNEXPECTED"} :
        pipe' = Append(pipe, [kind |-> "return", id |-> Head(fw[p]).id, code |-> c])
  BY DEF Answer
<1>4. ReportsOK(pipe')
  <2> DEFINE r == [kind |-> "return", id |-> Head(fw[p]).id, code |-> c]
  <2>1. r.id \in Id /\ r.code \in Code
    BY <1>2 DEF Packet, Code
  <2>2. pipe' = Append(pipe, r)
    BY <1>3
  <2>. HIDE DEF r
  <2>. QED BY <2>1, <2>2, <1>1, ReportAdded
<1>5. fw' \in [Port -> Seq(Packet)]
  BY <1>1, <1>2 DEF Answer
<1>6. TypesOK'
  BY <1>4, <1>5 DEF Answer, trackers, bounds, IInv, TypesOK
<1>. QED BY <1>6, OtherStep DEF Answer, trackers

\* The steps of the reader after it has read a report
LEMMA ReaderStep ==
    ASSUME IInv,
           ReturnUnexpected \/ ReleaseSpace \/ CountsUnknown \/ AskStatus \/ AskFails
    PROVE  IInv'
<1> DEFINE Rd == [pc : {"idle", "code", "space", "unknown", "ask", "asklost", "kill"},
                  id : Id \cup {NoId}, code : Code, len : Nat, gap : BOOLEAN]
<1>1. rd \in Rd /\ Reads \in Rd /\ Reads.pc = "idle"
  BY DEF IInv, TypesOK, Reads, Code
<1>2. \A pc \in {"unknown", "ask", "asklost", "kill"} :
        [rd EXCEPT !.pc = pc] \in Rd /\ [rd EXCEPT !.pc = pc].pc = pc
  BY <1>1
<1>. HIDE DEF Rd
<1>3. rd' \in Rd /\ rd'.pc # "code"
  BY <1>1, <1>2
     DEF ReturnUnexpected, ReleaseSpace, CountsUnknown, AskStatus, AskFails, Asked, Checked
<1>4. TypesOK'
  BY <1>3 DEF ReturnUnexpected, ReleaseSpace, CountsUnknown, AskStatus, AskFails,
              trackers, hub, bounds, Rd, IInv, TypesOK, ReportsOK
<1>. QED BY <1>4, OtherStep
         DEF ReturnUnexpected, ReleaseSpace, CountsUnknown, AskStatus, AskFails, trackers

LEMMA SetReturnCodeStep ==
    ASSUME IInv, SetReturnCode PROVE IInv'
<1> DEFINE i == rd.id
           flags == IF Is(i, "ABANDONED") THEN {} ELSE state[i] \cup {"SIGNALLED"}
<1>1. /\ i \in Id /\ "INUSE" \in state[i]
      /\ state \in [Id -> SUBSET Flag] /\ code \in [Id -> Code] /\ rd.code \in Code
  BY DEF SetReturnCode, IInv, TypesOK, Is
<1>2. state' = [state EXCEPT ![i] = flags]
  BY <1>1 DEF SetReturnCode, Answered
<1>3. flags \subseteq Flag
  BY <1>1 DEF Flag
<1>4. ASSUME NEW held \in BOOLEAN, Accounted(state[i], held)
      PROVE  Accounted(flags, held)
  BY <1>1, <1>4 DEF Accounted, Is
<1>. HIDE DEF flags
<1>5. state' \in [Id -> SUBSET Flag] /\ code' \in [Id -> Code]
  BY <1>1, <1>2, <1>3 DEF SetReturnCode
<1>6. TypesOK'
  BY <1>5 DEF SetReturnCode, hub, bounds, IInv, TypesOK, ReportsOK
<1>7. \A j \in Id, held \in BOOLEAN :
        Accounted(state[j], held) => Accounted(state'[j], held)
  BY <1>1, <1>2, <1>4
<1>. QED BY <1>6, <1>7, OtherStep DEF SetReturnCode

LEMMA KillStep ==
    ASSUME IInv, KillOutstanding PROVE IInv'
<1>1. state \in [Id -> SUBSET Flag] /\ code \in [Id -> Code]
  BY DEF IInv, TypesOK
<1>2. state' = [i \in Id |-> IF Outstanding(i) THEN Killed(i) ELSE state[i]]
  BY DEF KillOutstanding
<1>3. \A i \in Id : Killed(i) \subseteq Flag
  BY <1>1 DEF Killed, Flag
<1>4. state' \in [Id -> SUBSET Flag]
  BY <1>1, <1>2, <1>3
<1>5. code' \in [Id -> Code]
  BY <1>1 DEF KillOutstanding, Code
<1>6. rd' = Reads /\ Reads.pc = "idle"
      /\ Reads \in [pc : {"idle", "code", "space", "unknown", "ask", "asklost", "kill"},
                    id : Id \cup {NoId}, code : Code, len : Nat, gap : BOOLEAN]
  BY DEF KillOutstanding, Reads, Code
<1>7. TypesOK'
  BY <1>4, <1>5, <1>6 DEF KillOutstanding, hub, bounds, IInv, TypesOK, ReportsOK
<1>8. ASSUME NEW i \in Id, NEW held \in BOOLEAN, Accounted(state[i], held)
      PROVE  Accounted(state'[i], held)
  <2>1. CASE Outstanding(i)
    BY <2>1, <1>2, <1>8 DEF Outstanding, Killed, Accounted, Is
  <2>2. CASE ~Outstanding(i)
    BY <2>2, <1>2, <1>8
  <2>. QED BY <2>1, <2>2
<1>. QED BY <1>7, <1>8, OtherStep DEF KillOutstanding

-----------------------------------------------------------------------------
(* The theorem                                                                *)

LEMMA InitOK == Init => IInv
<1>. SUFFICES ASSUME Init PROVE IInv
  OBVIOUS
<1>1. \A p \in Port : 0 \in 0..PerPort - 1
  BY HubAssumption
<1>2. TypesOK
  <2>1. ReportsOK(<<>>)
    <3>1. <<>> \in Seq({}) /\ Len(<<>>) = 0
      OBVIOUS
    <3>. QED BY <3>1 DEF ReportsOK
  <2>2. <<>> \in Seq(Packet) /\ MaxRequests \in Nat
    BY HubAssumption
  <2>3. Reads.pc = "idle"
        /\ Reads \in [pc : {"idle", "code", "space", "unknown", "ask", "asklost", "kill"},
                      id : Id \cup {NoId}, code : Code, len : Nat, gap : BOOLEAN]
    BY DEF Reads, Code
  <2>. QED BY <1>1, <2>1, <2>2, <2>3 DEF Init, TypesOK, Flag, Code
<1>3. \A p \in Port : ThreadOK(p, th[p]) /\ th[p] \in ThreadState /\ HeldBy(th[p]) = {}
  <2>1. "OK" \in Code
    BY DEF Code
  <2> DEFINE t == Idle("OK")
  <2>2. /\ t \in ThreadState /\ t.pc = "idle" /\ t.id = NoId /\ t.list = <<>>
        /\ ~t.ending /\ ~t.trans
    BY <2>1, IdleOK
  <2>3. \A p \in Port : th[p] = t
    BY DEF Init
  <2>. HIDE DEF t
  <2>. QED BY <2>2, <2>3, EmptyList, Holds DEF ThreadOK, HeldBy
<1>4. ThreadsOK
  <2>1. th = [p \in Port |-> th[p]]
    BY DEF Init
  <2>. QED BY <2>1, <1>3 DEF ThreadsOK
<1>5. \A p \in Port : \A i \in IdsOf(p) : Accounted(state[i], i \in HeldBy(th[p]))
  BY <1>3, PortBounds DEF Init, Accounted
<1>. QED BY <1>2, <1>4, <1>5 DEF IInv

LEMMA NextOK == IInv /\ [Next]_vars => IInv'
<1>. SUFFICES ASSUME IInv, [Next]_vars PROVE IInv'
  OBVIOUS
<1>1. ASSUME NEW p \in Port,
             Request(p) \/ Sender(p) \/ TimesOut(p) \/ SendFails(p) \/ Answer(p)
      PROVE  IInv'
  BY <1>1, SenderSteps, AnswerStep
<1>2. CASE Reader \/ AskFails
  BY <1>2, ReportStep, ReaderStep, SetReturnCodeStep, KillStep DEF Reader
<1>3. CASE Status \/ Data \/ Lose
  BY <1>3, ReportStep
<1>4. CASE UNCHANGED vars
  BY <1>4 DEF vars, trackers, hub, bounds, IInv, TypesOK, ThreadsOK, ReportsOK
<1>. QED BY <1>1, <1>2, <1>3, <1>4 DEF Next

\* No tracker is lost and none is given away twice, whatever reports are lost,
\* sends fail and waits time out: those in use are the ones the port's sender
\* holds and those abandoned, and a free one carries no flag (packettracker.c).
THEOREM Accountancy == Spec => []TrackersAccounted
<1>1. Init => IInv
  BY InitOK
<1>2. IInv /\ [Next]_vars => IInv'
  BY NextOK
<1>3. IInv => TrackersAccounted
  BY IInvAccounted
<1>. QED BY <1>1, <1>2, <1>3, PTL DEF Spec

-----------------------------------------------------------------------------
(* The proof that, as long as no report of a hub is lost, an answer meets the  *)
(* packet it is for, whatever the number of ports, trackers and packets, and   *)
(* whatever sends fail and waits time out.                                     *)

-----------------------------------------------------------------------------
(* The ids in a sequence of packets, and in one of reports                    *)

Ids(s) == {s[k].id : k \in DOMAIN s}
Once(s) == \A j, k \in DOMAIN s : s[j].id = s[k].id => j = k

Ans(s) == {k \in DOMAIN s : s[k].kind = "return"}
AnsIds(s) == {s[k].id : k \in Ans(s)}
AnsOnce(s) == \A j, k \in Ans(s) : s[j].id = s[k].id => j = k

LEMMA AppendFacts ==
    ASSUME NEW S, NEW s \in Seq(S), NEW x \in S
    PROVE  /\ Len(s) \in Nat /\ DOMAIN s = 1..Len(s)
           /\ DOMAIN Append(s, x) = 1..Len(s) + 1
           /\ \A k \in 1..Len(s) : Append(s, x)[k] = s[k]
           /\ Append(s, x)[Len(s) + 1] = x
<1>1. /\ Append(s, x) \in Seq(S)
      /\ Len(Append(s, x)) = Len(s) + 1
      /\ \A k \in 1..Len(s) : Append(s, x)[k] = s[k]
      /\ Append(s, x)[Len(s) + 1] = x
  BY AppendProperties
<1>. QED BY <1>1, LenProperties

LEMMA TailFacts ==
    ASSUME NEW S, NEW s \in Seq(S), s # <<>>
    PROVE  /\ Len(s) \in Nat \ {0} /\ DOMAIN s = 1..Len(s)
           /\ DOMAIN Tail(s) = 1..Len(s) - 1
           /\ \A k \in 1..Len(s) - 1 : Tail(s)[k] = s[k + 1]
           /\ Head(s) = s[1]
<1>1. /\ Tail(s) \in Seq(S)
      /\ Len(Tail(s)) = Len(s) - 1
      /\ \A k \in 1..Len(Tail(s)) : Tail(s)[k] = s[k + 1]
      /\ Head(s) = s[1]
  BY HeadTailProperties
<1>. QED BY <1>1, LenProperties, EmptySeq

LEMMA IdsAppend ==
    ASSUME NEW S, NEW s \in Seq(S), NEW x \in S
    PROVE  /\ Ids(Append(s, x)) = Ids(s) \cup {x.id}
           /\ Once(s) /\ x.id \notin Ids(s) => Once(Append(s, x))
<1> DEFINE a == Append(s, x)
           n == Len(s)
<1>1. /\ n \in Nat /\ DOMAIN s = 1..n /\ DOMAIN a = 1..n + 1
      /\ \A k \in 1..n : a[k] = s[k]
      /\ a[n + 1] = x
  BY AppendFacts
<1>. HIDE DEF a, n
<1>2. \A k \in 1..n + 1 : k \in 1..n \/ k = n + 1
  BY <1>1
<1>3. Once(s) /\ x.id \notin Ids(s) => Once(a)
  BY <1>1, <1>2 DEF Once, Ids
<1>4. Ids(a) = Ids(s) \cup {x.id}
  BY <1>1, <1>2 DEF Ids
<1>. QED BY <1>3, <1>4 DEF a

LEMMA IdsTail ==
    ASSUME NEW S, NEW s \in Seq(S), s # <<>>
    PROVE  /\ Head(s).id \in Ids(s)
           /\ Ids(Tail(s)) \subseteq Ids(s)
           /\ Once(s) => Once(Tail(s)) /\ Ids(Tail(s)) = Ids(s) \ {Head(s).id}
<1> DEFINE t == Tail(s)
           n == Len(s)
<1>1. /\ n \in Nat \ {0} /\ DOMAIN s = 1..n /\ DOMAIN t = 1..n - 1
      /\ \A k \in 1..n - 1 : t[k] = s[k + 1]
      /\ Head(s) = s[1]
  BY TailFacts
<1>. HIDE DEF t, n
<1>2. \A k \in 1..n - 1 : k + 1 \in 1..n /\ k + 1 # 1
  BY <1>1
<1>3. \A k \in 1..n : k = 1 \/ (k - 1 \in 1..n - 1 /\ t[k - 1] = s[k])
  BY <1>1
<1>4. 1 \in 1..n
  BY <1>1
<1>5. Head(s).id \in Ids(s)
  BY <1>1, <1>4 DEF Ids
<1>6. Ids(t) = {t[k].id : k \in 1..n - 1} /\ Ids(s) = {s[k].id : k \in 1..n}
  BY <1>1 DEF Ids
<1>7. Ids(t) \subseteq Ids(s)
  BY <1>1, <1>2, <1>6
<1>8. ASSUME Once(s) PROVE Once(t) /\ Ids(t) = Ids(s) \ {Head(s).id}
  <2>1. \A j, k \in 1..n : s[j].id = s[k].id => j = k
    BY <1>1, <1>8 DEF Once
  <2>2. Once(t)
    <3>. SUFFICES ASSUME NEW j \in 1..n - 1, NEW k \in 1..n - 1, t[j].id = t[k].id
         PROVE  j = k
      BY <1>1 DEF Once
    <3>1. j + 1 = k + 1
      BY <1>1, <1>2, <2>1
    <3>. QED BY <3>1
  <2>3. \A k \in 1..n - 1 : t[k].id \in Ids(s) /\ t[k].id # s[1].id
    BY <1>1, <1>2, <1>4, <1>6, <2>1
  <2>4. \A k \in 1..n : s[k].id = s[1].id \/ s[k].id \in Ids(t)
    BY <1>1, <1>3, <1>6
  <2>5. Ids(t) = Ids(s) \ {s[1].id}
    BY <1>6, <2>3, <2>4
  <2>. QED BY <1>1, <2>2, <2>5
<1>. QED BY <1>5, <1>7, <1>8 DEF t

\* A report is added: one with an answer, or another
LEMMA AnsAppend ==
    ASSUME NEW S, NEW s \in Seq(S), NEW x, AnsOnce(s)
    PROVE  /\ x.kind = "return" /\ x.id \notin AnsIds(s) =>
                AnsOnce(Append(s, x)) /\ AnsIds(Append(s, x)) = AnsIds(s) \cup {x.id}
           /\ x.kind # "return" =>
                AnsOnce(Append(s, x)) /\ AnsIds(Append(s, x)) = AnsIds(s)
<1> DEFINE a == Append(s, x)
           n == Len(s)
<1>1. s \in Seq(S \cup {x}) /\ x \in S \cup {x}
  OBVIOUS
<1>2. /\ n \in Nat /\ DOMAIN s = 1..n /\ DOMAIN a = 1..n + 1
      /\ \A k \in 1..n : a[k] = s[k]
      /\ a[n + 1] = x
  BY <1>1, AppendFacts
<1>. HIDE DEF a, n
<1>3. CASE x.kind = "return"
  <2>1. Ans(a) = Ans(s) \cup {n + 1} /\ Ans(s) \subseteq 1..n
    BY <1>2, <1>3 DEF Ans
  <2>2. x.id \notin AnsIds(s) => AnsOnce(a)
    BY <1>2, <2>1 DEF AnsOnce, AnsIds
  <2>3. AnsIds(a) = AnsIds(s) \cup {x.id}
    BY <1>2, <2>1 DEF AnsIds
  <2>. QED BY <1>3, <2>2, <2>3 DEF a
<1>4. CASE x.kind # "return"
  <2>1. Ans(a) = Ans(s) /\ Ans(s) \subseteq 1..n
    BY <1>2, <1>4 DEF Ans
  <2>. QED BY <1>2, <1>4, <2>1 DEF AnsOnce, AnsIds, a
<1>. QED BY <1>3, <1>4

\* A report is read
LEMMA AnsTail ==
    ASSUME NEW S, NEW s \in Seq(S), s # <<>>, AnsOnce(s)
    PROVE  /\ AnsOnce(Tail(s))
           /\ Head(s).kind = "return" =>
                Head(s).id \in AnsIds(s) /\ AnsIds(Tail(s)) = AnsIds(s) \ {Head(s).id}
           /\ Head(s).kind # "return" => AnsIds(Tail(s)) = AnsIds(s)
<1> DEFINE t == Tail(s)
           n == Len(s)
<1>1. /\ n \in Nat \ {0} /\ DOMAIN s = 1..n /\ DOMAIN t = 1..n - 1
      /\ \A k \in 1..n - 1 : t[k] = s[k + 1]
      /\ Head(s) = s[1]
  BY TailFacts
<1>. HIDE DEF t, n
<1>2. \A k \in Ans(t) : k \in Int /\ k + 1 \in Ans(s) /\ k + 1 # 1 /\ t[k] = s[k + 1]
  BY <1>1 DEF Ans
<1>3. \A k \in Ans(s) : k = 1 \/ (k - 1 \in Ans(t) /\ t[k - 1] = s[k])
  BY <1>1 DEF Ans
<1>4. AnsOnce(t)
  <2>. SUFFICES ASSUME NEW j \in Ans(t), NEW k \in Ans(t), t[j].id = t[k].id
       PROVE  j = k
    BY DEF AnsOnce
  <2>1. j + 1 = k + 1
    BY <1>2 DEF AnsOnce
  <2>. QED BY <1>2, <2>1
<1>5. CASE Head(s).kind = "return"
  <2>1. 1 \in Ans(s)
    BY <1>1, <1>5 DEF Ans
  <2>2. \A k \in Ans(t) : t[k].id \in AnsIds(s) /\ t[k].id # s[1].id
    BY <1>2, <2>1 DEF AnsIds, AnsOnce
  <2>3. \A k \in Ans(s) : s[k].id = s[1].id \/ s[k].id \in AnsIds(t)
    BY <1>3 DEF AnsIds
  <2>4. s[1].id \in AnsIds(s)
    BY <2>1 DEF AnsIds
  <2>5. AnsIds(t) = AnsIds(s) \ {s[1].id}
    BY <2>2, <2>3 DEF AnsIds
  <2>. QED BY <1>1, <1>4, <1>5, <2>4, <2>5 DEF t
<1>6. CASE Head(s).kind # "return"
  <2>1. 1 \notin Ans(s)
    BY <1>1, <1>6 DEF Ans
  <2>2. \A k \in Ans(t) : t[k].id \in AnsIds(s)
    BY <1>2 DEF AnsIds
  <2>3. \A k \in Ans(s) : s[k].id \in AnsIds(t)
    BY <1>3, <2>1 DEF AnsIds
  <2>4. AnsIds(t) = AnsIds(s)
    BY <2>2, <2>3 DEF AnsIds
  <2>. QED BY <1>4, <1>6, <2>4 DEF t
<1>. QED BY <1>5, <1>6

-----------------------------------------------------------------------------
(* The inductive invariant                                                    *)

OnWay(i) ==
    \/ \E p \in Port : i \in Ids(fw[p])
    \/ i \in AnsIds(pipe) \cup ReaderIds

Waits(i) == {"INUSE", "SENT"} \subseteq state[i] /\ "SIGNALLED" \notin state[i]

Apart ==
    /\ \A p \in Port : Once(fw[p])
    /\ AnsOnce(pipe)
    /\ AnsIds(pipe) \cap ReaderIds = {}
    /\ \A p \in Port : Ids(fw[p]) \cap (AnsIds(pipe) \cup ReaderIds) = {}

\* The reader never sees a gap, so it never kills a packet
NoGap == ~gap /\ ~rd.gap /\ rd.pc \notin {"asklost", "kill"}

\* Until it is sent, a packet is not on its way: that would be another
Sending == {"claim", "length", "send"}
Unsent == \A p \in Port : th[p].pc \in Sending => "SENT" \notin state[th[p].id]

IdInv ==
    /\ lost \in Nat
    /\ \A p \in Port : Ids(fw[p]) \subseteq IdsOf(p)
    /\ lost = 0 => NoGap /\ Apart /\ Unsent /\ \A i \in Id : OnWay(i) => Waits(i)

\* What the invariants say of the types
LEMMA TypeFacts ==
    ASSUME IInv
    PROVE  /\ \A p \in Port : fw[p] \in Seq(Packet)
           /\ fw \in [Port -> Seq(Packet)]
           /\ \E S : pipe \in Seq(S)
           /\ AnsIds(pipe) \subseteq Id /\ ReaderIds \subseteq Id
           /\ state \in [Id -> SUBSET Flag]
           /\ rd \in [pc : {"idle", "code", "space", "unknown", "ask", "asklost", "kill"},
                      id : Id \cup {NoId}, code : Code, len : Nat, gap : BOOLEAN]
<1>1. TypesOK /\ ReportsOK(pipe)
  BY DEF IInv, TypesOK
<1>2. PICK S : pipe \in Seq(S)
  BY <1>1 DEF ReportsOK
<1>3. AnsIds(pipe) \subseteq Id
  BY <1>1, <1>2, LenProperties DEF AnsIds, Ans, ReportsOK
<1>4. ReaderIds \subseteq Id
  BY <1>1 DEF ReaderIds, TypesOK
<1>. QED BY <1>1, <1>2, <1>3, <1>4 DEF TypesOK

\* The invariant is stronger than the property
LEMMA IdInvImplies == IInv /\ IdInv => IdNotReused
<1>. SUFFICES ASSUME IInv, IdInv, lost = 0 PROVE IdNotReused
  BY DEF IdNotReused
<1>1. /\ Apart /\ \A i \in Id : OnWay(i) => Waits(i)
      /\ \A p \in Port : Ids(fw[p]) \subseteq IdsOf(p)
  BY DEF IdInv
<1>2. AnswerIds = AnsIds(pipe) /\ Answers = Ans(pipe)
  BY DEF AnswerIds, Answers, AnsIds, Ans
<1>3. \A p \in Port : PacketIds(p) = Ids(fw[p])
  BY DEF PacketIds, Ids
<1>4. ASSUME NEW p \in Port
      PROVE  IsInjective([k \in DOMAIN fw[p] |-> fw[p][k].id])
  BY <1>1 DEF Apart, Once, IsInjective
<1>5. IsInjective([k \in Answers |-> pipe[k].id])
  BY <1>1, <1>2 DEF Apart, AnsOnce, IsInjective
<1>6. ASSUME NEW p \in Port, NEW i \in OnTheWay(p)
      PROVE  {"INUSE", "SENT"} \subseteq state[i] /\ ~Is(i, "SIGNALLED")
  <2>1. OnWay(i) /\ i \in IdsOf(p)
    BY <1>1, <1>2, <1>3, <1>6 DEF OnTheWay, OnWay
  <2>. QED BY <2>1, <1>1, PortBounds DEF Waits, Is
<1>. QED BY <1>1, <1>2, <1>3, <1>4, <1>5, <1>6 DEF IdNotReused, Apart

\* A step of the sender of port p that moves no packet
LEMMA SenderIds ==
    ASSUME IInv, IdInv, NEW p \in Port, NEW t, th' = [th EXCEPT ![p] = t],
           UNCHANGED <<fw, pipe, rd, gap, lost>>,
           \A i \in Id \ IdsOf(p) : state'[i] = state[i],
           lost = 0 =>
                /\ \A i \in IdsOf(p) : OnWay(i) => Waits(i)'
                /\ t.pc \in Sending => "SENT" \notin state'[t.id]
    PROVE  IdInv'
<1>. SUFFICES ASSUME lost = 0
     PROVE  (NoGap /\ Apart /\ Unsent /\ \A i \in Id : OnWay(i) => Waits(i))'
  BY DEF IdInv
<1>1. NoGap' /\ Apart'
  BY DEF IdInv, NoGap, Apart, ReaderIds
<1>2. Unsent'
  <2>. SUFFICES ASSUME NEW q \in Port, th'[q].pc \in Sending
       PROVE  "SENT" \notin state'[th'[q].id]
    BY DEF Unsent
  <2>1. th \in [Port -> ThreadState]
    BY DEF IInv, ThreadsOK
  <2>2. CASE q = p
    BY <2>1, <2>2
  <2>3. CASE q # p
    <3>1. th'[q] = th[q]
      BY <2>1, <2>3
    <3>2. th[q].id \in IdsOf(q)
      BY <3>1, ThreadFacts, Holds DEF ThreadOK, Sending
    <3>3. th[q].id \in Id \ IdsOf(p)
      BY <3>2, <2>3, PortBounds, IdsDisjoint
    <3>. QED BY <3>1, <3>3 DEF IdInv, Unsent
  <2>. QED BY <2>2, <2>3
<1>3. ASSUME NEW i \in Id, OnWay(i)' PROVE Waits(i)'
  <2>1. OnWay(i) /\ Waits(i)
    BY <1>3 DEF OnWay, ReaderIds, IdInv
  <2>. QED BY <2>1 DEF Waits
<1>. QED BY <1>1, <1>2, <1>3

\* ... that leaves the flags of the trackers alone
LEMMA SenderFlagsKept ==
    ASSUME IInv, IdInv, NEW p \in Port, NEW t, th' = [th EXCEPT ![p] = t],
           UNCHANGED <<fw, pipe, rd, gap, lost, state>>,
           t.pc \in Sending => th[p].pc \in Sending /\ t.id = th[p].id
    PROVE  IdInv'
<1>1. lost = 0 =>
        /\ \A i \in IdsOf(p) : OnWay(i) => Waits(i)'
        /\ t.pc \in Sending => "SENT" \notin state'[t.id]
  BY PortBounds DEF IdInv, Waits, Unsent
<1>. QED BY <1>1, SenderIds

\* ... that changes those of a tracker whose packet is not on its way, or keeps
\* it waiting
LEMMA SenderFlagsChange ==
    ASSUME IInv, IdInv, NEW p \in Port, NEW t, th' = [th EXCEPT ![p] = t],
           UNCHANGED <<fw, pipe, rd, gap, lost>>,
           NEW i \in IdsOf(p), NEW s \in SUBSET Flag, state' = [state EXCEPT ![i] = s],
           lost = 0 /\ Waits(i) => {"INUSE", "SENT"} \subseteq s /\ "SIGNALLED" \notin s,
           t.pc \in Sending => t.id = i /\ "SENT" \notin s
    PROVE  IdInv'
<1>1. /\ i \in Id /\ state'[i] = s
      /\ \A j \in Id \ {i} : state'[j] = state[j]
  BY TypeFacts, PortBounds
<1>2. \A j \in Id \ IdsOf(p) : state'[j] = state[j]
  BY <1>1
<1>3. ASSUME lost = 0, NEW j \in IdsOf(p), OnWay(j) PROVE Waits(j)'
  <2>1. j \in Id /\ Waits(j)
    BY <1>3, PortBounds DEF IdInv
  <2>. QED BY <2>1, <1>1, <1>3 DEF Waits
<1>4. t.pc \in Sending => "SENT" \notin state'[t.id]
  BY <1>1
<1>. QED BY <1>2, <1>3, <1>4, SenderIds

-----------------------------------------------------------------------------
(* The steps of a sender                                                      *)

\* When a packet is through, the next is not yet claimed
LEMMA SentPc ==
    ASSUME NEW t \in ThreadState, NEW res \in Code
    PROVE  Sent(t, res).pc \notin Sending /\ Ends(t).pc \notin Sending
<1>1. \A r \in Code : Idle(r).pc = "idle" /\ Idle(r) \in ThreadState
  BY IdleOK
<1>2. ASSUME NEW u \in ThreadState, NEW r \in Code PROVE Over(u, r).pc = "idle"
  BY <1>1 DEF Over, ThreadState
<1>3. ASSUME NEW u \in ThreadState PROVE Ends(u).pc \in {"idle", "wait"}
  <2>1. FirstError(u.error, u.res) \in Code
    BY DEF FirstError, ThreadState
  <2>2. [u EXCEPT !.pc = "wait", !.id = Head(u.list), !.ending = TRUE].pc = "wait"
    BY DEF ThreadState
  <2>. QED BY <2>1, <2>2, <1>2 DEF Ends
<1>4. [t EXCEPT !.pc = "get", !.id = NoId, !.todo = @ - 1].pc = "get"
  BY DEF ThreadState
<1>5. [t EXCEPT !.res = res] \in ThreadState
  BY DEF ThreadState
<1>6. Ends([t EXCEPT !.res = res]).pc \in {"idle", "wait"}
  BY <1>3, <1>5
<1>7. Sent(t, res).pc \in {"idle", "wait", "get"}
  BY <1>2, <1>4, <1>6 DEF Sent
<1>. QED BY <1>3, <1>7 DEF Sending

LEMMA RequestIds ==
    ASSUME IInv, IdInv, NEW p \in Port, Request(p) PROVE IdInv'
<1>1. PICK n \in 1..MaxBatch :
        th' = [th EXCEPT ![p] = [Idle("OK") EXCEPT !.pc = "get", !.todo = n,
                                                   !.all = n, !.trans = n > 1]]
  BY DEF Request
<1> DEFINE t == [Idle("OK") EXCEPT !.pc = "get", !.todo = n, !.all = n, !.trans = n > 1]
<1>2. t.pc = "get"
  BY DEF Idle
<1>3. th' = [th EXCEPT ![p] = t]
  BY <1>1
<1>. HIDE DEF t
<1>. QED BY <1>2, <1>3, SenderFlagsKept DEF Request, trackers, hub, Sending

LEMMA GetTrackerIds ==
    ASSUME IInv, IdInv, NEW p \in Port, GetTracker(p) PROVE IdInv'
<1>1. PICK j \in FreeAt(p), n \in Sizes :
        /\ state' = [state EXCEPT ![Candidate(p, j)] = @ \cup {"INUSE"}]
        /\ th' = [th EXCEPT ![p].pc = "claim", ![p].id = Candidate(p, j), ![p].size = n]
  BY DEF GetTracker
<1> DEFINE i == Candidate(p, j)
           t == [th[p] EXCEPT !.pc = "claim", !.id = i, !.size = n]
<1>2. i \in IdsOf(p) /\ i \in Id /\ "INUSE" \notin state[i]
  BY CandidateOK, PortBounds DEF FreeAt, Is, IInv, TypesOK
<1>3. th' = [th EXCEPT ![p] = t] /\ t.id = i
  BY <1>1, ThreadFacts DEF ThreadState
<1>. HIDE DEF i, t
<1>4. state[i] = {}
  BY <1>2, ThreadFacts DEF Accounted
<1>5. state' = [state EXCEPT ![i] = {"INUSE"}] /\ {"INUSE"} \in SUBSET Flag
  BY <1>1, <1>2, <1>4 DEF i, Flag
<1>6. UNCHANGED <<fw, pipe, rd, gap, lost>>
  BY DEF GetTracker, hub, bounds
<1>7. ~Waits(i) /\ "SENT" \notin {"INUSE"}
  BY <1>2 DEF Waits
<1>. QED BY <1>2, <1>3, <1>5, <1>6, <1>7, SenderFlagsChange

LEMMA ClaimIds ==
    ASSUME IInv, IdInv, NEW p \in Port, ClaimSpace(p) \/ SetLength(p) PROVE IdInv'
<1>1. PICK pc \in {"length", "send"} : th' = [th EXCEPT ![p].pc = pc]
  BY DEF ClaimSpace, SetLength, Goto
<1> DEFINE t == [th[p] EXCEPT !.pc = pc]
<1>2. th' = [th EXCEPT ![p] = t] /\ t.id = th[p].id /\ th[p].pc \in Sending
  BY <1>1, ThreadFacts DEF ThreadState, ClaimSpace, SetLength, At, Sending
<1>. HIDE DEF t
<1>3. UNCHANGED <<fw, pipe, rd, gap, lost, state>>
  BY DEF ClaimSpace, SetLength, trackers, hub, bounds
<1>. QED BY <1>2, <1>3, SenderFlagsKept

\* A tracker that is released by force has not sent its packet
LEMMA TimeoutIds ==
    ASSUME IInv, IdInv, NEW p \in Port, GetTimesOut(p) \/ ClaimTimesOut(p) PROVE IdInv'
<1> DEFINE t == Sent(th[p], "TIMEOUT")
           i == th[p].id
<1>1. t.pc \notin Sending
  BY SentPc, ThreadFacts DEF Code
<1>2. th' = [th EXCEPT ![p] = t] /\ UNCHANGED <<fw, pipe, rd, gap, lost>>
  BY DEF GetTimesOut, ClaimTimesOut, hub, bounds
<1>3. CASE GetTimesOut(p)
  <2>1. state' = state
    BY <1>3 DEF GetTimesOut, trackers
  <2>. HIDE DEF t
  <2>. QED BY <1>1, <1>2, <2>1, SenderFlagsKept
<1>4. CASE ClaimTimesOut(p)
  <2>1. /\ i \in IdsOf(p) /\ state' = [state EXCEPT ![i] = {}] /\ {} \in SUBSET Flag
        /\ lost = 0 => ~Waits(i)
    BY <1>4, HoldingFacts, Holds DEF ClaimTimesOut, At, IdInv, Unsent, Sending, Waits
  <2>. HIDE DEF t, i
  <2>. QED BY <1>1, <1>2, <2>1, SenderFlagsChange
<1>. QED BY <1>3, <1>4

LEMMA WaitIds ==
    ASSUME IInv, IdInv, NEW p \in Port,
           SendFails(p) \/ SendInterrupted(p) \/ WaitAnswered(p) \/ WaitTimesOut(p)
    PROVE  IdInv'
<1>1. th'[p].pc = "release" /\ \A q \in Port \ {p} : th'[q] = th[q]
  BY ThreadFacts
     DEF SendFails, SendInterrupted, WaitAnswered, WaitTimesOut, Waited, ThreadState
<1>2. th' \in [Port -> ThreadState]
  BY WaitStep DEF IInv, ThreadsOK
<1> DEFINE t == th'[p]
<1>3. th' = [th EXCEPT ![p] = t] /\ t.pc \notin Sending
  BY <1>1, <1>2, ThreadFacts DEF Sending
<1>. HIDE DEF t
<1>4. UNCHANGED <<fw, pipe, rd, gap, lost, state>>
  BY DEF SendFails, SendInterrupted, WaitAnswered, WaitTimesOut, trackers, hub, bounds
<1>. QED BY <1>3, <1>4, SenderFlagsKept

\* A packet that is sent is on its way from now on
LEMMA SendIds ==
    ASSUME IInv, IdInv, NEW p \in Port, Send(p) PROVE IdInv'
<1> DEFINE i == th[p].id
<1>1. th[p].pc = "send" /\ th[p].pc \in Holding /\ th[p].pc \in Sending
  BY Holds DEF Send, At, Sending
<1>2. i \in IdsOf(p) /\ i \in Id /\ i \in HeldBy(th[p])
  BY <1>1, HoldingFacts, ThreadFacts DEF ThreadOK
<1>3. "INUSE" \in state[i] /\ "SIGNALLED" \notin state[i]
  BY <1>2, ThreadFacts DEF Accounted, Send, Is
<1>4. /\ state'[i] = state[i] \cup {"SENT"}
      /\ \A j \in Id \ {i} : state'[j] = state[j]
  BY <1>2, TypeFacts DEF Send
<1>5. UNCHANGED <<rd, gap, lost>>
  BY DEF Send, bounds
<1>6. /\ th'[p].pc \in {"reap", "wait"}
      /\ \A q \in Port \ {p} : th'[q] = th[q]
  BY ThreadFacts DEF Send, Goto, ThreadState
<1> DEFINE pkt == [id |-> i, len |-> th[p].size, request |-> left[p]]
           r == [kind |-> "return", id |-> i, code |-> "NOSPC"]
<1>7. pkt.id = i /\ pkt \in Packet /\ r.id = i /\ r.kind = "return"
  BY <1>2, ThreadFacts DEF Packet, IInv, TypesOK, ThreadState
<1>8. \/ fw' = [fw EXCEPT ![p] = Append(@, pkt)] /\ pipe' = pipe
      \/ fw' = fw /\ pipe' = Append(pipe, r)
  BY DEF Send
<1>. HIDE DEF pkt, r, i
<1>9. /\ fw[p] \in Seq(Packet) /\ fw \in [Port -> Seq(Packet)]
      /\ \E S : pipe \in Seq(S)
  BY TypeFacts
<1>10. \A q \in Port : Ids(fw'[q]) \subseteq IdsOf(q)
  <2>1. \A q \in Port : fw'[q] = fw[q] \/ (q = p /\ fw'[q] = Append(fw[p], pkt))
    BY <1>8, <1>9
  <2>2. Ids(Append(fw[p], pkt)) = Ids(fw[p]) \cup {i}
    BY <1>7, <1>9, IdsAppend
  <2>. QED BY <1>2, <2>1, <2>2 DEF IdInv
<1>11. ASSUME lost = 0
       PROVE  (NoGap /\ Apart /\ Unsent /\ \A j \in Id : OnWay(j) => Waits(j))'
  <2>1. NoGap /\ Apart /\ Unsent /\ \A j \in Id : OnWay(j) => Waits(j)
    BY <1>11 DEF IdInv
  <2>2. ~OnWay(i)
    BY <1>1, <1>2, <2>1 DEF Unsent, Waits, i
  <2>3. ReaderIds' = ReaderIds
    BY <1>5 DEF ReaderIds
  <2>4. Apart' /\ \A j : OnWay(j)' => OnWay(j) \/ j = i
    <3>1. CASE fw' = [fw EXCEPT ![p] = Append(@, pkt)] /\ pipe' = pipe
      <4>1. /\ Ids(fw'[p]) = Ids(fw[p]) \cup {i} /\ Once(fw'[p])
            /\ \A q \in Port \ {p} : fw'[q] = fw[q]
        BY <1>7, <1>9, <2>1, <2>2, <3>1, IdsAppend DEF Apart, OnWay
      <4>. QED BY <2>1, <2>2, <2>3, <3>1, <4>1 DEF Apart, OnWay
    <3>2. CASE fw' = fw /\ pipe' = Append(pipe, r)
      <4>1. AnsOnce(pipe') /\ AnsIds(pipe') = AnsIds(pipe) \cup {i}
        BY <1>7, <1>9, <2>1, <2>2, <3>2, AnsAppend DEF Apart, OnWay
      <4>. QED BY <2>1, <2>2, <2>3, <3>2, <4>1 DEF Apart, OnWay
    <3>. QED BY <1>8, <3>1, <3>2
  <2>5. NoGap'
    BY <1>5, <2>1 DEF NoGap
  <2>6. Unsent'
    <3>. SUFFICES ASSUME NEW q \in Port, th'[q].pc \in Sending
         PROVE  "SENT" \notin state'[th'[q].id]
      BY DEF Unsent
    <3>1. q # p /\ th'[q] = th[q]
      BY <1>6 DEF Sending
    <3>2. th[q].id \in IdsOf(q)
      BY <3>1, ThreadFacts, Holds DEF ThreadOK, Sending
    <3>3. th[q].id \in Id \ {i}
      BY <1>2, <3>1, <3>2, PortBounds, IdsDisjoint
    <3>. QED BY <1>4, <2>1, <3>1, <3>3 DEF Unsent
  <2>7. ASSUME NEW j \in Id, OnWay(j)' PROVE Waits(j)'
    BY <1>3, <1>4, <2>1, <2>4, <2>7 DEF Waits
  <2>. QED BY <2>4, <2>5, <2>6, <2>7
<1>. QED BY <1>5, <1>10, <1>11 DEF IdInv

\* A transaction releases only what is answered
LEMMA ReapIds ==
    ASSUME IInv, IdInv, NEW p \in Port, Reap(p) PROVE IdInv'
<1> DEFINE t == th'[p]
<1>1. UNCHANGED <<fw, pipe, rd, gap, lost>>
  BY DEF Reap, hub, bounds
<1>2. PICK u \in ThreadState : th' = [th EXCEPT ![p] = Sent(u, "OK")]
  <2>1. th[p] \in ThreadState /\ th[p].list \in Seq(Id) /\ th[p].id \in Id
    BY ThreadFacts, HoldingFacts, Holds DEF Reap, At
  <2>2. CASE Done(p) = {}
    <3>1. Append(th[p].list, th[p].id) \in Seq(Id)
      BY <2>1, AppendProperties
    <3>2. [th[p] EXCEPT !.list = Append(@, th[p].id)] \in ThreadState
      BY <2>1, <3>1 DEF ThreadState
    <3>. QED BY <2>2, <3>2 DEF Reap
  <2>3. CASE Done(p) # {}
    <3>1. PICK k \in Done(p) : th' = [th EXCEPT ![p] =
            Sent([th[p] EXCEPT !.list = Append(RemoveAt(@, k), th[p].id),
                               !.error = FirstError(@, code[th[p].list[k]])], "OK")]
      BY <2>3 DEF Reap
    <3>2. k \in 1..Len(th[p].list) /\ th[p].list[k] \in Id
      BY <2>1, LenProperties DEF Done
    <3>3. Append(RemoveAt(th[p].list, k), th[p].id) \in Seq(Id)
      BY <2>1, <3>2, RemoveAtElements, AppendProperties
    <3>4. FirstError(th[p].error, code[th[p].list[k]]) \in Code
      BY <2>1, <3>2, ThreadFacts DEF FirstError, ThreadState
    <3>. QED BY <2>1, <3>1, <3>3, <3>4 DEF ThreadState
  <2>. QED BY <2>2, <2>3
<1>3. th' = [th EXCEPT ![p] = t] /\ t.pc \notin Sending
  BY <1>2, SentPc, ThreadFacts DEF Code
<1>. HIDE DEF t
<1>4. CASE state' = state
  BY <1>1, <1>3, <1>4, SenderFlagsKept
<1>5. CASE \E k \in Done(p) : state' = [state EXCEPT ![th[p].list[k]] = {}]
  <2>1. PICK k \in Done(p) : state' = [state EXCEPT ![th[p].list[k]] = {}]
    BY <1>5
  <2> DEFINE i == th[p].list[k]
  <2>2. i \in IdsOf(p) /\ ~Waits(i)
    <3>1. i \in ToSet(th[p].list) /\ "SIGNALLED" \in state[i]
      BY DEF Done, ToSet, Is
    <3>. QED BY <3>1, ThreadFacts DEF ThreadOK, Waits
  <2>3. state' = [state EXCEPT ![i] = {}] /\ {} \in SUBSET Flag
    BY <2>1
  <2>. HIDE DEF i
  <2>. QED BY <1>1, <1>3, <2>2, <2>3, SenderFlagsChange
<1>. QED BY <1>4, <1>5 DEF Reap

\* A tracker whose packet is on its way is abandoned and not free
LEMMA ReleaseIds ==
    ASSUME IInv, IdInv, NEW p \in Port, Release(p) PROVE IdInv'
<1> DEFINE i == th[p].id
           t == IF th[p].ending THEN Ends([th[p] EXCEPT !.list = Tail(@)])
                ELSE Sent(th[p], th[p].res)
<1>1. th' = [th EXCEPT ![p] = t] /\ state' = [state EXCEPT ![i] = Released(i)]
  BY DEF Release
<1>2. UNCHANGED <<fw, pipe, rd, gap, lost>>
  BY DEF Release, hub, bounds
<1>3. th[p].pc \in Holding
  BY Holds DEF Release, At
<1>4. t.pc \notin Sending
  <2>1. CASE th[p].ending
    <3>1. Tail(th[p].list) \in Seq(Id)
      BY <1>3, <2>1, ThreadFacts, HoldingFacts, HeadTailProperties
    <3>2. [th[p] EXCEPT !.list = Tail(@)] \in ThreadState /\ th[p].res \in Code
      BY <3>1, ThreadFacts DEF ThreadState
    <3>. QED BY <2>1, <3>2, SentPc
  <2>2. CASE ~th[p].ending
    <3>1. th[p].res \in Code
      BY ThreadFacts DEF ThreadState
    <3>. QED BY <2>2, <3>1, SentPc, ThreadFacts
  <2>. QED BY <2>1, <2>2
<1>5. i \in IdsOf(p) /\ i \in Id
  BY <1>3, HoldingFacts
<1>6. /\ Released(i) \in SUBSET Flag
      /\ Waits(i) => {"INUSE", "SENT"} \subseteq Released(i) /\ "SIGNALLED" \notin Released(i)
  <2>1. state[i] \subseteq Flag
    BY <1>5, TypeFacts
  <2>. QED BY <2>1 DEF Released, Waits, Flag
<1>. HIDE DEF t, i
<1>. QED BY <1>1, <1>2, <1>4, <1>5, <1>6, SenderFlagsChange

LEMMA SendersIds ==
    ASSUME IInv, IdInv, NEW p \in Port, Request(p) \/ Sender(p) \/ TimesOut(p) \/ SendFails(p)
    PROVE  IdInv'
BY RequestIds, GetTrackerIds, ClaimIds, TimeoutIds, WaitIds, SendIds, ReapIds, ReleaseIds
   DEF Sender, TimesOut

-----------------------------------------------------------------------------
(* The steps of the reader and the hub                                        *)

LEMMA OtherIds ==
    ASSUME IInv, IdInv, UNCHANGED <<th, lost>>,
           \A p \in Port : Ids(fw'[p]) \subseteq IdsOf(p),
           lost = 0 =>
                /\ NoGap' /\ Apart'
                /\ \A j \in Id : OnWay(j)' => Waits(j)'
                /\ \A j \in Id : "SENT" \in state'[j] => "SENT" \in state[j]
    PROVE  IdInv'
<1>1. ASSUME lost = 0 PROVE Unsent'
  <2>. SUFFICES ASSUME NEW p \in Port, th[p].pc \in Sending
       PROVE  "SENT" \notin state'[th[p].id]
    BY DEF Unsent
  <2>1. th[p].id \in Id
    BY HoldingFacts, Holds DEF Sending
  <2>. QED BY <1>1, <2>1 DEF IdInv, Unsent
<1>. QED BY <1>1 DEF IdInv

\* The reader takes a report: its answer is now with the reader
LEMMA ReadIds ==
    ASSUME IInv, IdInv, ReadReturn \/ ReadStatus \/ ReadData PROVE IdInv'
<1>1. UNCHANGED <<th, lost, fw, state>> /\ pipe # <<>> /\ pipe' = Tail(pipe)
      /\ gap' = FALSE /\ rd.pc = "idle"
  BY DEF ReadReturn, ReadStatus, ReadData, trackers, bounds
<1>2. \A p \in Port : Ids(fw'[p]) \subseteq IdsOf(p)
  BY <1>1 DEF IdInv
<1>3. ASSUME lost = 0
      PROVE  /\ NoGap' /\ Apart'
             /\ \A j \in Id : OnWay(j)' => Waits(j)'
  <2>1. NoGap /\ Apart /\ \A j \in Id : OnWay(j) => Waits(j)
    BY <1>3 DEF IdInv
  <2>2. ReaderIds = {}
    BY <1>1 DEF ReaderIds
  <2>3. PICK S : pipe \in Seq(S)
    BY TypeFacts
  <2>4. /\ AnsOnce(pipe')
        /\ Head(pipe).kind = "return" =>
            /\ Head(pipe).id \in AnsIds(pipe)
            /\ AnsIds(pipe') = AnsIds(pipe) \ {Head(pipe).id}
        /\ Head(pipe).kind # "return" => AnsIds(pipe') = AnsIds(pipe)
    BY <1>1, <2>1, <2>3, AnsTail DEF Apart
  <2>5. NoGap' /\ AnsIds(pipe') \cap ReaderIds' = {}
        /\ AnsIds(pipe') \cup ReaderIds' = AnsIds(pipe)
    <3>1. CASE ReadReturn
      <4>1. /\ rd'.pc = "code" /\ rd'.id = Head(pipe).id /\ rd'.gap = gap
            /\ Head(pipe).kind = "return"
        BY <3>1 DEF ReadReturn
      <4>2. ReaderIds' = {Head(pipe).id}
        BY <4>1 DEF ReaderIds
      <4>. QED BY <1>1, <2>1, <2>4, <4>1, <4>2 DEF NoGap
    <3>2. CASE ReadStatus \/ ReadData
      <4>1. rd' = Checked([rd EXCEPT !.gap = gap]) /\ Head(pipe).kind # "return"
        BY <3>2 DEF ReadStatus, ReadData
      <4>2. ~[rd EXCEPT !.gap = gap].gap
        BY <2>1, TypeFacts DEF NoGap
      <4>3. rd' = Reads
        BY <4>1, <4>2 DEF Checked
      <4>. QED BY <1>1, <2>4, <4>1, <4>3 DEF NoGap, Reads, ReaderIds
    <3>. QED BY <3>1, <3>2
  <2>6. Apart'
    BY <1>1, <2>1, <2>2, <2>4, <2>5 DEF Apart
  <2>7. ASSUME NEW j \in Id, OnWay(j)' PROVE Waits(j)'
    <3>1. OnWay(j)
      BY <1>1, <2>2, <2>5, <2>7 DEF OnWay
    <3>. QED BY <1>1, <2>1, <3>1 DEF Waits
  <2>. QED BY <2>5, <2>6, <2>7
<1>. QED BY <1>1, <1>2, <1>3, OtherIds

\* The reader is through with an answer, whose tracker it may have changed
LEMMA ReaderIdsGone ==
    ASSUME IInv, IdInv, UNCHANGED <<th, lost, fw, pipe, gap>>,
           lost = 0 =>
                /\ rd'.pc \notin {"code", "asklost", "kill"} /\ ~rd'.gap
                /\ \A j \in Id \ ReaderIds : state'[j] = state[j]
                /\ \A j \in Id : "SENT" \in state'[j] => "SENT" \in state[j]
    PROVE  IdInv'
<1>1. \A p \in Port : Ids(fw'[p]) \subseteq IdsOf(p)
  BY DEF IdInv
<1>2. ASSUME lost = 0
      PROVE  /\ NoGap' /\ Apart'
             /\ \A j \in Id : OnWay(j)' => Waits(j)'
  <2>1. NoGap /\ Apart /\ \A j \in Id : OnWay(j) => Waits(j)
    BY <1>2 DEF IdInv
  <2>2. ReaderIds' = {}
    BY <1>2 DEF ReaderIds
  <2>3. NoGap' /\ Apart'
    BY <1>2, <2>1, <2>2 DEF NoGap, Apart
  <2>4. ASSUME NEW j \in Id, OnWay(j)' PROVE Waits(j)'
    <3>1. OnWay(j) /\ j \notin ReaderIds
      BY <2>1, <2>2, <2>4 DEF OnWay, Apart
    <3>. QED BY <1>2, <2>1, <3>1 DEF Waits
  <2>. QED BY <2>3, <2>4
<1>. QED BY <1>1, <1>2, OtherIds

LEMMA ReaderStepIds ==
    ASSUME IInv, IdInv,
           ReturnUnexpected \/ ReleaseSpace \/ CountsUnknown \/ AskStatus \/ AskFails
    PROVE  IdInv'
<1>1. UNCHANGED <<th, lost, fw, pipe, gap, state>>
  BY DEF ReturnUnexpected, ReleaseSpace, CountsUnknown, AskStatus, AskFails,
         trackers, hub, bounds
<1>2. ASSUME lost = 0
      PROVE  rd'.pc \notin {"code", "asklost", "kill"} /\ ~rd'.gap
  <2>1. NoGap
    BY <1>2 DEF IdInv
  <2>2. ~rd.gap /\ rd.pc \notin {"asklost", "kill"}
    BY <2>1 DEF NoGap
  <2>3. \A pc \in {"unknown", "ask"} :
            [rd EXCEPT !.pc = pc].pc = pc /\ ~[rd EXCEPT !.pc = pc].gap
    BY <2>2, TypeFacts
  <2>4. Checked(rd) = Reads /\ Reads.pc = "idle" /\ ~Reads.gap
    BY <2>2 DEF Checked, Reads
  <2>5. CASE ReturnUnexpected \/ CountsUnknown
    <3>1. PICK pc \in {"unknown", "ask"} : rd' = [rd EXCEPT !.pc = pc]
      BY <2>5 DEF ReturnUnexpected, CountsUnknown
    <3>. QED BY <2>3, <3>1
  <2>6. CASE ReleaseSpace
    BY <2>3, <2>4, <2>6 DEF ReleaseSpace
  <2>7. CASE AskStatus \/ AskFails
    <3>1. rd' = Checked(rd)
      BY <2>2, <2>7 DEF AskStatus, AskFails, Asked
    <3>. QED BY <2>4, <3>1
  <2>. QED BY <2>5, <2>6, <2>7
<1>. QED BY <1>1, <1>2, ReaderIdsGone

LEMMA SetReturnCodeIds ==
    ASSUME IInv, IdInv, SetReturnCode PROVE IdInv'
<1> DEFINE i == rd.id
           flags == IF Is(i, "ABANDONED") THEN {} ELSE state[i] \cup {"SIGNALLED"}
<1>1. i \in ReaderIds /\ i \in Id
  BY TypeFacts DEF SetReturnCode, ReaderIds
<1>2. state' = [state EXCEPT ![i] = flags]
  BY <1>1, TypeFacts DEF SetReturnCode, Answered
<1>3. "SENT" \in flags => "SENT" \in state[i]
  OBVIOUS
<1>. HIDE DEF flags
<1>4. /\ \A j \in Id \ ReaderIds : state'[j] = state[j]
      /\ \A j \in Id : "SENT" \in state'[j] => "SENT" \in state[j]
  BY <1>1, <1>2, <1>3, TypeFacts
<1>5. UNCHANGED <<th, lost, fw, pipe, gap>>
  BY DEF SetReturnCode, hub, bounds
<1>6. ASSUME lost = 0
      PROVE  rd'.pc \notin {"code", "asklost", "kill"} /\ ~rd'.gap
  BY <1>6, TypeFacts DEF SetReturnCode, IdInv, NoGap
<1>. QED BY <1>4, <1>5, <1>6, ReaderIdsGone

\* The hub answers a packet
LEMMA AnswerIdsMove ==
    ASSUME IInv, IdInv, NEW p \in Port, Answer(p) PROVE IdInv'
<1>1. UNCHANGED <<th, lost, rd, state, gap>> /\ fw[p] # <<>>
      /\ fw' = [fw EXCEPT ![p] = Tail(@)]
  BY DEF Answer, trackers, bounds
<1>2. PICK c \in {"OK", "UNEXPECTED"} :
        pipe' = Append(pipe, [kind |-> "return", id |-> Head(fw[p]).id, code |-> c])
  BY DEF Answer
<1> DEFINE i == Head(fw[p]).id
           r == [kind |-> "return", id |-> i, code |-> c]
<1>3. pipe' = Append(pipe, r) /\ r.id = i /\ r.kind = "return"
  BY <1>2
<1>. HIDE DEF r
<1>4. fw[p] \in Seq(Packet) /\ fw \in [Port -> Seq(Packet)] /\ \E S : pipe \in Seq(S)
  BY TypeFacts
<1>5. /\ i \in Ids(fw[p])
      /\ Ids(Tail(fw[p])) \subseteq Ids(fw[p])
      /\ Once(fw[p]) => Once(Tail(fw[p])) /\ Ids(Tail(fw[p])) = Ids(fw[p]) \ {i}
  BY <1>1, <1>4, IdsTail
<1>6. fw'[p] = Tail(fw[p]) /\ \A q \in Port \ {p} : fw'[q] = fw[q]
  BY <1>1, <1>4
<1>. HIDE DEF i
<1>7. \A q \in Port : Ids(fw'[q]) \subseteq IdsOf(q)
  BY <1>5, <1>6 DEF IdInv
<1>8. ASSUME lost = 0
      PROVE  /\ NoGap' /\ Apart'
             /\ \A j \in Id : OnWay(j)' => Waits(j)'
  <2>1. NoGap /\ Apart /\ \A j \in Id : OnWay(j) => Waits(j)
    BY <1>8 DEF IdInv
  <2>2. ReaderIds' = ReaderIds /\ NoGap'
    BY <1>1, <2>1 DEF ReaderIds, NoGap
  <2>3. i \notin AnsIds(pipe) /\ i \notin ReaderIds
    BY <1>5, <2>1 DEF Apart
  <2>4. AnsOnce(pipe') /\ AnsIds(pipe') = AnsIds(pipe) \cup {i}
    BY <1>3, <1>4, <2>1, <2>3, AnsAppend DEF Apart
  <2>5. Ids(fw'[p]) = Ids(fw[p]) \ {i} /\ Once(fw'[p])
    BY <1>5, <1>6, <2>1 DEF Apart
  <2>6. \A q \in Port \ {p} : i \notin Ids(fw[q])
    BY <1>5, IdsDisjoint DEF IdInv
  <2>7. Apart'
    BY <1>6, <2>1, <2>2, <2>3, <2>4, <2>5, <2>6 DEF Apart
  <2>8. ASSUME NEW j \in Id, OnWay(j)' PROVE Waits(j)'
    <3>1. OnWay(j)
      BY <1>5, <1>6, <2>2, <2>4, <2>5, <2>8 DEF OnWay
    <3>. QED BY <1>1, <2>1, <3>1 DEF Waits
  <2>. QED BY <2>2, <2>7, <2>8
<1>. QED BY <1>1, <1>7, <1>8, OtherIds

\* The hub tells its status
LEMMA StatusIds ==
    ASSUME IInv, IdInv, Status PROVE IdInv'
<1> DEFINE r == [kind |-> "status", used |-> [p \in Port |-> Used(p)]]
<1>1. UNCHANGED <<th, lost, rd, state, gap, fw>> /\ pipe' = Append(pipe, r)
      /\ r.kind # "return"
  BY DEF Status, trackers, bounds
<1>. HIDE DEF r
<1>2. \A p \in Port : Ids(fw'[p]) \subseteq IdsOf(p)
  BY <1>1 DEF IdInv
<1>3. ASSUME lost = 0
      PROVE  /\ NoGap' /\ Apart'
             /\ \A j \in Id : OnWay(j)' => Waits(j)'
  <2>1. NoGap /\ Apart /\ \A j \in Id : OnWay(j) => Waits(j)
    BY <1>3 DEF IdInv
  <2>2. ReaderIds' = ReaderIds /\ NoGap'
    BY <1>1, <2>1 DEF ReaderIds, NoGap
  <2>3. PICK S : pipe \in Seq(S)
    BY TypeFacts
  <2>4. AnsOnce(pipe') /\ AnsIds(pipe') = AnsIds(pipe)
    BY <1>1, <2>1, <2>3, AnsAppend DEF Apart
  <2>5. Apart' /\ \A j \in Id : OnWay(j)' => OnWay(j)
    BY <1>1, <2>1, <2>2, <2>4 DEF Apart, OnWay
  <2>. QED BY <1>1, <2>1, <2>2, <2>5 DEF Waits
<1>. QED BY <1>1, <1>2, <1>3, OtherIds

\* What happens only when a report is lost
LEMMA LostIds ==
    ASSUME IInv, IdInv, KillOutstanding \/ Data \/ Lose PROVE IdInv'
<1>1. fw' = fw /\ lost' \in Nat
  BY DEF KillOutstanding, Data, Lose, hub, bounds, IdInv
<1>2. lost' # 0
  <2>1. CASE KillOutstanding
    BY <2>1 DEF KillOutstanding, bounds, IdInv, NoGap
  <2>2. CASE Data
    BY <2>2 DEF Data, bounds, IdInv, NoGap
  <2>3. CASE Lose
    BY <2>3 DEF Lose, IdInv
  <2>. QED BY <2>1, <2>2, <2>3
<1>. QED BY <1>1, <1>2 DEF IdInv

-----------------------------------------------------------------------------
(* The theorem                                                                *)

LEMMA InitIds == Init => IdInv
<1>. SUFFICES ASSUME Init PROVE IdInv
  OBVIOUS
<1>1. /\ \A p \in Port : Ids(fw[p]) = {} /\ Once(fw[p])
      /\ AnsIds(pipe) = {} /\ AnsOnce(pipe) /\ ReaderIds = {}
  BY DEF Init, Ids, Once, AnsIds, AnsOnce, Ans, ReaderIds, Reads
<1>2. NoGap
  BY DEF Init, NoGap, Reads
<1>3. \A p \in Port : th[p].pc = "idle"
  BY DEF Init, Idle
<1>4. Unsent
  BY <1>3 DEF Unsent, Sending
<1>5. lost \in Nat
  BY DEF Init
<1>. QED BY <1>1, <1>2, <1>4, <1>5 DEF IdInv, Apart, OnWay

LEMMA NextIds == IInv /\ IdInv /\ [Next]_vars => IdInv'
<1>. SUFFICES ASSUME IInv, IdInv, [Next]_vars PROVE IdInv'
  OBVIOUS
<1>1. ASSUME NEW p \in Port,
             Request(p) \/ Sender(p) \/ TimesOut(p) \/ SendFails(p) \/ Answer(p)
      PROVE  IdInv'
  BY <1>1, SendersIds, AnswerIdsMove
<1>2. CASE Reader \/ AskFails
  BY <1>2, ReadIds, ReaderStepIds, SetReturnCodeIds, LostIds DEF Reader
<1>3. CASE Status \/ Data \/ Lose
  BY <1>3, StatusIds, LostIds
<1>4. CASE UNCHANGED vars
  <2>1. UNCHANGED <<th, lost, rd, state, gap, fw, pipe>>
    BY <1>4 DEF vars, trackers, hub, bounds
  <2>. QED BY <2>1 DEF IdInv, NoGap, Apart, Unsent, OnWay, Waits, ReaderIds
<1>. QED BY <1>1, <1>2, <1>3, <1>4 DEF Next

\* As long as no report is lost, the id of a packet is in one place only and is
\* not given to another packet before its answer was read, although a tracker is
\* released when its wait times out (releasePacketTracker, packettracker.c).
THEOREM AnswersMeet == Spec => []IdNotReused
<1>1. Init => IInv /\ IdInv
  BY InitOK, InitIds
<1>2. IInv /\ IdInv /\ [Next]_vars => (IInv /\ IdInv)'
  BY NextOK, NextIds
<1>3. IInv /\ IdInv => IdNotReused
  BY IdInvImplies
<1>. QED BY <1>1, <1>2, <1>3, PTL DEF Spec

=============================================================================
